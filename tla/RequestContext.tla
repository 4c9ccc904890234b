--------------------------- MODULE RequestContext ---------------------------
(***************************************************************************)
(* core/request_context.py: the context that the plugins of the series     *)
(* share on one event, each plugin (owner) writing its own part: its       *)
(* prompt fragments, flags and reasons, and the phase, which all may       *)
(* advance.  Handlers of several plugins run on one event in any order;    *)
(* each call is synchronous.                                               *)
(*                                                                         *)
(* Keys are integers, 2n and 2n + 1 being one key in two letter cases; a   *)
(* content stands for itself with its blanks normalised.  Empty or         *)
(* oversized content is refused before anything is stored.                 *)
(***************************************************************************)
EXTENDS Integers, Sequences, SequencesExt

CONSTANTS
    Writers,        \* plugins, as integers: their order is that of the names
    FragmentKeys,   \* integers, for the same reason
    Texts, Priorities,
    MaxFragments,   \* MAX_PROMPT_FRAGMENTS_PER_OWNER, 16 in the code
    MaxReasons,     \* MAX_REASONS_PER_OWNER, 32 in the code
    MaxPhase,       \* the last of PHASE_ORDER
    Codes           \* reason codes

ASSUME ContextAssumption ==
    /\ Writers \cup FragmentKeys \cup Priorities \subseteq Int
    /\ {MaxFragments, MaxReasons, MaxPhase} \subseteq Nat

VARIABLES
    phase,      \* rank of the phase
    fragments,  \* per owner: its list of prompt fragments
    reasons,    \* per owner: its diagnostics
    first       \* history: when a key of an owner was first registered

contextVars == <<phase, fragments, reasons, first>>

Fragment == [key : FragmentKeys, text : Texts, priority : Priorities, index : Nat]

ContextInit ==
    /\ phase = 0
    /\ fragments = [o \in Writers |-> <<>>]
    /\ reasons = [o \in Writers |-> <<>>]
    /\ first = [o \in Writers |-> <<>>]

---------------------------------------------------------------------------
\* add_prompt_fragment: a known key keeps its place and its index; a new one
\* is refused at the limit.
IndexOf(o, k) == {n \in DOMAIN fragments[o] : fragments[o][n].key = k}
Made(k, t, pr, index) == [key |-> k, text |-> t, priority |-> pr, index |-> index]

Moved(o, k, t, pr) ==
    Append(SelectSeq(fragments[o], LAMBDA f : f.key # k), Made(k, t, pr, Len(fragments[o]) - 1))
Replaced(o, k, t, pr) ==
    LET n == CHOOSE m \in IndexOf(o, k) : \A j \in IndexOf(o, k) : m <= j
    IN [fragments[o] EXCEPT ![n] = Made(k, t, pr, @.index)]
AddFragment(o, k, t, pr) ==
    /\ IF IndexOf(o, k) # {}
       THEN fragments' = [fragments EXCEPT ![o] = Replaced(o, k, t, pr)] /\ UNCHANGED first
       ELSE /\ Len(fragments[o]) < MaxFragments
            /\ fragments' = [fragments EXCEPT ![o] = Append(@, Made(k, t, pr, Len(@)))]
            /\ first' = [first EXCEPT ![o] = Append(@, k)]
    /\ UNCHANGED <<phase, reasons>>

\* ensure_context and advance_phase: only forward.
AdvancePhase(rank) == phase' = (IF rank > phase THEN rank ELSE phase)
                      /\ UNCHANGED <<fragments, reasons, first>>

\* note(): a reason once, and none beyond the limit.
AddReason(o, r, rank) ==
    /\ phase' = IF rank > phase THEN rank ELSE phase
    /\ reasons' = [reasons EXCEPT ![o] =
          IF r \in {@[n] : n \in DOMAIN @} \/ Len(@) >= MaxReasons THEN @ ELSE Append(@, r)]
    /\ UNCHANGED <<fragments, first>>

\* A plugin overwrites the extra, or an older version of the contract is found:
\* ensure_context builds an empty one.
Rebuild(rank) ==
    /\ phase' = rank
    /\ fragments' = [o \in Writers |-> <<>>] /\ reasons' = [o \in Writers |-> <<>>]
    /\ first' = [o \in Writers |-> <<>>]

ContextNext ==
    \/ \E o \in Writers, k \in FragmentKeys, t \in Texts, pr \in Priorities :
          AddFragment(o, k, t, pr)
    \/ \E rank \in 0..MaxPhase : AdvancePhase(rank) \/ Rebuild(rank)
    \/ \E o \in Writers, r \in Codes, rank \in 0..MaxPhase : AddReason(o, r, rank)

ContextSpec == ContextInit /\ [][ContextNext]_contextVars

---------------------------------------------------------------------------
(* get_prompt_fragments: all of them sorted, then without those whose key  *)
(* or content came before.                                                 *)

Collected ==
    UNION {{[owner |-> o, f |-> fragments[o][n]] : n \in DOMAIN fragments[o]} : o \in Writers}
Before(a, b) ==
    \/ a.f.priority < b.f.priority
    \/ /\ a.f.priority = b.f.priority
       /\ \/ a.owner < b.owner
          \/ a.owner = b.owner /\ a.f.index < b.f.index
          \/ a.owner = b.owner /\ a.f.index = b.f.index /\ a.f.key < b.f.key
Folded(k) == k \div 2
Alike(a, b) == Folded(a.f.key) = Folded(b.f.key) \/ a.f.text = b.f.text

Step(kept, a) == IF \E n \in DOMAIN kept : Alike(kept[n], a) THEN kept ELSE Append(kept, a)

\* sorted(): the n-th is the one with n - 1 before it.
Rank(a, all) == Cardinality({b \in all : Before(b, a)})
Sorted(all) == [n \in 1..Cardinality(all) |-> CHOOSE a \in all : Rank(a, all) = n - 1]
Rendered == FoldLeft(Step, <<>>, Sorted(Collected))

---------------------------------------------------------------------------
\* What reaches the prompt does not depend on who came when: the order of a
\* plugin's fragments of one priority is that of their first registration,
\* whatever was registered again since, and a fragment is left out only for
\* one of the same key or content that is rendered before it
\* (request_context.py:274 "without changing insertion order").
Since(a) == CHOOSE n \in DOMAIN first[a.owner] : first[a.owner][n] = a.f.key
Precedes(a, b) ==
    /\ ~Alike(a, b)
    /\ a.f.priority <= b.f.priority
    /\ a.f.priority = b.f.priority => a.owner <= b.owner
    /\ a.f.priority = b.f.priority /\ a.owner = b.owner => Since(a) < Since(b)
RenderedInOrder ==
    LET shown == Rendered IN
    /\ \A n, m \in DOMAIN shown : n < m => Precedes(shown[n], shown[m])
    /\ \A a \in Collected : \E n \in DOMAIN shown :
          shown[n] = a \/ (Alike(shown[n], a) /\ Before(shown[n], a))
=============================================================================
