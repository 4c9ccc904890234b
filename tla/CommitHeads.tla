---------------------------- MODULE CommitHeads ----------------------------
(***************************************************************************)
(* commit_statuses of core/adapters/registry.py for one repository: the    *)
(* entry with the head of its default branch, how long it is believed, the *)
(* cool-down of forced checks, the back-off after failures and the memory  *)
(* of a repository that is not there.  Checks overlap: each looks at the   *)
(* entry, awaits GraphQL, then Atom, then REST, and stores what it got.    *)
(*                                                                         *)
(* GitHub is external.  Time is not counted: ages, cool-downs and back-    *)
(* offs end by a step.  Answers of fetch_json that come from its cache     *)
(* are old or not (VersionRegistry).                                       *)
(***************************************************************************)
EXTENDS Naturals

CONSTANTS
    Pages,        \* checks under way
    MaxHeads,     \* bound: commits pushed
    MaxFailures,  \* bound: failures that are counted; the back-off grows with them
    NoHead

ASSUME HeadsAssumption == {MaxHeads, MaxFailures} \subseteq Nat /\ NoHead \notin Nat

VARIABLES
    tip,       \* GitHub: the head of the branch
    entry,     \* _commit_cache[repo]
    page,      \* per check: where it is and what it answered
    restOld,   \* fetch_json's cache: the head it has, or NoHead
    readLately,\* history: heads read from GitHub within the time to live
    borrowed   \* history: heads that the REST cache answered

headsVars == <<tip, entry, page, restOld, readLately, borrowed>>

Heads == 0..MaxHeads
NoCommit == [head |-> NoHead, fresh |-> FALSE, cooling |-> FALSE, backoff |-> FALSE,
             negative |-> FALSE, failures |-> 0]
IdlePage == [pc |-> "idle", got |-> NoHead, head |-> NoHead, reason |-> "none"]
Reasons == {"none", "ttl", "manual_cooldown", "backoff", "negative_cache",
            "graphql", "atom", "rest", "rest_rate_budget", "failed"}

HeadsTypeOK ==
    /\ tip \in Heads /\ restOld \in Heads \cup {NoHead} /\ {readLately, borrowed} \subseteq SUBSET Heads
    /\ entry.head \in Heads \cup {NoHead} /\ entry.failures \in 0..MaxFailures
    /\ \A p \in Pages : /\ page[p].pc \in {"idle", "graphql", "atom", "rest", "got"}
                        /\ page[p].pc = "got" => page[p].got # NoHead
                        /\ page[p].reason \in Reasons

HeadsInit ==
    /\ tip = 0 /\ entry = NoCommit /\ restOld = NoHead /\ readLately = {} /\ borrowed = {}
    /\ page = [p \in Pages |-> IdlePage]

---------------------------------------------------------------------------
\* _commit_result: what the page is told.
Answer(p, e, reason) ==
    page' = [page EXCEPT ![p] = [IdlePage EXCEPT !.head = e.head, !.reason = reason]]
Go(p, pc) == page' = [page EXCEPT ![p] = [IdlePage EXCEPT !.pc = pc]]

\* The reasons that make an answer without the flag commit_stale.
Current(reason) == reason \in {"ttl", "graphql", "atom", "rest", "local_commit_missing"}
Stale(answer) == answer.head # NoHead /\ ~Current(answer.reason)

\* commit_statuses up to its first await: the entry answers within its time to
\* live; then the cool-down, the back-off, the negative cache.
Served(forced) ==
    CASE entry.head # NoHead /\ entry.fresh -> "ttl"
      [] entry.head # NoHead /\ forced /\ entry.cooling -> "manual_cooldown"
      [] entry.backoff -> "backoff"
      [] entry.negative -> "negative_cache"
      [] OTHER -> "none"
Look(p, forced, token) ==
    /\ page[p].pc = "idle"
    /\ IF Served(forced) # "none" THEN Answer(p, entry, Served(forced))
       ELSE Go(p, IF token THEN "graphql" ELSE "atom")
    /\ UNCHANGED <<tip, entry, restOld, readLately, borrowed>>

\* A source answers with the head of the moment; what it told is stored when
\* the check goes on, after others perhaps.
Reads(p, head) ==
    /\ page' = [page EXCEPT ![p].pc = "got", ![p].got = head, ![p].reason = page[p].pc]
    /\ readLately' = readLately \cup {head}
    /\ UNCHANGED <<tip, entry, borrowed>>
FromGraphql(p) == page[p].pc = "graphql" /\ Reads(p, tip) /\ UNCHANGED restOld
FromAtom(p) == page[p].pc = "atom" /\ Reads(p, tip) /\ UNCHANGED restOld
FromRest(p) == page[p].pc = "rest" /\ Reads(p, tip) /\ restOld' = tip

\* The REST answer may be that of fetch_json's cache while GitHub refuses.
FromRestCache(p) ==
    /\ page[p].pc = "rest" /\ restOld # NoHead
    /\ page' = [page EXCEPT ![p].pc = "got", ![p].got = restOld, ![p].reason = "rest"]
    /\ borrowed' = borrowed \cup {restOld}
    /\ UNCHANGED <<tip, entry, restOld, readLately>>

\* A source that fails or knows nothing hands over to the next.
HandsOver(p) ==
    /\ page[p].pc \in {"graphql", "atom"}
    /\ Go(p, IF page[p].pc = "graphql" THEN "atom" ELSE "rest")
    /\ UNCHANGED <<tip, entry, restOld, readLately, borrowed>>

\* _store_commit_success.
StoreHead(p) ==
    /\ page[p].pc = "got"
    /\ entry' = [NoCommit EXCEPT !.head = page[p].got, !.fresh = TRUE, !.cooling = TRUE]
    /\ Answer(p, entry', page[p].reason)
    /\ UNCHANGED <<tip, restOld, readLately, borrowed>>

\* _store_commit_failure: not found forgets the head; anything else keeps it,
\* with what is left of its time to live, and backs off.
RenewedHead(e) == [e EXCEPT !.fresh = e.head # NoHead]
KeptHead(e) == e
StoreFailure(p) ==
    /\ page[p].pc = "rest"
    /\ \/ /\ entry' = [NoCommit EXCEPT !.fresh = entry.fresh, !.cooling = TRUE, !.negative = TRUE]
          /\ Answer(p, entry', "negative_cache")
       \/ \E reason \in {"rest_rate_budget", "failed"} :
             /\ entry' = [KeptHead(entry) EXCEPT !.cooling = TRUE, !.backoff = TRUE,
                             !.failures = IF @ < MaxFailures THEN @ + 1 ELSE @]
             /\ Answer(p, entry', reason)
    /\ UNCHANGED <<tip, restOld, readLately, borrowed>>

---------------------------------------------------------------------------
Push == tip < MaxHeads /\ tip' = tip + 1 /\ UNCHANGED <<entry, page, restOld, readLately, borrowed>>

\* Time passes between checks: the cool-down is the shortest; the time to live,
\* which the negative cache shares, makes all that was read a matter of the
\* past; a back-off may be shorter or longer.
Later ==
    /\ \A p \in Pages : page[p].pc = "idle"
    /\ page' = [p \in Pages |-> IdlePage]
    /\ \/ /\ entry.cooling
          /\ entry' = [entry EXCEPT !.cooling = FALSE] /\ UNCHANGED readLately
       \/ /\ ~entry.cooling /\ entry.backoff
          /\ entry' = [entry EXCEPT !.backoff = FALSE] /\ UNCHANGED readLately
       \/ /\ ~entry.cooling /\ (entry.negative \/ readLately # {})
          /\ entry' = [entry EXCEPT !.fresh = FALSE, !.negative = FALSE]
          /\ readLately' = {}
    /\ UNCHANGED <<tip, restOld, borrowed>>

HeadsNext ==
    \/ \E p \in Pages, forced, token \in BOOLEAN : Look(p, forced, token)
    \/ \E p \in Pages : FromGraphql(p) \/ FromAtom(p) \/ FromRest(p) \/ FromRestCache(p)
                        \/ HandsOver(p) \/ StoreHead(p) \/ StoreFailure(p)
    \/ Push \/ Later

HeadsSpec == HeadsInit /\ [][HeadsNext]_headsVars

---------------------------------------------------------------------------
\* A head that is shown without the flag commit_stale was read from GitHub
\* within its time to live, whatever overlapping checks stored and failed in
\* between, unless the REST cache stepped in (registry.py:1125 and 1181).
StaleIsFlagged ==
    \A p \in Pages : page[p].head # NoHead /\ ~Stale(page[p]) =>
                        page[p].head \in readLately \cup borrowed
=============================================================================
