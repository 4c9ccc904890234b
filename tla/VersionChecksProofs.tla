------------------------- MODULE VersionChecksProofs -------------------------
(***************************************************************************)
(* What the two caches of the registry promise their readers, for any      *)
(* number of checks, versions, attempts and faults: the evidence of an     *)
(* update is full, and a head that is shown as current was read lately.    *)
(***************************************************************************)
EXTENDS VersionRegistry, CommitHeads, TLAPS

(***************************************************************************)
(* VersionRegistry.                                                        *)
(***************************************************************************)
Modes == {"none", "check", "full"}
Candidate ==
    [value : Nat \cup {Nothing}, mode : Modes, fresh : BOOLEAN, cooling : BOOLEAN]
Check ==
    [pc : {"idle", "ready", "sent", "answered", "sleep"}, mode : Modes, forced : BOOLEAN,
     tries : Nat, held : Nat \cup {Nothing},
     reply : {"none", "ok", "same", "limited", "error", "refused"},
     body : Nat \cup {Nothing}, left : Nat, got : Candidate]

CachesTyped ==
    /\ document \in Nat /\ quota \in Nat
    /\ json \in [value : Nat \cup {Nothing}, fresh : BOOLEAN]
    /\ latest \in Candidate
    /\ check \in [Checks -> Check]

\* A check has the mode it started with, and what it was given, or may fall back
\* on, fits it.
Fits(k) == k.mode = "full" => k.got.mode \in {"none", "full"}
EvidenceInv == CachesTyped /\ \A c \in Checks : Fits(check[c])

LEMMA IdleCheckFits == IdleCheck \in Check /\ NoLatest \in Candidate /\ Fits(IdleCheck)
  BY DEF IdleCheck, NoLatest, Check, Candidate, Modes, Fits

\* Only one check moves, and to what fits.
LEMMA CheckMoves ==
    ASSUME EvidenceInv, NEW c \in Checks, NEW k \in Check,
           check' = [check EXCEPT ![c] = k], Fits(k),
           document' \in Nat, quota' \in Nat, latest' \in Candidate,
           json' \in [value : Nat \cup {Nothing}, fresh : BOOLEAN]
    PROVE  EvidenceInv'
  BY DEF EvidenceInv, CachesTyped

\* The end of a check that was given a candidate.
LEMMA EndMoves ==
    ASSUME EvidenceInv, NEW c \in Checks, NEW mode \in Modes, NEW cand \in Candidate,
           End(c, mode, cand), mode = "full" => cand.mode \in {"none", "full"},
           document' \in Nat, quota' \in Nat, latest' \in Candidate,
           json' \in [value : Nat \cup {Nothing}, fresh : BOOLEAN]
    PROVE  EvidenceInv'
<1> DEFINE k == [IdleCheck EXCEPT !.mode = mode, !.got = cand]
<1>1. k \in Check /\ k.mode = mode /\ k.got = cand /\ k.reply = "none"
  BY DEF IdleCheck, Check, Modes
<1>2. check' = [check EXCEPT ![c] = k]
  BY DEF End
<1> HIDE DEF k
<1> QED
  BY <1>1, <1>2, CheckMoves DEF Fits

LEMMA StoreMoves ==
    ASSUME EvidenceInv, NEW c \in Checks, NEW mode \in Modes, NEW v \in Nat \cup {Nothing},
           Store(c, mode, v),
           document' \in Nat, quota' \in Nat,
           json' \in [value : Nat \cup {Nothing}, fresh : BOOLEAN]
    PROVE  EvidenceInv'
<1>1. latest' \in Candidate /\ latest'.mode = mode
  BY DEF Store, Candidate
<1> QED
  BY <1>1, EndMoves DEF Store

\* A check may fall back on a compatible candidate or none.
LEMMA FallBack ==
    ASSUME EvidenceInv, NEW mode \in Modes
    PROVE  LET cand == Cached(mode)
           IN  cand \in Candidate /\ (mode = "full" => cand.mode \in {"none", "full"})
  BY IdleCheckFits DEF Cached, Compatible, EvidenceInv, CachesTyped, NoLatest

LEMMA StartMoves ==
    ASSUME EvidenceInv, NEW c \in Checks, NEW mode \in {"check", "full"}, NEW forced \in BOOLEAN,
           CheckStarts(c, mode, forced)
    PROVE  EvidenceInv'
<1> mode \in Modes
  BY DEF Modes
<1>1. CASE FromLatest(c, mode, forced)
  BY <1>1, EndMoves DEF FromLatest, Serves, Compatible, EvidenceInv, CachesTyped, github
<1>2. CASE Ask(c, mode, forced)
  <2> DEFINE k == [IdleCheck EXCEPT !.pc = "ready", !.mode = mode, !.held = json.value,
                                 !.got = Cached(mode)]
  <2>1. k \in Check /\ Fits(k) /\ k.reply = "none"
    <3>1. Cached(mode) \in Candidate /\ (mode = "full" => Cached(mode).mode \in {"none", "full"})
      BY FallBack
    <3> QED
      BY <3>1 DEF IdleCheck, Check, Modes, Fits, EvidenceInv, CachesTyped
  <2>2. check' = [check EXCEPT ![c] = k]
    BY <1>2 DEF Ask
  <2> HIDE DEF k
  <2> QED
    BY <1>2, <2>1, <2>2, CheckMoves DEF Ask, EvidenceInv, CachesTyped, github
<1>3. CASE FromJson(c, mode, forced)
  <2>1. json.value \in Nat \cup {Nothing}
    BY <1>3 DEF FromJson, EvidenceInv, CachesTyped
  <2> QED
    BY <1>3, <2>1, StoreMoves DEF FromJson, EvidenceInv, CachesTyped, github
<1>4. CASE Turned(c, mode, forced)
  BY <1>4, FallBack, EndMoves DEF Turned, EvidenceInv, CachesTyped, github
<1> QED
  BY <1>1, <1>2, <1>3, <1>4 DEF CheckStarts

LEMMA FailMoves ==
    ASSUME EvidenceInv, NEW c \in Checks, Fail(c), UNCHANGED github,
           json' \in [value : Nat \cup {Nothing}, fresh : BOOLEAN]
    PROVE  EvidenceInv'
<1>1. /\ check[c].mode \in Modes /\ check[c].got \in Candidate
      /\ check[c].mode = "full" => check[c].got.mode \in {"none", "full"}
  BY DEF EvidenceInv, CachesTyped, Check, Fits
<1> QED
  BY <1>1, EndMoves DEF Fail, EvidenceInv, CachesTyped, github

\* A check on its way keeps its mode and what it may fall back on.
LEMMA GoesOn ==
    ASSUME EvidenceInv, NEW c \in Checks, NEW k \in Check, check' = [check EXCEPT ![c] = k],
           k.mode = check[c].mode, k.got = check[c].got,
           document' \in Nat, quota' \in Nat, UNCHANGED latest,
           json' \in [value : Nat \cup {Nothing}, fresh : BOOLEAN]
    PROVE  EvidenceInv'
  BY CheckMoves DEF EvidenceInv, CachesTyped, Fits

LEMMA SendMoves == ASSUME EvidenceInv, NEW c \in Checks, Send(c) PROVE EvidenceInv'
<1> DEFINE tries == check[c].tries + 1
           k == [check[c] EXCEPT !.pc = "sent", !.tries = tries]
<1>1. check[c] \in Check /\ tries \in Nat
  BY DEF EvidenceInv, CachesTyped, Check
<1> HIDE DEF tries
<1>2. /\ k \in Check /\ k.mode = check[c].mode /\ k.got = check[c].got
  BY <1>1 DEF Check
<1>3. check' = [check EXCEPT ![c] = k]
  BY DEF Send, tries
<1> HIDE DEF k
<1> QED
  BY <1>2, <1>3, GoesOn DEF Send, EvidenceInv, CachesTyped, github

LEMMA ServeMoves == ASSUME EvidenceInv, NEW c \in Checks, Serve(c) PROVE EvidenceInv'
<1> DEFINE left == IF quota > 0 THEN quota - 1 ELSE 0
<1>1. left \in Nat /\ quota' = left /\ check[c] \in Check
      /\ UNCHANGED <<document, blocked, remaining, json, latest>>
  BY DEF Serve, EvidenceInv, CachesTyped
<1>2. PICK reply \in {"ok", "same", "limited", "error", "refused"} :
         check' = [check EXCEPT ![c].pc = "answered", ![c].reply = reply,
                                   ![c].body = document, ![c].left = left]
  BY DEF Serve
<1> DEFINE k == [check[c] EXCEPT !.pc = "answered", !.reply = reply,
                                 !.body = document, !.left = left]
<1>3. /\ k \in Check /\ k.mode = check[c].mode /\ k.got = check[c].got
  <2> HIDE DEF left
  <2> QED
    BY <1>1 DEF Check, EvidenceInv, CachesTyped
<1>4. check' = [check EXCEPT ![c] = k]
  BY <1>1, <1>2 DEF EvidenceInv, CachesTyped
<1> HIDE DEF k, left
<1> QED
  BY <1>1, <1>3, <1>4, GoesOn DEF EvidenceInv, CachesTyped

LEMMA ReceiveMoves == ASSUME EvidenceInv, NEW c \in Checks, Receive(c) PROVE EvidenceInv'
<1> DEFINE r == check[c].reply
           body == IF r = "ok" THEN check[c].body ELSE check[c].held
<1>1. check[c] \in Check /\ UNCHANGED github /\ document' \in Nat /\ quota' \in Nat
  BY DEF Receive, EvidenceInv, CachesTyped, github
<1>2. body \in Nat \cup {Nothing} /\ check[c].mode \in Modes
  BY <1>1 DEF Check
<1>3. json' \in [value : Nat \cup {Nothing}, fresh : BOOLEAN]
  <2>1. json' = [value |-> body, fresh |-> TRUE] \/ json' = json
    BY DEF Receive
  <2>2. json \in [value : Nat \cup {Nothing}, fresh : BOOLEAN]
    BY DEF EvidenceInv, CachesTyped
  <2>3. [value |-> body, fresh |-> TRUE] \in [value : Nat \cup {Nothing}, fresh : BOOLEAN]
    BY <1>2
  <2> QED
    BY <2>1, <2>2, <2>3
<1>4. CASE Fail(c)
  BY <1>1, <1>3, <1>4, FailMoves
<1>5. CASE Store(c, check[c].mode, body)
  <2> HIDE DEF body
  <2> QED
    BY <1>1, <1>2, <1>3, <1>5, StoreMoves
<1>6. CASE check' = [check EXCEPT ![c].pc = "sleep", ![c].reply = "none"] /\ UNCHANGED latest
  <2> DEFINE k == [check[c] EXCEPT !.pc = "sleep", !.reply = "none"]
  <2>1. /\ k \in Check /\ k.mode = check[c].mode /\ k.got = check[c].got
    BY <1>1 DEF Check
  <2>2. check' = [check EXCEPT ![c] = k]
    BY <1>6
  <2> HIDE DEF k
  <2> QED
    BY <1>1, <1>3, <1>6, <2>1, <2>2, GoesOn
<1> QED
  BY <1>4, <1>5, <1>6 DEF Receive

LEMMA NoAnswerMoves == ASSUME EvidenceInv, NEW c \in Checks, NoAnswer(c) PROVE EvidenceInv'
<1>1. UNCHANGED <<github, json>> /\ check[c] \in Check
  BY DEF NoAnswer, EvidenceInv, CachesTyped
<1>2. CASE Fail(c)
  BY <1>1, <1>2, FailMoves DEF EvidenceInv, CachesTyped
<1>3. CASE check' = [check EXCEPT ![c].pc = "ready", ![c].reply = "none"] /\ UNCHANGED latest
  <2> DEFINE k == [check[c] EXCEPT !.pc = "ready", !.reply = "none"]
  <2>1. /\ k \in Check /\ k.mode = check[c].mode /\ k.got = check[c].got
    BY <1>1 DEF Check
  <2>2. check' = [check EXCEPT ![c] = k]
    BY <1>3
  <2> HIDE DEF k
  <2> QED
    BY <1>1, <1>3, <2>1, <2>2, GoesOn DEF EvidenceInv, CachesTyped, github
<1> QED
  BY <1>2, <1>3 DEF NoAnswer

LEMMA EvidenceInvariance == RegistryInit /\ [][RegistryNext]_regVars => []EvidenceInv
<1>1. RegistryInit => EvidenceInv
  <2> SUFFICES ASSUME RegistryInit PROVE EvidenceInv
    OBVIOUS
  <2>1. check \in [Checks -> Check] /\ \A c \in Checks : check[c] = IdleCheck
    BY IdleCheckFits DEF RegistryInit
  <2>3. json \in [value : Nat \cup {Nothing}, fresh : BOOLEAN]
    BY DEF RegistryInit, NoEntry
  <2> QED
    BY <2>1, <2>3, IdleCheckFits, RegistryAssumption
    DEF RegistryInit, EvidenceInv, CachesTyped
<1>2. EvidenceInv /\ [RegistryNext]_regVars => EvidenceInv'
  <2> SUFFICES ASSUME EvidenceInv, [RegistryNext]_regVars PROVE EvidenceInv'
    OBVIOUS
  <2>1. ASSUME NEW c \in Checks, NEW forced \in BOOLEAN, FromRaw(c, forced) PROVE EvidenceInv'
    <3>1. "check" \in Modes /\ document \in Nat
      BY DEF Modes, EvidenceInv, CachesTyped
    <3> QED
      BY <2>1, <3>1, StoreMoves DEF FromRaw, EvidenceInv, CachesTyped, github
  <2>2. CASE WindowEnds \/ QuotaRestored \/ DocumentChanges \/ UNCHANGED regVars
    BY <2>2, RegistryAssumption DEF WindowEnds, QuotaRestored, DocumentChanges, regVars,
       EvidenceInv, CachesTyped, github
  <2>3. CASE Ages
    <3>1. latest' \in Candidate /\ json' \in [value : Nat \cup {Nothing}, fresh : BOOLEAN]
          /\ UNCHANGED <<document, quota, check>>
      BY <2>3 DEF Ages, EvidenceInv, CachesTyped, Candidate, github
    <3> QED
      BY <3>1 DEF EvidenceInv, CachesTyped
  <2> QED
    BY <2>1, <2>2, <2>3, StartMoves, SendMoves, ServeMoves, ReceiveMoves, NoAnswerMoves
    DEF RegistryNext, CheckGoes
<1> QED
  BY <1>1, <1>2, PTL

\* FullEvidence for any number of checks, versions, attempts and faults.
THEOREM EvidenceAlwaysFull == RegistrySpec => []FullEvidence
<1>1. EvidenceInv => FullEvidence
  BY DEF EvidenceInv, Fits, FullEvidence
<1> QED
  BY <1>1, EvidenceInvariance, PTL DEF RegistrySpec

---------------------------------------------------------------------------
(* The types of the registry.  A retry is only under way while attempts    *)
(* are left, and an answer without a document ("not modified") only comes  *)
(* to a check that holds one.                                              *)
Known == Versions \cup {Nothing}
Bounded(k) ==
    /\ k.tries <= MaxAttempts
    /\ k.pc \in {"ready", "sleep"} => k.tries < MaxAttempts
    /\ k.held \in Known /\ k.body \in Known /\ k.left \in 0..Quota
    /\ k.reply = "same" => k.held # Nothing
    /\ k.reply = "ok" => k.body # Nothing
WorldBounded ==
    /\ document \in Versions /\ quota \in 0..Quota
    /\ blocked \in BOOLEAN /\ remaining \in 0..Quota \cup {Nothing}
    /\ json.value \in Known /\ latest.value \in Known
    /\ latest.fresh => latest.value # Nothing
RegistryBounds == WorldBounded /\ \A c \in Checks : Bounded(check[c])

LEMMA RegistryConstants ==
    /\ MaxVersions \in Nat /\ MaxAttempts \in Nat /\ Quota \in Nat
    /\ MaxAttempts > 0 /\ Nothing \notin Nat
  BY RegistryAssumption

LEMMA IdleCheckBounded ==
    ASSUME NEW mode, NEW cand
    PROVE  Bounded([IdleCheck EXCEPT !.mode = mode, !.got = cand])
  BY RegistryAssumption DEF IdleCheck, Bounded, Known

\* One check moves, the others stay within their bounds.
LEMMA OneCheckBounded ==
    ASSUME EvidenceInv, RegistryBounds, NEW c \in Checks, NEW k, Bounded(k),
           check' = [check EXCEPT ![c] = k]
    PROVE  \A d \in Checks : Bounded(check[d])'
  BY DEF EvidenceInv, CachesTyped, RegistryBounds, Bounded, Known, Versions

LEMMA EndBounded ==
    ASSUME EvidenceInv, RegistryBounds, NEW c \in Checks, NEW mode, NEW cand,
           End(c, mode, cand)
    PROVE  \A d \in Checks : Bounded(check[d])'
  BY IdleCheckBounded, OneCheckBounded DEF End

LEMMA StoreBounded ==
    ASSUME EvidenceInv, RegistryBounds, NEW c \in Checks, NEW mode, NEW v \in Versions,
           Store(c, mode, v)
    PROVE  /\ \A d \in Checks : Bounded(check[d])'
           /\ latest'.value \in Known /\ latest'.value # Nothing
<1>1. latest'.value = v
  BY DEF Store
<1>2. v # Nothing
  BY RegistryAssumption DEF Versions
<1> QED
  BY <1>1, <1>2, EndBounded DEF Store, Known

LEMMA FailBounded ==
    ASSUME EvidenceInv, RegistryBounds, NEW c \in Checks, Fail(c)
    PROVE  (\A d \in Checks : Bounded(check[d])') /\ UNCHANGED latest
  BY EndBounded DEF Fail

LEMMA StartBounded ==
    ASSUME EvidenceInv, RegistryBounds, NEW c \in Checks, NEW mode, NEW forced,
           CheckStarts(c, mode, forced)
    PROVE  RegistryBounds'
<1>1. CASE FromLatest(c, mode, forced) \/ Turned(c, mode, forced)
  BY <1>1, EndBounded DEF FromLatest, Turned, RegistryBounds, WorldBounded, Known, Versions, github
<1>2. CASE FromJson(c, mode, forced)
  <2>1. json.value \in Versions
    BY <1>2 DEF FromJson, RegistryBounds, WorldBounded, Known
  <2> QED
    BY <1>2, <2>1, StoreBounded
    DEF FromJson, RegistryBounds, WorldBounded, Known, Versions, github
<1>3. CASE Ask(c, mode, forced)
  <2> DEFINE k == [IdleCheck EXCEPT !.pc = "ready", !.mode = mode, !.held = json.value,
                                 !.got = Cached(mode)]
  <2>1. Bounded(k)
    BY RegistryAssumption DEF IdleCheck, Bounded, Known, RegistryBounds, WorldBounded
  <2>2. check' = [check EXCEPT ![c] = k]
    BY <1>3 DEF Ask
  <2> HIDE DEF k
  <2> QED
    BY <1>3, <2>1, <2>2, OneCheckBounded
    DEF Ask, RegistryBounds, WorldBounded, Known, Versions, github
<1> QED
  BY <1>1, <1>2, <1>3 DEF CheckStarts

LEMMA RawBounded ==
    ASSUME EvidenceInv, RegistryBounds, NEW c \in Checks, NEW forced, FromRaw(c, forced)
    PROVE  RegistryBounds'
<1>1. document \in Versions
  BY DEF RegistryBounds, WorldBounded
<1> QED
  BY <1>1, StoreBounded DEF FromRaw, RegistryBounds, WorldBounded, Known, Versions, github

LEMMA SendBounded ==
    ASSUME EvidenceInv, RegistryBounds, NEW c \in Checks, Send(c)
    PROVE  RegistryBounds'
<1> DEFINE k == [check[c] EXCEPT !.pc = "sent", !.tries = @ + 1]
<1>1. check[c] \in Check /\ Bounded(check[c]) /\ check[c].tries < MaxAttempts
  BY DEF EvidenceInv, CachesTyped, RegistryBounds, Bounded, Send
<1>2. k.tries <= MaxAttempts /\ k.pc = "sent"
  BY <1>1, RegistryAssumption DEF Check
<1>3. Bounded(k)
  BY <1>1, <1>2 DEF Bounded, Check
<1>4. check' = [check EXCEPT ![c] = k]
  BY DEF Send
<1> HIDE DEF k
<1> QED
  BY <1>3, <1>4, OneCheckBounded DEF Send, RegistryBounds, WorldBounded, Known, Versions, github

LEMMA ServeBounded ==
    ASSUME EvidenceInv, RegistryBounds, NEW c \in Checks, Serve(c)
    PROVE  RegistryBounds'
<1> DEFINE left == IF quota > 0 THEN quota - 1 ELSE 0
<1>1. left \in 0..Quota /\ quota' = left /\ check[c] \in Check /\ Bounded(check[c])
      /\ document \in Versions /\ check[c].pc = "sent"
      /\ UNCHANGED <<document, blocked, remaining, json, latest>>
  BY RegistryAssumption
  DEF Serve, EvidenceInv, CachesTyped, RegistryBounds, WorldBounded
<1>2. PICK reply \in {"ok", "same", "limited", "error", "refused"} :
         /\ reply = "same" => check[c].held = document
         /\ check' = [check EXCEPT ![c].pc = "answered", ![c].reply = reply,
                                   ![c].body = document, ![c].left = left]
  BY DEF Serve
<1> DEFINE k == [check[c] EXCEPT !.pc = "answered", !.reply = reply,
                                 !.body = document, !.left = left]
<1>3. document # Nothing
  BY <1>1, RegistryAssumption DEF Versions
<1>4. check' = [check EXCEPT ![c] = k]
  BY <1>1, <1>2 DEF EvidenceInv, CachesTyped
<1> HIDE DEF left
<1>5. Bounded(k)
  BY <1>1, <1>2, <1>3 DEF Bounded, Check, Known
<1> HIDE DEF k
<1> QED
  BY <1>1, <1>4, <1>5, OneCheckBounded DEF RegistryBounds, WorldBounded, Known, Versions

LEMMA ReceiveBounded ==
    ASSUME EvidenceInv, RegistryBounds, NEW c \in Checks, Receive(c)
    PROVE  RegistryBounds'
<1> DEFINE r == check[c].reply
           body == IF r = "ok" THEN check[c].body ELSE check[c].held
<1>1. check[c] \in Check /\ Bounded(check[c]) /\ UNCHANGED <<document, quota>>
  BY DEF Receive, EvidenceInv, CachesTyped, RegistryBounds, github
<1>2. r \in {"ok", "same"} \/ (r = "limited" /\ check[c].held # Nothing) => body \in Versions
  BY <1>1 DEF Bounded, Known
<1>3. blocked' \in BOOLEAN /\ remaining' \in 0..Quota \cup {Nothing}
  BY <1>1 DEF Receive, RememberLimit, Bounded, RegistryBounds, WorldBounded
<1>4. json'.value \in Known
  <2>1. CASE r \in {"ok", "same"}
    <3>1. json' = [value |-> body, fresh |-> TRUE]
      BY <2>1 DEF Receive
    <3> HIDE DEF body
    <3> QED
      BY <1>2, <2>1, <3>1 DEF Known
  <2>2. CASE r \notin {"ok", "same"}
    BY <2>2 DEF Receive, RegistryBounds, WorldBounded
  <2> QED
    BY <2>1, <2>2
<1>5. CASE /\ r \in {"ok", "same"} \/ (r = "limited" /\ check[c].held # Nothing)
           /\ Store(c, check[c].mode, body)
  <2> HIDE DEF body
  <2> QED
    BY <1>1, <1>2, <1>3, <1>4, <1>5, StoreBounded DEF RegistryBounds, WorldBounded, Versions, Known
<1>6. CASE /\ r = "error" /\ AttemptsLeft(c)
           /\ check' = [check EXCEPT ![c].pc = "sleep", ![c].reply = "none"]
           /\ UNCHANGED latest
  <2> DEFINE k == [check[c] EXCEPT !.pc = "sleep", !.reply = "none"]
  <2>1. Bounded(k)
    BY <1>1, <1>6 DEF Bounded, Check, AttemptsLeft
  <2>2. check' = [check EXCEPT ![c] = k]
    BY <1>6
  <2> HIDE DEF k
  <2> QED
    BY <1>1, <1>3, <1>4, <1>6, <2>1, <2>2, OneCheckBounded
    DEF RegistryBounds, WorldBounded, Known, Versions
<1>7. CASE Fail(c)
  BY <1>1, <1>3, <1>4, <1>7, FailBounded DEF RegistryBounds, WorldBounded, Known, Versions
<1> QED
  BY <1>5, <1>6, <1>7 DEF Receive

LEMMA NoAnswerBounded ==
    ASSUME EvidenceInv, RegistryBounds, NEW c \in Checks, NoAnswer(c)
    PROVE  RegistryBounds'
<1>1. CASE Fail(c)
  BY <1>1, FailBounded DEF NoAnswer, RegistryBounds, WorldBounded, Known, Versions, github
<1>2. CASE /\ AttemptsLeft(c) /\ UNCHANGED latest
           /\ check' = [check EXCEPT ![c].pc = "ready", ![c].reply = "none"]
  <2> DEFINE k == [check[c] EXCEPT !.pc = "ready", !.reply = "none"]
  <2>1. check[c] \in Check /\ Bounded(check[c])
    BY DEF EvidenceInv, CachesTyped, RegistryBounds
  <2>2. Bounded(k)
    BY <1>2, <2>1 DEF Bounded, Check, AttemptsLeft
  <2>3. check' = [check EXCEPT ![c] = k]
    BY <1>2
  <2> HIDE DEF k
  <2> QED
    BY <1>2, <2>2, <2>3, OneCheckBounded
    DEF NoAnswer, RegistryBounds, WorldBounded, Known, Versions, github
<1> QED
  BY <1>1, <1>2 DEF NoAnswer

LEMMA WorldStaysBounded ==
    ASSUME EvidenceInv, RegistryBounds,
           WindowEnds \/ QuotaRestored \/ DocumentChanges \/ Ages \/ UNCHANGED regVars
    PROVE  RegistryBounds'
<1>1. UNCHANGED check
  BY DEF WindowEnds, QuotaRestored, DocumentChanges, Ages, regVars
<1>2. (\A c \in Checks : Bounded(check[c]))'
  BY <1>1 DEF RegistryBounds, Bounded, Known, Versions
<1>3. latest \in Candidate /\ json \in [value : Nat \cup {Nothing}, fresh : BOOLEAN]
  BY DEF EvidenceInv, CachesTyped
<1>4. CASE Ages
  BY <1>2, <1>3, <1>4
  DEF Ages, RegistryBounds, WorldBounded, Known, Versions, Candidate, github
<1>5. CASE DocumentChanges
  BY <1>2, <1>5, RegistryAssumption
  DEF DocumentChanges, RegistryBounds, WorldBounded, Known, Versions
<1>6. CASE WindowEnds \/ QuotaRestored \/ UNCHANGED regVars
  <2>1. blocked' \in BOOLEAN /\ UNCHANGED <<document, remaining, json, latest>>
    BY <1>6 DEF WindowEnds, QuotaRestored, regVars, RegistryBounds, WorldBounded, github
  <2>2. quota' \in 0..Quota
    BY <1>6, RegistryConstants
    DEF WindowEnds, QuotaRestored, regVars, RegistryBounds, WorldBounded, github
  <2> QED
    BY <1>2, <2>1, <2>2 DEF RegistryBounds, WorldBounded, Known, Versions
<1> QED
  BY <1>4, <1>5, <1>6

\* The types of the registry, for any bounds of it: versions, quota, attempts.
\* They need no fairness.
THEOREM RegistryAlwaysTyped == RegistryInit /\ [][RegistryNext]_regVars => []RegistryTypeOK
<1>1. RegistryInit => RegistryBounds
  <2> SUFFICES ASSUME RegistryInit PROVE RegistryBounds
    OBVIOUS
  <2>1. Bounded(IdleCheck)
    BY RegistryAssumption DEF IdleCheck, Bounded, Known
  <2>2. WorldBounded
    <3>1. document \in Versions /\ quota \in 0..Quota
      BY RegistryConstants DEF RegistryInit, Versions
    <3>2. blocked \in BOOLEAN /\ remaining \in 0..Quota \cup {Nothing}
      BY DEF RegistryInit
    <3>3. json.value = Nothing /\ latest.value = Nothing /\ ~latest.fresh
      BY DEF RegistryInit, NoEntry, NoLatest
    <3> QED
      BY <3>1, <3>2, <3>3 DEF WorldBounded, Known
  <2> QED
    BY <2>1, <2>2 DEF RegistryInit, RegistryBounds
<1>2. EvidenceInv /\ RegistryBounds /\ [RegistryNext]_regVars => RegistryBounds'
  BY StartBounded, RawBounded, SendBounded, ServeBounded, ReceiveBounded, NoAnswerBounded,
     WorldStaysBounded DEF RegistryNext, CheckGoes
<1>3. EvidenceInv /\ RegistryBounds => RegistryTypeOK
  <2> SUFFICES ASSUME EvidenceInv, RegistryBounds PROVE RegistryTypeOK
    OBVIOUS
  <2>1. ASSUME NEW c \in Checks
        PROVE  /\ check[c].pc \in {"idle", "ready", "sent", "answered", "sleep"}
               /\ check[c].tries \in 0..MaxAttempts
               /\ check[c].reply = "same" => check[c].held # Nothing
    BY DEF EvidenceInv, CachesTyped, Check, RegistryBounds, Bounded
  <2> QED
    BY <2>1 DEF RegistryBounds, WorldBounded, Known, RegistryTypeOK
<1> QED
  BY <1>1, <1>2, <1>3, EvidenceInvariance, PTL

(***************************************************************************)
(* CommitHeads.                                                            *)
(***************************************************************************)
PageState ==
    [pc : {"idle", "graphql", "atom", "rest", "got"}, got : Heads \cup {NoHead},
     head : Heads \cup {NoHead}, reason : Reasons]
HeadEntry ==
    [head : Heads \cup {NoHead}, fresh : BOOLEAN, cooling : BOOLEAN, backoff : BOOLEAN,
     negative : BOOLEAN, failures : Nat]

HeadsTyped ==
    /\ tip \in Heads /\ restOld \in Heads \cup {NoHead}
    /\ entry \in HeadEntry /\ page \in [Pages -> PageState]

\* What was read lately, or lent by the REST cache.
Told == readLately \cup borrowed

\* A check that has a head, or was told one as current, has it from GitHub, and
\* so has the entry within its time to live.
Backed(q) ==
    /\ q.pc # "idle" => q.head = NoHead
    /\ q.pc = "got" => q.got \in Told
    /\ q.head # NoHead /\ Current(q.reason) => q.head \in Told
HeadsInv ==
    /\ HeadsTyped
    /\ entry.head # NoHead /\ entry.fresh => entry.head \in Told
    /\ \A p \in Pages : Backed(page[p])

LEMMA IdlePageBacked ==
    IdlePage \in PageState /\ IdlePage.head = NoHead /\ IdlePage.pc = "idle" /\ NoCommit \in HeadEntry
  BY DEF IdlePage, PageState, NoCommit, HeadEntry, Reasons

\* One check moves; what was told before is still told.
LEMMA PageMoves ==
    ASSUME HeadsInv, NEW p \in Pages, NEW q \in PageState,
           page' = [page EXCEPT ![p] = q], tip' \in Heads, restOld' \in Heads \cup {NoHead},
           entry' \in HeadEntry, Told \subseteq Told',
           entry'.head # NoHead /\ entry'.fresh => entry'.head \in Told',
           q.pc # "idle" => q.head = NoHead, q.pc = "got" => q.got \in Told',
           q.head # NoHead /\ Current(q.reason) => q.head \in Told'
    PROVE  HeadsInv'
  BY DEF HeadsInv, HeadsTyped, Backed

LEMMA AnswerMoves ==
    ASSUME HeadsInv, NEW p \in Pages, NEW e \in HeadEntry, NEW reason \in Reasons,
           Answer(p, e, reason), entry' = e, UNCHANGED <<tip, restOld, readLately, borrowed>>,
           e.head # NoHead /\ e.fresh => e.head \in Told,
           e.head # NoHead /\ Current(reason) => e.head \in Told
    PROVE  HeadsInv'
<1> DEFINE q == [IdlePage EXCEPT !.head = e.head, !.reason = reason]
<1>1. q \in PageState /\ q.head = e.head /\ q.reason = reason /\ q.pc = "idle"
  BY DEF IdlePage, PageState, HeadEntry
<1>2. page' = [page EXCEPT ![p] = q]
  BY DEF Answer
<1>3. Told' = Told
  BY DEF Told
<1> HIDE DEF q
<1> QED
  BY <1>1, <1>2, <1>3, PageMoves DEF HeadsInv, HeadsTyped

LEMMA GoMoves ==
    ASSUME HeadsInv, NEW p \in Pages, NEW pc \in {"graphql", "atom", "rest"}, Go(p, pc),
           UNCHANGED <<tip, entry, restOld, readLately, borrowed>>
    PROVE  HeadsInv'
<1> DEFINE q == [IdlePage EXCEPT !.pc = pc]
<1>1. q \in PageState /\ q.head = NoHead /\ q.pc = pc
  BY DEF IdlePage, PageState, Reasons
<1>2. page' = [page EXCEPT ![p] = q]
  BY DEF Go
<1>3. Told' = Told
  BY DEF Told
<1> HIDE DEF q
<1> QED
  BY <1>1, <1>2, <1>3, PageMoves DEF HeadsInv, HeadsTyped

LEMMA LookMoves ==
    ASSUME HeadsInv, NEW p \in Pages, NEW forced \in BOOLEAN, NEW token \in BOOLEAN,
           Look(p, forced, token)
    PROVE  HeadsInv'
<1>1. entry \in HeadEntry /\ UNCHANGED <<tip, entry, restOld, readLately, borrowed>>
  BY DEF HeadsInv, HeadsTyped, Look
<1>2. CASE Served(forced) # "none"
  <2>1. /\ Served(forced) \in {"ttl", "manual_cooldown", "backoff", "negative_cache", "none"}
        /\ Served(forced) = "ttl" => entry.head # NoHead /\ entry.fresh
    BY DEF Served
  <2>2. Served(forced) \in Reasons /\ (Current(Served(forced)) => Served(forced) = "ttl")
    BY <2>1 DEF Reasons, Current
  <2>3. Answer(p, entry, Served(forced))
    BY <1>2 DEF Look
  <2> QED
    BY <1>1, <2>1, <2>2, <2>3, AnswerMoves DEF HeadsInv
<1>3. CASE Served(forced) = "none"
  BY <1>1, <1>3, GoMoves DEF Look
<1> QED
  BY <1>2, <1>3

\* A source that tells a head: it is among what was told.
LEMMA SourceMoves ==
    ASSUME HeadsInv, NEW p \in Pages, NEW head \in Heads, NEW reason \in Reasons,
           page' = [page EXCEPT ![p].pc = "got", ![p].got = head, ![p].reason = reason],
           UNCHANGED <<tip, entry>>, restOld' \in Heads \cup {NoHead},
           Told' = Told \cup {head}, page[p].pc # "idle"
    PROVE  HeadsInv'
<1> DEFINE q == [page[p] EXCEPT !.pc = "got", !.got = head, !.reason = reason]
<1>1. page[p] \in PageState /\ page[p].head = NoHead
  BY DEF HeadsInv, HeadsTyped, Backed
<1>2. q \in PageState /\ q.head = NoHead /\ q.got = head
  BY <1>1 DEF PageState
<1>3. page' = [page EXCEPT ![p] = q]
  OBVIOUS
<1> HIDE DEF q
<1> QED
  BY <1>2, <1>3, PageMoves DEF HeadsInv, HeadsTyped

LEMMA ReadsMoves ==
    ASSUME HeadsInv, NEW p \in Pages, page[p].pc \in {"graphql", "atom", "rest"},
           Reads(p, tip), restOld' \in {restOld, tip}
    PROVE  HeadsInv'
<1>1. tip \in Heads /\ restOld' \in Heads \cup {NoHead} /\ page[p].pc \in Reasons
      /\ Told' = Told \cup {tip}
  BY DEF HeadsInv, HeadsTyped, Reads, Reasons, Told
<1>2. page' = [page EXCEPT ![p].pc = "got", ![p].got = tip, ![p].reason = page[p].pc]
  BY DEF Reads
<1> QED
  BY <1>1, <1>2, SourceMoves DEF Reads

LEMMA RestCacheMoves ==
    ASSUME HeadsInv, NEW p \in Pages, FromRestCache(p)
    PROVE  HeadsInv'
<1>1. restOld \in Heads /\ "rest" \in Reasons /\ Told' = Told \cup {restOld}
  BY DEF HeadsInv, HeadsTyped, FromRestCache, Reasons, Told
<1> QED
  BY <1>1, SourceMoves DEF FromRestCache

LEMMA StoreHeadMoves ==
    ASSUME HeadsInv, NEW p \in Pages, StoreHead(p)
    PROVE  HeadsInv'
<1>1. page[p] \in PageState /\ page[p].got \in Told
  BY DEF HeadsInv, HeadsTyped, Backed, StoreHead
<1> DEFINE e == [NoCommit EXCEPT !.head = page[p].got, !.fresh = TRUE, !.cooling = TRUE]
<1>2. e \in HeadEntry /\ e.head = page[p].got
  BY <1>1, IdlePageBacked DEF NoCommit, HeadEntry, PageState
<1>3. entry' = e /\ Answer(p, e, page[p].reason)
  BY DEF StoreHead
<1>4. page[p].reason \in Reasons
  BY <1>1 DEF PageState
<1> HIDE DEF e
<1> QED
  BY <1>1, <1>2, <1>3, <1>4, AnswerMoves DEF StoreHead

\* What is not there is forgotten; any other failure keeps the head for as long
\* as it has, and says so.
LEMMA StoreFailureMoves ==
    ASSUME HeadsInv, NEW p \in Pages, StoreFailure(p)
    PROVE  HeadsInv'
<1>1. entry \in HeadEntry
  BY DEF HeadsInv, HeadsTyped
<1>2. CASE /\ entry' = [NoCommit EXCEPT !.fresh = entry.fresh, !.cooling = TRUE, !.negative = TRUE]
           /\ Answer(p, entry', "negative_cache")
  <2>1. entry' \in HeadEntry /\ entry'.head = NoHead
    BY <1>1, <1>2 DEF NoCommit, HeadEntry
  <2> QED
    BY <1>2, <2>1, AnswerMoves DEF StoreFailure, Reasons
<1>3. ASSUME NEW reason \in {"rest_rate_budget", "failed"},
             entry' = [KeptHead(entry) EXCEPT !.cooling = TRUE, !.backoff = TRUE,
                          !.failures = IF @ < MaxFailures THEN @ + 1 ELSE @],
             Answer(p, entry', reason)
      PROVE  HeadsInv'
  <2> DEFINE f == IF entry.failures < MaxFailures THEN entry.failures + 1 ELSE entry.failures
  <2>1. f \in Nat
    BY <1>1 DEF HeadEntry
  <2>2. entry' = [entry EXCEPT !.cooling = TRUE, !.backoff = TRUE, !.failures = f]
    BY <1>3 DEF KeptHead
  <2> HIDE DEF f
  <2>3. entry' \in HeadEntry /\ entry'.head = entry.head /\ entry'.fresh = entry.fresh
    BY <1>1, <2>1, <2>2 DEF HeadEntry
  <2>4. reason \in Reasons /\ ~Current(reason)
    BY DEF Reasons, Current
  <2> QED
    BY <1>3, <2>3, <2>4, AnswerMoves DEF StoreFailure, HeadsInv
<1> QED
  BY <1>2, <1>3 DEF StoreFailure

LEMMA LaterMoves == ASSUME HeadsInv, Later PROVE HeadsInv'
<1>1. /\ page' = [p \in Pages |-> IdlePage] /\ UNCHANGED <<tip, restOld, borrowed>>
      /\ entry \in HeadEntry
  BY DEF Later, HeadsInv, HeadsTyped
<1>2. page' \in [Pages -> PageState] /\ \A p \in Pages : Backed(page[p])'
  BY <1>1, IdlePageBacked DEF Backed
<1>3. CASE /\ entry' = [entry EXCEPT !.cooling = FALSE] /\ UNCHANGED readLately
  BY <1>1, <1>2, <1>3 DEF HeadsInv, HeadsTyped, HeadEntry, Told
<1>4. CASE /\ entry' = [entry EXCEPT !.backoff = FALSE] /\ UNCHANGED readLately
  BY <1>1, <1>2, <1>4 DEF HeadsInv, HeadsTyped, HeadEntry, Told
<1>5. CASE entry' = [entry EXCEPT !.fresh = FALSE, !.negative = FALSE]
  BY <1>1, <1>2, <1>5 DEF HeadsInv, HeadsTyped, HeadEntry
<1> QED
  BY <1>3, <1>4, <1>5 DEF Later

LEMMA HeadsInvariance == HeadsSpec => []HeadsInv
<1>1. HeadsInit => HeadsInv
  <2> SUFFICES ASSUME HeadsInit PROVE HeadsInv
    OBVIOUS
  <2>1. page \in [Pages -> PageState] /\ \A p \in Pages : Backed(page[p])
    BY IdlePageBacked DEF HeadsInit, Backed
  <2>2. tip \in Heads
    BY HeadsAssumption DEF HeadsInit, Heads
  <2>3. entry \in HeadEntry /\ entry.head = NoHead
    BY IdlePageBacked DEF HeadsInit, NoCommit
  <2> QED
    BY <2>1, <2>2, <2>3 DEF HeadsInit, HeadsInv, HeadsTyped
<1>2. HeadsInv /\ [HeadsNext]_headsVars => HeadsInv'
  <2> SUFFICES ASSUME HeadsInv, [HeadsNext]_headsVars PROVE HeadsInv'
    OBVIOUS
  <2>1. ASSUME NEW p \in Pages, FromGraphql(p) \/ FromAtom(p) \/ FromRest(p) PROVE HeadsInv'
    BY <2>1, ReadsMoves DEF FromGraphql, FromAtom, FromRest
  <2>2. ASSUME NEW p \in Pages, HandsOver(p) PROVE HeadsInv'
    BY <2>2, GoMoves DEF HandsOver
  <2>3. CASE Push
    BY <2>3, HeadsAssumption DEF Push, Heads, HeadsInv, HeadsTyped, Backed, Told
  <2>4. CASE UNCHANGED headsVars
    BY <2>4 DEF headsVars, HeadsInv, HeadsTyped, Backed, Told
  <2> QED
    BY <2>1, <2>2, <2>3, <2>4, LookMoves, RestCacheMoves, StoreHeadMoves, StoreFailureMoves,
       LaterMoves DEF HeadsNext
<1> QED
  BY <1>1, <1>2, PTL DEF HeadsSpec

\* StaleIsFlagged for any number of checks, commits and failures.
THEOREM StaleAlwaysFlagged == HeadsSpec => []StaleIsFlagged
<1>1. HeadsInv => StaleIsFlagged
  BY DEF HeadsInv, Backed, Told, StaleIsFlagged, Stale
<1> QED
  BY <1>1, HeadsInvariance, PTL


---------------------------------------------------------------------------
\* The types of the entry and its checks: what was told are heads, so that a
\* check that got one got a head.
HeadsBounds ==
    readLately \subseteq Heads /\ borrowed \subseteq Heads /\ entry.failures <= MaxFailures

LEMMA FailuresBounded ==
    ASSUME HeadsInv, HeadsBounds, [HeadsNext]_headsVars
    PROVE  entry'.failures <= MaxFailures
<1>1. entry \in HeadEntry /\ MaxFailures \in Nat /\ NoCommit.failures = 0
  BY HeadsAssumption DEF HeadsInv, HeadsTyped, NoCommit
<1>2. CASE UNCHANGED entry
  BY <1>2 DEF HeadsBounds
<1>3. ASSUME NEW p \in Pages, StoreHead(p) PROVE entry'.failures = 0
  BY <1>3 DEF StoreHead, NoCommit
<1>4. ASSUME NEW p \in Pages, StoreFailure(p) PROVE entry'.failures <= MaxFailures
  <2>1. CASE entry' = [NoCommit EXCEPT !.fresh = entry.fresh, !.cooling = TRUE, !.negative = TRUE]
    BY <1>1, <2>1 DEF NoCommit
  <2>2. CASE entry' = [KeptHead(entry) EXCEPT !.cooling = TRUE, !.backoff = TRUE,
                          !.failures = IF @ < MaxFailures THEN @ + 1 ELSE @]
    BY <1>1, <2>2 DEF KeptHead, HeadEntry, HeadsBounds
  <2> QED
    BY <1>4, <2>1, <2>2 DEF StoreFailure
<1>5. CASE Later
  BY <1>1, <1>5 DEF Later, HeadEntry, HeadsBounds
<1>6. ASSUME NEW p \in Pages,
             FromGraphql(p) \/ FromAtom(p) \/ FromRest(p) \/ FromRestCache(p) \/ HandsOver(p)
      PROVE  UNCHANGED entry
  BY <1>6 DEF FromGraphql, FromAtom, FromRest, Reads, FromRestCache, HandsOver
<1>7. ASSUME NEW p \in Pages, NEW forced \in BOOLEAN, NEW token \in BOOLEAN,
             Look(p, forced, token)
      PROVE  UNCHANGED entry
  BY <1>7 DEF Look
<1>8. Push \/ UNCHANGED headsVars => UNCHANGED entry
  BY DEF Push, headsVars
<1> QED
  BY <1>1, <1>2, <1>3, <1>4, <1>5, <1>6, <1>7, <1>8 DEF HeadsNext

LEMMA ToldAreHeads ==
    ASSUME HeadsInv, HeadsBounds, [HeadsNext]_headsVars
    PROVE  readLately' \subseteq Heads /\ borrowed' \subseteq Heads
<1>1. tip \in Heads /\ restOld \in Heads \cup {NoHead}
  BY DEF HeadsInv, HeadsTyped
<1>2. ASSUME NEW p \in Pages, FromGraphql(p) \/ FromAtom(p) \/ FromRest(p)
      PROVE  readLately' = readLately \cup {tip} /\ UNCHANGED borrowed
  BY <1>2 DEF FromGraphql, FromAtom, FromRest, Reads
<1>3. ASSUME NEW p \in Pages, FromRestCache(p)
      PROVE  restOld \in Heads /\ borrowed' = borrowed \cup {restOld} /\ UNCHANGED readLately
  BY <1>1, <1>3 DEF FromRestCache
<1>4. ASSUME NEW p \in Pages, HandsOver(p) \/ StoreHead(p) \/ StoreFailure(p)
      PROVE  UNCHANGED <<readLately, borrowed>>
  BY <1>4 DEF HandsOver, StoreHead, StoreFailure
<1>5. ASSUME NEW p \in Pages, NEW forced \in BOOLEAN, NEW token \in BOOLEAN,
             Look(p, forced, token)
      PROVE  UNCHANGED <<readLately, borrowed>>
  BY <1>5 DEF Look
<1>6. Later => readLately' \in {readLately, {}} /\ UNCHANGED borrowed
  BY DEF Later
<1>7. Push \/ UNCHANGED headsVars => UNCHANGED <<readLately, borrowed>>
  BY DEF Push, headsVars
<1>8. HeadsNext \/ UNCHANGED headsVars =>
        /\ readLately' \in {readLately, readLately \cup {tip}, {}}
        /\ borrowed' = borrowed \/ (restOld \in Heads /\ borrowed' = borrowed \cup {restOld})
  BY <1>2, <1>3, <1>4, <1>5, <1>6, <1>7 DEF HeadsNext
<1>9. Heads' = Heads
  BY DEF Heads
<1> QED
  BY <1>1, <1>8, <1>9 DEF HeadsBounds

\* The types of the heads, for any number of checks, commits and failures.
THEOREM HeadsAlwaysTyped == HeadsSpec => []HeadsTypeOK
<1>1. HeadsInit => HeadsBounds
  BY HeadsAssumption DEF HeadsInit, HeadsBounds, NoCommit
<1>2. HeadsInv /\ HeadsBounds /\ [HeadsNext]_headsVars => HeadsBounds'
  <2>1. Heads' = Heads
    BY DEF Heads
  <2> QED
    BY <2>1, FailuresBounded, ToldAreHeads DEF HeadsBounds
<1>3. HeadsInv /\ HeadsBounds => HeadsTypeOK
  <2> SUFFICES ASSUME HeadsInv, HeadsBounds PROVE HeadsTypeOK
    OBVIOUS
  <2>1. NoHead \notin Heads
    BY HeadsAssumption DEF Heads
  <2>2. entry.head \in Heads \cup {NoHead} /\ entry.failures \in 0..MaxFailures
    BY HeadsAssumption DEF HeadsInv, HeadsTyped, HeadEntry, HeadsBounds
  <2>3. ASSUME NEW p \in Pages
        PROVE  /\ page[p].pc \in {"idle", "graphql", "atom", "rest", "got"}
               /\ page[p].pc = "got" => page[p].got # NoHead
               /\ page[p].reason \in Reasons
    BY <2>1 DEF HeadsInv, HeadsTyped, PageState, Backed, Told, HeadsBounds
  <2> QED
    BY <2>2, <2>3 DEF HeadsInv, HeadsTyped, HeadsBounds, HeadsTypeOK
<1> QED
  BY <1>1, <1>2, <1>3, HeadsInvariance, PTL DEF HeadsSpec
=============================================================================
