------------------------- MODULE SeriesControlProofs -------------------------
(***************************************************************************)
(* What the gateway guarantees with a plugin that keeps the contract, for  *)
(* any number of requests, fields, revisions and faults: one apply per     *)
(* revision succeeds, and the two copies agree whenever nothing is in      *)
(* flight, unless something happened that the code cannot repair.          *)
(***************************************************************************)
EXTENDS SeriesControl, TLAPS, SequenceTheorems

ControlRequest ==
    [pc : {"idle", "asked", "checked", "done"}, op : {"apply", "reset", "freeze", "freezeKeep"},
     fields : SUBSET Fields, expected : 0..MaxRevision]

Typed ==
    /\ managed \in BOOLEAN /\ apart \in BOOLEAN
    /\ member \in Overrides /\ memberFile \in Overrides /\ overlay \in Overrides
    /\ request \in [Requests -> ControlRequest]
    /\ acked \in Seq(0..MaxRevision)

\* An apply that the plugin has done, and whose answer is under way.
Applied(r) == request[r].pc = "done" /\ request[r].op = "apply"

\* Every apply that was done has used up its revision, alone.
RevisionsSpent ==
    /\ \A i \in DOMAIN acked : acked[i] < overlay.rev
    /\ \A r \in Requests : Applied(r) => request[r].expected < overlay.rev
    /\ \A r \in Requests, i \in DOMAIN acked : Applied(r) => request[r].expected # acked[i]
    /\ \A q, r \in Requests : Applied(q) /\ Applied(r) /\ request[q].expected = request[r].expected
                                 => q = r
    /\ NoLostPatch

\* The copy is at most the answer of one request behind, and a freeze is alone.
OneAnswerBehind ==
    ~apart =>
       /\ \A r \in Requests : request[r].pc = "done" =>
             /\ overlay = [fields |-> Followed(r), rev |-> member.rev + 1]
             /\ \A q \in Requests \ {r} : request[q].pc # "done"
       /\ (\A r \in Requests : request[r].pc # "done") => overlay = member
       /\ \A r \in Requests : request[r].op \in {"freeze", "freezeKeep"} /\ request[r].pc # "idle"
             => \A q \in Requests \ {r} : request[q].pc = "idle"

\* An apply that was compared with the copy is not ahead of it.
CheckedBefore ==
    \A r \in Requests : request[r].pc = "checked" => request[r].expected <= member.rev

ControlInv == Typed /\ RevisionsSpent /\ OneAnswerBehind /\ CheckedBefore

LEMMA NoRequestTyped == NoRequest \in ControlRequest /\ NoRequest.pc = "idle"
  BY ControlAssumption DEF NoRequest, ControlRequest

LEMMA ControlInitSound == ControlInit => ControlInv
<1> SUFFICES ASSUME ControlInit PROVE ControlInv
  OBVIOUS
<1>1. [fields |-> {}, rev |-> 0] \in Overrides
  BY ControlAssumption DEF Overrides
<1>2. \A r \in Requests : request[r] = NoRequest
  BY DEF ControlInit
<1>3. Typed
  <2>1. request \in [Requests -> ControlRequest] /\ acked \in Seq(0..MaxRevision)
    BY NoRequestTyped DEF ControlInit
  <2> QED
    BY <1>1, <2>1 DEF ControlInit, Typed
<1>4. RevisionsSpent
  BY <1>2, NoRequestTyped DEF ControlInit, RevisionsSpent, NoLostPatch, Applied
<1>5. OneAnswerBehind
  BY <1>2, NoRequestTyped DEF ControlInit, OneAnswerBehind
<1> QED
  BY <1>2, <1>3, <1>4, <1>5, NoRequestTyped DEF ControlInv, CheckedBefore

LEMMA RevisionsAreNat == Typed => \A i \in DOMAIN acked : acked[i] \in Nat
<1> SUFFICES ASSUME Typed, NEW i \in DOMAIN acked PROVE acked[i] \in Nat
  OBVIOUS
<1>1. acked \in Seq(0..MaxRevision) /\ i \in 1..Len(acked)
  BY DEF Typed
<1>2. acked[i] \in 0..MaxRevision
  BY <1>1, ElementOfSeq
<1> QED
  BY <1>2

LEMMA LeaveAt ==
    ASSUME Typed, NEW r \in Requests, Leave(r)
    PROVE  /\ request' \in [Requests -> ControlRequest]
           /\ \A q \in Requests : request'[q] = IF q = r THEN NoRequest ELSE request[q]
  BY NoRequestTyped DEF Typed, Leave

LEMMA GoToAt ==
    ASSUME Typed, NEW r \in Requests, NEW pc \in {"checked", "done"}, GoTo(r, pc)
    PROVE  /\ request' \in [Requests -> ControlRequest]
           /\ \A q \in Requests \ {r} : request'[q] = request[q]
           /\ request'[r].pc = pc /\ request'[r].op = request[r].op
           /\ request'[r].fields = request[r].fields
           /\ request'[r].expected = request[r].expected
<1>1. request[r] \in ControlRequest
  BY DEF Typed
<1>2. [request[r] EXCEPT !.pc = pc] \in ControlRequest
  BY <1>1 DEF ControlRequest
<1> QED
  BY <1>1, <1>2 DEF GoTo, Typed, ControlRequest

\* A request that is not done leaves and nothing else happens.
LEMMA GivesUp ==
    ASSUME ControlInv, NEW r \in Requests, Leave(r), request[r].pc # "done",
           UNCHANGED <<managed, member, memberFile, overlay, acked, apart>>
    PROVE  ControlInv'
<1>1. \A q \in Requests : request'[q] = IF q = r THEN NoRequest ELSE request[q]
  BY LeaveAt DEF ControlInv
<1>2. Typed'
  BY LeaveAt DEF ControlInv, Typed
<1>3. RevisionsSpent'
  BY <1>1, NoRequestTyped DEF ControlInv, RevisionsSpent, NoLostPatch, Applied
<1>4. \A q \in Requests : request[q].pc = "done" => request'[q] = request[q]
  BY <1>1
<1>5. OneAnswerBehind'
  BY <1>1, <1>4, NoRequestTyped DEF ControlInv, OneAnswerBehind, Followed, Selected
<1> QED
  BY <1>1, <1>2, <1>3, <1>5, NoRequestTyped DEF ControlInv, CheckedBefore

LEMMA AskedSound ==
    ASSUME ControlInv, NEW r \in Requests, NEW op \in {"apply", "reset", "freeze", "freezeKeep"},
           NEW fs \in SUBSET Fields, NEW expected \in 0..MaxRevision, Asked(r, op, fs, expected)
    PROVE  ControlInv'
<1> DEFINE new == [pc |-> "asked", op |-> op, fields |-> fs, expected |-> expected]
<1>1. request[r].pc = "idle" /\ new \in ControlRequest /\ new.pc = "asked" /\ new.op = op
  BY DEF Asked, ControlRequest
<1>2. request' \in [Requests -> ControlRequest]
      /\ \A q \in Requests : request'[q] = IF q = r THEN new ELSE request[q]
  BY <1>1 DEF Asked, ControlInv, Typed
<1>3. UNCHANGED <<managed, member, memberFile, overlay, acked>>
  BY DEF Asked
<1>4. /\ apart' \in BOOLEAN
      /\ ~apart' => /\ ~apart
                    /\ op \in {"freeze", "freezeKeep"} => InFlight = {}
                    /\ \A q \in InFlight : request[q].op \notin {"freeze", "freezeKeep"}
  BY DEF Asked, ControlInv, Typed
<1> HIDE DEF new
<1>5. Typed'
  BY <1>2, <1>3, <1>4 DEF ControlInv, Typed
<1>6. RevisionsSpent'
  BY <1>1, <1>2, <1>3 DEF ControlInv, RevisionsSpent, NoLostPatch, Applied
<1>7. OneAnswerBehind'
  <2> SUFFICES ASSUME ~apart' PROVE OneAnswerBehind'
    BY DEF OneAnswerBehind
  <2>1. \A q \in Requests : request'[q].pc = "done" <=> request[q].pc = "done"
    BY <1>1, <1>2
  <2>2. \A q \in Requests : request[q].pc = "done" => request'[q] = request[q]
    BY <1>1, <1>2
  <2>3. \A q \in Requests : request'[q].op \in {"freeze", "freezeKeep"} /\ request'[q].pc # "idle"
             => \A s \in Requests \ {q} : request'[s].pc = "idle"
    BY <1>1, <1>2, <1>4 DEF InFlight
  <2> QED
    BY <1>3, <1>4, <2>1, <2>2, <2>3 DEF ControlInv, OneAnswerBehind, Followed, Selected
<1> QED
  BY <1>1, <1>2, <1>3, <1>5, <1>6, <1>7 DEF ControlInv, CheckedBefore

LEMMA CheckSound ==
    ASSUME ControlInv, NEW r \in Requests, CheckRevision(r)
    PROVE  ControlInv'
<1>1. CASE Leave(r)
  BY <1>1, GivesUp DEF CheckRevision, At
<1>2. CASE GoTo(r, "checked")
  <2>1. /\ request' \in [Requests -> ControlRequest]
        /\ \A q \in Requests \ {r} : request'[q] = request[q]
        /\ request'[r].pc = "checked" /\ request'[r].op = "apply"
    BY <1>2, GoToAt DEF CheckRevision, At, ControlInv
  <2>2. request[r].pc = "asked" /\ request[r].op = "apply"
        /\ UNCHANGED <<managed, member, memberFile, overlay, acked, apart>>
    BY DEF CheckRevision, At
  <2>3. \A q \in Requests : request'[q].pc = "done" <=> request[q].pc = "done"
    BY <2>1, <2>2
  <2>4. \A q \in Requests : request[q].pc = "done" => request'[q] = request[q]
    BY <2>1, <2>2
  <2>5. Typed'
    BY <2>1, <2>2 DEF ControlInv, Typed
  <2>6. RevisionsSpent'
    BY <2>1, <2>2, <2>3, <2>4 DEF ControlInv, RevisionsSpent, NoLostPatch, Applied
  <2>7. \A q \in Requests : request'[q].pc = "idle" <=> request[q].pc = "idle"
    BY <2>1, <2>2
  <2>8. \A q \in Requests : request'[q].op = request[q].op
    BY <2>1, <2>2
  <2>9. OneAnswerBehind'
    BY <2>2, <2>3, <2>4, <2>7, <2>8 DEF ControlInv, OneAnswerBehind, Followed, Selected
  <2>10. CheckedBefore'
    <3>1. request'[r].expected = member.rev
      BY <1>2, <2>2, GoToAt DEF CheckRevision, ControlInv, Leave, NoRequest
    <3> QED
      BY <2>1, <2>2, <3>1 DEF ControlInv, CheckedBefore, Typed, Overrides
  <2> QED
    BY <2>5, <2>6, <2>9, <2>10 DEF ControlInv
<1> QED
  BY <1>1, <1>2 DEF CheckRevision

---------------------------------------------------------------------------
\* What the plugin does: it takes a revision, and the copy is one answer behind.
LEMMA PluginDoes ==
    ASSUME ControlInv, NEW r \in Requests, NEW fs \in SUBSET Fields,
           request' \in [Requests -> ControlRequest],
           \A q \in Requests \ {r} : request'[q] = request[q],
           request'[r].pc = "done", request'[r].op = request[r].op,
           request'[r].expected = request[r].expected, request[r].pc \notin {"idle", "done"},
           Counted, overlay' = [fields |-> fs, rev |-> overlay.rev + 1],
           UNCHANGED <<managed, member, memberFile, acked>>, apart' \in BOOLEAN,
           request[r].op = "apply" => request[r].expected = overlay.rev,
           ~apart' => ~apart /\ (\A q \in Requests : request[q].pc # "done")
                      /\ fs = Followed(r)'
    PROVE  ControlInv'
<1>1. overlay' \in Overrides /\ overlay.rev \in Nat /\ overlay'.rev = overlay.rev + 1
      /\ overlay'.fields = fs
  BY ControlAssumption DEF ControlInv, Typed, Counted, Overrides
<1>2. Typed'
  BY <1>1 DEF ControlInv, Typed
<1>3. RevisionsSpent'
  <2>1. \A i \in DOMAIN acked : acked[i] \in Nat
    BY RevisionsAreNat DEF ControlInv
  <2>2. \A q \in Requests : request[q].expected \in Nat
    BY DEF ControlInv, Typed, ControlRequest
  <2>3. \A q \in Requests : Applied(q)' =>
           \/ q = r /\ request'[q].expected = overlay.rev
           \/ q # r /\ Applied(q) /\ request'[q].expected = request[q].expected
    BY DEF Applied
  <2> QED
    BY <1>1, <2>1, <2>2, <2>3 DEF ControlInv, RevisionsSpent, NoLostPatch
<1>4. OneAnswerBehind'
  <2> SUFFICES ASSUME ~apart' PROVE OneAnswerBehind'
    BY DEF OneAnswerBehind
  <2>1. overlay = member /\ \A q \in Requests : request[q].pc # "done"
    BY DEF ControlInv, OneAnswerBehind
  <2>2. \A q \in Requests : request'[q].pc = "done" => q = r
    BY <2>1
  <2>3. \A q \in Requests : /\ request'[q].op = request[q].op
                            /\ request'[q].pc = "idle" <=> request[q].pc = "idle"
    OBVIOUS
  <2>4. overlay' = [fields |-> Followed(r)', rev |-> member'.rev + 1]
    BY <2>1
  <2>5. \A q \in Requests : request'[q].op \in {"freeze", "freezeKeep"} /\ request'[q].pc # "idle"
             => \A s \in Requests \ {q} : request'[s].pc = "idle"
    BY <2>3 DEF ControlInv, OneAnswerBehind
  <2>6. \A q \in Requests : request'[q].pc = "done" =>
             /\ overlay' = [fields |-> Followed(q)', rev |-> member'.rev + 1]
             /\ \A s \in Requests \ {q} : request'[s].pc # "done"
    BY <2>2, <2>4
  <2> QED
    BY <2>5, <2>6 DEF OneAnswerBehind
<1>5. CheckedBefore'
  BY DEF ControlInv, CheckedBefore
<1> QED
  BY <1>2, <1>3, <1>4, <1>5 DEF ControlInv

\* While an answer is under way and nothing is apart, the plugin is one revision
\* ahead of the copy.
LEMMA NobodyElseDone ==
    ASSUME ControlInv, ~apart, overlay.rev <= member.rev
    PROVE  overlay = member /\ \A q \in Requests : request[q].pc # "done"
<1>1. overlay.rev \in Nat /\ member.rev \in Nat
  BY DEF ControlInv, Typed, Overrides
<1>2. ASSUME NEW q \in Requests, request[q].pc = "done" PROVE overlay.rev = member.rev + 1
  BY <1>2 DEF ControlInv, OneAnswerBehind
<1> QED
  BY <1>1, <1>2 DEF ControlInv, OneAnswerBehind

LEMMA ApplySound ==
    ASSUME ControlInv, NEW r \in Requests, PluginApplies(r)
    PROVE  ControlInv'
<1>1. request[r] \in ControlRequest /\ request[r].pc = "checked" /\ request[r].op = "apply"
      /\ Sent(r) = request[r].expected
      /\ UNCHANGED <<managed, member, memberFile, controlFaults, acked, apart>>
  BY DEF PluginApplies, At, ControlInv, Typed, Sent
<1>2. CASE Sent(r) # overlay.rev
  BY <1>1, <1>2, GivesUp DEF PluginApplies
<1>3. CASE Sent(r) = overlay.rev
  <2> DEFINE fs == overlay.fields \cup request[r].fields
  <2>1. Counted /\ GoTo(r, "done") /\ overlay' = [fields |-> fs, rev |-> overlay.rev + 1]
    BY <1>3 DEF PluginApplies
  <2>2. fs \in SUBSET Fields
    BY <1>1 DEF ControlInv, Typed, Overrides, ControlRequest
  <2>3. /\ request' \in [Requests -> ControlRequest]
        /\ \A q \in Requests \ {r} : request'[q] = request[q]
        /\ request'[r].pc = "done" /\ request'[r].op = request[r].op
        /\ request'[r].fields = request[r].fields
        /\ request'[r].expected = request[r].expected
    BY <2>1, GoToAt DEF ControlInv
  <2>4. ASSUME ~apart
        PROVE  (\A q \in Requests : request[q].pc # "done") /\ fs = Followed(r)'
    <3>1. overlay.rev <= member.rev
      BY <1>1, <1>3 DEF ControlInv, CheckedBefore
    <3>2. overlay = member /\ \A q \in Requests : request[q].pc # "done"
      BY <2>4, <3>1, NobodyElseDone
    <3> QED
      BY <1>1, <2>3, <3>2 DEF Followed
  <2> QED
    BY <1>1, <1>3, <2>1, <2>2, <2>3, <2>4, PluginDoes DEF ControlInv, Typed
<1> QED
  BY <1>2, <1>3

LEMMA ResetSound ==
    ASSUME ControlInv, NEW r \in Requests, PluginResets(r)
    PROVE  ControlInv'
<1>1. request[r] \in ControlRequest /\ request[r].pc = "asked" /\ request[r].op = "reset"
      /\ Sent(r) = member.rev
      /\ UNCHANGED <<managed, member, memberFile, controlFaults, acked, apart>>
  BY DEF PluginResets, At, ControlInv, Typed, Sent
<1>2. CASE ~SameRev(r)
  BY <1>1, <1>2, GivesUp DEF PluginResets
<1>3. CASE SameRev(r)
  <2> DEFINE fs == overlay.fields \ Selected(r, overlay.fields)
  <2>1. Counted /\ GoTo(r, "done") /\ overlay' = [fields |-> fs, rev |-> overlay.rev + 1]
    BY <1>3 DEF PluginResets
  <2>2. fs \in SUBSET Fields
    BY DEF ControlInv, Typed, Overrides
  <2>3. /\ request' \in [Requests -> ControlRequest]
        /\ \A q \in Requests \ {r} : request'[q] = request[q]
        /\ request'[r].pc = "done" /\ request'[r].op = request[r].op
        /\ request'[r].fields = request[r].fields
        /\ request'[r].expected = request[r].expected
    BY <2>1, GoToAt DEF ControlInv
  <2>4. ASSUME ~apart
        PROVE  (\A q \in Requests : request[q].pc # "done") /\ fs = Followed(r)'
    <3>1. overlay.rev <= member.rev
      BY <1>1, <1>3 DEF SameRev, ControlInv, Typed, Overrides
    <3>2. overlay = member /\ \A q \in Requests : request[q].pc # "done"
      BY <2>4, <3>1, NobodyElseDone
    <3> QED
      BY <1>1, <2>3, <3>2 DEF Followed, Selected
  <2> QED
    BY <1>1, <2>1, <2>2, <2>3, <2>4, PluginDoes DEF ControlInv, Typed
<1> QED
  BY <1>2, <1>3

\* A request is done for the gateway although the plugin did nothing of it: the
\* two are apart.
LEMMA DoneApart ==
    ASSUME ControlInv, NEW r \in Requests, request' \in [Requests -> ControlRequest],
           \A q \in Requests \ {r} : request'[q] = request[q],
           request'[r].op = request[r].op, request'[r].pc \in {"idle", "done"},
           request'[r].pc = "done" => request[r].op # "apply", apart' = TRUE,
           UNCHANGED <<managed, member, memberFile, overlay, acked>>
    PROVE  ControlInv'
<1>1. Typed' /\ OneAnswerBehind' /\ CheckedBefore'
  BY DEF ControlInv, Typed, OneAnswerBehind, CheckedBefore
<1>2. \A q \in Requests : Applied(q)' => Applied(q) /\ request'[q] = request[q]
  BY DEF Applied
<1>3. RevisionsSpent'
  BY <1>2 DEF ControlInv, RevisionsSpent, NoLostPatch
<1> QED
  BY <1>1, <1>3 DEF ControlInv

LEMMA AbsentSound ==
    ASSUME ControlInv, NEW r \in Requests, PluginAbsent(r)
    PROVE  ControlInv'
  BY GoToAt, DoneApart DEF PluginAbsent, At, ControlInv

LEMMA FreezeSound ==
    ASSUME ControlInv, NEW r \in Requests, PluginFreezes(r)
    PROVE  ControlInv'
<1>1. /\ request[r] \in ControlRequest /\ request[r].pc = "asked"
      /\ request[r].op \in {"freeze", "freezeKeep"}
      /\ UNCHANGED <<managed, member, memberFile, acked>>
      /\ overlay.fields \in SUBSET Fields
  BY DEF PluginFreezes, ControlInv, Typed, Overrides
<1>2. CASE overlay.fields = {}
  BY <1>1, <1>2, GivesUp DEF PluginFreezes
<1>3. CASE overlay.fields # {}
  <2> DEFINE new == [request[r] EXCEPT !.pc = "done", !.fields = overlay.fields]
  <2>1. new \in ControlRequest /\ new.pc = "done" /\ new.op = request[r].op
        /\ new.fields = overlay.fields /\ new.expected = request[r].expected
    BY <1>1 DEF ControlRequest
  <2>2. request' = [request EXCEPT ![r] = new]
    BY <1>3 DEF PluginFreezes
  <2> HIDE DEF new
  <2>3. /\ request' \in [Requests -> ControlRequest] /\ request'[r] = new
        /\ \A q \in Requests \ {r} : request'[q] = request[q]
    BY <2>1, <2>2 DEF ControlInv, Typed
  <2>4. CASE apart' = TRUE /\ UNCHANGED overlay
    BY <1>1, <2>1, <2>3, <2>4, DoneApart
  <2>5. CASE /\ At(r, "freeze", "asked") /\ Counted /\ UNCHANGED apart
             /\ overlay' = [fields |-> {}, rev |-> overlay.rev + 1]
    <3>1. ASSUME ~apart
          PROVE  (\A q \in Requests : request[q].pc # "done") /\ {} = Followed(r)'
      <4>1. \A q \in Requests : request[q].pc # "done"
        BY <1>1, <3>1 DEF ControlInv, OneAnswerBehind
      <4>2. overlay = member
        BY <3>1, <4>1 DEF ControlInv, OneAnswerBehind
      <4> QED
        BY <1>1, <2>1, <2>3, <2>5, <4>1, <4>2 DEF Followed, At
    <3> QED
      BY <1>1, <2>1, <2>3, <2>5, <3>1, PluginDoes DEF At, ControlInv, Typed
  <2> QED
    BY <1>3, <2>4, <2>5 DEF PluginFreezes
<1> QED
  BY <1>2, <1>3

\* The copy follows; a successful apply is told so.
LEMMA FollowSound ==
    ASSUME ControlInv, NEW r \in Requests, Follow(r)
    PROVE  ControlInv'
<1>1. /\ request[r] \in ControlRequest /\ request[r].pc = "done" /\ member.rev < MaxRevision
      /\ member' = [fields |-> Followed(r), rev |-> member.rev + 1]
      /\ UNCHANGED <<managed, overlay, apart>>
      /\ memberFile' \in {memberFile, member'}
      /\ \/ acked' = acked
         \/ request[r].op = "apply" /\ acked' = Append(acked, request[r].expected)
  BY DEF Follow, ControlInv, Typed
<1>2. /\ request' \in [Requests -> ControlRequest]
      /\ \A q \in Requests : request'[q] = IF q = r THEN NoRequest ELSE request[q]
  BY LeaveAt DEF Follow, ControlInv
<1>3. member' \in Overrides /\ member.rev \in Nat /\ member'.rev = member.rev + 1
  <2>1. Followed(r) \in SUBSET Fields /\ member.rev \in 0..MaxRevision
    BY <1>1 DEF Followed, Selected, ControlInv, Typed, Overrides, ControlRequest
  <2> QED
    BY <1>1, <2>1, ControlAssumption DEF Overrides
<1>4. acked' \in Seq(0..MaxRevision)
  <2>1. acked \in Seq(0..MaxRevision) /\ request[r].expected \in 0..MaxRevision
    BY <1>1 DEF ControlInv, Typed, ControlRequest
  <2>2. Append(acked, request[r].expected) \in Seq(0..MaxRevision)
    BY <2>1, AppendProperties
  <2>3. acked' = acked \/ acked' = Append(acked, request[r].expected)
    BY <1>1
  <2> QED
    BY <2>1, <2>2, <2>3
<1>5. Typed'
  BY <1>1, <1>2, <1>3, <1>4 DEF ControlInv, Typed
<1>6. \A q \in Requests : Applied(q)' => q # r /\ Applied(q) /\ request'[q] = request[q]
  BY <1>2, NoRequestTyped DEF Applied
<1>7. RevisionsSpent'
  <2>1. CASE acked' = acked
    BY <1>1, <1>6, <2>1 DEF ControlInv, RevisionsSpent, NoLostPatch
  <2>2. CASE request[r].op = "apply" /\ acked' = Append(acked, request[r].expected)
    <3>1. \A i \in DOMAIN acked' : \/ i \in DOMAIN acked /\ acked'[i] = acked[i]
                                   \/ i = Len(acked) + 1 /\ acked'[i] = request[r].expected
      BY <1>1, <2>2 DEF ControlInv, Typed
    <3>2. Applied(r)
      BY <1>1, <2>2 DEF Applied
    <3>3. \A i \in DOMAIN acked' : acked'[i] < overlay.rev
      BY <3>1, <3>2 DEF ControlInv, RevisionsSpent
    <3>4. \A q \in Requests, i \in DOMAIN acked' : Applied(q)' => request'[q].expected # acked'[i]
      BY <1>6, <3>1, <3>2 DEF ControlInv, RevisionsSpent
    <3>5. NoLostPatch'
      BY <3>1, <3>2 DEF ControlInv, RevisionsSpent, NoLostPatch
    <3> QED
      BY <1>1, <1>6, <3>3, <3>4, <3>5 DEF ControlInv, RevisionsSpent
  <2> QED
    BY <1>1, <2>1, <2>2
<1>8. OneAnswerBehind'
  <2> SUFFICES ASSUME ~apart' PROVE OneAnswerBehind'
    BY DEF OneAnswerBehind
  <2>1. overlay' = member' /\ \A q \in Requests \ {r} : request[q].pc # "done"
    BY <1>1 DEF ControlInv, OneAnswerBehind
  <2>2. \A q \in Requests : request'[q].pc # "done"
    BY <1>2, <2>1, NoRequestTyped
  <2>3. \A q \in Requests : request'[q].op \in {"freeze", "freezeKeep"} /\ request'[q].pc # "idle"
             => \A s \in Requests \ {q} : request'[s].pc = "idle"
    BY <1>1, <1>2, NoRequestTyped DEF ControlInv, OneAnswerBehind
  <2> QED
    BY <2>1, <2>2, <2>3 DEF OneAnswerBehind
<1>9. CheckedBefore'
  <2>1. \A q \in Requests : request'[q].pc = "checked" => request'[q] = request[q]
    BY <1>2, NoRequestTyped
  <2>2. \A q \in Requests : request[q].expected \in Nat
    BY DEF ControlInv, Typed, ControlRequest
  <2> QED
    BY <1>3, <2>1, <2>2 DEF ControlInv, CheckedBefore
<1> QED
  BY <1>5, <1>7, <1>8, <1>9 DEF ControlInv

LEMMA TimeoutSound ==
    ASSUME ControlInv, NEW r \in Requests, CallTimesOut(r)
    PROVE  ControlInv'
<1>1. CASE request[r].pc = "checked"
  <2>1. apart' = apart
    BY <1>1 DEF CallTimesOut, ControlInv, Typed
  <2> QED
    BY <1>1, <2>1, GivesUp DEF CallTimesOut
<1>2. CASE request[r].pc = "done"
  <2>1. /\ request' \in [Requests -> ControlRequest]
        /\ \A q \in Requests : request'[q] = IF q = r THEN NoRequest ELSE request[q]
    BY LeaveAt DEF CallTimesOut, ControlInv
  <2>2. request'[r].pc = "idle" /\ request'[r].op = request[r].op
    BY <2>1 DEF CallTimesOut, NoRequest
  <2>3. apart' = TRUE
    BY <1>2 DEF CallTimesOut, ControlInv, Typed
  <2> QED
    BY <2>1, <2>2, <2>3, DoneApart DEF CallTimesOut
<1> QED
  BY <1>1, <1>2 DEF CallTimesOut

LEMMA DeathSound == ASSUME ControlInv, ControlDies PROVE ControlInv'
<1>1. /\ member' = memberFile /\ UNCHANGED <<managed, memberFile, overlay, acked>>
      /\ \A r \in Requests : request'[r] = NoRequest
      /\ apart' \in BOOLEAN
      /\ ~apart' => /\ ~apart /\ member = memberFile
                    /\ \A r \in InFlight : request[r].pc # "done"
  BY DEF ControlDies, ControlInv, Typed
<1>2. request' \in [Requests -> ControlRequest]
  BY NoRequestTyped DEF ControlDies
<1>3. Typed'
  BY <1>1, <1>2 DEF ControlInv, Typed
<1>4. RevisionsSpent'
  BY <1>1, NoRequestTyped DEF ControlInv, RevisionsSpent, NoLostPatch, Applied
<1>5. OneAnswerBehind'
  <2> SUFFICES ASSUME ~apart' PROVE OneAnswerBehind'
    BY DEF OneAnswerBehind
  <2>1. \A r \in Requests : request[r].pc # "done"
    BY <1>1 DEF InFlight
  <2> QED
    BY <1>1, <2>1, NoRequestTyped DEF ControlInv, OneAnswerBehind
<1> QED
  BY <1>1, <1>3, <1>4, <1>5, NoRequestTyped DEF ControlInv, CheckedBefore

---------------------------------------------------------------------------
LEMMA ControlInvariance == ControlSpec => []ControlInv
<1>1. ControlInv /\ [ControlNext]_controlVars => ControlInv'
  <2> SUFFICES ASSUME ControlInv, [ControlNext]_controlVars PROVE ControlInv'
    OBVIOUS
  <2>1. ASSUME NEW r \in Requests, AskPlugin(r) PROVE ControlInv'
    <3>1. 0 \in 0..MaxRevision /\ 0..member.rev \subseteq 0..MaxRevision /\ {} \in SUBSET Fields
      BY ControlAssumption DEF ControlInv, Typed, Overrides
    <3> QED
      BY <2>1, <3>1, AskedSound DEF AskPlugin
  <2>2. ASSUME NEW r \in Requests, ImportNative(r) PROVE ControlInv'
    <3>1. member.rev \in 0..MaxRevision
      BY DEF ControlInv, Typed, Overrides
    <3> QED
      BY <2>2, <3>1, AskedSound DEF ImportNative
  <2>3. CASE SetMode \/ UNCHANGED controlVars
    <3>1. /\ UNCHANGED <<member, overlay, request, acked, apart>> /\ managed' \in BOOLEAN
          /\ memberFile' \in Overrides
      BY <2>3 DEF SetMode, controlVars, ControlInv, Typed
    <3> QED
      BY <3>1 DEF ControlInv, Typed, RevisionsSpent, NoLostPatch, Applied, OneAnswerBehind,
         Followed, Selected, CheckedBefore
  <2> QED
    BY <2>1, <2>2, <2>3, CheckSound, ApplySound, ResetSound, AbsentSound, FreezeSound,
       FollowSound, TimeoutSound, DeathSound DEF ControlNext
<1> QED
  BY <1>1, ControlInitSound, PTL DEF ControlSpec

\* NoLostPatch: of the applies from one revision at most one succeeds, whatever
\* overlaps, times out, fails or dies.
THEOREM NoPatchEverLost == ControlSpec => []NoLostPatch
<1>1. ControlInv => NoLostPatch
  BY DEF ControlInv, RevisionsSpent
<1> QED
  BY <1>1, ControlInvariance, PTL

\* InStep: with nothing in flight the copy is what the plugin has.
THEOREM AlwaysInStep == ControlSpec => []InStep
<1>1. ControlInv => InStep
  <2> SUFFICES ASSUME ControlInv, InFlight = {}, ~apart PROVE member = overlay
    BY DEF InStep
  <2>1. \A r \in Requests : request[r].pc # "done"
    BY DEF InFlight
  <2> QED
    BY <2>1 DEF ControlInv, OneAnswerBehind
<1> QED
  BY <1>1, ControlInvariance, PTL

\* The types of gateway and plugin: the invariant has them, but for the count
\* of the faults, which its bound keeps.
THEOREM ControlAlwaysTyped == ControlSpec => []ControlTypeOK
<1> DEFINE FaultsCounted == controlFaults \in 0..MaxControlFaults
<1>1. ControlInit => FaultsCounted
  BY ControlAssumption DEF ControlInit
<1>2. FaultsCounted /\ [ControlNext]_controlVars => FaultsCounted'
  <2>1. FaultsCounted /\ (Fault \/ UNCHANGED controlFaults) => FaultsCounted'
    BY ControlAssumption DEF Fault
  <2>2. ASSUME NEW r \in Requests,
               AskPlugin(r) \/ ImportNative(r) \/ CheckRevision(r) \/ PluginApplies(r)
               \/ PluginResets(r)
        PROVE  UNCHANGED controlFaults
    BY <2>2 DEF AskPlugin, ImportNative, Asked, CheckRevision, PluginApplies, PluginResets
  <2>3. ASSUME NEW r \in Requests,
               PluginAbsent(r) \/ PluginFreezes(r) \/ Follow(r) \/ CallTimesOut(r)
        PROVE  Fault \/ UNCHANGED controlFaults
    BY <2>3 DEF PluginAbsent, PluginFreezes, Follow, CallTimesOut
  <2>4. SetMode \/ ControlDies \/ UNCHANGED controlVars => Fault \/ UNCHANGED controlFaults
    BY DEF SetMode, ControlDies, controlVars
  <2> HIDE DEF FaultsCounted
  <2> QED
    BY <2>1, <2>2, <2>3, <2>4 DEF ControlNext
<1>3. ControlInv /\ FaultsCounted => ControlTypeOK
  BY DEF ControlInv, Typed, ControlTypeOK, ControlRequest
<1> QED
  BY <1>1, <1>2, <1>3, ControlInvariance, PTL DEF ControlSpec
=============================================================================
