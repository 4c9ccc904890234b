----------------------------- MODULE SuiteProofs -----------------------------
(***************************************************************************)
(* The components that MCSuite runs side by side, for any values of their  *)
(* constants: ProbesOnce of ModelProbe, RecordOfInstalled of               *)
(* PageOperations, RenderedInOrder of RequestContext, and that a behaviour *)
(* of the suite is one of each component, which then keeps its types.      *)
(***************************************************************************)
EXTENDS MCSuite, WebuiProofs, SeriesControlProofs, VersionChecksProofs

---------------------------------------------------------------------------
(* The tests of the models: ProbesOnce for any number of kinds, routes,    *)
(* direct tests and slots.                                                 *)

States == {"absent", "pending", "running", "ok", "failed", "unavailable"}

CallState ==
    [pc : {"none", "new", "live"}, wanted : SUBSET Kinds, state : [Kinds -> States],
     route : [Kinds -> Routes \cup {NoRoute, Unresolved}],
     flight : SUBSET SUBSET Kinds, once : SUBSET Routes, twice : SUBSET Routes]

CallTypeOK(p) == p \in CallState /\ IsFiniteSet(p.flight) /\ Cardinality(p.flight) <= Limit

\* The groups that are tested: the kinds of one route each, all of them
\* running, and none is running otherwise.
FlightIsGroups(p) ==
    \A g \in p.flight : \E k \in g :
       /\ p.route[k] \in Routes
       /\ g = {j \in p.wanted : p.route[j] = p.route[k]}
RunningInFlight(p) ==
    p.pc = "live" => \A k \in p.wanted :
       /\ p.state[k] \in {"pending", "running"} \cup Final
       /\ p.state[k] = "running" => \E g \in p.flight : k \in g

\* Nothing is tested before all is resolved, and what was tested leaves no kind
\* that waits for it.
AskedAfterResolving(p) ==
    p.pc = "live" => \A k \in p.wanted :
       /\ p.once # {} \/ p.flight # {} => p.route[k] # Unresolved
       /\ p.state[k] = "pending" => p.route[k] \notin p.once

Begun(p) ==
    /\ p.pc # "live" => p.flight = {}
    /\ p.pc = "new" => p.once = {} /\ \A k \in p.wanted : p.state[k] = "pending"

CallOK(p) ==
    /\ CallTypeOK(p) /\ FlightIsGroups(p) /\ RunningInFlight(p)
    /\ AskedAfterResolving(p) /\ Begun(p) /\ p.twice = {}

\* The job is the only call that anything else depends on.
JobOK(p, running, cancelled) ==
    /\ p.pc # "none" => running
    /\ ~running /\ ~cancelled => \A k \in p.wanted : p.state[k] \in Final

ProbeInv ==
    /\ probe \in [Calls -> CallState] /\ busy \in BOOLEAN /\ killed \in BOOLEAN
    /\ \A c \in Calls : CallOK(probe[c])
    /\ JobOK(probe[Job], busy, killed)

\* Different groups share no kind.
LEMMA GroupsDisjoint ==
    ASSUME NEW p, FlightIsGroups(p), NEW g \in p.flight, NEW h \in p.flight, NEW j \in g, j \in h
    PROVE  g = h
<1>1. PICK k \in g : g = {i \in p.wanted : p.route[i] = p.route[k]}
  BY DEF FlightIsGroups
<1>2. PICK m \in h : h = {i \in p.wanted : p.route[i] = p.route[m]}
  BY DEF FlightIsGroups
<1>3. g = {i \in p.wanted : p.route[i] = p.route[j]}
  BY <1>1
<1>4. h = {i \in p.wanted : p.route[i] = p.route[j]}
  BY <1>2
<1> QED
  BY <1>3, <1>4

LEMMA InvIsEnough == ProbeInv => ProbesOnce
<1> SUFFICES ASSUME ProbeInv PROVE ProbesOnce
  OBVIOUS
<1>1. Job \in Calls
  BY DEF Calls
<1>2. \A c \in Calls : \A g, h \in probe[c].flight : g # h => g \cap h = {}
  BY GroupsDisjoint DEF ProbeInv, CallOK
<1>3. probe[Job].flight # {} => busy
  BY <1>1 DEF ProbeInv, CallOK, Begun, JobOK
<1> QED
  BY <1>2, <1>3 DEF ProbeInv, CallOK, CallTypeOK, JobOK, ProbesOnce

\* A call that has just been made, whatever it wants.
LEMMA CalledIsOK ==
    ASSUME NEW pc \in {"none", "new", "live"}, NEW ks \in SUBSET Kinds
    PROVE  CallOK(Called(pc, ks))
<1> DEFINE p == Called(pc, ks)
<1>1. IsFiniteSet({}) /\ Cardinality({}) = 0
  BY FS_EmptySet
<1>2. /\ p.pc = pc /\ p.wanted = ks /\ p.flight = {} /\ p.once = {} /\ p.twice = {}
      /\ \A k \in ks : p.state[k] = "pending"
  BY DEF Called
<1>3. p \in CallState
  BY DEF Called, CallState, States
<1>4. CallTypeOK(p)
  BY <1>1, <1>2, <1>3, ProbeAssumption DEF CallTypeOK
<1>5. FlightIsGroups(p) /\ RunningInFlight(p) /\ AskedAfterResolving(p) /\ Begun(p)
  BY <1>2 DEF FlightIsGroups, RunningInFlight, AskedAfterResolving, Begun
<1> QED
  BY <1>2, <1>4, <1>5 DEF CallOK

\* A step changes one call.
LEMMA OneCall ==
    ASSUME ProbeInv, NEW c \in Calls, NEW p, CallOK(p), probe' = [probe EXCEPT ![c] = p],
           busy' \in BOOLEAN, killed' \in BOOLEAN, JobOK(probe'[Job], busy', killed')
    PROVE  ProbeInv'
<1>1. p \in CallState
  BY DEF CallOK, CallTypeOK
<1>2. probe' \in [Calls -> CallState] /\ \A d \in Calls : probe'[d] = IF d = c THEN p ELSE probe[d]
  BY <1>1 DEF ProbeInv
<1> QED
  BY <1>2 DEF ProbeInv

\* A call that is live stays as it was for the job's account.
LEMMA JobKept ==
    ASSUME ProbeInv, NEW c \in Calls, NEW p, probe' = [probe EXCEPT ![c] = p],
           probe[c].pc = "live", UNCHANGED <<busy, killed>>
    PROVE  JobOK(probe'[Job], busy', killed')
<1>1. Job \in Calls
  BY DEF Calls
<1>2. CASE c = Job
  BY <1>1, <1>2 DEF ProbeInv, JobOK
<1>3. CASE c # Job
  BY <1>1, <1>3 DEF ProbeInv, JobOK
<1> QED
  BY <1>2, <1>3

LEMMA InitIsSound == ProbeInit => ProbeInv
<1> SUFFICES ASSUME ProbeInit PROVE ProbeInv
  OBVIOUS
<1>1. CallOK(Called("none", {})) /\ Called("none", {}) \in CallState
  BY CalledIsOK DEF CallOK, CallTypeOK
<1>2. Job \in Calls /\ Called("none", {}).pc = "none" /\ Called("none", {}).wanted = {}
  BY DEF Calls, Called
<1> QED
  BY <1>1, <1>2 DEF ProbeInit, ProbeInv, JobOK

LEMMA StartIsSound == ASSUME ProbeInv, NEW ks \in SUBSET Kinds, StartProbe(ks) PROVE ProbeInv'
<1>1. Job \in Calls /\ CallOK(Called("new", ks))
  BY CalledIsOK DEF Calls
<1>2. probe' = [probe EXCEPT ![Job] = Called("new", ks)] /\ busy' = TRUE /\ killed' = FALSE
  BY DEF StartProbe
<1>3. JobOK(probe'[Job], busy', killed')
  BY <1>1, <1>2 DEF JobOK
<1> QED
  BY <1>1, <1>2, <1>3, OneCall

LEMMA TestIsSound ==
    ASSUME ProbeInv, NEW t \in Tests, NEW pc \in {"none", "live"}, NEW ks \in SUBSET Kinds,
           probe' = [probe EXCEPT ![t] = Called(pc, ks)], UNCHANGED <<busy, killed>>
    PROVE  ProbeInv'
<1>1. t \in Calls /\ Job \in Calls /\ t # Job /\ CallOK(Called(pc, ks))
  BY CalledIsOK, ProbeAssumption DEF Calls
<1>2. JobOK(probe'[Job], busy', killed') /\ busy' \in BOOLEAN /\ killed' \in BOOLEAN
  BY <1>1 DEF ProbeInv
<1> QED
  BY <1>1, <1>2, OneCall

LEMMA RunIsSound == ASSUME ProbeInv, RunProbe PROVE ProbeInv'
<1> DEFINE p == [probe[Job] EXCEPT !.pc = "live"]
<1>1. Job \in Calls /\ CallOK(probe[Job]) /\ probe[Job] \in CallState /\ probe[Job].pc = "new"
  BY DEF Calls, RunProbe, ProbeInv
<1>2. /\ p \in CallState /\ p.pc = "live" /\ p.wanted = probe[Job].wanted
      /\ p.state = probe[Job].state /\ p.route = probe[Job].route
      /\ p.flight = probe[Job].flight /\ p.once = probe[Job].once /\ p.twice = probe[Job].twice
  BY <1>1 DEF CallState
<1>3. p.flight = {} /\ p.once = {} /\ \A k \in p.wanted : p.state[k] = "pending"
  BY <1>1, <1>2 DEF CallOK, Begun
<1>4. CallOK(p)
  BY <1>1, <1>2, <1>3
  DEF CallOK, CallTypeOK, FlightIsGroups, RunningInFlight, AskedAfterResolving, Begun
<1>5. probe' = [probe EXCEPT ![Job] = p] /\ UNCHANGED <<busy, killed>>
  BY <1>1 DEF RunProbe
<1>6. JobOK(probe'[Job], busy', killed') /\ busy' \in BOOLEAN /\ killed' \in BOOLEAN
  BY <1>1, <1>5 DEF ProbeInv, JobOK
<1> QED
  BY <1>1, <1>4, <1>5, <1>6, OneCall

LEMMA ResolveIsSound ==
    ASSUME ProbeInv, NEW c \in Calls, NEW k \in Kinds, ResolveKind(c, k) PROVE ProbeInv'
<1>1. PICK r \in Routes \cup {NoRoute} : probe' = [probe EXCEPT ![c].route[k] = r]
  BY DEF ResolveKind
<1> DEFINE p == [probe[c] EXCEPT !.route[k] = r]
<1>2. /\ CallOK(probe[c]) /\ probe[c] \in CallState /\ probe[c].pc = "live"
      /\ k \in probe[c].wanted /\ probe[c].route[k] = Unresolved
  BY DEF ResolveKind, ProbeInv
<1>3. probe[c].flight = {} /\ probe[c].once = {}
  BY <1>2 DEF CallOK, AskedAfterResolving
<1>4. /\ p \in CallState /\ p.pc = "live" /\ p.wanted = probe[c].wanted
      /\ p.state = probe[c].state /\ p.flight = {} /\ p.once = {} /\ p.twice = probe[c].twice
  BY <1>2, <1>3 DEF CallState
<1>5. CallOK(p)
  BY <1>2, <1>3, <1>4
  DEF CallOK, CallTypeOK, FlightIsGroups, RunningInFlight, AskedAfterResolving, Begun
<1>6. probe' = [probe EXCEPT ![c] = p] /\ UNCHANGED <<busy, killed>>
  BY <1>1 DEF ResolveKind
<1>7. busy' \in BOOLEAN /\ killed' \in BOOLEAN
  BY <1>6 DEF ProbeInv
<1> QED
  BY <1>2, <1>5, <1>6, <1>7, OneCall, JobKept

LEMMA KindsAreFacts ==
    ASSUME NEW c \in Calls, probe[c] \in CallState, NEW ks, NEW s \in States
    PROVE  /\ KindsAre(c, ks, s) \in [Kinds -> States]
           /\ \A k \in Kinds : KindsAre(c, ks, s)[k] = IF k \in ks THEN s ELSE probe[c].state[k]
  BY DEF KindsAre, CallState

LEMMA EndIsSound ==
    ASSUME ProbeInv, NEW c \in Calls, NEW g \in probe[c].flight, EndGroup(c, g) PROVE ProbeInv'
<1>1. PICK s \in {"ok", "failed"} :
         probe' = [probe EXCEPT ![c].state = KindsAre(c, g, s), ![c].flight = @ \ {g}]
  BY DEF EndGroup
<1> DEFINE p == [probe[c] EXCEPT !.state = KindsAre(c, g, s), !.flight = @ \ {g}]
<1>2. CallOK(probe[c]) /\ probe[c] \in CallState /\ probe[c].pc = "live"
  BY DEF EndGroup, ProbeInv
<1>3. /\ KindsAre(c, g, s) \in [Kinds -> States]
      /\ \A k \in Kinds : KindsAre(c, g, s)[k] = IF k \in g THEN s ELSE probe[c].state[k]
  BY <1>2, KindsAreFacts DEF States
<1>4. /\ p \in CallState /\ p.pc = "live" /\ p.wanted = probe[c].wanted
      /\ p.state = KindsAre(c, g, s) /\ p.route = probe[c].route
      /\ p.flight = probe[c].flight \ {g} /\ p.once = probe[c].once /\ p.twice = probe[c].twice
      /\ p.wanted \subseteq Kinds
  BY <1>2, <1>3 DEF CallState
<1>5. CallTypeOK(p)
  <2>1. /\ IsFiniteSet(probe[c].flight) /\ Cardinality(probe[c].flight) \in Nat
        /\ Cardinality(probe[c].flight) <= Limit
    BY <1>2, FS_CardinalityType DEF CallOK, CallTypeOK
  <2>2. /\ IsFiniteSet(probe[c].flight \ {g})
        /\ Cardinality(probe[c].flight \ {g}) = Cardinality(probe[c].flight) - 1
    BY <2>1, FS_RemoveElement
  <2> QED
    BY <1>4, <2>1, <2>2, ProbeAssumption DEF CallTypeOK
<1>6. FlightIsGroups(p)
  BY <1>2, <1>4 DEF CallOK, FlightIsGroups
<1>7. RunningInFlight(p)
  BY <1>2, <1>3, <1>4 DEF CallOK, RunningInFlight, Final
<1>8. AskedAfterResolving(p) /\ Begun(p) /\ p.twice = {}
  BY <1>2, <1>3, <1>4 DEF CallOK, AskedAfterResolving, Begun
<1>9. CallOK(p)
  BY <1>5, <1>6, <1>7, <1>8 DEF CallOK
<1>10. probe' = [probe EXCEPT ![c] = p] /\ UNCHANGED <<busy, killed>>
  BY <1>1 DEF EndGroup
<1>11. busy' \in BOOLEAN /\ killed' \in BOOLEAN
  BY <1>10 DEF ProbeInv
<1> QED
  BY <1>2, <1>9, <1>10, <1>11, OneCall, JobKept

\* A group that begins takes all kinds of its route with it, so that its route
\* is not tested again.
LEMMA BeginGroupIsSound ==
    ASSUME ProbeInv, NEW c \in Calls, NEW k \in Kinds, BeginGroup(c, k) PROVE ProbeInv'
<1> DEFINE q == probe[c]
<1>1. /\ CallOK(q) /\ q \in CallState /\ q.pc = "live" /\ k \in q.wanted
      /\ q.state[k] = "pending" /\ \A j \in q.wanted : q.route[j] # Unresolved
      /\ q.wanted \subseteq Kinds
  BY DEF BeginGroup, Resolving, ProbeInv, CallState
<1>2. busy' = busy /\ killed' = killed /\ busy' \in BOOLEAN /\ killed' \in BOOLEAN
  BY DEF BeginGroup, ProbeInv
<1>3. CASE /\ q.route[k] = NoRoute
           /\ probe' = [probe EXCEPT ![c].state = KindsAre(c, Group(c, k), "unavailable")]
  <2> DEFINE p == [q EXCEPT !.state = KindsAre(c, Group(c, k), "unavailable")]
  <2>1. Group(c, k) = {k}
    BY <1>1, <1>3 DEF Group
  <2>2. /\ KindsAre(c, Group(c, k), "unavailable") \in [Kinds -> States]
        /\ \A j \in Kinds : KindsAre(c, Group(c, k), "unavailable")[j]
              = IF j \in Group(c, k) THEN "unavailable" ELSE q.state[j]
    BY <1>1, KindsAreFacts DEF States
  <2>3. /\ p \in CallState /\ p.pc = "live" /\ p.wanted = q.wanted
        /\ p.state = KindsAre(c, Group(c, k), "unavailable") /\ p.route = q.route
        /\ p.flight = q.flight /\ p.once = q.once /\ p.twice = q.twice
    BY <1>1, <2>2 DEF CallState
  <2>4. CallTypeOK(p) /\ FlightIsGroups(p) /\ Begun(p) /\ p.twice = {}
    BY <1>1, <2>3 DEF CallOK, CallTypeOK, FlightIsGroups, Begun
  <2>5. RunningInFlight(p) /\ AskedAfterResolving(p)
    BY <1>1, <2>1, <2>2, <2>3 DEF CallOK, RunningInFlight, AskedAfterResolving, Final
  <2>6. CallOK(p) /\ probe' = [probe EXCEPT ![c] = p]
    BY <1>3, <2>4, <2>5 DEF CallOK
  <2> QED
    BY <1>1, <1>2, <2>6, OneCall, JobKept
<1>4. CASE /\ q.route[k] # NoRoute
           /\ probe' = [probe EXCEPT
                 ![c].state = KindsAre(c, Group(c, k), "running"),
                 ![c].flight = @ \cup {Group(c, k)},
                 ![c].once = @ \cup {q.route[k]},
                 ![c].twice = @ \cup (q.once \cap {q.route[k]})]
  <2> DEFINE p == [q EXCEPT !.state = KindsAre(c, Group(c, k), "running"),
                            !.flight = @ \cup {Group(c, k)},
                            !.once = @ \cup {q.route[k]},
                            !.twice = @ \cup (q.once \cap {q.route[k]})]
  <2>1. q.route[k] \in Routes
    BY <1>1, <1>4 DEF CallState
  <2>2. Group(c, k) = {j \in q.wanted : q.route[j] = q.route[k]} /\ k \in Group(c, k)
        /\ Group(c, k) \subseteq Kinds
    BY <1>1, <1>4 DEF Group
  <2>3. /\ KindsAre(c, Group(c, k), "running") \in [Kinds -> States]
        /\ \A j \in Kinds : KindsAre(c, Group(c, k), "running")[j]
              = IF j \in Group(c, k) THEN "running" ELSE q.state[j]
    BY <1>1, KindsAreFacts DEF States
  <2>4. /\ p \in CallState /\ p.pc = "live" /\ p.wanted = q.wanted
        /\ p.state = KindsAre(c, Group(c, k), "running") /\ p.route = q.route
        /\ p.flight = q.flight \cup {Group(c, k)} /\ p.once = q.once \cup {q.route[k]}
        /\ p.twice = q.twice \cup (q.once \cap {q.route[k]})
    <3>1. /\ q.flight \cup {Group(c, k)} \in SUBSET SUBSET Kinds
          /\ q.once \cup {q.route[k]} \in SUBSET Routes
          /\ q.twice \cup (q.once \cap {q.route[k]}) \in SUBSET Routes
      BY <1>1, <2>1, <2>2 DEF CallState
    <3> QED
      BY <1>1, <2>3, <3>1 DEF CallState
  <2>5. p.twice = {}
    BY <1>1, <2>4 DEF CallOK, AskedAfterResolving
  <2>6. CallTypeOK(p)
    <3>1. IsFiniteSet(q.flight) /\ Cardinality(q.flight) \in Nat /\ Cardinality(q.flight) < Limit
      BY <1>1, FS_CardinalityType DEF CallOK, CallTypeOK, BeginGroup
    <3>2. /\ IsFiniteSet(p.flight)
          /\ \/ Cardinality(p.flight) = Cardinality(q.flight)
             \/ Cardinality(p.flight) = Cardinality(q.flight) + 1
      BY <2>4, <3>1, FS_AddElement
    <3> QED
      BY <2>4, <3>1, <3>2, ProbeAssumption DEF CallTypeOK
  <2>7. FlightIsGroups(p)
    BY <1>1, <2>1, <2>2, <2>4 DEF CallOK, FlightIsGroups
  <2>8. RunningInFlight(p)
    BY <1>1, <2>2, <2>3, <2>4 DEF CallOK, RunningInFlight
  <2>9. AskedAfterResolving(p) /\ Begun(p)
    BY <1>1, <2>2, <2>3, <2>4 DEF CallOK, AskedAfterResolving, Begun
  <2>10. CallOK(p) /\ probe' = [probe EXCEPT ![c] = p]
    BY <1>4, <2>5, <2>6, <2>7, <2>8, <2>9 DEF CallOK
  <2> QED
    BY <1>1, <1>2, <2>10, OneCall, JobKept
<1> QED
  BY <1>3, <1>4 DEF BeginGroup

LEMMA FinishIsSound == ASSUME ProbeInv, FinishProbe PROVE ProbeInv'
<1> DEFINE p == [probe[Job] EXCEPT !.pc = "none"]
<1>1. /\ Job \in Calls /\ CallOK(probe[Job]) /\ probe[Job] \in CallState
      /\ probe[Job].pc = "live" /\ probe[Job].flight = {}
      /\ \A k \in probe[Job].wanted : probe[Job].state[k] # "pending"
  BY DEF Calls, FinishProbe, Through, ProbeInv
<1>2. /\ p \in CallState /\ p.pc = "none" /\ p.wanted = probe[Job].wanted
      /\ p.state = probe[Job].state /\ p.flight = {} /\ p.twice = probe[Job].twice
  BY <1>1 DEF CallState
<1>3. \A k \in p.wanted : p.state[k] \in Final
  BY <1>1, <1>2 DEF CallOK, RunningInFlight
<1>4. CallOK(p)
  BY <1>1, <1>2
  DEF CallOK, CallTypeOK, FlightIsGroups, RunningInFlight, AskedAfterResolving, Begun
<1>5. probe' = [probe EXCEPT ![Job] = p] /\ busy' = FALSE /\ killed' = killed
  BY DEF FinishProbe
<1>6. JobOK(probe'[Job], busy', killed') /\ busy' \in BOOLEAN /\ killed' \in BOOLEAN
  BY <1>1, <1>2, <1>3, <1>5 DEF ProbeInv, JobOK
<1> QED
  BY <1>1, <1>4, <1>5, <1>6, OneCall

LEMMA CancelIsSound == ASSUME ProbeInv, CancelProbe PROVE ProbeInv'
<1> DEFINE p == [probe[Job] EXCEPT !.pc = "none", !.flight = {}]
<1>1. Job \in Calls /\ CallOK(probe[Job]) /\ probe[Job] \in CallState
  BY DEF Calls, ProbeInv
<1>2. IsFiniteSet({}) /\ Cardinality({}) = 0
  BY FS_EmptySet
<1>3. p \in CallState /\ p.pc = "none" /\ p.flight = {} /\ p.twice = probe[Job].twice
  BY <1>1 DEF CallState
<1>4. CallOK(p)
  BY <1>1, <1>2, <1>3, ProbeAssumption
  DEF CallOK, CallTypeOK, FlightIsGroups, RunningInFlight, AskedAfterResolving, Begun
<1>5. probe' = [probe EXCEPT ![Job] = p] /\ busy' = (probe[Job].pc = "new") /\ killed' = TRUE
  BY DEF CancelProbe
<1>6. JobOK(probe'[Job], busy', killed') /\ busy' \in BOOLEAN /\ killed' \in BOOLEAN
  BY <1>1, <1>3, <1>5 DEF ProbeInv, JobOK
<1> QED
  BY <1>1, <1>4, <1>5, <1>6, OneCall

\* ProbesOnce for every set of kinds, routes and direct tests and every limit.
THEOREM ProbesAlwaysOnce == ProbeSpec => []ProbesOnce
<1>1. ProbeInv /\ [ProbeNext]_probeVars => ProbeInv'
  <2> SUFFICES ASSUME ProbeInv, [ProbeNext]_probeVars PROVE ProbeInv'
    OBVIOUS
  <2>1. CASE UNCHANGED probeVars
    BY <2>1 DEF probeVars, ProbeInv
  <2>2. ASSUME NEW t \in Tests, NEW ks \in SUBSET Kinds, StartTest(t, ks) PROVE ProbeInv'
    BY <2>2, TestIsSound DEF StartTest
  <2>3. ASSUME NEW t \in Tests, FinishTest(t) PROVE ProbeInv'
    <3>1. {} \in SUBSET Kinds /\ "none" \in {"none", "live"}
      OBVIOUS
    <3>2. probe' = [probe EXCEPT ![t] = Called("none", {})] /\ UNCHANGED <<busy, killed>>
      BY <2>3 DEF FinishTest
    <3> QED
      BY <3>1, <3>2, TestIsSound
  <2> QED
    BY <2>1, <2>2, <2>3, StartIsSound, ResolveIsSound, BeginGroupIsSound, EndIsSound, RunIsSound,
       FinishIsSound, CancelIsSound DEF ProbeNext
<1> QED
  BY <1>1, InitIsSound, InvIsEnough, PTL DEF ProbeSpec

---------------------------------------------------------------------------
(* Operations of the pages: RecordOfInstalled for any number of            *)
(* operations, pushes and changes.  The property speaks of quiet states    *)
(* only; what makes it inductive is that a change which nobody overtook is *)
(* what is installed, until it is recorded.                                *)

OpState ==
    [pc : {"idle", "waiting", "asking", "inside", "changed", "resolving", "running"},
     kind : {"none", "install", "update", "force", "run", "rollback", "webRollback"},
     by : {"none", "tag", "release", "branch"},
     base : Nat \cup {Absent}, cand : Nat \cup {NoSha}, got : Nat \cup {NoSha},
     overtaken : BOOLEAN]

OpsTypeOK ==
    /\ branch \in Nat /\ known \in Nat \cup {NoSha}
    /\ installed \in Nat \cup {Absent} /\ record \in Nat \cup {NoSha}
    /\ mutex \in Ops \cup {NoOp} /\ changes \in Nat /\ muddled \in BOOLEAN
    /\ opState \in [Ops -> OpState]

\* The candidate of an operation that has one is what it installs, but for the
\* archive of a branch, which is all an install has.
HasVersion(q) ==
    /\ q.kind \notin {"rollback", "webRollback"}
    /\ q.by \in {"tag", "release", "branch"}
    /\ q.by # "branch" => q.cand \in Nat
    /\ q.kind = "install" => q.by = "branch"
Sound(q) ==
    /\ q.pc \in {"waiting", "inside", "changed", "resolving"} => HasVersion(q)
    /\ q.pc = "running" /\ q.kind \notin {"rollback", "webRollback"} => HasVersion(q)
    /\ q.pc = "asking" => q.kind \in {"update", "force", "run"}
    /\ q.pc = "resolving" => q.by # "tag"
    /\ q.pc \in {"changed", "resolving", "running"} =>
          q.got \in Nat /\ (HasVersion(q) /\ q.by # "branch" => q.cand = q.got)
OpsSound == \A o \in Ops : Sound(opState[o])

LastIsInstalled == \A o \in Changing : ~opState[o].overtaken => installed = opState[o].got

OpsInv == OpsTypeOK /\ OpsSound /\ LastIsInstalled /\ RecordOfInstalled

LEMMA QuietIsSound == Quiet \in OpState /\ Sound(Quiet) /\ Quiet.pc = "idle"
  BY DEF Quiet, OpState, Sound

---------------------------------------------------------------------------
\* One operation moves; the others stay as they are.
LEMMA BecomesAt ==
    ASSUME OpsTypeOK, OpsSound, NEW o \in Ops, NEW r \in OpState, Becomes(o, r), Sound(r)
    PROVE  /\ opState' \in [Ops -> OpState] /\ OpsSound'
           /\ \A q \in Ops : opState'[q] = IF q = o THEN r ELSE opState[q]
  BY DEF Becomes, OpsTypeOK, OpsSound

\* One operation changes the plugin: every change under way but its own has
\* been overtaken.
LEMMA OvertakesAt ==
    ASSUME OpsTypeOK, OpsSound, NEW o \in Ops, NEW r \in OpState, Overtakes(o, r), Sound(r)
    PROVE  /\ opState' \in [Ops -> OpState] /\ OpsSound'
           /\ opState'[o] = r
           /\ \A q \in Changing' \ {o} : opState'[q].overtaken
<1>1. \A q \in Ops : opState'[q] = IF q = o THEN r
                       ELSE [opState[q] EXCEPT !.overtaken = @ \/ q \in Changing]
  BY DEF Overtakes
<1>2. \A q \in Ops : opState[q] \in OpState
  BY DEF OpsTypeOK
<1>3. ASSUME NEW s \in OpState, NEW t, t = [s EXCEPT !.overtaken = TRUE]
      PROVE  /\ t \in OpState /\ t.overtaken = TRUE /\ t.pc = s.pc
             /\ Sound(s) => Sound(t)
  BY <1>3 DEF OpState, Sound, HasVersion
<1>4. ASSUME NEW q \in Ops \ {o}
      PROVE  /\ opState'[q] \in OpState /\ opState'[q].pc = opState[q].pc
             /\ q \in Changing => opState'[q].overtaken
             /\ Sound(opState'[q])
  <2>1. CASE q \in Changing
    <3>1. opState'[q] = [opState[q] EXCEPT !.overtaken = TRUE]
      BY <1>1, <2>1
    <3> QED
      BY <1>2, <1>3, <3>1 DEF OpsSound
  <2>2. CASE q \notin Changing
    <3>1. opState'[q] = opState[q]
      BY <1>1, <1>2, <2>2 DEF OpState
    <3> QED
      BY <1>2, <2>2, <3>1 DEF OpsSound
  <2> QED
    BY <2>1, <2>2
<1>5. opState' \in [Ops -> OpState]
  BY <1>1, <1>4 DEF Overtakes
<1>6. OpsSound'
  BY <1>1, <1>4 DEF OpsSound
<1> QED
  BY <1>1, <1>4, <1>5, <1>6 DEF Changing

\* An operation that is not changing the plugin moves on, and does not begin to.
LEMMA MovesOn ==
    ASSUME OpsInv, NEW o \in Ops, NEW r \in OpState, Becomes(o, r), Sound(r),
           o \notin Changing, r.pc \notin {"changed", "resolving", "running"},
           UNCHANGED <<installed, record, muddled>>
    PROVE  OpsSound' /\ LastIsInstalled' /\ RecordOfInstalled'
<1>1. /\ OpsSound'
      /\ \A q \in Ops : opState'[q] = IF q = o THEN r ELSE opState[q]
  BY BecomesAt DEF OpsInv
<1>2. Changing' = Changing
  BY <1>1 DEF Changing
<1>3. \A q \in Changing : opState'[q] = opState[q]
  BY <1>1 DEF Changing
<1>4. LastIsInstalled'
  BY <1>2, <1>3 DEF OpsInv, LastIsInstalled
<1> QED
  BY <1>1, <1>2, <1>4 DEF OpsInv, RecordOfInstalled

\* The end of an operation that has changed the plugin: what matters is that
\* the record is right then, for a change that nobody overtook.
LEMMA EndsWell ==
    ASSUME OpsInv, NEW o \in Ops, Done(o), UNCHANGED installed,
           ~muddled' /\ record' # NoSha => record' = installed
    PROVE  OpsSound' /\ LastIsInstalled' /\ RecordOfInstalled'
<1>1. /\ OpsSound'
      /\ \A q \in Ops : opState'[q] = IF q = o THEN Quiet ELSE opState[q]
  BY QuietIsSound, BecomesAt DEF OpsInv, Done
<1>2. Changing' \subseteq Changing /\ \A q \in Changing' : opState'[q] = opState[q]
  BY <1>1, QuietIsSound DEF Changing
<1>3. LastIsInstalled'
  BY <1>2 DEF OpsInv, LastIsInstalled
<1> QED
  BY <1>1, <1>3 DEF RecordOfInstalled

\* What Remember writes is what the operation installed, or spoils the record.
LEMMA RememberIsRight ==
    ASSUME OpsInv, NEW o \in Changing, NEW sha, Remember(o, sha),
           HasVersion(opState[o]), opState[o].by # "branch" => sha \in {NoSha, opState[o].cand}
    PROVE  ~muddled' /\ record' # NoSha => record' = installed
<1>1. o \in Ops /\ Sound(opState[o])
  BY DEF Changing, OpsInv, OpsSound
<1>2. opState[o].by # "branch" => opState[o].cand = opState[o].got
  BY <1>1 DEF Sound, Changing
<1> QED
  BY <1>2 DEF Remember, WriteRecord, OpsInv, LastIsInstalled

---------------------------------------------------------------------------
LEMMA ChangeIsSound ==
    ASSUME OpsInv, NEW o \in Ops, ChangePlugin(o)
    PROVE  OpsInv'
<1> DEFINE version == IF opState[o].by = "branch" THEN branch ELSE opState[o].cand
           r == [opState[o] EXCEPT !.pc = "changed", !.got = version]
<1>1. opState[o] \in OpState /\ Sound(opState[o]) /\ opState[o].pc = "inside"
  BY DEF OpsInv, OpsTypeOK, OpsSound, ChangePlugin
<1>2. version \in Nat
  BY <1>1 DEF Sound, HasVersion, OpsInv, OpsTypeOK
<1>3. r \in OpState /\ r.got = version /\ r.pc = "changed"
  BY <1>1, <1>2 DEF OpState
<1>4. Sound(r)
  BY <1>1, <1>2 DEF Sound, HasVersion, OpState
<1>5. /\ opState' \in [Ops -> OpState] /\ OpsSound' /\ opState'[o] = r
      /\ \A q \in Changing' \ {o} : opState'[q].overtaken
  <2>1. Overtakes(o, r)
    BY DEF ChangePlugin
  <2> HIDE DEF r
  <2> QED
    BY <2>1, <1>3, <1>4, OvertakesAt DEF OpsInv
<1>6. installed' = version /\ o \in Changing'
  BY <1>3, <1>5 DEF ChangePlugin, Changing
<1>7. LastIsInstalled' /\ RecordOfInstalled'
  BY <1>3, <1>5, <1>6 DEF LastIsInstalled, RecordOfInstalled
<1>8. OpsTypeOK'
  BY <1>2, <1>5, <1>6 DEF ChangePlugin, OpsInv, OpsTypeOK
<1> QED
  BY <1>5, <1>7, <1>8 DEF OpsInv

LEMMA RollBackIsSound ==
    ASSUME OpsInv, NEW o \in Ops, RollBackRun(o)
    PROVE  OpsInv'
<1>1. opState[o] \in OpState /\ o \in Changing
  BY DEF OpsInv, OpsTypeOK, RollBackRun, Changing
<1>2. /\ opState' \in [Ops -> OpState] /\ OpsSound' /\ opState'[o] = Quiet
      /\ \A q \in Changing' \ {o} : opState'[q].overtaken
  BY OvertakesAt, QuietIsSound DEF RollBackRun, OpsInv
<1>3. o \notin Changing'
  BY <1>2, QuietIsSound DEF Changing
<1>4. LastIsInstalled' /\ RecordOfInstalled'
  BY <1>2, <1>3 DEF LastIsInstalled, RecordOfInstalled, RollBackRun
<1>5. OpsTypeOK'
  <2>1. opState[o].base \in Nat \cup {Absent}
    BY <1>1 DEF OpState
  <2>2. muddled' \in BOOLEAN
    BY <1>1 DEF RollBackRun, OpsInv, OpsTypeOK, OpState
  <2> QED
    BY <1>2, <2>1, <2>2 DEF RollBackRun, OpsInv, OpsTypeOK
<1> QED
  BY <1>2, <1>4, <1>5 DEF OpsInv

LEMMA StartRollbackIsSound ==
    ASSUME OpsInv, NEW o \in Ops, StartRollback(o)
    PROVE  OpsInv'
<1>1. PICK version \in Shas, kind \in {"rollback", "webRollback"} :
         /\ installed' = version
         /\ Overtakes(o, [Quiet EXCEPT !.pc = "running", !.kind = kind, !.got = version])
  BY DEF StartRollback
<1> DEFINE r == [Quiet EXCEPT !.pc = "running", !.kind = kind, !.got = version]
<1>2. version \in Nat
  BY OperationsAssumption DEF Shas
<1>3. r \in OpState /\ r.got = version /\ r.pc = "running" /\ r.kind = kind
  BY <1>2 DEF Quiet, OpState
<1>4. Sound(r)
  BY <1>2, <1>3 DEF Sound, HasVersion
<1>5. /\ opState' \in [Ops -> OpState] /\ OpsSound' /\ opState'[o] = r
      /\ \A q \in Changing' \ {o} : opState'[q].overtaken
  <2>1. Overtakes(o, r)
    BY <1>1
  <2> HIDE DEF r
  <2> QED
    BY <2>1, <1>3, <1>4, OvertakesAt DEF OpsInv
<1>6. o \in Changing'
  BY <1>3, <1>5 DEF Changing
<1>7. LastIsInstalled' /\ RecordOfInstalled'
  BY <1>1, <1>3, <1>5, <1>6 DEF LastIsInstalled, RecordOfInstalled
<1>8. OpsTypeOK'
  BY <1>1, <1>2, <1>5 DEF StartRollback, OpsInv, OpsTypeOK
<1> QED
  BY <1>5, <1>7, <1>8 DEF OpsInv

\* Leaving the lock keeps an operation among those that change the plugin, or
\* ends it with a record.
LEMMA LeaveIsSound ==
    ASSUME OpsInv, NEW o \in Ops, LeaveMutex(o)
    PROVE  OpsSound' /\ LastIsInstalled' /\ RecordOfInstalled'
<1>1. opState[o] \in OpState /\ Sound(opState[o]) /\ opState[o].pc = "changed" /\ o \in Changing
  BY DEF OpsInv, OpsTypeOK, OpsSound, LeaveMutex, Changing
<1>2. HasVersion(opState[o])
  BY <1>1 DEF Sound
<1>3. ASSUME NEW pc \in {"running", "resolving"}, Becomes(o, [opState[o] EXCEPT !.pc = pc]),
             pc = "resolving" => opState[o].by # "tag"
      PROVE  OpsSound' /\ LastIsInstalled' /\ RecordOfInstalled'
  <2> DEFINE r == [opState[o] EXCEPT !.pc = pc]
  <2>1. r \in OpState /\ r.pc = pc /\ r.got = opState[o].got /\ r.overtaken = opState[o].overtaken
    BY <1>1 DEF OpState
  <2>2. Sound(r)
    BY <1>1, <1>2, <1>3, <2>1 DEF Sound, HasVersion, OpState
  <2>3. /\ OpsSound'
        /\ \A q \in Ops : opState'[q] = IF q = o THEN r ELSE opState[q]
    <3>1. Becomes(o, r)
      BY <1>3
    <3> HIDE DEF r
    <3> QED
      BY <3>1, <2>1, <2>2, BecomesAt DEF OpsInv
  <2>4. Changing' = Changing
    BY <1>1, <2>1, <2>3 DEF Changing
  <2> HIDE DEF r
  <2>5. \A q \in Changing : opState'[q].overtaken = opState[q].overtaken
                            /\ opState'[q].got = opState[q].got
    BY <2>1, <2>3 DEF Changing
  <2>6. LastIsInstalled'
    BY <2>4, <2>5 DEF OpsInv, LastIsInstalled, LeaveMutex
  <2> QED
    BY <1>1, <2>3, <2>4, <2>6 DEF RecordOfInstalled
<1>4. CASE Becomes(o, [opState[o] EXCEPT !.pc = "running"])
  BY <1>3, <1>4
<1>5. CASE /\ opState[o].by = "release" \/ (opState[o].kind = "install" /\ known = NoSha)
           /\ Becomes(o, [opState[o] EXCEPT !.pc = "resolving"])
  <2>1. opState[o].by # "tag"
    BY <1>2, <1>5 DEF HasVersion
  <2> QED
    BY <1>3, <1>5, <2>1
<1>6. CASE /\ opState[o].by # "release"
           /\ Remember(o, IF opState[o].by = "tag" THEN opState[o].cand ELSE known)
           /\ Done(o)
  <2>1. opState[o].by # "branch" => opState[o].by = "tag"
    BY <1>2, <1>6 DEF HasVersion
  <2>2. ~muddled' /\ record' # NoSha => record' = installed
    BY <1>1, <1>2, <1>6, <2>1, RememberIsRight
  <2> QED
    BY <1>6, <2>2, EndsWell DEF LeaveMutex
<1> QED
  BY <1>4, <1>5, <1>6 DEF LeaveMutex

LEMMA TypesKept ==
    ASSUME OpsTypeOK, [OperationsNext]_opsVars,
           \A o \in Ops : ~ChangePlugin(o) /\ ~RollBackRun(o) /\ ~StartRollback(o)
    PROVE  OpsTypeOK'
<1> USE DEF OpsTypeOK
<1>1. ASSUME NEW o \in Ops PROVE opState[o] \in OpState
  OBVIOUS
<1>2. ASSUME NEW o \in Ops, NEW r \in OpState, Becomes(o, r) PROVE opState' \in [Ops -> OpState]
  BY <1>2 DEF Becomes
<1>3. ASSUME NEW o \in Ops, Done(o) PROVE opState' \in [Ops -> OpState]
  BY <1>2, <1>3, QuietIsSound DEF Done
<1>4. ASSUME NEW o \in Ops, NEW sha \in Nat \cup {NoSha}, Remember(o, sha)
      PROVE  record' \in Nat \cup {NoSha} /\ muddled' \in BOOLEAN
  BY <1>4 DEF Remember, WriteRecord
<1>5. ASSUME NEW o \in Ops, AskInstall(o) PROVE OpsTypeOK'
  <2>1. [Quiet EXCEPT !.pc = "waiting", !.kind = "install", !.by = "branch"] \in OpState
    BY QuietIsSound DEF OpState
  <2> QED
    BY <1>2, <1>5, <2>1 DEF AskInstall
<1>6. ASSUME NEW o \in Ops, AskUpdate(o) PROVE OpsTypeOK'
  <2>1. \A kind \in {"update", "force", "run"} :
           [Quiet EXCEPT !.pc = "asking", !.kind = kind, !.base = installed] \in OpState
    BY QuietIsSound DEF OpState
  <2> QED
    BY <1>2, <1>6, <2>1 DEF AskUpdate
<1>7. ASSUME NEW o \in Ops, GetCandidate(o) PROVE OpsTypeOK'
  <2>1. ASSUME NEW c \in Nat, NEW by \in {"tag", "release", "branch"}
        PROVE  [opState[o] EXCEPT !.pc = "waiting", !.cand = c, !.by = by] \in OpState
    BY <1>1 DEF OpState
  <2>2. 0..branch \subseteq Nat
    OBVIOUS
  <2> QED
    BY <1>2, <1>3, <1>7, <2>1, <2>2 DEF GetCandidate
<1>8. ASSUME NEW o \in Ops, EnterMutex(o) PROVE OpsTypeOK'
  <2>1. [opState[o] EXCEPT !.pc = "inside"] \in OpState
    BY <1>1 DEF OpState
  <2> QED
    BY <1>2, <1>3, <1>8, <2>1 DEF EnterMutex
<1>9. ASSUME NEW o \in Ops, ChangeFails(o) PROVE OpsTypeOK'
  BY <1>3, <1>9 DEF ChangeFails
<1>10. ASSUME NEW o \in Ops, LeaveMutex(o) PROVE OpsTypeOK'
  <2>1. \A pc \in {"running", "resolving"} : [opState[o] EXCEPT !.pc = pc] \in OpState
    BY <1>1 DEF OpState
  <2>2. (IF opState[o].by = "tag" THEN opState[o].cand ELSE known) \in Nat \cup {NoSha}
    BY <1>1 DEF OpState
  <2> QED
    BY <1>2, <1>3, <1>4, <1>10, <2>1, <2>2 DEF LeaveMutex
<1>11. ASSUME NEW o \in Ops, ResolveCommit(o) PROVE OpsTypeOK'
  <2>1. PICK sha \in {NoSha, IF opState[o].by = "release" THEN opState[o].cand ELSE branch} :
           /\ Remember(o, sha)
           /\ known' = IF opState[o].by = "branch" /\ sha # NoSha THEN sha ELSE known
    BY <1>11 DEF ResolveCommit
  <2>2. sha \in Nat \cup {NoSha}
    BY <1>1 DEF OpState
  <2> QED
    BY <1>3, <1>4, <1>11, <2>1, <2>2 DEF ResolveCommit
<1>12. ASSUME NEW o \in Ops, RememberRun(o) PROVE OpsTypeOK'
  <2>1. (IF opState[o].by = "tag" THEN opState[o].cand ELSE NoSha) \in Nat \cup {NoSha}
    BY <1>1 DEF OpState
  <2> QED
    BY <1>3, <1>4, <1>12, <2>1 DEF RememberRun
<1>13. ASSUME NEW o \in Ops, ForgetRecord(o) PROVE OpsTypeOK'
  BY <1>3, <1>13 DEF ForgetRecord
<1>14. ASSUME NEW o \in Ops, OpDies(o) PROVE OpsTypeOK'
  BY <1>3, <1>14 DEF OpDies
<1>15. CASE PushCommit \/ CheckHead \/ UNCHANGED opsVars
  BY <1>15 DEF PushCommit, CheckHead, opsVars
<1> QED
  BY <1>5, <1>6, <1>7, <1>8, <1>9, <1>10, <1>11, <1>12, <1>13, <1>14, <1>15
  DEF OperationsNext

LEMMA OtherStepsAreSound ==
    ASSUME OpsInv, [OperationsNext]_opsVars,
           \A o \in Ops : ~ChangePlugin(o) /\ ~RollBackRun(o) /\ ~StartRollback(o)
    PROVE  OpsSound' /\ LastIsInstalled' /\ RecordOfInstalled'
<1> DEFINE Goal == OpsSound' /\ LastIsInstalled' /\ RecordOfInstalled'
<1>1. ASSUME NEW o \in Ops
      PROVE  /\ opState[o] \in OpState /\ Sound(opState[o])
             /\ o \in Changing <=> opState[o].pc \in {"changed", "resolving", "running"}
  BY DEF OpsInv, OpsTypeOK, OpsSound, Changing
<1>2. ASSUME NEW o \in Ops, AskInstall(o) PROVE Goal
  <2> DEFINE r == [Quiet EXCEPT !.pc = "waiting", !.kind = "install", !.by = "branch"]
  <2>1. r \in OpState /\ Sound(r) /\ r.pc = "waiting"
    BY DEF Quiet, OpState, Sound, HasVersion
  <2> QED
    BY <1>1, <1>2, <2>1, MovesOn DEF AskInstall
<1>3. ASSUME NEW o \in Ops, AskUpdate(o) PROVE Goal
  <2>1. PICK kind \in {"update", "force", "run"} :
           Becomes(o, [Quiet EXCEPT !.pc = "asking", !.kind = kind, !.base = installed])
    BY <1>3 DEF AskUpdate
  <2> DEFINE r == [Quiet EXCEPT !.pc = "asking", !.kind = kind, !.base = installed]
  <2>2. r \in OpState /\ Sound(r) /\ r.pc = "asking"
    BY DEF Quiet, OpState, Sound, OpsInv, OpsTypeOK
  <2> QED
    BY <1>1, <1>3, <2>1, <2>2, MovesOn DEF AskUpdate
<1>4. ASSUME NEW o \in Ops, GetCandidate(o) PROVE Goal
  <2>1. CASE Done(o)
    BY <1>1, <1>4, <2>1, QuietIsSound, MovesOn DEF GetCandidate, Done
  <2>2. ASSUME NEW c \in 0..branch, NEW by \in {"tag", "release", "branch"},
               Becomes(o, [opState[o] EXCEPT !.pc = "waiting", !.cand = c, !.by = by])
        PROVE  Goal
    <3> DEFINE r == [opState[o] EXCEPT !.pc = "waiting", !.cand = c, !.by = by]
    <3>1. c \in Nat
      BY DEF OpsInv, OpsTypeOK
    <3>2. r \in OpState /\ r.pc = "waiting" /\ r.cand = c /\ r.by = by
      BY <1>1, <3>1 DEF OpState
    <3>3. r.kind \in {"update", "force", "run"}
      BY <1>1, <1>4 DEF OpState, Sound, GetCandidate
    <3>4. Sound(r)
      BY <3>1, <3>2, <3>3 DEF Sound, HasVersion
    <3> QED
      BY <1>1, <1>4, <2>2, <3>2, <3>4, MovesOn DEF GetCandidate
  <2> QED
    BY <1>4, <2>1, <2>2 DEF GetCandidate
<1>5. ASSUME NEW o \in Ops, EnterMutex(o) PROVE Goal
  <2>1. CASE Done(o)
    BY <1>1, <1>5, <2>1, QuietIsSound, MovesOn DEF EnterMutex, Done
  <2>2. CASE Becomes(o, [opState[o] EXCEPT !.pc = "inside"])
    <3> DEFINE r == [opState[o] EXCEPT !.pc = "inside"]
    <3>1. r \in OpState /\ r.pc = "inside" /\ Sound(r)
      BY <1>1, <1>5 DEF OpState, Sound, HasVersion, EnterMutex
    <3> QED
      BY <1>1, <1>5, <2>2, <3>1, MovesOn DEF EnterMutex
  <2> QED
    BY <1>5, <2>1, <2>2 DEF EnterMutex
<1>6. ASSUME NEW o \in Ops, ChangeFails(o) \/ OpDies(o) PROVE Goal
  <2>1. CASE o \in Changing
    BY <1>1, <1>6, <2>1, EndsWell DEF ChangeFails, OpDies
  <2>2. CASE o \notin Changing
    <3>1. UNCHANGED muddled
      BY <1>1, <1>6, <2>2 DEF ChangeFails, OpDies, OpsInv, OpsTypeOK
    <3> QED
      BY <1>6, <2>2, <3>1, QuietIsSound, MovesOn DEF ChangeFails, OpDies, Done
  <2> QED
    BY <2>1, <2>2
<1>7. ASSUME NEW o \in Ops, LeaveMutex(o) PROVE Goal
  BY <1>7, LeaveIsSound
<1>8. ASSUME NEW o \in Ops, ResolveCommit(o) PROVE Goal
  <2>1. PICK sha \in {NoSha, IF opState[o].by = "release" THEN opState[o].cand ELSE branch} :
           Remember(o, sha)
    BY <1>8 DEF ResolveCommit
  <2>2. o \in Changing /\ HasVersion(opState[o]) /\ opState[o].by # "tag"
    BY <1>1, <1>8 DEF ResolveCommit, Sound
  <2>3. opState[o].by # "branch" => sha \in {NoSha, opState[o].cand}
    BY <2>2 DEF HasVersion
  <2>4. ~muddled' /\ record' # NoSha => record' = installed
    BY <2>1, <2>2, <2>3, RememberIsRight
  <2> QED
    BY <1>8, <2>4, EndsWell DEF ResolveCommit
<1>9. ASSUME NEW o \in Ops, RememberRun(o) PROVE Goal
  <2>1. o \in Changing /\ HasVersion(opState[o])
    BY <1>1, <1>9 DEF RememberRun, Sound
  <2>2. ~muddled' /\ record' # NoSha => record' = installed
    BY <1>9, <2>1, RememberIsRight DEF RememberRun
  <2> QED
    BY <1>9, <2>2, EndsWell DEF RememberRun
<1>10. ASSUME NEW o \in Ops, ForgetRecord(o) PROVE Goal
  BY <1>10, EndsWell DEF ForgetRecord
<1>11. CASE PushCommit \/ CheckHead \/ UNCHANGED opsVars
  <2>1. UNCHANGED <<installed, record, muddled, opState>>
    BY <1>11 DEF PushCommit, CheckHead, opsVars
  <2> QED
    BY <2>1 DEF OpsInv, OpsSound, LastIsInstalled, RecordOfInstalled, Changing
<1> QED
  BY <1>2, <1>3, <1>4, <1>5, <1>6, <1>7, <1>8, <1>9, <1>10, <1>11 DEF OperationsNext

---------------------------------------------------------------------------
\* RecordOfInstalled for any number of operations, commits and changes.
THEOREM RecordAlwaysOfInstalled == OperationsSpec => []RecordOfInstalled
<1>1. OperationsInit => OpsInv
  <2> SUFFICES ASSUME OperationsInit PROVE OpsInv
    OBVIOUS
  <2>1. \A o \in Ops : opState[o] = Quiet
    BY DEF OperationsInit
  <2>2. OpsTypeOK
    <3>1. opState \in [Ops -> OpState]
      BY QuietIsSound DEF OperationsInit
    <3>2. installed \in Nat \cup {Absent} /\ record \in Nat \cup {NoSha}
      BY DEF OperationsInit
    <3> QED
      BY <3>1, <3>2 DEF OperationsInit, OpsTypeOK
  <2>3. Changing = {} /\ OpsSound
    BY <2>1, QuietIsSound DEF Changing, OpsSound
  <2>4. RecordOfInstalled
    BY OperationsAssumption DEF OperationsInit, RecordOfInstalled
  <2> QED
    BY <2>2, <2>3, <2>4 DEF OpsInv, LastIsInstalled
<1>2. OpsInv /\ [OperationsNext]_opsVars => OpsInv'
  <2> SUFFICES ASSUME OpsInv, [OperationsNext]_opsVars PROVE OpsInv'
    OBVIOUS
  <2>1. CASE \A o \in Ops : ~ChangePlugin(o) /\ ~RollBackRun(o) /\ ~StartRollback(o)
    BY <2>1, TypesKept, OtherStepsAreSound DEF OpsInv
  <2> QED
    BY <2>1, ChangeIsSound, RollBackIsSound, StartRollbackIsSound
<1>3. OpsInv => RecordOfInstalled
  BY DEF OpsInv
<1> QED
  BY <1>1, <1>2, <1>3, PTL DEF OperationsSpec

---------------------------------------------------------------------------
(* The fragments of a prompt: RenderedInOrder for any number of plugins,   *)
(* keys, contents and limits.                                              *)

\* A fragment keeps the number it got when its key was first registered, which
\* is its place in the list of its owner, and no key is there twice.
ContextTyped ==
    fragments \in [Writers -> Seq(Fragment)] /\ first \in [Writers -> Seq(FragmentKeys)]
Numbered ==
    \A o \in Writers :
       /\ Len(first[o]) = Len(fragments[o])
       /\ \A n \in 1..Len(fragments[o]) :
             fragments[o][n].index = n - 1 /\ fragments[o][n].key = first[o][n]
       /\ \A n, m \in 1..Len(first[o]) : first[o][n] = first[o][m] => n = m
ContextInv == ContextTyped /\ Numbered /\ IsFiniteSet(Collected)

LEMMA FragmentFacts ==
    ASSUME ContextTyped, NEW o \in Writers
    PROVE  /\ Len(fragments[o]) \in Nat /\ DOMAIN fragments[o] = 1..Len(fragments[o])
           /\ \A n \in 1..Len(fragments[o]) : fragments[o][n] \in Fragment
           /\ Len(first[o]) \in Nat /\ DOMAIN first[o] = 1..Len(first[o])
           /\ first[o] \in Seq(FragmentKeys)
<1>1. fragments[o] \in Seq(Fragment) /\ first[o] \in Seq(FragmentKeys)
  BY DEF ContextTyped
<1> QED
  BY <1>1

\* What one owner has is finite, and so is what all have after one got more.
LEMMA OwnedIsFinite ==
    ASSUME NEW o, NEW s, Len(s) \in Nat, DOMAIN s = 1..Len(s)
    PROVE  IsFiniteSet({[owner |-> o, f |-> s[n]] : n \in DOMAIN s})
<1> DEFINE own == {[owner |-> o, f |-> s[n]] : n \in DOMAIN s}
           g == [n \in 1..Len(s) |-> [owner |-> o, f |-> s[n]]]
<1>1. g \in Surjection(1..Len(s), own)
  BY DEF Surjection
<1>2. IsFiniteSet(1..Len(s))
  BY FS_Interval
<1> HIDE DEF g, own
<1>3. IsFiniteSet(own)
  BY <1>1, <1>2, FS_Surjection
<1> QED
  BY <1>3 DEF own

LEMMA CollectedGrows ==
    ASSUME IsFiniteSet(Collected), NEW o \in Writers,
           \A q \in Writers \ {o} : fragments'[q] = fragments[q],
           Len(fragments'[o]) \in Nat, DOMAIN fragments'[o] = 1..Len(fragments'[o])
    PROVE  IsFiniteSet(Collected')
<1> DEFINE own == {[owner |-> o, f |-> fragments'[o][n]] : n \in DOMAIN fragments'[o]}
<1>1. IsFiniteSet(own)
  BY OwnedIsFinite
<1>2. Collected' \subseteq Collected \cup own
  <2> SUFFICES ASSUME NEW a \in Collected' PROVE a \in Collected \cup own
    OBVIOUS
  <2>1. PICK q \in Writers : a \in {[owner |-> q, f |-> fragments'[q][n]] : n \in DOMAIN fragments'[q]}
    BY DEF Collected
  <2>2. CASE q = o
    BY <2>1, <2>2
  <2>3. CASE q # o
    BY <2>1, <2>3 DEF Collected
  <2> QED
    BY <2>2, <2>3
<1> HIDE DEF own
<1>3. IsFiniteSet(Collected \cup own)
  BY <1>1, FS_Union
<1> QED
  BY <1>2, <1>3, FS_Subset

\* A known key is replaced where it is, with the number it has.
LEMMA ReplacedFacts ==
    ASSUME ContextTyped, NEW o \in Writers, NEW k, NEW t, NEW pr, IndexOf(o, k) # {}
    PROVE  \E n \in 1..Len(fragments[o]) :
              /\ fragments[o][n].key = k
              /\ Replaced(o, k, t, pr) =
                    [fragments[o] EXCEPT ![n] = Made(k, t, pr, fragments[o][n].index)]
<1> DEFINE n == CHOOSE m \in IndexOf(o, k) : \A j \in IndexOf(o, k) : m <= j
<1>1. DOMAIN fragments[o] = 1..Len(fragments[o])
  BY FragmentFacts
<1>2. IndexOf(o, k) \in SUBSET Nat
  BY <1>1 DEF IndexOf
<1>3. n \in IndexOf(o, k)
  BY <1>2, LeastOf
<1>4. n \in 1..Len(fragments[o]) /\ fragments[o][n].key = k
  BY <1>1, <1>3 DEF IndexOf
<1>5. Replaced(o, k, t, pr) = [fragments[o] EXCEPT ![n] = Made(k, t, pr, fragments[o][n].index)]
  BY DEF Replaced
<1> QED
  BY <1>4, <1>5

LEMMA ReplaceIsSound ==
    ASSUME ContextInv, NEW o \in Writers, NEW k \in FragmentKeys, NEW t \in Texts,
           NEW pr \in Priorities, IndexOf(o, k) # {},
           fragments' = [fragments EXCEPT ![o] = Replaced(o, k, t, pr)], UNCHANGED first
    PROVE  ContextInv'
<1>1. PICK n \in 1..Len(fragments[o]) :
         /\ fragments[o][n].key = k
         /\ Replaced(o, k, t, pr) =
               [fragments[o] EXCEPT ![n] = Made(k, t, pr, fragments[o][n].index)]
  BY ReplacedFacts DEF ContextInv
<1> DEFINE new == Made(k, t, pr, fragments[o][n].index)
           s == [fragments[o] EXCEPT ![n] = new]
<1>2. fragments[o] \in Seq(Fragment) /\ fragments[o][n] \in Fragment
  BY FragmentFacts DEF ContextInv, ContextTyped
<1>3. new \in Fragment /\ new.key = k /\ new.index = fragments[o][n].index
  BY <1>2 DEF Made, Fragment
<1> HIDE DEF new
<1>4. /\ s \in Seq(Fragment) /\ Len(s) = Len(fragments[o]) /\ DOMAIN s = 1..Len(s)
      /\ s[n] = new /\ \A m \in 1..Len(s) \ {n} : s[m] = fragments[o][m]
  BY <1>2, <1>3
<1>5. fragments' \in [Writers -> Seq(Fragment)] /\ fragments'[o] = s
      /\ \A q \in Writers \ {o} : fragments'[q] = fragments[q]
  BY <1>1, <1>4 DEF new, ContextInv, ContextTyped
<1> HIDE DEF s
<1>6. ContextTyped'
  BY <1>5 DEF ContextInv, ContextTyped
<1>7. Numbered'
  BY <1>1, <1>3, <1>4, <1>5 DEF ContextInv, Numbered
<1>8. IsFiniteSet(Collected')
  <2>1. Len(s) \in Nat
    BY <1>4
  <2> QED
    BY <1>4, <1>5, <2>1, CollectedGrows DEF ContextInv
<1> QED
  BY <1>6, <1>7, <1>8 DEF ContextInv

\* A new key gets the next number.
LEMMA AppendIsSound ==
    ASSUME ContextInv, NEW o \in Writers, NEW k \in FragmentKeys, NEW t \in Texts,
           NEW pr \in Priorities, IndexOf(o, k) = {},
           fragments' = [fragments EXCEPT ![o] = Append(@, Made(k, t, pr, Len(@)))],
           first' = [first EXCEPT ![o] = Append(@, k)]
    PROVE  ContextInv'
<1> DEFINE new == Made(k, t, pr, Len(fragments[o]))
           s == Append(fragments[o], new)
           fs == Append(first[o], k)
<1>1. /\ fragments[o] \in Seq(Fragment) /\ first[o] \in Seq(FragmentKeys)
      /\ Len(fragments[o]) \in Nat
  BY DEF ContextInv, ContextTyped
<1>2. new \in Fragment /\ new.key = k /\ new.index = Len(fragments[o])
  BY <1>1 DEF Made, Fragment
<1> HIDE DEF new
<1>3. /\ s \in Seq(Fragment) /\ Len(s) = Len(fragments[o]) + 1 /\ DOMAIN s = 1..Len(s)
      /\ s[Len(fragments[o]) + 1] = new
      /\ \A m \in 1..Len(fragments[o]) : s[m] = fragments[o][m]
  BY <1>1, <1>2
<1>4. /\ fs \in Seq(FragmentKeys) /\ Len(fs) = Len(first[o]) + 1
      /\ fs[Len(first[o]) + 1] = k
      /\ \A m \in 1..Len(first[o]) : fs[m] = first[o][m]
  BY <1>1
<1>5. fragments' \in [Writers -> Seq(Fragment)] /\ fragments'[o] = s
      /\ \A q \in Writers \ {o} : fragments'[q] = fragments[q]
  BY <1>3 DEF new, ContextInv, ContextTyped
<1>6. first' \in [Writers -> Seq(FragmentKeys)] /\ first'[o] = fs
      /\ \A q \in Writers \ {o} : first'[q] = first[q]
  BY <1>4 DEF ContextInv, ContextTyped
<1> HIDE DEF s, fs
<1>7. /\ Len(first[o]) = Len(fragments[o])
      /\ \A n \in 1..Len(fragments[o]) :
            fragments[o][n].index = n - 1 /\ fragments[o][n].key = first[o][n]
      /\ \A n, m \in 1..Len(first[o]) : first[o][n] = first[o][m] => n = m
  BY DEF ContextInv, Numbered
<1>8. \A m \in 1..Len(first[o]) : first[o][m] # k
  <2>1. \A m \in 1..Len(fragments[o]) : fragments[o][m].key # k
    BY FragmentFacts DEF IndexOf, ContextInv
  <2> QED
    BY <1>7, <2>1
<1>9. Numbered'
  <2>1. ASSUME NEW q \in Writers \ {o}
        PROVE  /\ Len(first'[q]) = Len(fragments'[q])
               /\ \A n \in 1..Len(fragments'[q]) :
                     fragments'[q][n].index = n - 1 /\ fragments'[q][n].key = first'[q][n]
               /\ \A n, m \in 1..Len(first'[q]) : first'[q][n] = first'[q][m] => n = m
    BY <1>5, <1>6 DEF ContextInv, Numbered
  <2>2. ASSUME NEW n \in 1..Len(s) PROVE s[n].index = n - 1 /\ s[n].key = fs[n]
    <3>1. CASE n \in 1..Len(fragments[o])
      BY <1>3, <1>4, <1>7, <3>1
    <3>2. CASE n = Len(fragments[o]) + 1
      BY <1>2, <1>3, <1>4, <1>7, <3>2
    <3> QED
      BY <1>1, <1>3, <3>1, <3>2
  <2>3. ASSUME NEW n \in 1..Len(fs), NEW m \in 1..Len(fs), fs[n] = fs[m] PROVE n = m
    <3>1. CASE n \in 1..Len(first[o]) /\ m \in 1..Len(first[o])
      BY <1>4, <1>7, <2>3, <3>1
    <3>2. CASE n = Len(first[o]) + 1 \/ m = Len(first[o]) + 1
      <4>1. \A j \in 1..Len(fs) : j \in 1..Len(first[o]) \/ j = Len(first[o]) + 1
        BY <1>1, <1>4, <1>7
      <4> QED
        BY <1>4, <1>8, <2>3, <3>2, <4>1
    <3> QED
      BY <1>1, <1>4, <1>7, <3>1, <3>2
  <2>4. Len(first'[o]) = Len(fragments'[o])
    BY <1>3, <1>4, <1>5, <1>6, <1>7
  <2>5. ASSUME NEW q \in Writers
        PROVE  /\ Len(first'[q]) = Len(fragments'[q])
               /\ \A n \in 1..Len(fragments'[q]) :
                     fragments'[q][n].index = n - 1 /\ fragments'[q][n].key = first'[q][n]
               /\ \A n, m \in 1..Len(first'[q]) : first'[q][n] = first'[q][m] => n = m
    <3>1. CASE q = o
      <4>1. fragments'[q] = s /\ first'[q] = fs
        BY <1>5, <1>6, <3>1
      <4>2. Len(first'[q]) = Len(fragments'[q])
        BY <2>4, <3>1
      <4>3. \A n \in 1..Len(s) : s[n].index = n - 1 /\ s[n].key = fs[n]
        BY <2>2
      <4>4. \A n, m \in 1..Len(fs) : fs[n] = fs[m] => n = m
        BY <2>3
      <4>5. \A n \in 1..Len(fragments'[q]) :
               fragments'[q][n].index = n - 1 /\ fragments'[q][n].key = first'[q][n]
        BY <4>1, <4>3
      <4>6. \A n, m \in 1..Len(first'[q]) : first'[q][n] = first'[q][m] => n = m
        BY <4>1, <4>4
      <4> QED
        BY <4>2, <4>5, <4>6
    <3> QED
      BY <2>1, <3>1
  <2> QED
    BY <2>5 DEF Numbered
<1>10. IsFiniteSet(Collected')
  <2>1. Len(s) \in Nat
    BY <1>1, <1>3
  <2> QED
    BY <1>3, <1>5, <2>1, CollectedGrows DEF ContextInv
<1> QED
  BY <1>5, <1>6, <1>9, <1>10 DEF ContextInv, ContextTyped

LEMMA EmptyIsSound ==
    ASSUME fragments = [o \in Writers |-> <<>>], first = [o \in Writers |-> <<>>]
    PROVE  ContextInv
<1>1. Collected = {}
  BY DEF Collected
<1>2. ContextTyped /\ Numbered
  BY DEF ContextTyped, Numbered
<1> QED
  BY <1>1, <1>2, FS_EmptySet DEF ContextInv

LEMMA ContextInvariance == ContextSpec => []ContextInv
<1>1. ContextInit => ContextInv
  BY EmptyIsSound DEF ContextInit
<1>2. ContextInv /\ [ContextNext]_contextVars => ContextInv'
  <2> SUFFICES ASSUME ContextInv, [ContextNext]_contextVars PROVE ContextInv'
    OBVIOUS
  <2>1. CASE UNCHANGED <<fragments, first>>
    <3>1. Collected' = Collected
      BY <2>1 DEF Collected
    <3> QED
      BY <2>1, <3>1 DEF ContextInv, ContextTyped, Numbered
  <2>2. ASSUME NEW o \in Writers, NEW k \in FragmentKeys, NEW t \in Texts,
               NEW pr \in Priorities, AddFragment(o, k, t, pr)
        PROVE  ContextInv'
    BY <2>2, ReplaceIsSound, AppendIsSound DEF AddFragment
  <2>3. ASSUME NEW rank, Rebuild(rank) PROVE ContextInv'
    <3>1. fragments' = [o \in Writers |-> <<>>] /\ first' = [o \in Writers |-> <<>>]
      BY <2>3 DEF Rebuild
    <3>2. Collected' = {}
      BY <3>1 DEF Collected
    <3>3. ContextTyped' /\ Numbered'
      BY <3>1 DEF ContextTyped, Numbered
    <3> QED
      BY <3>2, <3>3, FS_EmptySet DEF ContextInv
  <2>4. ASSUME NEW o, NEW r, NEW rank, AdvancePhase(rank) \/ AddReason(o, r, rank)
        PROVE  UNCHANGED <<fragments, first>>
    BY <2>4 DEF AdvancePhase, AddReason
  <2>5. UNCHANGED contextVars => UNCHANGED <<fragments, first>>
    BY DEF contextVars
  <2> QED
    BY <2>1, <2>2, <2>3, <2>4, <2>5 DEF ContextNext
<1> QED
  BY <1>1, <1>2, PTL DEF ContextSpec

\* Before is a strict total order of what is collected.
LEMMA CollectedFacts ==
    ASSUME ContextInv, NEW a \in Collected
    PROVE  /\ a.owner \in Writers /\ a.f \in Fragment
           /\ a.f.index + 1 \in 1..Len(fragments[a.owner])
           /\ a = [owner |-> a.owner, f |-> fragments[a.owner][a.f.index + 1]]
           /\ a.f.index \in Nat /\ a.f.priority \in Int /\ a.owner \in Int
           /\ Since(a) = a.f.index + 1
<1>0. PICK o \in Writers :
         \E n \in DOMAIN fragments[o] : a = [owner |-> o, f |-> fragments[o][n]]
  BY DEF Collected
<1>1. PICK n \in DOMAIN fragments[o] : a = [owner |-> o, f |-> fragments[o][n]]
  BY <1>0
<1>2. /\ Len(fragments[o]) \in Nat /\ n \in 1..Len(fragments[o]) /\ n \in Nat
      /\ fragments[o][n] \in Fragment /\ DOMAIN first[o] = 1..Len(first[o])
  BY <1>1, FragmentFacts DEF ContextInv
<1>3. /\ fragments[o][n].index = n - 1 /\ fragments[o][n].key = first[o][n]
      /\ Len(first[o]) = Len(fragments[o])
      /\ \A m \in 1..Len(first[o]) : first[o][m] = first[o][n] => m = n
  BY <1>2 DEF ContextInv, Numbered
<1>4. a.owner = o /\ a.f = fragments[o][n] /\ a.f.index = n - 1 /\ a.f.key = first[o][n]
  BY <1>1, <1>3
<1>5. Since(a) = n
  BY <1>2, <1>3, <1>4 DEF Since
<1>6. a.f.index + 1 = n /\ a.f.index \in Nat
  BY <1>2, <1>4
<1>7. a.f.priority \in Int /\ a.owner \in Int
  BY <1>2, <1>4, ContextAssumption DEF Fragment
<1> QED
  BY <1>1, <1>2, <1>4, <1>5, <1>6, <1>7

LEMMA BeforeIsOrder ==
    ASSUME ContextInv
    PROVE  /\ \A a \in Collected : ~Before(a, a)
           /\ \A a, b \in Collected : Before(a, b) \/ Before(b, a) \/ a = b
           /\ \A a, b, c \in Collected : Before(a, b) /\ Before(b, c) => Before(a, c)
           /\ \A a, b \in Collected : Before(a, b) =>
                 /\ a.f.priority <= b.f.priority
                 /\ a.f.priority = b.f.priority => a.owner <= b.owner
                 /\ a.f.priority = b.f.priority /\ a.owner = b.owner => Since(a) < Since(b)
<1>1. ASSUME NEW a \in Collected
      PROVE  /\ a.f.index \in Nat /\ a.f.priority \in Int /\ a.owner \in Int
             /\ a.f.key \in Int /\ Since(a) = a.f.index + 1
  BY CollectedFacts, ContextAssumption DEF Fragment
<1>2. ASSUME NEW a \in Collected, NEW b \in Collected,
             a.owner = b.owner, a.f.index = b.f.index
      PROVE  a = b
  BY <1>2, CollectedFacts
<1>3. ASSUME NEW a \in Collected, NEW b \in Collected
      PROVE  Before(a, b) <=>
                \/ a.f.priority < b.f.priority
                \/ a.f.priority = b.f.priority /\ a.owner < b.owner
                \/ /\ a.f.priority = b.f.priority /\ a.owner = b.owner
                   /\ a.f.index < b.f.index
  <2>1. a.owner = b.owner /\ a.f.index = b.f.index => ~(a.f.key < b.f.key)
    BY <1>1, <1>2
  <2> QED
    BY <2>1 DEF Before
<1>4. \A a \in Collected : ~Before(a, a)
  BY <1>1, <1>3
<1>5. \A a, b \in Collected : Before(a, b) \/ Before(b, a) \/ a = b
  BY <1>1, <1>2, <1>3
<1>6. \A a, b, c \in Collected : Before(a, b) /\ Before(b, c) => Before(a, c)
  BY <1>1, <1>3
<1>7. \A a, b \in Collected : Before(a, b) =>
         /\ a.f.priority <= b.f.priority
         /\ a.f.priority = b.f.priority => a.owner <= b.owner
         /\ a.f.priority = b.f.priority /\ a.owner = b.owner => Since(a) < Since(b)
  BY <1>1, <1>3
<1> QED
  BY <1>4, <1>5, <1>6, <1>7

\* The ranks of what is collected are 0 and up, each once, in the order of
\* Before: there is an n-th for every n.
LEMMA RanksFacts ==
    ASSUME ContextInv
    PROVE  /\ Cardinality(Collected) \in Nat
           /\ \A a \in Collected : Rank(a, Collected) \in 0..Cardinality(Collected) - 1
           /\ \A a, b \in Collected : Before(a, b) => Rank(a, Collected) < Rank(b, Collected)
<1> DEFINE Lower(a) == {b \in Collected : Before(b, a)}
<1>1. IsFiniteSet(Collected) /\ Cardinality(Collected) \in Nat
  BY FS_CardinalityType DEF ContextInv
<1>2. ASSUME NEW a \in Collected
      PROVE  /\ IsFiniteSet(Lower(a)) /\ Cardinality(Lower(a)) \in Nat
             /\ Lower(a) \subseteq Collected /\ a \notin Lower(a)
             /\ Rank(a, Collected) = Cardinality(Lower(a))
  <2>1. a \notin Lower(a)
    BY BeforeIsOrder
  <2> QED
    BY <1>1, <2>1, FS_Subset, FS_CardinalityType DEF Rank
<1>3. ASSUME NEW a \in Collected, NEW S, IsFiniteSet(S), Lower(a) \cup {a} \subseteq S
      PROVE  Cardinality(Lower(a)) < Cardinality(S)
  <2> DEFINE L == Lower(a)
  <2>0. IsFiniteSet(L) /\ Cardinality(L) \in Nat /\ a \notin L
    BY <1>2
  <2>5. L \cup {a} \subseteq S
    BY <1>3
  <2> HIDE DEF L
  <2>1. IsFiniteSet(L \cup {a}) /\ Cardinality(L \cup {a}) = Cardinality(L) + 1
    BY <2>0, FS_AddElement
  <2>2. Cardinality(L \cup {a}) <= Cardinality(S) /\ Cardinality(S) \in Nat
    BY <1>3, <2>5, FS_Subset, FS_CardinalityType
  <2>3. Cardinality(L) < Cardinality(S)
    BY <2>0, <2>1, <2>2
  <2> QED
    BY <2>3 DEF L
<1>4. ASSUME NEW a \in Collected PROVE Cardinality(Lower(a)) < Cardinality(Collected)
  BY <1>1, <1>2, <1>3
<1>5. ASSUME NEW a \in Collected, NEW b \in Collected, Before(a, b)
      PROVE  Cardinality(Lower(a)) < Cardinality(Lower(b))
  <2>1. Lower(a) \cup {a} \subseteq Lower(b)
    BY <1>5, BeforeIsOrder
  <2> HIDE DEF Lower
  <2> QED
    BY <1>2, <1>3, <2>1
<1> HIDE DEF Lower
<1> QED
  BY <1>1, <1>2, <1>4, <1>5

LEMMA SortedFacts ==
    ASSUME ContextInv
    PROVE  LET N == Cardinality(Collected)
               q == Sorted(Collected)
           IN  /\ N \in Nat /\ q \in [1..N -> Collected]
               /\ \A i, j \in 1..N : i < j => Before(q[i], q[j])
               /\ \A a \in Collected : \E i \in 1..N : q[i] = a
<1> DEFINE N == Cardinality(Collected)
           q == Sorted(Collected)
           rank == [a \in Collected |-> Rank(a, Collected)]
<1>1. N \in Nat /\ IsFiniteSet(Collected)
  BY RanksFacts DEF ContextInv
<1>2. rank \in [Collected -> 0..N - 1]
  BY RanksFacts
<1>3. \A a, b \in Collected : rank[a] = rank[b] => a = b
  <2>1. \A a, b \in Collected : Before(a, b) => rank[a] < rank[b]
    BY RanksFacts
  <2>2. \A a \in Collected : rank[a] \in Nat
    BY <1>1, <1>2
  <2> QED
    BY <2>1, <2>2, BeforeIsOrder
<1>4. \A n \in 0..N - 1 : \E a \in Collected : rank[a] = n
  <2>1. IsFiniteSet(0..N - 1) /\ Cardinality(0..N - 1) = N
    <3>1. N - 1 \in Int
      BY <1>1
    <3> HIDE DEF N
    <3>2. Cardinality(0..(N - 1)) = IF 0 > N - 1 THEN 0 ELSE (N - 1) - 0 + 1
      BY <3>1, FS_Interval
    <3> QED
      BY <1>1, <3>1, <3>2, FS_Interval
  <2>2. rank \in Injection(Collected, 0..N - 1)
    BY <1>2, <1>3 DEF Injection, IsInjective
  <2> HIDE DEF rank
  <2>3. rank \in Surjection(Collected, 0..N - 1)
    BY <2>1, <2>2, FS_Injection DEF N
  <2> QED
    BY <2>3 DEF Surjection
<1>5. ASSUME NEW n \in 1..N PROVE q[n] \in Collected /\ rank[q[n]] = n - 1
  <2>1. n - 1 \in 0..N - 1
    BY <1>1
  <2>2. \E a \in Collected : Rank(a, Collected) = n - 1
    BY <1>4, <2>1
  <2>3. q[n] = CHOOSE a \in Collected : Rank(a, Collected) = n - 1
    BY DEF Sorted
  <2>4. q[n] \in Collected /\ Rank(q[n], Collected) = n - 1
    <3> DEFINE c == CHOOSE a \in Collected : Rank(a, Collected) = n - 1
    <3>1. c \in Collected /\ Rank(c, Collected) = n - 1
      BY <2>2
    <3> HIDE DEF c, q
    <3>2. q[n] = c
      BY <2>3 DEF c
    <3> QED
      BY <3>1, <3>2
  <2> QED
    BY <2>4
<1>6. q \in [1..N -> Collected]
  <2>1. q = [n \in 1..N |-> q[n]]
    BY DEF Sorted
  <2> HIDE DEF q
  <2> QED
    BY <1>5, <2>1
<1> HIDE DEF q
<1>7. ASSUME NEW i \in 1..N, NEW j \in 1..N, i < j PROVE Before(q[i], q[j])
  <2>1. q[i] \in Collected /\ q[j] \in Collected /\ rank[q[i]] < rank[q[j]]
    BY <1>1, <1>5, <1>7
  <2>2. \A a, b \in Collected : Before(a, b) => rank[a] < rank[b]
    BY RanksFacts
  <2>3. \A a \in Collected : rank[a] \in Nat
    BY <1>1, <1>2
  <2> HIDE DEF rank
  <2>4. q[i] # q[j] /\ ~Before(q[j], q[i])
    BY <2>1, <2>2, <2>3
  <2> QED
    BY <2>1, <2>4, BeforeIsOrder
<1>8. ASSUME NEW a \in Collected PROVE \E i \in 1..N : q[i] = a
  <2>1. rank[a] \in 0..N - 1
    BY <1>2
  <2>2. rank[a] + 1 \in 1..N
    BY <1>1, <2>1
  <2>3. q[rank[a] + 1] \in Collected /\ rank[q[rank[a] + 1]] = rank[a]
    BY <1>1, <1>5, <2>1, <2>2
  <2>4. q[rank[a] + 1] = a
    BY <1>3, <2>3
  <2> QED
    BY <2>2, <2>4
<1> QED
  BY <1>1, <1>6, <1>7, <1>8 DEF q

\* What the fold of the library computes over a list: it takes out the last
\* number of a set of them, and so goes through the list from its start.
IsKept(it, q, N) ==
    it = [s \in SUBSET (1..N) |->
            IF s = {} THEN <<>> ELSE Step(it[s \ {Max(s)}], q[Max(s)])]

LEMMA GreatestOf ==
    ASSUME NEW n \in Nat, NEW s \in SUBSET (1..n), s # {}
    PROVE  Max(s) \in s /\ \A m \in s : Max(s) >= m
<1> DEFINE T == {n - m : m \in s}
<1>1. T \in SUBSET Nat /\ T # {}
  <2>1. \A m \in s : n - m \in Nat
    OBVIOUS
  <2>2. T \in SUBSET Nat
    BY <2>1
  <2>3. PICK m \in s : TRUE
    OBVIOUS
  <2>4. n - m \in T
    OBVIOUS
  <2> QED
    BY <2>2, <2>4
<1> HIDE DEF T
<1>2. PICK x \in T : \A y \in T : x <= y
  BY <1>1, LeastOf
<1>3. PICK g \in s : x = n - g
  BY <1>2 DEF T
<1>4. \A m \in s : g >= m
  BY <1>2, <1>3 DEF T
<1> QED
  BY <1>3, <1>4 DEF Max

\* There is such a function for every list: for the sets of numbers up to n + 1
\* it is made from the one for those up to n.
LEMMA KeptExists == ASSUME NEW q, NEW N \in Nat PROVE \E it : IsKept(it, q, N)
<1> DEFINE Wrong == {n \in Nat : ~\E it : IsKept(it, q, n)}
<1> SUFFICES ASSUME Wrong # {} PROVE FALSE
  OBVIOUS
<1>1. PICK n \in Wrong : \A m \in Wrong : n <= m
  <2>1. Wrong \in SUBSET Nat
    OBVIOUS
  <2> HIDE DEF Wrong
  <2> QED
    BY <2>1, LeastOf
<1>2. CASE n = 0
  <2> DEFINE it == [s \in SUBSET (1..n) |-> <<>>]
  <2>1. \A s \in SUBSET (1..n) : s = {}
    BY <1>2
  <2>2. IsKept(it, q, n)
    BY <2>1 DEF IsKept
  <2> QED
    BY <1>1, <2>2
<1>3. CASE n # 0
  <2>1. n \in Nat /\ n - 1 \in Nat /\ n - 1 \notin Wrong
    BY <1>1, <1>3
  <2>2. PICK h : IsKept(h, q, n - 1)
    BY <2>1
  <2> DEFINE it == [s \in SUBSET (1..n) |->
                      IF s = {} THEN <<>> ELSE Step(h[s \ {Max(s)}], q[Max(s)])]
  <2>3. ASSUME NEW s \in SUBSET (1..n - 1) PROVE it[s] = h[s]
    <3>1. s \in SUBSET (1..n)
      BY <2>1
    <3> QED
      BY <2>2, <3>1 DEF IsKept
  <2>4. ASSUME NEW s \in SUBSET (1..n), s # {} PROVE s \ {Max(s)} \in SUBSET (1..n - 1)
    <3>1. Max(s) \in s /\ \A m \in s : Max(s) >= m
      BY <2>1, <2>4, GreatestOf
    <3>2. Max(s) \in 1..n
      BY <3>1
    <3>3. ASSUME NEW m \in s \ {Max(s)} PROVE m \in 1..n - 1
      <4>1. m \in 1..n /\ m # Max(s) /\ Max(s) >= m
        BY <3>1
      <4> QED
        BY <2>1, <3>2, <4>1
    <3> QED
      BY <3>3
  <2>5. ASSUME NEW s \in SUBSET (1..n)
        PROVE  it[s] = IF s = {} THEN <<>> ELSE Step(it[s \ {Max(s)}], q[Max(s)])
    <3>1. s # {} => it[s \ {Max(s)}] = h[s \ {Max(s)}]
      <4> HIDE DEF it
      <4> QED
        BY <2>3, <2>4
    <3>2. it[s] = IF s = {} THEN <<>> ELSE Step(h[s \ {Max(s)}], q[Max(s)])
      OBVIOUS
    <3> HIDE DEF it
    <3> QED
      BY <3>1, <3>2
  <2>6. it = [s \in SUBSET (1..n) |-> it[s]]
    OBVIOUS
  <2>7. IsKept(it, q, n)
    <3> HIDE DEF it
    <3> QED
      BY <2>5, <2>6 DEF IsKept
  <2> HIDE DEF it
  <2> QED
    BY <1>1, <2>7
<1> QED
  BY <1>2, <1>3

\* It goes through the list one by one.
LEMMA KeptFacts ==
    ASSUME NEW q, NEW N \in Nat, NEW it, IsKept(it, q, N)
    PROVE  /\ it[1..0] = <<>>
           /\ \A n \in 1..N : it[1..n] = Step(it[1..n - 1], q[n])
<1>1. it[1..0] = <<>>
  BY DEF IsKept
<1>2. ASSUME NEW n \in 1..N PROVE it[1..n] = Step(it[1..n - 1], q[n])
  <2> DEFINE s == 1..n
  <2>1. s \in SUBSET (1..N) /\ s # {} /\ n \in s
    OBVIOUS
  <2>2. Max(s) \in s /\ \A m \in s : Max(s) >= m
    <3> HIDE DEF s
    <3> QED
      BY <2>1, GreatestOf
  <2>3. Max(s) = n
    BY <2>1, <2>2
  <2>4. s \ {n} = 1..n - 1
    OBVIOUS
  <2> HIDE DEF s
  <2>5. it[s] = Step(it[s \ {Max(s)}], q[Max(s)])
    BY <2>1 DEF IsKept
  <2>6. it[s] = Step(it[1..n - 1], q[n])
    BY <2>3, <2>4, <2>5
  <2> QED
    BY <2>6 DEF s
<1> QED
  BY <1>1, <1>2

LEMMA FoldIsKept ==
    ASSUME NEW q, NEW N \in Nat, DOMAIN q = 1..N
    PROVE  \E it : IsKept(it, q, N) /\ FoldLeft(Step, <<>>, q) = it[1..N]
<1> DEFINE it == CHOOSE f : IsKept(f, q, N)
<1>1. IsKept(it, q, N)
  BY KeptExists, Zenon
<1>2. FoldLeft(Step, <<>>, q) = it[1..N]
  BY DEF FoldLeft, MapThenFoldSet, IsKept
<1> QED
  BY <1>1, <1>2

\* What is kept of the first n of a sorted list.
KeptOf(K, q, n) ==
    /\ K \in Seq(Collected)
    /\ \A i \in 1..Len(K) : \E m \in 1..n : K[i] = q[m]
    /\ \A i, j \in 1..Len(K) : i < j => Before(K[i], K[j]) /\ ~Alike(K[i], K[j])
    /\ \A m \in 1..n : \E i \in 1..Len(K) :
          K[i] = q[m] \/ (Alike(K[i], q[m]) /\ Before(K[i], q[m]))

LEMMA StepKeeps ==
    ASSUME NEW N \in Nat, NEW q \in [1..N -> Collected],
           \A i, j \in 1..N : i < j => Before(q[i], q[j]),
           NEW n \in 1..N, NEW K, KeptOf(K, q, n - 1)
    PROVE  KeptOf(Step(K, q[n]), q, n)
<1>1. /\ K \in Seq(Collected) /\ Len(K) \in Nat /\ DOMAIN K = 1..Len(K)
      /\ q[n] \in Collected /\ n \in Nat
  BY DEF KeptOf
<1>2. \A i \in 1..Len(K) : Before(K[i], q[n]) /\ \E m \in 1..n : K[i] = q[m]
  <2> SUFFICES ASSUME NEW i \in 1..Len(K)
               PROVE  Before(K[i], q[n]) /\ \E m \in 1..n : K[i] = q[m]
    OBVIOUS
  <2>1. PICK m \in 1..n - 1 : K[i] = q[m]
    BY DEF KeptOf
  <2>2. m \in 1..N /\ m < n /\ m \in 1..n
    BY <1>1, <2>1
  <2> QED
    BY <2>1, <2>2
<1>3. \A m \in 1..n : m \in 1..n - 1 \/ m = n
  BY <1>1
<1>4. CASE \E i \in DOMAIN K : Alike(K[i], q[n])
  <2>1. Step(K, q[n]) = K
    BY <1>4 DEF Step
  <2>2. \A m \in 1..n : \E i \in 1..Len(K) :
           K[i] = q[m] \/ (Alike(K[i], q[m]) /\ Before(K[i], q[m]))
    BY <1>1, <1>2, <1>3, <1>4 DEF KeptOf
  <2> QED
    BY <1>2, <2>1, <2>2 DEF KeptOf
<1>5. CASE ~\E i \in DOMAIN K : Alike(K[i], q[n])
  <2> DEFINE L == Append(K, q[n])
  <2>1. Step(K, q[n]) = L
    BY <1>5 DEF Step
  <2>2. /\ L \in Seq(Collected) /\ Len(L) = Len(K) + 1 /\ L[Len(K) + 1] = q[n]
        /\ \A i \in 1..Len(K) : L[i] = K[i]
        /\ \A i \in 1..Len(L) : i \in 1..Len(K) \/ i = Len(K) + 1
    BY <1>1
  <2> HIDE DEF L
  <2>3. \A i \in 1..Len(L) : \E m \in 1..n : L[i] = q[m]
    BY <1>1, <1>2, <2>2
  <2>4. ASSUME NEW i \in 1..Len(L), NEW j \in 1..Len(L), i < j
        PROVE  Before(L[i], L[j]) /\ ~Alike(L[i], L[j])
    <3>1. i \in 1..Len(K)
      BY <1>1, <2>2, <2>4
    <3>2. CASE j \in 1..Len(K)
      BY <2>2, <2>4, <3>1, <3>2 DEF KeptOf
    <3>3. CASE j = Len(K) + 1
      BY <1>1, <1>2, <1>5, <2>2, <3>1, <3>3
    <3> QED
      BY <2>2, <3>2, <3>3
  <2>5. ASSUME NEW m \in 1..n
        PROVE  \E i \in 1..Len(L) :
                  L[i] = q[m] \/ (Alike(L[i], q[m]) /\ Before(L[i], q[m]))
    <3>1. CASE m = n
      <4>1. Len(K) + 1 \in 1..Len(L)
        BY <1>1, <2>2
      <4> QED
        BY <2>2, <3>1, <4>1
    <3>2. CASE m \in 1..n - 1
      <4>1. PICK i \in 1..Len(K) :
               K[i] = q[m] \/ (Alike(K[i], q[m]) /\ Before(K[i], q[m]))
        BY <3>2 DEF KeptOf
      <4>2. i \in 1..Len(L) /\ L[i] = K[i]
        BY <1>1, <2>2, <4>1
      <4> QED
        BY <4>1, <4>2
    <3> QED
      BY <1>3, <3>1, <3>2
  <2> QED
    BY <2>1, <2>2, <2>3, <2>4, <2>5 DEF KeptOf
<1> QED
  BY <1>4, <1>5

LEMMA KeptIsSound ==
    ASSUME NEW N \in Nat, NEW q \in [1..N -> Collected],
           \A i, j \in 1..N : i < j => Before(q[i], q[j]),
           NEW it, IsKept(it, q, N)
    PROVE  KeptOf(it[1..N], q, N)
<1> DEFINE Wrong == {n \in 0..N : ~KeptOf(it[1..n], q, n)}
<1> SUFFICES ASSUME Wrong # {} PROVE FALSE
  OBVIOUS
<1>1. PICK n \in Wrong : \A m \in Wrong : n <= m
  <2>1. Wrong \in SUBSET Nat
    OBVIOUS
  <2> HIDE DEF Wrong
  <2> QED
    BY <2>1, LeastOf
<1>2. n \in Nat /\ n <= N /\ ~KeptOf(it[1..n], q, n)
  BY <1>1
<1>3. CASE n = 0
  <2>1. it[1..n] = <<>>
    BY <1>3, KeptFacts
  <2>2. KeptOf(<<>>, q, n)
    BY <1>3 DEF KeptOf
  <2> QED
    BY <1>2, <2>1, <2>2
<1>4. CASE n # 0
  <2>1. n \in 1..N /\ n - 1 \in 0..N /\ n - 1 \notin Wrong
    BY <1>1, <1>2, <1>4
  <2>2. KeptOf(it[1..n - 1], q, n - 1)
    BY <2>1
  <2>3. it[1..n] = Step(it[1..n - 1], q[n])
    BY <2>1, KeptFacts
  <2>4. KeptOf(Step(it[1..n - 1], q[n]), q, n)
    BY <2>1, <2>2, StepKeeps
  <2> QED
    BY <1>2, <2>3, <2>4
<1> QED
  BY <1>3, <1>4

\* RenderedInOrder, whoever registers what in which order, for any limits.
THEOREM AlwaysRenderedInOrder == ContextSpec => []RenderedInOrder
<1>1. ContextInv => RenderedInOrder
  <2> SUFFICES ASSUME ContextInv PROVE RenderedInOrder
    OBVIOUS
  <2> DEFINE N == Cardinality(Collected)
             q == Sorted(Collected)
  <2>1. /\ N \in Nat /\ q \in [1..N -> Collected]
        /\ \A i, j \in 1..N : i < j => Before(q[i], q[j])
        /\ \A a \in Collected : \E i \in 1..N : q[i] = a
    BY SortedFacts
  <2> HIDE DEF N, q
  <2>2. PICK it : IsKept(it, q, N) /\ FoldLeft(Step, <<>>, q) = it[1..N]
    BY <2>1, FoldIsKept
  <2>3. Rendered = it[1..N]
    BY <2>2 DEF Rendered, q
  <2>4. KeptOf(Rendered, q, N)
    BY <2>1, <2>2, <2>3, KeptIsSound
  <2> HIDE DEF Rendered
  <2> DEFINE shown == Rendered
  <2>5. shown \in Seq(Collected) /\ DOMAIN shown = 1..Len(shown)
    BY <2>4 DEF KeptOf
  <2>6. ASSUME NEW n \in DOMAIN shown, NEW m \in DOMAIN shown, n < m
        PROVE  Precedes(shown[n], shown[m])
    <3>1. Before(shown[n], shown[m]) /\ ~Alike(shown[n], shown[m])
      BY <2>4, <2>5, <2>6 DEF KeptOf
    <3>2. shown[n] \in Collected /\ shown[m] \in Collected
      BY <2>5
    <3> QED
      BY <3>1, <3>2, BeforeIsOrder DEF Precedes
  <2>7. ASSUME NEW a \in Collected
        PROVE  \E n \in DOMAIN shown :
                  shown[n] = a \/ (Alike(shown[n], a) /\ Before(shown[n], a))
    <3>1. PICK m \in 1..N : q[m] = a
      BY <2>1
    <3>2. PICK i \in 1..Len(shown) :
             shown[i] = q[m] \/ (Alike(shown[i], q[m]) /\ Before(shown[i], q[m]))
      BY <2>4, <3>1 DEF KeptOf
    <3> QED
      BY <2>5, <3>1, <3>2
  <2> QED
    BY <2>6, <2>7 DEF RenderedInOrder
<1> QED
  BY <1>1, ContextInvariance, PTL

---------------------------------------------------------------------------
(* The suite itself.                                                       *)

\* A behaviour of the suite is one of every component: of one that moves and
\* of others that rest.
THEOREM SuiteIsComponents ==
    SuiteSpec => /\ AuthSpec /\ PanelsSpec /\ ControlSpec /\ HeadsSpec
                 /\ RegistryInit /\ [][RegistryNext]_regVars
                 /\ ProbeSpec /\ ContextSpec /\ OperationsSpec
<1>1. SuiteInit => /\ AuthInit /\ PanelsInit /\ ControlInit /\ HeadsInit /\ RegistryInit
                   /\ ProbeInit /\ ContextInit /\ OperationsInit
  BY DEF SuiteInit
<1>2. UNCHANGED suiteVars =>
         UNCHANGED <<authVars, panelsVars, controlVars, regVars, headsVars, probeVars,
                     contextVars, opsVars>>
  BY DEF suiteVars
<1>3. [SuiteNext]_suiteVars => [AuthNext]_authVars
  BY <1>2 DEF SuiteNext
<1>4. [SuiteNext]_suiteVars => [PanelsNext]_panelsVars
  BY <1>2 DEF SuiteNext
<1>5. [SuiteNext]_suiteVars => [ControlNext]_controlVars
  BY <1>2 DEF SuiteNext
<1>6. [SuiteNext]_suiteVars => [RegistryNext]_regVars
  BY <1>2 DEF SuiteNext
<1>7. [SuiteNext]_suiteVars => [HeadsNext]_headsVars
  BY <1>2 DEF SuiteNext
<1>8. [SuiteNext]_suiteVars => [ProbeNext]_probeVars
  BY <1>2 DEF SuiteNext
<1>9. [SuiteNext]_suiteVars => [ContextNext]_contextVars
  BY <1>2 DEF SuiteNext
<1>10. [SuiteNext]_suiteVars => [OperationsNext]_opsVars
  BY <1>2 DEF SuiteNext
<1> QED
  BY <1>1, <1>3, <1>4, <1>5, <1>6, <1>7, <1>8, <1>9, <1>10, PTL
  DEF SuiteSpec, AuthSpec, PanelsSpec, ControlSpec, HeadsSpec, ProbeSpec, ContextSpec,
      OperationsSpec

\* SuiteTypeOK: the variables of every component keep their types, for any
\* values of the constants.
THEOREM SuiteAlwaysTyped == SuiteSpec => []SuiteTypeOK
<1>1. AuthTypeOK /\ PanelsTypeOK /\ ControlTypeOK /\ RegistryTypeOK /\ HeadsTypeOK => SuiteTypeOK
  BY DEF SuiteTypeOK
<1> QED
  BY <1>1, SuiteIsComponents, AuthAlwaysTyped, PanelsAlwaysTyped, ControlAlwaysTyped,
     RegistryAlwaysTyped, HeadsAlwaysTyped, PTL
==============================================================================
