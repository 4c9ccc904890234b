----------------------------- MODULE ModelProbe -----------------------------
(***************************************************************************)
(* The tests of the configured models.  Two ways lead to probe_routes of   *)
(* core/model_probe.py: the job that main.py keeps in memory, of which     *)
(* there is one at a time, and the requests for a direct test, which       *)
(* nothing limits.  A call resolves the provider of every kind of work it  *)
(* wants, and then tests the routes it found, bounded_gather of            *)
(* core/concurrency.py letting Limit of them be tested at a time.          *)
(*                                                                         *)
(* A route is what a call groups its kinds by: the provider, the model and *)
(* the source, which says how the provider was found.  Kinds that have all *)
(* three in common share one test; a provider that is set for one kind and *)
(* discovered for another is two routes, and is tested twice.  Providers   *)
(* are external: they pass, fail or time out, which probe_kind turns into  *)
(* a result.                                                               *)
(***************************************************************************)
EXTENDS Naturals, FiniteSets

CONSTANTS
    Kinds,     \* MODEL_KINDS: kinds of work that a model is chosen for
    Routes,    \* provider, model and source
    Tests,     \* requests for a direct test
    Limit,     \* 3 in the code
    NoRoute,   \* no provider could be resolved
    Unresolved

Job == "job"
Calls == Tests \cup {Job}  \* of probe_routes

ASSUME ProbeAssumption ==
    Limit \in Nat \ {0} /\ IsFiniteSet(Kinds) /\ Job \notin Tests
    /\ NoRoute \notin Routes /\ Unresolved \notin Routes \cup {NoRoute}

VARIABLES
    probe,    \* per call: where it is (none, new: not yet run, live), its kinds
              \* and the state of each, the route that the resolver answered for
              \* each, the groups of kinds being tested, and as history the
              \* routes tested once and twice
    busy,     \* _model_probe_job is running
    killed    \* history: the job was cancelled

probeVars == <<probe, busy, killed>>

Final == {"ok", "failed", "unavailable"}

Called(pc, ks) ==
    [pc |-> pc, wanted |-> ks,
     state |-> [k \in Kinds |-> IF k \in ks THEN "pending" ELSE "absent"],
     route |-> [k \in Kinds |-> Unresolved],
     flight |-> {}, once |-> {}, twice |-> {}]

ProbeInit == probe = [c \in Calls |-> Called("none", {})] /\ busy = FALSE /\ killed = FALSE

---------------------------------------------------------------------------
\* start_model_probe: one job at a time, MODEL_PROBE_BUSY to a second.
StartProbe(ks) ==
    /\ ~busy /\ ks # {}
    /\ probe' = [probe EXCEPT ![Job] = Called("new", ks)]
    /\ busy' = TRUE /\ killed' = FALSE

RunProbe ==
    /\ probe[Job].pc = "new"
    /\ probe' = [probe EXCEPT ![Job].pc = "live"]
    /\ UNCHANGED <<busy, killed>>

\* _webui_model_test: a direct test looks at neither the job nor other tests.
StartTest(t, ks) ==
    /\ probe[t].pc = "none" /\ ks # {}
    /\ probe' = [probe EXCEPT ![t] = Called("live", ks)]
    /\ UNCHANGED <<busy, killed>>

\* The kinds are resolved one after the other, each perhaps with an await; a
\* resolver that raises leaves no provider.
Resolving(c) == \E k \in probe[c].wanted : probe[c].route[k] = Unresolved
ResolveKind(c, k) ==
    /\ probe[c].pc = "live" /\ k \in probe[c].wanted /\ probe[c].route[k] = Unresolved
    /\ \E r \in Routes \cup {NoRoute} : probe' = [probe EXCEPT ![c].route[k] = r]
    /\ UNCHANGED <<busy, killed>>

\* The groups: a kind without a provider is on its own.
GroupAlone(c, k) == {k}
Group(c, k) ==
    {j \in probe[c].wanted :
        j = k \/ (probe[c].route[k] # NoRoute /\ probe[c].route[j] = probe[c].route[k])}

KindsAre(c, ks, s) == [k \in Kinds |-> IF k \in ks THEN s ELSE probe[c].state[k]]

\* A group that the semaphore lets in, in the order of the kinds or not.
BeginGroup(c, k) ==
    /\ probe[c].pc = "live" /\ ~Resolving(c)
    /\ k \in probe[c].wanted /\ probe[c].state[k] = "pending"
    /\ Cardinality(probe[c].flight) < Limit
    /\ \/ /\ probe[c].route[k] = NoRoute
          /\ probe' = [probe EXCEPT ![c].state = KindsAre(c, Group(c, k), "unavailable")]
       \/ /\ probe[c].route[k] # NoRoute
          /\ probe' = [probe EXCEPT
                ![c].state = KindsAre(c, Group(c, k), "running"),
                ![c].flight = @ \cup {Group(c, k)},
                ![c].once = @ \cup {probe[c].route[k]},
                ![c].twice = @ \cup (probe[c].once \cap {probe[c].route[k]})]
    /\ UNCHANGED <<busy, killed>>

\* The provider passed, raised or timed out; the other kinds of the group take
\* the result over (reused_from).
EndGroup(c, g) ==
    /\ probe[c].pc = "live" /\ g \in probe[c].flight
    /\ \E s \in {"ok", "failed"} :
          probe' = [probe EXCEPT ![c].state = KindsAre(c, g, s), ![c].flight = @ \ {g}]
    /\ UNCHANGED <<busy, killed>>

\* All groups are through: gather returns.  The job keeps its results for the
\* page and ends in `finally`, a direct test answers its request.
Through(c) ==
    /\ probe[c].pc = "live" /\ ~Resolving(c) /\ probe[c].flight = {}
    /\ \A k \in probe[c].wanted : probe[c].state[k] # "pending"
FinishProbe ==
    /\ Through(Job)
    /\ probe' = [probe EXCEPT ![Job].pc = "none"] /\ busy' = FALSE
    /\ UNCHANGED killed
FinishTest(t) ==
    /\ Through(t)
    /\ probe' = [probe EXCEPT ![t] = Called("none", {})]
    /\ UNCHANGED <<busy, killed>>

\* terminate() cancels the task of the job and forgets it, and goes on to await
\* the WebUI server, so that requests still come.  The cancellation is delivered
\* at an await: a task that did not run yet never reaches its `finally`, and the
\* job stays running; otherwise the kinds stay as they are.
CancelProbe ==
    /\ probe[Job].pc # "none"
    /\ probe' = [probe EXCEPT ![Job].pc = "none", ![Job].flight = {}]
    /\ busy' = (probe[Job].pc = "new") /\ killed' = TRUE

ProbeNext ==
    \/ \E ks \in SUBSET Kinds : StartProbe(ks) \/ \E t \in Tests : StartTest(t, ks)
    \/ \E c \in Calls :
          \/ \E k \in Kinds : ResolveKind(c, k) \/ BeginGroup(c, k)
          \/ \E g \in probe[c].flight : EndGroup(c, g)
    \/ \E t \in Tests : FinishTest(t)
    \/ RunProbe \/ FinishProbe \/ CancelProbe

ProbeSpec == ProbeInit /\ [][ProbeNext]_probeVars

---------------------------------------------------------------------------
\* One call of probe_routes, the job or a direct test, tests no route twice
\* although several kinds share it (model_probe.py:188), never more than Limit
\* routes at once and none for a kind of two groups.  A job that tests is
\* shown as running, and the page sees no finished job with a kind still
\* pending, unless the plugin was being unloaded.  Two calls may test the same
\* provider at the same time, and one call may under two sources.
ProbesOnce ==
    /\ \A c \in Calls :
          /\ probe[c].twice = {}
          /\ Cardinality(probe[c].flight) <= Limit
          /\ \A g, h \in probe[c].flight : g # h => g \cap h = {}
    /\ probe[Job].flight # {} => busy
    /\ ~busy /\ ~killed => \A k \in probe[Job].wanted : probe[Job].state[k] \in Final
=============================================================================
