---------------------------- MODULE WebuiPanels ----------------------------
(***************************************************************************)
(* WebUIPanelsGateway.action of core/webui_panels.py, one panel of one     *)
(* plugin: calls that carry a request id, the entries of calls in flight,  *)
(* the records from which a repeated request is answered, the timeout, and *)
(* the artifacts that an action returns.  The plugin is external: its      *)
(* action takes effect at some moment of the call, or never, or, when it   *)
(* is a plain function that runs in a thread, after the call was given up. *)
(***************************************************************************)
EXTENDS WebuiArtifacts, FiniteSets

CONSTANTS
    Callers,       \* HTTP requests under way
    RequestIds,
    Contents,      \* an action with the fingerprint of its payload
    MaxRecords,    \* MAX_IDEMPOTENCY_RECORDS
    MaxGivenUp,    \* bound: timeouts and cancellations
    MaxEffects     \* bound: effects of one request id

ASSUME PanelsAssumption ==
    /\ {MaxRecords, MaxGivenUp, MaxEffects} \subseteq Nat /\ MaxRecords > 0
    /\ RequestIds # {} /\ Contents # {}

VARIABLES
    action,    \* per caller: where it is, its request id, content and effect
    inflight,  \* _idempotency_inflight: <<request id, content>>
    records,   \* _idempotency_records, oldest first
    threads,   \* per request id: abandoned threads that may still take effect
    givenUp,
    effects,   \* history, per request id: effects that took place
    excused,   \* history: ids whose caller was told nothing of an effect, or
               \* whose record is gone
    stuck      \* history: entries of calls that were cancelled

panelsVars == <<artifacts, action, inflight, records, threads, givenUp, effects, excused,
              stuck>>

Entry == RequestIds \X Contents
Resting == [pc |-> "idle", id |-> CHOOSE k \in RequestIds : TRUE,
            content |-> CHOOSE w \in Contents : TRUE, applied |-> FALSE]

PanelsTypeOK ==
    /\ ArtifactsTypeOK
    /\ action \in [Callers -> [pc : {"idle", "busy"}, id : RequestIds, content : Contents,
                               applied : BOOLEAN]]
    /\ inflight \subseteq Entry
    /\ records \in Seq(Entry) /\ Len(records) <= MaxRecords
    /\ \A i, j \in DOMAIN records : records[i][1] = records[j][1] => i = j
    /\ \A k \in RequestIds : threads[k] \in 0..MaxGivenUp /\ effects[k] \in 0..MaxEffects
    /\ excused \subseteq RequestIds /\ stuck \subseteq Entry

PanelsInit ==
    /\ ArtifactsInit
    /\ action = [c \in Callers |-> Resting]
    /\ inflight = {} /\ records = <<>>
    /\ threads = [k \in RequestIds |-> 0] /\ givenUp = 0
    /\ effects = [k \in RequestIds |-> 0] /\ excused = {} /\ stuck = {}

---------------------------------------------------------------------------
\* _begin_idempotent_action: a recorded request is answered from the record,
\* or refused if it is another action; one in flight is refused either way.
Answered(k) == \E n \in DOMAIN records : records[n][1] = k
RunningSame(k, w) == <<k, w>> \in inflight
Running(k, w) == \E v \in Contents : <<k, v>> \in inflight
BeginAction(c, k, w) ==
    /\ action[c].pc = "idle"
    /\ ~Answered(k) /\ ~Running(k, w)
    /\ inflight' = inflight \cup {<<k, w>>}
    /\ action' = [action EXCEPT ![c] =
                     [pc |-> "busy", id |-> k, content |-> w, applied |-> FALSE]]
    /\ UNCHANGED <<artifacts, records, threads, givenUp, effects, excused, stuck>>

Busy(c) == action[c].pc = "busy"
TakesEffect(k) == effects[k] < MaxEffects /\ effects' = [effects EXCEPT ![k] = @ + 1]

\* webui_panel_action of the plugin does what it was asked to.
Applies(c) ==
    /\ Busy(c) /\ ~action[c].applied
    /\ TakesEffect(action[c].id)
    /\ action' = [action EXCEPT ![c].applied = TRUE]
    /\ UNCHANGED <<artifacts, inflight, records, threads, givenUp, excused, stuck>>
ThreadApplies(k) ==
    /\ threads[k] > 0 /\ threads' = [threads EXCEPT ![k] = @ - 1]
    /\ TakesEffect(k)
    /\ UNCHANGED <<artifacts, action, inflight, records, givenUp, excused, stuck>>

Rest(c) == action' = [action EXCEPT ![c] = Resting]
FinishEntry(c) == inflight' = inflight \ {<<action[c].id, action[c].content>>}
AbortKeeps(c) == UNCHANGED inflight
\* _abort_idempotent_action: by the request id, whatever the content.
AbortEntry(c) == inflight' = {e \in inflight : e[1] # action[c].id}

\* _materialize_panel_artifacts stores the files that the action returned, one
\* put() after the other; one stands for them.
Materialized == Put \/ UNCHANGED artifacts

\* A success is recorded, and the oldest record goes beyond the limit.  A
\* repetition of the one that went runs again.
Succeeds(c) ==
    /\ Busy(c) /\ action[c].applied
    /\ FinishEntry(c) /\ Rest(c)
    /\ Materialized
    /\ LET all == Append(records, <<action[c].id, action[c].content>>)
       IN IF Len(all) > MaxRecords
          THEN records' = Tail(all) /\ excused' = excused \cup {Head(all)[1]}
          ELSE records' = all /\ UNCHANGED excused
    /\ UNCHANGED <<threads, givenUp, effects, stuck>>

Excuse(c) == excused' = IF action[c].applied THEN excused \cup {action[c].id} ELSE excused

\* success: false is an answer too, and is not recorded: it may be corrected.
\* Nothing says that a plugin which answers so has done nothing.
Declines(c) ==
    /\ Busy(c)
    /\ FinishEntry(c) /\ Rest(c)
    /\ Materialized
    /\ Excuse(c)
    /\ UNCHANGED <<records, threads, givenUp, effects, stuck>>

\* Anything raised by the checks of the context, by the reading of uploads, by
\* the plugin before or after the effect, or by a returned file that put()
\* does not accept after it has taken others.
Raises(c) ==
    /\ Busy(c)
    /\ AbortEntry(c) /\ Rest(c)
    /\ Excuse(c)
    /\ IF action[c].applied THEN Materialized ELSE UNCHANGED artifacts
    /\ UNCHANGED <<records, threads, givenUp, effects, stuck>>

\* A thread cannot be cancelled and goes on.
Abandon(c) ==
    /\ givenUp < MaxGivenUp /\ givenUp' = givenUp + 1
    /\ threads' \in {threads} \cup
          (IF action[c].applied THEN {}
           ELSE {[threads EXCEPT ![action[c].id] = @ + 1]})
TimesOut(c) ==
    /\ Busy(c)
    /\ AbortEntry(c) /\ Rest(c) /\ Abandon(c)
    /\ excused' = excused \cup {action[c].id}
    /\ UNCHANGED <<artifacts, records, effects, stuck>>

\* The task is cancelled with the server: CancelledError is no Exception, so
\* that the entry stays.
Cancelled(c) ==
    /\ Busy(c)
    /\ Rest(c) /\ Abandon(c)
    /\ stuck' = stuck \cup {<<action[c].id, action[c].content>>}
    /\ UNCHANGED <<artifacts, inflight, records, effects, excused>>

\* IDEMPOTENCY_TTL_SECONDS: every look at the records removes those past it.
RecordExpires ==
    /\ records # <<>>
    /\ records' = Tail(records)
    /\ excused' = excused \cup {Head(records)[1]}
    /\ UNCHANGED <<artifacts, action, inflight, threads, givenUp, effects, stuck>>

\* A browser uploads a file.
Upload ==
    Put /\ UNCHANGED <<action, inflight, records, threads, givenUp, effects, excused, stuck>>

PanelsNext ==
    \/ \E c \in Callers : \E k \in RequestIds, w \in Contents : BeginAction(c, k, w)
    \/ \E c \in Callers :
          Applies(c) \/ Succeeds(c) \/ Declines(c) \/ Raises(c) \/ TimesOut(c) \/ Cancelled(c)
    \/ \E k \in RequestIds : ThreadApplies(k)
    \/ RecordExpires \/ Upload

PanelsSpec == PanelsInit /\ [][PanelsNext]_panelsVars

---------------------------------------------------------------------------
\* A request id takes effect once, however often and with whatever content it
\* is sent, and also when a call is cancelled and its thread goes on.  What
\* may repeat it is a caller that was told of a failure or a timeout, or a
\* record that was pushed out or expired (webui_panels.py:286).
AppliedOnce == \A k \in RequestIds : effects[k] + threads[k] > 1 => k \in excused

\* Nobody but a cancelled call leaves an entry behind: a request id answers
\* ACTION_IN_PROGRESS while one call has it, and two calls never share one.
EntriesOwned ==
    /\ inflight = stuck \cup {<<action[c].id, action[c].content>> : c \in {d \in Callers : Busy(d)}}
    /\ \A e, f \in inflight : e[1] = f[1] => e = f
    /\ \A c, d \in Callers : Busy(c) /\ Busy(d) /\ action[c].id = action[d].id => c = d
=============================================================================
