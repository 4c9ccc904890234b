------------------------- MODULE UpdateCoordinator -------------------------
(***************************************************************************)
(* UpdateCoordinator of core/coordinator.py: batches of transactions and   *)
(* manual rollbacks, serialised by a lock of the plugin instance and by    *)
(* the lease file, which outlives the instance and the process.  Composes  *)
(* the handlers of PluginTransaction with the commands of main.py that     *)
(* call them, a hot reload and the death of the process.                   *)
(*                                                                         *)
(* A batch is assumed to end within the lease of the file: FileLeaseLock   *)
(* models what happens to the file when it does not.                       *)
(***************************************************************************)
EXTENDS PluginTransaction, SequencesExt

CONSTANTS
    Runs,        \* calls of execute() or manual_rollback() that are admitted
    Plans,       \* plan hashes
    MaxReloads,  \* bound: hot reloads of the plugin
    Commands,    \* those the administrators use besides /aup plan and /aup run
    NoRun, NoPlan

ASSUME CoordinatorAssumption ==
    /\ IsFiniteSet(Runs) /\ NoRun \notin Runs /\ NoPlan \notin Plans
    /\ MaxReloads \in Nat
    /\ Commands \subseteq {"cancel", "rollback"}

VARIABLES
    plan,       \* per hash: the frozen plan in plan-<id>.json, or NoPlan
    at,         \* per run: where the call is
    job,        \* per run: the plan it executes, or NoPlan for a rollback
    stop,       \* per run: on_failure is STOP
    txs,        \* per run: the transactions it has started, in order
    inst,       \* per run: the plugin instance whose coordinator it is
    known,      \* per run: executed-plans.json as it read it
    flock,      \* the run that locks/update.lock names, or NoRun
    receipts,   \* executed-plans.json
    cancelled,  \* per instance: _cancelled
    cur,        \* the instance that serves commands
    asked       \* history, per run: where it was when its cancel was asked

calls == <<at, job, stop, txs, inst, known, asked>>
cvars == <<plan, calls, flock, receipts, cancelled, cur>>
allvars == <<vars, cvars>>

Instances == 0 .. MaxReloads + MaxCrashes

\* Items of distinct plugins, each with a target, and the catalogue they were
\* chosen from: its fingerprint covers the snapshot of every plugin.
Items == {s \in UNION {[1..n -> [plugin : Plugins, to : Versions]] :
                          n \in 1..Cardinality(Plugins)} :
             \A i, j \in DOMAIN s : s[i].plugin = s[j].plugin => i = j}
Catalog == [Plugins -> [version : Contents, active : BOOLEAN, loaded : BOOLEAN]]
Plan == [items : Items, seen : Catalog]

CallState == {"idle", "scanning", "item", "refused", "returned", "aborted", "dead"}

CallsOK ==
    /\ plan \in [Plans -> Plan \cup {NoPlan}]
    /\ at \in [Runs -> CallState]
    /\ job \in [Runs -> Plans \cup {NoPlan}]
    /\ stop \in [Runs -> BOOLEAN]
    /\ txs \in [Runs -> Seq(Txs)]
    /\ \A r \in Runs : at[r] = "item" => txs[r] # <<>>
    /\ inst \in [Runs -> Instances]
    /\ known \in [Runs -> SUBSET Plans]
    /\ flock \in Runs \cup {NoRun}
    /\ receipts \in SUBSET Plans
    /\ cancelled \in [Instances -> BOOLEAN]
    /\ cur \in Instances
    /\ asked \in [Runs -> {"no", "scanning", "item"}]

CoordinatorTypeOK == TypeOK /\ CallsOK

CoordinatorInit ==
    /\ Init
    /\ plan = [h \in Plans |-> NoPlan]
    /\ at = [r \in Runs |-> "idle"]
    /\ job = [r \in Runs |-> NoPlan]
    /\ stop = [r \in Runs |-> FALSE]
    /\ txs = [r \in Runs |-> <<>>]
    /\ inst = [r \in Runs |-> 0]
    /\ known = [r \in Runs |-> {}]
    /\ flock = NoRun
    /\ receipts = {}
    /\ cancelled = [i \in Instances |-> FALSE]
    /\ cur = 0
    /\ asked = [r \in Runs |-> "no"]

---------------------------------------------------------------------------
(* Turns of the event loop: a task runs until it awaits.                   *)

\* The call holds the process lock of its instance and the file lock.
Active(r) == at[r] \in {"scanning", "item"}
Current(r) == Last(txs[r])

\* The transaction is over and execute() has not yet looked at the result.
AtBoundary(r) == at[r] = "item" /\ ~Busy(Current(r))

Turn(t) == (\A u \in Txs \ {t} : pc[u] \in Suspended) /\ (\A r \in Runs : ~AtBoundary(r))
LoopFree == up /\ AllSuspended /\ \A r \in Runs : ~AtBoundary(r)

Locked(i) == \E r \in Runs : inst[r] = i /\ Active(r)
Set(r, to) == at' = [at EXCEPT ![r] = to]

\* Leaving the two "async with" blocks.
Release(r, to) ==
    /\ Set(r, to)
    /\ flock' = NoRun

---------------------------------------------------------------------------
\* catalog.scan.
Scan == [p \in Plugins |-> Snapshot(p)]

\* planner.create: plugins the core has loaded, each with another version.
Freeze(h) ==
    /\ LoopFree /\ plan[h] = NoPlan
    /\ \E s \in Items :
          /\ \A i \in DOMAIN s :
                Scan[s[i].plugin].loaded /\ Scan[s[i].plugin].version # s[i].to
          /\ plan' = [plan EXCEPT ![h] = [items |-> s, seen |-> Scan]]
    /\ UNCHANGED <<vars, calls, flock, receipts, cancelled, cur>>

\* Mutant of LockFree: the lease file of another instance is not looked at.
LockFreeInProcess == ~Locked(cur)

\* Neither the process lock nor the lease file is taken; a call that finds one
\* of them taken raises UPDATE_LOCKED and changes nothing.
LockFree == ~Locked(cur) /\ flock = NoRun

Admit(r, h, s) ==
    /\ LoopFree /\ at[r] = "idle" /\ LockFree
    /\ flock' = r
    /\ job' = [job EXCEPT ![r] = h]
    /\ stop' = [stop EXCEPT ![r] = s]
    /\ inst' = [inst EXCEPT ![r] = cur]
    /\ known' = [known EXCEPT ![r] = receipts]

\* Mutant of NotExecuted: the receipts are not consulted.
NotExecutedUnread(h) == TRUE
NotExecuted(h) == h \notin receipts

\* execute() up to the catalogue scan: aup_run continues after a failure, the
\* scheduled run does as its rule says.
Call(r, h) ==
    /\ plan[h] # NoPlan /\ NotExecuted(h)
    /\ \E s \in BOOLEAN : Admit(r, h, s)
    /\ Set(r, "scanning")
    /\ UNCHANGED <<vars, plan, txs, receipts, cancelled, cur, asked>>

\* The next item of r's plan, for transaction t.
ItemOf(r, t) ==
    LET f == plan[job[r]]
        i == f.items[Len(txs[r]) + 1] IN
    [plugin |-> i.plugin, from |-> f.seen[i.plugin].version, to |-> i.to,
     active |-> f.seen[i.plugin].active, orig |-> t]

\* Mutant of StartItem: the batch does not list the transaction.
StartItemUnlisted(r, t) == Start(t, ItemOf(r, t)) /\ UNCHANGED txs

StartItem(r, t) ==
    /\ Start(t, ItemOf(r, t))
    /\ txs' = [txs EXCEPT ![r] = Append(@, t)]

\* Mutant of Valid: the fingerprint of the whole catalogue is not compared.
ValidUnread(r) == TRUE

\* validate(): the catalogue is still the one the plan was frozen with.
Valid(r) == plan[job[r]].seen = Scan

\* The scan returns and the plan is valid: _cancelled is reset and the first
\* transaction starts in the same turn.
Scanned(r) ==
    /\ at[r] = "scanning" /\ LoopFree
    /\ Valid(r)
    /\ cancelled' = [cancelled EXCEPT ![inst[r]] = FALSE]
    /\ \E t \in Txs : StartItem(r, t)
    /\ Set(r, "item")
    /\ UNCHANGED <<plan, job, stop, inst, known, flock, receipts, cur, asked>>

\* The plan is stale or has expired, another rule or AstrBot version is in
\* force, or the scan or the first write of run-<id>.json raises.
Refuse(r) ==
    /\ at[r] = "scanning" /\ LoopFree
    /\ Release(r, "refused")
    /\ UNCHANGED <<vars, plan, job, stop, txs, inst, known, receipts, cancelled, cur, asked>>

\* Mutant of Failed: only ROLLBACK_FAILED ends a batch, whatever the policy.
FailedIgnoresPolicy(r) == rec[Current(r)] = "ROLLBACK_FAILED"

\* The result of the last transaction ends the batch.
Failed(r) ==
    \/ rec[Current(r)] = "ROLLBACK_FAILED"
    \/ rec[Current(r)] # "COMMITTED" /\ stop[r]

Exhausted(r) == Len(txs[r]) = Len(plan[job[r]].items)

\* Mutant of CancelSeen: the flag is not looked at between two transactions.
CancelUnseen(r) == FALSE
CancelSeen(r) == cancelled[inst[r]]

\* The next item of the loop.
NextItem(r) ==
    /\ AtBoundary(r) /\ pc[Current(r)] = "done" /\ job[r] # NoPlan
    /\ ~Failed(r) /\ ~Exhausted(r) /\ ~CancelSeen(r)
    /\ \E t \in Txs : StartItem(r, t)
    /\ UNCHANGED <<plan, at, job, stop, inst, known, flock, receipts, cancelled, cur, asked>>

\* The batch is over: its receipt is added to those it read, the locks are
\* released and the command that called it cleans up, all in one turn.  (When the
\* last write of run-<id>.json raises there is no cleanup: k = 0.)
Finish(r) ==
    /\ AtBoundary(r) /\ pc[Current(r)] = "done" /\ job[r] # NoPlan
    /\ Failed(r) \/ Exhausted(r) \/ CancelSeen(r)
    /\ receipts' = known[r] \cup {job[r]}
    /\ Release(r, "returned")
    /\ \E k \in 0..Cardinality(Txs) : CleanupUpTo(k)
    /\ UNCHANGED <<world, rec, mtime, item, pc, mlock, env, pre, faults>>
    /\ UNCHANGED <<plan, job, stop, txs, inst, known, cancelled, cur, asked>>

\* The transaction raised, or a write of run-<id>.json or of the receipts did:
\* the locks are released and there is no receipt.
Abort(r) ==
    /\ AtBoundary(r)
    /\ pc[Current(r)] = "raised" \/ job[r] # NoPlan
    /\ Release(r, "aborted")
    /\ UNCHANGED <<vars, plan, job, stop, txs, inst, known, receipts, cancelled, cur, asked>>

---------------------------------------------------------------------------
\* aup_rollback: manual_rollback() up to its first await.
CallRollback(r, t, o) ==
    /\ "rollback" \in Commands
    /\ Admit(r, NoPlan, FALSE)
    /\ Set(r, "item")
    /\ ManualStart(t, o)
    /\ txs' = [txs EXCEPT ![r] = <<t>>]
    /\ UNCHANGED <<plan, receipts, cancelled, cur, asked>>

\* It returns its record.
RollbackReturns(r) ==
    /\ AtBoundary(r) /\ pc[Current(r)] = "done" /\ job[r] = NoPlan
    /\ Release(r, "returned")
    /\ UNCHANGED <<vars, plan, job, stop, txs, inst, known, receipts, cancelled, cur, asked>>

\* The rollback button of the WebUI calls the transaction itself.
WebuiRollback(t, o) ==
    /\ LoopFree
    /\ ManualStart(t, o)
    /\ UNCHANGED cvars

---------------------------------------------------------------------------
\* cancel() of an instance, noting for its running batch where it was.
CancelOf(i) ==
    /\ cancelled' = [cancelled EXCEPT ![i] = TRUE]
    /\ asked' = [r \in Runs |-> IF inst[r] = i /\ Active(r) THEN at[r] ELSE asked[r]]

\* aup_cancel.
Cancel ==
    /\ "cancel" \in Commands /\ LoopFree
    /\ CancelOf(cur)
    /\ UNCHANGED <<vars, plan, at, job, stop, txs, inst, known, flock, receipts, cur>>

\* A hot reload: terminate() cancels the old coordinator, whose batch goes on to
\* its next boundary; the new instance recovers.
HotReload ==
    /\ LoopFree /\ cur - crashes < MaxReloads
    /\ CancelOf(cur)
    /\ cur' = cur + 1
    /\ Recover
    /\ UNCHANGED <<plan, at, job, stop, txs, inst, known, flock, receipts>>

\* initialize() of the instance cleans up, after awaits of its own.
Initialize ==
    /\ LoopFree
    /\ Cleanup
    /\ UNCHANGED cvars

\* The process dies with every call in it; the lease file stays.
Die ==
    /\ Crash
    /\ at' = [r \in Runs |-> IF Active(r) THEN "dead" ELSE at[r]]
    /\ UNCHANGED <<plan, job, stop, txs, inst, known, flock, receipts, cancelled, cur, asked>>

\* Mutant of LeaseExpires: nobody ever takes over the file of a dead owner.
LeaseNeverExpires == FALSE

\* The lease of a dead owner expires: the next acquire() takes the file over.
LeaseExpires ==
    /\ flock # NoRun /\ at[flock] = "dead"
    /\ flock' = NoRun
    /\ UNCHANGED <<vars, plan, calls, receipts, cancelled, cur>>

StartAgain ==
    /\ Restart
    /\ cur' = cur + 1
    /\ UNCHANGED <<plan, calls, flock, receipts, cancelled>>

---------------------------------------------------------------------------
Transact(t) == TxStep(t) /\ Turn(t) /\ UNCHANGED cvars

RunStep(r) ==
    \/ Scanned(r) \/ Refuse(r)
    \/ NextItem(r) \/ Finish(r) \/ Abort(r) \/ RollbackReturns(r)

CoordinatorNext ==
    \/ \E h \in Plans : Freeze(h)
    \/ \E r \in Runs, h \in Plans : Call(r, h)
    \/ \E r \in Runs, t, o \in Txs : CallRollback(r, t, o)
    \/ \E r \in Runs : RunStep(r)
    \/ \E t \in Txs : Transact(t)
    \/ Cancel \/ HotReload \/ Initialize
    \/ Die \/ LeaseExpires \/ StartAgain

CoordinatorSpec == CoordinatorInit /\ [][CoordinatorNext]_allvars

\* The same with the WebUI in use.
WebuiNext == CoordinatorNext \/ \E t, o \in Txs : WebuiRollback(t, o)
WebuiSpec == CoordinatorInit /\ [][WebuiNext]_allvars

\* The event loop runs every task that is not waiting, and calls of the core
\* return; time passes, and a dead process is started again.
FairCoordinatorSpec ==
    /\ CoordinatorSpec
    /\ \A t \in Txs : WF_allvars(Transact(t))
    /\ \A r \in Runs : WF_allvars(RunStep(r))
    /\ WF_allvars(LeaseExpires) /\ WF_allvars(StartAgain)

---------------------------------------------------------------------------
StartsItem(r) == Len(txs'[r]) > Len(txs[r])

\* With every caller going through the coordinator, transactions run one at a
\* time, each on a plugin that is as its plan says: what PluginTransaction takes
\* for granted, across hot reloads, deaths and manual rollbacks (README.md:33).
ImplementsSerial == Spec

\* Two calls are never past the locks at once, even when a hot reload gives the
\* second one a coordinator, and a process lock, of its own (README.md:32).
OneRun == \A r, s \in Runs : Active(r) /\ Active(s) => r = s

\* A plan whose batch returned is never started again, by any instance, however
\* that batch ended: its receipt outlives cancels, failures and restarts.
NoReplay ==
    [][\A r, s \in Runs : StartsItem(r) /\ job'[r] # NoPlan /\ at[s] = "returned"
          => job[s] # job'[r]]_allvars

\* Nothing is started after a transaction that ended in ROLLBACK_FAILED, nor
\* after one that did not commit when the rule says to stop.
StopsAfterFailure ==
    \A r \in Runs : \A i \in 1 .. Len(txs[r]) - 1 :
        /\ rec[txs[r][i]] # "ROLLBACK_FAILED"
        /\ stop[r] => rec[txs[r][i]] = "COMMITTED"

\* A batch that is told to stop while it works on its items starts no further
\* one, whatever the current one comes to.
CancelInLoop == [][\A r \in Runs : asked[r] = "item" => ~StartsItem(r)]_allvars

\* Every call that is admitted comes to an end, and the lease file is free again
\* even when the process dies with it.
RunsEnd == \A r \in Runs : flock = r ~> flock # r

\* As README.md:33 puts it, every update and every rollback enters the one
\* coordinator and runs serially at the boundaries of transactions: so while the
\* core updates a plugin for a call of the coordinator, no other transaction is
\* under way.
OneAtATime ==
    \A r \in Runs, t \in Txs :
        at[r] = "item" /\ mlock = Current(r) /\ Busy(t) => t = Current(r)

\* As the docstring of aup_cancel puts it: a cancelled batch stops after the
\* transaction it is in.
CancelHonoured == [][\A r \in Runs : asked[r] # "no" => ~StartsItem(r)]_allvars
=============================================================================
