------------------------- MODULE PluginTransaction -------------------------
(***************************************************************************)
(* PluginTransaction of core/transaction.py: back up a plugin directory,   *)
(* let the AstrBot core update it, check its health, and commit or roll    *)
(* back; manual rollback of a committed transaction; retention of backups; *)
(* and UpdateCoordinator.recover_interrupted after a restart.              *)
(*                                                                         *)
(* The actions are the handlers' steps between two awaits, split further   *)
(* at every write to the store so that the process may die, or the write   *)
(* fail, between any two of them.  Spec runs transactions one at a time,   *)
(* as the coordinator promises; UpdateCoordinator composes the same        *)
(* handlers with the locks that are meant to keep that promise.            *)
(***************************************************************************)
EXTENDS Naturals, FiniteSets

CONSTANTS
    Plugins, Versions,
    Txs,         \* transaction ids (uuid4), each used at most once
    Keep,        \* backup_keep_success
    MaxFaults,   \* bound: writes to the store or to the audit log that fail
    MaxCrashes,  \* bound: deaths of the process
    NoTx, NoItem, NoBackup, NoRecord,
    Torn, Missing, \* a directory that is no whole version, or is not there
    Down         \* the core has no such plugin loaded

Contents == Versions \cup {Torn, Missing}

ASSUME TxAssumption ==
    /\ IsFiniteSet(Txs)
    /\ Keep \in Nat /\ MaxFaults \in Nat /\ MaxCrashes \in Nat
    /\ Versions \cap {Torn, Missing, Down, NoBackup} = {}
    /\ NoBackup \notin {Torn, Missing} /\ Torn # Missing
    /\ NoTx \notin Txs

VARIABLES
    disk,    \* per plugin: the content of its directory
    live,    \* per plugin: the version the core has loaded, or Down
    active,  \* per plugin: activated or disabled in the core
    rec,     \* per tx: the state in tx-<id>.json, or NoRecord
    bak,     \* per tx: the content of its backup directory, or NoBackup
    mtime,   \* per tx: when its backup was made (0: never)
    item,    \* per tx: the PlanItem it works on
    pc,      \* per tx: where execute() or manual_rollback() is
    mlock,   \* who holds the adapter's _mutation_lock
    up,      \* the process is alive
    pre,     \* history, per tx: the content of the directory at its start
    faults, crashes

world == <<disk, live, active>>
files == <<rec, bak, mtime>>
env == <<up, crashes>>
vars == <<disk, live, active, rec, bak, mtime, item, pc, mlock, up, pre, faults, crashes>>

TERMINAL == {"COMMITTED", "ROLLED_BACK", "ROLLBACK_FAILED"}
TxState == TERMINAL \cup {"LOCKED", "BACKED_UP", "CORE_UPDATE_RUNNING",
                          "HEALTHY", "FAILED", "ROLLING_BACK", "INTERRUPTED"}

ASSUME RecordAssumption == NoRecord \notin TxState

Resting == {"idle", "done", "raised", "dead"}
\* An await: another task of the event loop may run.
Suspended == Resting \cup {"selecting", "queued", "installing", "checking", "probing",
                           "terminating", "reloading", "rbchecking", "rbprobing"}
PCs == Suspended \cup {"locked", "backed", "ready", "healthy", "commit", "except",
                       "rolling", "verify", "restoring", "restored", "rbexcept"}

PlanItem == [plugin : Plugins, from : Versions, to : Versions,
             active : BOOLEAN, orig : Txs]

TypeOK ==
    /\ disk \in [Plugins -> Contents]
    /\ live \in [Plugins -> Versions \cup {Down}]
    /\ active \in [Plugins -> BOOLEAN]
    /\ rec \in [Txs -> TxState \cup {NoRecord}]
    /\ bak \in [Txs -> Contents \cup {NoBackup}]
    /\ mtime \in [Txs -> Nat]
    /\ item \in [Txs -> PlanItem \cup {NoItem}]
    /\ pc \in [Txs -> PCs]
    /\ \A t \in Txs : pc[t] # "idle" \/ rec[t] # NoRecord => item[t] \in PlanItem
    /\ mlock \in Txs \cup {NoTx}
    /\ up \in BOOLEAN
    /\ pre \in [Txs -> Contents \cup {NoBackup}]
    /\ faults \in 0..MaxFaults /\ crashes \in 0..MaxCrashes

\* Every plugin is installed and loaded, enabled or not; no transaction has run.
Init ==
    /\ disk \in [Plugins -> Versions]
    /\ live = disk
    /\ active \in [Plugins -> BOOLEAN]
    /\ rec = [t \in Txs |-> NoRecord]
    /\ bak = [t \in Txs |-> NoBackup]
    /\ mtime = [t \in Txs |-> 0]
    /\ item = [t \in Txs |-> NoItem]
    /\ pc = [t \in Txs |-> "idle"]
    /\ mlock = NoTx
    /\ up = TRUE
    /\ pre = [t \in Txs |-> NoBackup]
    /\ faults = 0 /\ crashes = 0

---------------------------------------------------------------------------
Busy(t) == pc[t] \notin Resting
Goto(t, where) == pc' = [pc EXCEPT ![t] = where]
Plugin(t) == item[t].plugin
Manual(t) == item[t].orig # t
Backups(p) == {t \in Txs : bak[t] # NoBackup /\ item[t].plugin = p}
Now == Cardinality({t \in Txs : mtime[t] > 0}) + 1

\* snapshot_plugins: a loaded plugin as the core has it; any other as disabled,
\* with the version that the metadata in its directory gives (Torn: any, or none).
Snapshot(p) ==
    [version |-> IF live[p] # Down THEN live[p] ELSE disk[p],
     active  |-> live[p] # Down /\ active[p],
     loaded  |-> live[p] # Down]

\* _record: the in-memory state is written to tx-<id>.json and then appended
\* to the audit log.  Either may raise; a failed append leaves the file written.
Record(t, state, ok, failed) ==
    \/ /\ rec' = [rec EXCEPT ![t] = state]
       /\ Goto(t, ok)
       /\ UNCHANGED faults
    \/ /\ faults < MaxFaults
       /\ faults' = faults + 1
       /\ rec' = rec \/ rec' = [rec EXCEPT ![t] = state]
       /\ Goto(t, failed)

\* One synchronous step of t that only writes its record.
RecordStep(t, at, state, ok, failed) ==
    /\ pc[t] = at
    /\ Record(t, state, ok, failed)
    /\ UNCHANGED <<world, bak, mtime, item, mlock, env, pre>>

\* One step of t that changes nothing but where t is.
Move(t, at, to) ==
    /\ pc[t] = at
    /\ Goto(t, to)
    /\ UNCHANGED <<world, files, item, mlock, env, pre, faults>>

---------------------------------------------------------------------------
(* execute(): backup, core update, health check                            *)

\* A new transaction on plan item it; the LOCKED record is outside the try.
Start(t, it) ==
    /\ pc[t] = "idle"
    /\ item' = [item EXCEPT ![t] = it]
    /\ pre' = [pre EXCEPT ![t] = disk[it.plugin]]
    /\ Record(t, "LOCKED", "locked", "raised")
    /\ UNCHANGED <<world, bak, mtime, mlock, env>>

\* backup(): copytree to a temporary directory, manifest, os.replace.
Backup(t) ==
    /\ pc[t] = "locked"
    /\ disk[Plugin(t)] # Missing
    /\ bak' = [bak EXCEPT ![t] = disk[Plugin(t)]]
    /\ mtime' = [mtime EXCEPT ![t] = Now]
    /\ Goto(t, "backed")
    /\ UNCHANGED <<world, rec, item, mlock, env, pre, faults>>

\* Mutant of BackupFails: the exception is swallowed and the update goes on.
BackupFailureIgnored(t) == Move(t, "locked", "ready")

\* _source, ensure_no_symlinks or the copy raises: nothing was changed.
BackupFails(t) == Move(t, "locked", "except")

RecordBackedUp(t) == RecordStep(t, "backed", "BACKED_UP", "ready", "except")
RecordRunning(t) == RecordStep(t, "ready", "CORE_UPDATE_RUNNING", "queued", "except")

\* adapter.update_plugin: the mutation lock, then the check of the plugin.
UpdateBegin(t) ==
    /\ pc[t] = "queued"
    /\ mlock = NoTx
    /\ \/ live[Plugin(t)] # Down /\ Goto(t, "installing") /\ mlock' = t
       \/ live[Plugin(t)] = Down /\ Goto(t, "except") /\ UNCHANGED mlock
    /\ UNCHANGED <<world, files, item, env, pre, faults>>

\* The core leaves the plugin p with content c in its directory and l loaded.
Leaves(p, c, l) ==
    /\ disk' = [disk EXCEPT ![p] = c]
    /\ live' = [live EXCEPT ![p] = l]
    /\ \E a \in BOOLEAN : active' = [active EXCEPT ![p] = a]

\* The core returns and the plugin is loaded: the version the core chose, which
\* the directory holds; or, had it not loaded anything, what was loaded before.
UpdateReturns(t) ==
    /\ pc[t] = "installing"
    /\ \/ \E v \in Versions : Leaves(Plugin(t), v, v)
       \/ live[Plugin(t)] # Down /\ \E c \in Contents : Leaves(Plugin(t), c, live[Plugin(t)])
    /\ mlock' = NoTx
    /\ Goto(t, "checking")
    /\ UNCHANGED <<files, item, env, pre, faults>>

\* Mutant of UpdateRaises: the mutation lock is not released.
UpdateRaisesLocked(t) ==
    /\ pc[t] = "installing"
    /\ \E c \in Contents, l \in Versions \cup {Down} : Leaves(Plugin(t), c, l)
    /\ Goto(t, "except")
    /\ UNCHANGED <<files, item, mlock, env, pre, faults>>

\* The core raises, or returns with the plugin not loaded, having done nothing,
\* half of it, or everything and more: any version may be loaded or none.
UpdateRaises(t) ==
    /\ pc[t] = "installing"
    /\ \E c \in Contents, l \in Versions \cup {Down} : Leaves(Plugin(t), c, l)
    /\ mlock' = NoTx
    /\ Goto(t, "except")
    /\ UNCHANGED <<files, item, env, pre, faults>>

\* A snapshot passes for version v, or for another one.
Passes(p, v) == Snapshot(p).version \in {v, Torn}
Differs(p, v) == Snapshot(p).version # v
SameActive(t) == Snapshot(Plugin(t)).active = item[t].active

\* Mutants of HealthLooks: the version, or the activation, is not compared.
HealthSkipsVersion(t, at, expected, ok, failed) ==
    \/ Move(t, at, ok) /\ SameActive(t)
    \/ Move(t, at, failed) /\ ~SameActive(t)
HealthSkipsActivation(t, at, expected, ok, failed) ==
    \/ Move(t, at, ok) /\ Passes(Plugin(t), expected)
    \/ Move(t, at, failed) /\ Differs(Plugin(t), expected)

\* HealthChecker.check reads the core's snapshot, loaded or not, and compares
\* version and activation; it then awaits the plugin's own health contract.
HealthLooks(t, at, expected, ok, failed) ==
    \/ Move(t, at, ok) /\ Passes(Plugin(t), expected) /\ SameActive(t)
    \/ Move(t, at, failed) /\ (Differs(Plugin(t), expected) \/ ~SameActive(t))

HealthCheck(t) == HealthLooks(t, "checking", item[t].to, "probing", "except")
\* The contract may answer that the plugin is not well.
HealthAnswer(t) == Move(t, "probing", "healthy") \/ Move(t, "probing", "except")

RecordHealthy(t) == RecordStep(t, "healthy", "HEALTHY", "commit", "except")
RecordCommitted(t) == RecordStep(t, "commit", "COMMITTED", "done", "except")

\* The except clause of execute(): without a backup the transaction is over.
RecordFailed(t) ==
    RecordStep(t, "except", "FAILED",
               IF mtime[t] = 0 THEN "done" ELSE "rolling", "raised")

---------------------------------------------------------------------------
(* rollback(), shared by execute() and manual_rollback()                   *)

RecordRollingBack(t) == RecordStep(t, "rolling", "ROLLING_BACK", "verify", "raised")

\* The manifest and the digests of the backup are read first, and may not match.
VerifyBackup(t) ==
    \/ Move(t, "verify", "terminating") /\ bak[item[t].orig] # NoBackup
    \/ Move(t, "verify", "rbexcept")

\* terminate_plugin returns (a core without such a method leaves it loaded) or
\* raises, with the plugin unloaded or not.
Terminate(t) ==
    /\ pc[t] = "terminating"
    /\ \E l \in {live[Plugin(t)], Down} : live' = [live EXCEPT ![Plugin(t)] = l]
    /\ \E where \in {"restoring", "rbexcept"} : Goto(t, where)
    /\ UNCHANGED <<disk, active, files, item, mlock, env, pre, faults>>

\* os.replace of the directory to failed/ and copytree of the backup.
Restore(t) ==
    /\ pc[t] = "restoring"
    /\ bak[item[t].orig] # NoBackup
    /\ disk' = [disk EXCEPT ![Plugin(t)] = bak[item[t].orig]]
    /\ Goto(t, "reloading")
    /\ UNCHANGED <<live, active, files, item, mlock, env, pre, faults>>

\* Either raises: the directory is untouched, gone or half copied.
RestoreRaises(t) ==
    /\ pc[t] = "restoring"
    /\ \E c \in {disk[Plugin(t)], Missing, Torn} :
          disk' = [disk EXCEPT ![Plugin(t)] = c]
    /\ Goto(t, "rbexcept")
    /\ UNCHANGED <<live, active, files, item, mlock, env, pre, faults>>

\* Mutant of Reload: what the core answers is taken for the plugin's version.
ReloadUnchecked(t) ==
    /\ pc[t] = "reloading"
    /\ Leaves(Plugin(t), disk[Plugin(t)], disk[Plugin(t)])
    /\ Goto(t, "rbchecking")
    /\ UNCHANGED <<files, item, mlock, env, pre, faults>>

\* reload_plugin: the core has loaded what the directory holds, or nothing, or
\* has left what was loaded; it returns or raises, and nobody looks which.
Reload(t) ==
    /\ pc[t] = "reloading"
    /\ \E l \in {live[Plugin(t)], Down} \cup ({disk[Plugin(t)]} \cap Versions) :
          Leaves(Plugin(t), disk[Plugin(t)], l)
    /\ \E where \in {"rbchecking", "rbexcept"} : Goto(t, where)
    /\ UNCHANGED <<files, item, mlock, env, pre, faults>>

\* Mutant of RollbackCheck: whatever was restored counts as the old version.
RollbackUnchecked(t) == Move(t, "rbchecking", "rbprobing")

RollbackCheck(t) == HealthLooks(t, "rbchecking", item[t].from, "rbprobing", "rbexcept")
RollbackAnswer(t) == Move(t, "rbprobing", "restored") \/ Move(t, "rbprobing", "rbexcept")

RecordRolledBack(t) == RecordStep(t, "restored", "ROLLED_BACK", "done", "rbexcept")
RecordRollbackFailed(t) ==
    RecordStep(t, "rbexcept", "ROLLBACK_FAILED", "done", "raised")

---------------------------------------------------------------------------
(* manual_rollback() of a committed transaction                            *)

\* Only a COMMITTED record is accepted; its item names the versions.
ManualStart(t, o) ==
    /\ pc[t] = "idle"
    /\ rec[o] = "COMMITTED"
    /\ item' = [item EXCEPT ![t] = [item[o] EXCEPT !.orig = o]]
    /\ pre' = [pre EXCEPT ![t] = disk[item[o].plugin]]
    /\ Goto(t, "selecting")
    /\ UNCHANGED <<world, files, mlock, env, faults>>

\* The plugin, loaded or not, must still be at the version the transaction installed.
ManualSelect(t) ==
    \/ Move(t, "selecting", "rolling") /\ Passes(Plugin(t), item[t].to)
    \/ Move(t, "selecting", "raised") /\ Differs(Plugin(t), item[t].to)

---------------------------------------------------------------------------
(* cleanup(), death and restart of the process                             *)

\* max(1, keep_success)
Kept == IF Keep > 1 THEN Keep ELSE 1

\* Mutant of Protected: the backups are sorted the other way round.
ProtectOldest(t) == Cardinality({u \in Backups(Plugin(t)) : mtime[u] < mtime[t]}) < Kept

\* The newest backups of every plugin are protected, by number.
Protected(t) == Cardinality({u \in Backups(Plugin(t)) : mtime[u] > mtime[t]}) < Kept

\* Oldest first, the unprotected backups go as long as they are too old or the
\* total exceeds the capacity: those made up to some moment k, if any.
CleanupUpTo(k) ==
    bak' = [t \in Txs |-> IF bak[t] # NoBackup /\ mtime[t] <= k /\ ~Protected(t)
                          THEN NoBackup ELSE bak[t]]

\* initialize() of a plugin instance cleans up, whatever another one is doing.
AllSuspended == \A t \in Txs : pc[t] \in Suspended

Cleanup ==
    /\ up /\ AllSuspended
    /\ \E k \in 0..Cardinality(Txs) : CleanupUpTo(k)
    /\ UNCHANGED <<world, rec, mtime, item, pc, mlock, env, pre, faults>>

\* What a death in the middle of t can leave in its plugin's directory.
DiskAfterDeath(t) ==
    CASE pc[t] = "installing" -> Contents
      [] pc[t] = "restoring" -> {disk[Plugin(t)], Torn, Missing}
      [] OTHER -> {disk[Plugin(t)]}

\* The core is at work on the plugin, its activation included.
InCore(p) == \E t \in Txs : pc[t] \in {"installing", "reloading"} /\ Plugin(t) = p

Crash ==
    /\ up /\ crashes < MaxCrashes
    /\ up' = FALSE
    /\ crashes' = crashes + 1
    /\ disk' \in [Plugins -> Contents]
    /\ \A p \in Plugins :
          \/ disk'[p] = disk[p]
          \/ \E t \in Txs : Busy(t) /\ Plugin(t) = p /\ disk'[p] \in DiskAfterDeath(t)
    /\ active' \in [Plugins -> BOOLEAN]
    /\ \A p \in Plugins : active'[p] = active[p] \/ InCore(p)
    /\ pc' = [t \in Txs |-> IF Busy(t) THEN "dead" ELSE pc[t]]
    /\ mlock' = NoTx
    /\ UNCHANGED <<live, files, item, pre, faults>>

\* Mutant of Recovered: a transaction found HEALTHY is taken for finished.
RecoveredTrustsHealthy ==
    [t \in Txs |-> IF rec[t] \in TERMINAL \cup {NoRecord, "HEALTHY"} THEN rec[t] ELSE "INTERRUPTED"]

\* recover_interrupted marks every record that is not in a terminal state.
Recovered ==
    [t \in Txs |-> IF rec[t] \in TERMINAL \cup {NoRecord} THEN rec[t] ELSE "INTERRUPTED"]

\* The process is started again: the core loads what is on disk, where it can,
\* and the new coordinator recovers.
Restart ==
    /\ ~up
    /\ up' = TRUE
    /\ live' \in [Plugins -> Versions \cup {Down}]
    /\ \A p \in Plugins : live'[p] \in {disk[p], Down}
    /\ rec' = Recovered
    /\ UNCHANGED <<disk, active, bak, mtime, item, pc, mlock, pre, faults, crashes>>

\* A hot reload of this plugin makes a new instance, which recovers although a
\* task of the old one may still be in a transaction.
Recover ==
    /\ up /\ AllSuspended
    /\ rec' = Recovered
    /\ UNCHANGED <<world, bak, mtime, item, pc, mlock, env, pre, faults>>

---------------------------------------------------------------------------
ExecuteStep(t) ==
    \/ Backup(t) \/ BackupFails(t) \/ RecordBackedUp(t) \/ RecordRunning(t)
    \/ UpdateBegin(t) \/ UpdateReturns(t) \/ UpdateRaises(t)
    \/ HealthCheck(t) \/ HealthAnswer(t) \/ RecordHealthy(t) \/ RecordCommitted(t)
    \/ RecordFailed(t)

RollbackStep(t) ==
    \/ RecordRollingBack(t) \/ VerifyBackup(t) \/ Terminate(t) \/ Restore(t)
    \/ RestoreRaises(t) \/ Reload(t) \/ RollbackCheck(t) \/ RollbackAnswer(t)
    \/ RecordRolledBack(t) \/ RecordRollbackFailed(t)

TxStep(t) == up /\ (ExecuteStep(t) \/ ManualSelect(t) \/ RollbackStep(t))

\* planner.validate has just seen the plugin loaded, at the version the plan
\* was frozen with.
FreshItems(t) ==
    {it \in PlanItem : /\ it.from = live[it.plugin] /\ it.to # it.from
                       /\ it.active = active[it.plugin] /\ it.orig = t}

AllResting == \A t \in Txs : ~Busy(t)

\* One transaction at a time.
StartAny ==
    /\ up /\ AllResting
    /\ \E t \in Txs : \/ \E it \in FreshItems(t) : Start(t, it)
                      \/ \E o \in Txs : ManualStart(t, o)

Next ==
    \/ StartAny
    \/ \E t \in Txs : TxStep(t)
    \/ Cleanup \/ Recover
    \/ Crash \/ Restart

Spec == Init /\ [][Next]_vars

\* The event loop keeps running the task and the core's calls return; a dead
\* process is started again.
FairSpec == Spec /\ WF_vars(Restart) /\ \A t \in Txs : WF_vars(TxStep(t))

---------------------------------------------------------------------------
Ends(t) == Busy(t) /\ pc'[t] = "done"

\* COMMITTED: the new version is in the directory and loaded.  ROLLED_BACK: the
\* directory holds again what it held when the update began, and the old version
\* is loaded, unless the plugin was disabled: the core may then have loaded
\* nothing.  FAILED: the directory is as it was.
EndedWell(t) ==
    LET p == Plugin(t) IN
    CASE rec'[t] = "COMMITTED" -> disk[p] = item[t].to /\ live[p] = item[t].to
      [] rec'[t] = "ROLLED_BACK" ->
            /\ disk[p] = pre[item[t].orig]
            /\ \/ live[p] = item[t].from
               \/ live[p] = Down /\ ~item[t].active /\ disk[p] \in {item[t].from, Torn}
      [] rec'[t] = "FAILED" -> disk[p] = pre[t]
      [] OTHER -> rec'[t] = "ROLLBACK_FAILED"

\* A transaction ends with the new version healthy, the old one back or an
\* explicit ROLLBACK_FAILED, and never records a success with an enabled plugin
\* that is not loaded (docs/AI开发提示词.md:104).  A core that raises, or reloads,
\* may have done anything; of one that returns from an update it is taken for
\* granted that what it loaded is what the directory holds (UpdateReturns).
EndsWell == [][\A t \in Txs : Ends(t) => EndedWell(t)]_vars

\* No update makes the core keep a plugin enabled that was disabled, or the
\* reverse, and still commits (docs/AI开发提示词.md:81): what a core did to the
\* activation on the way, even one that raised, is noticed before the end.
ActivationKept ==
    [][\A t \in Txs : Ends(t) /\ rec'[t] \in {"COMMITTED", "ROLLED_BACK"}
          => SameActive(t)]_vars

\* Once an update touches the directory, what it held is in the backup of that
\* update until a later one is over: the way back exists before the way forward.
Touched(t) == pc[t] \in {"installing", "checking", "probing", "healthy", "commit",
                         "rolling", "verify", "terminating", "restoring"}
BackupBeforeChange ==
    \A t \in Txs : Touched(t) /\ ~Manual(t) => bak[t] = pre[t]

\* After a restart no record says that a transaction is still going on unless
\* its task is: recover_interrupted leaves nothing behind.  (A write that fails
\* may strand a record until the next restart.)
NoOrphanRecord ==
    up /\ faults = 0 =>
        \A t \in Txs : ~Busy(t) => rec[t] \in TERMINAL \cup {"FAILED", "INTERRUPTED", NoRecord}

\* The last backups made of a plugin, as many as are to be kept, are there and
\* hold what its directory held when their transactions began: whatever failed
\* or was cleaned up meanwhile, retention takes no undo that it promises.
Newer(t) == {u \in Txs : mtime[u] > mtime[t] /\ item[u].plugin = item[t].plugin}
UndoKept == \A t \in Txs : mtime[t] > 0 /\ Cardinality(Newer(t)) < Kept => bak[t] = pre[t]

\* Every plugin whose directory is not a whole version has a backup that is:
\* "the only recovery point is never deleted" (docs/AI开发提示词.md:94).
RecoveryPointKept ==
    \A p \in Plugins : disk[p] \notin Versions => \E t \in Backups(p) : bak[t] \in Versions

---------------------------------------------------------------------------
\* The abstract version of a plugin is what its directory held when the
\* transaction that is now working on it began.
Version == [p \in Plugins |->
    IF \E t \in Txs : Busy(t) /\ Plugin(t) = p
    THEN pre[CHOOSE t \in Txs : Busy(t) /\ Plugin(t) = p]
    ELSE disk[p]]

\* How a transaction ended, as its record tells; recover_interrupted relabels
\* the record of one that failed before its backup.
Outcome == [t \in Txs |->
    CASE pc[t] = "idle" -> "none"
      [] Busy(t) -> "open"
      [] pc[t] = "done" -> IF rec[t] = "INTERRUPTED" THEN "FAILED" ELSE rec[t]
      [] OTHER -> "lost"]

Atomic == INSTANCE AtomicUpdate
    WITH version <- Version, job <- item, before <- pre, outcome <- Outcome

\* A transaction run by the coordinator is atomic and isolated: it implements
\* AtomicUpdate, with crashes, failing writes and any behaviour of the core.
AtomicSpec == Atomic!Spec

\* Every transaction that starts comes to rest.
EveryTxEnds == \A t \in Txs : Busy(t) ~> ~Busy(t)
=============================================================================
