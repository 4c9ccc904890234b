---------------------- MODULE PluginTransactionProofs ----------------------
(***************************************************************************)
(* Type correctness of PluginTransaction; how transactions end (EndsWell)  *)
(* and that they leave a plugin as enabled as it was (ActivationKept);     *)
(* what backups hold, while an update works on its plugin                  *)
(* (BackupBeforeChange) and afterwards (UndoKept); that no record is left  *)
(* behind (NoOrphanRecord); and that transactions implement AtomicUpdate.  *)
(* All for every set of plugins, versions and transactions, every          *)
(* retention and every number of faults and deaths.                        *)
(***************************************************************************)
EXTENDS PluginTransaction, FiniteSetTheorems, TLAPS

\* A step that only writes the record of t keeps the types.
LEMMA RecordStepType ==
  ASSUME TypeOK, NEW t \in Txs, NEW at \in PCs \ {"idle"}, NEW state \in TxState,
         NEW ok \in PCs, NEW failed \in PCs,
         RecordStep(t, at, state, ok, failed)
  PROVE  TypeOK'
<1>1. pc' \in [Txs -> PCs] /\ \A u \in Txs : pc'[u] # "idle" => pc[u] # "idle"
  BY DEF RecordStep, Record, Goto, TypeOK
<1>2. /\ rec' \in [Txs -> TxState \cup {NoRecord}] /\ faults' \in 0..MaxFaults
      /\ \A u \in Txs : rec'[u] # NoRecord => rec[u] # NoRecord \/ u = t
  BY TxAssumption DEF RecordStep, Record, TypeOK
<1>3. pc[t] # "idle"
  BY DEF RecordStep
<1> QED
  BY <1>1, <1>2, <1>3 DEF RecordStep, world, env, TypeOK

\* A step that only moves t keeps the types.
LEMMA MoveType ==
  ASSUME TypeOK, NEW t \in Txs, NEW at \in PCs \ {"idle"}, NEW to \in PCs, Move(t, at, to)
  PROVE  TypeOK'
<1>1. pc' \in [Txs -> PCs] /\ \A u \in Txs : pc'[u] # "idle" => pc[u] # "idle"
  BY DEF Move, Goto, TypeOK
<1> QED
  BY <1>1 DEF Move, world, files, env, TypeOK

\* The backups are numbered from 1.
LEMMA NowNat == Now \in Nat \ {0}
<1>1. IsFiniteSet({t \in Txs : mtime[t] > 0})
  BY TxAssumption, FS_Subset
<1> QED
  BY <1>1, FS_CardinalityType DEF Now

\* The type invariant of a single transaction's step.
LEMMA TxStepType == ASSUME TypeOK, NEW t \in Txs, TxStep(t) PROVE TypeOK'
<1> USE DEF PCs, Suspended, Resting, TxState, TERMINAL
<1>0. pc[t] # "idle" => item[t] \in PlanItem
  BY DEF TypeOK
<1>1. CASE Backup(t)
  <2>1. bak' \in [Txs -> Contents \cup {NoBackup}] /\ mtime' \in [Txs -> Nat]
    BY <1>1, <1>0, NowNat DEF Backup, Plugin, TypeOK, PlanItem
  <2> QED
    BY <1>1, <2>1 DEF Backup, Goto, TypeOK, world, env
<1>2. CASE BackupFails(t)
  BY <1>2, MoveType DEF BackupFails
<1>3. CASE RecordBackedUp(t) \/ RecordRunning(t) \/ RecordHealthy(t) \/ RecordCommitted(t)
  BY <1>3, RecordStepType DEF RecordBackedUp, RecordRunning, RecordHealthy, RecordCommitted
<1>4. CASE RecordFailed(t)
  BY <1>4, RecordStepType DEF RecordFailed
<1>5. CASE UpdateBegin(t)
  BY <1>5 DEF UpdateBegin, Goto, TypeOK, world, files, env
<1>6. CASE UpdateReturns(t)
  BY <1>6, <1>0 DEF UpdateReturns, Leaves, Goto, Plugin, TypeOK, PlanItem, Contents, files, env
<1>7. CASE UpdateRaises(t)
  BY <1>7, <1>0 DEF UpdateRaises, Leaves, Goto, Plugin, TypeOK, PlanItem, Contents, files, env
<1>8. CASE HealthCheck(t) \/ HealthAnswer(t) \/ RollbackCheck(t) \/ RollbackAnswer(t)
  BY <1>8, MoveType DEF HealthCheck, HealthAnswer, RollbackCheck, RollbackAnswer, HealthLooks
<1>9. CASE RecordRollingBack(t) \/ RecordRolledBack(t) \/ RecordRollbackFailed(t)
  BY <1>9, RecordStepType DEF RecordRollingBack, RecordRolledBack, RecordRollbackFailed
<1>10. CASE VerifyBackup(t) \/ ManualSelect(t)
  BY <1>10, MoveType DEF VerifyBackup, ManualSelect
<1>11. CASE Terminate(t)
  BY <1>11, <1>0 DEF Terminate, Goto, Plugin, TypeOK, PlanItem, files, env
<1>12. CASE Restore(t)
  BY <1>12, <1>0 DEF Restore, Goto, Plugin, TypeOK, PlanItem, Contents, files, env
<1>13. CASE RestoreRaises(t)
  BY <1>13, <1>0 DEF RestoreRaises, Goto, Plugin, TypeOK, PlanItem, Contents, files, env
<1>14. CASE Reload(t)
  BY <1>14, <1>0 DEF Reload, Leaves, Goto, Plugin, TypeOK, PlanItem, files, env
<1> QED
  BY <1>1, <1>2, <1>3, <1>4, <1>5, <1>6, <1>7, <1>8, <1>9, <1>10, <1>11, <1>12, <1>13, <1>14
  DEF TxStep, ExecuteStep, RollbackStep

\* The start of an update on any plan item keeps the types.
LEMMA StartType ==
  ASSUME TypeOK, NEW t \in Txs, NEW it \in PlanItem, Start(t, it)
  PROVE  TypeOK'
<1> USE DEF PCs, Suspended, Resting, TxState, TERMINAL
<1>1. pc' \in [Txs -> PCs] /\ \A u \in Txs : u # t => pc'[u] = pc[u]
  BY DEF Start, Record, Goto, TypeOK
<1>2. /\ rec' \in [Txs -> TxState \cup {NoRecord}] /\ faults' \in 0..MaxFaults
      /\ \A u \in Txs : u # t => rec'[u] = rec[u]
  BY TxAssumption DEF Start, Record, TypeOK
<1>3. item' \in [Txs -> PlanItem \cup {NoItem}] /\ item'[t] = it
  BY DEF Start, TypeOK
<1>4. pre' \in [Txs -> Contents \cup {NoBackup}]
  BY DEF Start, TypeOK, PlanItem
<1>5. \A u \in Txs : pc'[u] # "idle" \/ rec'[u] # NoRecord => item'[u] \in PlanItem
  BY <1>1, <1>2, <1>3 DEF Start, TypeOK
<1> QED
  BY <1>1, <1>2, <1>3, <1>4, <1>5 DEF Start, TypeOK, world, env

\* So does the start of a manual rollback.
LEMMA ManualStartType ==
  ASSUME TypeOK, NEW t \in Txs, NEW o \in Txs, ManualStart(t, o)
  PROVE  TypeOK'
<1> USE DEF PCs, Suspended, Resting, TxState, TERMINAL
<1>1. item[o] \in PlanItem
  BY RecordAssumption DEF ManualStart, TypeOK
<1>2. [item[o] EXCEPT !.orig = o] \in PlanItem
  BY <1>1 DEF PlanItem
<1>3. item' \in [Txs -> PlanItem \cup {NoItem}] /\ item'[t] \in PlanItem
  BY <1>2 DEF ManualStart, TypeOK
<1>4. pre' \in [Txs -> Contents \cup {NoBackup}]
  BY <1>1 DEF ManualStart, TypeOK, PlanItem
<1> QED
  BY <1>3, <1>4 DEF ManualStart, Goto, TypeOK, world, files, env

\* Every step keeps the types.
LEMMA NextType == TypeOK /\ [Next]_vars => TypeOK'
<1> SUFFICES ASSUME TypeOK, [Next]_vars PROVE TypeOK'
  OBVIOUS
<1> USE DEF PCs, Suspended, Resting, TxState, TERMINAL
<1>1. ASSUME NEW t \in Txs, NEW it \in FreshItems(t), Start(t, it) PROVE TypeOK'
  BY <1>1, StartType DEF FreshItems
<1>2. ASSUME NEW t \in Txs, NEW o \in Txs, ManualStart(t, o) PROVE TypeOK'
  BY <1>2, ManualStartType
<1>3. CASE Cleanup \/ Recover
  BY <1>3 DEF Cleanup, CleanupUpTo, Recover, Recovered, TypeOK, world, env
<1>4. CASE Crash
  <2>1. pc' \in [Txs -> PCs] /\ \A u \in Txs : pc'[u] # "idle" => pc[u] # "idle"
    BY <1>4 DEF Crash, Busy, TypeOK
  <2>2. crashes' \in 0..MaxCrashes
    BY <1>4, TxAssumption DEF Crash, TypeOK
  <2> QED
    BY <1>4, <2>1, <2>2 DEF Crash, TypeOK, files
<1>5. CASE Restart
  BY <1>5 DEF Restart, Recovered, TypeOK
<1>6. CASE UNCHANGED vars
  BY <1>6 DEF vars, TypeOK
<1> QED
  BY <1>1, <1>2, <1>3, <1>4, <1>5, <1>6, TxStepType DEF Next, StartAny

\* The types of PluginTransaction are right in every reachable state.
THEOREM Typing == Spec => []TypeOK
<1>1. Init => TypeOK
  BY TxAssumption DEF Init, TypeOK, PCs, Suspended, Resting, Contents
<1> QED
  BY <1>1, NextType, PTL DEF Spec

---------------------------------------------------------------------------
(* How a transaction ends.                                                 *)

\* What execute() and rollback() know at each of their steps about the plugin
\* they work on, because no one else touches it.  A backup holds what the
\* directory held when its update began, and before that backup it is as found.
\* Until the core is called the old version is loaded; when it returns, the
\* directory holds what is loaded unless that is still the old version; past the
\* look of the health check it is the version expected.  A rollback puts the
\* directory back, and past its own look the old version is loaded, or nothing
\* is and the plugin was disabled.
Stage(t) ==
    LET p == item[t].plugin IN
    /\ pc[t] = "idle" => mtime[t] = 0
    /\ bak[t] # NoBackup => mtime[t] # 0 /\ bak[t] = pre[t]
    /\ (pc[t] = "locked" \/ (pc[t] = "except" /\ mtime[t] = 0)) => disk[p] = pre[t]
    /\ pc[t] = "locked" => mtime[t] = 0
    /\ pc[t] \in {"backed", "ready", "queued", "installing", "checking", "probing", "healthy", "commit"}
          => mtime[t] # 0
    /\ pc[t] \in {"locked", "backed", "ready", "queued", "installing"}
          => live[p] = item[t].from /\ item[t].from # item[t].to
    /\ pc[t] = "checking" => live[p] \in Versions /\ (disk[p] = live[p] \/ live[p] # item[t].to)
    /\ pc[t] \in {"probing", "healthy", "commit"}
          => disk[p] = item[t].to /\ live[p] = item[t].to
    /\ pc[t] \in {"reloading", "rbchecking", "rbprobing", "restored"}
          => disk[p] = pre[item[t].orig]
    /\ pc[t] \in {"rbprobing", "restored"}
          => \/ live[p] = item[t].from
             \/ live[p] = Down /\ ~item[t].active /\ disk[p] \in {item[t].from, Torn}

OneBusy == \A t, u \in Txs : Busy(t) /\ Busy(u) => t = u

SerialInv == OneBusy /\ (~up => AllResting) /\ \A t \in Txs : Stage(t)

\* A step of t only starts from a state in which t is busy, and moves nothing
\* that another transaction's stage depends on while that one rests.
LEMMA StepFrame ==
  ASSUME TypeOK, NEW t \in Txs, TxStep(t)
  PROVE  /\ Busy(t) /\ up /\ up'
         /\ \A u \in Txs \ {t} : pc'[u] = pc[u] /\ mtime'[u] = mtime[u]
<1> USE DEF Busy, Resting, TypeOK, Goto, files, env
<1>1. CASE ExecuteStep(t)
  BY <1>1 DEF TxStep, ExecuteStep, Backup, BackupFails, RecordBackedUp, RecordRunning,
     UpdateBegin, UpdateReturns, UpdateRaises, HealthCheck, HealthAnswer, HealthLooks,
     RecordHealthy, RecordCommitted, RecordFailed, RecordStep, Record, Move
<1>2. CASE ManualSelect(t)
  BY <1>2 DEF TxStep, ManualSelect, Move
<1>3. CASE RollbackStep(t)
  BY <1>3 DEF TxStep, RollbackStep, RecordRollingBack, VerifyBackup, Terminate, Restore,
     RestoreRaises, Reload, Leaves, RollbackCheck, RollbackAnswer, HealthLooks, RecordRolledBack,
     RecordRollbackFailed, RecordStep, Record, Move
<1> QED
  BY <1>1, <1>2, <1>3 DEF TxStep

\* A step of t keeps t's item and its past, and the records and the backups of
\* the others.
LEMMA StepKeeps ==
  ASSUME TypeOK, NEW t \in Txs, TxStep(t)
  PROVE  /\ item' = item /\ pre' = pre
         /\ \A u \in Txs \ {t} : rec'[u] = rec[u] /\ bak'[u] = bak[u]
         /\ Backup(t) \/ (bak' = bak /\ mtime' = mtime /\ Now' = Now)
<1> USE DEF TypeOK, files, env, Now
<1>1. CASE ExecuteStep(t)
  BY <1>1 DEF ExecuteStep, Backup, BackupFails, RecordBackedUp, RecordRunning,
     UpdateBegin, UpdateReturns, UpdateRaises, HealthCheck, HealthAnswer, HealthLooks,
     RecordHealthy, RecordCommitted, RecordFailed, RecordStep, Record, Move
<1>2. CASE ManualSelect(t)
  BY <1>2 DEF ManualSelect, Move
<1>3. CASE RollbackStep(t)
  BY <1>3 DEF RollbackStep, RecordRollingBack, VerifyBackup, Terminate, Restore,
     RestoreRaises, Reload, Leaves, RollbackCheck, RollbackAnswer, HealthLooks, RecordRolledBack,
     RecordRollbackFailed, RecordStep, Record, Move
<1> QED
  BY <1>1, <1>2, <1>3 DEF TxStep

\* What the looks of the two health checks tell of the plugin.
LEMMA LookTells ==
  ASSUME TypeOK, NEW t \in Txs, item[t] \in PlanItem, NEW v \in Versions,
         Passes(Plugin(t), v), SameActive(t)
  PROVE  \/ live[Plugin(t)] = v
         \/ live[Plugin(t)] = Down /\ ~item[t].active /\ disk[Plugin(t)] \in {v, Torn}
<1>1. v # Torn /\ v # Down /\ (live[Plugin(t)] # Down => live[Plugin(t)] # Torn)
  BY TxAssumption DEF TypeOK, Plugin, PlanItem
<1>2. CASE live[Plugin(t)] # Down
  BY <1>1, <1>2 DEF Passes, Snapshot
<1>3. CASE live[Plugin(t)] = Down
  <2>1. disk[Plugin(t)] \in {v, Torn}
    BY <1>3 DEF Passes, Snapshot
  <2>2. Snapshot(Plugin(t)).active = FALSE
    BY <1>3 DEF Snapshot
  <2>3. ~item[t].active
    BY <2>2 DEF SameActive
  <2> QED
    BY <1>3, <2>1, <2>3
<1> QED
  BY <1>2, <1>3

\* Each step of t establishes what the next one relies on.
LEMMA StepStage ==
  ASSUME TypeOK, NEW t \in Txs, \A u \in Txs : Stage(u), TxStep(t)
  PROVE  Stage(t)'
<1> USE DEF TypeOK, Goto, files, env, world, Plugin
<1>0. item[t] \in PlanItem /\ item[t].plugin \in Plugins /\ item[t].orig \in Txs
      /\ item[t].to \in Versions /\ item[t].from \in Versions /\ Stage(t)
  BY StepFrame DEF Busy, Resting, PlanItem
<1>1. CASE Backup(t)
  BY <1>1, <1>0, NowNat DEF Backup, Stage
<1>2. CASE BackupFails(t) \/ RecordBackedUp(t) \/ RecordRunning(t) \/ RecordHealthy(t)
           \/ RecordCommitted(t) \/ RecordFailed(t)
  BY <1>2, <1>0 DEF BackupFails, RecordBackedUp, RecordRunning, RecordHealthy,
     RecordCommitted, RecordFailed, RecordStep, Record, Move, Stage
<1>3. CASE UpdateBegin(t)
  BY <1>3, <1>0 DEF UpdateBegin, Stage
<1>4. CASE UpdateReturns(t) \/ UpdateRaises(t)
  BY <1>4, <1>0, TxAssumption DEF UpdateReturns, UpdateRaises, Leaves, Stage
<1>5. CASE HealthCheck(t)
  <2>1. live[item[t].plugin] \in Versions /\ live[item[t].plugin] # Down
    BY <1>5, <1>0, TxAssumption DEF HealthCheck, HealthLooks, Move, Stage
  <2>2. Passes(Plugin(t), item[t].to) /\ SameActive(t) => live[item[t].plugin] = item[t].to
    BY <2>1, <1>0, LookTells
  <2> QED
    BY <1>5, <1>0, <2>2 DEF HealthCheck, HealthLooks, Move, Stage
<1>6. CASE RollbackCheck(t)
  <2>1. Passes(Plugin(t), item[t].from) /\ SameActive(t) =>
           LET p == item[t].plugin IN
           \/ live[p] = item[t].from
           \/ live[p] = Down /\ ~item[t].active /\ disk[p] \in {item[t].from, Torn}
    BY <1>0, LookTells
  <2> QED
    BY <1>6, <1>0, <2>1 DEF RollbackCheck, HealthLooks, Move, Stage
<1>7. CASE HealthAnswer(t) \/ RollbackAnswer(t)
  BY <1>7, <1>0 DEF HealthAnswer, RollbackAnswer, Move, Stage
<1>8. CASE RecordRollingBack(t) \/ RecordRolledBack(t) \/ RecordRollbackFailed(t)
           \/ VerifyBackup(t) \/ ManualSelect(t)
  BY <1>8, <1>0 DEF RecordRollingBack, RecordRolledBack, RecordRollbackFailed,
     VerifyBackup, ManualSelect, RecordStep, Record, Move, Stage
<1>9. CASE Terminate(t) \/ RestoreRaises(t) \/ Reload(t)
  BY <1>9, <1>0 DEF Terminate, RestoreRaises, Reload, Leaves, Stage
<1>10. CASE Restore(t)
  <2>1. bak[item[t].orig] = pre[item[t].orig]
    BY <1>0, <1>10 DEF Restore, Stage
  <2> QED
    BY <1>10, <1>0, <2>1 DEF Restore, Stage
<1> QED
  BY <1>1, <1>2, <1>3, <1>4, <1>5, <1>6, <1>7, <1>8, <1>9, <1>10
  DEF TxStep, ExecuteStep, RollbackStep

\* One transaction works at a time, and each stage knows what it needs.
LEMMA SerialStep == TypeOK /\ SerialInv /\ [Next]_vars => SerialInv'
<1> SUFFICES ASSUME TypeOK, SerialInv, [Next]_vars PROVE SerialInv'
  OBVIOUS
<1> USE DEF SerialInv, OneBusy, AllResting, Busy, Resting
<1>1. ASSUME NEW t \in Txs, TxStep(t) PROVE SerialInv'
  <2>1. \A u \in Txs \ {t} : /\ pc'[u] = pc[u] /\ pc[u] \in Resting /\ mtime'[u] = mtime[u]
                             /\ bak'[u] = bak[u] /\ pre'[u] = pre[u]
    BY <1>1, StepFrame, StepKeeps
  <2>2. \A u \in Txs \ {t} : Stage(u)'
    BY <2>1 DEF Stage
  <2> QED
    BY <1>1, <2>1, <2>2, StepFrame, StepStage
<1>2. ASSUME StartAny PROVE SerialInv'
  <2>1. PICK t \in Txs : (\E it \in FreshItems(t) : Start(t, it)) \/ \E o \in Txs : ManualStart(t, o)
    BY <1>2 DEF StartAny
  <2>2. \A u \in Txs \ {t} : /\ pc'[u] = pc[u] /\ pc[u] \in Resting /\ mtime'[u] = mtime[u]
                             /\ bak'[u] = bak[u] /\ pre'[u] = pre[u]
    BY <1>2, <2>1 DEF StartAny, Start, ManualStart, Record, Goto, TypeOK, files
  <2>3. up'
    BY <1>2, <2>1 DEF StartAny, Start, ManualStart, env
  <2>4. \A u \in Txs \ {t} : Stage(u)'
    BY <2>2 DEF Stage
  <2>5. Stage(t)'
    <3>1. CASE \E o \in Txs : ManualStart(t, o)
      BY <3>1 DEF ManualStart, Goto, TypeOK, Stage, files
    <3>2. CASE \E it \in FreshItems(t) : Start(t, it)
      <4>1. PICK it \in FreshItems(t) : Start(t, it)
        BY <3>2
      <4>2. item'[t] = it /\ pre'[t] = disk[it.plugin] /\ pc[t] = "idle" /\ bak' = bak
            /\ disk' = disk /\ live' = live /\ mtime' = mtime /\ pc'[t] \in {"locked", "raised"}
        BY <4>1 DEF Start, Record, Goto, TypeOK, world
      <4>3. it.from = live[it.plugin] /\ it.to # it.from
        BY DEF FreshItems
      <4> QED
        BY <4>2, <4>3 DEF Stage
    <3> QED
      BY <2>1, <3>1, <3>2
  <2> QED
    BY <2>2, <2>3, <2>4, <2>5
<1>3. ASSUME Cleanup \/ Recover PROVE SerialInv'
  BY <1>3 DEF Cleanup, CleanupUpTo, Recover, Stage, world, env
<1>4. ASSUME Crash PROVE SerialInv'
  <2>1. \A u \in Txs : pc'[u] \in Resting /\ (pc'[u] = "idle" => pc[u] = "idle") /\ mtime'[u] = mtime[u]
                     /\ bak'[u] = bak[u] /\ pre'[u] = pre[u]
    BY <1>4 DEF Crash, files, TypeOK
  <2>2. \A u \in Txs : Stage(u)'
    BY <2>1 DEF Stage
  <2> QED
    BY <2>1, <2>2
<1>5. ASSUME Restart PROVE SerialInv'
  BY <1>5 DEF Restart, Stage
<1>6. ASSUME UNCHANGED vars PROVE SerialInv'
  BY <1>6 DEF vars, Stage
<1> QED
  BY <1>1, <1>2, <1>3, <1>4, <1>5, <1>6 DEF Next

\* A transaction ends with one of four records.
LEMMA EndingStep ==
  ASSUME TypeOK, SerialInv, [Next]_vars, NEW t \in Txs, Ends(t)
  PROVE  /\ RecordCommitted(t) \/ RecordFailed(t) \/ RecordRolledBack(t) \/ RecordRollbackFailed(t)
         /\ rec'[t] = "COMMITTED" => pc[t] = "commit"
         /\ rec'[t] = "ROLLED_BACK" => pc[t] = "restored"
<1>1. TxStep(t)
  <2>1. Busy(t) /\ pc'[t] = "done" /\ ~AllResting /\ pc'[t] # pc[t]
    BY DEF Ends, AllResting, Busy, Resting
  <2>2. ~Crash /\ ~Restart /\ ~UNCHANGED vars /\ ~StartAny /\ ~Cleanup /\ ~Recover
    BY <2>1 DEF Crash, Restart, vars, StartAny, Cleanup, Recover, Busy, TypeOK
  <2>3. PICK u \in Txs : TxStep(u)
    BY <2>1, <2>2 DEF Next
  <2> QED
    BY <2>1, <2>3, StepFrame
<1>2. RecordCommitted(t) \/ RecordFailed(t) \/ RecordRolledBack(t) \/ RecordRollbackFailed(t)
  BY <1>1 DEF Ends, TxStep, ExecuteStep, RollbackStep, Backup, BackupFails, RecordBackedUp,
     RecordRunning, UpdateBegin, UpdateReturns, UpdateRaises, HealthCheck, HealthAnswer,
     HealthLooks, RecordHealthy, ManualSelect, RecordRollingBack, VerifyBackup, Terminate,
     Restore, RestoreRaises, Reload, Leaves, RollbackCheck, RollbackAnswer, RecordStep, Record, Move,
     Goto, TypeOK
<1> QED
  BY <1>2 DEF RecordCommitted, RecordFailed, RecordRolledBack, RecordRollbackFailed,
     RecordStep, Record, Goto, Ends, TypeOK

\* What a step that ends a transaction records is the truth about its plugin.
LEMMA EndStep ==
  ASSUME TypeOK, SerialInv, [Next]_vars, NEW t \in Txs, Ends(t)
  PROVE  EndedWell(t)
<1>2. RecordCommitted(t) \/ RecordFailed(t) \/ RecordRolledBack(t) \/ RecordRollbackFailed(t)
  BY EndingStep
<1>3. CASE RecordCommitted(t)
  <2>1. rec'[t] = "COMMITTED" /\ pc[t] = "commit"
    BY <1>3 DEF RecordCommitted, RecordStep, Record, Goto, Ends, TypeOK
  <2> QED
    BY <2>1 DEF SerialInv, Stage, Plugin, EndedWell
<1>4. CASE RecordRolledBack(t)
  <2>1. rec'[t] = "ROLLED_BACK" /\ pc[t] = "restored"
    BY <1>4 DEF RecordRolledBack, RecordStep, Record, Goto, Ends, TypeOK
  <2> QED
    BY <2>1 DEF SerialInv, Stage, Plugin, EndedWell
<1>5. CASE RecordFailed(t)
  <2>1. rec'[t] = "FAILED" /\ pc[t] = "except" /\ mtime[t] = 0
    BY <1>5 DEF RecordFailed, RecordStep, Record, Goto, Ends, TypeOK
  <2> QED
    BY <2>1 DEF SerialInv, Stage, Plugin, EndedWell
<1>6. CASE RecordRollbackFailed(t)
  <2>1. rec'[t] = "ROLLBACK_FAILED"
    BY <1>6 DEF RecordRollbackFailed, RecordStep, Record, Goto, Ends, TypeOK
  <2> QED
    BY <2>1 DEF EndedWell
<1> QED
  BY <1>2, <1>3, <1>4, <1>5, <1>6

\* Whatever a core that raises or reloads, the disk, the audit log and deaths of
\* the process do, a transaction that ends is COMMITTED only with the new version
\* on disk and loaded; ROLLED_BACK only with the directory as the update found it
\* and the old version loaded, or nothing loaded of a plugin that was disabled;
\* FAILED only if the directory was never touched; ROLLBACK_FAILED otherwise.
THEOREM EndsWellAlways == Spec => EndsWell
<1>1. Init => SerialInv
  BY DEF Init, SerialInv, OneBusy, Busy, Resting, Stage
<1>2. TypeOK /\ SerialInv /\ [Next]_vars =>
        [\A t \in Txs : Ends(t) => EndedWell(t)]_vars
  BY EndStep
<1> QED
  BY <1>1, <1>2, SerialStep, Typing, PTL DEF Spec, EndsWell

---------------------------------------------------------------------------
(* The backup comes before the change.                                     *)

\* A busy transaction that has made its backup still has it, because it is the
\* newest one, and every update that is past its first steps has made it; a
\* manual rollback makes none.
BackedUp(t) ==
    /\ pc[t] = "idle" => rec[t] = NoRecord
    /\ mtime[t] < Now
    /\ Busy(t) /\ mtime[t] # 0 => bak[t] = pre[t] /\ \A u \in Txs : mtime[u] <= mtime[t]
    /\ pc[t] = "selecting" => Manual(t)
    /\ pc[t] \in {"rolling", "verify", "terminating", "restoring"} => mtime[t] # 0 \/ Manual(t)

\* What a step of transaction t leaves alone.
LEMMA TxFrame ==
  ASSUME TypeOK, NEW t \in Txs, TxStep(t)
  PROVE  /\ Busy(t) /\ item' = item /\ up /\ up' /\ crashes' = crashes
         /\ \A u \in Txs \ {t} : pc'[u] = pc[u]
         /\ \A p \in Plugins : p # item[t].plugin =>
                disk'[p] = disk[p] /\ live'[p] = live[p] /\ active'[p] = active[p]
<1>1. crashes' = crashes
      /\ \A p \in Plugins : p # item[t].plugin =>
            disk'[p] = disk[p] /\ live'[p] = live[p] /\ active'[p] = active[p]
  <2> USE DEF TypeOK, world, env, Plugin
  <2>1. CASE ExecuteStep(t)
    BY <2>1 DEF ExecuteStep, Backup, BackupFails, RecordBackedUp, RecordRunning,
       UpdateBegin, UpdateReturns, UpdateRaises, Leaves, HealthCheck, HealthAnswer, HealthLooks,
       RecordHealthy, RecordCommitted, RecordFailed, RecordStep, Record, Move
  <2>2. CASE ManualSelect(t)
    BY <2>2 DEF ManualSelect, Move
  <2>3. CASE RollbackStep(t)
    BY <2>3 DEF RollbackStep, RecordRollingBack, VerifyBackup, Terminate, Restore,
       RestoreRaises, Reload, Leaves, RollbackCheck, RollbackAnswer, HealthLooks, RecordRolledBack,
       RecordRollbackFailed, RecordStep, Record, Move
  <2> QED
    BY <2>1, <2>2, <2>3 DEF TxStep
<1> QED
  BY <1>1, StepFrame, StepKeeps

\* Nothing but a new backup makes time pass.
LEMMA NowKept == ASSUME mtime' = mtime PROVE Now' = Now
  BY DEF Now

\* A new backup is newer than all others.
LEMMA NowGrows == ASSUME TypeOK, NEW t \in Txs, mtime[t] = 0, Backup(t) PROVE Now' = Now + 1
<1>1. {u \in Txs : mtime'[u] > 0} = {u \in Txs : mtime[u] > 0} \cup {t}
  BY NowNat DEF Backup, TypeOK
<1>2. IsFiniteSet({u \in Txs : mtime[u] > 0}) /\ t \notin {u \in Txs : mtime[u] > 0}
  BY TxAssumption, FS_Subset
<1>3. Cardinality({u \in Txs : mtime'[u] > 0}) = Cardinality({u \in Txs : mtime[u] > 0}) + 1
  BY <1>1, <1>2, FS_AddElement
<1> QED
  BY <1>3, <1>2, FS_CardinalityType DEF Now

\* The newest backup of a plugin is protected, whatever Keep is.
LEMMA NewestProtected ==
  ASSUME TypeOK, NEW t \in Txs, \A u \in Txs : mtime[u] <= mtime[t]
  PROVE  Protected(t)
<1>1. {u \in Backups(Plugin(t)) : mtime[u] > mtime[t]} = {}
  BY DEF Backups, TypeOK
<1> QED
  BY <1>1, FS_EmptySet, TxAssumption DEF Protected, Kept

\* No step loses the backup of the transaction that is working.
LEMMA BackedUpStep ==
  TypeOK /\ SerialInv /\ (\A t \in Txs : BackedUp(t)) /\ [Next]_vars
    => (\A t \in Txs : BackedUp(t))'
<1> SUFFICES ASSUME TypeOK, SerialInv, \A t \in Txs : BackedUp(t), [Next]_vars, NEW u \in Txs
             PROVE  BackedUp(u)'
  OBVIOUS
<1> USE DEF Busy, Resting, Manual
<1>1. ASSUME NEW t \in Txs, TxStep(t) PROVE BackedUp(u)'
  <2>1. CASE u # t
    <3>1. mtime'[u] < Now'
      <4>1. CASE Backup(t)
        <5>1. mtime[t] = 0 /\ mtime'[u] = mtime[u]
          BY <2>1, <4>1 DEF TypeOK, SerialInv, Stage, Backup
        <5>2. Now' = Now + 1
          BY <4>1, <5>1, NowGrows
        <5>3. mtime[u] < Now /\ mtime[u] \in Nat /\ Now \in Nat
          BY NowNat DEF BackedUp, TypeOK
        <5> QED
          BY <5>1, <5>2, <5>3
      <4>2. CASE ~Backup(t)
        BY <1>1, <4>2, StepKeeps DEF BackedUp
      <4> QED
        BY <4>1, <4>2
    <3> QED
      BY <1>1, <2>1, <3>1, StepFrame, StepKeeps DEF BackedUp, SerialInv, OneBusy
  <2>2. CASE u = t /\ Backup(t)
    <3>1. pc[t] = "locked" /\ pc'[t] = "backed" /\ disk[item[t].plugin] = pre[t]
      BY <2>2 DEF Backup, Goto, TypeOK, SerialInv, Stage
    <3>2. bak'[t] = pre'[t]
      BY <2>2, <3>1 DEF Backup, Plugin, TypeOK
    <3>3. mtime[t] = 0 /\ mtime' = [mtime EXCEPT ![t] = Now]
      BY <2>2, <3>1 DEF Backup, SerialInv, Stage
    <3>4. Now' = Now + 1
      BY <2>2, <3>3, NowGrows
    <3>5. mtime'[t] = Now /\ \A v \in Txs : mtime[v] \in Nat /\ mtime[v] < Now /\ mtime'[v] <= Now
      BY <3>3, NowNat DEF BackedUp, TypeOK
    <3> QED
      BY <2>2, <3>1, <3>2, <3>4, <3>5, NowNat DEF BackedUp
  <2>3. CASE u = t /\ ~Backup(t)
    <3>1. item'[t] = item[t] /\ pre'[t] = pre[t] /\ bak'[t] = bak[t] /\ mtime' = mtime /\ Now' = Now
      BY <1>1, <2>3, StepKeeps
    <3>2. Busy(t) /\ pc'[t] # "idle" /\ pc'[t] # "selecting"
          /\ (pc'[t] \in {"rolling", "verify", "terminating", "restoring"} =>
                 \/ pc[t] \in {"rolling", "verify", "terminating", "selecting"}
                 \/ pc[t] = "except" /\ mtime[t] # 0)
      BY <1>1, <2>3 DEF TxStep, ExecuteStep, RollbackStep, BackupFails, RecordBackedUp,
         RecordRunning, UpdateBegin, UpdateReturns, UpdateRaises, HealthCheck, HealthAnswer,
         HealthLooks, RecordHealthy, RecordCommitted, RecordFailed, ManualSelect,
         RecordRollingBack, VerifyBackup, Terminate, Restore, RestoreRaises, Reload, Leaves,
         RollbackCheck, RollbackAnswer, RecordRolledBack, RecordRollbackFailed,
         RecordStep, Record, Move, Goto, TypeOK
    <3> QED
      BY <2>3, <3>1, <3>2 DEF BackedUp
  <2> QED
    BY <2>1, <2>2, <2>3
<1>2. ASSUME StartAny PROVE BackedUp(u)'
  <2>1. PICK t \in Txs : (\E it \in FreshItems(t) : Start(t, it)) \/ \E o \in Txs : ManualStart(t, o)
    BY <1>2 DEF StartAny
  <2>2. CASE u # t
    <3>1. mtime' = mtime /\ bak'[u] = bak[u] /\ rec'[u] = rec[u] /\ pc'[u] = pc[u]
          /\ item'[u] = item[u] /\ pre'[u] = pre[u]
      BY <2>1, <2>2 DEF Start, ManualStart, Record, Goto, TypeOK, files
    <3> QED
      BY <3>1, NowKept DEF BackedUp
  <2>3. CASE u = t /\ \E it \in FreshItems(t) : Start(t, it)
    <3>1. pc'[t] \in {"locked", "raised"} /\ mtime' = mtime /\ pc[t] = "idle"
      BY <2>3 DEF Start, Record, Goto, TypeOK
    <3> QED
      BY <2>3, <3>1, NowKept DEF BackedUp, SerialInv, Stage
  <2>4. CASE u = t /\ \E o \in Txs : ManualStart(t, o)
    <3>1. PICK o \in Txs : ManualStart(t, o)
      BY <2>4
    <3>2. o # t /\ item[o] \in PlanItem
      BY <3>1, RecordAssumption DEF ManualStart, BackedUp, TypeOK, TxState, TERMINAL
    <3>3. item'[t].orig = o /\ pc'[t] = "selecting" /\ mtime'[t] = 0 /\ mtime' = mtime
      BY <3>1, <3>2 DEF ManualStart, Goto, TypeOK, PlanItem, SerialInv, Stage, files
    <3> QED
      BY <2>4, <3>2, <3>3, NowKept DEF BackedUp
  <2> QED
    BY <2>1, <2>2, <2>3, <2>4
<1>3. ASSUME Cleanup PROVE BackedUp(u)'
  <2>1. CASE Busy(u) /\ mtime[u] # 0
    BY <1>3, <2>1, NewestProtected, NowKept DEF Cleanup, CleanupUpTo, BackedUp
  <2> QED
    BY <1>3, <2>1, NowKept DEF Cleanup, BackedUp
<1>7. ASSUME Recover PROVE BackedUp(u)'
  BY <1>7, NowKept, RecordAssumption DEF Recover, Recovered, BackedUp, TypeOK, TERMINAL
<1>4. ASSUME Crash PROVE BackedUp(u)'
  <2>1. pc'[u] \in Resting /\ pc'[u] # "selecting" /\ (pc'[u] = "idle" => pc[u] = "idle")
        /\ rec' = rec /\ mtime' = mtime
    BY <1>4 DEF Crash, files, TypeOK
  <2> QED
    BY <1>4, <2>1, NowKept DEF Crash, files, BackedUp
<1>5. ASSUME Restart PROVE BackedUp(u)'
  BY <1>5, NowKept, RecordAssumption DEF Restart, Recovered, BackedUp, TypeOK, TERMINAL
<1>6. ASSUME UNCHANGED vars PROVE BackedUp(u)'
  BY <1>6, NowKept DEF vars, files, env, world, BackedUp
<1> QED
  BY <1>1, <1>2, <1>3, <1>4, <1>5, <1>6, <1>7 DEF Next

\* From the moment the core may touch a plugin's directory until the rollback
\* has restored it, the backup of the update holds what the directory held when
\* the update began: for any failures, deaths and retention in between.
THEOREM BackupFirst == Spec => []BackupBeforeChange
<1>1. Init => SerialInv /\ \A t \in Txs : BackedUp(t)
  BY NowNat DEF Init, SerialInv, OneBusy, AllResting, Busy, Resting, Stage, BackedUp
<1>2. TypeOK /\ SerialInv /\ (\A t \in Txs : BackedUp(t)) => BackupBeforeChange
  BY DEF SerialInv, Stage, BackedUp, BackupBeforeChange, Touched, Busy, Resting
<1> QED
  BY <1>1, <1>2, SerialStep, BackedUpStep, Typing, PTL DEF Spec

---------------------------------------------------------------------------
(* Retention keeps the newest backups.                                     *)

\* A step that changes no moment and no plugin of a backup that was made may
\* only make more backups newer than one of them.
LEMMA NewerGrows ==
  ASSUME TypeOK, NEW t \in Txs, mtime[t] > 0,
         \A u \in Txs : mtime[u] > 0 => mtime'[u] = mtime[u] /\ item'[u].plugin = item[u].plugin
  PROVE  Cardinality(Newer(t)) <= Cardinality(Newer(t)')
<1>1. Newer(t) \in SUBSET Newer(t)'
  BY DEF Newer, TypeOK
<1>2. IsFiniteSet(Newer(t)')
  BY TxAssumption, FS_Subset DEF Newer
<1> QED
  BY <1>1, <1>2, FS_Subset

\* Cleanup counts the backups that are left: never more than were made.
LEMMA LeftAreMade ==
  ASSUME NEW t \in Txs, Cardinality(Newer(t)) < Kept
  PROVE  Protected(t)
<1> DEFINE Left == {u \in Backups(Plugin(t)) : mtime[u] > mtime[t]}
<1>1. Left \in SUBSET Newer(t)
  BY DEF Newer, Backups, Plugin
<1>2. IsFiniteSet(Newer(t))
  BY TxAssumption, FS_Subset DEF Newer
<1>3. /\ Cardinality(Left) \in Nat /\ Cardinality(Newer(t)) \in Nat
      /\ Cardinality(Left) <= Cardinality(Newer(t))
  BY <1>1, <1>2, FS_Subset, FS_CardinalityType
<1>4. Kept \in Nat
  BY TxAssumption DEF Kept
<1> QED
  BY <1>3, <1>4 DEF Protected

LEMMA UndoStep ==
  TypeOK /\ SerialInv /\ (\A t \in Txs : BackedUp(t)) /\ UndoKept /\ [Next]_vars => UndoKept'
<1> SUFFICES ASSUME TypeOK, SerialInv, \A t \in Txs : BackedUp(t), UndoKept, [Next]_vars,
                    NEW u \in Txs, (mtime[u] > 0)', Cardinality(Newer(u)') < Kept
             PROVE  bak'[u] = pre'[u]
  BY DEF UndoKept, Kept
<1> DEFINE Frame == \A v \in Txs : mtime[v] > 0 => mtime'[v] = mtime[v] /\ item'[v].plugin = item[v].plugin
<1>0. ASSUME mtime[u] > 0, Frame PROVE bak[u] = pre[u] /\ Cardinality(Newer(u)) < Kept
  <2>1. Cardinality(Newer(u)) <= Cardinality(Newer(u)')
    BY <1>0, NewerGrows
  <2>2. /\ Cardinality(Newer(u)) \in Nat /\ Cardinality(Newer(u)') \in Nat /\ Kept \in Nat
    BY TxAssumption, FS_Subset, FS_CardinalityType DEF Newer, Kept
  <2> QED
    BY <1>0, <2>1, <2>2 DEF UndoKept
<1>1. ASSUME NEW t \in Txs, TxStep(t) PROVE bak'[u] = pre'[u]
  <2>1. item' = item /\ pre' = pre
    BY <1>1, StepKeeps
  <2>2. CASE Backup(t)
    <3>1. /\ mtime[t] = 0 /\ mtime' = [mtime EXCEPT ![t] = Now]
          /\ bak' = [bak EXCEPT ![t] = disk[Plugin(t)]] /\ disk[Plugin(t)] = pre[t]
      BY <2>2 DEF Backup, Plugin, SerialInv, Stage
    <3>2. CASE u = t
      BY <2>1, <3>1, <3>2 DEF TypeOK
    <3>3. CASE u # t
      <4>1. mtime[u] > 0 /\ bak'[u] = bak[u]
        BY <3>1, <3>3 DEF TypeOK
      <4>2. Frame
        BY <2>1, <3>1 DEF TypeOK
      <4> QED
        BY <1>0, <2>1, <4>1, <4>2
    <3> QED
      BY <3>2, <3>3
  <2>3. CASE ~Backup(t)
    <3>1. bak' = bak /\ mtime' = mtime
      BY <1>1, <2>3, StepKeeps
    <3> QED
      BY <1>0, <2>1, <3>1
  <2> QED
    BY <2>2, <2>3
<1>2. ASSUME StartAny PROVE bak'[u] = pre'[u]
  <2>1. PICK t \in Txs : (\E it \in FreshItems(t) : Start(t, it)) \/ \E o \in Txs : ManualStart(t, o)
    BY <1>2 DEF StartAny
  <2>2. pc[t] = "idle" /\ mtime[t] = 0 /\ mtime' = mtime /\ bak' = bak
    BY <2>1 DEF Start, ManualStart, files, SerialInv, Stage
  <2>3. \A v \in Txs \ {t} : item'[v] = item[v] /\ pre'[v] = pre[v]
    BY <2>1 DEF Start, ManualStart, TypeOK
  <2> QED
    BY <1>0, <2>2, <2>3 DEF TypeOK
<1>3. ASSUME Cleanup PROVE bak'[u] = pre'[u]
  <2>1. mtime' = mtime /\ item' = item /\ pre' = pre /\ \E k \in 0..Cardinality(Txs) : CleanupUpTo(k)
    BY <1>3 DEF Cleanup
  <2>2. bak[u] = pre[u] /\ Protected(u)
    BY <1>0, <2>1, LeftAreMade
  <2> QED
    BY <2>1, <2>2 DEF CleanupUpTo
<1>4. ASSUME Recover \/ Crash \/ Restart \/ UNCHANGED vars PROVE bak'[u] = pre'[u]
  <2>1. mtime' = mtime /\ item' = item /\ pre' = pre /\ bak' = bak
    BY <1>4 DEF Recover, Crash, Restart, vars, files
  <2> QED
    BY <1>0, <2>1
<1> QED
  BY <1>1, <1>2, <1>3, <1>4 DEF Next

\* The newest backups of every plugin, as many as retention is to keep, are
\* there and true, for any number of transactions and any setting.
THEOREM UndoAlways == Spec => []UndoKept
<1>1. Init => SerialInv /\ (\A t \in Txs : BackedUp(t)) /\ UndoKept
  BY NowNat DEF Init, SerialInv, OneBusy, AllResting, Busy, Resting, Stage, BackedUp, UndoKept
<1> QED
  BY <1>1, SerialStep, BackedUpStep, UndoStep, Typing, PTL DEF Spec

---------------------------------------------------------------------------
(* No record is left behind.                                               *)

Settled == TERMINAL \cup {"FAILED", "INTERRUPTED", NoRecord}

\* A manual rollback that has not chosen yet has written nothing.
Quiet(t) == ~Busy(t) \/ pc[t] = "selecting"
QuietSettled == up /\ faults = 0 => \A t \in Txs : Quiet(t) => rec[t] \in Settled

\* A transaction that comes to rest without a failed write has just written how
\* it ended, or has written nothing.
LEMMA LeavesSettled ==
  ASSUME TypeOK, QuietSettled, NEW t \in Txs, TxStep(t), faults' = 0, Quiet(t)'
  PROVE  faults = 0 /\ rec'[t] \in Settled
<1> USE DEF Quiet, Busy, Resting, Settled, TERMINAL, TypeOK
<1>1. CASE ManualSelect(t)
  BY <1>1 DEF ManualSelect, Move, Goto, files, QuietSettled, TxStep
<1>2. CASE ExecuteStep(t)
  BY <1>2, TxAssumption DEF ExecuteStep, Backup, BackupFails, RecordBackedUp, RecordRunning,
     UpdateBegin, UpdateReturns, UpdateRaises, HealthCheck, HealthAnswer, HealthLooks,
     RecordHealthy, RecordCommitted, RecordFailed, RecordStep, Record, Move, Goto
<1>3. CASE RollbackStep(t)
  BY <1>3, TxAssumption DEF RollbackStep, RecordRollingBack, VerifyBackup, Terminate, Restore,
     RestoreRaises, Reload, Leaves, RollbackCheck, RollbackAnswer, HealthLooks, RecordRolledBack,
     RecordRollbackFailed, RecordStep, Record, Move, Goto
<1> QED
  BY <1>1, <1>2, <1>3 DEF TxStep

LEMMA QuietStep ==
  TypeOK /\ SerialInv /\ (\A t \in Txs : BackedUp(t)) /\ QuietSettled /\ [Next]_vars => QuietSettled'
<1> SUFFICES ASSUME TypeOK, SerialInv, \A t \in Txs : BackedUp(t), QuietSettled, [Next]_vars,
                    up', faults' = 0, NEW u \in Txs, Quiet(u)'
             PROVE  rec'[u] \in Settled
  BY DEF QuietSettled
<1>1. ASSUME NEW t \in Txs, TxStep(t) PROVE rec'[u] \in Settled
  <2>1. CASE u = t
    BY <1>1, <2>1, LeavesSettled
  <2>2. CASE u # t
    <3>1. pc'[u] = pc[u] /\ rec'[u] = rec[u] /\ up
      BY <1>1, <2>2, StepFrame, StepKeeps DEF TxStep
    <3>2. faults = 0
      BY <1>1, TxAssumption DEF TxStep, TypeOK, ExecuteStep, Backup, BackupFails, RecordBackedUp,
         RecordRunning, UpdateBegin, UpdateReturns, UpdateRaises, HealthCheck, HealthAnswer,
         HealthLooks, RecordHealthy, RecordCommitted, RecordFailed, RecordStep, Record, Move,
         ManualSelect, RollbackStep, RecordRollingBack, VerifyBackup, Terminate, Restore,
         RestoreRaises, Reload, Leaves, RollbackCheck, RollbackAnswer, RecordRolledBack,
         RecordRollbackFailed
    <3> QED
      BY <3>1, <3>2 DEF QuietSettled, Quiet, Busy
  <2> QED
    BY <2>1, <2>2
<1>2. ASSUME StartAny PROVE rec'[u] \in Settled
  <2>1. PICK t \in Txs : (\E it \in FreshItems(t) : Start(t, it)) \/ \E o \in Txs : ManualStart(t, o)
    BY <1>2 DEF StartAny
  <2>2. pc[t] = "idle" /\ rec[t] = NoRecord /\ faults = 0 /\ up
    BY <1>2, <2>1, TxAssumption DEF StartAny, Start, ManualStart, Record, BackedUp, TypeOK
  <2>3. CASE u # t
    <3>1. pc'[u] = pc[u] /\ rec'[u] = rec[u]
      BY <2>1, <2>3 DEF Start, ManualStart, Record, Goto, TypeOK, files
    <3> QED
      BY <2>2, <3>1 DEF QuietSettled, Quiet, Busy
  <2>4. CASE u = t /\ \E it \in FreshItems(t) : Start(t, it)
    BY <2>2, <2>4 DEF Start, Record, Goto, TypeOK, Quiet, Busy, Resting
  <2>5. CASE u = t /\ \E o \in Txs : ManualStart(t, o)
    BY <2>2, <2>5 DEF ManualStart, files, Settled
  <2> QED
    BY <2>1, <2>3, <2>4, <2>5
<1>3. ASSUME Recover \/ Restart PROVE rec'[u] \in Settled
  BY <1>3 DEF Recover, Restart, Recovered, Settled
<1>4. ASSUME Cleanup \/ UNCHANGED vars PROVE rec'[u] \in Settled
  BY <1>4 DEF Cleanup, vars, env, QuietSettled, Quiet, Busy
<1>5. ~Crash
  BY DEF Crash
<1> QED
  BY <1>1, <1>2, <1>3, <1>4, <1>5 DEF Next

\* With no failed write, no record of a living process tells of a transaction
\* that nobody is working on, however many deaths and reloads there were.
THEOREM NoneOrphaned == Spec => []NoOrphanRecord
<1>1. Init => SerialInv /\ (\A t \in Txs : BackedUp(t)) /\ QuietSettled
  BY NowNat DEF Init, SerialInv, OneBusy, AllResting, Busy, Resting, Stage, BackedUp, QuietSettled,
     Quiet, Settled
<1>2. QuietSettled => NoOrphanRecord
  BY DEF QuietSettled, NoOrphanRecord, Quiet, Settled
<1> QED
  BY <1>1, <1>2, SerialStep, BackedUpStep, QuietStep, Typing, PTL DEF Spec

---------------------------------------------------------------------------
(* No success changes whether a plugin is enabled.                         *)

\* Past the look of the health check the core has the plugin as enabled as the
\* plan has it.
Looked(t) ==
    pc[t] \in {"probing", "healthy", "commit", "rbprobing", "restored"} => SameActive(t)

LEMMA StepLooked ==
  ASSUME TypeOK, NEW t \in Txs, Looked(t), TxStep(t)
  PROVE  Looked(t)'
<1> USE DEF Looked, SameActive, Snapshot, TypeOK, Goto, files, env, world, Plugin
<1>1. CASE Backup(t) \/ BackupFails(t) \/ RecordBackedUp(t) \/ RecordRunning(t)
           \/ RecordHealthy(t) \/ RecordCommitted(t) \/ RecordFailed(t)
  BY <1>1 DEF Backup, BackupFails, RecordBackedUp, RecordRunning, RecordHealthy,
     RecordCommitted, RecordFailed, RecordStep, Record, Move
<1>2. CASE UpdateBegin(t) \/ UpdateReturns(t) \/ UpdateRaises(t)
  BY <1>2 DEF UpdateBegin, UpdateReturns, UpdateRaises
<1>3. CASE HealthCheck(t) \/ RollbackCheck(t) \/ HealthAnswer(t) \/ RollbackAnswer(t)
  BY <1>3 DEF HealthCheck, RollbackCheck, HealthLooks, HealthAnswer, RollbackAnswer, Move
<1>4. CASE RecordRollingBack(t) \/ RecordRolledBack(t) \/ RecordRollbackFailed(t)
           \/ VerifyBackup(t) \/ ManualSelect(t)
  BY <1>4 DEF RecordRollingBack, RecordRolledBack, RecordRollbackFailed,
     VerifyBackup, ManualSelect, RecordStep, Record, Move
<1>5. CASE Terminate(t) \/ Restore(t) \/ RestoreRaises(t) \/ Reload(t)
  BY <1>5 DEF Terminate, Restore, RestoreRaises, Reload
<1> QED
  BY <1>1, <1>2, <1>3, <1>4, <1>5 DEF TxStep, ExecuteStep, RollbackStep

LEMMA LookedStep ==
  TypeOK /\ SerialInv /\ (\A t \in Txs : Looked(t)) /\ [Next]_vars => (\A t \in Txs : Looked(t))'
<1> SUFFICES ASSUME TypeOK, SerialInv, \A t \in Txs : Looked(t), [Next]_vars, NEW u \in Txs
             PROVE  Looked(u)'
  OBVIOUS
<1>1. ASSUME NEW t \in Txs, TxStep(t) PROVE Looked(u)'
  <2>1. CASE u = t
    BY <1>1, <2>1, StepLooked
  <2>2. CASE u # t
    <3>1. pc'[u] \in Resting
      BY <1>1, <2>2, StepFrame DEF SerialInv, OneBusy, Busy
    <3> QED
      BY <3>1 DEF Looked, Resting
  <2> QED
    BY <2>1, <2>2
<1>2. ASSUME StartAny PROVE Looked(u)'
  BY <1>2 DEF StartAny, AllResting, Busy, Resting, Start, ManualStart, Record, Goto, TypeOK, Looked
<1>3. ASSUME Crash PROVE Looked(u)'
  BY <1>3 DEF Crash, Busy, Resting, TypeOK, Looked
<1>4. ASSUME Restart PROVE Looked(u)'
  BY <1>4 DEF Restart, SerialInv, AllResting, Busy, Resting, Looked
<1>5. ASSUME Cleanup \/ Recover \/ UNCHANGED vars PROVE Looked(u)'
  BY <1>5 DEF Cleanup, Recover, vars, world, Looked, SameActive, Snapshot, Plugin
<1> QED
  BY <1>1, <1>2, <1>3, <1>4, <1>5 DEF Next

\* An update or a rollback that succeeds leaves the plugin enabled, or disabled,
\* as it was, whatever the core did to it on the way.
THEOREM ActivationAlways == Spec => ActivationKept
<1>1. Init => SerialInv /\ \A t \in Txs : Looked(t)
  BY DEF Init, SerialInv, OneBusy, AllResting, Busy, Resting, Stage, Looked
<1>2. TypeOK /\ SerialInv /\ (\A t \in Txs : Looked(t)) /\ [Next]_vars =>
        [\A t \in Txs : Ends(t) /\ rec'[t] \in {"COMMITTED", "ROLLED_BACK"}
           => SameActive(t)]_vars
  <2> SUFFICES ASSUME TypeOK, SerialInv, \A t \in Txs : Looked(t), [Next]_vars, NEW t \in Txs,
                      Ends(t), rec'[t] \in {"COMMITTED", "ROLLED_BACK"}
               PROVE  SameActive(t)
    OBVIOUS
  <2>1. pc[t] \in {"commit", "restored"}
    BY EndingStep
  <2> QED
    BY <2>1 DEF Looked
<1> QED
  BY <1>1, <1>2, SerialStep, LookedStep, Typing, PTL DEF Spec, ActivationKept

---------------------------------------------------------------------------
(* Transactions are atomic.                                                *)

\* What the abstract version of a plugin is while a transaction works on it, and
\* between transactions.
VersionIs ==
    /\ Version = [p \in Plugins |-> Version[p]]
    /\ AllResting => \A p \in Plugins : Version[p] = disk[p]
    /\ \A t \in Txs : Busy(t) =>
          \A p \in Plugins : Version[p] = IF p = Plugin(t) THEN pre[t] ELSE disk[p]

LEMMA VersionFacts == OneBusy => VersionIs
<1> SUFFICES ASSUME OneBusy PROVE VersionIs
  OBVIOUS
<1>1. Version = [p \in Plugins |-> Version[p]]
  BY DEF Version
<1>2. ASSUME AllResting, NEW p \in Plugins PROVE Version[p] = disk[p]
  BY <1>2 DEF Version, AllResting
<1>3. ASSUME NEW t \in Txs, Busy(t), NEW p \in Plugins
      PROVE  Version[p] = IF p = Plugin(t) THEN pre[t] ELSE disk[p]
  <2> DEFINE Works(u) == Busy(u) /\ Plugin(u) = p
  <2>1. Version[p] = IF \E u \in Txs : Works(u) THEN pre[CHOOSE u \in Txs : Works(u)] ELSE disk[p]
    BY DEF Version
  <2>2. \A u \in Txs : Works(u) => u = t
    BY <1>3 DEF OneBusy
  <2>3. CASE p = Plugin(t)
    <3>1. Works(t)
      BY <1>3, <2>3
    <3> HIDE DEF Works
    <3>2. (CHOOSE u \in Txs : Works(u)) = t
      BY <2>2, <3>1
    <3> QED
      BY <2>1, <2>3, <3>1, <3>2
  <2>4. CASE p # Plugin(t)
    <3>1. ~ \E u \in Txs : Works(u)
      BY <2>2, <2>4
    <3> HIDE DEF Works
    <3> QED
      BY <2>1, <2>4, <3>1
  <2> QED
    BY <2>3, <2>4
<1> QED
  BY <1>1, <1>2, <1>3 DEF VersionIs

\* The abstract outcome of a transaction, by where it is.
OutcomeIs ==
    /\ Outcome = [t \in Txs |-> Outcome[t]]
    /\ \A t \in Txs :
          /\ pc[t] = "idle" => Outcome[t] = "none"
          /\ Busy(t) => Outcome[t] = "open"
          /\ pc[t] = "done" => Outcome[t] = IF rec[t] = "INTERRUPTED" THEN "FAILED" ELSE rec[t]
          /\ pc[t] \in {"raised", "dead"} => Outcome[t] = "lost"

LEMMA OutcomeFacts == OutcomeIs
<1>1. Outcome = [t \in Txs |-> Outcome[t]]
  BY DEF Outcome
<1>2. ASSUME NEW t \in Txs
      PROVE  /\ pc[t] = "idle" => Outcome[t] = "none"
             /\ Busy(t) => Outcome[t] = "open"
             /\ pc[t] = "done" => Outcome[t] = IF rec[t] = "INTERRUPTED" THEN "FAILED" ELSE rec[t]
             /\ pc[t] \in {"raised", "dead"} => Outcome[t] = "lost"
  BY DEF Outcome, Busy, Resting
<1> QED
  BY <1>1, <1>2 DEF OutcomeIs

\* A function that differs from another one at one place.
LEMMA ChangedAt ==
  ASSUME NEW S, NEW f, NEW g, f = [x \in S |-> f[x]], g = [x \in S |-> g[x]],
         NEW t \in S, \A u \in S \ {t} : g[u] = f[u]
  PROVE  g = [f EXCEPT ![t] = g[t]]
OBVIOUS

LEMMA SameEverywhere ==
  ASSUME NEW S, NEW f, NEW g, f = [x \in S |-> f[x]], g = [x \in S |-> g[x]],
         \A u \in S : g[u] = f[u]
  PROVE  g = f
OBVIOUS

\* The record of a transaction that is over says how it ended, until a recovery
\* relabels it.
EndState == TERMINAL \cup {"FAILED", "INTERRUPTED"}
Told == \A t \in Txs : pc[t] = "done" => rec[t] \in EndState

LEMMA ToldStep == TypeOK /\ SerialInv /\ Told /\ [Next]_vars => Told'
<1> SUFFICES ASSUME TypeOK, SerialInv, Told, [Next]_vars, NEW u \in Txs, pc'[u] = "done"
             PROVE  rec'[u] \in EndState
  BY DEF Told
<1> USE DEF EndState, TERMINAL
<1>1. CASE Busy(u)
  <2>1. Ends(u)
    BY <1>1 DEF Ends
  <2>2. RecordCommitted(u) \/ RecordFailed(u) \/ RecordRolledBack(u) \/ RecordRollbackFailed(u)
    BY <2>1, EndingStep
  <2> QED
    BY <2>2 DEF RecordCommitted, RecordFailed, RecordRolledBack, RecordRollbackFailed,
       RecordStep, Record, Goto, TypeOK
<1>2. CASE pc[u] = "done"
  <2>1. rec[u] \in EndState
    BY <1>2 DEF Told
  <2>2. ASSUME NEW t \in Txs, TxStep(t) PROVE rec'[u] = rec[u]
    <3>1. u # t
      BY <1>2, <2>2, StepFrame DEF Busy, Resting
    <3> QED
      BY <2>2, <3>1, StepKeeps
  <2>3. ASSUME StartAny PROVE rec'[u] = rec[u]
    BY <1>2, <2>3 DEF StartAny, Start, ManualStart, Record, TypeOK, files
  <2>4. CASE Cleanup \/ Recover \/ Crash \/ Restart \/ UNCHANGED vars
    BY <2>1, <2>4 DEF Cleanup, Recover, Crash, Restart, Recovered, vars, files
  <2> QED
    BY <2>1, <2>2, <2>3, <2>4 DEF Next
<1>3. CASE ~Busy(u) /\ pc[u] # "done"
  <2>1. ASSUME NEW t \in Txs, TxStep(t) PROVE FALSE
    BY <1>3, <2>1, StepFrame
  <2>2. ~StartAny
    BY <1>3 DEF StartAny, Start, ManualStart, Record, Goto, TypeOK
  <2>3. ~Cleanup /\ ~Recover /\ ~Crash /\ ~Restart /\ ~UNCHANGED vars
    BY <1>3 DEF Cleanup, Recover, Crash, Restart, vars, TypeOK
  <2> QED
    BY <2>1, <2>2, <2>3 DEF Next
<1> QED
  BY <1>1, <1>2, <1>3

\* What holds of the abstract state before and after a step.
Seen == VersionIs /\ OutcomeIs /\ OneBusy /\ TypeOK /\ Told

\* Nothing that the abstract state tells apart has changed.
LEMMA Unseen ==
  ASSUME Seen, Seen', item' = item, pre' = pre,
         \A p \in Plugins : Version'[p] = Version[p],
         \A t \in Txs : Outcome'[t] = Outcome[t]
  PROVE  UNCHANGED <<Version, item, pre, Outcome>>
<1>1. Version' = Version
  BY SameEverywhere DEF Seen, VersionIs
<1>2. Outcome' = Outcome
  BY SameEverywhere DEF Seen, OutcomeIs
<1> QED
  BY <1>1, <1>2

\* No transaction is open when all are at rest.
LEMMA NoneOpen ==
  ASSUME Seen, AllResting, NEW t \in Txs
  PROVE  Outcome[t] # "open"
BY DEF Seen, OutcomeIs, Told, EndState, TERMINAL, AllResting, Busy, Resting

\* A transaction that ends does so in one abstract step, which changes its plugin
\* and no other.
LEMMA EndIsAtomic ==
  ASSUME Seen, Seen', item' = item, pre' = pre, NEW t \in Txs, Busy(t), AllResting',
         \A p \in Plugins : p # Plugin(t) => disk'[p] = disk[p],
         \A u \in Txs \ {t} : Outcome'[u] = Outcome[u],
         \/ Outcome'[t] = "COMMITTED" /\ disk'[Plugin(t)] = item[t].to
         \/ Outcome'[t] = "ROLLED_BACK" /\ disk'[Plugin(t)] = pre[item[t].orig]
         \/ Outcome'[t] = "FAILED" /\ disk'[Plugin(t)] = pre[t]
         \/ Outcome'[t] \in {"ROLLBACK_FAILED", "lost"}
  PROVE  Atomic!Next
<1>1. item[t].plugin \in Plugins /\ Plugin(t) = item[t].plugin
  BY DEF Seen, TypeOK, Busy, Resting, PlanItem, Plugin
<1>2. Outcome[t] = "open"
  BY DEF Seen, OutcomeIs
<1>3. Outcome' = [Outcome EXCEPT ![t] = Outcome'[t]]
  BY ChangedAt DEF Seen, OutcomeIs
<1>4. \A p \in Plugins : Version'[p] = disk'[p]
  BY DEF Seen, VersionIs
<1>5. Version' = [Version EXCEPT ![item[t].plugin] = disk'[item[t].plugin]]
  <2>1. \A p \in Plugins \ {item[t].plugin} : Version'[p] = Version[p]
    BY <1>1, <1>4 DEF Seen, VersionIs
  <2>2. Version' = [Version EXCEPT ![item[t].plugin] = Version'[item[t].plugin]]
    BY <1>1, <2>1, ChangedAt DEF Seen, VersionIs
  <2> QED
    BY <1>1, <1>4, <2>2
<1>6. Version[item[t].plugin] = pre[t] /\ disk'[item[t].plugin] \in Contents
  BY <1>1 DEF Seen, VersionIs, TypeOK
<1>7. CASE Outcome'[t] = "COMMITTED" /\ disk'[Plugin(t)] = item[t].to
  <2>1. Atomic!Commit(t)
    BY <1>1, <1>2, <1>3, <1>5, <1>7 DEF Atomic!Commit, Atomic!End
  <2> QED
    BY <2>1 DEF Atomic!Next
<1>8. CASE Outcome'[t] = "ROLLED_BACK" /\ disk'[Plugin(t)] = pre[item[t].orig]
  <2>1. Atomic!Revert(t)
    BY <1>1, <1>2, <1>3, <1>5, <1>8 DEF Atomic!Revert, Atomic!End
  <2> QED
    BY <2>1 DEF Atomic!Next
<1>9. CASE Outcome'[t] = "FAILED" /\ disk'[Plugin(t)] = pre[t]
  <2>1. Atomic!Refuse(t)
    BY <1>1, <1>2, <1>3, <1>5, <1>6, <1>9 DEF Atomic!Refuse, Atomic!End
  <2> QED
    BY <2>1 DEF Atomic!Next
<1>10. CASE Outcome'[t] \in {"ROLLBACK_FAILED", "lost"}
  <2>1. Atomic!End(t, Outcome'[t], disk'[item[t].plugin])
    BY <1>1, <1>2, <1>3, <1>5 DEF Atomic!End
  <2>2. Atomic!Damage(t)
    BY <1>6, <1>10, <2>1 DEF Atomic!Damage
  <2> QED
    BY <2>2 DEF Atomic!Next
<1> QED
  BY <1>7, <1>8, <1>9, <1>10

LEMMA TxIsAtomic ==
  ASSUME Seen, Seen', SerialInv, SerialInv', [Next]_vars, NEW t \in Txs, TxStep(t)
  PROVE  [Atomic!Next]_(Atomic!vars)
<1> USE DEF Seen
<1>1. /\ Busy(t) /\ item' = item /\ pre' = pre
      /\ \A u \in Txs \ {t} : pc'[u] = pc[u] /\ rec'[u] = rec[u] /\ ~Busy(u)
      /\ \A p \in Plugins : p # Plugin(t) => disk'[p] = disk[p]
  BY TxFrame, StepKeeps DEF SerialInv, OneBusy, Plugin
<1>2. \A u \in Txs \ {t} : Outcome'[u] = Outcome[u]
  BY <1>1 DEF OutcomeIs, Busy, Resting
<1>3. CASE Busy(t)'
  <2>1. Outcome'[t] = Outcome[t]
    BY <1>1, <1>3 DEF OutcomeIs
  <2>2. \A p \in Plugins : Version'[p] = Version[p]
    BY <1>1, <1>3 DEF VersionIs, Plugin
  <2> QED
    BY <1>1, <1>2, <2>1, <2>2, Unseen DEF Atomic!vars
<1>4. CASE ~Busy(t)'
  <2>1. AllResting'
    BY <1>1, <1>4 DEF AllResting, Busy
  <2>2. pc'[t] \in {"done", "raised"}
    BY <1>1, <1>4 DEF Busy, TxStep, ExecuteStep, RollbackStep, Backup, BackupFails, RecordBackedUp,
       RecordRunning, UpdateBegin, UpdateReturns, UpdateRaises, HealthCheck, HealthAnswer,
       HealthLooks, RecordHealthy, RecordCommitted, RecordFailed, ManualSelect,
       RecordRollingBack, VerifyBackup, Terminate, Restore, RestoreRaises, Reload, Leaves,
       RollbackCheck, RollbackAnswer, RecordRolledBack, RecordRollbackFailed,
       RecordStep, Record, Move, Goto, TypeOK, Resting
  <2>3. CASE pc'[t] = "raised"
    <3>1. Outcome'[t] = "lost"
      BY <2>3 DEF OutcomeIs
    <3> QED
      BY <1>1, <1>2, <2>1, <3>1, EndIsAtomic
  <2>4. CASE pc'[t] = "done"
    <3>1. Ends(t)
      BY <1>1, <2>4 DEF Ends
    <3>2. RecordCommitted(t) \/ RecordFailed(t) \/ RecordRolledBack(t) \/ RecordRollbackFailed(t)
      BY <3>1, EndingStep
    <3>3. disk' = disk /\ rec'[t] \in {"COMMITTED", "FAILED", "ROLLED_BACK", "ROLLBACK_FAILED"}
      BY <2>4, <3>2 DEF RecordCommitted, RecordFailed, RecordRolledBack, RecordRollbackFailed,
         RecordStep, Record, Goto, TypeOK, world
    <3>4. Outcome'[t] = rec'[t]
      BY <2>4, <3>3 DEF OutcomeIs
    <3>5. /\ rec'[t] = "COMMITTED" => disk'[Plugin(t)] = item[t].to
          /\ rec'[t] = "ROLLED_BACK" => disk'[Plugin(t)] = pre[item[t].orig]
          /\ rec'[t] = "FAILED" => disk'[Plugin(t)] = pre[t]
      BY <3>1, <3>3, EndStep DEF EndedWell
    <3> QED
      BY <1>1, <1>2, <2>1, <3>3, <3>4, <3>5, EndIsAtomic
  <2> QED
    BY <2>2, <2>3, <2>4
<1> QED
  BY <1>3, <1>4

LEMMA StartIsAtomic ==
  ASSUME Seen, Seen', StartAny
  PROVE  Atomic!Next
<1> USE DEF Seen
<1>1. PICK t \in Txs : (\E it \in FreshItems(t) : Start(t, it)) \/ \E o \in Txs : ManualStart(t, o)
  BY DEF StartAny
<1>2. AllResting
  BY DEF StartAny
<1>3. /\ pc[t] = "idle" /\ disk' = disk /\ pc'[t] \in {"locked", "raised", "selecting"}
      /\ \A u \in Txs \ {t} : /\ pc'[u] = pc[u] /\ rec'[u] = rec[u]
                              /\ item'[u] = item[u] /\ pre'[u] = pre[u]
  BY <1>1 DEF Start, ManualStart, Record, Goto, TypeOK, world, files
<1>4. pre'[t] = disk[Plugin(t)']
  <2>1. CASE \E it \in FreshItems(t) : Start(t, it)
    BY <2>1 DEF Start, TypeOK, Plugin
  <2>2. CASE \E o \in Txs : ManualStart(t, o)
    <3>1. PICK o \in Txs : ManualStart(t, o)
      BY <2>2
    <3>2. item[o] \in PlanItem
      BY <3>1, RecordAssumption DEF ManualStart, TypeOK, TxState, TERMINAL
    <3>3. item'[t].plugin = item[o].plugin
      BY <3>1, <3>2 DEF ManualStart, TypeOK, PlanItem
    <3> QED
      BY <3>1, <3>3 DEF ManualStart, TypeOK, Plugin
  <2> QED
    BY <1>1, <2>1, <2>2
<1>5. \A p \in Plugins : Version[p] = disk[p]
  BY <1>2 DEF VersionIs
<1>6. \A p \in Plugins : Version'[p] = disk[p]
  <2>1. CASE Busy(t)'
    BY <1>3, <1>4, <2>1 DEF VersionIs
  <2>2. CASE ~Busy(t)'
    <3>1. AllResting'
      BY <1>2, <1>3, <2>2 DEF AllResting, Busy
    <3> QED
      BY <1>3, <3>1 DEF VersionIs
  <2> QED
    BY <2>1, <2>2
<1>7. Version' = Version
  BY <1>5, <1>6, SameEverywhere DEF VersionIs
<1>8. \A u \in Txs \ {t} : Outcome'[u] = Outcome[u]
  BY <1>2, <1>3 DEF OutcomeIs, AllResting, Busy, Resting
<1>9. Outcome' = [Outcome EXCEPT ![t] = Outcome'[t]]
  BY <1>8, ChangedAt DEF OutcomeIs
<1>10. Outcome[t] = "none" /\ Outcome'[t] \in {"open", "lost"}
  BY <1>3 DEF OutcomeIs, Busy, Resting
<1>11. Atomic!NoneOpen
  BY <1>2, NoneOpen DEF Atomic!NoneOpen
<1>12. item'[t].plugin \in Plugins
  BY <1>1, RecordAssumption
  DEF FreshItems, Start, ManualStart, PlanItem, TypeOK, TxState, TERMINAL
<1>13. pre' = [pre EXCEPT ![t] = Version[item'[t].plugin]]
  BY <1>3, <1>4, <1>5, <1>12 DEF Plugin, TypeOK
<1>14. Atomic!Open(t)
  BY <1>3, <1>7, <1>9, <1>10, <1>11, <1>13 DEF Atomic!Open
<1> QED
  BY <1>14 DEF Atomic!Next

\* A death ends the transaction that was working, if one was.
LEMMA CrashIsAtomic ==
  ASSUME Seen, Seen', Crash
  PROVE  [Atomic!Next]_(Atomic!vars)
<1> USE DEF Seen
<1>1. /\ item' = item /\ rec' = rec /\ pre' = pre
      /\ \A u \in Txs : pc'[u] = IF Busy(u) THEN "dead" ELSE pc[u]
  BY DEF Crash, files, TypeOK
<1>2. AllResting'
  BY <1>1 DEF AllResting, Busy, Resting
<1>3. \A u \in Txs : ~Busy(u) => Outcome'[u] = Outcome[u]
  BY <1>1 DEF OutcomeIs, Busy, Resting
<1>4. CASE AllResting
  <2>1. \A p \in Plugins : disk'[p] = disk[p]
    BY <1>4 DEF Crash, AllResting
  <2>2. \A p \in Plugins : Version'[p] = Version[p]
    BY <1>2, <1>4, <2>1 DEF VersionIs
  <2>3. \A t \in Txs : Outcome'[t] = Outcome[t]
    BY <1>3, <1>4 DEF AllResting
  <2> QED
    BY <1>1, <2>2, <2>3, Unseen DEF Atomic!vars
<1>5. ASSUME NEW t \in Txs, Busy(t) PROVE Atomic!Next
  <2>1. \A u \in Txs \ {t} : ~Busy(u)
    BY <1>5 DEF OneBusy
  <2>2. \A p \in Plugins : p # Plugin(t) => disk'[p] = disk[p]
    BY <2>1 DEF Crash
  <2>3. Outcome'[t] = "lost"
    BY <1>1, <1>5 DEF OutcomeIs
  <2> QED
    BY <1>1, <1>2, <1>3, <1>5, <2>1, <2>2, <2>3, EndIsAtomic
<1> QED
  BY <1>4, <1>5 DEF AllResting

\* What changes no transaction and no directory is not seen.
LEMMA RestIsUnseen ==
  ASSUME Seen, Seen', Cleanup \/ Recover \/ Restart \/ UNCHANGED vars
  PROVE  UNCHANGED Atomic!vars
<1> USE DEF Seen
<1>1. /\ disk' = disk /\ item' = item /\ pc' = pc /\ pre' = pre
      /\ rec' = rec \/ rec' = Recovered
  BY DEF Cleanup, Recover, Restart, vars, world
<1>2. \A t \in Txs : Busy(t)' = Busy(t) /\ Plugin(t)' = Plugin(t)
  BY <1>1 DEF Busy, Plugin
<1>3. ASSUME NEW t \in Txs PROVE Outcome'[t] = Outcome[t]
  <2>1. CASE pc[t] = "done"
    BY <1>1, <2>1 DEF OutcomeIs, Told, EndState, Recovered, TERMINAL
  <2>2. CASE pc[t] # "done"
    BY <1>1, <1>2, <2>2 DEF OutcomeIs, Busy, Resting
  <2> QED
    BY <2>1, <2>2
<1>4. ASSUME NEW p \in Plugins PROVE Version'[p] = Version[p]
  <2>1. CASE AllResting
    BY <1>1, <1>2, <2>1 DEF VersionIs, AllResting
  <2>2. CASE ~AllResting
    <3>1. PICK t \in Txs : Busy(t)
      BY <2>2 DEF AllResting
    <3> QED
      BY <1>1, <1>2, <3>1 DEF VersionIs
  <2> QED
    BY <2>1, <2>2
<1> QED
  BY <1>1, <1>3, <1>4, Unseen DEF Atomic!vars

\* Transactions are atomic and isolated, for any plugins, versions, transactions,
\* failing writes, deaths, and whatever a core does that raises or reloads: each
\* changes what is installed in one step, to the new version or back to what the
\* update found, or admits that it failed.
THEOREM UpdatesAreAtomic == Spec => AtomicSpec
<1>1. Init => SerialInv /\ Told
  BY DEF Init, SerialInv, OneBusy, AllResting, Busy, Resting, Stage, Told
<1>2. TypeOK /\ SerialInv /\ Told => Seen
  BY VersionFacts, OutcomeFacts DEF Seen, SerialInv
<1>3. Init => Atomic!Init
  <2> SUFFICES ASSUME Init PROVE Atomic!Init
    OBVIOUS
  <2>1. AllResting /\ OneBusy
    BY DEF Init, AllResting, OneBusy, Busy, Resting
  <2>2. VersionIs /\ OutcomeIs
    BY <2>1, VersionFacts, OutcomeFacts
  <2>3. Version \in [Plugins -> Versions]
    BY <2>1, <2>2 DEF VersionIs, Init
  <2>4. \A t \in Txs : Outcome[t] = "none"
    BY <2>2 DEF OutcomeIs, Init
  <2> QED
    BY <2>3, <2>4 DEF Atomic!Init
<1>4. Seen /\ Seen' /\ SerialInv /\ SerialInv' /\ [Next]_vars => [Atomic!Next]_(Atomic!vars)
  BY TxIsAtomic, StartIsAtomic, CrashIsAtomic, RestIsUnseen DEF Next
<1> QED
  BY <1>1, <1>2, <1>3, <1>4, SerialStep, ToldStep, Typing, PTL DEF Spec, AtomicSpec, Atomic!Spec
=============================================================================
