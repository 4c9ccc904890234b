---------------------------- MODULE BackupRun ----------------------------
(***************************************************************************)
(* BackupRunner of core/backup_runner.py: one backup at a time per plugin  *)
(* instance, the archive that AstrBot's exporter writes under its final    *)
(* name, the deletion of archives, and backup-state.json with the last     *)
(* result and the last success.  A hot reload makes a new runner, which    *)
(* reads that file once, or starts with no history when it cannot; the     *)
(* export of the old one goes on.                                          *)
(***************************************************************************)
EXTENDS Naturals, FiniteSets

CONSTANTS
    Instances,     \* plugin instances, in the order in which they are loaded
    Archives,      \* file names astrbot_backup_<time>.zip, in order of time
    MaxDiskFaults, \* bound: failing reads and writes of backup-state.json
    NoArchive

ASSUME BackupAssumption ==
    /\ Instances \subseteq Nat /\ Archives \subseteq Nat
    /\ NoArchive \notin Archives /\ MaxDiskFaults \in Nat

VARIABLES
    runner,    \* per instance: "none", "idle", "exporting" (the asyncio.Lock), "dead"
    writing,   \* per instance: the archive its exporter writes
    state,     \* per instance: last_result and last_success in memory
    saved,     \* backup-state.json
    dir,       \* the archives in the directory
    whole,     \* those of them that are complete zip files
    taken,     \* names an exporter has used
    diskFaults,
    known      \* history, per instance: the successes it read or recorded itself

backupVars == <<runner, writing, state, saved, dir, whole, taken, diskFaults, known>>

BackupState == [result : {"none", "failed", "success"}, success : Archives \cup {NoArchive}]
Blank == [result |-> "none", success |-> NoArchive]

BackupTypeOK ==
    /\ runner \in [Instances -> {"none", "idle", "exporting", "dead"}]
    /\ writing \in [Instances -> Archives \cup {NoArchive}]
    /\ state \in [Instances -> BackupState]
    /\ saved \in BackupState
    /\ dir \subseteq taken /\ whole \subseteq dir /\ taken \subseteq Archives
    /\ diskFaults \in 0..MaxDiskFaults /\ known \in [Instances -> SUBSET Archives]
    /\ \A i \in Instances : runner[i] = "exporting" <=> writing[i] # NoArchive

BackupInit ==
    /\ runner = [i \in Instances |-> "none"]
    /\ writing = [i \in Instances |-> NoArchive]
    /\ state = [i \in Instances |-> Blank]
    /\ saved = Blank
    /\ dir = {} /\ whole = {} /\ taken = {}
    /\ diskFaults = 0
    /\ known = [i \in Instances |-> {}]

\* BackupRunner.__init__: the file is read once; a file that cannot be read
\* counts as no history, and stays as it is until the next result is written.
NewRunner(i) ==
    /\ runner[i] = "none"
    /\ runner' = [runner EXCEPT ![i] = "idle"]
    /\ \/ state' = [state EXCEPT ![i] = saved] /\ UNCHANGED diskFaults
       \/ /\ diskFaults < MaxDiskFaults /\ diskFaults' = diskFaults + 1
          /\ state' = [state EXCEPT ![i] = Blank]
    /\ known' = [known EXCEPT ![i] = {state'[i].success} \ {NoArchive}]
    /\ UNCHANGED <<writing, saved, dir, whole, taken>>

\* run() up to its first await: an earlier backup that is still going on, an
\* absent exporter or a bad directory send the caller away (the state stays).
RunBackup(i) ==
    /\ runner[i] = "idle"
    /\ \E a \in Archives :
          /\ \A b \in taken : b < a
          /\ \A b \in Archives : b < a => b \in taken
          /\ writing' = [writing EXCEPT ![i] = a]
          /\ dir' = dir \cup {a}
          /\ taken' = taken \cup {a}
    /\ runner' = [runner EXCEPT ![i] = "exporting"]
    /\ UNCHANGED <<state, saved, whole, diskFaults, known>>

ResultOnly(i, r) ==
    [result |-> r, success |-> IF r = "success" THEN writing[i] ELSE NoArchive]
ResultEager(i, r) == [result |-> r, success |-> writing[i]]
Result(i, r) ==
    [result |-> r, success |-> IF r = "success" THEN writing[i] ELSE state[i].success]
\* _persist: memory first, then the file; a failing write is ignored.
Persist(i, r) ==
    /\ state' = [state EXCEPT ![i] = Result(i, r)]
    /\ \/ saved' = Result(i, r) /\ UNCHANGED diskFaults
       \/ diskFaults < MaxDiskFaults /\ diskFaults' = diskFaults + 1 /\ UNCHANGED saved

EndRunKeeps(i) ==
    /\ runner[i] = "exporting"
    /\ runner' = [runner EXCEPT ![i] = "idle"]
    /\ UNCHANGED writing
EndRun(i) ==
    /\ runner[i] = "exporting"
    /\ runner' = [runner EXCEPT ![i] = "idle"]
    /\ writing' = [writing EXCEPT ![i] = NoArchive]

\* export_all returns: the archive is complete, if nobody removed it.
ExportDone(i) ==
    /\ EndRun(i)
    /\ Persist(i, "success")
    /\ whole' = whole \cup ({writing[i]} \cap dir)
    /\ known' = [known EXCEPT ![i] = @ \cup {writing[i]}]
    /\ UNCHANGED <<dir, taken>>

\* export_all raises, and leaves a truncated file or none.
ExportRaises(i) ==
    /\ EndRun(i)
    /\ Persist(i, "failed")
    /\ dir' \in {dir, dir \ {writing[i]}}
    /\ UNCHANGED <<whole, taken, known>>

\* _delete_backup_file: refused while the runner of this instance is busy.
MayDelete(i, a) == runner[i] = "idle" /\ a \in dir
DeleteArchive(i, a) ==
    /\ MayDelete(i, a)
    /\ dir' = dir \ {a}
    /\ whole' = whole \ {a}
    /\ UNCHANGED <<runner, writing, state, saved, taken, diskFaults, known>>

\* The process dies: the file under way stays, truncated.
RunnersDie ==
    /\ runner' = [i \in Instances |-> IF runner[i] = "none" THEN "none" ELSE "dead"]
    /\ writing' = [i \in Instances |-> NoArchive]
    /\ UNCHANGED <<state, saved, dir, whole, taken, diskFaults, known>>

---------------------------------------------------------------------------
\* last_success changes by the end of a backup only, and a backup never takes
\* back a success that its runner has heard of, read when it was made or
\* recorded itself ("even if later ones fail", the comment at line 273),
\* whatever failed, died or could not be written since.  The file may go back
\* on a success recorded by another runner, or by one that could not read it.
SuccessKept ==
    [][ saved'.success # saved.success
        => \E i \in Instances :
              /\ runner[i] = "exporting" /\ runner'[i] # "exporting"
              /\ saved.success \in known[i]
                    => /\ saved'.success # NoArchive
                       /\ saved'.success > saved.success ]_backupVars

\* What the file calls the last success is a complete archive for as long as
\* it is there, whatever was truncated by failures and deaths around it.
SuccessWhole ==
    saved.success # NoArchive => saved.success \in whole \/ saved.success \notin dir
=============================================================================
