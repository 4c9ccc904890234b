--------------------------- MODULE FileLeaseLock ---------------------------
(***************************************************************************)
(* The cross-process lock of core/adapters/storage.py: a file created with *)
(* O_EXCL whose age bounds how long it is respected.  Several processes    *)
(* (AstrBot processes on one data directory, or the old and the new        *)
(* instance of the plugin around a hot reload) contend for one path.       *)
(* One action is one system call, so that two processes may interleave     *)
(* between the stat of a file and its unlink.                              *)
(***************************************************************************)
EXTENDS Naturals

CONSTANTS
    Procs,      \* the contending lock objects, each in its own process
    Lease,      \* lease_seconds, in ticks
    MaxHold,    \* the longest a holder may stay in its critical section
    MaxCrashes, \* bound on the number of process crashes
    NoProc      \* stands for the absence of a lock file

ASSUME LeaseAssumption ==
    /\ Lease \in Nat /\ MaxHold \in Nat /\ MaxCrashes \in Nat
    /\ NoProc \notin Procs

VARIABLES
    file,       \* the process whose payload the lock file holds, or NoProc
    age,        \* now - st_mtime of the file, saturating just past the lease
    pc,         \* where each process is in acquire / hold / release
    tries,      \* iterations of the loop in acquire still allowed
    heldFor,    \* ticks since the process entered its critical section
    crashes,    \* crashes so far
    overdue     \* history: some lock file has been older than the lease

vars == <<file, age, pc, tries, heldFor, crashes, overdue>>

States == {"idle", "create", "stat", "unlink", "held", "down"}

TypeOK ==
    /\ file \in Procs \cup {NoProc}
    /\ age \in 0..(Lease + 1)
    /\ pc \in [Procs -> States]
    /\ tries \in [Procs -> 0..2]
    /\ heldFor \in [Procs -> 0..MaxHold]
    /\ crashes \in 0..MaxCrashes
    /\ overdue \in BOOLEAN

Init ==
    /\ file = NoProc
    /\ age = 0
    /\ pc = [p \in Procs |-> "idle"]
    /\ tries = [p \in Procs |-> 0]
    /\ heldFor = [p \in Procs |-> 0]
    /\ crashes = 0
    /\ overdue = FALSE

---------------------------------------------------------------------------
Goto(p, where) == pc' = [pc EXCEPT ![p] = where]

Holders == {p \in Procs : pc[p] = "held"}

\* st_mtime is older than the lease: the file may be stolen.
Expired == age > Lease

\* Mutant of Retry: the loop runs on past its last iteration.
RetryUncounted(p) ==
    /\ Goto(p, "create")
    /\ tries' = [tries EXCEPT ![p] = @ - 1]

\* The next iteration of "for _ in range(2)", or the final return False.
Retry(p) ==
    /\ Goto(p, IF tries[p] > 0 THEN "create" ELSE "idle")
    /\ tries' = [tries EXCEPT ![p] = IF @ > 0 THEN @ - 1 ELSE 0]

---------------------------------------------------------------------------
\* acquire() is called: the first of two iterations begins.
Acquire(p) ==
    /\ pc[p] = "idle"
    /\ Goto(p, "create")
    /\ tries' = [tries EXCEPT ![p] = 1]
    /\ UNCHANGED <<file, age, heldFor, crashes, overdue>>

\* os.open(O_CREAT | O_EXCL) succeeds: the caller owns the lock.
Create(p) ==
    /\ pc[p] = "create"
    /\ file = NoProc
    /\ file' = p
    /\ age' = 0
    /\ heldFor' = [heldFor EXCEPT ![p] = 0]
    /\ Goto(p, "held")
    /\ UNCHANGED <<tries, crashes, overdue>>

\* os.open raises FileExistsError.
CreateExists(p) ==
    /\ pc[p] = "create"
    /\ file # NoProc
    /\ Goto(p, "stat")
    /\ UNCHANGED <<file, age, tries, heldFor, crashes, overdue>>

\* Mutants of Stat: the lease is not compared; a stale file is respected.
StatIgnoresLease(p) ==
    /\ pc[p] = "stat"
    /\ \/ file = NoProc /\ Retry(p)
       \/ file # NoProc /\ Goto(p, "unlink") /\ UNCHANGED tries
    /\ UNCHANGED <<file, age, heldFor, crashes, overdue>>
StatNeverSteals(p) ==
    /\ pc[p] = "stat"
    /\ Goto(p, "idle")
    /\ UNCHANGED <<file, age, tries, heldFor, crashes, overdue>>

\* stat: the file vanished (next iteration), is fresh (return False) or stale.
Stat(p) ==
    /\ pc[p] = "stat"
    /\ \/ file = NoProc /\ Retry(p)
       \/ file # NoProc /\ ~Expired /\ Goto(p, "idle") /\ UNCHANGED tries
       \/ file # NoProc /\ Expired /\ Goto(p, "unlink") /\ UNCHANGED tries
    /\ UNCHANGED <<file, age, heldFor, crashes, overdue>>

\* unlink of the path, whatever file is there by now.
Unlink(p) ==
    /\ pc[p] = "unlink"
    /\ file' = NoProc
    /\ age' = 0
    /\ Retry(p)
    /\ UNCHANGED <<heldFor, crashes, overdue>>

\* release(): _owned is set, so the path is unlinked without looking at it.
Release(p) ==
    /\ pc[p] = "held"
    /\ file' = NoProc
    /\ age' = 0
    /\ Goto(p, "idle")
    /\ UNCHANGED <<tries, heldFor, crashes, overdue>>

\* The process dies anywhere; the file, if any, stays.
Crash(p) ==
    /\ pc[p] # "down"
    /\ crashes < MaxCrashes
    /\ crashes' = crashes + 1
    /\ Goto(p, "down")
    /\ UNCHANGED <<file, age, tries, heldFor, overdue>>

Restart(p) ==
    /\ pc[p] = "down"
    /\ Goto(p, "idle")
    /\ UNCHANGED <<file, age, tries, heldFor, crashes, overdue>>

\* Time passes, as long as no holder outlives MaxHold.
Tick ==
    /\ \A p \in Holders : heldFor[p] < MaxHold
    /\ heldFor' = [p \in Procs |-> IF p \in Holders THEN heldFor[p] + 1 ELSE heldFor[p]]
    /\ age' = IF file # NoProc /\ ~Expired THEN age + 1 ELSE age
    /\ overdue' = (overdue \/ age' > Lease)
    /\ UNCHANGED <<file, pc, tries, crashes>>

Step(p) ==
    \/ Acquire(p) \/ Create(p) \/ CreateExists(p) \/ Stat(p) \/ Unlink(p)
    \/ Release(p) \/ Restart(p)

Next == Tick \/ \E p \in Procs : Step(p) \/ Crash(p)

Spec == Init /\ [][Next]_vars

\* Time passes, every process that contends goes on, and every process tries
\* again later: the daily rule and the administrator repeat a refused batch.
FairSpec ==
    /\ Spec
    /\ WF_vars(Tick)
    /\ \A p \in Procs : WF_vars(Step(p))

---------------------------------------------------------------------------
\* At most one process is between acquire() and release(): "one transaction
\* plus the lease file lock rules concurrency out" (README.md:32).
MutualExclusion == \A p, q \in Holders : p = q

\* As long as no lock file ever outlived its lease, at most one process is in
\* its critical section and the file on disk is its own, whatever crashes and
\* refused attempts came before: release() then unlinks no one else's file.
ExclusionBeforeExpiry ==
    ~overdue => MutualExclusion /\ \A p \in Holders : file = p

\* A lock file is always replaced or removed in the end, even if the process
\* that created it is gone: a crash cannot block updates for ever.
LockIsFreed == \A p \in Procs : (file = p /\ pc[p] # "held") ~> (file # p \/ pc[p] = "held")
=============================================================================
