------------------------ MODULE FileLeaseLockProofs ------------------------
(***************************************************************************)
(* What FileLeaseLock guarantees for every number of processes and every   *)
(* lease: exclusion until a lock file expires, and full mutual exclusion   *)
(* when nothing crashes and every critical section fits in the lease.      *)
(***************************************************************************)
EXTENDS FileLeaseLock, TLAPS

\* The type invariant holds: the loop counter and the ages stay in range.
THEOREM Typing == Spec => []TypeOK
<1>1. Init => TypeOK
  <2> SUFFICES ASSUME Init PROVE TypeOK
    OBVIOUS
  <2>1. 0 \in 0..(Lease + 1) /\ 0 \in 0..MaxHold /\ 0 \in 0..MaxCrashes
    BY LeaseAssumption
  <2>2. pc \in [Procs -> States] /\ tries \in [Procs -> 0..2] /\ heldFor \in [Procs -> 0..MaxHold]
    BY <2>1 DEF Init, States
  <2> QED
    BY <2>1, <2>2 DEF Init, TypeOK
<1>2. TypeOK /\ [Next]_vars => TypeOK'
  <2> SUFFICES ASSUME TypeOK, [Next]_vars PROVE TypeOK'
    OBVIOUS
  <2> USE LeaseAssumption DEF TypeOK, States, Goto, Retry, Expired, Holders
  <2>1. CASE Tick
    BY <2>1 DEF Tick
  <2>2. ASSUME NEW p \in Procs, Acquire(p) PROVE TypeOK'
    BY <2>2 DEF Acquire
  <2>3. ASSUME NEW p \in Procs, Create(p) PROVE TypeOK'
    BY <2>3 DEF Create
  <2>4. ASSUME NEW p \in Procs, CreateExists(p) PROVE TypeOK'
    BY <2>4 DEF CreateExists
  <2>5. ASSUME NEW p \in Procs, Stat(p) PROVE TypeOK'
    BY <2>5 DEF Stat
  <2>6. ASSUME NEW p \in Procs, Unlink(p) PROVE TypeOK'
    BY <2>6 DEF Unlink
  <2>7. ASSUME NEW p \in Procs, Release(p) PROVE TypeOK'
    BY <2>7 DEF Release
  <2>8. ASSUME NEW p \in Procs, Crash(p) PROVE TypeOK'
    BY <2>8 DEF Crash
  <2>9. ASSUME NEW p \in Procs, Restart(p) PROVE TypeOK'
    BY <2>9 DEF Restart
  <2>10. CASE UNCHANGED vars
    BY <2>10 DEF vars
  <2> QED
    BY <2>1, <2>2, <2>3, <2>4, <2>5, <2>6, <2>7, <2>8, <2>9, <2>10
    DEF Next, Step
<1> QED
  BY <1>1, <1>2, PTL DEF Spec

---------------------------------------------------------------------------
\* Until a file expires, no process is about to unlink one and the file on
\* disk belongs to whoever is in its critical section.
Unexpired ==
    /\ ~Expired
    /\ \A p \in Procs : pc[p] # "unlink"
    /\ \A p \in Holders : file = p

ExpiryInv == overdue \/ Unexpired

\* No step makes a process steal or share the lock before a file expires.
LEMMA ExpiryStep == TypeOK /\ ExpiryInv /\ [Next]_vars => ExpiryInv'
<1> SUFFICES ASSUME TypeOK, ExpiryInv, [Next]_vars, ~overdue'
             PROVE Unexpired'
  BY DEF ExpiryInv
<1> USE LeaseAssumption DEF TypeOK, States, Goto, Retry, Expired, Holders, Unexpired
<1>0. ~overdue
  BY DEF Next, Step, Tick, Acquire, Create, CreateExists, Stat, Unlink, Release, Crash, Restart, vars
<1>i. Unexpired
  BY <1>0 DEF ExpiryInv
<1>1. CASE Tick
  BY <1>1, <1>i DEF Tick
<1>2. ASSUME NEW p \in Procs, Acquire(p) PROVE Unexpired'
  BY <1>2, <1>i DEF Acquire
<1>3. ASSUME NEW p \in Procs, Create(p) PROVE Unexpired'
  BY <1>3, <1>i DEF Create
<1>4. ASSUME NEW p \in Procs, CreateExists(p) PROVE Unexpired'
  BY <1>4, <1>i DEF CreateExists
<1>5. ASSUME NEW p \in Procs, Stat(p) PROVE Unexpired'
  BY <1>5, <1>i DEF Stat
<1>6. ASSUME NEW p \in Procs, Unlink(p) PROVE Unexpired'
  BY <1>6, <1>i DEF Unlink
<1>7. ASSUME NEW p \in Procs, Release(p) PROVE Unexpired'
  BY <1>7, <1>i DEF Release
<1>8. ASSUME NEW p \in Procs, Crash(p) PROVE Unexpired'
  BY <1>8, <1>i DEF Crash
<1>9. ASSUME NEW p \in Procs, Restart(p) PROVE Unexpired'
  BY <1>9, <1>i DEF Restart
<1>10. CASE UNCHANGED vars
  BY <1>10, <1>i DEF vars
<1> QED
  BY <1>1, <1>2, <1>3, <1>4, <1>5, <1>6, <1>7, <1>8, <1>9, <1>10
  DEF Next, Step

\* The strengthening is an invariant.
LEMMA ExpiryInvariant == Spec => []ExpiryInv
<1>1. Init => ExpiryInv
  BY LeaseAssumption DEF Init, ExpiryInv, Unexpired, Expired, Holders
<1> QED
  BY <1>1, ExpiryStep, Typing, PTL DEF Spec

\* The first theft can only follow the expiry of a lock file: before it, at
\* most one batch is in the critical section and it owns the file on disk,
\* however many refused attempts, crashes and restarts have happened.
THEOREM ExclusionUntilExpiry == Spec => []ExclusionBeforeExpiry
<1>1. ExpiryInv => ExclusionBeforeExpiry
  BY DEF ExpiryInv, Unexpired, ExclusionBeforeExpiry, MutualExclusion
<1> QED
  BY <1>1, ExpiryInvariant, PTL

---------------------------------------------------------------------------
\* Nothing crashes and critical sections fit in the lease: then every lock
\* file has its creator in the critical section and is no older than it.
FileIsHeld ==
    /\ ~overdue
    /\ \A p \in Procs : pc[p] # "down"
    /\ file # NoProc => file \in Holders /\ age <= heldFor[file]
    /\ file = NoProc => age = 0

\* When no process crashes and every batch finishes within the lease, at most
\* one process ever holds the lock: the promise of README.md:32 with the two
\* conditions it needs.
THEOREM TimelyMutualExclusion ==
  ASSUME MaxCrashes = 0, MaxHold <= Lease
  PROVE  Spec => []MutualExclusion
<1>1. Init => FileIsHeld
  BY LeaseAssumption DEF Init, FileIsHeld
<1>2. TypeOK /\ FileIsHeld /\ ExpiryInv /\ [Next]_vars => FileIsHeld'
  <2> SUFFICES ASSUME TypeOK, FileIsHeld, ExpiryInv, [Next]_vars PROVE FileIsHeld'
    OBVIOUS
  <2> USE LeaseAssumption DEF TypeOK, States, Goto, Retry, Expired, Holders, Unexpired, FileIsHeld, ExpiryInv
  <2>1. CASE Tick
    <3>1. CASE file = NoProc
      BY <2>1, <3>1 DEF Tick
    <3>2. CASE file # NoProc
      <4>1. file \in Procs /\ heldFor[file] < MaxHold /\ age <= heldFor[file]
        BY <2>1, <3>2 DEF Tick
      <4>2. age' = age + 1 /\ heldFor'[file] = heldFor[file] + 1 /\ age' <= Lease
        BY <2>1, <3>2, <4>1 DEF Tick
      <4> QED
        BY <2>1, <3>2, <4>1, <4>2 DEF Tick
    <3> QED
      BY <3>1, <3>2
  <2>2. ASSUME NEW p \in Procs, Acquire(p) PROVE FileIsHeld'
    BY <2>2 DEF Acquire
  <2>3. ASSUME NEW p \in Procs, Create(p) PROVE FileIsHeld'
    BY <2>3 DEF Create
  <2>4. ASSUME NEW p \in Procs, CreateExists(p) PROVE FileIsHeld'
    BY <2>4 DEF CreateExists
  <2>5. ASSUME NEW p \in Procs, Stat(p) PROVE FileIsHeld'
    BY <2>5 DEF Stat
  <2>6. ASSUME NEW p \in Procs, Unlink(p) PROVE FileIsHeld'
    BY <2>6 DEF Unlink
  <2>7. ASSUME NEW p \in Procs, Release(p) PROVE FileIsHeld'
    BY <2>7 DEF Release
  <2>8. ASSUME NEW p \in Procs, Crash(p) PROVE FileIsHeld'
    BY <2>8 DEF Crash
  <2>9. ASSUME NEW p \in Procs, Restart(p) PROVE FileIsHeld'
    BY <2>9 DEF Restart
  <2>10. CASE UNCHANGED vars
    BY <2>10 DEF vars
  <2> QED
    BY <2>1, <2>2, <2>3, <2>4, <2>5, <2>6, <2>7, <2>8, <2>9, <2>10
    DEF Next, Step
<1>3. FileIsHeld /\ ExpiryInv => MutualExclusion
  BY DEF FileIsHeld, ExpiryInv, Unexpired, MutualExclusion
<1> QED
  BY <1>1, <1>2, <1>3, ExpiryInvariant, Typing, PTL DEF Spec
=============================================================================
