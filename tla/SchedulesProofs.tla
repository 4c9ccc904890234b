-------------------------- MODULE SchedulesProofs --------------------------
(***************************************************************************)
(* The promises of Schedules and of its BackupRun for any number of        *)
(* clients, instances, firings, archives, failures and deaths: the types,  *)
(* NoLostRule, StaleJobsHarmless, SuccessWhole, SuccessKept and            *)
(* SettledJobs.  Each has the invariant that makes it inductive; the last  *)
(* needs to know how far the one reschedule of a calm kind has got.        *)
(***************************************************************************)
EXTENDS Schedules, FiniteSetTheorems, WellFoundedInduction, TLAPS

---------------------------------------------------------------------------
(* Types.                                                                  *)

Ops == {"none", "rule", "command", "config", "backup", "init", "close"}
Todos == {<<>>, <<"rule">>, <<"backup">>, <<"rule", "backup">>, <<"backup", "rule">>}
Task == [pc : Stage, inst : Instances, op : Ops, todo : Todos, add : BOOLEAN,
         base : Nat, listed : SUBSET Nat, rev : Nat]
Job == [id : Nat, kind : Kinds, inst : Instances, rev : Nat]
Firing == [pc : {"none", "sleep", "running", "done"}, inst : Instances, rev : Nat]

JobsTyped ==
    /\ jobs \subseteq Job /\ minted \in Nat
    /\ \A j \in jobs : j.id \in 1..minted /\ j.rev \in 0..rule.rev
TasksTyped ==
    /\ task \in [Tasks -> Task]
    /\ \A t \in Tasks :
          /\ task[t].base \in 0..rule.rev /\ task[t].rev \in 0..rule.rev
          /\ task[t].listed \subseteq 1..minted
          /\ Rescheduling(t) => task[t].todo # <<>>
          /\ task[t].pc = "scan" => task[t].op = "rule"
SchedulesTyped ==
    /\ rule \in Rule /\ conf \in Conf /\ mem \in [Instances -> Conf]
    /\ live \in Instances \cup {0}
    /\ JobsTyped /\ TasksTyped /\ firing \in [Fires -> Firing]
    /\ faults \in 0..MaxCronFaults /\ deaths \in 0..MaxDeaths
    /\ calm \in [Kinds -> BOOLEAN]

---------------------------------------------------------------------------
(* What makes the promises inductive.                                      *)

\* No two runners write one archive, it is not complete before it is done, and
\* what anybody calls a success was written once and is complete or gone.
Success(s) == s # NoArchive => s \in taken /\ (s \in whole \/ s \notin dir)
WritersAlone ==
    \A i \in Instances : writing[i] # NoArchive =>
        /\ writing[i] \in taken \ whole
        /\ \A j \in Instances : writing[j] = writing[i] => j = i
ArchivesInv ==
    WritersAlone /\ Success(saved.success) /\ \A i \in Instances : Success(state[i].success)

\* Whoever has heard of a success remembers one that is no older, and writes a
\* newer archive.
RunnersInv == \A i \in Instances : \A s \in known[i] :
    /\ s \in taken /\ state[i].success # NoArchive /\ s <= state[i].success
    /\ runner[i] = "exporting" => s < writing[i]

\* What a reschedule has listed is of the kind it works on.
ListedRight == \A t \in Tasks :
    /\ task[t].pc = "list" => task[t].listed = {}
    /\ task[t].pc = "delete" =>
          \A j \in jobs : j.id \in task[t].listed => j.kind = Head(task[t].todo)

\* The job that is called for, and being exactly there.
Called(kind) == IF kind = "rule" THEN Effective ELSE mem[live].backup = "on"
Exact(kind) ==
    /\ ~Called(kind) => JobsOf(kind) = {}
    /\ Called(kind) => \E j \in jobs :
          /\ JobsOf(kind) = {j} /\ j.inst = live
          /\ kind = "rule" => j.rev = rule.rev

\* A reschedule of a calm kind is the only one, of the instance that serves,
\* and knows what it needs to make the jobs exact.
Concerns(t, kind) == Rescheduling(t) /\ Has(task[t].todo, kind)
OnCourse(t, kind) ==
    /\ task[t].inst = live /\ task[t].op # "close"
    /\ kind = "rule" /\ Head(task[t].todo) # kind => task[t].op = "config"
    /\ Head(task[t].todo) = kind =>
          /\ kind = "rule" => (task[t].add /\ rule.enabled <=> Effective)
          /\ kind = "backup" => task[t].add
          /\ task[t].pc = "delete" => Ids(kind) \subseteq task[t].listed
          /\ task[t].pc = "add" =>
                /\ JobsOf(kind) = {} /\ Called(kind)
                /\ kind = "rule" => task[t].rev = rule.rev
CalmInv(kind) == live # 0 /\ calm[kind] =>
    /\ \A t, u \in Tasks : Concerns(t, kind) /\ Concerns(u, kind) => t = u
    /\ \A t \in Tasks : Concerns(t, kind) => OnCourse(t, kind)
    /\ (\A t \in Tasks : ~Concerns(t, kind)) => Exact(kind)
IdsUnique == \A i, j \in jobs : i.id = j.id => i = j
SettledInv == IdsUnique /\ ListedRight /\ \A k \in Kinds : CalmInv(k)

BackupInv == BackupTypeOK /\ ArchivesInv /\ RunnersInv
SchedulesInv == SchedulesTyped /\ NoLostRule /\ BackupInv /\ SettledInv

---------------------------------------------------------------------------
(* Helpers.                                                                *)

\* Every set of naturals that is not empty has a least element.
LEMMA LeastOf ==
    ASSUME NEW S, S \subseteq Nat, S # {}
    PROVE  \E i \in S : \A j \in S : i <= j
<1>1. IsWellFoundedOn(OpToRel(<, Nat), Nat)
  BY NatLessThanWellFounded
<1>2. PICK i \in S : \A j \in S : ~ (<<j, i>> \in OpToRel(<, Nat))
  BY <1>1, WFMin, Zenon
<1>3. \A j \in S : ~ (j < i)
  BY <1>2 DEF OpToRel
<1> QED
  BY <1>3

LEMMA FirstIsInstance == First \in Instances
<1>1. \E i \in Instances : \A j \in Instances : i <= j
  BY LeastOf, BackupAssumption, SchedulesAssumption
<1> QED
  BY <1>1, Zenon DEF First

LEMMA IdleIsTask ==
    /\ Idle \in Task /\ Idle.pc = "idle" /\ Idle.base = 0 /\ Idle.rev = 0 /\ Idle.listed = {}
    /\ [Idle EXCEPT !.pc = "done"] \in Task
  BY FirstIsInstance DEF Idle, Task, Stage, Ops, Todos

\* What a task still has to reschedule: at most the two kinds, each once.
LEMMA TodoFacts ==
    ASSUME NEW s \in Todos, s # <<>>
    PROVE  /\ Head(s) \in Kinds /\ Tail(s) \in Todos /\ ~Has(Tail(s), Head(s))
           /\ \A k \in Kinds : Has(s, k) <=> k = Head(s) \/ Has(Tail(s), k)
           /\ Tail(s) # <<>> => \A k \in Kinds \ {Head(s)} : Head(Tail(s)) = k
<1>1. CASE s = <<"rule">>
  BY <1>1 DEF Todos, Kinds, Has
<1>2. CASE s = <<"backup">>
  BY <1>2 DEF Todos, Kinds, Has
<1>3. CASE s = <<"rule", "backup">>
  <2>1. Head(s) = "rule" /\ Tail(s) = <<"backup">>
    BY <1>3
  <2> QED
    BY <1>3, <2>1 DEF Todos, Kinds, Has
<1>4. CASE s = <<"backup", "rule">>
  <2>1. Head(s) = "backup" /\ Tail(s) = <<"rule">>
    BY <1>4
  <2> QED
    BY <1>4, <2>1 DEF Todos, Kinds, Has
<1> QED
  BY <1>1, <1>2, <1>3, <1>4 DEF Todos

LEMMA NothingLeft == <<>> \in Todos /\ \A k : ~Has(<<>>, k)
  BY DEF Todos, Has

LEMMA WantedIsBoolean ==
    ASSUME NEW op, NEW kind, NEW c \in Conf, NEW e \in BOOLEAN
    PROVE  Wanted(op, kind, c, e) \in BOOLEAN
  BY Zenon DEF Wanted

\* Going on with the next kind, or with none.
LEMMA EnterFacts ==
    ASSUME NEW r \in Task, NEW s \in Todos, NEW c \in Conf, NEW e \in BOOLEAN,
           NEW q, q = Enter(r, s, c, e)
    PROVE  /\ q \in Task /\ q.op = r.op /\ q.inst = r.inst /\ q.todo = s /\ q.listed = {}
           /\ s = <<>> => q.pc = "done" /\ q.base = 0 /\ q.rev = 0
           /\ s # <<>> => /\ q.pc = "list" /\ q.base = r.base /\ q.rev = r.rev
                          /\ q.add = Wanted(r.op, Head(s), c, e)
<1>1. CASE s = <<>>
  <2>1. q = [Idle EXCEPT !.pc = "done", !.op = r.op, !.inst = r.inst]
    BY <1>1 DEF Enter
  <2> QED
    BY <1>1, <2>1, IdleIsTask DEF Idle, Task, Stage
<1>2. CASE s # <<>>
  <2> DEFINE w == Wanted(r.op, Head(s), c, e)
  <2>1. w \in BOOLEAN
    BY WantedIsBoolean
  <2>2. q = [r EXCEPT !.pc = "list", !.todo = s, !.listed = {}, !.add = w]
    BY <1>2, Zenon DEF Enter
  <2> HIDE DEF w
  <2>3. /\ q \in Task /\ q.op = r.op /\ q.inst = r.inst /\ q.todo = s /\ q.listed = {}
        /\ q.pc = "list" /\ q.base = r.base /\ q.rev = r.rev /\ q.add = w
    BY <2>1, <2>2 DEF Task, Stage
  <2> QED
    BY <1>2, <2>3 DEF w
<1> QED
  BY <1>1, <1>2

---------------------------------------------------------------------------
(* The runner and its archives.                                            *)

BackupStep ==
    \/ \E i \in Instances :
          NewRunner(i) \/ RunBackup(i) \/ ExportDone(i) \/ ExportRaises(i)
          \/ \E a \in Archives : DeleteArchive(i, a)
    \/ RunnersDie \/ UNCHANGED backupVars
\* The file changes by the end of a backup only, and does not go back on what
\* its runner has heard of.
Kept ==
    saved'.success # saved.success
    => \E i \in Instances :
          /\ runner[i] = "exporting" /\ runner'[i] # "exporting"
          /\ saved.success \in known[i]
                => saved'.success # NoArchive /\ saved'.success > saved.success

LEMMA NewRunnerSound ==
    ASSUME BackupInv, NEW i \in Instances, NewRunner(i)
    PROVE  BackupInv' /\ Kept
<1>1. /\ runner[i] = "none" /\ runner' = [runner EXCEPT ![i] = "idle"]
      /\ UNCHANGED <<writing, saved, dir, whole, taken>>
  BY DEF NewRunner
<1>2. PICK new \in {saved, Blank} :
        /\ state' = [state EXCEPT ![i] = new] /\ diskFaults' \in 0..MaxDiskFaults
        /\ known' = [known EXCEPT ![i] = {new.success} \ {NoArchive}]
  <2>1. known' = [known EXCEPT ![i] = {state'[i].success} \ {NoArchive}]
    BY DEF NewRunner
  <2>2. CASE state' = [state EXCEPT ![i] = saved] /\ UNCHANGED diskFaults
    <3>1. state'[i] = saved /\ diskFaults' \in 0..MaxDiskFaults
      BY <2>2 DEF BackupInv, BackupTypeOK
    <3> QED
      BY <2>1, <2>2, <3>1
  <2>3. CASE /\ diskFaults < MaxDiskFaults /\ diskFaults' = diskFaults + 1
             /\ state' = [state EXCEPT ![i] = Blank]
    <3>1. state'[i] = Blank /\ diskFaults' \in 0..MaxDiskFaults
      BY <2>3, BackupAssumption DEF BackupInv, BackupTypeOK
    <3> QED
      BY <2>1, <2>3, <3>1
  <2> QED
    BY <2>2, <2>3 DEF NewRunner
<1>3. new \in BackupState /\ Success(new.success)
  BY DEF BackupInv, BackupTypeOK, BackupState, ArchivesInv, Success, Blank
<1>4. BackupTypeOK'
  BY <1>1, <1>2, <1>3 DEF BackupInv, BackupTypeOK, BackupState
<1>5. ArchivesInv'
  BY <1>1, <1>2, <1>3 DEF BackupInv, BackupTypeOK, ArchivesInv, WritersAlone, Success
<1>6. RunnersInv'
  <2> SUFFICES ASSUME NEW j \in Instances, NEW s \in known'[j]
               PROVE  /\ s \in taken' /\ state'[j].success # NoArchive /\ s <= state'[j].success
                      /\ runner'[j] = "exporting" => s < writing'[j]
    BY DEF RunnersInv
  <2>1. CASE j = i
    <3>1. s = new.success /\ s # NoArchive /\ state'[j] = new /\ runner'[j] = "idle"
      BY <1>1, <1>2, <2>1 DEF BackupInv, BackupTypeOK
    <3>2. s \in taken /\ s \in Nat
      BY <1>3, <3>1, BackupAssumption DEF Success, BackupState
    <3> QED
      BY <1>1, <3>1, <3>2
  <2>2. CASE j # i
    <3>1. /\ s \in known[j] /\ state'[j] = state[j]
          /\ runner'[j] = runner[j] /\ writing'[j] = writing[j]
      BY <1>1, <1>2, <2>2 DEF BackupInv, BackupTypeOK
    <3> QED
      BY <1>1, <3>1 DEF BackupInv, RunnersInv
  <2> QED
    BY <2>1, <2>2
<1>7. Kept
  BY <1>1 DEF Kept
<1> QED
  BY <1>4, <1>5, <1>6, <1>7 DEF BackupInv

LEMMA RunBackupSound ==
    ASSUME BackupInv, NEW i \in Instances, RunBackup(i)
    PROVE  BackupInv' /\ Kept
<1>1. PICK a \in Archives :
        /\ \A b \in taken : b < a
        /\ writing' = [writing EXCEPT ![i] = a] /\ dir' = dir \cup {a} /\ taken' = taken \cup {a}
  BY DEF RunBackup
<1>2. /\ runner[i] = "idle" /\ runner' = [runner EXCEPT ![i] = "exporting"]
      /\ UNCHANGED <<state, saved, whole, diskFaults, known>>
  BY DEF RunBackup
<1>3. a \notin taken /\ a # NoArchive /\ a \in Nat
  BY <1>1, BackupAssumption DEF BackupInv, BackupTypeOK
<1>4. BackupTypeOK'
  BY <1>1, <1>2, <1>3 DEF BackupInv, BackupTypeOK
<1>5. ArchivesInv'
  BY <1>1, <1>2, <1>3 DEF BackupInv, BackupTypeOK, ArchivesInv, WritersAlone, Success
<1>6. RunnersInv'
  BY <1>1, <1>2 DEF BackupInv, BackupTypeOK, RunnersInv
<1>7. Kept
  BY <1>2 DEF Kept
<1> QED
  BY <1>4, <1>5, <1>6, <1>7 DEF BackupInv

\* What both ends of an export have in common.
LEMMA EndFacts ==
    ASSUME BackupInv, NEW i \in Instances, EndRun(i), UNCHANGED taken,
           NEW r \in {"failed", "success"}, Persist(i, r),
           known' = IF r = "success" THEN [known EXCEPT ![i] = @ \cup {writing[i]}] ELSE known
    PROVE  /\ writing[i] \in taken /\ writing[i] # NoArchive
           /\ runner' = [runner EXCEPT ![i] = "idle"] /\ writing' = [writing EXCEPT ![i] = NoArchive]
           /\ Result(i, r) \in BackupState
           /\ Result(i, r).success = IF r = "success" THEN writing[i] ELSE state[i].success
           /\ state' = [state EXCEPT ![i] = Result(i, r)]
           /\ saved' \in {saved, Result(i, r)} /\ diskFaults' \in 0..MaxDiskFaults
           /\ known' \in [Instances -> SUBSET Archives]
           /\ RunnersInv' /\ Kept
<1>1. /\ runner[i] = "exporting" /\ writing[i] \in taken /\ writing[i] # NoArchive
      /\ runner' = [runner EXCEPT ![i] = "idle"] /\ writing' = [writing EXCEPT ![i] = NoArchive]
  BY DEF EndRun, BackupInv, BackupTypeOK, ArchivesInv, WritersAlone
<1> DEFINE new == Result(i, r)
<1>2. new \in BackupState /\ new.success = IF r = "success" THEN writing[i] ELSE state[i].success
  BY <1>1 DEF Result, BackupState, BackupInv, BackupTypeOK
<1>3. /\ state' = [state EXCEPT ![i] = new] /\ saved' \in {saved, new}
      /\ diskFaults' \in 0..MaxDiskFaults
  BY BackupAssumption DEF Persist, BackupInv, BackupTypeOK
<1> HIDE DEF new
<1>4. writing[i] \in Nat /\ (new.success # NoArchive => new.success \in Nat)
  BY <1>1, <1>2, BackupAssumption DEF BackupInv, BackupTypeOK, BackupState
<1>5. ASSUME NEW s \in known[i]
      PROVE  s \in Nat /\ s < writing[i] /\ new.success # NoArchive /\ s <= new.success
  <2>1. /\ s \in taken /\ state[i].success # NoArchive /\ s <= state[i].success
        /\ s < writing[i] /\ s \in Nat
    BY <1>1, BackupAssumption DEF BackupInv, BackupTypeOK, RunnersInv
  <2> QED
    BY <1>1, <1>2, <1>4, <2>1
<1>6. known' \in [Instances -> SUBSET Archives]
  BY <1>1 DEF BackupInv, BackupTypeOK
<1>7. RunnersInv'
  <2> SUFFICES ASSUME NEW j \in Instances, NEW s \in known'[j]
               PROVE  /\ s \in taken' /\ state'[j].success # NoArchive /\ s <= state'[j].success
                      /\ runner'[j] = "exporting" => s < writing'[j]
    BY DEF RunnersInv
  <2>1. CASE j = i
    <3>1. state'[j] = new /\ runner'[j] = "idle"
      BY <1>1, <1>3, <2>1 DEF BackupInv, BackupTypeOK
    <3>2. s \in known[i] \/ (r = "success" /\ s = writing[i])
      BY <2>1 DEF BackupInv, BackupTypeOK
    <3>3. CASE s \in known[i]
      BY <1>5, <3>1, <3>3, <2>1 DEF BackupInv, RunnersInv
    <3>4. CASE r = "success" /\ s = writing[i]
      BY <1>1, <1>2, <1>4, <3>1, <3>4
    <3> QED
      BY <3>2, <3>3, <3>4
  <2>2. CASE j # i
    <3>1. /\ s \in known[j] /\ state'[j] = state[j]
          /\ runner'[j] = runner[j] /\ writing'[j] = writing[j]
      BY <1>1, <1>3, <2>2 DEF BackupInv, BackupTypeOK
    <3> QED
      BY <3>1 DEF BackupInv, RunnersInv
  <2> QED
    BY <2>1, <2>2
<1>8. Kept
  <2> SUFFICES ASSUME saved'.success # saved.success
               PROVE  /\ runner[i] = "exporting" /\ runner'[i] # "exporting"
                      /\ saved.success \in known[i]
                            => saved'.success # NoArchive /\ saved'.success > saved.success
    BY DEF Kept
  <2>1. saved' = new
    BY <1>3
  <2>2. runner'[i] = "idle"
    BY <1>1 DEF BackupInv, BackupTypeOK
  <2> QED
    BY <1>1, <1>4, <1>5, <2>1, <2>2
<1> QED
  BY <1>1, <1>2, <1>3, <1>6, <1>7, <1>8 DEF new

LEMMA ExportSound ==
    ASSUME BackupInv, NEW i \in Instances, ExportDone(i) \/ ExportRaises(i)
    PROVE  BackupInv' /\ Kept
<1>1. CASE ExportDone(i)
  <2>1. /\ EndRun(i) /\ Persist(i, "success") /\ UNCHANGED <<dir, taken>>
        /\ known' = [known EXCEPT ![i] = @ \cup {writing[i]}]
    BY <1>1 DEF ExportDone
  <2>2. whole' = whole \cup ({writing[i]} \cap dir)
    BY <1>1 DEF ExportDone
  <2> DEFINE new == Result(i, "success")
  <2>3. /\ writing[i] \in taken /\ writing[i] # NoArchive
        /\ runner' = [runner EXCEPT ![i] = "idle"] /\ writing' = [writing EXCEPT ![i] = NoArchive]
        /\ new \in BackupState /\ new.success = writing[i]
        /\ state' = [state EXCEPT ![i] = new] /\ saved' \in {saved, new}
        /\ diskFaults' \in 0..MaxDiskFaults /\ known' \in [Instances -> SUBSET Archives]
        /\ RunnersInv' /\ Kept
    BY <2>1, EndFacts
  <2> HIDE DEF new
  <2>4. BackupTypeOK'
    BY <2>1, <2>2, <2>3 DEF BackupInv, BackupTypeOK
  <2>5. WritersAlone'
    BY <2>1, <2>2, <2>3 DEF BackupInv, BackupTypeOK, ArchivesInv, WritersAlone
  <2>6. \A s : Success(s) \/ s = writing[i] => Success(s)'
    BY <2>1, <2>2, <2>3 DEF Success
  <2>7. Success(saved.success)'
    BY <2>3, <2>6 DEF BackupInv, ArchivesInv
  <2>8. \A j \in Instances : Success(state[j].success)'
    BY <2>3, <2>6 DEF BackupInv, BackupTypeOK, ArchivesInv
  <2> QED
    BY <2>3, <2>4, <2>5, <2>7, <2>8 DEF BackupInv, ArchivesInv
<1>2. CASE ExportRaises(i)
  <2>1. EndRun(i) /\ Persist(i, "failed") /\ UNCHANGED <<whole, taken, known>>
    BY <1>2 DEF ExportRaises
  <2>2. dir' \in {dir, dir \ {writing[i]}}
    BY <1>2 DEF ExportRaises
  <2>3. writing[i] \notin whole
    BY <2>1, EndFacts DEF BackupInv, ArchivesInv, WritersAlone
  <2>4. BackupTypeOK'
    BY <2>1, <2>2, <2>3, EndFacts DEF BackupInv, BackupTypeOK
  <2>5. WritersAlone'
    BY <2>1, EndFacts DEF BackupInv, BackupTypeOK, ArchivesInv, WritersAlone
  <2>6. \A s : Success(s) => Success(s)'
    BY <2>1, <2>2 DEF Success
  <2> QED
    BY <2>1, <2>4, <2>5, <2>6, EndFacts DEF BackupInv, BackupTypeOK, ArchivesInv, Success
<1> QED
  BY <1>1, <1>2

LEMMA BackupStepSound ==
    ASSUME BackupInv, BackupStep
    PROVE  BackupInv' /\ Kept
<1>1. ASSUME NEW i \in Instances, NEW a \in Archives, DeleteArchive(i, a) PROVE BackupInv' /\ Kept
  <2>1. BackupTypeOK' /\ ArchivesInv'
    BY <1>1 DEF BackupInv, BackupTypeOK, ArchivesInv, DeleteArchive, MayDelete, WritersAlone, Success
  <2>2. RunnersInv'
    BY <1>1 DEF BackupInv, RunnersInv, DeleteArchive
  <2> QED
    BY <1>1, <2>1, <2>2 DEF BackupInv, DeleteArchive, Kept
<1>2. CASE RunnersDie
  <2>1. BackupTypeOK' /\ ArchivesInv'
    BY <1>2, BackupAssumption DEF BackupInv, BackupTypeOK, ArchivesInv, RunnersDie, WritersAlone, Success
  <2>2. RunnersInv'
    BY <1>2 DEF BackupInv, BackupTypeOK, RunnersInv, RunnersDie
  <2> QED
    BY <1>2, <2>1, <2>2 DEF BackupInv, RunnersDie, Kept
<1>3. CASE UNCHANGED backupVars
  BY <1>3 DEF BackupInv, BackupTypeOK, ArchivesInv, RunnersInv, backupVars,
     WritersAlone, Success, Kept
<1> QED
  BY <1>1, <1>2, <1>3, NewRunnerSound, RunBackupSound, ExportSound DEF BackupStep

LEMMA BackupInitSound == BackupInit => BackupInv
<1> SUFFICES ASSUME BackupInit PROVE BackupInv
  OBVIOUS
<1>1. BackupTypeOK
  <2>1. Blank \in BackupState
    BY DEF BackupState, Blank
  <2>2. 0 \in 0..MaxDiskFaults
    BY BackupAssumption
  <2> QED
    BY <2>1, <2>2 DEF BackupInit, BackupTypeOK
<1>2. ArchivesInv
  BY DEF BackupInit, ArchivesInv, WritersAlone, Success, Blank
<1>3. RunnersInv
  BY DEF BackupInit, RunnersInv
<1> QED
  BY <1>1, <1>2, <1>3 DEF BackupInv

---------------------------------------------------------------------------
(* Steps of tasks.                                                         *)

\* One task moves; what the others are about stays.
LEMMA MoveFacts ==
    ASSUME SchedulesTyped, NEW t \in Tasks, NEW r \in Task, task' = [task EXCEPT ![t] = r]
    PROVE  /\ task' \in [Tasks -> Task] /\ task'[t] = r
           /\ \A u \in Tasks \ {t} : task'[u] = task[u]
  BY DEF SchedulesTyped, TasksTyped

LEMMA MoveTyped ==
    ASSUME SchedulesTyped, NEW t \in Tasks, NEW r \in Task, task' = [task EXCEPT ![t] = r],
           rule' \in Rule, rule'.rev >= rule.rev, minted' \in Nat, minted' >= minted,
           r.base \in 0..rule'.rev, r.rev \in 0..rule'.rev, r.listed \subseteq 1..minted',
           r.pc \in {"list", "delete", "add"} => r.todo # <<>>, r.pc = "scan" => r.op = "rule"
    PROVE  TasksTyped'
<1>1. rule.rev \in Nat /\ minted \in Nat /\ rule'.rev \in Nat
  BY DEF SchedulesTyped, JobsTyped, Rule
<1>2. 0..rule.rev \subseteq 0..rule'.rev /\ 1..minted \subseteq 1..minted'
  BY <1>1
<1>3. task' \in [Tasks -> Task]
  BY MoveFacts
<1>4. ASSUME NEW u \in Tasks
      PROVE  /\ task'[u].base \in 0..rule'.rev /\ task'[u].rev \in 0..rule'.rev
             /\ task'[u].listed \subseteq 1..minted'
             /\ Rescheduling(u)' => task'[u].todo # <<>>
             /\ task'[u].pc = "scan" => task'[u].op = "rule"
  <2>1. CASE u = t
    BY <2>1, MoveFacts DEF Rescheduling
  <2>2. CASE u # t
    <3>1. task'[u] = task[u]
      BY <2>2, MoveFacts
    <3> QED
      BY <1>2, <3>1 DEF SchedulesTyped, TasksTyped, Rescheduling
  <2> QED
    BY <2>1, <2>2
<1> QED
  BY <1>3, <1>4 DEF TasksTyped

\* The jobs keep their type when the rule and the ids only grow.
LEMMA JobsStayTyped ==
    ASSUME SchedulesTyped, jobs' \subseteq jobs, rule' \in Rule, rule'.rev >= rule.rev,
           minted' \in Nat, minted' >= minted
    PROVE  JobsTyped'
<1>1. rule.rev \in Nat /\ minted \in Nat /\ rule'.rev \in Nat
  BY DEF SchedulesTyped, JobsTyped, Rule
<1>2. 0..rule.rev \subseteq 0..rule'.rev /\ 1..minted \subseteq 1..minted'
  BY <1>1
<1> QED
  BY <1>2 DEF SchedulesTyped, JobsTyped

\* History of calm.
LEMMA NotedFacts ==
    ASSUME SchedulesTyped, NEW t \in Tasks, NEW ok \in BOOLEAN, Rescheduling(t), Noted(t, ok)
    PROVE  /\ calm' \in [Kinds -> BOOLEAN]
           /\ \A k \in Kinds : calm'[k] => calm[k]
           /\ calm'[Head(task[t].todo)] => ok /\ ~Contended(t, Head(task[t].todo))
<1> DEFINE kind == Head(task[t].todo)
           b == calm[kind] /\ ok /\ ~Contended(t, kind)
<1>1. kind \in Kinds
  BY TodoFacts DEF SchedulesTyped, TasksTyped, Task
<1>2. calm' = [calm EXCEPT ![kind] = b] /\ b \in BOOLEAN
  BY Zenon DEF Noted
<1>3. (b => calm[kind]) /\ (b => ok /\ ~Contended(t, kind))
  BY Zenon
<1> HIDE DEF b, kind
<1>4. calm \in [Kinds -> BOOLEAN]
  BY DEF SchedulesTyped
<1>5. calm'[kind] = b
  BY <1>1, <1>2, <1>4, Zenon
<1>6. \A k \in Kinds \ {kind} : calm'[k] = calm[k]
  BY <1>2, <1>4, Zenon
<1>7. calm' \in [Kinds -> BOOLEAN]
  BY <1>2, <1>4, Zenon
<1>8. \A k \in Kinds : calm'[k] => calm[k]
  BY <1>3, <1>5, <1>6, Zenon
<1> QED
  BY <1>3, <1>5, <1>7, <1>8, Zenon DEF kind

LEMMA RestartFacts ==
    ASSUME SchedulesTyped, NEW t \in Tasks, NEW todo, NEW i, Restart(t, todo, i)
    PROVE  /\ calm' \in [Kinds -> BOOLEAN]
           /\ \A k \in Kinds : Has(todo, k) /\ calm'[k] => i = live /\ ~Contended(t, k)
           /\ \A k \in Kinds : ~Has(todo, k) => calm'[k] = calm[k]
<1> DEFINE b(k) == IF Has(todo, k) THEN i = live /\ ~Contended(t, k) ELSE calm[k]
<1>1. calm' = [k \in Kinds |-> b(k)]
  BY Zenon DEF Restart
<1>2. \A k \in Kinds : b(k) \in BOOLEAN
  BY Zenon DEF SchedulesTyped
<1>3. \A k \in Kinds : Has(todo, k) /\ b(k) => i = live /\ ~Contended(t, k)
  BY Zenon
<1>4. \A k \in Kinds : ~Has(todo, k) => b(k) = calm[k]
  BY Zenon
<1> HIDE DEF b
<1>5. \A k \in Kinds : calm'[k] = b(k)
  BY <1>1, Zenon
<1> QED
  BY <1>1, <1>2, <1>3, <1>4, <1>5, Zenon

LEMMA ContendedIs ==
    \A t, k : Contended(t, k) <=> \E u \in Tasks \ {t} : Concerns(u, k)
  BY Zenon DEF Contended, Concerns

\* Where a task goes when a kind is done.
LEMMA ProceedFacts ==
    ASSUME SchedulesTyped, NEW t \in Tasks, Rescheduling(t), NEW q, q = Proceed(t)
    PROVE  /\ q \in Task /\ q.op = task[t].op /\ q.inst = task[t].inst
           /\ q.todo = Tail(task[t].todo) /\ q.listed = {} /\ q.pc \in {"done", "list"}
           /\ q.base \in 0..rule.rev /\ q.rev \in 0..rule.rev
           /\ q.todo = <<>> <=> q.pc = "done"
           /\ q.pc = "list" => q.add = Wanted(task[t].op, Head(q.todo), mem[task[t].inst],
                                             rule.enabled)
<1>1. task[t] \in Task /\ task[t].todo \in Todos /\ task[t].todo # <<>>
  BY DEF SchedulesTyped, TasksTyped, Task
<1>2. Tail(task[t].todo) \in Todos
  BY <1>1, TodoFacts
<1>3. mem[task[t].inst] \in Conf /\ rule.enabled \in BOOLEAN /\ rule.rev \in Nat
  BY <1>1 DEF SchedulesTyped, Task, Rule
<1>4. q = Enter(task[t], Tail(task[t].todo), mem[task[t].inst], rule.enabled)
  BY DEF Proceed
<1>5. task[t].base \in 0..rule.rev /\ task[t].rev \in 0..rule.rev /\ 0 \in 0..rule.rev
  BY <1>3 DEF SchedulesTyped, TasksTyped
<1>6. /\ q \in Task /\ q.op = task[t].op /\ q.inst = task[t].inst
      /\ q.todo = Tail(task[t].todo) /\ q.listed = {}
      /\ Tail(task[t].todo) = <<>> => q.pc = "done" /\ q.base = 0 /\ q.rev = 0
      /\ Tail(task[t].todo) # <<>> =>
            /\ q.pc = "list" /\ q.base = task[t].base /\ q.rev = task[t].rev
            /\ q.add = Wanted(task[t].op, Head(Tail(task[t].todo)), mem[task[t].inst], rule.enabled)
  <2> DEFINE r == task[t]  s == Tail(task[t].todo)  c == mem[task[t].inst]  e == rule.enabled
  <2>1. r \in Task /\ s \in Todos /\ c \in Conf /\ e \in BOOLEAN /\ q = Enter(r, s, c, e)
    BY <1>1, <1>2, <1>3, <1>4
  <2>2. /\ q \in Task /\ q.op = r.op /\ q.inst = r.inst /\ q.todo = s /\ q.listed = {}
        /\ s = <<>> => q.pc = "done" /\ q.base = 0 /\ q.rev = 0
        /\ s # <<>> => /\ q.pc = "list" /\ q.base = r.base /\ q.rev = r.rev
                       /\ q.add = Wanted(r.op, Head(s), c, e)
    <3> HIDE DEF r, s, c, e
    <3> QED
      BY <2>1, EnterFacts
  <2> QED
    BY <2>2
<1>7. q.base \in 0..rule.rev /\ q.rev \in 0..rule.rev
  BY <1>5, <1>6
<1> QED
  BY <1>6, <1>7

---------------------------------------------------------------------------
(* The steps of a reschedule.                                              *)

LEMMA ReschedulingFacts ==
    ASSUME SchedulesTyped, NEW t \in Tasks, Rescheduling(t)
    PROVE  /\ task[t] \in Task /\ task[t].todo \in Todos /\ task[t].todo # <<>>
           /\ Head(task[t].todo) \in Kinds
           /\ task[t].base \in 0..rule.rev /\ task[t].rev \in 0..rule.rev
           /\ task[t].listed \subseteq 1..minted
           /\ rule.rev \in Nat /\ minted \in Nat
  BY TodoFacts DEF SchedulesTyped, TasksTyped, JobsTyped, Task, Rule

\* List: pc and listed change, to all ids of the kind if nothing fails.
LEMMA ListFacts ==
    ASSUME SchedulesTyped, NEW t \in Tasks, List(t)
    PROVE  \E r \in Task, ok \in BOOLEAN :
              /\ task' = [task EXCEPT ![t] = r] /\ Noted(t, ok)
              /\ r.pc = "delete" /\ r.todo = task[t].todo /\ r.op = task[t].op
              /\ r.inst = task[t].inst /\ r.add = task[t].add
              /\ r.base = task[t].base /\ r.rev = task[t].rev
              /\ r.listed \in {task[t].listed, Ids(Head(task[t].todo))}
              /\ ok => r.listed = Ids(Head(task[t].todo))
              /\ faults' \in 0..MaxCronFaults
              /\ Rescheduling(t) /\ task[t].pc = "list"
<1> DEFINE kind == Head(task[t].todo)
           r1 == [task[t] EXCEPT !.pc = "delete", !.listed = Ids(kind)]
           r2 == [task[t] EXCEPT !.pc = "delete"]
<1>0. task[t].pc = "list" /\ Rescheduling(t)
  BY DEF List, Rescheduling
<1>1. task[t] \in Task /\ task \in [Tasks -> Task]
  BY DEF SchedulesTyped, TasksTyped
<1>2. Ids(kind) \in SUBSET Nat
  BY DEF Ids, SchedulesTyped, JobsTyped, Job
<1>3. /\ r1 \in Task /\ r1.pc = "delete" /\ r1.todo = task[t].todo /\ r1.op = task[t].op
      /\ r1.inst = task[t].inst /\ r1.add = task[t].add
      /\ r1.base = task[t].base /\ r1.rev = task[t].rev /\ r1.listed = Ids(kind)
  BY <1>1, <1>2 DEF Task, Stage
<1>4. /\ r2 \in Task /\ r2.pc = "delete" /\ r2.todo = task[t].todo /\ r2.op = task[t].op
      /\ r2.inst = task[t].inst /\ r2.add = task[t].add
      /\ r2.base = task[t].base /\ r2.rev = task[t].rev /\ r2.listed = task[t].listed
  BY <1>1, <1>2 DEF Task, Stage
<1>5. \/ task' = [task EXCEPT ![t] = r1] /\ Noted(t, TRUE) /\ faults' \in 0..MaxCronFaults
      \/ task' = [task EXCEPT ![t] = r2] /\ Noted(t, FALSE) /\ faults' \in 0..MaxCronFaults
  <2>1. CASE /\ task' = [task EXCEPT ![t].pc = "delete", ![t].listed = Ids(kind)]
             /\ Noted(t, TRUE) /\ UNCHANGED faults
    BY <1>1, <2>1 DEF SchedulesTyped
  <2>2. CASE /\ faults < MaxCronFaults /\ faults' = faults + 1
             /\ task' = [task EXCEPT ![t].pc = "delete"] /\ Noted(t, FALSE)
    <3>1. faults' \in 0..MaxCronFaults
      BY <2>2, SchedulesAssumption DEF SchedulesTyped
    <3>2. task' = [task EXCEPT ![t] = r2]
      BY <1>1, <2>2
    <3> QED
      BY <2>2, <3>1, <3>2
  <2> QED
    BY <2>1, <2>2 DEF List
<1> HIDE DEF r1, r2
<1>6. CASE task' = [task EXCEPT ![t] = r1] /\ Noted(t, TRUE) /\ faults' \in 0..MaxCronFaults
  BY <1>0, <1>3, <1>6, Zenon
<1>7. CASE task' = [task EXCEPT ![t] = r2] /\ Noted(t, FALSE) /\ faults' \in 0..MaxCronFaults
  BY <1>0, <1>4, <1>7, Zenon
<1> QED
  BY <1>5, <1>6, <1>7

\* A call of the cron manager raised: on to the next kind, or the end.
LEMMA RaiseFacts ==
    ASSUME SchedulesTyped, NEW t \in Tasks, Rescheduling(t), CallRaises(t)
    PROVE  /\ faults' \in 0..MaxCronFaults
           /\ \E r \in Task :
              /\ task' = [task EXCEPT ![t] = r]
              /\ \/ r = Proceed(t) /\ Noted(t, FALSE)
                 \/ /\ r.pc = "done" /\ r.listed = {} /\ r.base = 0 /\ r.rev = 0
                    /\ calm' \in [Kinds -> BOOLEAN]
                    /\ \A k \in Kinds : calm'[k] => calm[k] /\ ~Has(task[t].todo, k)
<1>1. task[t] \in Task /\ task \in [Tasks -> Task] /\ conf \in Conf /\ calm \in [Kinds -> BOOLEAN]
  BY DEF SchedulesTyped, TasksTyped
<1>2. Proceed(t) \in Task
  BY ProceedFacts
<1>3. faults' \in 0..MaxCronFaults
  <2>1. faults < MaxCronFaults /\ faults' = faults + 1
    BY Zenon DEF CallRaises
  <2> QED
    BY <2>1, SchedulesAssumption DEF SchedulesTyped
<1> DEFINE r == Enter(task[t], <<>>, conf, FALSE)
<1>4. r \in Task /\ r.pc = "done" /\ r.listed = {} /\ r.base = 0 /\ r.rev = 0
  <2> DEFINE s == <<>>  e == FALSE
  <2>1. task[t] \in Task /\ s \in Todos /\ conf \in Conf /\ e \in BOOLEAN /\ s = <<>>
    BY <1>1, NothingLeft
  <2>2. r = Enter(task[t], s, conf, e)
    OBVIOUS
  <2> HIDE DEF r, s, e
  <2> QED
    BY <2>1, <2>2, EnterFacts
<1>5. CASE task' = [task EXCEPT ![t] = Proceed(t)] /\ Noted(t, FALSE)
  BY <1>2, <1>3, <1>5, Zenon
<1>6. CASE /\ task' = [task EXCEPT ![t] = Enter(@, <<>>, conf, FALSE)]
           /\ calm' = [k \in Kinds |-> calm[k] /\ ~Has(task[t].todo, k)]
  <2>1. task' = [task EXCEPT ![t] = r]
    BY <1>1, <1>6
  <2> DEFINE b(k) == calm[k] /\ ~Has(task[t].todo, k)
  <2>2. calm' = [k \in Kinds |-> b(k)]
    BY <1>6
  <2>3. \A k \in Kinds : b(k) \in BOOLEAN /\ (b(k) => calm[k] /\ ~Has(task[t].todo, k))
    BY Zenon
  <2> HIDE DEF b
  <2>4. calm' \in [Kinds -> BOOLEAN] /\ \A k \in Kinds : calm'[k] = b(k)
    BY <2>2, <2>3, Zenon
  <2>5. \A k \in Kinds : calm'[k] => calm[k] /\ ~Has(task[t].todo, k)
    BY <2>3, <2>4, Zenon
  <2> HIDE DEF r
  <2> QED
    BY <1>3, <1>4, <2>1, <2>4, <2>5, Zenon
<1> QED
  BY <1>5, <1>6, Zenon DEF CallRaises

\* Delete: one id goes from the list, and its job from the cron manager.
Removes(t, r, id) ==
    /\ task' = [task EXCEPT ![t] = r] /\ Noted(t, TRUE) /\ UNCHANGED faults
    /\ jobs' = {j \in jobs : j.id # id}
    /\ r.pc = "delete" /\ r.todo = task[t].todo /\ r.op = task[t].op
    /\ r.inst = task[t].inst /\ r.add = task[t].add
    /\ r.base = task[t].base /\ r.rev = task[t].rev
    /\ r.listed = task[t].listed \ {id}
LEMMA DeleteFacts ==
    ASSUME SchedulesTyped, NEW t \in Tasks, Delete(t)
    PROVE  /\ Rescheduling(t) /\ task[t].pc = "delete"
           /\ jobs' \subseteq jobs
           /\ \A j \in jobs \ jobs' : j.id \in task[t].listed
           /\ CallRaises(t) \/ \E r \in Task, id \in task[t].listed : Removes(t, r, id)
<1>0. task[t].pc = "delete" /\ Rescheduling(t)
  BY DEF Delete, Rescheduling
<1>1. task[t] \in Task /\ task \in [Tasks -> Task]
  BY DEF SchedulesTyped, TasksTyped
<1>2. CASE CallRaises(t) /\ \E gone \in {0} \cup task[t].listed : jobs' = {j \in jobs : j.id # gone}
  <2>1. PICK gone \in {0} \cup task[t].listed : jobs' = {j \in jobs : j.id # gone}
    BY <1>2
  <2>2. \A j \in jobs : j.id # 0
    BY DEF SchedulesTyped, JobsTyped
  <2> QED
    BY <1>0, <1>2, <2>1, <2>2
<1>3. CASE /\ \E id \in task[t].listed :
                 /\ jobs' = {j \in jobs : j.id # id}
                 /\ task' = [task EXCEPT ![t].listed = @ \ {id}]
           /\ Noted(t, TRUE) /\ UNCHANGED faults
  <2>1. PICK id \in task[t].listed :
           /\ jobs' = {j \in jobs : j.id # id}
           /\ task' = [task EXCEPT ![t].listed = @ \ {id}]
    BY <1>3
  <2> DEFINE r == [task[t] EXCEPT !.listed = @ \ {id}]
  <2>2. /\ r \in Task /\ r.pc = "delete" /\ r.todo = task[t].todo /\ r.op = task[t].op
        /\ r.inst = task[t].inst /\ r.add = task[t].add
        /\ r.base = task[t].base /\ r.rev = task[t].rev /\ r.listed = task[t].listed \ {id}
    BY <1>0, <1>1 DEF Task
  <2>3. task' = [task EXCEPT ![t] = r]
    BY <1>1, <2>1
  <2> HIDE DEF r
  <2>4. Removes(t, r, id)
    BY <1>3, <2>1, <2>2, <2>3, Zenon DEF Removes
  <2>5. jobs' \subseteq jobs /\ \A j \in jobs \ jobs' : j.id \in task[t].listed
    BY <2>1
  <2> QED
    BY <1>0, <2>2, <2>4, <2>5, Zenon
<1> QED
  BY <1>2, <1>3, Zenon DEF Delete

\* Load: nothing is left to remove; on to the addition, or to the next kind.
LEMMA LoadFacts ==
    ASSUME SchedulesTyped, NEW t \in Tasks, Load(t)
    PROVE  \E r \in Task :
              /\ task' = [task EXCEPT ![t] = r] /\ Noted(t, TRUE)
              /\ Rescheduling(t) /\ task[t].pc = "delete" /\ task[t].listed = {}
              /\ task[t].add /\ Asks(t, Head(task[t].todo)) =>
                    /\ r.pc = "add" /\ r.todo = task[t].todo /\ r.op = task[t].op
                    /\ r.inst = task[t].inst /\ r.add = task[t].add
                    /\ r.base = task[t].base /\ r.rev = rule.rev /\ r.listed = {}
              /\ ~(task[t].add /\ Asks(t, Head(task[t].todo))) => r = Proceed(t)
<1>0. task[t].pc = "delete" /\ Rescheduling(t) /\ Noted(t, TRUE) /\ task[t].listed = {}
  BY DEF Load, Rescheduling
<1>1. task[t] \in Task /\ task \in [Tasks -> Task] /\ rule.rev \in Nat
  BY DEF SchedulesTyped, TasksTyped, Rule
<1> DEFINE r == [task[t] EXCEPT !.pc = "add", !.rev = rule.rev]
           adds == task[t].add /\ Asks(t, Head(task[t].todo))
<1>2. /\ adds => task' = [task EXCEPT ![t].pc = "add", ![t].rev = rule.rev]
      /\ ~adds => task' = [task EXCEPT ![t] = Proceed(t)]
  BY Zenon DEF Load
<1>3. /\ r \in Task /\ r.pc = "add" /\ r.todo = task[t].todo /\ r.op = task[t].op
      /\ r.inst = task[t].inst /\ r.add = task[t].add
      /\ r.base = task[t].base /\ r.rev = rule.rev /\ r.listed = task[t].listed
  BY <1>1 DEF Task, Stage
<1>4. [task EXCEPT ![t].pc = "add", ![t].rev = rule.rev] = [task EXCEPT ![t] = r]
  BY <1>1
<1>5. Proceed(t) \in Task
  BY <1>0, ProceedFacts
<1> HIDE DEF r, adds
<1>6. CASE adds
  BY <1>0, <1>2, <1>3, <1>4, <1>6, Zenon DEF adds
<1>7. CASE ~adds
  BY <1>0, <1>2, <1>5, <1>7, Zenon DEF adds
<1> QED
  BY <1>6, <1>7

\* Add: the job is there, or the call raised.
LEMMA AddFacts ==
    ASSUME SchedulesTyped, NEW t \in Tasks, Add(t)
    PROVE  /\ Rescheduling(t) /\ task[t].pc = "add" /\ Proceed(t) \in Task
           /\ \/ CallRaises(t) /\ UNCHANGED <<jobs, minted>>
              \/ /\ task' = [task EXCEPT ![t] = Proceed(t)]
                 /\ Noted(t, TRUE) /\ UNCHANGED faults
                 /\ minted' = minted + 1
                 /\ jobs' = jobs \cup {[id |-> minted', kind |-> Head(task[t].todo),
                                        inst |-> task[t].inst, rev |-> task[t].rev]}
<1>0. task[t].pc = "add" /\ Rescheduling(t)
  BY DEF Add, Rescheduling
<1>1. Proceed(t) \in Task
  BY <1>0, ProceedFacts
<1> QED
  BY <1>0, <1>1, Zenon DEF Add

---------------------------------------------------------------------------
(* Saves, and the life of the plugin.                                      *)

\* A task begins a reschedule of these kinds, or is done when there are none.
Enters(t, op, inst, todo, c, e) == \E r \in Task :
    /\ task' = [task EXCEPT ![t] = r]
    /\ r.op = op /\ r.inst = inst /\ r.todo = todo /\ r.listed = {}
    /\ r.base \in {0, task[t].base} /\ r.rev \in {0, task[t].rev}
    /\ todo = <<>> => r.pc = "done"
    /\ todo # <<>> => r.pc = "list" /\ r.add = Wanted(op, Head(todo), c, e)

LEMMA EnterEnters ==
    ASSUME SchedulesTyped, NEW t \in Tasks, NEW op \in Ops, NEW inst \in Instances,
           NEW todo \in Todos, NEW c \in Conf, NEW e \in BOOLEAN,
           NEW x \in Task, x.op = op, x.inst = inst, x.base = task[t].base, x.rev = task[t].rev,
           task' = [task EXCEPT ![t] = Enter(x, todo, c, e)]
    PROVE  Enters(t, op, inst, todo, c, e)
<1> DEFINE r == Enter(x, todo, c, e)
<1>1. /\ r \in Task /\ r.op = op /\ r.inst = inst /\ r.todo = todo /\ r.listed = {}
      /\ todo = <<>> => r.pc = "done" /\ r.base = 0 /\ r.rev = 0
      /\ todo # <<>> => /\ r.pc = "list" /\ r.base = task[t].base /\ r.rev = task[t].rev
                        /\ r.add = Wanted(op, Head(todo), c, e)
  <2>1. r = Enter(x, todo, c, e)
    OBVIOUS
  <2> HIDE DEF r
  <2> QED
    BY <2>1, EnterFacts
<1>2. task' = [task EXCEPT ![t] = r]
  OBVIOUS
<1>3. r.base \in {0, task[t].base} /\ r.rev \in {0, task[t].rev}
  BY <1>1
<1> HIDE DEF r
<1> QED
  BY <1>1, <1>2, <1>3, Zenon DEF Enters

LEMMA EntersTyped ==
    ASSUME SchedulesTyped, NEW t \in Tasks, NEW op, NEW inst, NEW todo, NEW c, NEW e,
           Enters(t, op, inst, todo, c, e),
           rule' \in Rule, rule'.rev >= rule.rev, UNCHANGED minted
    PROVE  TasksTyped'
<1>1. PICK r \in Task :
         /\ task' = [task EXCEPT ![t] = r]
         /\ r.todo = todo /\ r.listed = {}
         /\ r.base \in {0, task[t].base} /\ r.rev \in {0, task[t].rev}
         /\ todo = <<>> => r.pc = "done"
         /\ todo # <<>> => r.pc = "list"
  BY Zenon DEF Enters
<1>2. rule.rev \in Nat /\ rule'.rev \in Nat /\ minted \in Nat
  BY DEF SchedulesTyped, JobsTyped, Rule
<1>3. task[t].base \in 0..rule.rev /\ task[t].rev \in 0..rule.rev
  BY DEF SchedulesTyped, TasksTyped
<1>4. r.base \in 0..rule'.rev /\ r.rev \in 0..rule'.rev /\ r.listed \subseteq 1..minted'
  BY <1>1, <1>2, <1>3
<1>5. (r.pc \in {"list", "delete", "add"} => r.todo # <<>>) /\ r.pc # "scan"
  BY <1>1
<1>6. minted' \in Nat /\ minted' >= minted
  BY <1>2
<1> QED
  BY <1>1, <1>4, <1>5, <1>6, MoveTyped

LEMMA TodosAre ==
    /\ <<"rule">> \in Todos /\ <<"backup">> \in Todos /\ <<>> \in Todos
    /\ <<"rule", "backup">> \in Todos /\ <<"backup", "rule">> \in Todos
    /\ Head(<<"rule">>) = "rule" /\ Head(<<"backup">>) = "backup"
    /\ Head(<<"rule", "backup">>) = "rule" /\ Head(<<"backup", "rule">>) = "backup"
  BY DEF Todos

\* SaveRule: a conflict, or a save on the revision that was loaded.
LEMMA SaveRuleFacts ==
    ASSUME SchedulesTyped, NEW t \in Clients, SaveRule(t)
    PROVE  /\ task[t].pc = "scan" /\ task[t].op = "rule"
           /\ \/ /\ Enters(t, "rule", task[t].inst, <<>>, conf, FALSE)
                 /\ UNCHANGED <<ruleVars, calm>>
              \/ /\ Enters(t, "rule", task[t].inst, <<"rule">>, mem[task[t].inst], rule'.enabled)
                 /\ Restart(t, <<"rule">>, task[t].inst)
                 /\ rule' \in Rule /\ rule'.rev = rule.rev + 1
                 /\ lineage' = lineage \cup {<<rule.rev, rule.rev>>}
<1>0. t \in Tasks /\ task[t].pc = "scan" /\ task[t].op = "rule"
  BY DEF Tasks, SaveRule, SchedulesTyped, TasksTyped
<1>1. /\ task[t] \in Task /\ task[t].inst \in Instances /\ conf \in Conf
      /\ mem[task[t].inst] \in Conf /\ rule.rev \in Nat /\ task[t].base \in 0..rule.rev
  BY <1>0 DEF SchedulesTyped, TasksTyped, Task, Rule
<1>2. PICK expected \in 0..task[t].base :
         IF CurrentRevision(expected)
         THEN /\ \E e, j \in BOOLEAN :
                    rule' = [rev |-> rule.rev + 1, enabled |-> e, jitter |-> j]
              /\ lineage' = lineage \cup {<<task[t].base, rule.rev>>}
              /\ task' = [task EXCEPT ![t] =
                             Enter(@, <<"rule">>, mem[@.inst], rule'.enabled)]
              /\ Restart(t, <<"rule">>, task[t].inst)
         ELSE /\ task' = [task EXCEPT ![t] = Enter(@, <<>>, conf, FALSE)]
              /\ UNCHANGED <<ruleVars, calm>>
  BY Zenon DEF SaveRule
<1>3. task \in [Tasks -> Task]
  BY DEF SchedulesTyped, TasksTyped
<1>4. "rule" \in Ops /\ FALSE \in BOOLEAN
  BY DEF Ops
<1>5. CASE CurrentRevision(expected)
  <2>1. /\ \E e, j \in BOOLEAN :
              rule' = [rev |-> rule.rev + 1, enabled |-> e, jitter |-> j]
        /\ lineage' = lineage \cup {<<task[t].base, rule.rev>>}
        /\ task' = [task EXCEPT ![t] = Enter(@, <<"rule">>, mem[@.inst], rule'.enabled)]
        /\ Restart(t, <<"rule">>, task[t].inst)
    BY <1>2, <1>5, Zenon
  <2>2. rule' \in Rule /\ rule'.rev = rule.rev + 1 /\ rule'.enabled \in BOOLEAN
    BY <1>1, <2>1 DEF Rule
  <2>3. task[t].base = rule.rev
    BY <1>1, <1>2, <1>5 DEF CurrentRevision
  <2>4. task' = [task EXCEPT ![t] = Enter(task[t], <<"rule">>, mem[task[t].inst], rule'.enabled)]
    BY <1>3, <2>1, <1>0, Zenon
  <2>5. Enters(t, "rule", task[t].inst, <<"rule">>, mem[task[t].inst], rule'.enabled)
    BY <1>0, <1>1, <1>4, <2>2, <2>4, EnterEnters, TodosAre, Zenon
  <2> QED
    BY <1>0, <2>1, <2>2, <2>3, <2>5
<1>6. CASE ~CurrentRevision(expected)
  <2>1. /\ task' = [task EXCEPT ![t] = Enter(@, <<>>, conf, FALSE)]
        /\ UNCHANGED <<ruleVars, calm>>
    BY <1>2, <1>6, Zenon
  <2>2. task' = [task EXCEPT ![t] = Enter(task[t], <<>>, conf, FALSE)]
    BY <1>3, <2>1, <1>0, Zenon
  <2>3. Enters(t, "rule", task[t].inst, <<>>, conf, FALSE)
    BY <1>0, <1>1, <1>4, <2>2, EnterEnters, TodosAre, Zenon
  <2> QED
    BY <1>0, <2>1, <2>3
<1> QED
  BY <1>5, <1>6

LEMMA StartedFacts ==
    ASSUME SchedulesTyped, NEW t \in Tasks, NEW op \in Ops, Fresh(t, op),
           NEW todo \in Todos, NEW c \in Conf, NEW e \in BOOLEAN, Started(t, op, todo, c, e)
    PROVE  /\ live \in Instances /\ task[t].pc = "idle"
           /\ Enters(t, op, live, todo, c, e) /\ Restart(t, todo, live)
<1>1. live \in Instances /\ task[t].pc = "idle" /\ Restart(t, todo, live)
  BY DEF Fresh, Started, SchedulesTyped
<1>2. task \in [Tasks -> Task] /\ task[t] \in Task
  BY DEF SchedulesTyped, TasksTyped
<1> DEFINE x == [task[t] EXCEPT !.op = op, !.inst = live]
<1>3. x \in Task /\ x.op = op /\ x.inst = live /\ x.base = task[t].base /\ x.rev = task[t].rev
  BY <1>1, <1>2 DEF Task
<1>4. task' = [task EXCEPT ![t] = Enter(x, todo, c, e)]
  BY <1>2, Zenon DEF Started
<1> HIDE DEF x
<1>5. Enters(t, op, live, todo, c, e)
  BY <1>1, <1>3, <1>4, EnterEnters
<1> QED
  BY <1>1, <1>5

LEMMA RuleCommandFacts ==
    ASSUME SchedulesTyped, NEW t \in Clients, RuleCommand(t)
    PROVE  /\ live \in Instances /\ task[t].pc = "idle"
           /\ Enters(t, "command", live, <<"rule">>, mem[live], rule'.enabled)
           /\ Restart(t, <<"rule">>, live)
           /\ rule' \in Rule /\ rule'.rev = rule.rev + 1
           /\ mem[live].enabled /\ (rule'.enabled => mem[live].auto)
           /\ lineage' = lineage \cup {<<rule.rev, rule.rev>>}
<1>1. /\ t \in Tasks /\ "command" \in Ops /\ Fresh(t, "command") /\ mem[live].enabled
      /\ \E e \in BOOLEAN :
            /\ e => mem[live].auto
            /\ rule' = [rev |-> rule.rev + 1, enabled |-> e, jitter |-> FALSE]
      /\ lineage' = lineage \cup {<<rule.rev, rule.rev>>}
      /\ Started(t, "command", <<"rule">>, mem[live], rule'.enabled)
  BY Zenon DEF RuleCommand, Tasks, Ops
<1>2. live \in Instances /\ mem[live] \in Conf /\ rule.rev \in Nat
  BY <1>1 DEF Fresh, SchedulesTyped, Rule
<1>3. rule' \in Rule /\ rule'.rev = rule.rev + 1 /\ (rule'.enabled => mem[live].auto)
      /\ rule'.enabled \in BOOLEAN
  BY <1>1, <1>2 DEF Rule
<1>4. /\ task[t].pc = "idle" /\ Enters(t, "command", live, <<"rule">>, mem[live], rule'.enabled)
      /\ Restart(t, <<"rule">>, live)
  BY <1>1, <1>2, <1>3, StartedFacts, TodosAre, Zenon
<1> QED
  BY <1>1, <1>2, <1>3, <1>4

LEMMA SaveConfigFacts ==
    ASSUME SchedulesTyped, NEW t \in Clients, SaveConfig(t)
    PROVE  /\ live \in Instances /\ task[t].pc = "idle"
           /\ \E todo \in {<<"backup">>, <<"rule">>, <<"backup", "rule">>}, c \in Conf :
                 /\ ~Has(todo, "backup") => c.backup = mem[live].backup
                 /\ ~Has(todo, "rule") => c.enabled = mem[live].enabled /\ c.auto = mem[live].auto
                 /\ conf' = c /\ mem' = [mem EXCEPT ![live] = c]
                 /\ Enters(t, "config", live, todo, c, rule.enabled) /\ Restart(t, todo, live)
<1>1. t \in Tasks /\ "config" \in Ops /\ Fresh(t, "config") /\ rule.enabled \in BOOLEAN
  BY DEF SaveConfig, Tasks, Ops, SchedulesTyped, Rule
<1>2. PICK todo \in {<<"backup">>, <<"rule">>, <<"backup", "rule">>} : \E c \in Coerced(todo) :
         /\ conf' = c /\ mem' = [mem EXCEPT ![live] = c]
         /\ Started(t, "config", todo, c, rule.enabled)
  BY DEF SaveConfig
<1>3. PICK c \in Coerced(todo) :
         /\ conf' = c /\ mem' = [mem EXCEPT ![live] = c]
         /\ Started(t, "config", todo, c, rule.enabled)
  BY <1>2
<1>4. /\ c \in Conf
      /\ ~Has(todo, "backup") => c.backup = mem[live].backup
      /\ ~Has(todo, "rule") => c.enabled = mem[live].enabled /\ c.auto = mem[live].auto
  BY Zenon DEF Coerced
<1>5. todo \in Todos
  BY TodosAre
<1>6. /\ live \in Instances /\ task[t].pc = "idle"
      /\ Enters(t, "config", live, todo, c, rule.enabled) /\ Restart(t, todo, live)
  BY <1>1, <1>3, <1>4, <1>5, StartedFacts
<1> QED
  BY <1>3, <1>4, <1>6, Zenon

LEMMA InitializeFacts ==
    ASSUME SchedulesTyped, NEW i \in Instances, Initialize(i)
    PROVE  /\ live' = i /\ task["life"].pc \in {"idle", "done"}
           /\ mem' \in [Instances -> Conf]
           /\ mem'[i].enabled = conf.enabled /\ mem'[i].auto = conf.auto
           /\ Enters("life", "init", i, IF conf.enabled THEN <<"rule", "backup">> ELSE <<>>,
                     conf, rule.enabled)
           /\ calm' = [k \in Kinds |-> conf.enabled /\ ~Contended("life", k)]
<1>1. "life" \in Tasks /\ "init" \in Ops /\ conf \in Conf /\ rule.enabled \in BOOLEAN
  BY DEF Tasks, Ops, SchedulesTyped, Rule
<1>2. task \in [Tasks -> Task] /\ task["life"] \in Task
  BY <1>1 DEF SchedulesTyped, TasksTyped
<1> DEFINE x == [task["life"] EXCEPT !.op = "init", !.inst = i]
           todo == IF conf.enabled THEN <<"rule", "backup">> ELSE <<>>
<1>3. /\ x \in Task /\ x.op = "init" /\ x.inst = i
      /\ x.base = task["life"].base /\ x.rev = task["life"].rev
  BY <1>1, <1>2 DEF Task
<1>4. todo \in Todos
  BY TodosAre
<1>5. task' = [task EXCEPT !["life"] = Enter(x, todo, conf, rule.enabled)]
  BY <1>1, <1>2, Zenon DEF Initialize
<1>6. calm' = [k \in Kinds |-> conf.enabled /\ ~Contended("life", k)]
  BY Zenon DEF Initialize
<1>7. PICK b \in {conf.backup} \cup (IF conf.backup = "on" THEN {"invalid"} ELSE {}) :
         mem' = [mem EXCEPT ![i] = [conf EXCEPT !.backup = b]]
  BY Zenon DEF Initialize
<1>8. /\ mem' \in [Instances -> Conf]
      /\ mem'[i].enabled = conf.enabled /\ mem'[i].auto = conf.auto
  <2> DEFINE new == [conf EXCEPT !.backup = b]
  <2>1. b \in Modes
    BY <1>1 DEF Conf, Modes
  <2>2. new \in Conf /\ new.enabled = conf.enabled /\ new.auto = conf.auto
    BY <1>1, <2>1 DEF Conf
  <2>3. mem' = [mem EXCEPT ![i] = new] /\ mem \in [Instances -> Conf]
    BY <1>7 DEF SchedulesTyped
  <2> HIDE DEF new
  <2> QED
    BY <2>2, <2>3
<1> HIDE DEF x, todo
<1>9. Enters("life", "init", i, todo, conf, rule.enabled)
  BY <1>1, <1>3, <1>4, <1>5, EnterEnters
<1>10. live' = i /\ task["life"].pc \in {"idle", "done"}
  BY DEF Initialize
<1> QED
  BY <1>6, <1>8, <1>9, <1>10 DEF todo

LEMMA TerminateFacts ==
    ASSUME SchedulesTyped, Terminate
    PROVE  /\ calm' = [k \in Kinds |-> FALSE]
           /\ \E c \in Conf :
                 Enters("life", "close", task["life"].inst, <<"rule", "backup">>, c, rule.enabled)
<1>1. "life" \in Tasks /\ "close" \in Ops /\ rule.enabled \in BOOLEAN
  BY DEF Tasks, Ops, SchedulesTyped, Rule
<1>2. task \in [Tasks -> Task] /\ task["life"] \in Task /\ task["life"].inst \in Instances
  BY <1>1 DEF SchedulesTyped, TasksTyped, Task
<1>3. mem[live] \in Conf
  BY DEF Terminate, SchedulesTyped
<1> DEFINE x == [task["life"] EXCEPT !.op = "close"]
<1>4. /\ x \in Task /\ x.op = "close" /\ x.inst = task["life"].inst
      /\ x.base = task["life"].base /\ x.rev = task["life"].rev
  BY <1>1, <1>2 DEF Task
<1>5. task' = [task EXCEPT !["life"] = Enter(x, <<"rule", "backup">>, mem[live], rule.enabled)]
  BY <1>1, <1>2, Zenon DEF Terminate
<1> HIDE DEF x
<1>6. Enters("life", "close", task["life"].inst, <<"rule", "backup">>, mem[live], rule.enabled)
  BY <1>1, <1>2, <1>3, <1>4, <1>5, EnterEnters, TodosAre
<1>7. calm' = [k \in Kinds |-> FALSE]
  BY DEF Terminate
<1> QED
  BY <1>3, <1>6, <1>7

---------------------------------------------------------------------------
(* Every step keeps the types.                                             *)

LEMMA RaiseTyped ==
    ASSUME SchedulesTyped, NEW t \in Tasks, Rescheduling(t), CallRaises(t),
           jobs' \subseteq jobs, UNCHANGED <<rule, conf, mem, live, minted, firing, deaths>>
    PROVE  SchedulesTyped'
<1>1. PICK r \in Task :
         /\ task' = [task EXCEPT ![t] = r]
         /\ \/ r = Proceed(t) /\ Noted(t, FALSE)
            \/ /\ r.pc = "done" /\ r.listed = {} /\ r.base = 0 /\ r.rev = 0
               /\ calm' \in [Kinds -> BOOLEAN]
  BY RaiseFacts, Zenon
<1>2. rule' \in Rule /\ rule'.rev >= rule.rev /\ rule.rev \in Nat /\ minted' \in Nat /\ minted' >= minted
  BY DEF SchedulesTyped, Rule, JobsTyped
<1>3. /\ r.listed \subseteq 1..minted' /\ r.base \in 0..rule'.rev /\ r.rev \in 0..rule'.rev
      /\ r.pc \in {"list", "delete", "add"} => r.todo # <<>>
      /\ r.pc # "scan"
  <2>1. CASE r = Proceed(t)
    BY <2>1, ProceedFacts
  <2>2. CASE r # Proceed(t)
    <3>1. 0 \in 0..rule'.rev
      BY <1>2
    <3> QED
      BY <1>1, <2>2, <3>1
  <2> QED
    BY <2>1, <2>2
<1>4. TasksTyped'
  BY <1>1, <1>2, <1>3, MoveTyped
<1>5. JobsTyped'
  BY <1>2, JobsStayTyped
<1>6. calm' \in [Kinds -> BOOLEAN]
  BY <1>1, NotedFacts
<1> QED
  BY <1>4, <1>5, <1>6, RaiseFacts DEF SchedulesTyped

LEMMA RescheduleTyped ==
    ASSUME SchedulesTyped, NEW t \in Tasks, Reschedule(t)
    PROVE  SchedulesTyped'
<1> USE DEF SchedulesTyped
<1>0. UNCHANGED <<rule, conf, mem, live, firing, deaths>>
  BY DEF Reschedule, List, Delete, Load, Add, ruleVars, cronVars
<1>1. rule' \in Rule /\ rule'.rev >= rule.rev /\ rule.rev \in Nat /\ minted \in Nat
  BY <1>0 DEF Rule, JobsTyped
<1>2. minted >= minted
  BY <1>1
<1>3. CASE List(t)
  <2>1. PICK r \in Task, ok \in BOOLEAN :
           /\ task' = [task EXCEPT ![t] = r] /\ Noted(t, ok)
           /\ r.pc = "delete" /\ r.todo = task[t].todo /\ r.op = task[t].op
           /\ r.inst = task[t].inst /\ r.add = task[t].add
           /\ r.base = task[t].base /\ r.rev = task[t].rev
           /\ r.listed \in {task[t].listed, Ids(Head(task[t].todo))}
           /\ ok => r.listed = Ids(Head(task[t].todo))
           /\ faults' \in 0..MaxCronFaults
           /\ Rescheduling(t) /\ task[t].pc = "list"
    BY <1>3, ListFacts
  <2>2. UNCHANGED <<jobs, minted>>
    BY <1>3 DEF List
  <2>3. r.listed \subseteq 1..minted'
    BY <2>1, <2>2, ReschedulingFacts DEF Ids, JobsTyped
  <2>4. r.base \in 0..rule'.rev /\ r.rev \in 0..rule'.rev /\ r.todo # <<>> /\ r.pc # "scan"
    BY <1>0, <2>1, ReschedulingFacts
  <2>5. TasksTyped'
    BY <1>1, <1>2, <2>1, <2>2, <2>3, <2>4, MoveTyped
  <2>6. JobsTyped'
    BY <1>1, <1>2, <2>2, JobsStayTyped
  <2> QED
    BY <1>0, <2>1, <2>5, <2>6, NotedFacts
<1>4. CASE Delete(t)
  <2>1. Rescheduling(t) /\ jobs' \subseteq jobs /\ UNCHANGED minted
    BY <1>4, DeleteFacts DEF Delete
  <2>2. CASE CallRaises(t)
    BY <1>0, <2>1, <2>2, RaiseTyped
  <2>3. ASSUME NEW r \in Task, NEW id \in task[t].listed, Removes(t, r, id)
        PROVE  SchedulesTyped'
    <3>1. r.listed \subseteq 1..minted'
      BY <2>1, <2>3, ReschedulingFacts DEF Removes
    <3>2. r.base \in 0..rule'.rev /\ r.rev \in 0..rule'.rev /\ r.todo # <<>> /\ r.pc # "scan"
      BY <1>0, <2>1, <2>3, ReschedulingFacts DEF Removes
    <3>3. TasksTyped'
      BY <1>1, <1>2, <2>1, <2>3, <3>1, <3>2, MoveTyped DEF Removes
    <3>4. JobsTyped'
      BY <1>1, <1>2, <2>1, JobsStayTyped
    <3> QED
      BY <1>0, <2>1, <2>3, <3>3, <3>4, NotedFacts DEF Removes
  <2> QED
    BY <1>4, <2>2, <2>3, DeleteFacts
<1>5. CASE Load(t)
  <2>1. PICK r \in Task :
           /\ task' = [task EXCEPT ![t] = r] /\ Noted(t, TRUE) /\ Rescheduling(t)
           /\ \/ /\ r.pc = "add" /\ r.todo = task[t].todo
                 /\ r.base = task[t].base /\ r.rev = rule.rev /\ r.listed = {}
              \/ r = Proceed(t)
    BY <1>5, LoadFacts, Zenon
  <2>2. UNCHANGED <<faults, jobs, minted>>
    BY <1>5 DEF Load, cronVars
  <2>3. /\ r.listed \subseteq 1..minted' /\ r.base \in 0..rule'.rev /\ r.rev \in 0..rule'.rev
        /\ r.pc \in {"list", "delete", "add"} => r.todo # <<>>
        /\ r.pc # "scan"
    <3>1. CASE r = Proceed(t)
      BY <1>0, <2>1, <3>1, ProceedFacts
    <3>2. CASE r # Proceed(t)
      BY <1>0, <1>1, <2>1, <3>2, ReschedulingFacts
    <3> QED
      BY <3>1, <3>2
  <2>4. TasksTyped'
    BY <1>1, <1>2, <2>1, <2>2, <2>3, MoveTyped
  <2>5. JobsTyped'
    BY <1>1, <1>2, <2>2, JobsStayTyped
  <2> QED
    BY <1>0, <2>1, <2>2, <2>4, <2>5, NotedFacts
<1>6. CASE Add(t)
  <2>1. Rescheduling(t) /\ Proceed(t) \in Task
    BY <1>6, AddFacts
  <2>2. CASE CallRaises(t) /\ UNCHANGED <<jobs, minted>>
    BY <1>0, <2>1, <2>2, RaiseTyped
  <2> DEFINE j == [id |-> minted', kind |-> Head(task[t].todo),
                   inst |-> task[t].inst, rev |-> task[t].rev]
  <2>3. CASE /\ task' = [task EXCEPT ![t] = Proceed(t)] /\ Noted(t, TRUE) /\ UNCHANGED faults
             /\ minted' = minted + 1 /\ jobs' = jobs \cup {j}
    <3>1. task[t].inst \in Instances /\ task[t].rev \in 0..rule.rev /\ Head(task[t].todo) \in Kinds
      BY <2>1, ReschedulingFacts DEF Task
    <3>2. j \in Job /\ j.id = minted' /\ j.rev \in 0..rule.rev
      BY <1>1, <2>3, <3>1 DEF Job
    <3> HIDE DEF j
    <3>3. /\ minted' \in Nat /\ minted' >= minted
          /\ 1..minted \subseteq 1..minted' /\ minted' \in 1..minted'
      BY <1>1, <2>3
    <3>4. JobsTyped'
      BY <1>0, <2>3, <3>2, <3>3 DEF JobsTyped
    <3> DEFINE r == Proceed(t)
    <3>5. /\ r.listed \subseteq 1..minted' /\ r.base \in 0..rule'.rev /\ r.rev \in 0..rule'.rev
          /\ r.pc \in {"list", "delete", "add"} => r.todo # <<>>
          /\ r.pc # "scan"
      BY <1>0, <2>1, ProceedFacts
    <3>6. r \in Task /\ task' = [task EXCEPT ![t] = r]
      BY <2>1, <2>3
    <3> HIDE DEF r
    <3>7. TasksTyped'
      BY <1>1, <3>3, <3>5, <3>6, MoveTyped
    <3> QED
      BY <1>0, <2>1, <2>3, <3>4, <3>7, NotedFacts
  <2> QED
    BY <1>6, <2>2, <2>3, AddFacts, Zenon
<1> QED
  BY <1>3, <1>4, <1>5, <1>6 DEF Reschedule

LEMMA SavesTyped ==
    ASSUME SchedulesTyped, NEW t \in Clients,
           SaveRuleBegins(t) \/ SaveRule(t) \/ RuleCommand(t) \/ SaveConfig(t)
    PROVE  SchedulesTyped'
<1> USE DEF SchedulesTyped
<1>0. t \in Tasks /\ minted \in Nat /\ minted >= minted /\ rule.rev \in Nat /\ rule.rev >= rule.rev
  BY DEF Tasks, JobsTyped, Rule
<1>1. CASE SaveRuleBegins(t)
  <2> DEFINE r == [task[t] EXCEPT !.pc = "scan", !.op = "rule", !.inst = live, !.base = rule.rev]
  <2>1. live \in Instances /\ task[t] \in Task /\ task \in [Tasks -> Task]
    BY <1>0, <1>1 DEF SaveRuleBegins, Fresh, TasksTyped
  <2>2. /\ r \in Task /\ r.pc = "scan" /\ r.op = "rule" /\ r.base = rule.rev
        /\ r.rev = task[t].rev /\ r.listed = task[t].listed
    BY <1>0, <2>1 DEF Task, Stage, Ops
  <2>3. task' = [task EXCEPT ![t] = r]
    BY <1>1, <2>1 DEF SaveRuleBegins
  <2> HIDE DEF r
  <2>4. UNCHANGED <<rule, conf, mem, live, jobs, minted, faults, firing, deaths, calm>>
    BY <1>1 DEF SaveRuleBegins, ruleVars, cronVars
  <2>5. r.base \in 0..rule'.rev /\ r.rev \in 0..rule'.rev /\ r.listed \subseteq 1..minted'
    BY <1>0, <2>2, <2>4 DEF TasksTyped
  <2>6. TasksTyped'
    BY <1>0, <2>2, <2>3, <2>4, <2>5, MoveTyped
  <2> QED
    BY <1>0, <2>4, <2>6, JobsStayTyped
<1>2. CASE SaveRule(t)
  <2>1. UNCHANGED <<conf, mem, live, jobs, minted, faults, firing, deaths>>
    BY <1>2 DEF SaveRule, cronVars
  <2>2. CASE /\ Enters(t, "rule", task[t].inst, <<>>, conf, FALSE)
             /\ UNCHANGED <<ruleVars, calm>>
    <3>1. rule' = rule /\ calm' = calm
      BY <2>2 DEF ruleVars
    <3>2. TasksTyped'
      BY <1>0, <2>1, <2>2, <3>1, EntersTyped
    <3> QED
      BY <1>0, <2>1, <3>1, <3>2, JobsStayTyped
  <2>3. CASE /\ Enters(t, "rule", task[t].inst, <<"rule">>, mem[task[t].inst], rule'.enabled)
             /\ Restart(t, <<"rule">>, task[t].inst)
             /\ rule' \in Rule /\ rule'.rev = rule.rev + 1
    <3>1. rule'.rev >= rule.rev
      BY <1>0, <2>3
    <3>2. TasksTyped'
      BY <1>0, <2>1, <2>3, <3>1, EntersTyped
    <3>3. calm' \in [Kinds -> BOOLEAN]
      BY <1>0, <2>3, RestartFacts
    <3> QED
      BY <1>0, <2>1, <2>3, <3>1, <3>2, <3>3, JobsStayTyped
  <2> QED
    BY <1>2, <2>2, <2>3, SaveRuleFacts
<1>3. CASE RuleCommand(t)
  <2>1. UNCHANGED <<conf, mem, live, jobs, minted, faults, firing, deaths>>
    BY <1>3 DEF RuleCommand, cronVars
  <2>2. /\ Enters(t, "command", live, <<"rule">>, mem[live], rule'.enabled)
        /\ Restart(t, <<"rule">>, live) /\ rule' \in Rule /\ rule'.rev = rule.rev + 1
    BY <1>3, RuleCommandFacts
  <2>3. rule'.rev >= rule.rev
    BY <1>0, <2>2
  <2>4. TasksTyped' /\ JobsTyped' /\ calm' \in [Kinds -> BOOLEAN]
    BY <1>0, <2>1, <2>2, <2>3, EntersTyped, RestartFacts, JobsStayTyped
  <2> QED
    BY <2>1, <2>2, <2>4
<1>4. CASE SaveConfig(t)
  <2>1. UNCHANGED <<rule, live, jobs, minted, faults, firing, deaths>>
    BY <1>4 DEF SaveConfig, ruleVars, cronVars
  <2>2. PICK todo \in {<<"backup">>, <<"rule">>, <<"backup", "rule">>}, c \in Conf :
           /\ conf' = c /\ mem' = [mem EXCEPT ![live] = c]
           /\ Enters(t, "config", live, todo, c, rule.enabled) /\ Restart(t, todo, live)
    BY <1>4, SaveConfigFacts
  <2>3. TasksTyped' /\ JobsTyped' /\ calm' \in [Kinds -> BOOLEAN]
    BY <1>0, <2>1, <2>2, EntersTyped, RestartFacts, JobsStayTyped
  <2> QED
    BY <2>1, <2>2, <2>3
<1> QED
  BY <1>1, <1>2, <1>3, <1>4

LEMMA LifeTyped ==
    ASSUME SchedulesTyped,
           (\E i \in Instances : Initialize(i)) \/ Terminate \/ Terminated \/ Die
    PROVE  SchedulesTyped'
<1> USE DEF SchedulesTyped
<1>0. /\ "life" \in Tasks /\ minted \in Nat /\ minted >= minted
      /\ rule.rev \in Nat /\ rule.rev >= rule.rev
  BY DEF Tasks, JobsTyped, Rule
<1>1. ASSUME NEW i \in Instances, Initialize(i) PROVE SchedulesTyped'
  <2>1. UNCHANGED <<rule, conf, jobs, minted, faults, firing, deaths>>
    BY <1>1 DEF Initialize, ruleVars, cronVars
  <2> DEFINE todo == IF conf.enabled THEN <<"rule", "backup">> ELSE <<>>
  <2>2. /\ live' = i /\ mem' \in [Instances -> Conf]
        /\ Enters("life", "init", i, todo, conf, rule.enabled)
        /\ calm' = [k \in Kinds |-> conf.enabled /\ ~Contended("life", k)]
    BY <1>1, InitializeFacts
  <2> HIDE DEF todo
  <2>3. calm' \in [Kinds -> BOOLEAN]
    BY <2>2, Zenon
  <2>4. TasksTyped' /\ JobsTyped'
    BY <1>0, <2>1, <2>2, EntersTyped, JobsStayTyped
  <2> QED
    BY <2>1, <2>2, <2>3, <2>4
<1>2. CASE Terminate
  <2>1. UNCHANGED <<rule, conf, mem, live, jobs, minted, faults, firing, deaths>>
    BY <1>2 DEF Terminate, ruleVars, cronVars
  <2>2. PICK c \in Conf :
           Enters("life", "close", task["life"].inst, <<"rule", "backup">>, c, rule.enabled)
    BY <1>2, TerminateFacts
  <2>3. TasksTyped' /\ JobsTyped'
    BY <1>0, <2>1, <2>2, EntersTyped, JobsStayTyped
  <2>4. calm' \in [Kinds -> BOOLEAN]
    BY <1>2, TerminateFacts
  <2> QED
    BY <2>1, <2>3, <2>4
<1>3. CASE Terminated
  BY <1>3 DEF Terminated, ruleVars, cronVars, JobsTyped, TasksTyped, Rescheduling
<1>4. CASE Die
  <2>1. /\ UNCHANGED <<rule, conf, mem, minted, faults, calm>> /\ live' = 0 /\ jobs' = {}
        /\ deaths' = deaths + 1 /\ deaths < MaxDeaths
    BY <1>4 DEF Die, ruleVars
  <2>2. deaths' \in 0..MaxDeaths
    BY <2>1, SchedulesAssumption
  <2>3. TasksTyped'
    <3> DEFINE over == [Idle EXCEPT !.pc = "done"]
    <3>1. /\ over \in Task /\ over.pc = "done" /\ over.base = 0 /\ over.rev = 0 /\ over.listed = {}
      BY IdleIsTask DEF Idle
    <3>2. task' = [t \in Tasks |-> IF t # "life" /\ task[t].pc = "idle" THEN task[t] ELSE over]
      BY <1>4 DEF Die
    <3> HIDE DEF over
    <3>3. 0 \in 0..rule.rev
      BY <1>0
    <3> QED
      BY <2>1, <3>1, <3>2, <3>3 DEF TasksTyped, Rescheduling
  <2>4. JobsTyped'
    BY <1>0, <2>1, JobsStayTyped
  <2>5. firing' \in [Fires -> Firing]
    <3>1. firing' = [f \in Fires |-> IF firing[f].pc = "none" THEN firing[f]
                                     ELSE [firing[f] EXCEPT !.pc = "done"]]
      BY <1>4 DEF Die
    <3>2. \A f \in Fires : [firing[f] EXCEPT !.pc = "done"] \in Firing
      BY DEF Firing
    <3> QED
      BY <3>1, <3>2
  <2> QED
    BY <2>1, <2>2, <2>3, <2>4, <2>5
<1> QED
  BY <1>1, <1>2, <1>3, <1>4

LEMMA FiresTyped ==
    ASSUME SchedulesTyped, NEW f \in Fires,
           (\E j \in jobs : FireRule(f, j)) \/ WakeUp(f) \/ RunEnds(f)
    PROVE  SchedulesTyped'
<1> USE DEF SchedulesTyped
<1>1. UNCHANGED <<rule, conf, mem, live, jobs, minted, task, faults, deaths, calm>>
  BY DEF FireRule, WakeUp, RunEnds, ruleVars, cronVars
<1>2. JobsTyped' /\ TasksTyped'
  BY <1>1 DEF JobsTyped, TasksTyped, Rescheduling
<1>3. \A i : Goes(i) \subseteq {"running", "done"}
  BY DEF Goes
<1>4. firing' \in [Fires -> Firing]
  <2>1. ASSUME NEW j \in jobs, FireRule(f, j) PROVE firing' \in [Fires -> Firing]
    <3>1. PICK to \in (IF rule.jitter THEN {"sleep"} ELSE Goes(j.inst)) :
             firing' = [firing EXCEPT ![f] = [pc |-> to, inst |-> j.inst, rev |-> j.rev]]
      BY <2>1 DEF FireRule
    <3>2. to \in {"sleep", "running", "done"} /\ j.inst \in Instances /\ j.rev \in Nat
      BY <1>3 DEF JobsTyped, Job
    <3> QED
      BY <3>1, <3>2 DEF Firing
  <2>2. CASE WakeUp(f)
    <3>1. PICK to \in (IF Admits(firing[f].rev) THEN Goes(firing[f].inst) ELSE {"done"}) :
             firing' = [firing EXCEPT ![f].pc = to]
      BY <2>2 DEF WakeUp
    <3>2. to \in {"running", "done"}
      BY <1>3
    <3> QED
      BY <3>1, <3>2 DEF Firing
  <2>3. CASE RunEnds(f)
    BY <2>3 DEF RunEnds, Firing
  <2> QED
    BY <2>1, <2>2, <2>3
<1> QED
  BY <1>1, <1>2, <1>4

LEMMA ButtonsTyped ==
    ASSUME SchedulesTyped, NEW t \in Clients, BackupButton(t) \/ DeleteButton(t)
    PROVE  SchedulesTyped'
<1> USE DEF SchedulesTyped
<1>0. t \in Tasks /\ minted \in Nat /\ minted >= minted /\ rule.rev \in Nat /\ rule.rev >= rule.rev
  BY DEF Tasks, JobsTyped, Rule
<1>1. /\ UNCHANGED <<rule, conf, mem, live, jobs, minted, faults, firing, deaths, calm>>
      /\ task' = [task EXCEPT ![t].pc = "done"]
  BY DEF BackupButton, DeleteButton, ruleVars, cronVars
<1> DEFINE r == [task[t] EXCEPT !.pc = "done"]
<1>2. task[t] \in Task /\ task \in [Tasks -> Task]
  BY <1>0 DEF TasksTyped
<1>3. /\ r \in Task /\ r.pc = "done" /\ r.base = task[t].base
      /\ r.rev = task[t].rev /\ r.listed = task[t].listed
  BY <1>2 DEF Task, Stage
<1>4. task' = [task EXCEPT ![t] = r]
  BY <1>1, <1>2
<1> HIDE DEF r
<1>5. r.base \in 0..rule'.rev /\ r.rev \in 0..rule'.rev /\ r.listed \subseteq 1..minted'
  BY <1>0, <1>1, <1>3 DEF TasksTyped
<1>6. TasksTyped' /\ JobsTyped'
  BY <1>0, <1>1, <1>3, <1>4, <1>5, MoveTyped, JobsStayTyped
<1> QED
  BY <1>1, <1>6

LEMMA InitTyped == SchedulesInit => SchedulesTyped
<1> SUFFICES ASSUME SchedulesInit PROVE SchedulesTyped
  OBVIOUS
<1>1. /\ rule \in Rule /\ rule.rev = 0 /\ conf \in Conf /\ mem \in [Instances -> Conf]
      /\ live = 0 /\ jobs = {} /\ minted = 0 /\ faults = 0 /\ deaths = 0
      /\ calm \in [Kinds -> BOOLEAN]
  <2>1. rule \in Rule /\ rule.rev = 0
    <3>1. rule \in [rev : {0}, enabled : BOOLEAN, jitter : {TRUE}]
      BY DEF SchedulesInit
    <3>2. {0} \subseteq Nat /\ {TRUE} \subseteq BOOLEAN
      OBVIOUS
    <3>3. rule.rev = 0
      BY <3>1
    <3>4. rule \in Rule
      BY <3>1, <3>2, Zenon DEF Rule
    <3> QED
      BY <3>3, <3>4
  <2>2. conf \in Conf
    BY DEF SchedulesInit, Conf, Modes
  <2>3. mem \in [Instances -> Conf] /\ calm \in [Kinds -> BOOLEAN]
    BY <2>2 DEF SchedulesInit
  <2> QED
    BY <2>1, <2>2, <2>3 DEF SchedulesInit
<1>2. 0 \in 0..0 /\ 0 \in 0..MaxCronFaults /\ 0 \in 0..MaxDeaths
  BY SchedulesAssumption
<1>3. TasksTyped
  BY <1>1, <1>2, IdleIsTask DEF SchedulesInit, TasksTyped, Rescheduling
<1>4. firing \in [Fires -> Firing]
  BY FirstIsInstance DEF SchedulesInit, NoFire, Firing
<1> QED
  BY <1>1, <1>2, <1>3, <1>4 DEF SchedulesTyped, JobsTyped

LEMMA NextTyped ==
    ASSUME SchedulesTyped, [SchedulesNext]_schedulesVars
    PROVE  SchedulesTyped'
<1>1. CASE UNCHANGED schedVars
  <2>1. UNCHANGED <<rule, conf, mem, live, jobs, minted, faults, task, firing, deaths, calm>>
    BY <1>1 DEF schedVars, ruleVars, cronVars
  <2> QED
    BY <2>1 DEF SchedulesTyped, JobsTyped, TasksTyped, Rescheduling
<1>2. CASE UNCHANGED schedulesVars
  BY <1>1, <1>2 DEF schedulesVars
<1>3. ASSUME NEW i \in Instances, ExportEnds(i) PROVE SchedulesTyped'
  BY <1>1, <1>3 DEF ExportEnds
<1>4. ASSUME NEW j \in jobs, FireBackup(j) PROVE SchedulesTyped'
  BY <1>1, <1>4 DEF FireBackup
<1>5. CASE SchedulesNext
  BY <1>3, <1>4, <1>5, RescheduleTyped, SavesTyped, LifeTyped, FiresTyped, ButtonsTyped
     DEF SchedulesNext
<1> QED
  BY <1>2, <1>5

---------------------------------------------------------------------------
(* Every step is one of the runner, or leaves it alone.                    *)

LEMMA NextBackupStep ==
    ASSUME SchedulesTyped, [SchedulesNext]_schedulesVars
    PROVE  BackupStep
<1>1. CASE UNCHANGED backupVars
  BY <1>1 DEF BackupStep
<1>2. CASE UNCHANGED schedulesVars
  BY <1>1, <1>2 DEF schedulesVars
<1>3. ASSUME NEW t \in Tasks, Reschedule(t) PROVE BackupStep
  <2>1. UNCHANGED backupVars
    BY <1>3 DEF Reschedule, List, Delete, Load, Add
  <2> QED
    BY <1>1, <2>1
<1>4. ASSUME NEW t \in Clients,
             SaveRuleBegins(t) \/ SaveRule(t) \/ RuleCommand(t) \/ SaveConfig(t)
      PROVE  BackupStep
  <2>1. UNCHANGED backupVars
    BY <1>4 DEF SaveRuleBegins, SaveRule, RuleCommand, SaveConfig
  <2> QED
    BY <1>1, <2>1
<1>5. ASSUME NEW t \in Clients, BackupButton(t) \/ DeleteButton(t) PROVE BackupStep
  <2>1. live \in Instances
    BY <1>5 DEF BackupButton, DeleteButton, Fresh, SchedulesTyped
  <2> QED
    BY <1>5, <2>1 DEF BackupButton, DeleteButton, BackupStep
<1>6. ASSUME NEW i \in Instances, Initialize(i) \/ ExportEnds(i) PROVE BackupStep
  BY <1>6 DEF Initialize, ExportEnds, BackupStep
<1>7. CASE Terminate \/ Terminated
  BY <1>1, <1>7 DEF Terminate, Terminated
<1>8. CASE Die
  BY <1>8 DEF Die, BackupStep
<1>9. ASSUME NEW f \in Fires, (\E j \in jobs : FireRule(f, j)) \/ WakeUp(f) \/ RunEnds(f)
      PROVE  BackupStep
  BY <1>1, <1>9 DEF FireRule, WakeUp, RunEnds
<1>10. ASSUME NEW j \in jobs, FireBackup(j) PROVE BackupStep
  <2>1. j.inst \in Instances
    BY DEF SchedulesTyped, JobsTyped, Job
  <2> QED
    BY <1>10, <2>1 DEF FireBackup, BackupStep
<1>11. CASE SchedulesNext
  BY <1>3, <1>4, <1>5, <1>6, <1>7, <1>8, <1>9, <1>10, <1>11 DEF SchedulesNext
<1> QED
  BY <1>2, <1>11

---------------------------------------------------------------------------
(* What a save starts from.                                                *)

LEMMA NextLosesNoRule ==
    ASSUME SchedulesTyped, NoLostRule, [SchedulesNext]_schedulesVars
    PROVE  NoLostRule'
<1>1. CASE UNCHANGED lineage
  BY <1>1 DEF NoLostRule
<1>2. CASE lineage' = lineage \cup {<<rule.rev, rule.rev>>}
  BY <1>2 DEF NoLostRule
<1>3. ASSUME NEW t \in Tasks, Reschedule(t) PROVE UNCHANGED lineage
  BY <1>3 DEF Reschedule, List, Delete, Load, Add, ruleVars
<1>4. ASSUME NEW t \in Clients, SaveRule(t) PROVE NoLostRule'
  BY <1>1, <1>2, <1>4, SaveRuleFacts DEF ruleVars
<1>5. ASSUME NEW t \in Clients, RuleCommand(t) PROVE NoLostRule'
  BY <1>2, <1>5, RuleCommandFacts
<1>6. ASSUME NEW t \in Clients,
             SaveRuleBegins(t) \/ SaveConfig(t) \/ BackupButton(t) \/ DeleteButton(t)
      PROVE  UNCHANGED lineage
  BY <1>6 DEF SaveRuleBegins, SaveConfig, BackupButton, DeleteButton, ruleVars
<1>7. ASSUME NEW i \in Instances, Initialize(i) \/ ExportEnds(i) PROVE UNCHANGED lineage
  BY <1>7 DEF Initialize, ExportEnds, schedVars, ruleVars
<1>8. CASE Terminate \/ Terminated \/ Die
  BY <1>1, <1>8 DEF Terminate, Terminated, Die, ruleVars
<1>9. ASSUME NEW f \in Fires, (\E j \in jobs : FireRule(f, j)) \/ WakeUp(f) \/ RunEnds(f)
      PROVE  UNCHANGED lineage
  BY <1>9 DEF FireRule, WakeUp, RunEnds, ruleVars
<1>10. ASSUME NEW j \in jobs, FireBackup(j) PROVE UNCHANGED lineage
  BY <1>10 DEF FireBackup, schedVars, ruleVars
<1>11. CASE UNCHANGED schedulesVars
  BY <1>1, <1>11 DEF schedulesVars, schedVars, ruleVars
<1>12. CASE SchedulesNext
  BY <1>1, <1>3, <1>4, <1>5, <1>6, <1>7, <1>8, <1>9, <1>10, <1>12 DEF SchedulesNext
<1> QED
  BY <1>11, <1>12

---------------------------------------------------------------------------
(* Settled jobs: what leaves a kind alone, and what it needs of a task.    *)

\* A step that adds no more than the job of a new id, and lists as it should.
LEMMA ListedMoves ==
    ASSUME SchedulesTyped, IdsUnique, ListedRight, NEW t \in Tasks, NEW r \in Task,
           task' = [task EXCEPT ![t] = r],
           NEW new, new.id = minted + 1, jobs' \subseteq jobs \cup {new},
           r.pc = "list" => r.listed = {},
           r.pc = "delete" => \A j \in jobs' : j.id \in r.listed => j.kind = Head(r.todo)
    PROVE  IdsUnique' /\ ListedRight'
<1>1. minted \in Nat /\ \A j \in jobs : j.id \in 1..minted
  BY DEF SchedulesTyped, JobsTyped
<1>2. minted + 1 \notin 1..minted
  BY <1>1
<1>3. \A i, j \in jobs' : i.id = j.id => i = j
  BY <1>1, <1>2 DEF IdsUnique
<1>4. ASSUME NEW u \in Tasks
      PROVE  /\ task'[u].pc = "list" => task'[u].listed = {}
             /\ task'[u].pc = "delete" =>
                   \A j \in jobs' : j.id \in task'[u].listed => j.kind = Head(task'[u].todo)
  <2>1. CASE u = t
    BY <2>1, MoveFacts
  <2>2. CASE u # t
    <3>1. task'[u] = task[u] /\ task[u].listed \subseteq 1..minted
      BY <2>2, MoveFacts DEF SchedulesTyped, TasksTyped
    <3>2. \A j \in jobs' : j.id \in task'[u].listed => j \in jobs
      BY <1>2, <3>1
    <3> QED
      BY <3>1, <3>2 DEF ListedRight
  <2> QED
    BY <2>1, <2>2
<1> QED
  BY <1>3, <1>4 DEF IdsUnique, ListedRight

\* Steps that leave the jobs alone, and whose task does not list.
LEMMA ListedStays ==
    ASSUME SchedulesTyped, IdsUnique, ListedRight, NEW t \in Tasks, NEW r \in Task,
           task' = [task EXCEPT ![t] = r], jobs' \subseteq jobs,
           r.listed = {} \/ r.pc \notin {"list", "delete"}
    PROVE  IdsUnique' /\ ListedRight'
<1> DEFINE new == [id |-> minted + 1]
<1>1. new.id = minted + 1 /\ jobs' \subseteq jobs \cup {new}
  OBVIOUS
<1>2. /\ r.pc = "list" => r.listed = {}
      /\ r.pc = "delete" => \A j \in jobs' : j.id \in r.listed => j.kind = Head(r.todo)
  OBVIOUS
<1> HIDE DEF new
<1> QED
  BY <1>1, <1>2, ListedMoves

\* The same when no task moves.
LEMMA ListedSame ==
    ASSUME IdsUnique, ListedRight, jobs' \subseteq jobs, UNCHANGED task
    PROVE  IdsUnique' /\ ListedRight'
  BY DEF IdsUnique, ListedRight

LEMMA IdsOfJobs == \A k : Ids(k) = {j.id : j \in JobsOf(k)}
  BY DEF Ids, JobsOf

\* A kind is left alone: its jobs, its tasks and what it is called for.
LEMMA Undisturbed ==
    ASSUME NEW k \in Kinds, CalmInv(k), live' # 0 /\ calm'[k] => live' = live /\ calm[k],
           \A t \in Tasks : Concerns(t, k)' <=> Concerns(t, k),
           \A t \in Tasks : Concerns(t, k) => task'[t] = task[t],
           JobsOf(k)' = JobsOf(k), live' = live => (Called(k)' <=> Called(k)),
           k = "rule" => rule'.rev = rule.rev /\ rule'.enabled = rule.enabled
    PROVE  CalmInv(k)'
<1> SUFFICES ASSUME live' # 0, calm'[k]
             PROVE  /\ \A t, u \in Tasks : Concerns(t, k)' /\ Concerns(u, k)' => t = u
                    /\ \A t \in Tasks : Concerns(t, k)' => OnCourse(t, k)'
                    /\ (\A t \in Tasks : ~Concerns(t, k)') => Exact(k)'
  BY DEF CalmInv
<1>1. live' = live /\ live # 0 /\ calm[k] /\ (Called(k)' <=> Called(k))
  OBVIOUS
<1>2. /\ \A t, u \in Tasks : Concerns(t, k) /\ Concerns(u, k) => t = u
      /\ \A t \in Tasks : Concerns(t, k) => OnCourse(t, k)
      /\ (\A t \in Tasks : ~Concerns(t, k)) => Exact(k)
  BY <1>1 DEF CalmInv
<1>3. Ids(k)' = Ids(k)
  BY DEF Ids, JobsOf
<1>4. ASSUME NEW t \in Tasks, Concerns(t, k)' PROVE OnCourse(t, k)'
  <2>1. OnCourse(t, k) /\ task'[t] = task[t]
    BY <1>2, <1>4
  <2>2. k = "rule" => (Effective' <=> Effective)
    BY <1>1 DEF Called
  <2> QED
    BY <1>1, <1>3, <2>1, <2>2 DEF OnCourse
<1>5. ASSUME \A t \in Tasks : ~Concerns(t, k)' PROVE Exact(k)'
  <2>1. Exact(k)
    BY <1>2, <1>5
  <2>2. \A j : JobsOf(k)' = {j} => j \in jobs'
    BY DEF JobsOf
  <2> QED
    BY <1>1, <2>1, <2>2 DEF Exact
<1> QED
  BY <1>2, <1>4, <1>5

\* One task moves, and no other concerns the kind.
LEMMA Alone ==
    ASSUME SchedulesTyped, NEW t \in Tasks, NEW r \in Task, task' = [task EXCEPT ![t] = r],
           NEW k \in Kinds, ~Contended(t, k),
           Concerns(t, k)' => OnCourse(t, k)', ~Concerns(t, k)' => Exact(k)'
    PROVE  CalmInv(k)'
<1>1. ASSUME NEW u \in Tasks, Concerns(u, k)' PROVE u = t
  <2> SUFFICES ASSUME u # t PROVE FALSE
    OBVIOUS
  <2>1. task'[u] = task[u]
    BY MoveFacts
  <2>2. Concerns(u, k)
    BY <1>1, <2>1 DEF Concerns, Rescheduling
  <2> QED
    BY <2>2, ContendedIs
<1> QED
  BY <1>1 DEF CalmInv

\* A step of a reschedule concerns the kind it works on; another kind waits
\* for its turn, or the task never gets to it.
LEMMA OtherKind ==
    ASSUME SchedulesTyped, NEW t \in Tasks, Rescheduling(t), NEW r \in Task,
           task' = [task EXCEPT ![t] = r],
           NEW k \in Kinds, k # Head(task[t].todo), CalmInv(k), calm'[k] => calm[k],
           JobsOf(k)' = JobsOf(k), UNCHANGED <<rule, mem, live>>,
           \/ /\ r.pc \in {"delete", "add"} /\ r.todo = task[t].todo
              /\ r.op = task[t].op /\ r.inst = task[t].inst
           \/ r = Proceed(t)
           \/ r.pc = "done" /\ (calm'[k] => ~Has(task[t].todo, k))
    PROVE  CalmInv(k)'
<1>1. /\ task'[t] = r /\ \A u \in Tasks \ {t} : task'[u] = task[u]
  BY MoveFacts
<1>2. Called(k)' <=> Called(k)
  BY DEF Called, Effective
<1>3. /\ task[t].todo \in Todos /\ task[t].todo # <<>>
      /\ Has(task[t].todo, k) <=> Has(Tail(task[t].todo), k)
      /\ Tail(task[t].todo) # <<>> => Head(Tail(task[t].todo)) = k
  BY TodoFacts, ReschedulingFacts
<1>4. SUFFICES ASSUME live' # 0, calm'[k] PROVE CalmInv(k)'
  BY DEF CalmInv
<1>5. live # 0 /\ calm[k]
  BY <1>4
<1>6. CASE ~Has(task[t].todo, k)
  <2>1. ~Concerns(t, k)
    BY <1>6 DEF Concerns
  <2>2. ~Concerns(t, k)'
    <3>1. r.pc = "done" \/ r.todo \in {task[t].todo, Tail(task[t].todo)}
      BY ProceedFacts
    <3> QED
      BY <1>1, <1>3, <1>6, <3>1 DEF Concerns, Rescheduling
  <2>3. \A u \in Tasks : u # t => (Concerns(u, k)' <=> Concerns(u, k))
    BY <1>1 DEF Concerns, Rescheduling
  <2> QED
    BY <1>1, <1>2, <1>4, <1>5, <2>1, <2>2, <2>3, Undisturbed
<1>7. CASE Has(task[t].todo, k)
  <2>1. Concerns(t, k)
    BY <1>7 DEF Concerns
  <2>2. OnCourse(t, k) /\ ~Contended(t, k)
    BY <1>5, <2>1, ContendedIs DEF CalmInv
  <2>3. CASE /\ r.pc \in {"delete", "add"} /\ r.todo = task[t].todo
             /\ r.op = task[t].op /\ r.inst = task[t].inst
    <3>1. OnCourse(t, k)' /\ Concerns(t, k)'
      BY <1>1, <1>7, <2>2, <2>3 DEF OnCourse, Concerns, Rescheduling
    <3> QED
      BY <2>2, <3>1, Alone
  <2>4. CASE r = Proceed(t)
    <3>1. /\ r.op = task[t].op /\ r.inst = task[t].inst /\ r.todo = Tail(task[t].todo)
          /\ r.pc = "list" /\ Head(r.todo) = k
          /\ r.add = Wanted(task[t].op, Head(r.todo), mem[task[t].inst], rule.enabled)
      <4>1. Tail(task[t].todo) # <<>>
        BY <1>3, <1>7, NothingLeft
      <4>2. /\ r.op = task[t].op /\ r.inst = task[t].inst /\ r.todo = Tail(task[t].todo)
            /\ r.pc \in {"done", "list"} /\ (r.todo = <<>> <=> r.pc = "done")
            /\ r.pc = "list" => r.add = Wanted(task[t].op, Head(r.todo), mem[task[t].inst],
                                              rule.enabled)
        BY <2>4, ProceedFacts
      <4> QED
        BY <1>3, <1>7, <4>1, <4>2
    <3>2. Concerns(t, k)'
      BY <1>1, <1>3, <1>7, <3>1 DEF Concerns, Rescheduling
    <3>3. /\ task[t].inst = live /\ task[t].op # "close"
          /\ k = "rule" => task[t].op = "config"
      BY <2>2 DEF OnCourse
    <3>4. k = "rule" => (r.add /\ rule.enabled <=> Effective)
      BY <1>5, <3>1, <3>3 DEF Wanted, Effective
    <3>5. k = "backup" => r.add
      BY <3>1, <3>3 DEF Wanted
    <3>6. OnCourse(t, k)'
      BY <1>1, <3>1, <3>3, <3>4, <3>5 DEF OnCourse, Effective
    <3> QED
      BY <2>2, <3>2, <3>6, Alone
  <2> QED
    BY <1>4, <1>7, <2>3, <2>4
<1> QED
  BY <1>6, <1>7

\* The kind a reschedule works on: while it is calm nobody else does.
LEMMA ThisKind ==
    ASSUME SchedulesTyped, SettledInv, NEW t \in Tasks, Rescheduling(t), NEW ok \in BOOLEAN,
           Noted(t, ok), NEW k, k = Head(task[t].todo), live' # 0, calm'[k], UNCHANGED live
    PROVE  /\ k \in Kinds /\ ok /\ ~Contended(t, k) /\ Concerns(t, k) /\ OnCourse(t, k)
           /\ live # 0 /\ calm[k]
<1>1. k \in Kinds /\ Has(task[t].todo, k)
  BY TodoFacts, ReschedulingFacts
<1>2. ok /\ ~Contended(t, k) /\ calm[k]
  BY <1>1, NotedFacts
<1>3. Concerns(t, k)
  BY <1>1 DEF Concerns
<1> QED
  BY <1>1, <1>2, <1>3 DEF SettledInv, CalmInv

LEMMA ListSettles ==
    ASSUME SchedulesTyped, SettledInv, NEW t \in Tasks, List(t)
    PROVE  SettledInv'
<1>1. PICK r \in Task, ok \in BOOLEAN :
         /\ task' = [task EXCEPT ![t] = r] /\ Noted(t, ok)
         /\ r.pc = "delete" /\ r.todo = task[t].todo /\ r.op = task[t].op
         /\ r.inst = task[t].inst /\ r.add = task[t].add
         /\ r.base = task[t].base /\ r.rev = task[t].rev
         /\ r.listed \in {task[t].listed, Ids(Head(task[t].todo))}
         /\ ok => r.listed = Ids(Head(task[t].todo))
         /\ faults' \in 0..MaxCronFaults
         /\ Rescheduling(t) /\ task[t].pc = "list"
  BY ListFacts
<1>2. UNCHANGED <<rule, mem, live, jobs>>
  BY DEF List, ruleVars
<1> DEFINE kind == Head(task[t].todo)
<1>3. IdsUnique' /\ ListedRight'
  <2>1. task[t].listed = {}
    BY <1>1 DEF SettledInv, ListedRight
  <2>2. \A j \in jobs : j.id \in Ids(kind) => j.kind = kind
    BY DEF Ids, SettledInv, IdsUnique
  <2>3. \A j \in jobs' : j.id \in r.listed => j.kind = Head(r.todo)
    BY <1>1, <1>2, <2>1, <2>2
  <2> DEFINE new == [id |-> minted + 1]
  <2>4. new.id = minted + 1 /\ jobs' \subseteq jobs \cup {new}
    BY <1>2
  <2> HIDE DEF new
  <2> QED
    BY <1>1, <2>3, <2>4, ListedMoves DEF SettledInv
<1>4. ASSUME NEW k \in Kinds PROVE CalmInv(k)'
  <2>1. JobsOf(k)' = JobsOf(k) /\ Ids(k)' = Ids(k) /\ (calm'[k] => calm[k])
    BY <1>1, <1>2, NotedFacts DEF JobsOf, Ids
  <2>2. CASE k # kind
    BY <1>1, <1>2, <2>1, <2>2, OtherKind DEF SettledInv
  <2>3. CASE k = kind
    <3> SUFFICES ASSUME live' # 0, calm'[k] PROVE CalmInv(k)'
      BY DEF CalmInv
    <3>1. ok /\ ~Contended(t, k) /\ Concerns(t, k) /\ OnCourse(t, k)
      BY <1>1, <1>2, <2>3, ThisKind
    <3>2. task'[t] = r
      BY <1>1, MoveFacts
    <3>3. Concerns(t, k)'
      BY <1>1, <3>1, <3>2 DEF Concerns, Rescheduling
    <3>4. OnCourse(t, k)'
      BY <1>1, <1>2, <2>1, <2>3, <3>1, <3>2 DEF OnCourse, Effective
    <3> QED
      BY <1>1, <3>1, <3>3, <3>4, Alone
  <2> QED
    BY <2>2, <2>3
<1> QED
  BY <1>3, <1>4 DEF SettledInv

\* A call of the cron manager raised, with or without a job of the kind gone:
\* no kind that the task still had to reschedule is calm.
LEMMA RaiseSettles ==
    ASSUME SchedulesTyped, SettledInv, NEW t \in Tasks, Rescheduling(t), CallRaises(t),
           UNCHANGED <<rule, mem, live>>, jobs' \subseteq jobs,
           \A j \in jobs \ jobs' : j.kind = Head(task[t].todo)
    PROVE  SettledInv'
<1> DEFINE kind == Head(task[t].todo)
<1>1. PICK r \in Task :
         /\ task' = [task EXCEPT ![t] = r]
         /\ \/ r = Proceed(t) /\ Noted(t, FALSE)
            \/ /\ r.pc = "done" /\ r.listed = {}
               /\ \A k \in Kinds : calm'[k] => calm[k] /\ ~Has(task[t].todo, k)
  BY RaiseFacts, Zenon
<1>2. r.listed = {}
  BY <1>1, ProceedFacts
<1>3. IdsUnique' /\ ListedRight'
  <2> DEFINE new == [id |-> minted + 1]
  <2>1. new.id = minted + 1 /\ jobs' \subseteq jobs \cup {new}
    OBVIOUS
  <2> HIDE DEF new
  <2> QED
    BY <1>1, <1>2, <2>1, ListedMoves DEF SettledInv
<1>4. ASSUME NEW k \in Kinds PROVE CalmInv(k)'
  <2>1. calm'[k] => calm[k]
    BY <1>1, NotedFacts
  <2>2. CASE k # kind
    <3>1. JobsOf(k)' = JobsOf(k)
      BY <2>2 DEF JobsOf
    <3>2. r = Proceed(t) \/ (r.pc = "done" /\ (calm'[k] => ~Has(task[t].todo, k)))
      BY <1>1
    <3> QED
      BY <1>1, <2>1, <2>2, <3>1, <3>2, OtherKind DEF SettledInv
  <2>3. CASE k = kind
    <3> SUFFICES ASSUME live' # 0, calm'[k] PROVE FALSE
      BY DEF CalmInv
    <3>1. Has(task[t].todo, k)
      BY <2>3, TodoFacts, ReschedulingFacts
    <3> QED
      BY <1>1, <2>3, <3>1, ThisKind
  <2> QED
    BY <2>2, <2>3
<1> QED
  BY <1>3, <1>4 DEF SettledInv

LEMMA RemoveSettles ==
    ASSUME SchedulesTyped, SettledInv, NEW t \in Tasks, Rescheduling(t), task[t].pc = "delete",
           UNCHANGED <<rule, mem, live>>,
           NEW r \in Task, NEW id \in task[t].listed, Removes(t, r, id)
    PROVE  SettledInv'
<1>1. /\ task' = [task EXCEPT ![t] = r] /\ Noted(t, TRUE)
      /\ jobs' = {j \in jobs : j.id # id}
      /\ r.pc = "delete" /\ r.todo = task[t].todo /\ r.op = task[t].op
      /\ r.inst = task[t].inst /\ r.add = task[t].add
      /\ r.base = task[t].base /\ r.rev = task[t].rev
      /\ r.listed = task[t].listed \ {id}
      /\ Rescheduling(t) /\ task[t].pc = "delete"
  BY DEF Removes
<1>2. UNCHANGED <<rule, mem, live>>
  OBVIOUS
<1> DEFINE kind == Head(task[t].todo)
<1>3. \A j \in jobs : j.id \in task[t].listed => j.kind = kind
  BY <1>1 DEF SettledInv, ListedRight
<1>4. IdsUnique' /\ ListedRight'
  <2>1. \A j \in jobs' : j.id \in r.listed => j.kind = Head(r.todo)
    BY <1>1, <1>3
  <2> DEFINE new == [id |-> minted + 1]
  <2>2. new.id = minted + 1 /\ jobs' \subseteq jobs \cup {new}
    BY <1>1
  <2> HIDE DEF new
  <2> QED
    BY <1>1, <2>1, <2>2, ListedMoves DEF SettledInv
<1>5. ASSUME NEW k \in Kinds PROVE CalmInv(k)'
  <2>1. calm'[k] => calm[k]
    BY <1>1, NotedFacts
  <2>2. CASE k # kind
    <3>1. JobsOf(k)' = JobsOf(k)
      BY <1>1, <1>3, <2>2 DEF JobsOf
    <3> QED
      BY <1>1, <1>2, <2>1, <2>2, <3>1, OtherKind DEF SettledInv
  <2>3. CASE k = kind
    <3> SUFFICES ASSUME live' # 0, calm'[k] PROVE CalmInv(k)'
      BY DEF CalmInv
    <3>1. ~Contended(t, k) /\ Concerns(t, k) /\ OnCourse(t, k)
      BY <1>1, <1>2, <2>3, ThisKind
    <3>2. task'[t] = r
      BY <1>1, MoveFacts
    <3>3. Concerns(t, k)'
      BY <1>1, <3>1, <3>2 DEF Concerns, Rescheduling
    <3>4. Ids(k) \subseteq task[t].listed
      BY <1>1, <2>3, <3>1 DEF OnCourse
    <3>5. Ids(k)' \subseteq r.listed
      BY <1>1, <3>4 DEF Ids
    <3>6. OnCourse(t, k)'
      BY <1>1, <1>2, <2>3, <3>1, <3>2, <3>5 DEF OnCourse, Effective
    <3> QED
      BY <1>1, <3>1, <3>3, <3>6, Alone
  <2> QED
    BY <2>2, <2>3
<1> QED
  BY <1>4, <1>5 DEF SettledInv

LEMMA DeleteSettles ==
    ASSUME SchedulesTyped, SettledInv, NEW t \in Tasks, Delete(t)
    PROVE  SettledInv'
<1>1. /\ Rescheduling(t) /\ task[t].pc = "delete" /\ jobs' \subseteq jobs
      /\ \A j \in jobs \ jobs' : j.id \in task[t].listed
  BY DeleteFacts
<1>2. UNCHANGED <<rule, mem, live>>
  BY DEF Delete, ruleVars
<1>3. \A j \in jobs \ jobs' : j.kind = Head(task[t].todo)
  BY <1>1 DEF SettledInv, ListedRight
<1>4. CASE CallRaises(t)
  BY <1>1, <1>2, <1>3, <1>4, RaiseSettles
<1>5. ASSUME NEW r \in Task, NEW id \in task[t].listed, Removes(t, r, id) PROVE SettledInv'
  BY <1>1, <1>2, <1>5, RemoveSettles
<1> QED
  BY <1>4, <1>5, DeleteFacts

\* The removal is over: the kind has no job, and gets one if it is called for.
LEMMA LoadSettles ==
    ASSUME SchedulesTyped, SettledInv, NEW t \in Tasks, Load(t)
    PROVE  SettledInv'
<1> DEFINE kind == Head(task[t].todo)
           adds == task[t].add /\ Asks(t, kind)
<1>1. PICK r \in Task :
         /\ task' = [task EXCEPT ![t] = r] /\ Noted(t, TRUE)
         /\ Rescheduling(t) /\ task[t].pc = "delete" /\ task[t].listed = {}
         /\ adds => /\ r.pc = "add" /\ r.todo = task[t].todo /\ r.op = task[t].op
                    /\ r.inst = task[t].inst /\ r.add = task[t].add
                    /\ r.base = task[t].base /\ r.rev = rule.rev /\ r.listed = {}
         /\ ~adds => r = Proceed(t)
  BY LoadFacts
<1>2. UNCHANGED <<rule, mem, live, jobs>>
  BY DEF Load, ruleVars, cronVars
<1>3. IdsUnique' /\ ListedRight'
  <2>1. r.listed = {}
    BY <1>1, ProceedFacts
  <2> QED
    BY <1>1, <1>2, <2>1, ListedStays DEF SettledInv
<1>4. ASSUME NEW k \in Kinds PROVE CalmInv(k)'
  <2>1. JobsOf(k)' = JobsOf(k) /\ Ids(k)' = Ids(k) /\ (calm'[k] => calm[k])
    BY <1>1, <1>2, NotedFacts DEF JobsOf, Ids
  <2>2. CASE k # kind
    <3>1. \/ /\ r.pc \in {"delete", "add"} /\ r.todo = task[t].todo
             /\ r.op = task[t].op /\ r.inst = task[t].inst
          \/ r = Proceed(t)
      BY <1>1
    <3> QED
      BY <1>1, <1>2, <2>1, <2>2, <3>1, OtherKind DEF SettledInv
  <2>3. CASE k = kind
    <3> SUFFICES ASSUME live' # 0, calm'[k] PROVE CalmInv(k)'
      BY DEF CalmInv
    <3>1. ~Contended(t, k) /\ Concerns(t, k) /\ OnCourse(t, k)
      BY <1>1, <1>2, <2>3, ThisKind
    <3>2. task'[t] = r
      BY <1>1, MoveFacts
    <3>3. Ids(k) = {}
      BY <1>1, <2>3, <3>1 DEF OnCourse
    <3>4. JobsOf(k) = {}
      BY <3>3 DEF Ids, JobsOf
    <3>5. task[t].inst = live /\ task[t].op # "close" /\ (k = "backup" => task[t].add)
          /\ (k = "rule" => (task[t].add /\ rule.enabled <=> Effective))
      BY <2>3, <3>1 DEF OnCourse
    <3>6. adds <=> Called(k)
      BY <2>3, <3>5 DEF Asks, Called, Kinds
    <3>7. (Called(k)' <=> Called(k)) /\ (Effective' <=> Effective)
      BY <1>2 DEF Called, Effective
    <3>8. CASE adds
      <4>1. /\ r.pc = "add" /\ r.todo = task[t].todo /\ r.op = task[t].op
            /\ r.inst = task[t].inst /\ r.add = task[t].add /\ r.rev = rule.rev
        BY <1>1, <3>8
      <4>2. Concerns(t, k)'
        BY <3>1, <3>2, <4>1 DEF Concerns, Rescheduling
      <4>3. OnCourse(t, k)'
        BY <1>2, <2>1, <2>3, <3>2, <3>4, <3>5, <3>6, <3>7, <3>8, <4>1 DEF OnCourse
      <4> QED
        BY <1>1, <3>1, <4>2, <4>3, Alone
    <3>9. CASE ~adds
      <4>1. r.todo = Tail(task[t].todo)
        BY <1>1, <3>9, ProceedFacts
      <4>2. ~Concerns(t, k)'
        BY <1>1, <2>3, <3>2, <4>1, TodoFacts, ReschedulingFacts DEF Concerns
      <4>3. Exact(k)'
        BY <2>1, <3>4, <3>6, <3>7, <3>9 DEF Exact
      <4> QED
        BY <1>1, <3>1, <4>2, <4>3, Alone
    <3> QED
      BY <3>8, <3>9
  <2> QED
    BY <2>2, <2>3
<1> QED
  BY <1>3, <1>4 DEF SettledInv

\* The one job that is called for is there.
LEMMA AddSettles ==
    ASSUME SchedulesTyped, SettledInv, NEW t \in Tasks, Add(t)
    PROVE  SettledInv'
<1> DEFINE kind == Head(task[t].todo)
           new == [id |-> minted + 1, kind |-> kind, inst |-> task[t].inst, rev |-> task[t].rev]
           r == Proceed(t)
<1>0. Rescheduling(t) /\ task[t].pc = "add" /\ r \in Task
  BY AddFacts
<1>1. UNCHANGED <<rule, mem, live>>
  BY DEF Add, ruleVars
<1>2. CASE CallRaises(t) /\ UNCHANGED jobs
  BY <1>0, <1>1, <1>2, RaiseSettles
<1>3. CASE task' = [task EXCEPT ![t] = r] /\ Noted(t, TRUE) /\ jobs' = jobs \cup {new}
  <2>1. new.id = minted + 1 /\ new.kind = kind /\ new.inst = task[t].inst /\ new.rev = task[t].rev
    OBVIOUS
  <2> HIDE DEF new
  <2>2. r.listed = {} /\ jobs' \subseteq jobs \cup {new} /\ r.todo = Tail(task[t].todo)
    BY <1>0, <1>3, ProceedFacts
  <2>3. r = Proceed(t)
    OBVIOUS
  <2> HIDE DEF r
  <2>4. IdsUnique' /\ ListedRight'
    BY <1>0, <1>3, <2>1, <2>2, ListedMoves DEF SettledInv
  <2>5. ASSUME NEW k \in Kinds PROVE CalmInv(k)'
    <3>1. calm'[k] => calm[k]
      BY <1>0, <1>3, NotedFacts
    <3>2. CASE k # kind
      <4>1. JobsOf(k)' = JobsOf(k)
        BY <1>3, <2>1, <3>2 DEF JobsOf
      <4> QED
        BY <1>0, <1>1, <1>3, <2>3, <3>1, <3>2, <4>1, OtherKind DEF SettledInv
    <3>3. CASE k = kind
      <4> SUFFICES ASSUME live' # 0, calm'[k] PROVE CalmInv(k)'
        BY DEF CalmInv
      <4>1. ~Contended(t, k) /\ OnCourse(t, k)
        BY <1>0, <1>1, <1>3, <3>3, ThisKind
      <4>2. /\ task[t].inst = live /\ JobsOf(k) = {} /\ Called(k)
            /\ k = "rule" => task[t].rev = rule.rev
        BY <1>0, <3>3, <4>1 DEF OnCourse
      <4>3. task'[t] = r
        BY <1>0, <1>3, MoveFacts
      <4>4. ~Concerns(t, k)'
        BY <1>0, <2>2, <3>3, <4>3, TodoFacts, ReschedulingFacts DEF Concerns
      <4>5. new \in jobs' /\ JobsOf(k)' = {new}
        BY <1>3, <2>1, <3>3, <4>2 DEF JobsOf
      <4>6. Called(k)'
        BY <1>1, <4>2 DEF Called, Effective
      <4>7. Exact(k)'
        BY <1>1, <2>1, <4>2, <4>5, <4>6 DEF Exact
      <4> QED
        BY <1>0, <1>3, <4>1, <4>4, <4>7, Alone
    <3> QED
      BY <3>2, <3>3
  <2> QED
    BY <2>4, <2>5 DEF SettledInv
<1> QED
  BY <1>2, <1>3, AddFacts, Zenon

\* A reschedule begins, or ends before it began: it is on course for the kinds
\* that it calms, and the others do not notice.
LEMMA Starts ==
    ASSUME SchedulesTyped, SettledInv, NEW t \in Tasks, ~Rescheduling(t),
           NEW op, NEW inst, NEW todo \in Todos, NEW c, NEW e,
           Enters(t, op, inst, todo, c, e), UNCHANGED jobs,
           \A k \in Kinds : live' # 0 /\ calm'[k] /\ Has(todo, k) =>
               /\ ~Contended(t, k) /\ inst = live' /\ op # "close"
               /\ k = "rule" /\ Head(todo) # k => op = "config"
               /\ k = "rule" /\ Head(todo) = k =>
                     (Wanted(op, k, c, e) /\ rule'.enabled <=> Effective'),
           \A k \in Kinds : live' # 0 /\ calm'[k] /\ ~Has(todo, k) =>
               /\ live' = live /\ calm[k] /\ (Called(k)' <=> Called(k))
               /\ k = "rule" => rule'.rev = rule.rev /\ rule'.enabled = rule.enabled
    PROVE  SettledInv'
<1>1. PICK r \in Task :
         /\ task' = [task EXCEPT ![t] = r]
         /\ r.op = op /\ r.inst = inst /\ r.todo = todo /\ r.listed = {}
         /\ todo = <<>> => r.pc = "done"
         /\ todo # <<>> => r.pc = "list" /\ r.add = Wanted(op, Head(todo), c, e)
  BY Zenon DEF Enters
<1>2. task'[t] = r /\ \A u \in Tasks \ {t} : task'[u] = task[u]
  BY <1>1, MoveFacts
<1>3. IdsUnique' /\ ListedRight'
  BY <1>1, ListedStays DEF SettledInv
<1>4. ASSUME NEW k \in Kinds PROVE CalmInv(k)'
  <2> SUFFICES ASSUME live' # 0, calm'[k] PROVE CalmInv(k)'
    BY DEF CalmInv
  <2>1. CASE Has(todo, k)
    <3>1. /\ ~Contended(t, k) /\ inst = live' /\ op # "close"
          /\ k = "rule" /\ Head(todo) # k => op = "config"
          /\ k = "rule" /\ Head(todo) = k =>
                (Wanted(op, k, c, e) /\ rule'.enabled <=> Effective')
      BY <2>1
    <3>2. r.pc = "list" /\ r.add = Wanted(op, Head(todo), c, e)
      BY <1>1, <2>1, NothingLeft
    <3>3. Concerns(t, k)'
      BY <1>1, <1>2, <2>1, <3>2 DEF Concerns, Rescheduling
    <3>4. k = "backup" /\ Head(todo) = k => r.add
      BY <3>1, <3>2 DEF Wanted
    <3>5. OnCourse(t, k)'
      BY <1>1, <1>2, <3>1, <3>2, <3>4 DEF OnCourse
    <3> QED
      BY <1>1, <3>1, <3>3, <3>5, Alone
  <2>2. CASE ~Has(todo, k)
    <3>1. ~Concerns(t, k) /\ ~Concerns(t, k)'
      BY <1>1, <1>2, <2>2 DEF Concerns
    <3>2. \A u \in Tasks : Concerns(u, k)' <=> Concerns(u, k)
      BY <1>2, <3>1 DEF Concerns, Rescheduling
    <3>3. \A u \in Tasks : Concerns(u, k) => task'[u] = task[u]
      BY <1>2, <3>1
    <3>4. JobsOf(k)' = JobsOf(k)
      BY DEF JobsOf
    <3> QED
      BY <2>2, <3>2, <3>3, <3>4, Undisturbed DEF SettledInv
  <2> QED
    BY <2>1, <2>2
<1> QED
  BY <1>3, <1>4 DEF SettledInv

\* Nothing that the jobs depend on changes, and no task that concerns them.
LEMMA Unnoticed ==
    ASSUME SchedulesTyped, SettledInv, UNCHANGED <<jobs, rule, mem, live, calm>>,
           UNCHANGED task \/ \E t \in Tasks, r \in Task :
               /\ task' = [task EXCEPT ![t] = r] /\ ~Rescheduling(t)
               /\ r.pc \notin {"list", "delete", "add"}
    PROVE  SettledInv'
<1>1. ASSUME NEW k \in Kinds,
             \A u \in Tasks : Concerns(u, k)' <=> Concerns(u, k),
             \A u \in Tasks : Concerns(u, k) => task'[u] = task[u]
      PROVE  CalmInv(k)'
  <2>1. JobsOf(k)' = JobsOf(k) /\ (Called(k)' <=> Called(k))
    BY DEF JobsOf, Called, Effective
  <2> QED
    BY <1>1, <2>1, Undisturbed DEF SettledInv
<1>2. CASE UNCHANGED task
  <2>1. IdsUnique' /\ ListedRight'
    BY <1>2, ListedSame DEF SettledInv
  <2>2. ASSUME NEW k \in Kinds PROVE CalmInv(k)'
    BY <1>1, <1>2 DEF Concerns, Rescheduling
  <2> QED
    BY <2>1, <2>2 DEF SettledInv
<1>3. ASSUME NEW t \in Tasks, NEW r \in Task, task' = [task EXCEPT ![t] = r], ~Rescheduling(t),
             r.pc \notin {"list", "delete", "add"}
      PROVE  SettledInv'
  <2>1. IdsUnique' /\ ListedRight'
    BY <1>3, ListedStays DEF SettledInv
  <2>2. task'[t] = r /\ \A u \in Tasks \ {t} : task'[u] = task[u]
    BY <1>3, MoveFacts
  <2>3. ASSUME NEW k \in Kinds PROVE CalmInv(k)'
    <3>1. ~Concerns(t, k) /\ ~Concerns(t, k)'
      BY <1>3, <2>2 DEF Concerns, Rescheduling
    <3>2. \A u \in Tasks : Concerns(u, k)' <=> Concerns(u, k)
      BY <2>2, <3>1 DEF Concerns, Rescheduling
    <3>3. \A u \in Tasks : Concerns(u, k) => task'[u] = task[u]
      BY <2>2, <3>1
    <3> QED
      BY <1>1, <3>2, <3>3
  <2> QED
    BY <2>1, <2>3 DEF SettledInv
<1> QED
  BY <1>2, <1>3

LEMMA HasOf ==
    /\ \A k : Has(<<"rule">>, k) <=> k = "rule"
    /\ \A k : Has(<<"backup">>, k) <=> k = "backup"
    /\ \A k : Has(<<"backup", "rule">>, k) <=> k \in Kinds
    /\ \A k : Has(<<"rule", "backup">>, k) <=> k \in Kinds
    /\ \A k : ~Has(<<>>, k)
  BY DEF Has, Kinds

LEMMA SavesSettle ==
    ASSUME SchedulesTyped, SettledInv, NEW t \in Clients,
           SaveRuleBegins(t) \/ SaveRule(t) \/ RuleCommand(t) \/ SaveConfig(t)
    PROVE  SettledInv'
<1>0. t \in Tasks
  BY DEF Tasks
<1>1. CASE SaveRuleBegins(t)
  <2> DEFINE r == [task[t] EXCEPT !.pc = "scan", !.op = "rule", !.inst = live, !.base = rule.rev]
  <2>1. /\ live \in Instances /\ task[t] \in Task /\ task \in [Tasks -> Task] /\ rule.rev \in Nat
        /\ ~Rescheduling(t)
    BY <1>0, <1>1 DEF SaveRuleBegins, Fresh, SchedulesTyped, TasksTyped, Rule, Rescheduling
  <2>2. r \in Task /\ r.pc = "scan"
    BY <2>1 DEF Task, Stage, Ops
  <2>3. task' = [task EXCEPT ![t] = r]
    BY <1>1, <2>1 DEF SaveRuleBegins
  <2> HIDE DEF r
  <2>4. UNCHANGED <<jobs, rule, mem, live, calm>>
    BY <1>1 DEF SaveRuleBegins, ruleVars, cronVars
  <2>5. \E u \in Tasks, q \in Task :
            /\ task' = [task EXCEPT ![u] = q] /\ ~Rescheduling(u)
            /\ q.pc \notin {"list", "delete", "add"}
    <3>1. r.pc \notin {"list", "delete", "add"}
      BY <2>2
    <3> QED
      BY <1>0, <2>1, <2>2, <2>3, <3>1, Zenon
  <2> QED
    BY <2>4, <2>5, Unnoticed
<1>2. CASE SaveRule(t)
  <2>1. UNCHANGED <<mem, live, jobs>>
    BY <1>2 DEF SaveRule, cronVars
  <2>2. ~Rescheduling(t)
    BY <1>2, SaveRuleFacts DEF Rescheduling
  <2>3. CASE /\ Enters(t, "rule", task[t].inst, <<>>, conf, FALSE)
             /\ UNCHANGED <<ruleVars, calm>>
    <3>1. rule' = rule /\ calm' = calm
      BY <2>3 DEF ruleVars
    <3>2. \A k \in Kinds : live' # 0 /\ calm'[k] /\ ~Has(<<>>, k) =>
             /\ live' = live /\ calm[k] /\ (Called(k)' <=> Called(k))
             /\ k = "rule" => rule'.rev = rule.rev /\ rule'.enabled = rule.enabled
      BY <2>1, <3>1 DEF Called, Effective
    <3> QED
      BY <1>0, <2>1, <2>2, <2>3, <3>2, Starts, HasOf, TodosAre
  <2>4. CASE /\ Enters(t, "rule", task[t].inst, <<"rule">>, mem[task[t].inst], rule'.enabled)
             /\ Restart(t, <<"rule">>, task[t].inst)
             /\ rule' \in Rule /\ rule'.rev = rule.rev + 1
    <3> DEFINE c == mem[task[t].inst]
    <3>1. ASSUME NEW k \in Kinds, live' # 0, calm'[k], Has(<<"rule">>, k)
          PROVE  /\ ~Contended(t, k) /\ task[t].inst = live' /\ "rule" # "close"
                 /\ k = "rule" /\ Head(<<"rule">>) # k => "rule" = "config"
                 /\ k = "rule" /\ Head(<<"rule">>) = k =>
                       (Wanted("rule", k, c, rule'.enabled) /\ rule'.enabled <=> Effective')
      <4>1. task[t].inst = live /\ ~Contended(t, k) /\ k = "rule"
        BY <1>0, <2>4, <3>1, RestartFacts, HasOf
      <4>2. Wanted("rule", k, c, rule'.enabled) /\ rule'.enabled <=> Effective'
        BY <2>1, <3>1, <4>1 DEF Wanted, Effective
      <4> QED
        BY <2>1, <4>1, <4>2, TodosAre
    <3>2. ASSUME NEW k \in Kinds, live' # 0, calm'[k], ~Has(<<"rule">>, k)
          PROVE  /\ live' = live /\ calm[k] /\ (Called(k)' <=> Called(k))
                 /\ k = "rule" => rule'.rev = rule.rev /\ rule'.enabled = rule.enabled
      <4>1. calm[k] /\ k # "rule"
        BY <1>0, <2>4, <3>2, RestartFacts, HasOf
      <4> QED
        BY <2>1, <4>1 DEF Called
    <3> HIDE DEF c
    <3>3. Enters(t, "rule", task[t].inst, <<"rule">>, c, rule'.enabled)
      BY <2>4 DEF c
    <3> QED
      BY <1>0, <2>1, <2>2, <3>1, <3>2, <3>3, Starts, TodosAre
  <2> QED
    BY <1>2, <2>3, <2>4, SaveRuleFacts
<1>3. CASE RuleCommand(t)
  <2>1. UNCHANGED <<mem, live, jobs>>
    BY <1>3 DEF RuleCommand, cronVars
  <2>2. /\ Enters(t, "command", live, <<"rule">>, mem[live], rule'.enabled)
        /\ Restart(t, <<"rule">>, live) /\ task[t].pc = "idle"
        /\ mem[live].enabled /\ (rule'.enabled => mem[live].auto)
    BY <1>3, RuleCommandFacts
  <2>3. ~Rescheduling(t)
    BY <2>2 DEF Rescheduling
  <2> DEFINE c == mem[live]
  <2>4. ASSUME NEW k \in Kinds, live' # 0, calm'[k], Has(<<"rule">>, k)
        PROVE  /\ ~Contended(t, k) /\ live = live' /\ "command" # "close"
               /\ k = "rule" /\ Head(<<"rule">>) # k => "command" = "config"
               /\ k = "rule" /\ Head(<<"rule">>) = k =>
                     (Wanted("command", k, c, rule'.enabled) /\ rule'.enabled <=> Effective')
    <3>1. ~Contended(t, k) /\ k = "rule"
      BY <1>0, <2>2, <2>4, RestartFacts, HasOf
    <3>2. Wanted("command", k, c, rule'.enabled) /\ rule'.enabled <=> Effective'
      BY <2>1, <2>2, <2>4 DEF Wanted, Effective
    <3> QED
      BY <2>1, <3>1, <3>2, TodosAre
  <2>5. ASSUME NEW k \in Kinds, live' # 0, calm'[k], ~Has(<<"rule">>, k)
        PROVE  /\ live' = live /\ calm[k] /\ (Called(k)' <=> Called(k))
               /\ k = "rule" => rule'.rev = rule.rev /\ rule'.enabled = rule.enabled
    <3>1. calm[k] /\ k # "rule"
      BY <1>0, <2>2, <2>5, RestartFacts, HasOf
    <3> QED
      BY <2>1, <3>1 DEF Called
  <2> HIDE DEF c
  <2>6. Enters(t, "command", live, <<"rule">>, c, rule'.enabled)
    BY <2>2 DEF c
  <2> QED
    BY <1>0, <2>1, <2>3, <2>4, <2>5, <2>6, Starts, TodosAre
<1>4. CASE SaveConfig(t)
  <2>1. UNCHANGED <<rule, live, jobs>>
    BY <1>4 DEF SaveConfig, ruleVars, cronVars
  <2>2. live \in Instances /\ task[t].pc = "idle"
    BY <1>4, SaveConfigFacts
  <2>3. PICK todo \in {<<"backup">>, <<"rule">>, <<"backup", "rule">>}, c \in Conf :
           /\ ~Has(todo, "backup") => c.backup = mem[live].backup
           /\ ~Has(todo, "rule") => c.enabled = mem[live].enabled /\ c.auto = mem[live].auto
           /\ conf' = c /\ mem' = [mem EXCEPT ![live] = c]
           /\ Enters(t, "config", live, todo, c, rule.enabled) /\ Restart(t, todo, live)
    BY <1>4, SaveConfigFacts
  <2>4. ~Rescheduling(t) /\ todo \in Todos /\ mem'[live] = c
    BY <2>2, <2>3, TodosAre DEF Rescheduling, SchedulesTyped
  <2>5. ASSUME NEW k \in Kinds, live' # 0, calm'[k], Has(todo, k)
        PROVE  /\ ~Contended(t, k) /\ live = live' /\ "config" # "close"
               /\ k = "rule" /\ Head(todo) # k => "config" = "config"
               /\ k = "rule" /\ Head(todo) = k =>
                     (Wanted("config", k, c, rule.enabled) /\ rule'.enabled <=> Effective')
    <3>1. ~Contended(t, k)
      BY <1>0, <2>3, <2>5, RestartFacts
    <3>2. k = "rule" => (Wanted("config", k, c, rule.enabled) /\ rule'.enabled <=> Effective')
      BY <2>1, <2>4, <2>5 DEF Wanted, Effective
    <3> QED
      BY <2>1, <3>1, <3>2
  <2>6. ASSUME NEW k \in Kinds, live' # 0, calm'[k], ~Has(todo, k)
        PROVE  /\ live' = live /\ calm[k] /\ (Called(k)' <=> Called(k))
               /\ k = "rule" => rule'.rev = rule.rev /\ rule'.enabled = rule.enabled
    <3>1. calm[k]
      BY <1>0, <2>3, <2>6, RestartFacts
    <3>2. Called(k)' <=> Called(k)
      BY <2>1, <2>3, <2>4, <2>6 DEF Called, Effective, Kinds
    <3> QED
      BY <2>1, <3>1, <3>2
  <2> QED
    BY <1>0, <2>1, <2>3, <2>4, <2>5, <2>6, Starts
<1> QED
  BY <1>1, <1>2, <1>3, <1>4

LEMMA LifeSettles ==
    ASSUME SchedulesTyped, SettledInv,
           (\E i \in Instances : Initialize(i)) \/ Terminate \/ Terminated \/ Die
    PROVE  SettledInv'
<1>0. "life" \in Tasks
  BY DEF Tasks
<1>1. ASSUME NEW i \in Instances, Initialize(i) PROVE SettledInv'
  <2>1. UNCHANGED <<rule, jobs>> /\ rule.enabled \in BOOLEAN
    BY <1>1 DEF Initialize, ruleVars, cronVars, SchedulesTyped, Rule
  <2> DEFINE todo == IF conf.enabled THEN <<"rule", "backup">> ELSE <<>>
  <2>2. /\ live' = i /\ task["life"].pc \in {"idle", "done"}
        /\ mem'[i].enabled = conf.enabled /\ mem'[i].auto = conf.auto
        /\ Enters("life", "init", i, todo, conf, rule.enabled)
        /\ calm' = [k \in Kinds |-> conf.enabled /\ ~Contended("life", k)]
    BY <1>1, InitializeFacts
  <2>3. ~Rescheduling("life") /\ todo \in Todos
    BY <2>2, TodosAre DEF Rescheduling
  <2>4. ASSUME NEW k \in Kinds, calm'[k]
        PROVE  conf.enabled /\ ~Contended("life", k)
    BY <2>2, <2>4, Zenon
  <2>5. ASSUME NEW k \in Kinds, live' # 0, calm'[k], Has(todo, k)
        PROVE  /\ ~Contended("life", k) /\ i = live' /\ "init" # "close"
               /\ k = "rule" /\ Head(todo) # k => "init" = "config"
               /\ k = "rule" /\ Head(todo) = k =>
                     (Wanted("init", k, conf, rule.enabled) /\ rule'.enabled <=> Effective')
    <3>1. todo = <<"rule", "backup">>
      BY <2>4, <2>5
    <3>2. k = "rule" => (Wanted("init", k, conf, rule.enabled) /\ rule'.enabled <=> Effective')
      BY <2>1, <2>2, <2>4, <2>5 DEF Wanted, Effective
    <3> QED
      BY <2>2, <2>4, <2>5, <3>1, <3>2, TodosAre
  <2>6. ASSUME NEW k \in Kinds, live' # 0, calm'[k], ~Has(todo, k) PROVE FALSE
    BY <2>4, <2>6, HasOf
  <2> HIDE DEF todo
  <2> QED
    BY <1>0, <2>1, <2>2, <2>3, <2>5, <2>6, Starts
<1>2. CASE Terminate
  <2>1. UNCHANGED jobs /\ ~Rescheduling("life")
    BY <1>2 DEF Terminate, cronVars, Rescheduling
  <2>2. PICK c \in Conf :
           Enters("life", "close", task["life"].inst, <<"rule", "backup">>, c, rule.enabled)
    BY <1>2, TerminateFacts
  <2>3. \A k \in Kinds : ~calm'[k]
    BY <1>2, TerminateFacts
  <2> QED
    BY <1>0, <2>1, <2>2, <2>3, Starts, TodosAre
<1>3. CASE Terminated
  <2>1. live' = 0 /\ UNCHANGED <<jobs, task>>
    BY <1>3 DEF Terminated, cronVars
  <2> QED
    BY <2>1, ListedSame DEF SettledInv, CalmInv
<1>4. CASE Die
  <2>1. live' = 0 /\ jobs' = {}
    BY <1>4 DEF Die
  <2>2. ListedRight'
    <3> DEFINE over == [Idle EXCEPT !.pc = "done"]
    <3>1. over.pc = "done"
      BY DEF Idle
    <3>2. task' = [t \in Tasks |-> IF t # "life" /\ task[t].pc = "idle" THEN task[t] ELSE over]
      BY <1>4 DEF Die
    <3> HIDE DEF over
    <3> QED
      BY <2>1, <3>1, <3>2 DEF ListedRight
  <2> QED
    BY <2>1, <2>2 DEF SettledInv, CalmInv, IdsUnique
<1> QED
  BY <1>1, <1>2, <1>3, <1>4

LEMMA NextSettles ==
    ASSUME SchedulesTyped, SettledInv, [SchedulesNext]_schedulesVars
    PROVE  SettledInv'
<1>1. CASE UNCHANGED <<jobs, rule, mem, live, calm, task>>
  BY <1>1, Unnoticed
<1>2. CASE UNCHANGED schedVars
  BY <1>1, <1>2 DEF schedVars, ruleVars, cronVars
<1>3. ASSUME NEW t \in Clients, BackupButton(t) \/ DeleteButton(t) PROVE SettledInv'
  <2>1. UNCHANGED <<jobs, rule, mem, live, calm>> /\ task' = [task EXCEPT ![t].pc = "done"]
    BY <1>3 DEF BackupButton, DeleteButton, ruleVars, cronVars
  <2> DEFINE r == [task[t] EXCEPT !.pc = "done"]
  <2>2. t \in Tasks /\ task[t] \in Task /\ task \in [Tasks -> Task] /\ ~Rescheduling(t)
    BY <1>3 DEF BackupButton, DeleteButton, Fresh, Tasks, SchedulesTyped, TasksTyped, Rescheduling
  <2>3. r \in Task /\ r.pc = "done"
    BY <2>2 DEF Task, Stage
  <2>4. task' = [task EXCEPT ![t] = r]
    BY <2>1, <2>2
  <2> HIDE DEF r
  <2>5. r.pc \notin {"list", "delete", "add"}
    BY <2>3
  <2>6. \E u \in Tasks, q \in Task :
            /\ task' = [task EXCEPT ![u] = q] /\ ~Rescheduling(u)
            /\ q.pc \notin {"list", "delete", "add"}
    BY <2>2, <2>3, <2>4, <2>5, Zenon
  <2> QED
    BY <2>1, <2>6, Unnoticed
<1>4. ASSUME NEW f \in Fires, (\E j \in jobs : FireRule(f, j)) \/ WakeUp(f) \/ RunEnds(f)
      PROVE  SettledInv'
  BY <1>1, <1>4 DEF FireRule, WakeUp, RunEnds, ruleVars, cronVars
<1>5. ASSUME NEW i \in Instances, ExportEnds(i) PROVE SettledInv'
  BY <1>2, <1>5 DEF ExportEnds
<1>6. ASSUME NEW j \in jobs, FireBackup(j) PROVE SettledInv'
  BY <1>2, <1>6 DEF FireBackup
<1>7. CASE UNCHANGED schedulesVars
  BY <1>2, <1>7 DEF schedulesVars
<1>8. CASE SchedulesNext
  BY <1>3, <1>4, <1>5, <1>6, <1>8, ListSettles, DeleteSettles, LoadSettles, AddSettles,
     SavesSettle, LifeSettles DEF SchedulesNext, Reschedule
<1> QED
  BY <1>7, <1>8

LEMMA InitSettled == SchedulesInit => SettledInv
<1> SUFFICES ASSUME SchedulesInit PROVE SettledInv
  OBVIOUS
<1>1. live = 0 /\ jobs = {} /\ \A t \in Tasks : task[t] = Idle
  BY DEF SchedulesInit
<1>2. Idle.pc = "idle"
  BY DEF Idle
<1> QED
  BY <1>1, <1>2 DEF SettledInv, IdsUnique, ListedRight, CalmInv

---------------------------------------------------------------------------
(* The promises.                                                           *)

LEMMA NextSound ==
    ASSUME SchedulesInv, [SchedulesNext]_schedulesVars
    PROVE  SchedulesInv' /\ Kept
<1>1. SchedulesTyped' /\ NoLostRule' /\ SettledInv'
  BY NextTyped, NextLosesNoRule, NextSettles DEF SchedulesInv
<1>2. BackupInv' /\ Kept
  BY NextBackupStep, BackupStepSound DEF SchedulesInv
<1> QED
  BY <1>1, <1>2 DEF SchedulesInv

\* The invariant that all the promises below follow from.
THEOREM SchedulesInvariant == SchedulesSpec => []SchedulesInv
<1>1. SchedulesInit => SchedulesInv
  BY InitTyped, InitSettled, BackupInitSound DEF SchedulesInv, SchedulesInit, NoLostRule
<1>2. SchedulesInv /\ [SchedulesNext]_schedulesVars => SchedulesInv'
  BY NextSound
<1> QED
  BY <1>1, <1>2, PTL DEF SchedulesSpec

\* The variables of Schedules and of BackupRun keep their types: the ids of
\* jobs and of what a removal has listed are ids that were given out, nobody
\* knows a revision of the rule that is still to come, and a runner writes an
\* archive exactly while it holds its lock.
THEOREM SchedulesAlwaysTyped == SchedulesSpec => []SchedulesTypeOK
<1>1. SchedulesInv => SchedulesTypeOK
  <2> SUFFICES ASSUME SchedulesInv PROVE SchedulesTypeOK
    OBVIOUS
  <2>1. SchedulesTyped /\ BackupTypeOK
    BY DEF SchedulesInv, BackupInv
  <2>2. \A j \in jobs : j.id \in 1..minted /\ j.kind \in Kinds /\ j.rev \in 0..rule.rev
    BY <2>1 DEF SchedulesTyped, JobsTyped, Job
  <2>3. \A t \in Tasks :
           /\ task[t].pc \in Stage /\ task[t].base \in 0..rule.rev
           /\ task[t].listed \subseteq 1..minted
           /\ task[t].pc \in {"list", "delete", "add"} => task[t].todo # <<>>
    BY <2>1 DEF SchedulesTyped, TasksTyped, Task, Rescheduling
  <2>4. \A f \in Fires : firing[f].pc \in {"none", "sleep", "running", "done"}
    BY <2>1 DEF SchedulesTyped, Firing
  <2> QED
    BY <2>1, <2>2, <2>3, <2>4 DEF SchedulesTypeOK, SchedulesTyped
<1> QED
  BY <1>1, SchedulesInvariant, PTL

\* No save of the rule is built on a revision other than the one it replaces,
\* whatever the scan of the catalogue it awaits, commands and other pages do
\* between its load and its save.
THEOREM NoRuleEverLost == SchedulesSpec => []NoLostRule
<1>1. SchedulesInv => NoLostRule
  BY DEF SchedulesInv
<1> QED
  BY <1>1, SchedulesInvariant, PTL

\* What backup-state.json calls the last success is a complete archive or is
\* gone, after any failures, deaths, reloads and deletions.
THEOREM SuccessAlwaysWhole == SchedulesSpec => []SuccessWhole
<1>1. SchedulesInv => SuccessWhole
  BY DEF SchedulesInv, BackupInv, ArchivesInv, Success, SuccessWhole
<1> QED
  BY <1>1, SchedulesInvariant, PTL

\* What backup-state.json calls the last success changes by the end of a backup
\* only, and a backup never takes back a success that its runner has read or
\* recorded, whatever reloads, deaths, failing reads and writes came between.
THEOREM SuccessAlwaysKept == SchedulesSpec => SuccessKept
<1> DEFINE Keeps ==
      saved'.success # saved.success
      => \E i \in Instances :
            /\ runner[i] = "exporting" /\ runner'[i] # "exporting"
            /\ saved.success \in known[i]
                  => /\ saved'.success # NoArchive
                     /\ saved'.success > saved.success
<1>1. SchedulesInv /\ [SchedulesNext]_schedulesVars => [Keeps]_backupVars
  BY NextSound DEF Kept
<1> QED
  BY <1>1, SchedulesInvariant, PTL DEF SchedulesSpec, SuccessKept

\* When nothing reschedules, and the last reschedule of a kind was alone and
\* unfailed, the cron manager has exactly the job that the saved rule, or the
\* backup settings, call for: one, of the instance that serves and at the
\* current revision of the rule, or none.
THEOREM JobsAlwaysSettled == SchedulesSpec => []SettledJobs
<1>1. ASSUME SchedulesInv, NEW k \in Kinds, Settled(k)
      PROVE  /\ Called(k) <=> JobsOf(k) # {}
             /\ \A j \in JobsOf(k) : j.inst = live /\ (k = "rule" => j.rev = rule.rev)
             /\ Cardinality(JobsOf(k)) <= 1
  <2>1. Exact(k)
    BY <1>1 DEF SchedulesInv, SettledInv, CalmInv, Settled, Concerns
  <2>2. CASE JobsOf(k) = {}
    BY <2>1, <2>2, FS_EmptySet DEF Exact
  <2>3. CASE JobsOf(k) # {}
    <3>1. Called(k)
      BY <2>1, <2>3 DEF Exact
    <3>2. PICK j \in jobs :
             JobsOf(k) = {j} /\ j.inst = live /\ (k = "rule" => j.rev = rule.rev)
      BY <2>1, <3>1 DEF Exact
    <3>3. Cardinality({j}) = 1
      BY FS_Singleton
    <3> QED
      BY <2>3, <3>1, <3>2, <3>3
  <2> QED
    BY <2>2, <2>3
<1>2. SchedulesInv => SettledJobs
  BY <1>1 DEF SettledJobs, Called, Kinds
<1> QED
  BY <1>2, SchedulesInvariant, PTL

\* A run starts under the rule as it is at that moment, enabled, and at the
\* revision its job was made for, however many stale jobs are left.
THEOREM StaleJobsAlwaysHarmless == SchedulesSpec => StaleJobsHarmless
<1> DEFINE Harmless == \A f \in Fires :
      firing[f].pc # "running" /\ firing'[f].pc = "running"
      => rule.enabled /\ firing'[f].rev = rule.rev
<1>1. SchedulesInv /\ [SchedulesNext]_schedulesVars => [Harmless]_schedulesVars
  <2> SUFFICES ASSUME SchedulesInv, SchedulesNext, NEW f \in Fires,
                      firing[f].pc # "running", firing'[f].pc = "running"
               PROVE  rule.enabled /\ firing'[f].rev = rule.rev
    OBVIOUS
  <2>0. firing \in [Fires -> Firing]
    BY DEF SchedulesInv, SchedulesTyped
  <2>1. ASSUME NEW g \in Fires, NEW j \in jobs, FireRule(g, j)
        PROVE  rule.enabled /\ firing'[f].rev = rule.rev
    <3>1. PICK to \in (IF rule.jitter THEN {"sleep"} ELSE Goes(j.inst)) :
             firing' = [firing EXCEPT ![g] = [pc |-> to, inst |-> j.inst, rev |-> j.rev]]
      BY <2>1 DEF FireRule
    <3>2. rule.enabled /\ rule.rev = j.rev
      BY <2>1 DEF FireRule, Admits
    <3> QED
      BY <2>0, <3>1, <3>2
  <2>2. ASSUME NEW g \in Fires, WakeUp(g)
        PROVE  rule.enabled /\ firing'[f].rev = rule.rev
    <3>1. PICK to \in (IF Admits(firing[g].rev) THEN Goes(firing[g].inst) ELSE {"done"}) :
             firing' = [firing EXCEPT ![g].pc = to]
      BY <2>2 DEF WakeUp
    <3>2. g = f /\ to = "running"
      BY <2>0, <3>1
    <3>3. rule.enabled /\ rule.rev = firing[f].rev
      BY <3>1, <3>2 DEF Admits
    <3> QED
      BY <2>0, <3>1, <3>2, <3>3 DEF Firing
  <2>3. ASSUME NEW g \in Fires, RunEnds(g) PROVE FALSE
    BY <2>0, <2>3 DEF RunEnds
  <2>4. ~Die
    <3> SUFFICES ASSUME Die PROVE FALSE
      OBVIOUS
    <3>1. firing' = [g \in Fires |-> IF firing[g].pc = "none" THEN firing[g]
                                     ELSE [firing[g] EXCEPT !.pc = "done"]]
      BY DEF Die
    <3> QED
      BY <2>0, <3>1 DEF Firing
  <2>5. firing' # firing
    OBVIOUS
  <2>6. ASSUME NEW t \in Tasks, Reschedule(t) PROVE FALSE
    BY <2>5, <2>6 DEF Reschedule, List, Delete, Load, Add
  <2>7. ASSUME NEW t \in Clients,
               SaveRuleBegins(t) \/ SaveRule(t) \/ RuleCommand(t) \/ SaveConfig(t)
               \/ BackupButton(t) \/ DeleteButton(t)
        PROVE  FALSE
    BY <2>5, <2>7 DEF SaveRuleBegins, SaveRule, RuleCommand, SaveConfig, BackupButton, DeleteButton
  <2>8. ASSUME NEW i \in Instances, Initialize(i) \/ ExportEnds(i) PROVE FALSE
    BY <2>5, <2>8 DEF Initialize, ExportEnds, schedVars
  <2>9. ~Terminate /\ ~Terminated
    BY <2>5 DEF Terminate, Terminated
  <2>10. ASSUME NEW j \in jobs, FireBackup(j) PROVE FALSE
    BY <2>5, <2>10 DEF FireBackup, schedVars
  <2> QED
    BY <2>1, <2>2, <2>3, <2>4, <2>6, <2>7, <2>8, <2>9, <2>10 DEF SchedulesNext
<1> QED
  BY <1>1, SchedulesInvariant, PTL DEF SchedulesSpec, StaleJobsHarmless
=============================================================================
