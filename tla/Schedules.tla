---------------------------- MODULE Schedules ----------------------------
(***************************************************************************)
(* The daily rule and the automatic backup: ScheduleService of             *)
(* core/scheduler.py, BackupScheduleService of core/backup_scheduler.py,   *)
(* the saves of pages_api.py and main.py that reschedule their cron jobs,  *)
(* initialize() and terminate() of the plugin, and the handlers that fire. *)
(* AstrBot's cron manager is external: a set of jobs, and calls that take  *)
(* effect at some moment of an await.  Composes BackupRun, which the       *)
(* backup job and the buttons of the pages start.                          *)
(*                                                                         *)
(* A rule is its revision and what the scheduler looks at; `mode` of the   *)
(* backup settings stands for their switch, time and zone together.        *)
(***************************************************************************)
EXTENDS BackupRun, Sequences

CONSTANTS
    Clients,       \* requests and commands, each served once
    Operations,    \* those they may be: "rule", "command", "config", "backup"
    Fires,         \* bound: firings of cron jobs that get past the first check
    MaxCronFaults, \* bound: calls of the cron manager that raise
    MaxDeaths      \* bound: deaths of the process

ASSUME SchedulesAssumption ==
    /\ Instances # {} /\ "life" \notin Clients
    /\ Operations \subseteq {"rule", "command", "config", "backup"}
    /\ MaxCronFaults \in Nat /\ MaxDeaths \in Nat

VARIABLES
    rule,     \* rule.json
    conf,     \* manager-config.json
    mem,      \* per instance: the configuration in memory
    live,     \* the instance that serves, or 0 between two of them
    jobs,     \* the jobs of the cron manager
    minted,   \* job ids given out
    task,     \* per client, and for the life cycle: where it is
    firing,   \* per firing: where the handler is
    faults, deaths,
    lineage,  \* history: <<revision a save started from, revision it replaced>>
    calm      \* history, per kind: its last reschedule was alone and unfailed

ruleVars == <<rule, lineage>>
cronVars == <<jobs, minted, faults>>
schedVars == <<ruleVars, conf, mem, live, cronVars, task, firing, deaths, calm>>
schedulesVars == <<schedVars, backupVars>>

Tasks == Clients \cup {"life"}
Kinds == {"rule", "backup"}
Rule == [rev : Nat, enabled : BOOLEAN, jitter : BOOLEAN]
Modes == {"off", "on", "invalid"}
Conf == [enabled : BOOLEAN, auto : BOOLEAN, backup : Modes]
First == CHOOSE i \in Instances : \A j \in Instances : i <= j

\* A task: where it is, the instance it belongs to, what it does, the kinds it
\* still has to reschedule, and the locals of remove_named_cron_jobs.
Idle == [pc |-> "idle", inst |-> First, op |-> "none", todo |-> <<>>, add |-> FALSE,
         base |-> 0, listed |-> {}, rev |-> 0]
Stage == {"idle", "scan", "list", "delete", "add", "done"}
NoFire == [pc |-> "none", inst |-> First, rev |-> 0]

SchedulesTypeOK ==
    /\ BackupTypeOK
    /\ rule \in Rule /\ conf \in Conf /\ mem \in [Instances -> Conf]
    /\ live \in Instances \cup {0}
    /\ \A j \in jobs : j.id \in 1..minted /\ j.kind \in Kinds /\ j.rev \in 0..rule.rev
    /\ \A t \in Tasks :
          /\ task[t].pc \in Stage /\ task[t].base \in 0..rule.rev
          /\ task[t].listed \subseteq 1..minted
          /\ task[t].pc \in {"list", "delete", "add"} => task[t].todo # <<>>
    /\ \A f \in Fires : firing[f].pc \in {"none", "sleep", "running", "done"}
    /\ faults \in 0..MaxCronFaults /\ deaths \in 0..MaxDeaths

\* main.__init__ of the first instance, with initialize() to come.
SchedulesInit ==
    /\ BackupInit
    /\ rule \in [rev : {0}, enabled : BOOLEAN, jitter : {TRUE}]
    /\ conf \in [enabled : BOOLEAN, auto : BOOLEAN, backup : {"off", "on"}]
    /\ mem = [i \in Instances |-> conf]
    /\ live = 0 /\ jobs = {} /\ minted = 0
    /\ task = [t \in Tasks |-> Idle]
    /\ firing = [f \in Fires |-> NoFire]
    /\ faults = 0 /\ deaths = 0 /\ lineage = {}
    /\ calm = [k \in Kinds |-> FALSE]

---------------------------------------------------------------------------
(* Rescheduling: remove_named_cron_jobs, then the rest of rebuild().       *)

Rescheduling(t) == task[t].pc \in {"list", "delete", "add"}
Has(todo, kind) == \E n \in DOMAIN todo : todo[n] = kind
Ids(kind) == {j.id : j \in {k \in jobs : k.kind = kind}}

\* Go on with these kinds: the caller decides, before the first await, if the
\* removal is followed by an addition.  Page and configuration saves look at
\* the switches, initialize() at one of them; a command always rebuilds, and
\* so does whoever refreshes the backup job.
Wanted(op, kind, c, e) ==
    /\ op # "close"
    /\ kind = "rule" /\ op \in {"rule", "config"} => c.enabled /\ c.auto
    /\ kind = "rule" /\ op = "rule" => e
    /\ kind = "rule" /\ op = "init" => c.auto
Enter(r, todo, c, e) ==
    IF todo = <<>> THEN [Idle EXCEPT !.pc = "done", !.op = r.op, !.inst = r.inst]
    ELSE [r EXCEPT !.pc = "list", !.todo = todo, !.listed = {},
                   !.add = Wanted(r.op, Head(todo), c, e)]
Proceed(t) == Enter(task[t], Tail(task[t].todo), mem[task[t].inst], rule.enabled)

\* Another reschedule of the kind is under way, or about to be.
Contended(t, kind) ==
    \E u \in Tasks \ {t} : Rescheduling(u) /\ Has(task[u].todo, kind)

\* History: a step of a reschedule, unfailed or not; and a save, which forgives
\* what went wrong with these kinds before.
Noted(t, ok) ==
    LET kind == Head(task[t].todo) IN
    calm' = [calm EXCEPT ![kind] = @ /\ ok /\ ~Contended(t, kind)]
Restart(t, todo, i) ==
    calm' = [k \in Kinds |->
                IF Has(todo, k) THEN i = live /\ ~Contended(t, k) ELSE calm[k]]

\* list_jobs answers, or raises and counts as empty.
List(t) ==
    /\ task[t].pc = "list"
    /\ LET kind == Head(task[t].todo) IN
       \/ /\ task' = [task EXCEPT ![t].pc = "delete", ![t].listed = Ids(kind)]
          /\ Noted(t, TRUE) /\ UNCHANGED faults
       \/ /\ faults < MaxCronFaults /\ faults' = faults + 1
          /\ task' = [task EXCEPT ![t].pc = "delete"]
          /\ Noted(t, FALSE)
    /\ UNCHANGED <<ruleVars, conf, mem, live, jobs, minted, firing, deaths, backupVars>>

DeleteByName(t) ==
    /\ task[t].pc = "delete"
    /\ \E id \in task[t].listed : task' = [task EXCEPT ![t].listed = @ \ {id}]
    /\ Noted(t, TRUE) /\ UNCHANGED jobs
    /\ UNCHANGED <<ruleVars, conf, mem, live, minted, faults, firing, deaths, backupVars>>

\* A call of the cron manager raises out of the reschedule.  For the rule, a
\* page or a command answers an error, initialize() logs it and never gets to
\* the backup, and neither does terminate(); for the backup, the refresh
\* swallows it.
CallRaises(t) ==
    /\ faults < MaxCronFaults /\ faults' = faults + 1
    /\ IF Head(task[t].todo) = "backup"
       THEN task' = [task EXCEPT ![t] = Proceed(t)] /\ Noted(t, FALSE)
       ELSE /\ task' = [task EXCEPT ![t] = Enter(@, <<>>, conf, FALSE)]
            /\ calm' = [k \in Kinds |-> calm[k] /\ ~Has(task[t].todo, k)]

\* delete_job of one listed id; a job that is gone meanwhile is skipped.  Any
\* other exception, with or without the job gone, ends the removal, and so does
\* one of the call by name that follows a removal of nothing.
Delete(t) ==
    /\ task[t].pc = "delete"
    /\ \/ /\ \E id \in task[t].listed :
                /\ jobs' = {j \in jobs : j.id # id}
                /\ task' = [task EXCEPT ![t].listed = @ \ {id}]
          /\ Noted(t, TRUE) /\ UNCHANGED faults
       \/ /\ CallRaises(t)
          /\ \E gone \in {0} \cup task[t].listed : jobs' = {j \in jobs : j.id # gone}
    /\ UNCHANGED <<ruleVars, conf, mem, live, minted, firing, deaths, backupVars>>

\* The removal is over; rebuild() loads the rule or the settings and, when
\* they are enabled, awaits add_basic_job.
Asks(t, kind) ==
    IF kind = "rule" THEN rule.enabled ELSE mem[task[t].inst].backup = "on"
LoadStale(t) ==
    /\ task[t].pc = "delete" /\ task[t].listed = {}
    /\ IF task[t].add /\ Asks(t, Head(task[t].todo))
       THEN task' = [task EXCEPT ![t].pc = "add", ![t].rev = task[t].base]
       ELSE task' = [task EXCEPT ![t] = Proceed(t)]
    /\ Noted(t, TRUE)
    /\ UNCHANGED <<ruleVars, conf, mem, live, cronVars, firing, deaths, backupVars>>
Load(t) ==
    /\ task[t].pc = "delete" /\ task[t].listed = {}
    /\ LET kind == Head(task[t].todo) IN
       IF task[t].add /\ Asks(t, kind)
       THEN task' = [task EXCEPT ![t].pc = "add", ![t].rev = rule.rev]
       ELSE task' = [task EXCEPT ![t] = Proceed(t)]
    /\ Noted(t, TRUE)
    /\ UNCHANGED <<ruleVars, conf, mem, live, cronVars, firing, deaths, backupVars>>

\* add_basic_job takes effect, or raises; its handler belongs to the instance.
Add(t) ==
    /\ task[t].pc = "add"
    /\ \/ /\ minted' = minted + 1
          /\ jobs' = jobs \cup {[id |-> minted', kind |-> Head(task[t].todo),
                                 inst |-> task[t].inst, rev |-> task[t].rev]}
          /\ task' = [task EXCEPT ![t] = Proceed(t)]
          /\ Noted(t, TRUE) /\ UNCHANGED faults
       \/ CallRaises(t) /\ UNCHANGED <<jobs, minted>>
    /\ UNCHANGED <<ruleVars, conf, mem, live, firing, deaths, backupVars>>

Reschedule(t) == List(t) \/ Delete(t) \/ Load(t) \/ Add(t)

---------------------------------------------------------------------------
(* Saves.                                                                  *)

Fresh(t, op) == task[t].pc = "idle" /\ live # 0 /\ op \in Operations
Started(t, op, todo, c, e) ==
    /\ task' = [task EXCEPT ![t] =
                   Enter([@ EXCEPT !.op = op, !.inst = live], todo, c, e)]
    /\ Restart(t, todo, live)

\* _save_rule_core: load, then await catalog.scan.
SaveRuleBegins(t) ==
    /\ Fresh(t, "rule")
    /\ task' = [task EXCEPT ![t].pc = "scan", ![t].op = "rule", ![t].inst = live,
                            ![t].base = rule.rev]
    /\ UNCHANGED <<ruleVars, conf, mem, live, cronVars, firing, deaths, calm, backupVars>>

\* scheduler.save with the revision the client saw, which is not later than
\* the one loaded: a conflict unless the rule still has it.
AnyRevision(expected) == rule.rev >= expected
CurrentRevision(expected) == rule.rev = expected
SaveRule(t) ==
    /\ task[t].pc = "scan"
    /\ \E expected \in 0..task[t].base :
          IF CurrentRevision(expected)
          THEN /\ \E e, j \in BOOLEAN :
                     rule' = [rev |-> rule.rev + 1, enabled |-> e, jitter |-> j]
               /\ lineage' = lineage \cup {<<task[t].base, rule.rev>>}
               /\ task' = [task EXCEPT ![t] =
                              Enter(@, <<"rule">>, mem[@.inst], rule'.enabled)]
               /\ Restart(t, <<"rule">>, task[t].inst)
          ELSE /\ task' = [task EXCEPT ![t] = Enter(@, <<>>, conf, FALSE)]
               /\ UNCHANGED <<ruleVars, calm>>
    /\ UNCHANGED <<conf, mem, live, cronVars, firing, deaths, backupVars>>

\* aup_rule: load and save without an await between, then a rebuild.  The
\* new rule has the defaults for what the command does not name.
RuleCommand(t) ==
    /\ Fresh(t, "command") /\ mem[live].enabled
    /\ \E e \in BOOLEAN :
          /\ e => mem[live].auto
          /\ rule' = [rev |-> rule.rev + 1, enabled |-> e, jitter |-> FALSE]
    /\ lineage' = lineage \cup {<<rule.rev, rule.rev>>}
    /\ Started(t, "command", <<"rule">>, mem[live], rule'.enabled)
    /\ UNCHANGED <<conf, mem, live, cronVars, firing, deaths, backupVars>>

\* What a request with keys of these kinds may make of the configuration: a
\* time that does not parse is refused, one that is there already stays.
Coerced(todo) ==
    {c \in Conf :
        /\ IF Has(todo, "backup") THEN c.backup # "invalid" ELSE c.backup = mem[live].backup
        /\ ~Has(todo, "rule") => c.enabled = mem[live].enabled /\ c.auto = mem[live].auto}

\* _save_config_core: file, memory, and the jobs that the keys concern.
SaveConfig(t) ==
    /\ Fresh(t, "config")
    /\ \E todo \in {<<"backup">>, <<"rule">>, <<"backup", "rule">>} : \E c \in Coerced(todo) :
          /\ conf' = c /\ mem' = [mem EXCEPT ![live] = c]
          /\ Started(t, "config", todo, c, rule.enabled)
    /\ UNCHANGED <<ruleVars, live, cronVars, firing, deaths, backupVars>>

---------------------------------------------------------------------------
(* The life of the plugin.                                                 *)

\* __init__ reads the configuration; initialize() restores the jobs.  AstrBot's
\* own configuration page may have written a time that does not parse.
Initialize(i) ==
    /\ live = 0 /\ task["life"].pc \in {"idle", "done"} /\ NewRunner(i)
    /\ \A j \in Instances : runner[j] = "none" => i <= j
    /\ live' = i
    /\ \E b \in {conf.backup} \cup (IF conf.backup = "on" THEN {"invalid"} ELSE {}) :
          mem' = [mem EXCEPT ![i] = [conf EXCEPT !.backup = b]]
    /\ LET todo == IF conf.enabled THEN <<"rule", "backup">> ELSE <<>> IN
       /\ task' = [task EXCEPT !["life"] =
                      Enter([@ EXCEPT !.op = "init", !.inst = i], todo, conf, rule.enabled)]
       /\ calm' = [k \in Kinds |-> conf.enabled /\ ~Contended("life", k)]
    /\ UNCHANGED <<ruleVars, conf, cronVars, firing, deaths>>

\* terminate(): both close() in turn, then the instance serves no more.  What
\* its other tasks, its handlers and its exporter are doing goes on.
Terminate ==
    /\ live # 0 /\ task["life"].pc = "done" /\ task["life"].op = "init"
    /\ \E i \in Instances : runner[i] = "none"
    /\ task' = [task EXCEPT !["life"] =
                   Enter([@ EXCEPT !.op = "close"], <<"rule", "backup">>,
                         mem[live], rule.enabled)]
    /\ calm' = [k \in Kinds |-> FALSE]
    /\ UNCHANGED <<ruleVars, conf, mem, live, cronVars, firing, deaths, backupVars>>

Terminated ==
    /\ live # 0 /\ task["life"].pc = "done" /\ task["life"].op = "close"
    /\ live' = 0
    /\ UNCHANGED <<ruleVars, conf, mem, cronVars, task, firing, deaths, calm, backupVars>>

\* The process dies: basic jobs live in memory, their handlers with them.
Die ==
    /\ deaths < MaxDeaths /\ deaths' = deaths + 1
    /\ live # 0 /\ \E i \in Instances : runner[i] = "none"
    /\ RunnersDie
    /\ live' = 0 /\ jobs' = {}
    /\ task' = [t \in Tasks |-> IF t # "life" /\ task[t].pc = "idle" THEN task[t]
                                ELSE [Idle EXCEPT !.pc = "done"]]
    /\ firing' = [f \in Fires |-> IF firing[f].pc = "none" THEN firing[f]
                                  ELSE [firing[f] EXCEPT !.pc = "done"]]
    /\ UNCHANGED <<ruleVars, conf, mem, minted, faults, calm>>

---------------------------------------------------------------------------
(* Firing.                                                                 *)

\* _scheduled_run: skipped when the coordinator is busy, when automatic
\* updates are off, or when the rule only checks.
Goes(i) == IF mem[i].auto THEN {"running", "done"} ELSE {"done"}

WakeUpBlind(f) ==
    /\ firing[f].pc = "sleep"
    /\ \E to \in Goes(firing[f].inst) : firing' = [firing EXCEPT ![f].pc = to]
    /\ UNCHANGED <<ruleVars, conf, mem, live, cronVars, task, deaths, calm, backupVars>>

\* _runtime_handler of the rule's job: the first look at the rule, then the
\* jitter, then the second look.  A stale job does nothing at all.
Admits(rev) == rule.enabled /\ rule.rev = rev
FireRule(f, j) ==
    /\ j.kind = "rule" /\ firing[f].pc = "none" /\ Admits(j.rev)
    /\ \E to \in (IF rule.jitter THEN {"sleep"} ELSE Goes(j.inst)) :
          firing' = [firing EXCEPT ![f] = [pc |-> to, inst |-> j.inst, rev |-> j.rev]]
    /\ UNCHANGED <<ruleVars, conf, mem, live, cronVars, task, deaths, calm, backupVars>>
WakeUp(f) ==
    /\ firing[f].pc = "sleep"
    /\ \E to \in (IF Admits(firing[f].rev) THEN Goes(firing[f].inst) ELSE {"done"}) :
          firing' = [firing EXCEPT ![f].pc = to]
    /\ UNCHANGED <<ruleVars, conf, mem, live, cronVars, task, deaths, calm, backupVars>>

RunEnds(f) ==
    /\ firing[f].pc = "running"
    /\ firing' = [firing EXCEPT ![f].pc = "done"]
    /\ UNCHANGED <<ruleVars, conf, mem, live, cronVars, task, deaths, calm, backupVars>>

\* _runtime_handler of the backup job reads the settings again, then
\* _scheduled_backup runs; the buttons of the pages call the same run_backup,
\* and delete archives.  Both belong to the instance that serves.
FireBackup(j) ==
    /\ j.kind = "backup" /\ mem[j.inst].backup = "on"
    /\ RunBackup(j.inst) /\ UNCHANGED schedVars
BackupButton(t) ==
    /\ Fresh(t, "backup") /\ RunBackup(live)
    /\ task' = [task EXCEPT ![t].pc = "done"]
    /\ UNCHANGED <<ruleVars, conf, mem, live, cronVars, firing, deaths, calm>>
DeleteButton(t) ==
    /\ Fresh(t, "backup")
    /\ \E a \in Archives : DeleteArchive(live, a)
    /\ task' = [task EXCEPT ![t].pc = "done"]
    /\ UNCHANGED <<ruleVars, conf, mem, live, cronVars, firing, deaths, calm>>
ExportEnds(i) == (ExportDone(i) \/ ExportRaises(i)) /\ UNCHANGED schedVars

SchedulesNext ==
    \/ \E t \in Tasks : Reschedule(t)
    \/ \E t \in Clients :
          SaveRuleBegins(t) \/ SaveRule(t) \/ RuleCommand(t) \/ SaveConfig(t)
          \/ BackupButton(t) \/ DeleteButton(t)
    \/ \E i \in Instances : Initialize(i) \/ ExportEnds(i)
    \/ Terminate \/ Terminated \/ Die
    \/ \E f \in Fires : (\E j \in jobs : FireRule(f, j)) \/ WakeUp(f) \/ RunEnds(f)
    \/ \E j \in jobs : FireBackup(j)

\* The event loop runs every task that can run, the cron manager answers, and
\* a plugin that is unloaded for a reload is loaded again.
SchedulesFairness ==
    /\ \A t \in Tasks : WF_schedulesVars(Reschedule(t) \/ SaveRule(t))
    /\ \A i \in Instances : WF_schedulesVars(ExportEnds(i))
    /\ WF_schedulesVars(Terminated \/ \E i \in Instances : Initialize(i))

SchedulesSpec ==
    SchedulesInit /\ [][SchedulesNext]_schedulesVars /\ SchedulesFairness

---------------------------------------------------------------------------
(* Properties.                                                             *)

\* Jobs of overtaken revisions, which overlapping rebuilds and reloads leave
\* behind, are harmless: a run starts under the rule as it is at that moment,
\* enabled, and at the revision its job was made for (scheduler.py:138).
StaleJobsHarmless ==
    [][\A f \in Fires :
          firing[f].pc # "running" /\ firing'[f].pc = "running"
          => rule.enabled /\ firing'[f].rev = rule.rev]_schedulesVars

\* No save of the rule is built on a revision other than the one it replaces,
\* although a page awaits the catalogue between its load and its save and a
\* command may save meanwhile (scheduler.py:116, pages_api.py:1962).
NoLostRule == \A l \in lineage : l[1] = l[2]

\* When nothing reschedules and the last reschedule of a kind was alone and
\* unfailed, the cron manager has exactly the job that the saved rule or the
\* settings call for: one of this instance at the current revision, or none.
Effective == live # 0 /\ mem[live].enabled /\ mem[live].auto /\ rule.enabled
Settled(kind) ==
    /\ live # 0 /\ calm[kind]
    /\ \A t \in Tasks : ~Rescheduling(t)
JobsOf(kind) == {j \in jobs : j.kind = kind}
SettledJobs ==
    /\ Settled("rule") =>
          /\ Effective <=> JobsOf("rule") # {}
          /\ \A j \in JobsOf("rule") : j.rev = rule.rev /\ j.inst = live
          /\ Cardinality(JobsOf("rule")) <= 1
    /\ Settled("backup") =>
          /\ mem[live].backup = "on" <=> JobsOf("backup") # {}
          /\ \A j \in JobsOf("backup") : j.inst = live
          /\ Cardinality(JobsOf("backup")) <= 1

\* A rule that is saved and stays effective gets its job, if no other
\* reschedule and no failure interferes: every await of a rebuild ends.
RuleTakesEffect ==
    (Effective /\ calm["rule"]) ~>
        (~Effective \/ ~calm["rule"] \/ \E j \in JobsOf("rule") : j.rev = rule.rev)

\* backup_scheduler.py:1: the backup has "a switch, a time and a zone of its
\* own" and "does not affect, and is not affected by, the daily rule".  So with
\* the plugin enabled, the backup on, and nothing rescheduling or unloading,
\* its job is there, although a call of the cron manager failed, if that call was for the rule:
\* then it is the rule that has no job.
BackupIndependent ==
    /\ live # 0 /\ mem[live].enabled /\ mem[live].backup = "on"
    /\ task["life"].op # "close" /\ \A t \in Tasks : ~Rescheduling(t)
    /\ faults > 0 => Effective /\ JobsOf("rule") = {}
    => JobsOf("backup") # {}
=============================================================================
