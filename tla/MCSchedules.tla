---------------------------- MODULE MCSchedules ----------------------------
(***************************************************************************)
(* Small instances of Schedules for TLC.  A behaviour is one of three      *)
(* scenarios, which cut steps but none that fairness is about:             *)
(*   saves    two clients that save the rule and the configuration;        *)
(*   faults   one client around a reload, a failure of the cron manager    *)
(*            or a death;                                                  *)
(*   backups  the backup job and the buttons, around a reload or a death.  *)
(***************************************************************************)
EXTENDS Schedules, TLC

CONSTANT Scenarios
VARIABLE scenario

mcVars == <<schedulesVars, scenario>>

FirstClient == CHOOSE c \in Clients : TRUE
OneClient == \A d \in Clients \ {FirstClient} : task'[d] = Idle
\* A symmetry by hand, since liveness rules SYMMETRY out: clients in one order.
InOrder == task'[FirstClient] = Idle => OneClient
Allowed ==
    /\ scenario = "saves" =>
          /\ UNCHANGED <<taken, dir, diskFaults, faults, deaths>>
          /\ live' # 0 /\ task'["life"].op # "close"
          /\ \A i \in Instances : mem'[i].backup = mem[i].backup /\ mem'[i].enabled
          /\ \A c \in Clients : task'[c].todo \in {<<>>, <<"rule">>}
    /\ scenario = "faults" =>
          /\ OneClient /\ UNCHANGED <<taken, dir, diskFaults>>
          /\ faults' + deaths' <= 1 /\ rule'.jitter
          /\ Len(task'[FirstClient].todo) <= 1
    /\ scenario = "backups" =>
          /\ UNCHANGED <<rule, conf, faults, firing>>
          /\ \A c \in Clients : task'[c].op \in {"none", "backup"}

MCInit ==
    /\ SchedulesInit /\ scenario \in Scenarios
    /\ scenario = "saves" => conf.backup = "off"
    /\ scenario # "faults" => conf.enabled
    /\ scenario = "faults" => conf.backup = "on" /\ (conf.enabled \/ conf.auto)
    /\ scenario = "backups" => conf.backup = "on" /\ ~conf.auto /\ ~rule.enabled
MCNext == SchedulesNext /\ Allowed /\ InOrder /\ UNCHANGED scenario
MCSpec == MCInit /\ [][MCNext]_mcVars /\ SchedulesFairness

=============================================================================
