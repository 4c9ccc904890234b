------------------------------- MODULE MCSuite -------------------------------
(***************************************************************************)
(* One run for the components that share nothing that changes with each    *)
(* other: a behaviour is one of a single component, chosen at the start,   *)
(* while the others rest in a first state of theirs.                       *)
(***************************************************************************)
EXTENDS WebuiAuth, WebuiPanels, SeriesControl, VersionRegistry, CommitHeads,
        ModelProbe, RequestContext, PageOperations

VARIABLE part  \* the component of this behaviour; "store" and "login" are
               \* two kinds of behaviour of WebuiAuth

suiteVars == <<authVars, panelsVars, controlVars, regVars, headsVars, probeVars,
               contextVars, opsVars, part>>

(* WebuiAuth.  In "store" accounts are created and changed and everything   *)
(* may fail; in "login" one account is logged into and its password         *)
(* changed, and at most one thing fails.                                    *)
FirstName == CHOOSE n \in Names : TRUE
Requested == {call'[p].op : p \in {q \in Procs : call'[q] # NoCall}}
StoreBehaviour ==
    /\ sessions' = {} /\ failed' = failed
    /\ \A r \in Requested : r.kind # "login" /\ (r.kind = "change" => ~r.pw)
LoginBehaviour ==
    /\ procDeaths' + readFaults' + writeFaults' <= 1
    /\ ids' <= 1
    /\ \A r \in Requested :
          /\ r.kind = "change" => r.role = Keep
          /\ r.kind # "change" => r.name = FirstName
          /\ r.kind = "create" => r.role = "owner" /\ ids = 0

(* RequestContext.  Phases and reasons do not depend on the fragments, and  *)
(* move while there are none.                                               *)
ContextBehaviour ==
    phase' > 0 \/ (\E w \in Writers : reasons'[w] # <<>>) =>
        \A w \in Writers : fragments'[w] = <<>>

(* SeriesControl.  A request asks for one field, or a reset for all.        *)
ControlBehaviour == \A r \in Requests :
    request'[r].pc = "asked" => Cardinality(request'[r].fields) <= 1

(* VersionRegistry.  After a second failure one check is under way at a     *)
(* time.                                                                    *)
RegistryBehaviour ==
    regFaults' > 1 => \E c \in Checks : \A d \in Checks \ {c} : check'[d].pc = "idle"

(* ModelProbe.  The job or a direct test alone tests all kinds; side by side *)
(* they want three kinds between them.                                      *)
ProbeBehaviour == \A t \in Tests :
    probe'[t].pc # "none" =>
        Cardinality(probe'[Job].wanted) + Cardinality(probe'[t].wanted) <= 3

SuiteInit ==
    /\ part \in {"store", "login", "panels", "control", "registry", "heads", "probe",
                 "context", "pages"}
    /\ AuthInit /\ PanelsInit /\ RegistryInit /\ HeadsInit /\ ProbeInit /\ ContextInit
    /\ ControlInit /\ (part # "control" => managed)
    /\ OperationsInit /\ (part # "pages" => installed = Absent)

SuiteNext ==
    /\ UNCHANGED part
    /\ \/ /\ part \in {"store", "login"} /\ AuthNext
          /\ part = "store" => StoreBehaviour
          /\ part = "login" => LoginBehaviour
       \/ part \notin {"store", "login"} /\ UNCHANGED authVars
    /\ IF part = "panels" THEN PanelsNext ELSE UNCHANGED panelsVars
    /\ IF part = "control" THEN ControlNext /\ ControlBehaviour ELSE UNCHANGED controlVars
    /\ IF part = "registry" THEN RegistryNext /\ RegistryBehaviour ELSE UNCHANGED regVars
    /\ IF part = "heads" THEN HeadsNext ELSE UNCHANGED headsVars
    /\ IF part = "probe" THEN ProbeNext /\ ProbeBehaviour ELSE UNCHANGED probeVars
    /\ IF part = "context" THEN ContextNext /\ ContextBehaviour ELSE UNCHANGED contextVars
    /\ IF part = "pages" THEN OperationsNext ELSE UNCHANGED opsVars

SuiteSpec == SuiteInit /\ [][SuiteNext]_suiteVars

\* The variables of every component have their types.
SuiteTypeOK == AuthTypeOK /\ PanelsTypeOK /\ ControlTypeOK /\ RegistryTypeOK /\ HeadsTypeOK
=============================================================================
