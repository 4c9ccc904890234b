--------------------------- MODULE PageOperations ---------------------------
(***************************************************************************)
(* The operations of pages_api.py that bypass the coordinator: install and *)
(* update of one plugin, from its catalogue, the recommendations or the    *)
(* WebUI, each under the mutation lock of core/adapters/astrbot.py, and    *)
(* the record of the commit that was installed, written after the lock is  *)
(* free again, from which the page tells whether the plugin is the latest. *)
(* A coordinated run is the same for one plugin, but may take the change   *)
(* back, and records when the whole run is over; a rollback by hand drops  *)
(* the record, or forgets to when it comes from the WebUI.                 *)
(*                                                                         *)
(* One plugin under one id, installed from archives (with a .git directory *)
(* the record is not read).  A version is the commit it was made from.  Plugin        *)
(* manager and GitHub are external.                                        *)
(***************************************************************************)
EXTENDS Naturals

CONSTANTS
    Ops,         \* page operations and runs under way
    MaxPushes,   \* bound: commits pushed
    MaxChanges,  \* bound: changes of the plugin
    NoOp, Absent, NoSha

ASSUME OperationsAssumption ==
    /\ {MaxPushes, MaxChanges} \subseteq Nat
    /\ NoOp \notin Ops /\ Absent \notin Nat /\ NoSha \notin Nat

VARIABLES
    branch,    \* GitHub: the head of the default branch
    known,     \* registry.remembered_commit: its head as last read, or NoSha
    installed, \* the version of the plugin, or Absent
    record,    \* installed_commits.json: the commit on record, or NoSha
    mutex,     \* who holds adapter._mutation_lock, or NoOp
    opState,        \* per operation: where it is
    changes,
    muddled    \* history: what the code does not mend has happened to the record

opsVars == <<branch, known, installed, record, mutex, opState, changes, muddled>>

Shas == 0..MaxPushes
Quiet == [pc |-> "idle", kind |-> "none", by |-> "none", base |-> Absent, cand |-> NoSha,
          got |-> NoSha, overtaken |-> FALSE]
Changing == {o \in Ops : opState[o].pc \in {"changed", "resolving", "running"}}

OperationsInit ==
    /\ branch = 0 /\ known = NoSha /\ mutex = NoOp /\ changes = 0 /\ muddled = FALSE
    /\ \/ installed = Absent /\ record = NoSha
       \/ installed = 0 /\ record \in {NoSha, 0}
    /\ opState = [o \in Ops |-> Quiet]

Becomes(o, r) == opState' = [opState EXCEPT ![o] = r]
Done(o) == Becomes(o, Quiet)
\* The plugin becomes another: whoever changed it before and has not recorded
\* that yet is overtaken.
Overtakes(o, r) ==
    opState' = [q \in Ops |-> IF q = o THEN r
                              ELSE [opState[q] EXCEPT !.overtaken = @ \/ q \in Changing]]

---------------------------------------------------------------------------
\* An install is chosen from a snapshot that may be old by now (apply_all takes
\* one for all its targets); the adapter looks again under its lock.
AskInstall(o) ==
    /\ opState[o].pc = "idle"
    /\ Becomes(o, [Quiet EXCEPT !.pc = "waiting", !.kind = "install", !.by = "branch"])
    /\ UNCHANGED <<branch, known, installed, record, mutex, changes, muddled>>

\* An update reads the version, then awaits a candidate, which may come from a
\* cache: a tag whose commit is listed, a release (its commit is looked up
\* later) or the archive of the branch.  A run has its candidate from a plan.
AskUpdate(o) ==
    /\ opState[o].pc = "idle" /\ installed # Absent
    /\ \E kind \in {"update", "force", "run"} :
          Becomes(o, [Quiet EXCEPT !.pc = "asking", !.kind = kind, !.base = installed])
    /\ UNCHANGED <<branch, known, installed, record, mutex, changes, muddled>>
Newer(version, base) == version > base
GetCandidate(o) ==
    /\ opState[o].pc = "asking"
    /\ \E c \in 0..branch, by \in {"tag", "release", "branch"} :
          IF opState[o].kind = "force" \/ Newer(c, opState[o].base)
          THEN Becomes(o, [opState[o] EXCEPT !.pc = "waiting", !.cand = c, !.by = by])
          ELSE Done(o)
    /\ UNCHANGED <<branch, known, installed, record, mutex, changes, muddled>>

\* Under the lock: is it there, or not there yet?
EnterMutex(o) ==
    /\ opState[o].pc = "waiting" /\ mutex = NoOp
    /\ IF (opState[o].kind = "install") = (installed = Absent)
       THEN Becomes(o, [opState[o] EXCEPT !.pc = "inside"]) /\ mutex' = o
       ELSE Done(o) /\ UNCHANGED mutex
    /\ UNCHANGED <<branch, known, installed, record, changes, muddled>>

\* The plugin manager fetches the archive, replaces the plugin and reloads it.
ChangePlugin(o) ==
    LET version == IF opState[o].by = "branch" THEN branch ELSE opState[o].cand IN
    /\ opState[o].pc = "inside" /\ changes < MaxChanges
    /\ changes' = changes + 1
    /\ installed' = version
    /\ Overtakes(o, [opState[o] EXCEPT !.pc = "changed", !.got = version])
    /\ UNCHANGED <<branch, known, record, mutex, muddled>>

\* It raises, or the plugin is not found or loaded afterwards: the record is
\* left as it is.
ChangeFails(o) ==
    /\ opState[o].pc \in {"inside", "changed"}
    /\ mutex' = NoOp /\ Done(o)
    /\ muddled' = (muddled \/ opState[o].pc = "changed")
    /\ UNCHANGED <<branch, known, installed, record, changes>>

\* _set_installed_commit_after_mutation: an unknown commit removes the record.
KeepRecord(sha) == record' = IF sha = NoSha THEN record ELSE sha
WriteRecord(sha) == record' = sha
Remember(o, sha) ==
    /\ WriteRecord(sha)
    /\ muddled' = (sha # NoSha /\ (opState[o].overtaken \/ (opState[o].by = "branch" /\ sha # opState[o].got)))

\* The lock is free, and without an await in between the commit is recorded if
\* it is known: that of the listed tag, or of the branch as last read.
LeaveMutex(o) ==
    /\ opState[o].pc = "changed"
    /\ mutex' = NoOp
    /\ \/ /\ opState[o].kind = "run" /\ Becomes(o, [opState[o] EXCEPT !.pc = "running"])
          /\ UNCHANGED <<record, muddled>>
       \/ /\ opState[o].kind # "run"
          /\ opState[o].by = "release" \/ (opState[o].kind = "install" /\ known = NoSha)
          /\ Becomes(o, [opState[o] EXCEPT !.pc = "resolving"])
          /\ UNCHANGED <<record, muddled>>
       \/ /\ opState[o].kind # "run" /\ opState[o].by # "release"
          /\ opState[o].kind = "install" => known # NoSha
          /\ Remember(o, IF opState[o].by = "tag" THEN opState[o].cand ELSE known)
          /\ Done(o)
    /\ UNCHANGED <<branch, known, installed, changes>>

\* resolve_ref_commit of the tag, or the head of the branch by commit_statuses;
\* either may get nothing.
ResolveCommit(o) ==
    /\ opState[o].pc = "resolving"
    /\ \E sha \in {NoSha, IF opState[o].by = "release" THEN opState[o].cand ELSE branch} :
          /\ Remember(o, sha)
          /\ known' = IF opState[o].by = "branch" /\ sha # NoSha THEN sha ELSE known
    /\ Done(o)
    /\ UNCHANGED <<branch, installed, mutex, changes>>

\* _remember_committed_plan_items when the run is over: the commit of the plan,
\* which only a listed tag has.
RememberRun(o) ==
    /\ opState[o].pc = "running" /\ opState[o].kind = "run"
    /\ Remember(o, IF opState[o].by = "tag" THEN opState[o].cand ELSE NoSha)
    /\ Done(o)
    /\ UNCHANGED <<branch, known, installed, mutex, changes>>

\* The transaction takes its change back, over that of a page in the meantime.
RollBackRun(o) ==
    /\ opState[o].pc = "running" /\ opState[o].kind = "run"
    /\ installed' = opState[o].base
    /\ muddled' = (muddled \/ opState[o].overtaken \/ record \notin {NoSha, opState[o].base})
    /\ Overtakes(o, Quiet)
    /\ UNCHANGED <<branch, known, record, mutex, changes>>

\* A rollback by hand puts a backup of some version back, while page operations
\* go on.
StartRollback(o) ==
    /\ opState[o].pc = "idle" /\ installed # Absent /\ changes < MaxChanges
    /\ changes' = changes + 1
    /\ \E version \in Shas, kind \in {"rollback", "webRollback"} :
          /\ installed' = version
          /\ Overtakes(o, [Quiet EXCEPT !.pc = "running", !.kind = kind, !.got = version])
    /\ UNCHANGED <<branch, known, record, mutex, muddled>>

\* aup_rollback forgets the record when the rollback is over; the rollback
\* button of the WebUI does not.
ForgetRecord(o) ==
    /\ opState[o].pc = "running"
    /\ \/ opState[o].kind = "rollback" /\ record' = NoSha /\ muddled' = FALSE
       \/ /\ opState[o].kind = "webRollback" /\ UNCHANGED record
          /\ muddled' = (muddled \/ record # NoSha)
    /\ Done(o)
    /\ UNCHANGED <<branch, known, installed, mutex, changes>>

\* The request is dropped, the run raises, or the process dies.
OpDies(o) ==
    /\ opState[o].pc # "idle"
    /\ mutex' = IF mutex = o THEN NoOp ELSE mutex
    /\ muddled' = (muddled \/ o \in Changing)
    /\ Done(o)
    /\ UNCHANGED <<branch, known, installed, record, changes>>

PushCommit ==
    branch < MaxPushes /\ branch' = branch + 1
    /\ UNCHANGED <<known, installed, record, mutex, opState, changes, muddled>>
CheckHead ==
    known' = branch /\ UNCHANGED <<branch, installed, record, mutex, opState, changes, muddled>>

OperationsNext ==
    \/ \E o \in Ops :
          \/ AskInstall(o) \/ AskUpdate(o) \/ GetCandidate(o) \/ EnterMutex(o)
          \/ ChangePlugin(o) \/ ChangeFails(o) \/ LeaveMutex(o) \/ ResolveCommit(o)
          \/ RememberRun(o) \/ RollBackRun(o) \/ StartRollback(o) \/ ForgetRecord(o)
          \/ OpDies(o)
    \/ PushCommit \/ CheckHead

OperationsSpec == OperationsInit /\ [][OperationsNext]_opsVars

---------------------------------------------------------------------------
\* The page does not call an older plugin the latest on the word of a record
\* of the past (pages_api.py:2174): with no change waiting for its record, the
\* record is of what is installed, or there is none.  What may spoil it is a
\* change that another one overtook before its record was written, one that
\* failed after it was made, one that died, a run that takes its change back
\* over that of a page or under a record of another version, a rollback from
\* the WebUI (main.py:1237), and an archive of the branch, which is not known
\* to be of the commit that was read before or after it.
RecordOfInstalled == Changing = {} /\ ~muddled /\ record # NoSha => record = installed
=============================================================================
