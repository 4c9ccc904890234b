# Verification of astrbot_plugin_update_manager

TLA+ models of the update manager ("核", a plugin of AstrBot that updates other
plugins), checked with TLC on small instances and, for the core of the system,
proved with TLAPS for every value of the constants. Paths are relative to `src/`.

## 1. The system

Everything runs in one process of AstrBot, on one asyncio event loop: a task keeps
the loop until it awaits. State that must survive is in JSON files of the plugin's data
directory (`core/adapters/storage.py`); several processes may share that directory, and
a hot reload replaces the plugin instance while tasks of the old one still run.

### Inventory

| Component | State it keeps | Operations | Hard behaviour | What makes it correct | Modelled in |
|---|---|---|---|---|---|
| Lease file lock (`core/adapters/storage.py` FileLeaseLock) | one file, its age | acquire, release, hold | several processes between `stat` and `unlink`; holders that outlive the lease or die | at most one holder; a dead holder blocks nobody for ever | `FileLeaseLock` |
| Plugin transaction (`core/transaction.py`, `core/health.py`) | `tx-*.json`, backup directories, the plugin's own directory | execute, rollback, manual_rollback, cleanup | failure at any write, any behaviour of the core, death anywhere, cleanup of another instance | ends with new healthy, old healthy or ROLLBACK_FAILED; the backup precedes the change | `PluginTransaction`, `AtomicUpdate` |
| Update coordinator (`core/coordinator.py`) | `_lock`, `_cancelled`, `executed-plans.json`, `run-*.json`, the lease file | execute, manual_rollback, cancel, recover_interrupted | commands at every await, hot reload, receipts read early and written late | transactions one at a time on a plugin that is as planned; no replay; cancel and failure policy respected | `UpdateCoordinator` |
| Core adapter (`core/adapters/astrbot.py`) | `_mutation_lock`, discovery report | snapshot, install, update, enable, reload, terminate | the core is foreign code that may raise, lie or do half | what it returns is what is installed | in part: `PluginTransaction`, `PageOperations` |
| Catalogue and planner (`core/catalog.py`, `core/planner.py`, `core/models.py`) | frozen `plan-*.json` | scan, create, validate, policy_allows | stale plans, boundary of versions, ages and expiry | a plan is executed only on the catalogue it was made from | in part: `UpdateCoordinator` |
| JSON store (`core/adapters/storage.py`) | files | read, write, append_audit | a write that fails, a file written and an audit line that is not | a record is whole or not there | in part: `PluginTransaction` |
| Rule and scheduler (`core/scheduler.py`) | `rule.json`, cron job | load, save (compare and swap), rebuild, handler | two rebuilds interleave; the rule changes during the jitter | one job; never run a rule of an older revision | `Schedules` |
| Backup scheduler, runner (`core/backup_scheduler.py`, `core/backup_runner.py`) | cron job, archives, last results | rebuild, run, delete, list | overlapping triggers, a failing export, two runners around a reload | the last success is kept and complete | `Schedules`, `BackupRun` |
| WebUI accounts (`core/webui_auth.py`) | administrators file, sessions, failed logins | bootstrap, create, authenticate, session, change | lock file left by a crash, unreadable store, sequences of role changes | an enabled owner always exists; an old password opens nothing | `WebuiAuth` |
| WebUI jobs, artifacts (`core/webui_jobs.py`, `core/webui_artifacts.py`) | bounded dictionaries | put, get; cancel of jobs nobody creates | limits applied before an insertion | bounds hold | artifacts: `WebuiArtifacts` |
| WebUI panels (`core/webui_panels.py`) | idempotency records, in-flight entries | action, stream | retries with the same request id, timeouts, cancellation | an action is applied once per request id | `WebuiPanels` |
| Series control (`core/series_control.py`) | members with overrides and revisions, mode | apply, freeze, import_native, reset, set_mode | revisions checked before awaits and advanced after | no lost update; gateway and plugin agree on the revision | `SeriesControl` |
| Request context (`core/request_context.py`) | a dictionary per request | ensure_context, add/get_prompt_fragment(s), note | limits, replacement in place | order is deterministic | `RequestContext` |
| Version registry, mirrors, link health (`core/adapters/registry.py`, `core/mirrors.py`, `core/link_health.py`) | caches, back-off, quota | github_latest, commit_statuses, fetch_json | rate limits, stale caches, concurrent checks | an update acts on evidence; stale answers are marked; back-off ends | in part: `VersionRegistry`, `CommitHeads` |
| Bounded concurrency (`core/concurrency.py`) | semaphore | bounded_gather | one failing task | at most `limit` in flight | `ModelProbe` |
| Model routing and probe (`core/model_router.py`, `core/model_probe.py`, `main.py`) | one probe job, direct tests | start, run, test, cancel | cancellation by terminate, direct tests beside the job | one job at a time, each route tested once in a call | `ModelProbe` |
| Page operations (`pages_api.py`, `main.py`) | `manager-config.json`, rule, installed commits | save config, save rule, install, update, enable | operations that do not enter the coordinator, records written after the lock | the record is of what is installed | in part: `PageOperations`, `Schedules` |
| Diagnostics, audit (`core/diagnostics.py`, `core/series_audit.py`, `series_diagnostics.py`) | ring of events | record, list after cursor | none: one synchronous call each | cursors grow | no |
| WebUI server (`core/webui_server.py`) | the HTTP site | routing, cookies, start and stop | none of its own | hands requests on | no |
| Capability catalogue, series UI data (`core/capability_catalog.py`, `core/series_ui.py`) | none | lookups | none | tables | no |
| Browser front ends (`pages/`, `webui/`, `ui/`) | none that others rely on | rendering | none modelled | none modelled | no |

### How they interact

`main.py` freezes a plan (`aup_plan`: catalogue scan, candidates of the registry, planner),
runs it (`aup_run`, or the cron job through `_scheduled_run`) by calling the
coordinator, which takes its process lock and the lease file, validates the plan against a
new scan and runs one transaction per item. The transaction calls the adapter, which
calls the core. `aup_cancel` sets a flag that the batch reads between items;
`terminate()` of a hot reload sets it too. `__init__` of a new instance runs
`recover_interrupted`, `initialize()` runs `cleanup`. The WebUI's rollback button calls
the transaction directly, and the pages install and update plugins through the adapter,
without the coordinator; both leave a record of the commit that they installed.

Saves of the rule and of the configuration, from a page or a command, remove and add the
cron jobs of the rule and the backup, and so do `initialize()` and `terminate()`: every call of
AstrBot's cron manager is an await between them. The WebUI server hands requests to the
accounts, the panels, the series control, the probe and the catalogue; these share nothing
that changes with each other.

## 2. Modules

| Module | Models | State and actions |
|---|---|---|
| `FileLeaseLock` | FileLeaseLock | `file` is the payload of the path, `age` its `now - st_mtime`; one action per system call (`Create`, `CreateExists`, `Stat`, `Unlink`, `Release`), `Tick`, `Crash`, `Restart`. |
| `AtomicUpdate` | the promise of a transaction | `version`, `job`, `before`, `outcome`; a transaction changes the version in one step, to the new one or to what it was `before` the update that it undoes, and only one is open. |
| `PluginTransaction` | execute, rollback, manual_rollback, health check, cleanup, recovery | `disk`, `live`, `active` are a plugin's directory and what the core has loaded; `rec`, `bak`, `mtime` are the files of a transaction; `pc` is where its coroutine is. |
| `UpdateCoordinator` | coordinator and the commands | adds `plan`, `at`, `txs`, `flock`, `receipts`, `cancelled`, `cur` (the instance that serves commands) and composes the actions of `PluginTransaction`. |
| `Schedules` | scheduler.py, backup_scheduler.py, the saves of `pages_api.py` and `main.py`, initialize() and terminate() | `rule`, `conf`, `mem` are `rule.json`, `manager-config.json` and its copy per plugin instance; `jobs` is the cron manager; `task` says where each request is in `remove_named_cron_jobs` and `rebuild` (`List`, `Delete`, `Load`, `Add`), `firing` where a handler is. |
| `BackupRun` | backup_runner.py | `runner` and `writing` per instance, `state` in memory and `saved` in `backup-state.json`, `dir` and `whole` the archives; composed by `Schedules`. A runner may fail to read the file when it is made. |
| `WebuiAuth` | webui_auth.py | `accounts` is the store, `call` an operation between its read and its write, `sessions` and `failed` the memory of each process. |
| `WebuiArtifacts`, `WebuiPanels` | webui_artifacts.py, the actions of webui_panels.py | `artifacts` in order of creation; `action` per HTTP request, `inflight` and `records` as in the code, `threads` those that a timeout left behind. `WebuiPanels` extends `WebuiArtifacts`: actions return files. |
| `SeriesControl` | series_control.py and one plugin under the contract of docs/series-control-mode.md 4.3 | `member` and `memberFile` are the gateway's copy, `overlay` the plugin's own, `request` where each request is between them. |
| `VersionRegistry` | fetch_json and github_latest of registry.py | `json` and `latest` are the two caches, `blocked` and `remaining` what it knows of GitHub's limit, `quota` and `document` are GitHub's. |
| `CommitHeads` | commit_statuses of registry.py | `entry` of one repository with its age, cool-down, back-off; `page` where each check is: GraphQL, then Atom, then REST. |
| `ModelProbe` | model_probe.py, concurrency.py, the job and the direct tests in main.py | `probe` per call of `probe_routes`: its kinds with their routes and states, the groups that are tested (`flight`); `busy` says that a job runs. |
| `RequestContext` | request_context.py | `fragments` and `reasons` per plugin, `phase`; `Rendered` is the order in which get_prompt_fragments returns them. |
| `PageOperations` | install, update, apply-all of pages_api.py, runs and rollbacks next to them | `opState` per operation, `mutex` the mutation lock, `installed`, `record` the commit on record. |
| `MC...` | instances | symmetry, action constraints, and the choice of a scenario (section 3). |
| `...Proofs` | theorems | see section 5; `VersionChecksProofs` is about `VersionRegistry` and `CommitHeads`, `WebuiProofs` about `WebuiAuth` and `WebuiPanels`, `SchedulesProofs` about `Schedules` and `BackupRun`, `SuiteProofs` about `PageOperations`, `ModelProbe`, `RequestContext` and what `MCSuite` joins. |

**Granularity.** `pc` names a point of a coroutine. Points in `Suspended` are awaits; at the
others no other task of the loop runs. The steps between two awaits are nevertheless separate
actions, one per write, so that the process may die and a write may fail between any
two. In `PluginTransaction` transactions are serial; `UpdateCoordinator` uses the same
handlers under `Turn` and `LoopFree`, which give the loop to one task until it awaits. In the
other modules an action is what a task does from one await to the next; in `WebuiAuth`, whose
operations do not await but run in several processes, it is what is done up to the read of the
store and what is done from there to the write.

**Data.** A version is a model value. `Torn` stands for a directory that is no whole
version, `Missing` for none, `Down` for a plugin that is not loaded. `Snapshot` is what
`get_plugin` returns: a plugin that is not loaded is found on disk and shown as
disabled, which is why a health check may pass for it. Digests, paths, tags and
redaction are left out; that the digests of a backup do not match is one outcome of
`VerifyBackup`.

Times are ages, back-offs or windows that end by a step of their own, and are counted only where a
property is about them (`WebuiAuth`, `FileLeaseLock`). A route is a provider with its model and its source, a
panel action its fingerprint, an artifact its size, an override the field that has one, a
version the commit that it was made from.

**History.** Some variables remember what a property needs and no code reads: `lineage`, `calm`,
`known`, `wiped`, `elapsed`, `effects`, `excused`, `stuck`, `acked`, `apart`, `readLately`, `borrowed`, `once`, `twice`,
`killed`, `first`, `muddled`. Those that name what a property does not promise (`wiped`, `excused`, `apart`,
`borrowed`, `killed`, `muddled`, and the negation of `calm`) are set by the events that the property's comment lists, each of
which is a behaviour of the code that section 6 describes.

**The core is foreign.** Whatever it does to a plugin is an instance of `Leaves`: some content in the directory,
some version loaded or none, the plugin enabled or disabled. An update that raises may have done any of it
before; one that returns, since the adapter looks afterwards (`core/adapters/astrbot.py:635`), has left a plugin that
is loaded. A reload returns or raises with what is on disk loaded, nothing loaded, or what was loaded before:
`reload_plugin` (line 654) does not look. A termination may leave the plugin loaded. What is taken for granted is
that an update which returns has loaded what the directory holds, if it loaded anything, and that
the core answers the question for its plugins. The health check accepts a disabled plugin that is on disk
and not loaded, so that a rollback of a disabled plugin may end as ROLLED_BACK with nothing loaded.

## 3. Properties and runs

| Run | Instance | Shows |
|---|---|---|
| `lease_lock` | 3 processes, lease 1, holds up to 2, 1 crash | `ExclusionBeforeExpiry`: until some lock file is older than its lease there is one holder and the file is its own. `LockIsFreed`: a file that nobody holds is removed or replaced in the end. |
| `lease_lock_steal` | the same, lease 2, holds within it | finds `MutualExclusion` violated: two processes that saw a stale file unlink in turn (finding 1). |
| `transaction` | 1 plugin, 2 versions, 2 transactions, one backup kept, 1 failing write, 1 death, any core | all of the transaction's promises, and that it implements `AtomicUpdate`. |
| `transaction_retention` | 3 transactions, one backup kept, nothing fails in the store | finds `RecoveryPointKept` violated: backups of a broken directory displace the last whole one (finding 2). |
| `coordinator` | 2 calls, 2 transactions, 1 plan, a hot reload, a death, rollbacks | `OneRun`, `NoReplay`, and `ImplementsSerial`: the coordinator implements `PluginTransaction!Spec`. |
| `coordinator_batch` | 2 plugins, a batch of up to two items, cancels, a death | `StopsAfterFailure`, `CancelInLoop`, and `RunsEnd`: every admitted call ends and the lease file is freed. |
| `coordinator_webui` | a batch of up to 2 items, a third transaction for the WebUI's rollback | finds `OneAtATime` violated: the rollback of the first item starts while the core installs the second (finding 3). |
| `coordinator_cancel` | a cancel at any await of a batch | finds `CancelHonoured` violated: a cancel during the scan is forgotten (finding 4). |
| `schedules` | 2 instances, 2 clients, 1 firing, 2 archives, 1 failing call of the cron manager (to list, remove or add), 1 death, 1 failing read or write of the backup's state | `NoLostRule`, `StaleJobsHarmless`, `SettledJobs`, `RuleTakesEffect`; `SuccessWhole`, `SuccessKept` of the backup. |
| `schedules_backup` | the same around one failure or death | finds `BackupIndependent` violated: a failure for the rule's job costs the backup its own (finding 5). |
| `registry_quota` | 2 checks, a quota of 2 with 1 left alone | finds `LimitEnds` violated: a quota that was restored stays refused (finding 6). |
| `suite` | 2 actors in each component, 1 or 2 faults | the safety properties of the components that share nothing that changes with each other. |

The promises of a transaction, `transaction`:

* `EndsWell`: one that ends has committed with the new version on disk and loaded, rolled back
  with the directory as it was before the update and the old version loaded (or none, of a disabled plugin),
  failed with the directory as it found it, or recorded ROLLBACK_FAILED.
* `ActivationKept`: it never ends as COMMITTED or ROLLED_BACK with the plugin's activation changed, whatever the core
  switched on the way.
* `BackupBeforeChange`, `UndoKept`: while the directory may be changed, and afterwards for as many
  backups as retention keeps, the backup holds what the directory held.
* `NoOrphanRecord`: a record that no task is working on is never left in a state that
  says so.
* `AtomicSpec`: seen through `Version` (what the directory held when the working transaction
  began) and `Outcome`, the behaviour is one of `AtomicUpdate`.
* `EveryTxEnds`: every transaction comes to rest.

The promises around the cron jobs, `schedules`:

* `NoLostRule`: no save of the rule is built on a revision other than the one it replaces, although a
  page awaits the catalogue between its load and its save.
* `StaleJobsHarmless`: jobs of overtaken revisions may be left by overlapping rebuilds, failing removals
  and reloads, but a run only starts under the rule as it is at that moment and at the revision its
  job was made for.
* `SettledJobs`: when nothing reschedules, and the last reschedule of a kind was alone and did not fail,
  the cron manager has exactly the job that the rule or the settings call for. `RuleTakesEffect`: it
  gets there.
* `SuccessWhole`, `SuccessKept`: what `backup-state.json` calls the last success is a complete archive while
  it is there, and no backup takes back a success that its runner has read or recorded (`known`), whatever failed
  since. It does not cover a success that the runner never heard of (section 6).

The promises of the other components, `suite`:

* `OwnerSurvives`: as soon as there is an account there is an enabled owner, whatever two processes do.
  `AccountsKept`: no account disappears but by a write that follows a failed read.
  `OldPasswordsLockedOut`: the process that changes a password has no session left of the old one.
  `GuessRate`: the k-th failed login in a row comes no sooner than the k - 1 delays before it.
* `MemoryBounded`: the artifacts pass their total by one artifact at most. `AppliedOnce`: a request id takes
  effect once, unless its caller was told of a failure or its record is gone. `EntriesOwned`: an entry in flight
  belongs to exactly one call, or to one that was cancelled.
* `NoLostPatch`: two applies from one revision never both succeed. `InStep`: with nothing in flight the
  gateway's copy is what the plugin has.
* `FullEvidence`: a check that an update acts on never gets the candidate of a quick check of a page.
  `StaleIsFlagged`: a head shown without the flag was read within its time to live.
* `ProbesOnce`: one call of `probe_routes`, by the job or a direct test, tests a route (provider, model and
  source) once, `Limit` at a time, and a finished job has a result for every kind.
* `RenderedInOrder`: the prompt does not depend on who registered again and when.
* `RecordOfInstalled`: with no change waiting for its record, the commit on record is of what is
  installed.

**One run for several components.** `MCSuite` extends eight modules whose variables are disjoint and which
exchange nothing that changes, so that their product has no behaviour that the parts do not have;
its variable `part` picks one component at the start and the others rest, which keeps the number
of states a sum instead of a product. `StoreBehaviour` and `LoginBehaviour` split `WebuiAuth` in two: in one the
accounts change and everything may fail, in the other one account is logged into and its password
changed. `ContextBehaviour` moves phases and reasons only while there are no fragments, on which they do
not depend; `ControlBehaviour` lets a request name one field; `RegistryBehaviour` has one check at a time after
a second failure; `ProbeBehaviour` gives the job and a direct test three kinds between them.
`MCSchedules` does the same with `scenario`: `saves` (two clients that save the rule and the
configuration), `faults` (one client around a reload, a failure or a death), `backups` (the job and the
buttons around a reload or a death); no scenario cuts a step that fairness is about.

**Symmetry.** Where liveness is checked, symmetry is broken by hand: `InOrder` takes the ids of transactions (and calls) in one
order, and `FromFirst` lets the plugins start at one of the versions. Neither cuts a step of a
transaction or call under way, and no property tells ids or versions apart.

**Why the bounds are enough.** Three contenders are needed for a thief, a second thief and the
owner of the fresh file. Two transactions of a plugin show every pair that matters: an update
after a failed one, a rollback of a committed one, a backup that displaces another. One
failing write can be at every write, one death at every step. Two calls and one hot
reload give a new instance its own process lock while the old one is in a batch. Two
items are a boundary between items, where cancels and failures act. Two clients, or one client and
the life cycle, are the two tasks whose removals and additions cross; two archives are an earlier success
and one in doubt. Two processes, names and accounts are the two owners of whom one demotes
or disables the other; an exponent of 1 and two tries reach the longest delay and its second
use. Two callers and two request ids with one record are a retry, a conflict and a record that
is pushed out. Two checks with two attempts and two failures are an answer that overtakes another, a
retry that succeeds and one that does not. Three kinds on up to three routes share a route or make three
groups, of which a limit of two makes one wait. Two operations and two changes are a change that
overtakes the record of another. The proofs of section 5 remove the bounds for the properties
they cover.

**Deadlock** is not checked in the runs of transactions and calls: ids and calls are finite
and a behaviour stops when all are used; the same holds of the clients of `schedules` and of the
bounded faults, commits and passwords of `suite` and `registry_quota`. The lease lock may always go on and is checked.

**Fairness.** `FairSpec` of the lock: time passes, a process that contends is scheduled
and tries again later, as the daily rule and the administrators do. Of a transaction: the
event loop resumes every task whose await is over, the calls of the core return, and a dead
process is started again. Of the coordinator: the same for calls, and the expiry of a dead owner's
lease. Of `Schedules`: the event loop runs every task that can run and the cron manager answers
(`Reschedule`, `SaveRule`), an export ends, and a plugin that is unloaded for a reload is loaded again. Of
`VersionRegistry` (`RegistryFairness`): a request is answered or times out, windows end, and GitHub restores its quota
and answers. No fairness is assumed of commands, saves, cancels, reloads, faults or deaths.

## 4. Findings

1. `core/adapters/storage.py:121`: `acquire` unlinks the path after a `stat` that may be out of
   date, so that two processes that meet one stale file can both hold the lock; README.md:32
   says there is no concurrency.
2. `core/transaction.py:400`: retention keeps the newest backups whatever they hold;
   docs/AI开发提示词.md:94 says that the only recovery point is never deleted.
3. `main.py:1237`: the WebUI's rollback does not enter the coordinator; README.md:33 says
   that every operation that changes a plugin does. In the run the first item of a batch is committed, the core
   installs the second, and the rollback of the first begins.
4. `core/coordinator.py:180`: the cancel flag is reset after the awaited scan; the docstring of
   `aup_cancel` (main.py:1638) says that the rest of the batch is stopped.
5. `main.py:1308`: `initialize()` awaits the rebuild of the rule and only then refreshes the backup's
   schedule, in one `try`; when the cron manager raises for the rule, the backup gets no job.
   core/backup_scheduler.py:1 says that the two do not affect each other.
6. `core/adapters/registry.py:440`: the remembered rest of GitHub's quota is compared with a threshold and its reset
   time is never looked at, so that REST stays refused after the quota is restored;
   pages/manager/app.js:18 tells the user that one can check again after the wait.

## 5. Proofs

All theorems hold for every value of the constants that the named assumptions allow
(`LeaseAssumption`, `TxAssumption`, `RecordAssumption`, `CoordinatorAssumption`, `AuthAssumption`, `PanelsAssumption`,
`NoAccountAssumption`, `ArtifactsAssumption`, `SchedulesAssumption`, `BackupAssumption`, `OperationsAssumption`,
`ProbeAssumption`, `ContextAssumption`, `ControlAssumption`, `RegistryAssumption`, `HeadsAssumption`: bounds are
naturals, the sets of transactions, names and kinds are finite, there is a request id and a content,
null values are distinct from what they stand beside). The eight modules of section 3 that
share a run are proved each under its own specification (`AuthSpec`, `ControlSpec`, ...).

* `FileLeaseLockProofs`. `Typing`. `ExclusionUntilExpiry`: the exclusion is not inductive, because a
  process about to unlink would be free to remove a fresh file; `ExpiryInv` adds that
  before any file was overdue nobody is at `unlink`, and that every holder's file is its own.
  `TimelyMutualExclusion`: with no crash and holders within the lease no file is ever overdue
  (`FileIsHeld`: a file's age is at most its holder's time), so the exclusion is unconditional.
* `PluginTransactionProofs`. `Typing`. `EndsWellAlways` from `SerialInv`: one transaction is busy,
  none while the process is down, and `Stage` says of each point of the coroutine what it
  may rely on about `disk` and `live` because nobody else touches the plugin. It relies on nothing that the core
  did or answered: after an update or a reload it holds only what the health check has seen (`LookTells`), but
  that a version which an update loaded is the one on disk. `BackupFirst` adds
  `BackedUp`: the backup of a busy transaction is the newest of all, so that a cleanup
  protects it. `UndoAlways`: the number of backups made after one only grows, and a
  cleanup counts at most those (`LeftAreMade`). `ActivationAlways`: past its look at the core the health
  check has seen the plugin as enabled as the plan has it (`Looked`).
  `NoneOrphaned`: without a failed write, whoever comes to rest has just written how it ended, and a
  start recovers what a death left (`QuietSettled`). `UpdatesAreAtomic` is the refinement: `VersionFacts`
  and `OutcomeFacts` say what the abstract state is while a transaction works and between two, a step
  that ends one is an abstract `End` (`EndIsAtomic`), and every other one opens a transaction or is not
  seen; `Told` keeps the records of transactions that are over.
* `UpdateCoordinatorProofs`. `CoordinatorInv` joins the types, that an active call of a living process
  is the one the lease file names, that a busy transaction is the current one of the
  active call, and that the receipts hold what returned calls executed. From it:
  `CoordinatorTyping`, `OneRunAlways`, `NoReplayAlways`, `CancelInLoopAlways`, and `CoordinatorIsSerial`:
  every step of the coordinator is a step of `PluginTransaction` or a stutter, so that
  what is proved of serial transactions holds of the coordinator's. `StopsAlways` from `Passed`: every
  transaction of a batch but the last is over and did not end the batch, and a recovery relabels none of those.
* `WebuiProofs`. Of `WebuiAuth`, `StoreInvariance`: between its read and its write an operation is the only one,
  its process is alive and holds the lease file, and what it has read is what the store still holds, or
  nothing if the read failed (`ReadsHold`). `OwnerAlwaysSurvives` follows from what a creation and a
  change do to such a store, since the guards of a change leave some enabled owner other than the
  account it touches or that account itself; `AccountsAlwaysKept` from the same. For
  `OldPasswordsAlwaysLockedOut`, `IdsGivenOnce` adds that an id names one account for ever, and `PasswordsMatch`
  that a session that no other process concerned was opened with the password its account has.
  Of `WebuiPanels`, `EntriesAlwaysOwned` with `BusyAlone` (a call in flight has neither the entry of a
  cancelled call nor a record), and `AlwaysAppliedOnce` from `OnceInv`: an effect that
  nobody excused belongs to an id that cannot begin again, because it has a record, a cancelled
  call's entry, or a call in flight that has made it (`Spent`).
  Sums, `Delays` and `Total`, are folds over a set. The induction theorems of the library cannot be used, so a
  fold is compared with the number of dots `<<x, k>>` with k up to the weight of x: a smallest set at which they differ cannot
  exist (`SumIsDots`), and the count is itself a function that adds up as the fold does (`SumExists`).
  `GuessesAlwaysSlowed` then follows from `RateInv`: the time since a name's first failure and the time it still has to
  wait are together at least the delays of all its failures, and a login is under way only when there is nothing to
  wait for. `MemoryAlwaysBounded` needs that a prune fits (`PruneFits`: to drop everything fits, so there is a least number
  to drop). `AuthAlwaysTyped` and `PanelsAlwaysTyped` are the types; the latter says too that
  the records keep to their limit and hold an id once.
* `SchedulesProofs`. Everything follows from `SchedulesInvariant`, whose parts are the types, `NoLostRule`,
  `BackupInv` and `SettledInv`. `NoRuleEverLost` needs of the types that no client has loaded a revision that is still
  to come. `SuccessAlwaysWhole` follows from `ArchivesInv`: a runner writes an archive that nobody else writes and
  that is not complete yet. `SuccessAlwaysKept` needs `RunnersInv`: whoever has heard of a
  success remembers one that is no older, and is writing a newer archive. `JobsAlwaysSettled` comes from `SettledInv`: ids of jobs are unique, and as long as a kind is
  calm there is at most one reschedule of it, which is on its course (`OnCourse`): it belongs to the instance
  that serves, has listed all there is, and will add what is called for now. `StaleJobsAlwaysHarmless` is about
  the two steps that start a run.
* `SuiteProofs`, of `PageOperations`. `RecordAlwaysOfInstalled` from `LastIsInstalled`: a change that nobody has overtaken is
  what is installed, and `Sound`: what an operation is about to record is what it made.
* `SuiteProofs`, of `ModelProbe`. `ProbesAlwaysOnce` from `CallOK`, which holds of every call on its own: what is tested at
  once are whole groups of kinds with one route, hence disjoint (`FlightIsGroups`), and what was tested leaves
  no kind that waits for it (`AskedAfterResolving`). A step changes one call (`OneCall`), and only the job's own steps
  touch what the page sees of it (`JobKept`).
* `SuiteProofs`, of `RequestContext`. `AlwaysRenderedInOrder` in three parts. `ContextInv`: a fragment's number is its place
  and no plugin has a key twice (`Numbered`), so that `Before` orders all fragments strictly (`BeforeIsOrder`). Ranks
  then give each place to one fragment (`RanksFacts`, `SortedFacts`: an injection of a finite set into as many places).
  At last the fold over the sorted list keeps a sound prefix (`KeptOf`, `StepKeeps`, `KeptIsSound`), again
  by a first place at which it would not.
* `SuiteProofs`, of `MCSuite`. `SuiteIsComponents`: a step of the suite is one of one component and a stutter of the
  others, so that what is proved of a component under its own specification holds of the suite;
  `SuiteAlwaysTyped` is the first such thing.
* `SeriesControlProofs`. `ControlAlwaysTyped`. `NoPatchEverLost` and `AlwaysInStep` from one invariant: the revisions of the applies that
  succeeded are spent (`RevisionsSpent`: the plugin is past them), the gateway is behind the plugin by exactly the
  answers that are on their way (`OneAnswerBehind`), and a request that was compared is not ahead of the
  copy (`CheckedBefore`).
* `VersionChecksProofs`. `EvidenceAlwaysFull`: a check keeps the mode it started with and is given only what fits
  it (`Fits`), from either cache and after a failure. `StaleAlwaysFlagged` (`HeadsInv`): an entry within its
  time to live was read lately or lent by the REST cache, and so was what a check was told as current and has
  not stored yet (`Backed`). `RegistryAlwaysTyped` and `HeadsAlwaysTyped` are the types: an attempt is left while a
  retry is under way, and "not modified" is said only to who holds a document. The first needs no
  fairness, which is why it is stated of the initial states and the steps.

Only model-checked: the liveness properties `LockIsFreed`, `EveryTxEnds`, `RunsEnd` and `RuleTakesEffect`, because the
prover has neither fairness nor ENABLED. Every other property of a passing run has a theorem.

Two things in the models are as they are because of the prover. `Sorted` in `RequestContext` gives a fragment the
place of its rank and does not call `SetToSortSeq` of the community modules, whose `SortSeq` is built into TLC and has no
definition the prover could use. And no module declares a RECURSIVE operator: recursion is a recursive
function or a fold.

## 6. Not modelled, and why

* A batch is assumed to end within the lease of 3600 s in `UpdateCoordinator`; what happens to the
  file when it does not is in `FileLeaseLock`.
* A task that is cancelled inside a transaction (`CancelledError` is no `Exception`): nothing in the
  code cancels such a task.
* `recover_interrupted` writes its records one by one; a death in the middle leaves a prefix,
  and the next start recovers the rest, since marking is idempotent: it is one step here.
* A backup that damages silently on disk; the expiry of a plan, the rule revision and the
  AstrBot version are one nondeterministic refusal (`Refuse`).
* Of the core adapter, `set_plugin_enabled`: it neither reads nor writes the record of the commit. Of the catalogue and
  planner, the version policy, the compatibility test and the ages of releases: pure functions without
  state. Of the JSON store, listing and redaction. Of the registry, the parsing of releases, feeds and
  versions, the mirrors and the link health.
* `webui_jobs.py`: nothing under `src/` creates or updates a job, so that its cancel and its list never meet
  one. Streams and rendering of panels, the audit ring, the HTTP server, the tables and the browser
  code hold no state that another component relies on.

### Behaviour of the code that the models show and the properties allow

* Updates: an action of a page or of the WebUI changes a plugin beside the coordinator, so that a run's rollback can go
  over a page's change. An update that raises after it changed the plugin, a request that dies, an operation
  that is overtaken and an archive of the branch (it may be of a later commit than the one that is recorded)
  leave a record that is not of what is installed. `_webui_rollback` (main.py:1233) does not forget the
  record, `aup_rollback` (main.py:1624) does. A plugin with an alias of its id (core/trusted.py) can have two records: an update from
  the catalogue writes under the runtime id, one from the recommendations under the canonical
  one; `PageOperations` has one id. A candidate that is older than the installed version by the time it
  is installed downgrades it.
* Schedules: a rule's jitter that ends after the plugin was disabled still runs (main.py:1869 does not look at
  the switch that main.py:1337 looks at). Enabling the plugin by a save of the configuration rebuilds the
  rule's job and not the backup's. A runner
  whose `backup-state.json` cannot be read when it is made has no history (core/backup_runner.py:276), and its next backup writes
  the file anew: if that fails, the last success is forgotten. Two runners around a reload may replace each
  other's last result: one that goes on, or one that a left-over job of the unloaded instance starts. Two reschedules
  that overlap may leave two jobs of one revision, which both fire.
* Accounts: a store that cannot be read counts as empty, and the next account created is an owner and
  replaces the others. A session of another process outlives a change of the password.
* Panels: an entry in flight stays when its call is cancelled, and its request id answers
  ACTION_IN_PROGRESS until a restart. A thread that timed out goes on. `get()` serves an artifact past its
  lifetime until the next `put`; an action that returns many files may push its first ones out.
* Series control: a timeout after the plugin applied a patch, a death between the two, or a failed or kept freeze leaves
  gateway and plugin apart. Their revisions then differ, a plugin that keeps the contract refuses the gateway's, and nothing in
  the gateway reads the plugin's revision back: an import and a reset carry the gateway's own as well
  (`apart` is never cleared). An apply that passed its checks goes on after the mode
  became native. `_series_freeze` (core/webui_server.py:415) hands `reset_overlay` to `_series_call`, which takes
  no such argument, so that the route always fails before the gateway is reached; what `SeriesControl` models
  is the gateway's freeze, which the route for all members (core/webui_server.py:447) reaches.
  `set_mode` walks over the members across awaits (core/series_control.py:436): a member added meanwhile
  ends the walk with an error.
* Versions: an answer out of the JSON cache is stored as fresh; answers out of order can take the cache
  back. The cool-down and back-off paths do not look at the branch that was asked for, nor does
  GraphQL.
* Probe: a probe can be started while `terminate()` awaits; one that is cancelled before its first step leaves its
  job running. Kinds are grouped by provider, model and source (core/model_probe.py:216), while the docstring (line 188) says that
  a provider instance is called once: a provider that is set for one kind and discovered for another is
  called twice in one test. A direct test (main.py:599) runs beside the job and beside other direct tests.

## 7. Plan

Done: every component that section 1 marks as modelled, and the proofs of section 5. Left, in this order:

1. `PlanPolicy`: the version policy, ages and expiry as operators against a reference definition.
2. Mirrors and link health: which host is asked next after failures.
3. The two records of a plugin with an alias, in `PageOperations`.
