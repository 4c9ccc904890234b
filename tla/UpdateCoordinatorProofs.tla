---------------------- MODULE UpdateCoordinatorProofs ----------------------
(***************************************************************************)
(* The coordinator keeps its promise: whatever the calls, hot reloads and  *)
(* deaths of the process, CoordinatorSpec implements the serial Spec of    *)
(* PluginTransaction, so that every theorem about Spec holds of it.        *)
(*                                                                         *)
(* The invariant says who may be past the locks (Locks), that a busy       *)
(* transaction is the current one of such a call (Alone), and that the     *)
(* items a batch has not reached yet are as its plan froze them (Ahead).   *)
(* Passed adds that no earlier transaction of a batch ended it.            *)
(***************************************************************************)
EXTENDS UpdateCoordinator, PluginTransactionProofs, SequenceTheorems

\* The call that is past the locks is the one that the lease file names; it read
\* the receipts as they still are, and its plan is not among them.
Locks ==
    /\ \A r \in Runs : Active(r) =>
          /\ up /\ flock = r /\ known[r] = receipts
          /\ job[r] # NoPlan => plan[job[r]] # NoPlan /\ job[r] \notin receipts
    /\ \A r \in Runs : at[r] \in {"idle", "scanning"} => txs[r] = <<>>
    /\ \A r \in Runs : at[r] = "idle" => asked[r] = "no"
    /\ \A r \in Runs : at[r] = "scanning" => job[r] # NoPlan
    /\ \A r \in Runs : at[r] = "item" /\ job[r] # NoPlan => Len(txs[r]) <= Len(plan[job[r]].items)
    /\ \A r \in Runs : at[r] = "returned" /\ job[r] # NoPlan => job[r] \in receipts

\* Instances are counted: one per hot reload, and one per death once the process
\* is up again.
Counted == cur <= MaxReloads + crashes /\ (~up => cur < MaxReloads + crashes)

\* Whoever is told to stop while at its items will find the flag set.
Flagged == \A r \in Runs : Active(r) /\ asked[r] = "item" => at[r] = "item" /\ cancelled[inst[r]]

\* A transaction under way is the current one of a call.
Alone == \A t \in Txs : Busy(t) => \E r \in Runs : at[r] = "item" /\ t = txs[r][Len(txs[r])]

\* A frozen plan takes plugins that were loaded away from their versions.
Moves == \A h \in Plans : plan[h] # NoPlan => \A i \in DOMAIN plan[h].items :
    LET s == plan[h].seen[plan[h].items[i].plugin] IN
    s.loaded /\ s.version \in Versions \ {plan[h].items[i].to}

\* The plugins of the items to come are as the plan has them, and the current
\* transaction works on the last item that was started.
Ahead == \A r \in Runs : at[r] = "item" /\ job[r] # NoPlan =>
    LET f == plan[job[r]] n == Len(txs[r]) IN
    /\ item[txs[r][n]].plugin = f.items[n].plugin
    /\ \A i \in DOMAIN f.items : i > n =>
          Snapshot(f.items[i].plugin) = f.seen[f.items[i].plugin]

CoordinatorInv ==
    TypeOK /\ CallsOK /\ Locks /\ Counted /\ Flagged /\ Alone /\ Moves /\ Ahead

---------------------------------------------------------------------------
(* Two calls are never past the locks.                                     *)

\* At most one call is active, and an active one is the only one.
LEMMA OnlyOne ==
  ASSUME Locks, NEW r \in Runs, NEW s \in Runs, Active(r), Active(s)
  PROVE  r = s
BY DEF Locks

\* When no call is past the locks, or the only one is between two transactions,
\* all transactions are at rest.
LEMMA QuietAtBoundary ==
  ASSUME Locks, Alone, CallsOK,
         \/ \A r \in Runs : at[r] # "item"
         \/ \E r \in Runs : AtBoundary(r)
  PROVE  AllResting
BY OnlyOne DEF Alone, AtBoundary, AllResting, Active, Current, Last

---------------------------------------------------------------------------
(* Each step of the coordinator is a step of the serial system.            *)

\* The fields of a snapshot.
LEMMA SnapshotType ==
  ASSUME TypeOK, NEW p \in Plugins
  PROVE  Snapshot(p) \in [version : Contents, active : BOOLEAN, loaded : BOOLEAN]
<1>1. (IF live[p] # Down THEN live[p] ELSE disk[p]) \in Contents
  BY DEF TypeOK, Contents
<1>2. (live[p] # Down /\ active[p]) \in BOOLEAN /\ (live[p] # Down) \in BOOLEAN
  OBVIOUS
<1> QED
  BY <1>1, <1>2 DEF Snapshot

\* The snapshot of a loaded plugin is what the core has.
LEMMA SnapshotLoaded ==
  ASSUME TypeOK, NEW p \in Plugins, Snapshot(p).loaded
  PROVE  /\ live[p] = Snapshot(p).version /\ active[p] = Snapshot(p).active
         /\ Snapshot(p).version \in Versions
<1>1. Snapshot(p).loaded = (live[p] # Down)
  BY DEF Snapshot
<1>2. live[p] # Down
  BY <1>1
<1>3. Snapshot(p).version = live[p]
  BY <1>2 DEF Snapshot
<1>4. Snapshot(p).active = (live[p] # Down /\ active[p])
  BY DEF Snapshot
<1>5. (live[p] # Down /\ active[p]) = active[p]
  <2>1. active[p] \in BOOLEAN
    BY DEF TypeOK
  <2> QED
    BY <1>2, <2>1
<1>6. live[p] \in Versions
  BY <1>2 DEF TypeOK
<1> QED
  BY <1>3, <1>4, <1>5, <1>6

\* It changes with the plugin only.
LEMMA SnapshotFrame ==
  ASSUME NEW p, disk'[p] = disk[p], live'[p] = live[p], active'[p] = active[p]
  PROVE  Snapshot(p)' = Snapshot(p)
BY DEF Snapshot

\* A function on 1..n is a sequence of length n.
LEMMA FunctionIsSeq ==
  ASSUME NEW S, NEW n \in Nat, NEW s \in [1..n -> S]
  PROVE  s \in Seq(S) /\ Len(s) = n
OBVIOUS

\* The items of a plan are a sequence of distinct plugins, each with a target.
LEMMA PlanShape ==
  ASSUME NEW f \in Plan
  PROVE  /\ Len(f.items) \in Nat \ {0} /\ DOMAIN f.items = 1..Len(f.items)
         /\ \A i \in DOMAIN f.items : f.items[i].plugin \in Plugins /\ f.items[i].to \in Versions
         /\ \A i, j \in DOMAIN f.items : f.items[i].plugin = f.items[j].plugin => i = j
<1>1. f.items \in Items /\ f.seen \in Catalog
  BY DEF Plan
<1>2. PICK n \in 1..Cardinality(Plugins) : f.items \in [1..n -> [plugin : Plugins, to : Versions]]
  BY <1>1 DEF Items
<1>3. n \in Nat /\ n # 0
  OBVIOUS
<1>4. Len(f.items) = n
  BY <1>2, <1>3, FunctionIsSeq
<1>5. \A i, j \in DOMAIN f.items : f.items[i].plugin = f.items[j].plugin => i = j
  BY <1>1 DEF Items
<1> QED
  BY <1>1, <1>2, <1>3, <1>4, <1>5 DEF Catalog

\* An item of a plan that is still as it was frozen is a plan item that the
\* transaction may start on.
LEMMA ItemIsFresh ==
  ASSUME TypeOK, Moves, NEW r \in Runs, NEW t \in Txs, job[r] \in Plans, NEW f \in Plan,
         plan[job[r]] = f, f # NoPlan, NEW i \in DOMAIN f.items, Len(txs[r]) + 1 = i,
         Snapshot(f.items[i].plugin) = f.seen[f.items[i].plugin]
  PROVE  ItemOf(r, t) \in FreshItems(t) /\ ItemOf(r, t).plugin = f.items[i].plugin
<1> DEFINE p == f.items[i].plugin
<1>1. p \in Plugins /\ f.items[i].to \in Versions
  BY PlanShape
<1>2. f.seen[p].version \in Versions /\ f.seen[p].version # f.items[i].to /\ f.seen[p].loaded
  BY DEF Moves
<1>6. live[p] = f.seen[p].version /\ active[p] = f.seen[p].active
  BY <1>1, <1>2, SnapshotLoaded
<1>3. f.seen[p].active \in BOOLEAN
  BY <1>1, <1>6 DEF TypeOK
<1>4. ItemOf(r, t) = [plugin |-> p, from |-> f.seen[p].version, to |-> f.items[i].to,
                      active |-> f.seen[p].active, orig |-> t]
  BY DEF ItemOf
<1>5. ItemOf(r, t) \in PlanItem
  BY <1>1, <1>2, <1>3, <1>4 DEF PlanItem
<1>7. ItemOf(r, t).plugin = p
  BY <1>4
<1> HIDE DEF p
<1>8. ItemOf(r, t) \in FreshItems(t)
  BY <1>2, <1>4, <1>5, <1>6 DEF FreshItems
<1> QED
  BY <1>7, <1>8 DEF p

\* The serial system allows what the coordinator does.
LEMMA StepIsSerial ==
  ASSUME CoordinatorInv, [CoordinatorNext]_allvars
  PROVE  [Next]_vars
<1> USE DEF CoordinatorInv
<1>1. ASSUME NEW r \in Runs, Scanned(r) PROVE [Next]_vars
  <2>1. PICK t \in Txs : StartItem(r, t)
    BY <1>1 DEF Scanned
  <2>2. job[r] # NoPlan /\ plan[job[r]] # NoPlan /\ txs[r] = <<>> /\ Active(r)
    BY <1>1 DEF Scanned, Locks, Active
  <2>3. job[r] \in Plans /\ plan[job[r]] \in Plan \ {NoPlan}
    BY <2>2 DEF CallsOK
  <2>4. 1 \in DOMAIN plan[job[r]].items
    BY <2>3, PlanShape
  <2>7. \A p \in Plugins : Snapshot(p) = plan[job[r]].seen[p]
    BY <1>1 DEF Scanned, Valid, Scan
  <2>8. plan[job[r]].items[1].plugin \in Plugins
    BY <2>3, <2>4, PlanShape
  <2>9. Len(txs[r]) + 1 = 1
    BY <2>2, EmptySeq
  <2>5. ItemOf(r, t) \in FreshItems(t)
    BY <2>3, <2>4, <2>7, <2>8, <2>9, ItemIsFresh
  <2>6. AllResting
    BY <1>1, <2>2, OnlyOne, QuietAtBoundary DEF Scanned, Active
  <2> QED
    BY <1>1, <2>1, <2>5, <2>6 DEF Scanned, LoopFree, Next, StartAny, StartItem
<1>2. ASSUME NEW r \in Runs, NextItem(r) PROVE [Next]_vars
  <2>1. PICK t \in Txs : StartItem(r, t)
    BY <1>2 DEF NextItem
  <2>2. job[r] # NoPlan /\ plan[job[r]] # NoPlan /\ Active(r) /\ at[r] = "item" /\ up
    BY <1>2 DEF NextItem, AtBoundary, Locks, Active
  <2>3. job[r] \in Plans /\ plan[job[r]] \in Plan \ {NoPlan}
    BY <2>2 DEF CallsOK
  <2>4. Len(txs[r]) + 1 \in DOMAIN plan[job[r]].items
    BY <1>2, <2>2, <2>3, PlanShape DEF NextItem, Exhausted, Locks, CallsOK
  <2>5. Len(txs[r]) + 1 > Len(txs[r])
    BY DEF CallsOK
  <2>7. ItemOf(r, t) \in FreshItems(t)
    BY <2>2, <2>3, <2>4, <2>5, ItemIsFresh DEF Ahead
  <2>6. AllResting
    BY <1>2, QuietAtBoundary DEF NextItem
  <2> QED
    BY <2>1, <2>2, <2>6, <2>7 DEF Next, StartAny, StartItem
<1>3. ASSUME NEW r \in Runs, NEW t \in Txs, NEW o \in Txs, CallRollback(r, t, o) PROVE [Next]_vars
  <2>1. \A s \in Runs : ~Active(s)
    BY <1>3, CoordinatorAssumption DEF CallRollback, Admit, LockFree, Locks
  <2>2. AllResting
    BY <2>1, QuietAtBoundary DEF Active
  <2> QED
    BY <1>3, <2>2 DEF CallRollback, Admit, LoopFree, Next, StartAny
<1>4. ASSUME NEW r \in Runs, Finish(r) PROVE [Next]_vars
  <2>1. PICK k \in 0..Cardinality(Txs) : CleanupUpTo(k)
    BY <1>4 DEF Finish
  <2>2. up /\ AllResting
    BY <1>4, QuietAtBoundary DEF Finish, AtBoundary, Locks, Active
  <2>3. AllSuspended
    BY <2>2 DEF AllResting, AllSuspended, Busy, Suspended, TypeOK
  <2> QED
    BY <1>4, <2>1, <2>2, <2>3 DEF Finish, Cleanup, Next
<1>5. ASSUME \/ \E h \in Plans : Freeze(h)
             \/ \E r \in Runs, h \in Plans : Call(r, h)
             \/ \E r \in Runs : Refuse(r) \/ Abort(r) \/ RollbackReturns(r)
             \/ Cancel \/ LeaseExpires \/ UNCHANGED allvars
      PROVE  UNCHANGED vars
  BY <1>5 DEF Freeze, Call, Refuse, Abort, RollbackReturns, Cancel, LeaseExpires, allvars
<1>6. ASSUME \/ \E t \in Txs : Transact(t)
             \/ HotReload \/ Initialize \/ Die \/ StartAgain
      PROVE  Next
  BY <1>6 DEF Transact, HotReload, Initialize, Die, StartAgain, Next
<1> QED
  BY <1>1, <1>2, <1>3, <1>4, <1>5, <1>6 DEF CoordinatorNext, RunStep

---------------------------------------------------------------------------
(* The invariant is kept.                                                  *)

\* A batch lists the transaction it starts as its last.
LEMMA StartItemFrame ==
  ASSUME CallsOK, NEW r \in Runs, NEW t \in Txs, StartItem(r, t)
  PROVE  /\ txs' \in [Runs -> Seq(Txs)] /\ (\A s \in Runs : s # r => txs'[s] = txs[s])
         /\ txs'[r] # <<>> /\ Len(txs'[r]) = Len(txs[r]) + 1 /\ txs'[r][Len(txs'[r])] = t
         /\ crashes' = crashes /\ up' = up
<1>1. txs[r] \in Seq(Txs) /\ txs' = [txs EXCEPT ![r] = Append(txs[r], t)]
  BY DEF CallsOK, StartItem
<1>2. /\ Append(txs[r], t) \in Seq(Txs) /\ Append(txs[r], t) # <<>>
      /\ Len(Append(txs[r], t)) = Len(txs[r]) + 1 /\ Append(txs[r], t)[Len(txs[r]) + 1] = t
  BY <1>1, AppendProperties
<1>3. crashes' = crashes /\ up' = up
  BY DEF StartItem, Start, env
<1> QED
  BY <1>1, <1>2, <1>3 DEF CallsOK

\* The types of the calls.
LEMMA CallsType ==
  ASSUME CoordinatorInv, [CoordinatorNext]_allvars
  PROVE  CallsOK' /\ Counted'
<1> USE DEF CoordinatorInv, CallsOK, CallState, Instances, Counted, TypeOK
<1>1. ASSUME NEW h \in Plans, Freeze(h) PROVE CallsOK' /\ Counted'
  <2>1. PICK s \in Items : plan' = [plan EXCEPT ![h] =
              [items |-> s, seen |-> Scan]]
    BY <1>1 DEF Freeze
  <2>2. [items |-> s, seen |-> Scan] \in Plan
    BY SnapshotType DEF Plan, Catalog, Scan
  <2> QED
    BY <1>1, <2>1, <2>2 DEF Freeze, calls, vars, env
<1>2. ASSUME NEW r \in Runs, NEW h \in Plans, Call(r, h) PROVE CallsOK' /\ Counted'
  BY <1>2 DEF Call, Admit, Set, vars
<1>4. ASSUME NEW r \in Runs, Scanned(r) PROVE CallsOK' /\ Counted'
  BY <1>4, StartItemFrame DEF Scanned, Set
<1>5. ASSUME NEW r \in Runs, NextItem(r) PROVE CallsOK' /\ Counted'
  BY <1>5, StartItemFrame DEF NextItem
<1>6. ASSUME NEW r \in Runs, Refuse(r) \/ Abort(r) \/ RollbackReturns(r) PROVE CallsOK' /\ Counted'
  BY <1>6 DEF Refuse, Abort, RollbackReturns, Release, Set, vars
<1>7. ASSUME NEW r \in Runs, Finish(r) PROVE CallsOK' /\ Counted'
  BY <1>7 DEF Finish, Release, Set, env
<1>8. ASSUME NEW r \in Runs, NEW t \in Txs, NEW o \in Txs, CallRollback(r, t, o) PROVE CallsOK' /\ Counted'
  BY <1>8 DEF CallRollback, Admit, Set, ManualStart, env
<1>9. ASSUME Cancel PROVE CallsOK' /\ Counted'
  BY <1>9 DEF Cancel, CancelOf, Active, vars
<1>10. ASSUME HotReload PROVE CallsOK' /\ Counted'
  <2>1. cur + 1 \in Instances /\ cur + 1 <= MaxReloads + crashes
    BY <1>10, CoordinatorAssumption, TxAssumption DEF HotReload
  <2> QED
    BY <1>10, <2>1 DEF HotReload, CancelOf, Active, Recover, env
<1>11. ASSUME Die PROVE CallsOK' /\ Counted'
  BY <1>11, CoordinatorAssumption, TxAssumption DEF Die, Crash, Active
<1>12. ASSUME StartAgain PROVE CallsOK' /\ Counted'
  <2>1. cur + 1 \in Instances /\ cur + 1 <= MaxReloads + crashes
    BY <1>12, CoordinatorAssumption, TxAssumption DEF StartAgain, Restart
  <2> QED
    BY <1>12, <2>1 DEF StartAgain, Restart, calls
<1>13. ASSUME LeaseExpires \/ Initialize \/ UNCHANGED allvars PROVE CallsOK' /\ Counted'
  BY <1>13 DEF LeaseExpires, Initialize, Cleanup, allvars, cvars, calls, vars, env
<1>14. ASSUME NEW t \in Txs, Transact(t) PROVE CallsOK' /\ Counted'
  BY <1>14, TxFrame DEF Transact, cvars, calls
<1> QED
  BY <1>1, <1>2, <1>4, <1>5, <1>6, <1>7, <1>8, <1>9, <1>10, <1>11, <1>12, <1>13, <1>14
  DEF CoordinatorNext, RunStep

\* The locks, the receipts and where each call is.
LEMMA LocksStep ==
  ASSUME CoordinatorInv, [CoordinatorNext]_allvars
  PROVE  Locks'
<1> USE DEF CoordinatorInv, Locks, CallsOK, CallState, Active
<1>1. ASSUME NEW h \in Plans, Freeze(h) PROVE Locks'
  BY <1>1 DEF Freeze, calls, vars, env
<1>2. ASSUME NEW r \in Runs, NEW h \in Plans, Call(r, h) PROVE Locks'
  <2>1. \A s \in Runs : ~Active(s)
    BY <1>2, CoordinatorAssumption DEF Call, Admit, LockFree
  <2>2. up /\ up' = up
    BY <1>2 DEF Call, Admit, LoopFree, vars, env
  <2> QED
    BY <1>2, <2>1, <2>2, CoordinatorAssumption DEF Call, Admit, Set, NotExecuted
<1>3. ASSUME NEW r \in Runs, Scanned(r) PROVE Locks'
  <2>1. PICK t \in Txs : StartItem(r, t)
    BY <1>3 DEF Scanned
  <2>2. Len(txs'[r]) = 1
    <3>1. Len(txs[r]) = 0
      BY <1>3, EmptySeq DEF Scanned
    <3>2. Len(txs'[r]) = Len(txs[r]) + 1
      BY <2>1, StartItemFrame
    <3> QED
      BY <3>1, <3>2
  <2>3. Len(plan[job[r]].items) \in Nat \ {0}
    BY <1>3, PlanShape DEF Scanned
  <2> QED
    BY <1>3, <2>1, <2>2, <2>3, StartItemFrame DEF Scanned, Set
<1>4. ASSUME NEW r \in Runs, NextItem(r) PROVE Locks'
  <2>1. PICK t \in Txs : StartItem(r, t)
    BY <1>4 DEF NextItem
  <2>2. Len(plan[job[r]].items) \in Nat \ {0} /\ Len(txs[r]) \in Nat
    BY <1>4, PlanShape DEF NextItem, AtBoundary
  <2>3. Len(txs'[r]) <= Len(plan[job[r]].items)
    BY <1>4, <2>1, <2>2, StartItemFrame DEF NextItem, AtBoundary, Exhausted
  <2> QED
    BY <1>4, <2>1, <2>3, StartItemFrame DEF NextItem, AtBoundary
<1>5. ASSUME NEW r \in Runs, Refuse(r) \/ Abort(r) \/ RollbackReturns(r) PROVE Locks'
  <2>1. Active(r) /\ at' \in {[at EXCEPT ![r] = a] : a \in {"refused", "aborted", "returned"}}
        /\ (at'[r] = "returned" => job[r] = NoPlan)
    BY <1>5 DEF Refuse, Abort, RollbackReturns, Release, Set, AtBoundary
  <2> QED
    BY <1>5, <2>1, OnlyOne DEF Refuse, Abort, RollbackReturns, vars, env
<1>6. ASSUME NEW r \in Runs, Finish(r) PROVE Locks'
  <2>1. Active(r) /\ at' = [at EXCEPT ![r] = "returned"] /\ receipts' = receipts \cup {job[r]}
    BY <1>6 DEF Finish, Release, Set, AtBoundary
  <2> QED
    BY <1>6, <2>1, OnlyOne DEF Finish
<1>7. ASSUME NEW r \in Runs, NEW t \in Txs, NEW o \in Txs, CallRollback(r, t, o) PROVE Locks'
  <2>1. \A s \in Runs : ~Active(s)
    BY <1>7, CoordinatorAssumption DEF CallRollback, Admit, LockFree
  <2>2. up /\ up' = up
    BY <1>7 DEF CallRollback, Admit, LoopFree, ManualStart, env
  <2> QED
    BY <1>7, <2>1, <2>2, CoordinatorAssumption DEF CallRollback, Admit, Set
<1>8. ASSUME Cancel \/ HotReload PROVE Locks'
  BY <1>8 DEF Cancel, HotReload, CancelOf, Recover, vars, env
<1>9. ASSUME Die PROVE Locks'
  BY <1>9 DEF Die
<1>10. ASSUME StartAgain \/ LeaseExpires PROVE Locks'
  BY <1>10 DEF StartAgain, Restart, LeaseExpires, calls, vars, env
<1>11. ASSUME Initialize \/ UNCHANGED allvars PROVE Locks'
  BY <1>11 DEF Initialize, Cleanup, allvars, cvars, calls, vars, env
<1>12. ASSUME NEW t \in Txs, Transact(t) PROVE Locks'
  BY <1>12, TxFrame DEF Transact, cvars, calls
<1> QED
  BY <1>1, <1>2, <1>3, <1>4, <1>5, <1>6, <1>7, <1>8, <1>9, <1>10, <1>11, <1>12
  DEF CoordinatorNext, RunStep

\* The flag of a cancel is reset only by a batch that has not started, and no
\* other one is past the locks then.
LEMMA FlaggedStep ==
  ASSUME CoordinatorInv, [CoordinatorNext]_allvars
  PROVE  Flagged'
<1> USE DEF CoordinatorInv, Flagged, CallsOK, CallState, Active
<1>1. ASSUME NEW r \in Runs, (\E h \in Plans : Call(r, h)) \/ (\E t, o \in Txs : CallRollback(r, t, o))
      PROVE  Flagged'
  <2>1. /\ at[r] = "idle" /\ asked' = asked /\ cancelled' = cancelled
        /\ inst' = [inst EXCEPT ![r] = cur] /\ \E a \in CallState : at' = [at EXCEPT ![r] = a]
    BY <1>1 DEF Call, CallRollback, Admit, Set
  <2>2. asked[r] = "no"
    BY <2>1 DEF Locks
  <2> QED
    BY <2>1, <2>2
<1>2. ASSUME NEW r \in Runs, Scanned(r) PROVE Flagged'
  <2>1. \A s \in Runs : Active(s) => s = r
    BY <1>2, OnlyOne DEF Scanned
  <2> QED
    BY <1>2, <2>1 DEF Scanned, Set
<1>3. ASSUME NEW r \in Runs, Refuse(r) \/ Abort(r) \/ RollbackReturns(r) \/ Finish(r) PROVE Flagged'
  BY <1>3 DEF Refuse, Abort, RollbackReturns, Finish, Release, Set
<1>4. ASSUME Cancel \/ HotReload PROVE Flagged'
  BY <1>4 DEF Cancel, HotReload, CancelOf
<1>5. ASSUME Die PROVE Flagged'
  BY <1>5 DEF Die
<1>6. ASSUME \/ \E h \in Plans : Freeze(h)
             \/ \E r \in Runs : NextItem(r)
             \/ \E t \in Txs : Transact(t)
             \/ StartAgain \/ LeaseExpires \/ Initialize \/ UNCHANGED allvars
      PROVE  Flagged'
  BY <1>6 DEF Freeze, NextItem, Transact, StartAgain, LeaseExpires, Initialize, calls, cvars, allvars
<1> QED
  BY <1>1, <1>2, <1>3, <1>4, <1>5, <1>6 DEF CoordinatorNext, RunStep

\* A transaction that a step makes busy is the current one of its call, and a
\* call leaves the locks only when its transaction is at rest.
LEMMA AloneStep ==
  ASSUME CoordinatorInv, [CoordinatorNext]_allvars
  PROVE  Alone'
<1> USE DEF CoordinatorInv, Alone, CallsOK
<1>1. ASSUME NEW r \in Runs, NEW t \in Txs, NEW o \in Txs, CallRollback(r, t, o) PROVE Alone'
  <2>1. \A u \in Txs : ~Busy(u)
    BY <1>1, CoordinatorAssumption DEF CallRollback, Admit, LockFree, Locks, Active
  <2>2. at'[r] = "item" /\ txs'[r] = <<t>> /\ \A u \in Txs \ {t} : pc'[u] = pc[u]
    <3>1. at'[r] = "item"
      BY <1>1 DEF CallRollback, Set
    <3>2. txs'[r] = <<t>>
      BY <1>1 DEF CallRollback
    <3>3. \A u \in Txs \ {t} : pc'[u] = pc[u]
      BY <1>1 DEF CallRollback, ManualStart, Goto, TypeOK
    <3> QED
      BY <3>1, <3>2, <3>3
  <2>3. txs'[r][Len(txs'[r])] = t
    BY <2>2
  <2> QED
    BY <2>1, <2>2, <2>3 DEF Busy
<1>2. ASSUME NEW r \in Runs, NEW t \in Txs, StartItem(r, t), AllResting, at'[r] = "item"
      PROVE Alone'
  <2>1. \A u \in Txs \ {t} : pc'[u] = pc[u]
    BY <1>2 DEF StartItem, Start, Record, Goto, TypeOK
  <2>2. txs'[r][Len(txs'[r])] = t
    BY <1>2, StartItemFrame
  <2> QED
    BY <1>2, <2>1, <2>2 DEF Busy, AllResting
<1>3. ASSUME NEW r \in Runs, Scanned(r) PROVE Alone'
  <2>1. AllResting
    BY <1>3, OnlyOne, QuietAtBoundary DEF Scanned, Active
  <2> QED
    BY <1>2, <1>3, <2>1 DEF Scanned, Set
<1>4. ASSUME NEW r \in Runs, NextItem(r) PROVE Alone'
  <2>1. AllResting
    BY <1>4, QuietAtBoundary DEF NextItem
  <2> QED
    BY <1>2, <1>4, <2>1 DEF NextItem, AtBoundary
<1>5. ASSUME NEW r \in Runs, Refuse(r) \/ Abort(r) \/ RollbackReturns(r) \/ Finish(r) PROVE Alone'
  <2>1. AllResting
    BY <1>5, OnlyOne, QuietAtBoundary DEF Refuse, Abort, RollbackReturns, Finish, Active
  <2>2. pc' = pc
    BY <1>5 DEF Refuse, Abort, RollbackReturns, Finish, vars
  <2> QED
    BY <2>1, <2>2 DEF AllResting, Busy
<1>6. ASSUME NEW r \in Runs, NEW h \in Plans, Call(r, h) PROVE Alone'
  <2>1. pc' = pc /\ txs' = txs /\ \A s \in Runs : at[s] = "item" => at'[s] = "item"
    BY <1>6 DEF Call, Admit, Set, vars
  <2> QED
    BY <2>1 DEF Busy
<1>7. ASSUME Die PROVE Alone'
  <2>1. \A u \in Txs : pc'[u] \in Resting
    BY <1>7 DEF Die, Crash, Busy, Resting
  <2> QED
    BY <2>1 DEF Busy
<1>8. ASSUME NEW t \in Txs, Transact(t) PROVE Alone'
  <2>1. at' = at /\ txs' = txs /\ Busy(t) /\ \A u \in Txs \ {t} : pc'[u] = pc[u]
    BY <1>8, TxFrame DEF Transact, cvars, calls
  <2> QED
    BY <2>1 DEF Busy
<1>9. ASSUME \/ \E h \in Plans : Freeze(h)
             \/ Cancel \/ HotReload \/ Initialize \/ StartAgain \/ LeaseExpires \/ UNCHANGED allvars
      PROVE  Alone'
  <2>1. pc' = pc /\ at' = at /\ txs' = txs
    BY <1>9 DEF Freeze, Cancel, HotReload, Recover, Initialize, Cleanup, StartAgain, Restart,
       LeaseExpires, calls, cvars, allvars, vars
  <2> QED
    BY <2>1 DEF Busy
<1> QED
  BY <1>1, <1>3, <1>4, <1>5, <1>6, <1>7, <1>8, <1>9 DEF CoordinatorNext, RunStep

\* Plans are frozen once, at what the core has loaded.
LEMMA MovesStep ==
  ASSUME CoordinatorInv, [CoordinatorNext]_allvars
  PROVE  Moves'
<1> USE DEF CoordinatorInv, Moves, CallsOK
<1>1. ASSUME NEW h \in Plans, Freeze(h) PROVE Moves'
  <2>1. PICK s \in Items :
          /\ \A i \in DOMAIN s :
                Scan[s[i].plugin].loaded /\ Scan[s[i].plugin].version # s[i].to
          /\ plan' = [plan EXCEPT ![h] = [items |-> s, seen |-> Scan]]
    BY <1>1 DEF Freeze
  <2>2. plan'[h].items = s /\ plan'[h].seen = Scan /\ \A g \in Plans \ {h} : plan'[g] = plan[g]
    BY <2>1
  <2>3. ASSUME NEW i \in DOMAIN s PROVE Scan[s[i].plugin].version \in Versions
    <3>3. PICK n \in 1..Cardinality(Plugins) : s \in [1..n -> [plugin : Plugins, to : Versions]]
      BY DEF Items
    <3>1. s[i].plugin \in Plugins /\ Scan[s[i].plugin].loaded
      BY <2>1, <2>3, <3>3
    <3>2. Scan[s[i].plugin] = Snapshot(s[i].plugin)
      BY <3>1 DEF Scan
    <3> HIDE DEF CoordinatorInv
    <3> QED
      BY <3>1, <3>2, SnapshotLoaded DEF CoordinatorInv
  <2> SUFFICES ASSUME NEW g \in Plans, plan'[g] # NoPlan, NEW i \in DOMAIN plan'[g].items
               PROVE  LET f == plan'[g] q == f.seen[f.items[i].plugin] IN
                      q.loaded /\ q.version \in Versions \ {f.items[i].to}
    BY DEF Moves
  <2>4. CASE g = h
    BY <2>1, <2>2, <2>3, <2>4
  <2>5. CASE g # h
    BY <2>2, <2>5
  <2> QED
    BY <2>4, <2>5
<1>2. CASE plan' = plan
  BY <1>2
<1> QED
  BY <1>1, <1>2 DEF CoordinatorNext, RunStep, Call, CallRollback, Scanned, Refuse, NextItem, Finish,
     Abort, RollbackReturns, Transact, Cancel, HotReload, Initialize, Die, LeaseExpires, StartAgain,
     cvars, allvars

\* The only plugin that changes is the one of the current transaction.
LEMMA AheadStep ==
  ASSUME CoordinatorInv, [CoordinatorNext]_allvars
  PROVE  Ahead'
<1> USE DEF CoordinatorInv
<1>1. ASSUME NEW r \in Runs, NEW t \in Txs, NEW f \in Plan, StartItem(r, t), Active(r),
             job[r] \in Plans, plan[job[r]] = f, f # NoPlan,
             Len(txs[r]) + 1 \in DOMAIN f.items, Len(txs[r]) \in Nat,
             plan' = plan, job' = job, \A s \in Runs \ {r} : at'[s] = at[s],
             \A i \in DOMAIN f.items : i > Len(txs[r]) =>
                 Snapshot(f.items[i].plugin) = f.seen[f.items[i].plugin]
      PROVE  Ahead'
  <2>1. Len(txs'[r]) = Len(txs[r]) + 1 /\ txs'[r][Len(txs'[r])] = t
    BY <1>1, StartItemFrame
  <2>2. ItemOf(r, t).plugin = f.items[Len(txs[r]) + 1].plugin
    BY <1>1, ItemIsFresh
  <2>3. item'[t] = ItemOf(r, t)
    BY <1>1 DEF StartItem, Start, TypeOK
  <2>9. \A p : Snapshot(p)' = Snapshot(p)
    BY <1>1 DEF StartItem, Start, world, Snapshot
  <2>4. \A s \in Runs : at'[s] = "item" => s = r
    BY <1>1, OnlyOne DEF Active
  <2>5. Len(txs'[r]) \in Nat /\ \A i \in DOMAIN f.items : i \in Nat
    BY <1>1, <2>1, PlanShape
  <2>6. \A i \in DOMAIN f.items : i > Len(txs'[r]) => i > Len(txs[r])
    BY <1>1, <2>1, <2>5
  <2>7. plan'[job'[r]] = f /\ item'[txs'[r][Len(txs'[r])]].plugin = f.items[Len(txs'[r])].plugin
    BY <1>1, <2>1, <2>2, <2>3
  <2>8. \A i \in DOMAIN f.items : i > Len(txs'[r]) =>
          Snapshot(f.items[i].plugin)' = f.seen[f.items[i].plugin]
    BY <1>1, <2>6, <2>9
  <2> QED
    BY <2>4, <2>7, <2>8 DEF Ahead
<1>2. ASSUME NEW r \in Runs, Scanned(r) PROVE Ahead'
  <2>1. PICK t \in Txs : StartItem(r, t)
    BY <1>2 DEF Scanned
  <2>2. job[r] \in Plans /\ plan[job[r]] \in Plan \ {NoPlan} /\ txs[r] = <<>> /\ Active(r)
    BY <1>2 DEF Scanned, Locks, Active, CallsOK
  <2>3. Len(txs[r]) = 0 /\ 1 \in DOMAIN plan[job[r]].items
    BY <2>2, PlanShape, EmptySeq
  <2>4. \A s \in Runs \ {r} : at'[s] = at[s]
    BY <1>2 DEF Scanned, Set, CallsOK
  <2>5. \A i \in DOMAIN plan[job[r]].items :
          Snapshot(plan[job[r]].items[i].plugin) = plan[job[r]].seen[plan[job[r]].items[i].plugin]
    BY <1>2, <2>2, PlanShape DEF Scanned, Valid, Scan
  <2> QED
    BY <1>1, <1>2, <2>1, <2>2, <2>3, <2>4, <2>5 DEF Scanned
<1>3. ASSUME NEW r \in Runs, NextItem(r) PROVE Ahead'
  <2>1. PICK t \in Txs : StartItem(r, t)
    BY <1>3 DEF NextItem
  <2>2. job[r] \in Plans /\ plan[job[r]] \in Plan \ {NoPlan} /\ at[r] = "item" /\ Active(r)
    BY <1>3 DEF NextItem, AtBoundary, Locks, Active, CallsOK
  <2>3. Len(txs[r]) + 1 \in DOMAIN plan[job[r]].items /\ Len(txs[r]) \in Nat
    BY <1>3, <2>2, PlanShape DEF NextItem, Exhausted, Locks, CallsOK
  <2>4. \A i \in DOMAIN plan[job[r]].items : i > Len(txs[r]) =>
          Snapshot(plan[job[r]].items[i].plugin) = plan[job[r]].seen[plan[job[r]].items[i].plugin]
    BY <1>3, <2>2 DEF Ahead, NextItem
  <2> QED
    BY <1>1, <1>3, <2>1, <2>2, <2>3, <2>4 DEF NextItem
<1>4. ASSUME NEW t \in Txs, Transact(t) PROVE Ahead'
  <2> SUFFICES ASSUME NEW r \in Runs, at[r] = "item", job[r] # NoPlan,
                      NEW f \in Plan, plan[job[r]] = f,
                      NEW i \in DOMAIN f.items, i > Len(txs[r])
               PROVE  /\ item[txs[r][Len(txs[r])]].plugin = f.items[Len(txs[r])].plugin
                      /\ Snapshot(f.items[i].plugin)' = f.seen[f.items[i].plugin]
    <3>1. item' = item /\ UNCHANGED <<at, job, plan, txs>>
      BY <1>4, TxFrame DEF Transact, cvars, calls
    <3>2. \A r \in Runs : at[r] = "item" /\ job[r] # NoPlan => plan[job[r]] \in Plan
      BY DEF Locks, Active, CallsOK
    <3> QED
      BY <3>1, <3>2 DEF Ahead, Snapshot
  <2>1. t = txs[r][Len(txs[r])]
    BY <1>4, TxFrame, OnlyOne DEF Transact, Alone, Active
  <2>2. item[t].plugin = f.items[Len(txs[r])].plugin
    BY <2>1 DEF Ahead
  <2>3. Len(txs[r]) \in DOMAIN f.items /\ Len(txs[r]) # i
    BY PlanShape, EmptySeq DEF CallsOK, Locks
  <2>4. f.items[i].plugin \in Plugins /\ f.items[i].plugin # item[t].plugin
    BY <2>2, <2>3, PlanShape
  <2>5. Snapshot(f.items[i].plugin)' = Snapshot(f.items[i].plugin)
    BY <1>4, <2>4, TxFrame, SnapshotFrame DEF Transact
  <2> QED
    BY <2>1, <2>2, <2>5 DEF Ahead
<1>5. ASSUME NEW h \in Plans, Freeze(h) PROVE Ahead'
  <2>1. \A r \in Runs : at[r] = "item" /\ job[r] # NoPlan => plan'[job[r]] = plan[job[r]]
    BY <1>5 DEF Freeze, Locks, Active, CallsOK
  <2>2. UNCHANGED <<at, job, txs, item, world>>
    BY <1>5 DEF Freeze, calls, vars, world
  <2> SUFFICES ASSUME NEW r \in Runs, at[r] = "item", job[r] # NoPlan,
                      NEW f, plan[job[r]] = f, NEW i \in DOMAIN f.items, i > Len(txs[r])
               PROVE  /\ item[txs[r][Len(txs[r])]].plugin = f.items[Len(txs[r])].plugin
                      /\ Snapshot(f.items[i].plugin)' = f.seen[f.items[i].plugin]
    <3>1. \A r \in Runs : at[r] = "item" /\ job[r] # NoPlan =>
            item[txs[r][Len(txs[r])]].plugin = plan[job[r]].items[Len(txs[r])].plugin
      BY DEF Ahead
    <3> HIDE DEF CoordinatorInv
    <3> QED
      BY <2>1, <2>2, <3>1 DEF Ahead, Snapshot
  <2>3. Snapshot(f.items[i].plugin)' = Snapshot(f.items[i].plugin)
    BY <2>2 DEF Snapshot, world
  <2> QED
    BY <2>3 DEF Ahead
<1>6. ASSUME NEW r \in Runs,
             \/ \E h \in Plans : Call(r, h)
             \/ Refuse(r) \/ Abort(r) \/ RollbackReturns(r) \/ Finish(r)
      PROVE  Ahead'
  <2>1. UNCHANGED <<plan, txs, item, world>>
    BY <1>6 DEF Call, Refuse, Abort, RollbackReturns, Finish, vars, world
  <2>2. \A s \in Runs : at'[s] = "item" => at[s] = "item" /\ job'[s] = job[s]
    BY <1>6 DEF Call, Admit, Refuse, Abort, RollbackReturns, Finish, Set, Release, CallsOK
  <2> QED
    BY <2>1, <2>2 DEF Ahead, Snapshot, world
<1>7. ASSUME NEW r \in Runs, NEW t \in Txs, NEW o \in Txs, CallRollback(r, t, o) PROVE Ahead'
  <2>1. \A s \in Runs : at[s] # "item"
    BY <1>7, CoordinatorAssumption DEF CallRollback, Admit, LockFree, Locks, Active
  <2>2. \A s \in Runs : at'[s] = "item" => job'[s] = NoPlan
    BY <1>7, <2>1 DEF CallRollback, Admit, Set, CallsOK
  <2> QED
    BY <2>2 DEF Ahead
<1>8. ASSUME Die \/ StartAgain PROVE Ahead'
  <2>1. \A s \in Runs : at'[s] # "item"
    BY <1>8 DEF Die, StartAgain, Restart, Locks, Active, CallsOK, calls
  <2> QED
    BY <2>1 DEF Ahead
<1>9. ASSUME Cancel \/ HotReload \/ Initialize \/ LeaseExpires \/ UNCHANGED allvars PROVE Ahead'
  <2>1. UNCHANGED <<plan, at, job, txs, item, world>>
    BY <1>9 DEF Cancel, HotReload, Recover, Initialize, Cleanup, LeaseExpires, calls, cvars, allvars,
       vars, world
  <2> QED
    BY <2>1 DEF Ahead, Snapshot, world
<1> QED
  BY <1>2, <1>3, <1>4, <1>5, <1>6, <1>7, <1>8, <1>9 DEF CoordinatorNext, RunStep

---------------------------------------------------------------------------
(* What follows.                                                           *)

LEMMA InvStep == CoordinatorInv /\ [CoordinatorNext]_allvars => CoordinatorInv'
BY StepIsSerial, NextType, CallsType, LocksStep, FlaggedStep, AloneStep, MovesStep, AheadStep
   DEF CoordinatorInv

LEMMA InvInit == CoordinatorInit => CoordinatorInv
<1> SUFFICES ASSUME CoordinatorInit PROVE CoordinatorInv
  OBVIOUS
<1>1. TypeOK
  BY TxAssumption DEF CoordinatorInit, Init, TypeOK, PCs, Suspended, Resting, Contents
<1>2. CallsOK /\ Counted
  BY TxAssumption, CoordinatorAssumption DEF CoordinatorInit, Init, CallsOK, CallState, Instances, Counted
<1>3. Locks /\ Flagged /\ Alone /\ Moves /\ Ahead
  BY DEF CoordinatorInit, Init, Locks, Flagged, Alone, Moves, Ahead, Active, Busy, Resting
<1> QED
  BY <1>1, <1>2, <1>3 DEF CoordinatorInv

LEMMA Invariant == CoordinatorSpec => []CoordinatorInv
BY InvInit, InvStep, PTL DEF CoordinatorSpec

\* The coordinator implements the serial system: one transaction at a time, each
\* on a plugin that is as its plan says, for any number of calls, instances,
\* cancels, failures and deaths.  Every theorem about Spec is one about it.
THEOREM CoordinatorIsSerial == CoordinatorSpec => ImplementsSerial
<1>1. CoordinatorInit => Init
  BY DEF CoordinatorInit
<1> QED
  BY <1>1, StepIsSerial, Invariant, PTL DEF CoordinatorSpec, ImplementsSerial, Spec

\* The types of the coordinator and of its transactions are right in every
\* reachable state.
THEOREM CoordinatorTyping == CoordinatorSpec => []CoordinatorTypeOK
<1>1. CoordinatorInv => CoordinatorTypeOK
  BY DEF CoordinatorInv, CoordinatorTypeOK
<1> QED
  BY <1>1, Invariant, PTL

\* No two calls are past the locks at once, in one instance or in several.
THEOREM OneRunAlways == CoordinatorSpec => []OneRun
<1>1. CoordinatorInv => OneRun
  BY OnlyOne DEF CoordinatorInv, OneRun
<1> QED
  BY <1>1, Invariant, PTL

\* Transactions are started by Scanned, NextItem and CallRollback, for the run
\* they are actions of.
LEMMA OnlyStarts ==
  ASSUME CoordinatorInv, [CoordinatorNext]_allvars, NEW r \in Runs, StartsItem(r)
  PROVE  (Scanned(r) \/ NextItem(r)) \/ \E t, o \in Txs : CallRollback(r, t, o)
<1>1. txs'[r] # txs[r]
  BY DEF StartsItem, CoordinatorInv, CallsOK
<1>2. ASSUME NEW s \in Runs, Scanned(s) \/ NextItem(s) PROVE s = r
  <2>1. PICK t \in Txs : StartItem(s, t)
    BY <1>2 DEF Scanned, NextItem
  <2> QED
    BY <1>1, <2>1 DEF StartItem, CoordinatorInv, CallsOK
<1>3. ASSUME NEW s \in Runs, NEW t \in Txs, NEW o \in Txs, CallRollback(s, t, o) PROVE s = r
  BY <1>1, <1>3 DEF CallRollback, CoordinatorInv, CallsOK
<1>4. ASSUME NEW s \in Runs, Refuse(s) \/ Finish(s) \/ Abort(s) \/ RollbackReturns(s) PROVE FALSE
  BY <1>1, <1>4 DEF Refuse, Finish, Abort, RollbackReturns
<1>5. ASSUME \/ \E h \in Plans : Freeze(h)
             \/ \E s \in Runs, h \in Plans : Call(s, h)
             \/ \E t \in Txs : Transact(t)
             \/ Cancel \/ HotReload \/ Initialize
      PROVE  FALSE
  BY <1>1, <1>5 DEF Freeze, Call, Transact, Cancel, HotReload, Initialize, calls, cvars
<1>6. ASSUME Die \/ LeaseExpires \/ StartAgain \/ UNCHANGED allvars PROVE FALSE
  BY <1>1, <1>6 DEF Die, LeaseExpires, StartAgain, calls, cvars, allvars
<1> QED
  BY <1>2, <1>3, <1>4, <1>5, <1>6 DEF CoordinatorNext, RunStep

\* A plan that has its receipt is never started again: receipts survive hot
\* reloads and deaths, and the file lock keeps them current.
THEOREM NoReplayAlways == CoordinatorSpec => NoReplay
<1> DEFINE Fresh == \A r, s \in Runs : StartsItem(r) /\ job'[r] # NoPlan /\ at[s] = "returned"
                       => job[s] # job'[r]
<1>1. ASSUME CoordinatorInv, [CoordinatorNext]_allvars PROVE [Fresh]_allvars
  <2> SUFFICES ASSUME NEW r \in Runs, NEW s \in Runs, StartsItem(r), job'[r] # NoPlan,
                      at[s] = "returned"
               PROVE  job[s] # job'[r]
    OBVIOUS
  <2>2. (Scanned(r) \/ NextItem(r)) \/ \E t, o \in Txs : CallRollback(r, t, o)
    BY <1>1, OnlyStarts
  <2>3. CASE Scanned(r) \/ NextItem(r)
    BY <1>1, <2>3 DEF Scanned, NextItem, AtBoundary, CoordinatorInv, Locks, Active
  <2>4. CASE \E t, o \in Txs : CallRollback(r, t, o)
    BY <1>1, <2>4 DEF CallRollback, Admit, CoordinatorInv, CallsOK
  <2> QED
    BY <2>2, <2>3, <2>4
<1> QED
  BY <1>1, Invariant, PTL DEF CoordinatorSpec, NoReplay

\* A batch that is told to stop while it works on its items starts no other.
THEOREM CancelInLoopAlways == CoordinatorSpec => CancelInLoop
<1> DEFINE Heard == \A r \in Runs : asked[r] = "item" => ~StartsItem(r)
<1>1. ASSUME CoordinatorInv, [CoordinatorNext]_allvars PROVE [Heard]_allvars
  <2> SUFFICES ASSUME NEW r \in Runs, asked[r] = "item", StartsItem(r) PROVE FALSE
    OBVIOUS
  <2>2. (Scanned(r) \/ NextItem(r)) \/ \E t, o \in Txs : CallRollback(r, t, o)
    BY <1>1, OnlyStarts
  <2> QED
    BY <1>1, <2>2 DEF Scanned, NextItem, AtBoundary, CancelSeen, CallRollback, Admit,
       CoordinatorInv, Flagged, Locks, Active
<1> QED
  BY <1>1, Invariant, PTL DEF CoordinatorSpec, CancelInLoop

---------------------------------------------------------------------------
(* Nothing follows a failure.                                              *)

\* An earlier transaction of a batch is over, and did not end it.
Harmless(r, t) ==
    /\ pc[t] = "done" /\ rec[t] # "ROLLBACK_FAILED"
    /\ stop[r] => rec[t] = "COMMITTED"

Passed == \A r \in Runs : \A i \in 1 .. Len(txs[r]) - 1 : Harmless(r, txs[r][i])

\* A step that starts no item keeps what passed, if it leaves alone what is over:
\* a record that is final stays as it is when an instance recovers.
LEMMA PassedKept ==
  ASSUME CallsOK, Passed, txs' = txs, stop' = stop,
         \A t \in Txs : pc[t] = "done" =>
             pc'[t] = pc[t] /\ (rec'[t] = rec[t] \/ rec' = Recovered)
  PROVE  Passed'
<1> SUFFICES ASSUME NEW r \in Runs, NEW i \in 1 .. Len(txs[r]) - 1 PROVE Harmless(r, txs[r][i])'
  BY DEF Passed
<1>1. txs[r] \in Seq(Txs)
  BY DEF CallsOK
<1>2. txs[r][i] \in Txs
  BY <1>1
<1>3. Harmless(r, txs[r][i])
  BY DEF Passed
<1>4. Harmless(r, txs[r][i])'
  <2> DEFINE t == txs[r][i]
  <2>1. t \in Txs /\ Harmless(r, t) /\ t' = t
    BY <1>2, <1>3
  <2> HIDE DEF t
  <2>2. pc'[t] = pc[t] /\ (rec'[t] = rec[t] \/ rec' = Recovered)
    BY <2>1 DEF Harmless
  <2>3. (pc[t])' = pc'[t] /\ (rec[t])' = rec'[t]
    BY <2>1
  <2> QED
    BY <2>1, <2>2, <2>3 DEF Harmless, Recovered, TERMINAL, t
<1> QED
  BY <1>4

\* A transaction that starts was idle, and moves no other.
LEMMA StartFrame ==
  ASSUME TypeOK, NEW r \in Runs, NEW t \in Txs, StartItem(r, t)
  PROVE  pc[t] = "idle" /\ \A u \in Txs \ {t} : pc'[u] = pc[u] /\ rec'[u] = rec[u]
BY DEF StartItem, Start, Record, Goto, TypeOK

\* A batch goes on from a transaction that is over and did not end it.
LEMMA PassedGrows ==
  ASSUME CoordinatorInv, Passed, NEW r \in Runs, NEW t \in Txs, StartItem(r, t), stop' = stop,
         txs[r] # <<>> => Harmless(r, Current(r))
  PROVE  Passed'
<1> USE DEF CoordinatorInv
<1> SUFFICES ASSUME NEW s \in Runs, NEW i \in 1 .. Len(txs'[s]) - 1 PROVE Harmless(s, txs[s][i])'
  BY DEF Passed
<1>1. txs[s] \in Seq(Txs) /\ txs[r] \in Seq(Txs)
  BY DEF CallsOK
<1>2. i \in 1 .. Len(txs[s]) /\ txs'[s][i] = txs[s][i] /\ Harmless(s, txs[s][i])
  <2>1. CASE s # r
    <3>1. txs'[s] = txs[s]
      BY <2>1, StartItemFrame
    <3> QED
      BY <1>1, <3>1 DEF Passed
  <2>2. CASE s = r
    <3>1. txs'[r] = Append(txs[r], t)
      BY DEF StartItem, CallsOK
    <3>2. Len(txs'[r]) = Len(txs[r]) + 1
      BY StartItemFrame
    <3>3. i \in 1 .. Len(txs[r]) /\ txs'[r][i] = txs[r][i]
      BY <1>1, <2>2, <3>1, <3>2
    <3>4. CASE i # Len(txs[r])
      BY <1>1, <2>2, <3>3, <3>4 DEF Passed
    <3>5. CASE i = Len(txs[r])
      BY <1>1, <2>2, <3>3, <3>5, EmptySeq DEF Current, Last
    <3> QED
      BY <2>2, <3>3, <3>4, <3>5
  <2> QED
    BY <2>1, <2>2
<1>3. txs[s][i] \in Txs /\ txs[s][i] # t
  BY <1>1, <1>2, StartFrame DEF Harmless
<1>4. pc'[txs[s][i]] = pc[txs[s][i]] /\ rec'[txs[s][i]] = rec[txs[s][i]] /\ stop' = stop
  BY <1>3, StartFrame
<1> QED
  BY <1>2, <1>4 DEF Harmless

LEMMA PassedStep ==
  ASSUME CoordinatorInv, Passed, [CoordinatorNext]_allvars
  PROVE  Passed'
<1> USE DEF CoordinatorInv
<1>1. ASSUME NEW r \in Runs, Scanned(r) PROVE Passed'
  <2>1. PICK t \in Txs : StartItem(r, t)
    BY <1>1 DEF Scanned
  <2>2. txs[r] = <<>>
    BY <1>1 DEF Scanned, Locks
  <2> QED
    BY <1>1, <2>1, <2>2, PassedGrows DEF Scanned
<1>2. ASSUME NEW r \in Runs, NextItem(r) PROVE Passed'
  <2>1. PICK t \in Txs : StartItem(r, t)
    BY <1>2 DEF NextItem
  <2>2. Harmless(r, Current(r))
    BY <1>2 DEF NextItem, Failed, Harmless
  <2> QED
    BY <1>2, <2>1, <2>2, PassedGrows DEF NextItem
<1>3. ASSUME NEW r \in Runs, NEW h \in Plans, Call(r, h) PROVE Passed'
  <2>1. txs' = txs /\ pc' = pc /\ rec' = rec /\ txs[r] = <<>> /\ \A s \in Runs \ {r} : stop'[s] = stop[s]
    BY <1>3 DEF Call, Admit, vars, files, Locks, CallsOK
  <2>2. ASSUME NEW s \in Runs, NEW i \in 1 .. Len(txs[s]) - 1 PROVE s # r /\ Harmless(s, txs[s][i])
    <3>1. s # r
      BY <2>1, <2>2, EmptySeq
    <3> QED
      BY <2>2, <3>1 DEF Passed
  <2> QED
    BY <2>1, <2>2 DEF Passed, Harmless
<1>4. ASSUME NEW r \in Runs, NEW t \in Txs, NEW o \in Txs, CallRollback(r, t, o) PROVE Passed'
  <2>1. /\ pc[t] = "idle" /\ rec' = rec /\ \A u \in Txs \ {t} : pc'[u] = pc[u]
        /\ txs'[r] = <<t>> /\ \A s \in Runs \ {r} : txs'[s] = txs[s] /\ stop'[s] = stop[s]
    BY <1>4 DEF CallRollback, Admit, ManualStart, Goto, files, TypeOK, CallsOK
  <2> SUFFICES ASSUME NEW s \in Runs, NEW i \in 1 .. Len(txs'[s]) - 1 PROVE Harmless(s, txs[s][i])'
    BY DEF Passed
  <2>2. s # r
    <3>1. Len(<<t>>) - 1 = 0
      OBVIOUS
    <3>2. s = r => Len(txs'[s]) - 1 = 0
      BY <2>1, <3>1, Zenon
    <3>3. Len(txs'[s]) - 1 # 0
      OBVIOUS
    <3> QED
      BY <3>2, <3>3
  <2>3. txs[s] \in Seq(Txs) /\ txs'[s] = txs[s]
    BY <2>1, <2>2 DEF CallsOK
  <2>4. txs[s][i] \in Txs /\ Harmless(s, txs[s][i])
    BY <2>3 DEF Passed
  <2>5. txs[s][i] # t
    BY <2>1, <2>4 DEF Harmless
  <2> QED
    BY <2>1, <2>2, <2>3, <2>4, <2>5 DEF Harmless
<1>5. ASSUME NEW t \in Txs, Transact(t) PROVE Passed'
  <2>1. \A u \in Txs \ {t} : pc'[u] = pc[u] /\ rec'[u] = rec[u]
    BY <1>5, TxFrame, StepKeeps DEF Transact
  <2>2. pc[t] # "done"
    BY <1>5, TxFrame DEF Transact, Busy, Resting
  <2>3. txs' = txs /\ stop' = stop
    BY <1>5 DEF Transact, cvars, calls
  <2> QED
    BY <2>1, <2>2, <2>3, PassedKept
<1>6. ASSUME NEW r \in Runs, Refuse(r) \/ Abort(r) \/ RollbackReturns(r) \/ Finish(r) PROVE Passed'
  <2>1. txs' = txs /\ stop' = stop /\ pc' = pc /\ rec' = rec
    BY <1>6 DEF Refuse, Abort, RollbackReturns, Finish, vars
  <2> QED
    BY <2>1, PassedKept
<1>7. ASSUME \/ \E h \in Plans : Freeze(h)
             \/ Cancel \/ HotReload \/ Initialize \/ StartAgain \/ LeaseExpires \/ UNCHANGED allvars
      PROVE  Passed'
  <2>1. txs' = txs /\ stop' = stop /\ pc' = pc /\ (rec' = rec \/ rec' = Recovered)
    BY <1>7 DEF Freeze, Cancel, HotReload, Recover, Initialize, Cleanup, StartAgain, Restart,
       LeaseExpires, calls, cvars, allvars, vars
  <2> QED
    BY <2>1, PassedKept
<1>8. ASSUME Die PROVE Passed'
  <2>1. txs' = txs /\ stop' = stop /\ rec' = rec /\ \A t \in Txs : pc[t] = "done" => pc'[t] = pc[t]
    BY <1>8 DEF Die, Crash, files, TypeOK, Busy, Resting
  <2> QED
    BY <2>1, PassedKept
<1> QED
  BY <1>1, <1>2, <1>3, <1>4, <1>5, <1>6, <1>7, <1>8 DEF CoordinatorNext, RunStep

\* No batch goes on after a rollback that failed, nor, when the rule says to
\* stop, after a transaction that did not commit; for batches of any length.
THEOREM StopsAlways == CoordinatorSpec => []StopsAfterFailure
<1>1. CoordinatorInit => Passed
  BY EmptySeq DEF CoordinatorInit, Passed
<1>2. Passed => StopsAfterFailure
  BY DEF Passed, Harmless, StopsAfterFailure
<1> QED
  BY <1>1, <1>2, InvInit, InvStep, PassedStep, PTL DEF CoordinatorSpec
=============================================================================
