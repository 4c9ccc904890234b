---------------------------- MODULE WebuiAuth ----------------------------
(***************************************************************************)
(* WebUIAuth of core/webui_auth.py: the administrators in                  *)
(* webui-admins.json, shared by the processes on one data directory under  *)
(* the lease file .webui-admins.lock, and the sessions and the login       *)
(* back-off, which each process keeps for itself.  An operation is one     *)
(* synchronous call, so nothing of its own process comes between its read  *)
(* and its write, but another process may.  The lease lock is taken at its *)
(* word (FileLeaseLock): exclusive, and free again some time after the     *)
(* death of its holder.                                                    *)
(*                                                                         *)
(* "admin" stands for the two roles that are not owner.                    *)
(***************************************************************************)
EXTENDS Naturals, FiniteSets, FiniteSetsExt

CONSTANTS
    Procs,          \* processes
    Names,          \* user names
    MaxIds,         \* bound: accounts ever created
    MaxPasswords,   \* bound: changes of a password
    MaxReadFaults,  \* bound: reads that raise, and so read as an empty list
    MaxWriteFaults, \* bound: writes that raise
    MaxProcDeaths,  \* bound: deaths of a process, a hot reload included
    MaxExponent,    \* 8 in the code: the longest back-off is 2 ^ MaxExponent
    MaxTries,       \* bound: failed logins that are counted
    NoAccount, NoCall, Nobody

ASSUME AuthAssumption ==
    /\ {MaxIds, MaxPasswords, MaxReadFaults, MaxWriteFaults, MaxProcDeaths,
        MaxExponent, MaxTries} \subseteq Nat
    /\ Nobody \notin Procs /\ IsFiniteSet(Names)

VARIABLES
    accounts,   \* webui-admins.json: per name, the record or NoAccount
    holder,     \* who holds the lease file, or Nobody
    orphan,     \* its holder is dead
    call,       \* per process: the operation between its read and its write
    sessions,   \* the sessions in memory, all processes
    failed,     \* per process and name: _failed
    ids, readFaults, writeFaults, procDeaths,
    elapsed,    \* history, per process and name: time since the first failure
    wiped       \* history: somebody wrote after a read that failed

store == <<accounts, holder, orphan, ids, wiped>>
authFaults == <<readFaults, writeFaults, procDeaths>>
backoff == <<failed, elapsed>>
authVars == <<store, call, sessions, backoff, authFaults>>

Account == [id : 1..MaxIds, role : {"owner", "admin"}, enabled : BOOLEAN,
            pw : 0..MaxPasswords]
ASSUME NoAccountAssumption == NoAccount \notin Account
Admins == [Names -> Account \cup {NoAccount}]
Empty == [n \in Names |-> NoAccount]
Recorded(a) == {a[n] : n \in {m \in Names : a[m] # NoAccount}}

\* What change_admin may be asked for: a subset of password, role and enabled.
Keep == "keep"
Request ==
    [kind : {"create"}, name : Names, role : {"owner", "admin"}]
    \cup [kind : {"login"}, name : Names, good : BOOLEAN]
    \cup [kind : {"change"}, id : 1..MaxIds, pw : BOOLEAN,
          role : {"owner", "admin", Keep}, enabled : {"on", "off", Keep}]
Call == [op : Request, seen : Admins, ok : BOOLEAN]

\* `foreign` marks a session whose password another process changed.
Session == [proc : Procs, id : 1..MaxIds, pw : 0..MaxPasswords, foreign : BOOLEAN]

AuthTypeOK ==
    /\ accounts \in Admins
    /\ holder \in Procs \cup {Nobody} /\ orphan \in BOOLEAN /\ wiped \in BOOLEAN
    /\ call \in [Procs -> Call \cup {NoCall}]
    /\ sessions \subseteq Session
    /\ failed \in [Procs -> [Names -> [tries : 0..MaxTries, wait : Nat]]]
    /\ ids \in 0..MaxIds

Fresh0 == [n \in Names |-> [tries |-> 0, wait |-> 0]]
AuthInit ==
    /\ accounts = Empty /\ holder = Nobody /\ orphan = FALSE /\ ids = 0 /\ wiped = FALSE
    /\ call = [p \in Procs |-> NoCall]
    /\ sessions = {}
    /\ failed = [p \in Procs |-> Fresh0]
    /\ elapsed = [p \in Procs |-> [n \in Names |-> 0]]
    /\ readFaults = 0 /\ writeFaults = 0 /\ procDeaths = 0

---------------------------------------------------------------------------
(* Operations on the store: take the lease file, read; write, release.     *)

LockIgnored(p) == call[p] = NoCall
\* acquire(): a lock in other hands answers ADMIN_STORE_BUSY.
LockFree(p) == call[p] = NoCall /\ holder = Nobody

\* _read: what the file holds, or nothing when it cannot be read or parsed.
Begin(p, op) ==
    /\ LockFree(p)
    /\ holder' = p
    /\ \/ /\ call' = [call EXCEPT ![p] = [op |-> op, seen |-> accounts, ok |-> TRUE]]
          /\ UNCHANGED readFaults
       \/ /\ readFaults < MaxReadFaults /\ readFaults' = readFaults + 1
          /\ call' = [call EXCEPT ![p] = [op |-> op, seen |-> Empty, ok |-> FALSE]]
    /\ UNCHANGED <<accounts, orphan, ids, wiped, sessions, backoff, writeFaults, procDeaths>>

BeginCreate(p) == \E n \in Names, r \in {"owner", "admin"} :
    Begin(p, [kind |-> "create", name |-> n, role |-> r])

\* authenticate() rejects a limited name before it looks at the password.
LimitedNever(p, n) == FALSE
Limited(p, n) == failed[p][n].wait > 0
BeginLogin(p) == \E n \in Names, good \in BOOLEAN :
    /\ ~Limited(p, n) /\ failed[p][n].tries < MaxTries
    /\ Begin(p, [kind |-> "login", name |-> n, good |-> good])

BeginChange(p) == \E id \in 1..ids, w \in BOOLEAN,
                     r \in {"owner", "admin", Keep}, e \in {"on", "off", Keep} :
    Begin(p, [kind |-> "change", id |-> id, pw |-> w, role |-> r, enabled |-> e])

Release(p) ==
    /\ call' = [call EXCEPT ![p] = NoCall]
    /\ holder' = Nobody
    /\ UNCHANGED <<orphan, readFaults, procDeaths>>

\* Every write replaces the whole file by the list that was read and changed.
Write(p, a) ==
    /\ accounts' = a
    /\ wiped' = (wiped \/ ~call[p].ok)
    /\ Release(p)
    /\ UNCHANGED writeFaults

Is(p, kind) == call[p] # NoCall /\ call[p].op.kind = kind
SeenAt(p) == call[p].seen[call[p].op.name]

\* create_admin: the first account is an owner, whatever role was asked for.
Create(p) ==
    /\ Is(p, "create") /\ SeenAt(p) = NoAccount /\ ids < MaxIds
    /\ ids' = ids + 1
    /\ LET seen == call[p].seen IN
       Write(p, [seen EXCEPT ![call[p].op.name] =
           [id |-> ids', enabled |-> TRUE, pw |-> 0,
            role |-> IF seen = Empty THEN "owner" ELSE call[p].op.role]])
    /\ UNCHANGED <<sessions, backoff>>

\* authenticate with the right password of an enabled account: the back-off
\* ends, the time of the login is written (or the write raises), and only then
\* there is a session.
Valid(p) == call[p].op.good /\ SeenAt(p) # NoAccount /\ SeenAt(p).enabled
BackoffEnds(p, n) ==
    /\ failed' = [failed EXCEPT ![p][n] = [tries |-> 0, wait |-> 0]]
    /\ elapsed' = [elapsed EXCEPT ![p][n] = 0]
Login(p) ==
    /\ Is(p, "login") /\ Valid(p)
    /\ BackoffEnds(p, call[p].op.name)
    /\ UNCHANGED ids
    /\ \/ /\ Write(p, call[p].seen)
          /\ sessions' = sessions \cup {[proc |-> p, id |-> SeenAt(p).id,
                                         pw |-> SeenAt(p).pw, foreign |-> FALSE]}
       \/ /\ writeFaults < MaxWriteFaults /\ writeFaults' = writeFaults + 1
          /\ Release(p)
          /\ UNCHANGED <<accounts, wiped, sessions>>

\* ... or not: delay = min(300, 2 ** min(attempts, 8)).
Delay(tries) == 2 ^ (IF tries < MaxExponent THEN tries ELSE MaxExponent)
LoginFails(p) ==
    LET n == call[p].op.name
        tries == failed[p][n].tries + 1
    IN /\ Is(p, "login") /\ ~Valid(p)
       /\ failed' = [failed EXCEPT ![p][n] = [tries |-> tries, wait |-> Delay(tries)]]
       /\ Release(p)
       /\ UNCHANGED <<accounts, ids, wiped, sessions, writeFaults, elapsed>>

Owners(a) == {r \in Recorded(a) : r.role = "owner" /\ r.enabled}

\* _change_admin_locked: enabled first, then the role, each with its guard.
MayDisable(seen, r) == r.role = "owner" => Cardinality(Owners(seen)) > 1
MayDemoteAny(seen, r) == TRUE
MayDemote(seen, r) == r.role = "owner" /\ r.enabled => Owners(seen) \ {r} # {}
Switched(p, r) ==
    [r EXCEPT !.enabled = IF call[p].op.enabled = Keep THEN @ ELSE call[p].op.enabled = "on"]
Changed(p, r) ==
    [Switched(p, r) EXCEPT !.role = IF call[p].op.role = Keep THEN @ ELSE call[p].op.role,
                           !.pw = IF call[p].op.pw THEN @ + 1 ELSE @]
ChangeAllowed(p, n) ==
    LET seen == call[p].seen
        r == Switched(p, seen[n])
    IN /\ call[p].op.enabled = "off" => MayDisable(seen, seen[n])
       /\ call[p].op.role = "admin" => MayDemote([seen EXCEPT ![n] = r], r)

\* The sessions of this process end when the account is disabled or gets a new
\* password; those of other processes only notice the former.
DroppedIfDisabled(p, r, pw) == {s \in sessions : s.proc = p /\ s.id = r.id /\ ~r.enabled}
Dropped(p, r, pw) == {s \in sessions : s.proc = p /\ s.id = r.id /\ (pw \/ ~r.enabled)}
Marked(s, p, r, pw) == [s EXCEPT !.foreign = @ \/ (pw /\ s.id = r.id /\ s.proc # p)]
Change(p) ==
    /\ Is(p, "change")
    /\ \E n \in Names :
          LET c == call[p].op
              seen == call[p].seen
              r == Changed(p, seen[n])
          IN /\ seen[n] # NoAccount /\ seen[n].id = c.id
             /\ ChangeAllowed(p, n) /\ (c.pw => seen[n].pw < MaxPasswords)
             /\ Write(p, [seen EXCEPT ![n] = r])
             /\ sessions' = {Marked(s, p, r, c.pw) : s \in sessions \ Dropped(p, r, c.pw)}
    /\ UNCHANGED <<ids, backoff>>

\* Every other end of a creation or a change: the name is taken, no such
\* account, the last owner, or a write that raises.  Only the lease file goes.
NotFound(p) == \A r \in Recorded(call[p].seen) : r.id # call[p].op.id
Protected(p) == \E n \in Names :
    /\ call[p].seen[n] # NoAccount /\ call[p].seen[n].id = call[p].op.id
    /\ ~ChangeAllowed(p, n) \/ call[p].op.pw
Refused(p) ==
    /\ \/ /\ \/ Is(p, "create") /\ (SeenAt(p) # NoAccount \/ ids = MaxIds)
             \/ Is(p, "change") /\ (NotFound(p) \/ Protected(p))
          /\ UNCHANGED writeFaults
       \/ /\ Is(p, "create") \/ Is(p, "change")
          /\ writeFaults < MaxWriteFaults /\ writeFaults' = writeFaults + 1
    /\ Release(p)
    /\ UNCHANGED <<accounts, ids, wiped, sessions, backoff>>

---------------------------------------------------------------------------
(* Sessions, and the environment.                                          *)

\* session() reads the record again and drops a session whose account is gone
\* or disabled, or whose idle or absolute limit has passed; revoke() drops it.
\* What is left lives on, with the role the record has now.
EndSession(s) ==
    /\ call[s.proc] = NoCall
    /\ sessions' = sessions \ {s}
    /\ UNCHANGED <<store, call, backoff, authFaults>>

\* Time passes between the operations of a process.
AuthTick ==
    /\ \A p \in Procs : call[p] = NoCall
    /\ \E p \in Procs, n \in Names : failed[p][n].wait > 0
    /\ failed' = [p \in Procs |-> [n \in Names |->
          [failed[p][n] EXCEPT !.wait = IF @ > 0 THEN @ - 1 ELSE 0]]]
    /\ elapsed' = [p \in Procs |-> [n \in Names |->
          IF failed[p][n].wait > 0 THEN elapsed[p][n] + 1 ELSE elapsed[p][n]]]
    /\ UNCHANGED <<store, call, sessions, authFaults>>

\* A process dies or the plugin is reloaded: its memory is gone.
ProcessDies(p) ==
    /\ procDeaths < MaxProcDeaths /\ procDeaths' = procDeaths + 1
    /\ orphan' = (orphan \/ holder = p)
    /\ call' = [call EXCEPT ![p] = NoCall]
    /\ sessions' = {s \in sessions : s.proc # p}
    /\ failed' = [failed EXCEPT ![p] = Fresh0]
    /\ elapsed' = [elapsed EXCEPT ![p] = [n \in Names |-> 0]]
    /\ UNCHANGED <<accounts, holder, ids, wiped, readFaults, writeFaults>>

\* The lease of a dead holder runs out and its file is stolen.
LeaseRunsOut ==
    /\ orphan
    /\ orphan' = FALSE /\ holder' = Nobody
    /\ UNCHANGED <<accounts, ids, wiped, call, sessions, backoff, authFaults>>

AuthNext ==
    \/ \E p \in Procs : BeginCreate(p) \/ BeginLogin(p) \/ BeginChange(p)
    \/ \E p \in Procs : Create(p) \/ Login(p) \/ LoginFails(p) \/ Change(p) \/ Refused(p)
    \/ \E p \in Procs : ProcessDies(p)
    \/ \E s \in sessions : EndSession(s)
    \/ AuthTick \/ LeaseRunsOut

AuthSpec == AuthInit /\ [][AuthNext]_authVars

---------------------------------------------------------------------------
(* Properties.                                                             *)

\* As soon as there is an account there is an enabled owner, whatever sequence
\* of creations, demotions, disablings and role changes two processes perform,
\* failed reads included (LAST_OWNER_PROTECTED, webui_auth.py:313 and 325).
OwnerSurvives == accounts # Empty => Owners(accounts) # {}

\* No account disappears from the store by the work of two processes or the
\* death of one; only a write that follows a failed read replaces the others
\* (webui_auth.py:51 reads "nothing" then).
AccountsKept ==
    [][~wiped' => \A a \in Recorded(accounts) :
                     \E b \in Recorded(accounts') : b.id = a.id]_authVars

\* After a password is changed, no session that was opened with the old one is
\* left in the process that changed it, nor is one opened later with it.
OldPasswordsLockedOut ==
    ~wiped => \A s \in sessions, a \in Recorded(accounts) :
                 a.id = s.id /\ ~s.foreign => s.pw = a.pw

\* The k-th failure of a name in a row comes no sooner than the delays of the
\* k - 1 before it, 2, 4, 8, ...: what is tried while limited does not count.
GuessRate ==
    \A p \in Procs, n \in Names : failed[p][n].tries > 1 =>
        elapsed[p][n] >= MapThenSumSet(LAMBDA k : 2 ^ Min({k, MaxExponent}),
                                       1..(failed[p][n].tries - 1))
=============================================================================
