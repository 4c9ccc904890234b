---------------------------- MODULE WebuiProofs ----------------------------
(***************************************************************************)
(* What is proved of two components of the WebUI: the administrators and   *)
(* their sessions (WebuiAuth), for any number of processes, names, faults  *)
(* and deaths, and the actions of panels (WebuiPanels), for any number of  *)
(* callers, request ids, contents, records and timeouts.                   *)
(***************************************************************************)
EXTENDS WebuiAuth, WebuiPanels, FiniteSetTheorems, SequenceTheorems, WellFoundedInduction,
        TLAPS

---------------------------------------------------------------------------
(* Sums, as the folds of the library compute them.                         *)

\* What a fold over a set computes: it takes out an arbitrary element and adds
\* up.  A sum is the number of dots when every element has as many as it counts.
Chosen(S) == CHOOSE x \in S : TRUE
IsSum(it, w, D) ==
    it = [S \in SUBSET D |-> IF S = {} THEN 0 ELSE w[Chosen(S)] + it[S \ {Chosen(S)}]]
Dots(w, S) == UNION {{x} \X (1..w[x]) : x \in S}

\* A set of naturals has a least element.
LEMMA LeastOf ==
    ASSUME NEW T \in SUBSET Nat, T # {}
    PROVE  \E x \in T : \A y \in T : x <= y
<1>1. IsWellFoundedOn(OpToRel(<, Nat), Nat)
  BY NatLessThanWellFounded
<1>2. PICK x \in T : \A y \in T : ~ (<<y, x>> \in OpToRel(<, Nat))
  BY <1>1, WFMin, Zenon
<1>3. \A y \in T : ~(y < x)
  BY <1>2 DEF OpToRel
<1> QED
  BY <1>3

\* Dots are added one element at a time.
LEMMA DotsFacts ==
    ASSUME NEW D, IsFiniteSet(D), NEW w, \A x \in D : w[x] \in Nat
    PROVE  /\ Dots(w, {}) = {}
           /\ \A S \in SUBSET D : IsFiniteSet(Dots(w, S)) /\ Cardinality(Dots(w, S)) \in Nat
           /\ \A S \in SUBSET D : \A y \in D \ S :
                 Cardinality(Dots(w, S \cup {y})) = Cardinality(Dots(w, S)) + w[y]
<1>1. Dots(w, {}) = {}
  BY DEF Dots
<1>2. ASSUME NEW y \in D
      PROVE  /\ IsFiniteSet({y} \X (1..w[y])) /\ Cardinality({y} \X (1..w[y])) = w[y]
  <2>1. w[y] \in Nat
    BY <1>2
  <2>2. IsFiniteSet(1..w[y]) /\ Cardinality(1..w[y]) = w[y]
    BY <2>1, FS_Interval
  <2>3. IsFiniteSet({y}) /\ Cardinality({y}) = 1
    BY FS_Singleton
  <2> HIDE DEF Dots
  <2>4. /\ IsFiniteSet({y} \X (1..w[y]))
        /\ Cardinality({y} \X (1..w[y])) = Cardinality({y}) * Cardinality(1..w[y])
    BY <2>2, <2>3, FS_Product
  <2> QED
    BY <2>1, <2>2, <2>3, <2>4
<1>3. ASSUME NEW S \in SUBSET D PROVE IsFiniteSet(Dots(w, S))
  <2> DEFINE F == {{x} \X (1..w[x]) : x \in S}
  <2>1. IsFiniteSet(S)
    BY FS_Subset
  <2>2. IsFiniteSet(F)
    <3> DEFINE f == [x \in S |-> {x} \X (1..w[x])]
    <3>1. f \in Surjection(S, F)
      BY DEF Surjection
    <3> QED
      BY <2>1, <3>1, FS_Surjection, Zenon
  <2>3. \A T \in F : IsFiniteSet(T)
    BY <1>2
  <2> HIDE DEF F
  <2>4. IsFiniteSet(UNION F)
    BY <2>2, <2>3, FS_UNION
  <2> QED
    BY <2>4 DEF F, Dots
<1>4. ASSUME NEW S \in SUBSET D, NEW y \in D \ S
      PROVE  Cardinality(Dots(w, S \cup {y})) = Cardinality(Dots(w, S)) + w[y]
  <2> DEFINE A == Dots(w, S)
             B == {y} \X (1..w[y])
  <2>1. Dots(w, S \cup {y}) = A \cup B
    BY DEF Dots
  <2>2. A \cap B = {}
    BY DEF Dots
  <2>3. IsFiniteSet(A) /\ IsFiniteSet(B) /\ Cardinality(B) = w[y]
    BY <1>2, <1>3
  <2> HIDE DEF A, B
  <2>4. Cardinality(A \cup B) = Cardinality(A) + Cardinality(B) - Cardinality({})
    BY <2>2, <2>3, FS_Union
  <2>5. Cardinality(A) \in Nat /\ Cardinality({}) = 0 /\ w[y] \in Nat
    BY <2>3, FS_CardinalityType, FS_EmptySet
  <2>6. Cardinality(A \cup B) = Cardinality(A) + w[y]
    BY <2>3, <2>4, <2>5
  <2> QED
    BY <2>1, <2>6 DEF A
<1> QED
  BY <1>1, <1>3, <1>4, FS_CardinalityType

\* Whatever satisfies the recursion counts the dots ...
LEMMA SumIsDots ==
    ASSUME NEW D, IsFiniteSet(D), NEW w, \A x \in D : w[x] \in Nat, NEW it, IsSum(it, w, D)
    PROVE  it[D] = Cardinality(Dots(w, D))
<1> DEFINE Wrong == {S \in SUBSET D : it[S] # Cardinality(Dots(w, S))}
<1> SUFFICES ASSUME Wrong # {} PROVE FALSE
  OBVIOUS
<1>1. \A S \in SUBSET D : IsFiniteSet(S) /\ Cardinality(S) \in Nat
  BY FS_Subset, FS_CardinalityType
<1> DEFINE T == {Cardinality(S) : S \in Wrong}
<1>2. PICK S \in Wrong : \A R \in Wrong : Cardinality(S) <= Cardinality(R)
  <2>1. T \in SUBSET Nat /\ T # {}
    BY <1>1
  <2> HIDE DEF T
  <2>2. \E x \in T : \A y \in T : x <= y
    BY <2>1, LeastOf
  <2> QED
    BY <2>2 DEF T
<1>3. S # {}
  <2>1. it[{}] = 0
    BY DEF IsSum
  <2> QED
    BY <2>1, DotsFacts, FS_EmptySet
<1>4. Chosen(S) \in S
  BY <1>3 DEF Chosen
<1> DEFINE y == Chosen(S)
           R == S \ {y}
<1>5. it[S] = w[y] + it[R]
  BY <1>3 DEF IsSum
<1> HIDE DEF y
<1>6. y \in S
  BY <1>4 DEF y
<1>7. R \in SUBSET D /\ y \in D \ R /\ S = R \cup {y}
  BY <1>6
<1>8. Cardinality(R) = Cardinality(S) - 1
  BY <1>1, <1>6, FS_RemoveElement
<1>9. R \notin Wrong
  BY <1>1, <1>2, <1>7, <1>8
<1>10. it[R] = Cardinality(Dots(w, R))
  BY <1>7, <1>9
<1>11. Cardinality(Dots(w, R)) \in Nat /\ Cardinality(Dots(w, S)) = Cardinality(Dots(w, R)) + w[y]
  <2> HIDE DEF R
  <2>1. Cardinality(Dots(w, R)) \in Nat
    BY <1>7, DotsFacts
  <2>2. Cardinality(Dots(w, R \cup {y})) = Cardinality(Dots(w, R)) + w[y]
    BY <1>7, DotsFacts
  <2> QED
    BY <1>7, <2>1, <2>2
<1>12. w[y] \in Nat
  BY <1>6
<1> QED
  BY <1>5, <1>10, <1>11, <1>12

\* ... and counting them satisfies it.
LEMMA SumExists ==
    ASSUME NEW D, IsFiniteSet(D), NEW w, \A x \in D : w[x] \in Nat
    PROVE  \E it : IsSum(it, w, D)
<1> DEFINE it == [S \in SUBSET D |-> Cardinality(Dots(w, S))]
<1>1. ASSUME NEW S \in SUBSET D
      PROVE  it[S] = IF S = {} THEN 0 ELSE w[Chosen(S)] + it[S \ {Chosen(S)}]
  <2>1. CASE S = {}
    BY <2>1, DotsFacts, FS_EmptySet
  <2>2. CASE S # {}
    <3> DEFINE y == Chosen(S)
               R == S \ {y}
    <3>1. y \in S
      BY <2>2 DEF Chosen
    <3>2. R \in SUBSET D /\ y \in D \ R /\ S = R \cup {y}
      BY <3>1
    <3>3. it[S] = Cardinality(Dots(w, S)) /\ it[R] = Cardinality(Dots(w, R))
      BY <3>2
    <3> HIDE DEF y, R, it
    <3>4. /\ Cardinality(Dots(w, R)) \in Nat
          /\ Cardinality(Dots(w, R \cup {y})) = Cardinality(Dots(w, R)) + w[y]
      BY <3>2, DotsFacts
    <3>5. w[y] \in Nat
      BY <3>2
    <3>6. it[S] = w[y] + it[R]
      BY <3>2, <3>3, <3>4, <3>5
    <3> QED
      BY <2>2, <3>6 DEF y, R
  <2> QED
    BY <2>1, <2>2
<1>2. IsSum(it, w, D)
  BY <1>1 DEF IsSum
<1> QED
  BY <1>2

LEMMA SumDefined ==
    ASSUME NEW D, IsFiniteSet(D), NEW w, \A x \in D : w[x] \in Nat
    PROVE  (CHOOSE it : IsSum(it, w, D))[D] = Cardinality(Dots(w, D))
<1>1. IsSum(CHOOSE it : IsSum(it, w, D), w, D)
  BY SumExists, Zenon
<1> QED
  BY <1>1, SumIsDots

---------------------------------------------------------------------------
(* Administrators and sessions.                                            *)

\* The types of the store and of what is between a read and a write of it.
StoreTypeOK ==
    /\ accounts \in Admins
    /\ holder \in Procs \cup {Nobody} /\ orphan \in BOOLEAN /\ wiped \in BOOLEAN
    /\ call \in [Procs -> Call \cup {NoCall}]
    /\ ids \in 0..MaxIds

\* What an operation has read is what the store holds, or nothing after a read
\* that failed, for it alone holds the lease file, and is alive.
ReadsHold ==
    /\ orphan => holder # Nobody /\ \A p \in Procs : call[p] = NoCall
    /\ \A p \in Procs : call[p] # NoCall =>
          /\ holder = p
          /\ call[p].seen = IF call[p].ok THEN accounts ELSE Empty

StoreInv == StoreTypeOK /\ ReadsHold

LEMMA EmptyIsAdmins == Empty \in Admins
  BY DEF Empty, Admins

\* A record that was changed is a record, whether or not its new state is.
LEMMA ChangedIsAccount ==
    ASSUME NEW p \in Procs, NEW r \in Account, StoreTypeOK,
           Is(p, "change"), call[p].op.pw => r.pw < MaxPasswords
    PROVE  Changed(p, r) \in Account
<1>1. call[p] \in Call /\ call[p].op \in Request
  BY DEF StoreTypeOK, Is, Call
<1>2. /\ call[p].op.pw \in BOOLEAN
      /\ call[p].op.role \in {"owner", "admin", Keep}
      /\ call[p].op.enabled \in {"on", "off", Keep}
  BY <1>1 DEF Request, Is
<1>3. Switched(p, r) \in Account
  BY <1>2 DEF Switched, Account
<1>4. Switched(p, r).pw = r.pw
  BY DEF Switched, Account
<1> DEFINE s == Switched(p, r)
           role == IF call[p].op.role = Keep THEN s.role ELSE call[p].op.role
           pw == IF call[p].op.pw THEN s.pw + 1 ELSE s.pw
<1>5. role \in {"owner", "admin"}
  BY <1>2, <1>3 DEF Account
<1>6. pw \in 0..MaxPasswords
  <2>1. s.pw \in 0..MaxPasswords /\ MaxPasswords \in Nat
    BY <1>3, AuthAssumption DEF Account
  <2> QED
    BY <1>2, <1>4, <2>1
<1>7. Changed(p, r) = [s EXCEPT !.role = role, !.pw = pw]
  BY Zenon DEF Changed
<1> HIDE DEF s, role, pw
<1> QED
  BY <1>3, <1>5, <1>6, <1>7 DEF Account, s

---------------------------------------------------------------------------
\* Taking the lease file and reading.
LEMMA BeginKeepsStore ==
    ASSUME StoreInv, NEW p \in Procs, NEW op \in Request, Begin(p, op)
    PROVE  StoreInv'
<1>1. PICK seen \in Admins, ok \in BOOLEAN :
         /\ call' = [call EXCEPT ![p] = [op |-> op, seen |-> seen, ok |-> ok]]
         /\ seen = IF ok THEN accounts ELSE Empty
  BY EmptyIsAdmins DEF Begin, StoreInv, StoreTypeOK
<1>2. call[p] = NoCall /\ holder = Nobody /\ ~orphan
  BY DEF Begin, LockFree, StoreInv, ReadsHold
<1>3. holder' = p /\ UNCHANGED <<accounts, orphan, ids, wiped>>
  BY DEF Begin
<1>4. [op |-> op, seen |-> seen, ok |-> ok] \in Call
  BY DEF Call
<1>5. StoreTypeOK'
  BY <1>1, <1>3, <1>4 DEF StoreInv, StoreTypeOK
<1>6. \A q \in Procs : call[q] = NoCall
  BY <1>2, AuthAssumption DEF StoreInv, ReadsHold
<1>7. \A q \in Procs : call'[q] # NoCall =>
         q = p /\ call'[q] = [op |-> op, seen |-> seen, ok |-> ok]
  BY <1>1, <1>6 DEF StoreInv, StoreTypeOK
<1>8. ReadsHold'
  BY <1>1, <1>2, <1>3, <1>7 DEF ReadsHold
<1> QED
  BY <1>5, <1>8 DEF StoreInv

\* Releasing it, whatever was written.
LEMMA EndKeepsStore ==
    ASSUME StoreInv, NEW p \in Procs, call[p] # NoCall,
           call' = [call EXCEPT ![p] = NoCall], holder' = Nobody, orphan' = orphan,
           accounts' \in Admins, wiped' \in BOOLEAN, ids' \in 0..MaxIds
    PROVE  StoreInv'
<1>1. \A q \in Procs : call'[q] = NoCall
  BY DEF StoreInv, StoreTypeOK, ReadsHold
<1>2. ~orphan
  BY DEF StoreInv, ReadsHold
<1>3. StoreTypeOK'
  BY DEF StoreInv, StoreTypeOK
<1> QED
  BY <1>1, <1>2, <1>3 DEF StoreInv, ReadsHold

LEMMA SeenIsAdmins ==
    ASSUME StoreInv, NEW p \in Procs, call[p] # NoCall
    PROVE  /\ call[p].seen \in Admins /\ call[p].op \in Request /\ call[p].ok \in BOOLEAN
           /\ call[p].seen = IF call[p].ok THEN accounts ELSE Empty
  BY DEF StoreInv, StoreTypeOK, ReadsHold, Call

\* The account that a creation adds.
NewAccount(p) ==
    [id |-> ids + 1, enabled |-> TRUE, pw |-> 0,
     role |-> IF call[p].seen = Empty THEN "owner" ELSE call[p].op.role]

LEMMA CreateFacts ==
    ASSUME StoreInv, NEW p \in Procs, Create(p)
    PROVE  /\ call[p] # NoCall /\ call[p].op.name \in Names
           /\ call[p].seen[call[p].op.name] = NoAccount
           /\ NewAccount(p) \in Account
           /\ ids' = ids + 1 /\ ids' \in 0..MaxIds
           /\ accounts' = [call[p].seen EXCEPT ![call[p].op.name] = NewAccount(p)]
           /\ wiped' = (wiped \/ ~call[p].ok) /\ UNCHANGED sessions
<1>1. call[p] # NoCall /\ call[p].op.kind = "create"
  BY DEF Create, Is
<1>2. call[p].op \in Request /\ call[p].op.name \in Names
      /\ call[p].op.role \in {"owner", "admin"}
  BY <1>1, SeenIsAdmins DEF Request
<1>3. ids' = ids + 1 /\ ids' \in 1..MaxIds
  BY AuthAssumption DEF Create, StoreInv, StoreTypeOK
<1>4. NewAccount(p) \in Account
  BY <1>2, <1>3, AuthAssumption DEF NewAccount, Account
<1>5. accounts' = [call[p].seen EXCEPT ![call[p].op.name] = NewAccount(p)]
  BY <1>3 DEF Create, Write, NewAccount
<1> QED
  BY <1>1, <1>2, <1>3, <1>4, <1>5 DEF Create, Write, SeenAt

\* A change names one account and replaces it.
LEMMA ChangeFacts ==
    ASSUME StoreInv, NEW p \in Procs, Change(p)
    PROVE  /\ call[p] # NoCall /\ Is(p, "change") /\ UNCHANGED ids
           /\ wiped' = (wiped \/ ~call[p].ok)
           /\ \E n \in Names :
                 /\ call[p].seen[n] \in Account /\ Changed(p, call[p].seen[n]) \in Account
                 /\ ChangeAllowed(p, n)
                 /\ accounts' = [call[p].seen EXCEPT ![n] = Changed(p, call[p].seen[n])]
                 /\ sessions' = {Marked(s, p, Changed(p, call[p].seen[n]), call[p].op.pw) :
                       s \in sessions \ Dropped(p, Changed(p, call[p].seen[n]), call[p].op.pw)}
<1>1. call[p] # NoCall /\ Is(p, "change")
  BY DEF Change, Is
<1>2. PICK n \in Names :
         /\ call[p].seen[n] # NoAccount
         /\ ChangeAllowed(p, n) /\ (call[p].op.pw => call[p].seen[n].pw < MaxPasswords)
         /\ Write(p, [call[p].seen EXCEPT ![n] = Changed(p, call[p].seen[n])])
         /\ sessions' = {Marked(s, p, Changed(p, call[p].seen[n]), call[p].op.pw) :
               s \in sessions \ Dropped(p, Changed(p, call[p].seen[n]), call[p].op.pw)}
  BY DEF Change
<1>3. call[p].seen[n] \in Account
  BY <1>1, <1>2, SeenIsAdmins DEF Admins
<1>4. Changed(p, call[p].seen[n]) \in Account
  BY <1>1, <1>2, <1>3, ChangedIsAccount DEF StoreInv
<1> QED
  BY <1>1, <1>2, <1>3, <1>4 DEF Change, Write

---------------------------------------------------------------------------
LEMMA StoreInvariance == AuthSpec => []StoreInv
<1>1. AuthInit => StoreInv
  <2> SUFFICES ASSUME AuthInit PROVE StoreInv
    OBVIOUS
  <2>1. 0 \in 0..MaxIds
    BY AuthAssumption
  <2>2. call \in [Procs -> Call \cup {NoCall}] /\ \A p \in Procs : call[p] = NoCall
    BY DEF AuthInit
  <2> QED
    BY <2>1, <2>2, EmptyIsAdmins DEF AuthInit, StoreInv, StoreTypeOK, ReadsHold
<1>2. StoreInv /\ [AuthNext]_authVars => StoreInv'
  <2> SUFFICES ASSUME StoreInv, [AuthNext]_authVars PROVE StoreInv'
    OBVIOUS
  <2>1. ASSUME NEW p \in Procs, BeginCreate(p) PROVE StoreInv'
    BY <2>1, BeginKeepsStore DEF BeginCreate, Request
  <2>2. ASSUME NEW p \in Procs, BeginLogin(p) PROVE StoreInv'
    BY <2>2, BeginKeepsStore DEF BeginLogin, Request
  <2>3. ASSUME NEW p \in Procs, BeginChange(p) PROVE StoreInv'
    <3>1. 1..ids \subseteq 1..MaxIds
      BY AuthAssumption DEF StoreInv, StoreTypeOK
    <3> QED
      BY <2>3, <3>1, BeginKeepsStore DEF BeginChange, Request
  <2>4. ASSUME NEW p \in Procs, Create(p) PROVE StoreInv'
    <3>1. accounts' \in Admins /\ wiped' \in BOOLEAN
      BY <2>4, CreateFacts, SeenIsAdmins DEF Admins, StoreInv, StoreTypeOK
    <3> QED
      BY <2>4, <3>1, CreateFacts, EndKeepsStore DEF Create, Write, Release
  <2>5. ASSUME NEW p \in Procs, Login(p) PROVE StoreInv'
    <3>1. accounts' \in Admins /\ wiped' \in BOOLEAN /\ ids' = ids /\ call[p] # NoCall
      BY <2>5, SeenIsAdmins DEF Login, Is, Write, StoreInv, StoreTypeOK
    <3> QED
      BY <2>5, <3>1, EndKeepsStore DEF Login, Write, Release, StoreInv, StoreTypeOK
  <2>6. ASSUME NEW p \in Procs, LoginFails(p) PROVE StoreInv'
    BY <2>6, EndKeepsStore DEF LoginFails, Is, Release, StoreInv, StoreTypeOK
  <2>7. ASSUME NEW p \in Procs, Change(p) PROVE StoreInv'
    <3>1. accounts' \in Admins /\ wiped' \in BOOLEAN
      BY <2>7, ChangeFacts, SeenIsAdmins DEF Admins, StoreInv, StoreTypeOK
    <3> QED
      BY <2>7, <3>1, ChangeFacts, EndKeepsStore
      DEF Change, Write, Release, StoreInv, StoreTypeOK
  <2>8. ASSUME NEW p \in Procs, Refused(p) PROVE StoreInv'
    BY <2>8, EndKeepsStore DEF Refused, Is, Release, StoreInv, StoreTypeOK
  <2>9. ASSUME NEW p \in Procs, ProcessDies(p) PROVE StoreInv'
    <3>1. StoreTypeOK'
      BY <2>9 DEF ProcessDies, StoreInv, StoreTypeOK
    <3>2. ReadsHold'
      BY <2>9, AuthAssumption DEF ProcessDies, StoreInv, StoreTypeOK, ReadsHold
    <3> QED
      BY <3>1, <3>2 DEF StoreInv
  <2>10. ASSUME NEW s \in sessions, EndSession(s) PROVE StoreInv'
    BY <2>10 DEF EndSession, StoreInv, StoreTypeOK, ReadsHold, store
  <2>11. CASE AuthTick
    BY <2>11 DEF AuthTick, StoreInv, StoreTypeOK, ReadsHold, store
  <2>12. CASE LeaseRunsOut
    BY <2>12 DEF LeaseRunsOut, StoreInv, StoreTypeOK, ReadsHold
  <2>13. CASE UNCHANGED authVars
    BY <2>13 DEF authVars, store, StoreInv, StoreTypeOK, ReadsHold
  <2> QED
    BY <2>1, <2>2, <2>3, <2>4, <2>5, <2>6, <2>7, <2>8, <2>9, <2>10, <2>11, <2>12,
       <2>13 DEF AuthNext
<1> QED
  BY <1>1, <1>2, PTL DEF AuthSpec

\* Whatever is neither a creation, a change nor a login leaves the accounts.
LEMMA OnlyWrites ==
    ASSUME StoreInv, [AuthNext]_authVars,
           \A p \in Procs : ~Create(p) /\ ~Change(p)
    PROVE  \/ UNCHANGED <<accounts, wiped>>
           \/ \E p \in Procs : /\ call[p] # NoCall /\ accounts' = call[p].seen
                               /\ wiped' = (wiped \/ ~call[p].ok)
                               /\ \E n \in Names : call[p].seen[n] # NoAccount
<1>1. ASSUME NEW p \in Procs, Login(p)
      PROVE  call[p] # NoCall /\ \E n \in Names : call[p].seen[n] # NoAccount
  <2>1. call[p] # NoCall /\ call[p].op.name \in Names
    BY <1>1, SeenIsAdmins DEF Login, Is, Request
  <2> QED
    BY <1>1, <2>1 DEF Login, Valid, SeenAt
<1>2. ASSUME NEW p \in Procs, Login(p)
      PROVE  \/ UNCHANGED <<accounts, wiped>>
             \/ accounts' = call[p].seen /\ wiped' = (wiped \/ ~call[p].ok)
  BY <1>2 DEF Login, Write
<1>3. ASSUME NEW p \in Procs,
             BeginCreate(p) \/ BeginLogin(p) \/ BeginChange(p) \/ LoginFails(p)
                \/ Refused(p) \/ ProcessDies(p)
      PROVE  UNCHANGED <<accounts, wiped>>
  BY <1>3 DEF BeginCreate, BeginLogin, BeginChange, Begin, LoginFails, Refused, ProcessDies
<1>4. CASE \/ \E s \in sessions : EndSession(s)
           \/ AuthTick \/ LeaseRunsOut \/ UNCHANGED authVars
  BY <1>4 DEF EndSession, AuthTick, LeaseRunsOut, authVars, store
<1> QED
  BY <1>1, <1>2, <1>3, <1>4 DEF AuthNext

---------------------------------------------------------------------------
IsOwner(r) == r # NoAccount /\ r.role = "owner" /\ r.enabled

LEMMA OwnersAt ==
    ASSUME NEW a \in Admins
    PROVE  /\ \A n \in Names : IsOwner(a[n]) => a[n] \in Owners(a)
           /\ \A r \in Owners(a) : \E n \in Names : r = a[n] /\ IsOwner(r)
  BY DEF Owners, Recorded, IsOwner

\* What a change is allowed to do: an owner that has no other beside it stays
\* an enabled owner.
LEMMA SoleOwnerStays ==
    ASSUME StoreInv, NEW p \in Procs, Is(p, "change"), NEW n \in Names,
           call[p].seen[n] \in Account, Changed(p, call[p].seen[n]) \in Account,
           ChangeAllowed(p, n), IsOwner(call[p].seen[n]),
           \A m \in Names \ {n} : ~IsOwner(call[p].seen[m])
    PROVE  IsOwner(Changed(p, call[p].seen[n]))
<1> DEFINE seen == call[p].seen
           s == Switched(p, seen[n])
           b == [seen EXCEPT ![n] = s]
<1>1. seen \in Admins /\ call[p].op \in Request
  BY SeenIsAdmins DEF Is
<1>2. /\ call[p].op.pw \in BOOLEAN
      /\ call[p].op.role \in {"owner", "admin", Keep}
      /\ call[p].op.enabled \in {"on", "off", Keep}
  BY <1>1 DEF Request, Is
<1>3. Owners(seen) = {seen[n]}
  BY <1>1, OwnersAt
<1>4. Cardinality(Owners(seen)) = 1
  BY <1>3, FS_Singleton
<1>5. call[p].op.enabled # "off"
  BY <1>4 DEF ChangeAllowed, MayDisable, IsOwner
<1>6. s = seen[n]
  <2>1. s.enabled /\ seen[n].enabled /\ s = [seen[n] EXCEPT !.enabled = TRUE]
    BY <1>2, <1>5 DEF Switched, IsOwner, Account, Keep
  <2> QED
    BY <2>1 DEF Account
<1>7. b = seen
  BY <1>1, <1>6 DEF Admins
<1>8. call[p].op.role # "admin"
  <2>1. ASSUME call[p].op.role = "admin" PROVE Owners(b) \ {s} # {}
    BY <2>1, <1>6 DEF ChangeAllowed, MayDemote, IsOwner
  <2> QED
    BY <2>1, <1>3, <1>6, <1>7
<1>9. Changed(p, seen[n]).role = "owner" /\ Changed(p, seen[n]).enabled
  <2> HIDE DEF s, b
  <2>1. s \in Account /\ s.role = "owner" /\ s.enabled
    BY <1>6 DEF IsOwner
  <2>2. Changed(p, seen[n]).enabled = s.enabled
    BY <2>1 DEF Changed, Account, s
  <2>3. Changed(p, seen[n]).role = IF call[p].op.role = Keep THEN s.role ELSE call[p].op.role
    BY <2>1 DEF Changed, Account, s
  <2> QED
    BY <2>1, <2>2, <2>3, <1>2, <1>8 DEF Keep
<1> QED
  BY <1>9, NoAccountAssumption DEF IsOwner

\* OwnerSurvives for any number of processes, names and faults: while there is
\* an account there is an enabled owner.
THEOREM OwnerAlwaysSurvives == AuthSpec => []OwnerSurvives
<1>1. AuthInit => OwnerSurvives
  BY DEF AuthInit, OwnerSurvives
<1>2. StoreInv /\ OwnerSurvives /\ [AuthNext]_authVars => OwnerSurvives'
  <2> SUFFICES ASSUME StoreInv, OwnerSurvives, [AuthNext]_authVars, accounts' # Empty
               PROVE  Owners(accounts') # {}
    BY DEF OwnerSurvives, Owners, Recorded
  <2>1. \A m \in Names : Empty[m] = NoAccount
    BY DEF Empty
  <2>2. ASSUME NEW p \in Procs, Create(p) PROVE Owners(accounts') # {}
    <3> DEFINE n == call[p].op.name
    <3>1. /\ call[p].seen \in Admins /\ n \in Names /\ call[p].seen[n] = NoAccount
          /\ NewAccount(p) \in Account
          /\ accounts' = [call[p].seen EXCEPT ![n] = NewAccount(p)] /\ accounts' \in Admins
          /\ call[p].seen \in {accounts, Empty}
      BY <2>2, CreateFacts, SeenIsAdmins DEF Admins
    <3>2. CASE call[p].seen = Empty
      <4>1. IsOwner(NewAccount(p)) /\ accounts'[n] = NewAccount(p)
        BY <3>1, <3>2, NoAccountAssumption DEF NewAccount, IsOwner, Admins
      <4> QED
        BY <3>1, <4>1, OwnersAt
    <3>3. CASE call[p].seen # Empty
      <4>1. PICK m \in Names : IsOwner(accounts[m])
        BY <3>1, <3>3, OwnersAt DEF OwnerSurvives
      <4>2. accounts'[m] = accounts[m]
        BY <3>1, <3>3, <4>1 DEF IsOwner, Admins
      <4> QED
        BY <3>1, <4>1, <4>2, OwnersAt
    <3> QED
      BY <3>2, <3>3
  <2>3. ASSUME NEW p \in Procs, Change(p) PROVE Owners(accounts') # {}
    <3>1. PICK n \in Names :
             /\ call[p].seen[n] \in Account /\ Changed(p, call[p].seen[n]) \in Account
             /\ ChangeAllowed(p, n)
             /\ accounts' = [call[p].seen EXCEPT ![n] = Changed(p, call[p].seen[n])]
      BY <2>3, ChangeFacts
    <3>2. call[p].seen \in Admins /\ accounts' \in Admins /\ Is(p, "change")
      BY <2>3, <3>1, ChangeFacts, SeenIsAdmins DEF Admins
    <3>3. call[p].seen = accounts /\ accounts # Empty
      BY <2>1, <2>3, <3>1, ChangeFacts, SeenIsAdmins, NoAccountAssumption
    <3>4. PICK m \in Names : IsOwner(accounts[m])
      BY <3>2, <3>3, OwnersAt DEF OwnerSurvives
    <3>5. CASE \E k \in Names \ {n} : IsOwner(accounts[k])
      <4>1. PICK k \in Names \ {n} : IsOwner(accounts[k])
        BY <3>5
      <4>2. accounts'[k] = accounts[k]
        BY <3>1, <3>2, <3>3, <4>1 DEF Admins
      <4> QED
        BY <3>2, <4>1, <4>2, OwnersAt
    <3>6. CASE \A k \in Names \ {n} : ~IsOwner(accounts[k])
      <4>1. IsOwner(Changed(p, call[p].seen[n]))
        BY <3>1, <3>2, <3>3, <3>4, <3>6, SoleOwnerStays
      <4>2. accounts'[n] = Changed(p, call[p].seen[n])
        BY <3>1, <3>2 DEF Admins
      <4> QED
        BY <3>2, <4>1, <4>2, OwnersAt
    <3> QED
      BY <3>5, <3>6
  <2>4. CASE \A p \in Procs : ~Create(p) /\ ~Change(p)
    <3>1. accounts' = accounts
      BY <2>1, <2>4, OnlyWrites, SeenIsAdmins
    <3> QED
      BY <3>1 DEF OwnerSurvives
  <2> QED
    BY <2>2, <2>3, <2>4
<1> QED
  BY <1>1, <1>2, StoreInvariance, PTL DEF AuthSpec

\* AccountsKept: an operation that has read the store well takes no account out
\* of it.
THEOREM AccountsAlwaysKept == AuthSpec => AccountsKept
<1>1. StoreInv /\ [AuthNext]_authVars =>
         [~wiped' => \A a \in Recorded(accounts) :
                        \E b \in Recorded(accounts') : b.id = a.id]_authVars
  <2> SUFFICES ASSUME StoreInv, [AuthNext]_authVars, ~wiped', NEW n \in Names,
                      accounts[n] # NoAccount
               PROVE  \E m \in Names : accounts'[m] # NoAccount /\ accounts'[m].id = accounts[n].id
    BY DEF Recorded
  <2>1. \A m \in Names : Empty[m] = NoAccount
    BY DEF Empty
  <2>2. ASSUME NEW p \in Procs, Create(p) PROVE accounts'[n] = accounts[n]
    <3>1. /\ call[p].seen[call[p].op.name] = NoAccount /\ call[p].op.name \in Names
          /\ accounts' = [call[p].seen EXCEPT ![call[p].op.name] = NewAccount(p)]
          /\ call[p].ok
      BY <2>2, CreateFacts, SeenIsAdmins
    <3>2. call[p].seen = accounts /\ accounts \in Admins
      BY <2>2, <3>1, CreateFacts, SeenIsAdmins
    <3>3. n # call[p].op.name
      BY <3>1, <3>2
    <3> QED
      BY <3>1, <3>2, <3>3 DEF Admins
  <2>3. ASSUME NEW p \in Procs, Change(p)
        PROVE  accounts'[n] # NoAccount /\ accounts'[n].id = accounts[n].id
    <3>1. PICK m \in Names :
             /\ call[p].seen[m] \in Account /\ Changed(p, call[p].seen[m]) \in Account
             /\ accounts' = [call[p].seen EXCEPT ![m] = Changed(p, call[p].seen[m])]
      BY <2>3, ChangeFacts
    <3>2. call[p].seen = accounts /\ accounts \in Admins
      BY <2>3, ChangeFacts, SeenIsAdmins
    <3>3. Changed(p, call[p].seen[m]).id = call[p].seen[m].id
      BY <3>1 DEF Changed, Switched, Account
    <3> QED
      BY <3>1, <3>2, <3>3, NoAccountAssumption DEF Admins
  <2>4. CASE \A p \in Procs : ~Create(p) /\ ~Change(p)
    BY <2>1, <2>4, OnlyWrites, SeenIsAdmins
  <2> QED
    BY <2>2, <2>3, <2>4
<1> QED
  BY <1>1, StoreInvariance, PTL DEF AuthSpec, AccountsKept

---------------------------------------------------------------------------
\* Ids are given once, and what is in memory has one of them.
IdsGivenOnce ==
    /\ \A n, m \in Names : accounts[n] # NoAccount /\ accounts[m] # NoAccount
                             /\ accounts[n].id = accounts[m].id => n = m
    /\ \A n \in Names : accounts[n] # NoAccount => accounts[n].id <= ids
    /\ \A s \in sessions : s.id <= ids

\* What a session remembers of its account, by the account's name.
PasswordsMatch ==
    \A s \in sessions, n \in Names :
       accounts[n] # NoAccount /\ accounts[n].id = s.id /\ ~s.foreign => s.pw = accounts[n].pw

SessionInv == sessions \subseteq Session /\ (~wiped => IdsGivenOnce /\ PasswordsMatch)

LEMMA SessionsOnly ==
    ASSUME SessionInv, sessions' \subseteq sessions, UNCHANGED <<accounts, ids, wiped>>
    PROVE  SessionInv'
  BY DEF SessionInv, IdsGivenOnce, PasswordsMatch

LEMMA CreateKeepsSessions ==
    ASSUME StoreInv, SessionInv, NEW p \in Procs, Create(p)
    PROVE  SessionInv'
<1> SUFFICES ASSUME ~wiped' PROVE IdsGivenOnce' /\ PasswordsMatch'
  BY CreateFacts DEF SessionInv
<1> DEFINE n == call[p].op.name
<1>1. /\ n \in Names /\ call[p].seen = accounts /\ accounts \in Admins
      /\ NewAccount(p) \in Account /\ NewAccount(p).id = ids + 1 /\ ids' = ids + 1
      /\ accounts' = [accounts EXCEPT ![n] = NewAccount(p)] /\ UNCHANGED sessions
      /\ ~wiped /\ ids \in Nat
  <2>1. call[p] # NoCall /\ call[p].ok /\ ~wiped
    BY CreateFacts
  <2>2. call[p].seen = accounts /\ accounts \in Admins
    BY <2>1, SeenIsAdmins
  <2>3. ids \in Nat
    BY AuthAssumption DEF StoreInv, StoreTypeOK
  <2> QED
    BY <2>1, <2>2, <2>3, CreateFacts DEF NewAccount
<1>2. \A m \in Names : accounts'[m] = IF m = n THEN NewAccount(p) ELSE accounts[m]
  BY <1>1 DEF Admins
<1>3. \A m \in Names : accounts[m] # NoAccount => accounts[m].id \in Nat /\ accounts[m].id <= ids
  BY <1>1 DEF SessionInv, IdsGivenOnce, Admins, Account
<1>4. \A s \in sessions : s.id \in Nat /\ s.id <= ids
  BY <1>1 DEF SessionInv, IdsGivenOnce, Session
<1>5. IdsGivenOnce'
  <2>1. \A m \in Names : accounts'[m] # NoAccount => accounts'[m].id <= ids'
    BY <1>1, <1>2, <1>3
  <2>2. \A m, k \in Names : accounts'[m] # NoAccount /\ accounts'[k] # NoAccount
                            /\ accounts'[m].id = accounts'[k].id => m = k
    BY <1>1, <1>2, <1>3 DEF SessionInv, IdsGivenOnce
  <2> QED
    BY <1>1, <1>4, <2>1, <2>2 DEF IdsGivenOnce
<1>6. PasswordsMatch'
  BY <1>1, <1>2, <1>4 DEF SessionInv, PasswordsMatch
<1> QED
  BY <1>5, <1>6

LEMMA LoginKeepsSessions ==
    ASSUME StoreInv, SessionInv, NEW p \in Procs, Login(p)
    PROVE  SessionInv'
<1>1. CASE UNCHANGED <<accounts, wiped, sessions>>
  BY <1>1, SessionsOnly DEF Login
<1>2. CASE /\ accounts' = call[p].seen /\ wiped' = (wiped \/ ~call[p].ok)
           /\ sessions' = sessions \cup {[proc |-> p, id |-> SeenAt(p).id,
                                          pw |-> SeenAt(p).pw, foreign |-> FALSE]}
  <2> DEFINE n == call[p].op.name
             new == [proc |-> p, id |-> SeenAt(p).id, pw |-> SeenAt(p).pw, foreign |-> FALSE]
  <2>1. n \in Names /\ call[p].seen \in Admins /\ SeenAt(p) = call[p].seen[n]
    BY SeenIsAdmins DEF Login, Is, Request, SeenAt
  <2>2. SeenAt(p) \in Account
    BY <2>1 DEF Login, Valid, Admins
  <2>3. new \in Session
    BY <2>2 DEF Account, Session
  <2>4. ASSUME ~wiped' PROVE IdsGivenOnce' /\ PasswordsMatch'
    <3>1. call[p].seen = accounts /\ accounts' = accounts /\ ids' = ids /\ ~wiped
      BY <1>2, <2>4, SeenIsAdmins DEF Login, Is
    <3>2. accounts[n] \in Account /\ new.id = accounts[n].id /\ new.pw = accounts[n].pw
      BY <2>1, <2>2, <3>1
    <3>3. accounts[n] # NoAccount
      BY <3>2, NoAccountAssumption
    <3>4. IdsGivenOnce'
      BY <1>2, <2>1, <3>1, <3>2, <3>3 DEF SessionInv, IdsGivenOnce
    <3>5. PasswordsMatch'
      BY <1>2, <2>1, <3>1, <3>2, <3>3 DEF SessionInv, IdsGivenOnce, PasswordsMatch
    <3> QED
      BY <3>4, <3>5
  <2> QED
    BY <1>2, <2>3, <2>4 DEF SessionInv
<1> QED
  BY <1>1, <1>2 DEF Login, Write

\* A new password ends the sessions of its process and marks those of others.
LEMMA ChangeKeepsSessions ==
    ASSUME StoreInv, SessionInv, NEW p \in Procs, Change(p)
    PROVE  SessionInv'
<1>1. PICK n \in Names :
         /\ call[p].seen[n] \in Account /\ Changed(p, call[p].seen[n]) \in Account
         /\ accounts' = [call[p].seen EXCEPT ![n] = Changed(p, call[p].seen[n])]
         /\ sessions' = {Marked(s, p, Changed(p, call[p].seen[n]), call[p].op.pw) :
               s \in sessions \ Dropped(p, Changed(p, call[p].seen[n]), call[p].op.pw)}
  BY ChangeFacts
<1> DEFINE r == Changed(p, call[p].seen[n])
           pw == call[p].op.pw
<1>2. call[p].op.pw \in BOOLEAN /\ call[p].seen \in Admins
  BY ChangeFacts, SeenIsAdmins DEF Is, Request
<1>3. r.id = call[p].seen[n].id /\ (~pw => r.pw = call[p].seen[n].pw)
  BY <1>1, <1>2 DEF Changed, Switched, Account
<1> HIDE DEF r, pw
<1>4. ASSUME NEW s \in Session
      PROVE  /\ Marked(s, p, r, pw) \in Session
             /\ Marked(s, p, r, pw).id = s.id /\ Marked(s, p, r, pw).pw = s.pw
             /\ Marked(s, p, r, pw).foreign = (s.foreign \/ (pw /\ s.id = r.id /\ s.proc # p))
  BY DEF Marked, Session
<1>5. sessions' \subseteq Session
  BY <1>1, <1>4 DEF SessionInv, r, pw
<1>6. ASSUME ~wiped' PROVE IdsGivenOnce' /\ PasswordsMatch'
  <2>1. call[p].seen = accounts /\ accounts \in Admins /\ ids' = ids /\ ~wiped
    BY <1>2, <1>6, ChangeFacts, SeenIsAdmins
  <2>2. \A m \in Names : accounts'[m] = IF m = n THEN r ELSE accounts[m]
    BY <1>1, <2>1 DEF Admins, r
  <2>3. accounts[n] # NoAccount /\ r # NoAccount /\ r.id = accounts[n].id
    BY <1>1, <1>3, <2>1, NoAccountAssumption DEF r
  <2>4. \A t \in sessions' : \E s \in sessions \ Dropped(p, r, pw) : t = Marked(s, p, r, pw)
    BY <1>1 DEF r, pw
  <2>5. IdsGivenOnce'
    <3>1. \A t \in sessions' : t.id <= ids'
      BY <1>4, <2>1, <2>4 DEF SessionInv, IdsGivenOnce
    <3> QED
      BY <2>1, <2>2, <2>3, <3>1 DEF SessionInv, IdsGivenOnce
  <2>6. PasswordsMatch'
    <3> SUFFICES ASSUME NEW t \in sessions', NEW m \in Names, accounts'[m] # NoAccount,
                        accounts'[m].id = t.id, ~t.foreign
                 PROVE  t.pw = accounts'[m].pw
      BY DEF PasswordsMatch
    <3>1. PICK s \in sessions \ Dropped(p, r, pw) : t = Marked(s, p, r, pw)
      BY <2>4
    <3>2. s \in Session /\ t.id = s.id /\ t.pw = s.pw /\ ~s.foreign
          /\ ~(pw /\ s.id = r.id /\ s.proc # p)
      BY <1>4, <3>1 DEF SessionInv
    <3>3. CASE m = n
      <4>1. s.id = r.id /\ ~pw
        BY <2>2, <3>1, <3>2, <3>3 DEF Dropped
      <4>2. s.pw = accounts[n].pw
        BY <2>1, <2>3, <3>1, <3>2, <4>1 DEF SessionInv, PasswordsMatch
      <4> QED
        BY <1>3, <2>1, <2>2, <3>2, <3>3, <4>1, <4>2 DEF r
    <3>4. CASE m # n
      BY <2>1, <2>2, <3>1, <3>2, <3>4 DEF SessionInv, PasswordsMatch
    <3> QED
      BY <3>3, <3>4
  <2> QED
    BY <2>5, <2>6
<1> QED
  BY <1>5, <1>6 DEF SessionInv

LEMMA SessionInvariance == AuthSpec => []SessionInv
<1>1. AuthInit => SessionInv
  <2>1. ASSUME AuthInit, NEW n \in Names PROVE accounts[n] = NoAccount
    BY <2>1 DEF AuthInit, Empty
  <2> QED
    BY <2>1 DEF AuthInit, SessionInv, IdsGivenOnce, PasswordsMatch
<1>2. StoreInv /\ SessionInv /\ [AuthNext]_authVars => SessionInv'
  <2> SUFFICES ASSUME StoreInv, SessionInv, [AuthNext]_authVars PROVE SessionInv'
    OBVIOUS
  <2>1. ASSUME NEW p \in Procs, Create(p) \/ Login(p) \/ Change(p) PROVE SessionInv'
    BY <2>1, CreateKeepsSessions, LoginKeepsSessions, ChangeKeepsSessions
  <2>2. ASSUME NEW p \in Procs,
               BeginCreate(p) \/ BeginLogin(p) \/ BeginChange(p) \/ LoginFails(p)
                  \/ Refused(p) \/ ProcessDies(p)
        PROVE  sessions' \subseteq sessions /\ UNCHANGED <<accounts, ids, wiped>>
    BY <2>2 DEF BeginCreate, BeginLogin, BeginChange, Begin, LoginFails, Refused, ProcessDies
  <2>3. CASE \/ \E s \in sessions : EndSession(s)
             \/ AuthTick \/ LeaseRunsOut \/ UNCHANGED authVars
    <3>1. sessions' \subseteq sessions /\ UNCHANGED <<accounts, ids, wiped>>
      BY <2>3 DEF EndSession, AuthTick, LeaseRunsOut, authVars, store
    <3> QED
      BY <3>1, SessionsOnly
  <2> QED
    BY <2>1, <2>2, <2>3, SessionsOnly DEF AuthNext
<1> QED
  BY <1>1, <1>2, StoreInvariance, PTL DEF AuthSpec

\* OldPasswordsLockedOut: in the process that changed a password, every session
\* of the account was opened with the password it has now.
THEOREM OldPasswordsAlwaysLockedOut == AuthSpec => []OldPasswordsLockedOut
<1>1. SessionInv => OldPasswordsLockedOut
  BY DEF SessionInv, PasswordsMatch, OldPasswordsLockedOut, Recorded
<1> QED
  BY <1>1, SessionInvariance, PTL

---------------------------------------------------------------------------
(* The back-off of failed logins.                                          *)

\* The delays of so many failures in a row, as a fold and as a sum.
Delays(tries) == MapThenSumSet(LAMBDA k : 2 ^ Min({k, MaxExponent}), 1..tries)
DelayOf == [k \in Nat |-> Delay(k)]
IsDelaySum(it, D) ==
    it = [S \in SUBSET D |-> IF S = {} THEN 0
                             ELSE 2 ^ Min({Chosen(S), MaxExponent}) + it[S \ {Chosen(S)}]]

\* As many as there are sets of n things.
LEMMA PowerIsNat ==
    ASSUME NEW n \in Nat
    PROVE  2 ^ n \in Nat
<1>1. IsFiniteSet(1..n) /\ Cardinality(1..n) = n
  BY FS_Interval
<1>2. IsFiniteSet(SUBSET (1..n)) /\ Cardinality(SUBSET (1..n)) = 2 ^ Cardinality(1..n)
  BY <1>1, FS_SUBSET
<1>3. Cardinality(SUBSET (1..n)) \in Nat
  BY <1>2, FS_CardinalityType
<1> QED
  BY <1>1, <1>2, <1>3

\* The two forms of the delay, of the code and of the property, agree.
LEMMA DelayFacts ==
    ASSUME NEW k \in Nat
    PROVE  Delay(k) \in Nat /\ 2 ^ Min({k, MaxExponent}) = Delay(k) /\ DelayOf[k] = Delay(k)
<1> DEFINE e == IF k < MaxExponent THEN k ELSE MaxExponent
<1>1. MaxExponent \in Nat
  BY AuthAssumption
<1>2. e \in Nat /\ Delay(k) = 2 ^ e
  BY <1>1 DEF Delay
<1>3. Min({k, MaxExponent}) = e
  <2> DEFINE P(x) == \A y \in {k, MaxExponent} : x <= y
  <2>1. e \in {k, MaxExponent} /\ P(e)
    BY <1>1
  <2>2. \A x \in {k, MaxExponent} : P(x) => x = e
    BY <1>1
  <2> HIDE DEF e
  <2>3. (CHOOSE x \in {k, MaxExponent} : P(x)) = e
    BY <2>1, <2>2
  <2> QED
    BY <2>3 DEF Min
<1> HIDE DEF e
<1>4. 2 ^ e \in Nat
  BY <1>2, PowerIsNat
<1> QED
  BY <1>2, <1>3, <1>4 DEF DelayOf

LEMMA DelayOfFacts == \A k \in Nat : DelayOf[k] \in Nat /\ DelayOf[k] = Delay(k)
  BY DelayFacts

LEMMA UpToIsFinite == \A t \in Nat : IsFiniteSet(1..t)
  BY FS_Interval

LEMMA DelaysIsDots ==
    ASSUME NEW t \in Nat
    PROVE  Delays(t) = Cardinality(Dots(DelayOf, 1..t))
<1> DEFINE D == 1..t
<1>1. IsFiniteSet(D) /\ \A x \in D : x \in Nat /\ DelayOf[x] \in Nat
  BY UpToIsFinite, DelayOfFacts
<1>2. Delays(t) = (CHOOSE it : IsDelaySum(it, D))[D]
  BY DEF Delays, MapThenSumSet, MapThenFoldSet, IsDelaySum, Chosen
<1> HIDE DEF D
<1>3. ASSUME NEW it PROVE IsDelaySum(it, D) <=> IsSum(it, DelayOf, D)
  <2>1. ASSUME NEW S \in SUBSET D, S # {}
        PROVE  2 ^ Min({Chosen(S), MaxExponent}) = DelayOf[Chosen(S)]
    <3>1. Chosen(S) \in S
      BY <2>1 DEF Chosen
    <3>2. Chosen(S) \in Nat
      BY <1>1, <3>1
    <3> QED
      BY <3>2, DelayFacts
  <2>2. [S \in SUBSET D |-> IF S = {} THEN 0
                            ELSE 2 ^ Min({Chosen(S), MaxExponent}) + it[S \ {Chosen(S)}]]
        = [S \in SUBSET D |-> IF S = {} THEN 0
                              ELSE DelayOf[Chosen(S)] + it[S \ {Chosen(S)}]]
    BY <2>1
  <2> QED
    BY <2>2 DEF IsSum, IsDelaySum
<1>4. \E it : IsDelaySum(it, D)
  BY <1>1, <1>3, SumExists
<1>5. IsDelaySum(CHOOSE it : IsDelaySum(it, D), D)
  BY <1>4, Zenon
<1>6. IsSum(CHOOSE it : IsDelaySum(it, D), DelayOf, D)
  BY <1>3, <1>5
<1>7. Delays(t) = Cardinality(Dots(DelayOf, D))
  BY <1>1, <1>2, <1>6, SumIsDots
<1> QED
  BY <1>7 DEF D

LEMMA DelaysFacts ==
    /\ Delays(0) = 0
    /\ \A t \in Nat : Delays(t) \in Nat /\ Delays(t + 1) = Delays(t) + Delay(t + 1)
<1>1. Delays(0) = 0
  <2>1. 1..0 = {}
    OBVIOUS
  <2>2. Dots(DelayOf, {}) = {}
    BY DEF Dots
  <2>3. Cardinality({}) = 0
    BY FS_EmptySet
  <2>4. Delays(0) = Cardinality(Dots(DelayOf, 1..0))
    BY DelaysIsDots
  <2> QED
    BY <2>1, <2>2, <2>3, <2>4
<1>2. ASSUME NEW t \in Nat
      PROVE  Delays(t) \in Nat /\ Delays(t + 1) = Delays(t) + Delay(t + 1)
  <2> DEFINE D == 1..(t + 1)
             S == 1..t
  <2>1. S \in SUBSET D /\ t + 1 \in D \ S /\ S \cup {t + 1} = D
    OBVIOUS
  <2>2. IsFiniteSet(D)
    <3>1. t + 1 \in Nat
      OBVIOUS
    <3> QED
      BY <3>1, UpToIsFinite
  <2>3. \A x \in D : DelayOf[x] \in Nat
    BY DelayOfFacts
  <2>4. Delays(t) = Cardinality(Dots(DelayOf, S)) /\ Delays(t + 1) = Cardinality(Dots(DelayOf, D))
    BY DelaysIsDots
  <2>5. DelayOf[t + 1] = Delay(t + 1)
    <3>1. t + 1 \in Nat
      OBVIOUS
    <3> QED
      BY <3>1, DelayOfFacts
  <2> HIDE DEF D, S
  <2>6. /\ Cardinality(Dots(DelayOf, S)) \in Nat
        /\ Cardinality(Dots(DelayOf, S \cup {t + 1}))
             = Cardinality(Dots(DelayOf, S)) + DelayOf[t + 1]
    BY <2>1, <2>2, <2>3, DotsFacts
  <2> QED
    BY <2>1, <2>4, <2>5, <2>6
<1> QED
  BY <1>1, <1>2

RateTyped ==
    /\ failed \in [Procs -> [Names -> [tries : 0..MaxTries, wait : Nat]]]
    /\ elapsed \in [Procs -> [Names -> Nat]]

\* What a name has waited and has still to wait is at least the delays of its
\* failures, of which the last is what it may still have to wait; a login is
\* under way only when there is nothing left to wait.
Rate(tries, wait, time) ==
    /\ time + wait >= Delays(tries)
    /\ wait <= IF tries = 0 THEN 0 ELSE Delay(tries)
RateInv ==
    /\ RateTyped
    /\ \A p \in Procs, n \in Names : Rate(failed[p][n].tries, failed[p][n].wait, elapsed[p][n])
    /\ \A p \in Procs : Is(p, "login") =>
          LET f == failed[p][call[p].op.name] IN f.wait = 0 /\ f.tries < MaxTries

LEMMA RateOfNone == Rate(0, 0, 0)
  BY DelaysFacts DEF Rate

\* A tick, and a failure when there was nothing to wait.
LEMMA RateSteps ==
    ASSUME NEW t \in Nat, NEW w \in Nat, NEW e \in Nat, Rate(t, w, e)
    PROVE  /\ w > 0 => Rate(t, w - 1, e + 1)
           /\ w = 0 => Rate(t + 1, Delay(t + 1), e)
           /\ t > 1 => e >= Delays(t - 1)
<1>1. Delays(t) \in Nat /\ Delays(t + 1) = Delays(t) + Delay(t + 1)
  BY DelaysFacts
<1>2. Delay(t) \in Nat /\ Delay(t + 1) \in Nat
  <2>1. t + 1 \in Nat
    OBVIOUS
  <2> QED
    BY <2>1, DelayFacts
<1>3. w > 0 => Rate(t, w - 1, e + 1)
  BY <1>1, <1>2 DEF Rate
<1>4. w = 0 => Rate(t + 1, Delay(t + 1), e)
  BY <1>1, <1>2 DEF Rate
<1>5. ASSUME t > 1 PROVE e >= Delays(t - 1)
  <2>1. t - 1 \in Nat /\ (t - 1) + 1 = t
    BY <1>5
  <2>2. Delays(t - 1) \in Nat /\ Delays(t) = Delays(t - 1) + Delay(t)
    BY <2>1, DelaysFacts
  <2> QED
    BY <1>2, <1>5, <2>2 DEF Rate
<1> QED
  BY <1>3, <1>4, <1>5

\* What keeps the times keeps the rate, if a login that begins has nothing to
\* wait.
LEMMA TimesKept ==
    ASSUME RateInv, UNCHANGED backoff,
           \A p \in Procs : Is(p, "login")' =>
               \/ Is(p, "login") /\ call'[p] = call[p]
               \/ LET f == failed[p][call'[p].op.name] IN f.wait = 0 /\ f.tries < MaxTries
    PROVE  RateInv'
<1>1. failed' = failed /\ elapsed' = elapsed
  BY DEF backoff
<1>2. RateTyped'
  BY <1>1 DEF RateInv, RateTyped
<1>3. \A p \in Procs, n \in Names :
         Rate(failed'[p][n].tries, failed'[p][n].wait, elapsed'[p][n])
  BY <1>1 DEF RateInv
<1>4. ASSUME NEW p \in Procs, Is(p, "login")'
      PROVE  LET f == failed[p][call'[p].op.name] IN f.wait = 0 /\ f.tries < MaxTries
  BY <1>4 DEF RateInv
<1> QED
  BY <1>1, <1>2, <1>3, <1>4 DEF RateInv

\* A limited name is refused before it counts.
LEMMA LoginBegins ==
    ASSUME StoreInv, RateInv, NEW p \in Procs, BeginLogin(p)
    PROVE  RateInv'
<1>1. PICK n \in Names, good \in BOOLEAN :
         /\ ~Limited(p, n) /\ failed[p][n].tries < MaxTries
         /\ Begin(p, [kind |-> "login", name |-> n, good |-> good])
  BY DEF BeginLogin
<1> DEFINE op == [kind |-> "login", name |-> n, good |-> good]
<1>2. \E c : c.op = op /\ call' = [call EXCEPT ![p] = c]
  <2> HIDE DEF op
  <2> QED
    BY <1>1 DEF Begin, op
<1>3. PICK c : c.op = op /\ call' = [call EXCEPT ![p] = c]
  BY <1>2
<1>4. failed[p][n].wait = 0
  BY <1>1 DEF Limited, RateInv, RateTyped
<1>5. call'[p].op.name = n /\ \A q \in Procs \ {p} : call'[q] = call[q]
  BY <1>3 DEF StoreInv, StoreTypeOK
<1>6. UNCHANGED backoff
  BY <1>1 DEF Begin
<1>7. \A q \in Procs \ {p} : Is(q, "login")' => Is(q, "login")
  BY <1>5 DEF Is
<1> HIDE DEF op
<1> QED
  BY <1>1, <1>4, <1>5, <1>6, <1>7, TimesKept

\* A success ends the back-off of its name, and of no other.
LEMMA LoginEnds ==
    ASSUME StoreInv, RateInv, NEW p \in Procs, Login(p)
    PROVE  RateInv'
<1> DEFINE n == call[p].op.name
<1>1. /\ failed' = [failed EXCEPT ![p][n] = [tries |-> 0, wait |-> 0]]
      /\ elapsed' = [elapsed EXCEPT ![p][n] = 0]
      /\ call' = [call EXCEPT ![p] = NoCall]
  BY DEF Login, BackoffEnds, Write, Release
<1>2. n \in Names
  BY SeenIsAdmins DEF Login, Is, Request
<1> HIDE DEF n
<1>3. RateTyped'
  BY <1>1, <1>2, AuthAssumption DEF RateInv, RateTyped
<1>4. ASSUME NEW q \in Procs, NEW m \in Names
      PROVE  Rate(failed'[q][m].tries, failed'[q][m].wait, elapsed'[q][m])
  <2>1. CASE q = p /\ m = n
    <3>1. failed'[q][m] = [tries |-> 0, wait |-> 0] /\ elapsed'[q][m] = 0
      BY <1>1, <1>2, <2>1 DEF RateInv, RateTyped
    <3> QED
      BY <3>1, RateOfNone
  <2>2. CASE ~(q = p /\ m = n)
    <3>1. failed'[q][m] = failed[q][m] /\ elapsed'[q][m] = elapsed[q][m]
      BY <1>1, <1>2, <2>2 DEF RateInv, RateTyped
    <3> QED
      BY <3>1 DEF RateInv
  <2> QED
    BY <2>1, <2>2
<1>5. ASSUME NEW q \in Procs, Is(q, "login")'
      PROVE  LET f == failed'[q][call'[q].op.name] IN f.wait = 0 /\ f.tries < MaxTries
  <2>1. q # p /\ call'[q] = call[q] /\ failed'[q] = failed[q]
    BY <1>1, <1>5 DEF Is, StoreInv, StoreTypeOK, RateInv, RateTyped
  <2>2. Is(q, "login")
    BY <1>5, <2>1 DEF Is
  <2> QED
    BY <2>1, <2>2 DEF RateInv
<1> QED
  BY <1>3, <1>4, <1>5 DEF RateInv

\* A failure is counted when there was nothing left to wait.
LEMMA FailureCounts ==
    ASSUME StoreInv, RateInv, NEW p \in Procs, LoginFails(p)
    PROVE  RateInv'
<1> DEFINE n == call[p].op.name
           tries == failed[p][n].tries + 1
<1>1. /\ failed' = [failed EXCEPT ![p][n] = [tries |-> tries, wait |-> Delay(tries)]]
      /\ elapsed' = elapsed
      /\ call' = [call EXCEPT ![p] = NoCall]
  BY DEF LoginFails, Release
<1>2. n \in Names
  BY SeenIsAdmins DEF LoginFails, Is, Request
<1>3. failed[p][n].wait = 0 /\ failed[p][n].tries < MaxTries
  BY DEF LoginFails, RateInv
<1> HIDE DEF n
<1>4. failed[p][n] \in [tries : 0..MaxTries, wait : Nat] /\ elapsed[p][n] \in Nat
  BY <1>2 DEF RateInv, RateTyped
<1>5. failed[p][n].tries \in Nat /\ tries \in Nat /\ tries \in 0..MaxTries
  BY <1>3, <1>4, AuthAssumption
<1>6. Delay(tries) \in Nat
  BY <1>5, DelayFacts
<1>7. Rate(failed[p][n].tries, failed[p][n].wait, elapsed[p][n])
  BY <1>2 DEF RateInv
<1>8. Rate(tries, Delay(tries), elapsed[p][n])
  BY <1>3, <1>4, <1>5, <1>7, RateSteps
<1> HIDE DEF tries
<1>9. RateTyped'
  BY <1>1, <1>2, <1>5, <1>6 DEF RateInv, RateTyped
<1>10. ASSUME NEW q \in Procs, NEW m \in Names
       PROVE  Rate(failed'[q][m].tries, failed'[q][m].wait, elapsed'[q][m])
  <2>1. CASE q = p /\ m = n
    <3>1. failed'[q][m] = [tries |-> tries, wait |-> Delay(tries)] /\ elapsed'[q][m] = elapsed[p][n]
      BY <1>1, <1>2, <2>1 DEF RateInv, RateTyped
    <3> QED
      BY <1>8, <3>1
  <2>2. CASE ~(q = p /\ m = n)
    <3>1. failed'[q][m] = failed[q][m] /\ elapsed'[q][m] = elapsed[q][m]
      BY <1>1, <1>2, <2>2 DEF RateInv, RateTyped
    <3> QED
      BY <3>1 DEF RateInv
  <2> QED
    BY <2>1, <2>2
<1>11. ASSUME NEW q \in Procs, Is(q, "login")'
       PROVE  LET f == failed'[q][call'[q].op.name] IN f.wait = 0 /\ f.tries < MaxTries
  <2>1. q # p /\ call'[q] = call[q] /\ failed'[q] = failed[q]
    BY <1>1, <1>11 DEF Is, StoreInv, StoreTypeOK, RateInv, RateTyped
  <2>2. Is(q, "login")
    BY <1>11, <2>1 DEF Is
  <2> QED
    BY <2>1, <2>2 DEF RateInv
<1> QED
  BY <1>9, <1>10, <1>11 DEF RateInv

\* What a tick takes from the wait it adds to the time.
LEMMA TimePasses ==
    ASSUME StoreInv, RateInv, AuthTick
    PROVE  RateInv'
<1>1. \A p \in Procs : ~Is(p, "login")'
  BY DEF AuthTick, Is
<1>2. ASSUME NEW p \in Procs, NEW n \in Names
      PROVE  /\ failed'[p][n] \in [tries : 0..MaxTries, wait : Nat] /\ elapsed'[p][n] \in Nat
             /\ Rate(failed'[p][n].tries, failed'[p][n].wait, elapsed'[p][n])
  <2> DEFINE f == failed[p][n]
             e == elapsed[p][n]
  <2>1. /\ failed'[p][n] = [f EXCEPT !.wait = IF f.wait > 0 THEN f.wait - 1 ELSE 0]
        /\ elapsed'[p][n] = IF f.wait > 0 THEN e + 1 ELSE e
    BY DEF AuthTick
  <2>2. f \in [tries : 0..MaxTries, wait : Nat] /\ e \in Nat /\ Rate(f.tries, f.wait, e)
    BY DEF RateInv, RateTyped
  <2> HIDE DEF f, e
  <2>3. f.tries \in Nat /\ f.wait \in Nat
    BY <2>2
  <2>4. f.wait > 0 => Rate(f.tries, f.wait - 1, e + 1)
    BY <2>2, <2>3, RateSteps
  <2> QED
    BY <2>1, <2>2, <2>3, <2>4
<1>3. /\ failed' = [p \in Procs |-> [n \in Names |-> failed'[p][n]]]
      /\ elapsed' = [p \in Procs |-> [n \in Names |-> elapsed'[p][n]]]
  BY DEF AuthTick
<1>4. RateTyped'
  BY <1>2, <1>3 DEF RateTyped
<1> QED
  BY <1>1, <1>2, <1>4 DEF RateInv

\* A death forgets the failures and the time together.
LEMMA DeathForgets ==
    ASSUME StoreInv, RateInv, NEW p \in Procs, ProcessDies(p)
    PROVE  RateInv'
<1>1. /\ failed' = [failed EXCEPT ![p] = Fresh0]
      /\ elapsed' = [elapsed EXCEPT ![p] = [n \in Names |-> 0]]
      /\ call' = [call EXCEPT ![p] = NoCall]
  BY DEF ProcessDies
<1>2. 0 \in 0..MaxTries
  BY AuthAssumption
<1>3. RateTyped'
  BY <1>1, <1>2 DEF RateInv, RateTyped, Fresh0
<1>4. ASSUME NEW q \in Procs, NEW n \in Names
      PROVE  Rate(failed'[q][n].tries, failed'[q][n].wait, elapsed'[q][n])
  <2>1. CASE q = p
    <3>1. failed'[q][n] = [tries |-> 0, wait |-> 0] /\ elapsed'[q][n] = 0
      BY <1>1, <2>1 DEF Fresh0, RateInv, RateTyped
    <3> QED
      BY <3>1, RateOfNone
  <2>2. CASE q # p
    <3>1. failed'[q] = failed[q] /\ elapsed'[q] = elapsed[q]
      BY <1>1, <2>2 DEF RateInv, RateTyped
    <3> QED
      BY <3>1 DEF RateInv
  <2> QED
    BY <2>1, <2>2
<1>5. ASSUME NEW q \in Procs, Is(q, "login")'
      PROVE  LET f == failed'[q][call'[q].op.name] IN f.wait = 0 /\ f.tries < MaxTries
  <2>1. q # p /\ call'[q] = call[q] /\ failed'[q] = failed[q]
    BY <1>1, <1>5 DEF Is, StoreInv, StoreTypeOK, RateInv, RateTyped
  <2>2. Is(q, "login")
    BY <1>5, <2>1 DEF Is
  <2> QED
    BY <2>1, <2>2 DEF RateInv
<1> QED
  BY <1>3, <1>4, <1>5 DEF RateInv

LEMMA RateInvariance == AuthSpec => []RateInv
<1>1. AuthInit => RateInv
  <2> SUFFICES ASSUME AuthInit PROVE RateInv
    OBVIOUS
  <2>1. 0 \in 0..MaxTries
    BY AuthAssumption
  <2>2. \A p \in Procs, n \in Names :
           failed[p][n] = [tries |-> 0, wait |-> 0] /\ elapsed[p][n] = 0
    BY DEF AuthInit, Fresh0
  <2>3. RateTyped
    BY <2>1 DEF AuthInit, RateTyped, Fresh0
  <2>4. \A p \in Procs : ~Is(p, "login")
    BY DEF AuthInit, Is
  <2> QED
    BY <2>2, <2>3, <2>4, RateOfNone DEF RateInv
<1>2. StoreInv /\ RateInv /\ [AuthNext]_authVars => RateInv'
  <2> SUFFICES ASSUME StoreInv, RateInv, [AuthNext]_authVars PROVE RateInv'
    OBVIOUS
  <2>1. ASSUME NEW p \in Procs, BeginCreate(p) \/ BeginChange(p) PROVE RateInv'
    <3>1. PICK op : op.kind # "login" /\ Begin(p, op)
      <4>1. ASSUME NEW n \in Names, NEW r \in {"owner", "admin"},
                   Begin(p, [kind |-> "create", name |-> n, role |-> r])
            PROVE  \E op : op.kind # "login" /\ Begin(p, op)
        <5>1. [kind |-> "create", name |-> n, role |-> r].kind # "login"
          OBVIOUS
        <5> QED
          BY <4>1, <5>1, Zenon
      <4>2. ASSUME NEW id, NEW w, NEW r, NEW e,
                   Begin(p, [kind |-> "change", id |-> id, pw |-> w, role |-> r, enabled |-> e])
            PROVE  \E op : op.kind # "login" /\ Begin(p, op)
        <5>1. [kind |-> "change", id |-> id, pw |-> w, role |-> r, enabled |-> e].kind # "login"
          OBVIOUS
        <5> QED
          BY <4>2, <5>1, Zenon
      <4> QED
        BY <2>1, <4>1, <4>2, Zenon DEF BeginCreate, BeginChange
    <3>2. PICK c : c.op = op /\ call' = [call EXCEPT ![p] = c]
      <4>1. \E c : c.op = op /\ call' = [call EXCEPT ![p] = c]
        BY <3>1 DEF Begin
      <4> QED
        BY <4>1
    <3>3. call'[p].op.kind # "login" /\ \A q \in Procs \ {p} : call'[q] = call[q]
      BY <3>1, <3>2 DEF StoreInv, StoreTypeOK
    <3>4. UNCHANGED backoff
      BY <3>1 DEF Begin
    <3>5. \A q \in Procs : Is(q, "login")' => Is(q, "login") /\ call'[q] = call[q]
      BY <3>3 DEF Is
    <3> QED
      BY <3>4, <3>5, TimesKept
  <2>2. ASSUME NEW p \in Procs, Create(p) \/ Change(p) \/ Refused(p) PROVE RateInv'
    <3>1. call' = [call EXCEPT ![p] = NoCall] /\ UNCHANGED backoff
      BY <2>2 DEF Create, Change, Refused, Write, Release
    <3>2. \A q \in Procs : Is(q, "login")' => Is(q, "login") /\ call'[q] = call[q]
      BY <3>1 DEF Is, StoreInv, StoreTypeOK
    <3> QED
      BY <3>1, <3>2, TimesKept
  <2>3. CASE \/ \E s \in sessions : EndSession(s)
             \/ LeaseRunsOut \/ UNCHANGED authVars
    <3>1. call' = call /\ UNCHANGED backoff
      BY <2>3 DEF EndSession, LeaseRunsOut, authVars
    <3>2. \A q \in Procs : Is(q, "login")' => Is(q, "login") /\ call'[q] = call[q]
      BY <3>1 DEF Is
    <3> QED
      BY <3>1, <3>2, TimesKept
  <2> QED
    BY <2>1, <2>2, <2>3, LoginBegins, LoginEnds, FailureCounts, TimePasses, DeathForgets
    DEF AuthNext
<1> QED
  BY <1>1, <1>2, StoreInvariance, PTL DEF AuthSpec

\* GuessRate for any number of processes, names, tries and faults: the k-th
\* failure in a row comes no sooner than the k - 1 delays before it.
THEOREM GuessesAlwaysSlowed == AuthSpec => []GuessRate
<1>1. ASSUME RateInv, NEW p \in Procs, NEW n \in Names, failed[p][n].tries > 1
      PROVE  elapsed[p][n] >= Delays(failed[p][n].tries - 1)
  <2>1. /\ failed[p][n] \in [tries : 0..MaxTries, wait : Nat] /\ elapsed[p][n] \in Nat
        /\ Rate(failed[p][n].tries, failed[p][n].wait, elapsed[p][n])
    BY <1>1 DEF RateInv, RateTyped
  <2>2. failed[p][n].tries \in Nat /\ failed[p][n].wait \in Nat
    BY <2>1
  <2> QED
    BY <1>1, <2>1, <2>2, RateSteps
<1>2. RateInv => GuessRate
  BY <1>1 DEF GuessRate, Delays
<1> QED
  BY <1>2, RateInvariance, PTL

\* AuthTypeOK: what an operation has read, the sessions, the counted failures
\* and their waits have their types, through failed reads and deaths.
THEOREM AuthAlwaysTyped == AuthSpec => []AuthTypeOK
<1>1. StoreInv /\ SessionInv /\ RateInv => AuthTypeOK
  BY DEF StoreInv, StoreTypeOK, SessionInv, RateInv, RateTyped, AuthTypeOK
<1> QED
  BY <1>1, StoreInvariance, SessionInvariance, RateInvariance, PTL

---------------------------------------------------------------------------
(* Actions of panels.                                                      *)

\* The entry of a call.
Pair(c) == <<action[c].id, action[c].content>>

PanelsTyped ==
    /\ action = [c \in Callers |-> action[c]]
    /\ \A c \in Callers : action[c].pc # "busy" \/
          action[c] \in [pc : {"busy"}, id : RequestIds, content : Contents, applied : BOOLEAN]
    /\ inflight \subseteq Entry /\ stuck \subseteq Entry
    /\ records \in Seq(Entry)
    /\ threads \in [RequestIds -> Nat] /\ effects \in [RequestIds -> Nat]

\* The calls in flight have an entry each, and the others none; a call has
\* neither the entry of a cancelled one nor a record.
BusyAlone ==
    \A c \in Callers : Busy(c) => Pair(c) \notin stuck /\ ~Answered(action[c].id)

PanelsInv == PanelsTyped /\ EntriesOwned /\ BusyAlone

\* An effect that nobody was told of, or that may still come, belongs to an id
\* that cannot begin again.
Spent(k) ==
    \/ Answered(k)
    \/ \E e \in stuck : e[1] = k
    \/ \E c \in Callers : Busy(c) /\ action[c].id = k /\ action[c].applied
OnceInv == \A k \in RequestIds :
    k \notin excused => effects[k] + threads[k] = 0 \/ (effects[k] + threads[k] = 1 /\ Spent(k))

---------------------------------------------------------------------------
\* A busy call has its entry, and no other entry has its request id.
LEMMA OwnEntry ==
    ASSUME PanelsInv, NEW c \in Callers, Busy(c)
    PROVE  /\ Pair(c) \in inflight /\ Pair(c) \in Entry
           /\ \A e \in inflight : e[1] = action[c].id => e = Pair(c)
           /\ \A e \in stuck : e[1] # action[c].id
           /\ \A d \in Callers : Busy(d) /\ action[d].id = action[c].id => d = c
<1>1. Pair(c) \in inflight /\ Pair(c) \in Entry /\ Pair(c)[1] = action[c].id
  BY DEF PanelsInv, PanelsTyped, EntriesOwned, Busy, Pair, Entry
<1>2. \A e \in inflight : e[1] = action[c].id => e = Pair(c)
  BY <1>1 DEF PanelsInv, EntriesOwned
<1>3. \A e \in stuck : e[1] # action[c].id
  BY <1>2 DEF PanelsInv, EntriesOwned, BusyAlone
<1> QED
  BY <1>1, <1>2, <1>3 DEF PanelsInv, EntriesOwned

\* A call ends: its entry goes, or stays as that of a cancelled call.
LEMMA CallEnds ==
    ASSUME PanelsInv, NEW c \in Callers, Busy(c), Rest(c),
           \/ inflight' = inflight \ {Pair(c)} /\ UNCHANGED stuck
           \/ UNCHANGED inflight /\ stuck' = stuck \cup {Pair(c)}
    PROVE  /\ EntriesOwned'
           /\ inflight' \subseteq Entry /\ stuck' \subseteq Entry
           /\ action' = [d \in Callers |-> action'[d]]
           /\ \A d \in Callers : Busy(d)' <=> Busy(d) /\ d # c
           /\ \A d \in Callers : Busy(d)' => action'[d] = action[d] /\ Pair(d)' \notin stuck'
<1>1. \A d \in Callers : action'[d] = IF d = c THEN Resting ELSE action[d]
  BY DEF Rest, PanelsInv, PanelsTyped
<1>2. action' = [d \in Callers |-> action'[d]]
  BY DEF Rest, PanelsInv, PanelsTyped
<1>3. \A d \in Callers : Busy(d)' <=> Busy(d) /\ d # c
  <2>1. Resting.pc # "busy"
    BY DEF Resting
  <2> QED
    BY <1>1, <2>1 DEF Busy
<1>4. \A d \in Callers : Busy(d)' => action'[d] = action[d] /\ Pair(d)' = Pair(d)
  BY <1>1, <1>3 DEF Pair
<1>5. \A d \in Callers : Busy(d) /\ d # c => Pair(d)[1] # Pair(c)[1] /\ Pair(d) # Pair(c)
  BY OwnEntry DEF Pair
<1>6. \A d \in Callers : Busy(d)' => Pair(d)' \notin stuck'
  BY <1>3, <1>4, <1>5 DEF PanelsInv, BusyAlone
<1>7. inflight' = stuck' \cup {Pair(d)' : d \in {q \in Callers : Busy(q)'}}
  <2>1. {Pair(d)' : d \in {q \in Callers : Busy(q)'}}
        = {Pair(d) : d \in {q \in Callers : Busy(q)}} \ {Pair(c)}
    BY <1>3, <1>4, <1>5
  <2>2. inflight = stuck \cup {Pair(d) : d \in {q \in Callers : Busy(q)}}
    BY DEF PanelsInv, EntriesOwned, Pair
  <2>3. Pair(c) \notin stuck /\ Pair(c) \in {Pair(d) : d \in {q \in Callers : Busy(q)}}
    BY DEF PanelsInv, BusyAlone
  <2> QED
    BY <2>1, <2>2, <2>3
<1>8. EntriesOwned'
  <2>1. \A d, e \in Callers : Busy(d)' /\ Busy(e)' /\ action'[d].id = action'[e].id => d = e
    BY <1>3, <1>4, OwnEntry
  <2>2. inflight' \subseteq inflight
    OBVIOUS
  <2> QED
    BY <1>7, <2>1, <2>2 DEF PanelsInv, EntriesOwned, Pair
<1>9. inflight' \subseteq Entry /\ stuck' \subseteq Entry
  BY OwnEntry DEF PanelsInv, PanelsTyped
<1> QED
  BY <1>2, <1>3, <1>4, <1>6, <1>8, <1>9

\* Both ways of removing an entry remove the call's own and no other.
LEMMA RemovalsAgree ==
    ASSUME PanelsInv, NEW c \in Callers, Busy(c), FinishEntry(c) \/ AbortEntry(c)
    PROVE  inflight' = inflight \ {Pair(c)}
<1>1. Pair(c)[1] = action[c].id
  BY DEF Pair
<1> QED
  BY <1>1, OwnEntry DEF FinishEntry, AbortEntry, Pair

\* What the records answer after a success, and after the oldest has gone.
LEMMA AppendFacts ==
    ASSUME NEW s \in Seq(Entry), NEW e \in Entry
    PROVE  /\ Append(s, e) \in Seq(Entry)
           /\ \A n \in DOMAIN Append(s, e) :
                 Append(s, e)[n] = e \/ \E m \in DOMAIN s : Append(s, e)[n] = s[m]
           /\ \A m \in DOMAIN s : m \in DOMAIN Append(s, e) /\ Append(s, e)[m] = s[m]
           /\ Len(s) + 1 \in DOMAIN Append(s, e) /\ Append(s, e)[Len(s) + 1] = e
           /\ Append(s, e) # <<>>
  OBVIOUS

LEMMA TailFacts ==
    ASSUME NEW s \in Seq(Entry), s # <<>>
    PROVE  /\ Tail(s) \in Seq(Entry) /\ Head(s) = s[1] /\ 1 \in DOMAIN s
           /\ \A n \in DOMAIN Tail(s) : n + 1 \in DOMAIN s /\ Tail(s)[n] = s[n + 1]
           /\ \A n \in DOMAIN s : n # 1 => n - 1 \in DOMAIN Tail(s) /\ Tail(s)[n - 1] = s[n]
  OBVIOUS

---------------------------------------------------------------------------
\* A call that is busy, whatever becomes of the records of other ids.
LEMMA EndKeepsEntries ==
    ASSUME PanelsInv, NEW c \in Callers, Busy(c), Rest(c),
           \/ inflight' = inflight \ {Pair(c)} /\ UNCHANGED stuck
           \/ UNCHANGED inflight /\ stuck' = stuck \cup {Pair(c)},
           records' \in Seq(Entry), threads' \in [RequestIds -> Nat], UNCHANGED effects,
           \A k : Answered(k)' => Answered(k) \/ k = action[c].id
    PROVE  PanelsInv'
<1>1. \A d \in Callers : Busy(d)' => Busy(d) /\ d # c /\ action'[d] = action[d]
  BY CallEnds
<1>2. \A d \in Callers : Busy(d)' => ~Answered(action[d].id)'
  BY <1>1, OwnEntry DEF PanelsInv, BusyAlone
<1>3. BusyAlone'
  BY <1>1, <1>2, CallEnds DEF BusyAlone
<1>4. \A d \in Callers : action'[d].pc # "busy" \/
          action'[d] \in [pc : {"busy"}, id : RequestIds, content : Contents, applied : BOOLEAN]
  BY <1>1 DEF PanelsInv, PanelsTyped, Busy
<1>5. PanelsTyped'
  BY <1>4, CallEnds DEF PanelsInv, PanelsTyped
<1> QED
  BY <1>3, <1>5, CallEnds DEF PanelsInv

\* Before its effect a call has an id that nothing has happened to, and at its
\* effect one that nothing else will happen to, unless the id is excused.
LEMMA OwnEffect ==
    ASSUME PanelsInv, OnceInv, NEW c \in Callers, Busy(c), action[c].id \notin excused
    PROVE  /\ effects[action[c].id] + threads[action[c].id] \in {0, 1}
           /\ ~action[c].applied => effects[action[c].id] + threads[action[c].id] = 0
<1>1. action[c].id \in RequestIds
  BY DEF PanelsInv, PanelsTyped, Busy
<1>2. Spent(action[c].id) => action[c].applied
  BY OwnEntry DEF Spent, PanelsInv, BusyAlone
<1> QED
  BY <1>1, <1>2 DEF OnceInv

LEMMA EndKeepsOnce ==
    ASSUME PanelsInv, OnceInv, NEW c \in Callers, Busy(c), Rest(c),
           \/ inflight' = inflight \ {Pair(c)} /\ UNCHANGED stuck
           \/ UNCHANGED inflight /\ stuck' = stuck \cup {Pair(c)},
           excused \subseteq excused', UNCHANGED effects,
           \A k : Answered(k) => Answered(k)' \/ k \in excused',
           \A k \in RequestIds \ {action[c].id} : threads'[k] = threads[k],
           \A k \in RequestIds : k = action[c].id /\ k \notin excused' =>
              effects[k] + threads'[k] = 0 \/ (effects[k] + threads'[k] = 1 /\ Spent(k)')
    PROVE  OnceInv'
<1>1. \A d \in Callers : Busy(d) /\ d # c => Busy(d)' /\ action'[d] = action[d]
  BY CallEnds
<1>2. \A k \in RequestIds \ {action[c].id} : k \notin excused' /\ Spent(k) => Spent(k)'
  BY <1>1 DEF Spent
<1> SUFFICES ASSUME NEW k \in RequestIds, k \notin excused'
             PROVE  effects'[k] + threads'[k] = 0 \/ (effects'[k] + threads'[k] = 1 /\ Spent(k)')
  BY DEF OnceInv
<1>3. CASE k = action[c].id
  BY <1>3
<1>4. CASE k # action[c].id
  BY <1>2, <1>4 DEF OnceInv
<1> QED
  BY <1>3, <1>4

---------------------------------------------------------------------------
PanelsOnce == PanelsInv /\ OnceInv

LEMMA BeginIsSound ==
    ASSUME PanelsOnce, NEW c \in Callers, NEW k \in RequestIds, NEW w \in Contents,
           BeginAction(c, k, w)
    PROVE  PanelsOnce'
<1> DEFINE r == [pc |-> "busy", id |-> k, content |-> w, applied |-> FALSE]
<1>1. /\ \A d \in Callers : action'[d] = IF d = c THEN r ELSE action[d]
      /\ action' = [d \in Callers |-> action'[d]]
  BY DEF BeginAction, PanelsOnce, PanelsInv, PanelsTyped
<1>2. /\ inflight' = inflight \cup {<<k, w>>} /\ <<k, w>> \in Entry /\ ~Busy(c)
      /\ UNCHANGED <<records, threads, effects, excused, stuck>>
  BY DEF BeginAction, Busy, Entry
<1>3. \A e \in inflight : e[1] # k
  <2>1. \A e \in inflight : e[2] \in Contents /\ e = <<e[1], e[2]>>
    BY DEF PanelsOnce, PanelsInv, PanelsTyped, Entry
  <2>2. \A v \in Contents : <<k, v>> \notin inflight
    BY DEF BeginAction, Running
  <2> QED
    BY <2>1, <2>2
<1>4. \A d \in Callers : /\ Busy(d)' <=> Busy(d) \/ d = c
                         /\ Pair(d)' = IF d = c THEN <<k, w>> ELSE Pair(d)
  BY <1>1 DEF Busy, Pair
<1>5. \A d \in Callers : Busy(d) => action[d].id # k
  BY <1>3, OwnEntry DEF Pair, PanelsOnce
<1>6. PanelsTyped'
  <2>1. r \in [pc : {"busy"}, id : RequestIds, content : Contents, applied : BOOLEAN]
    OBVIOUS
  <2> QED
    BY <1>1, <1>2, <2>1 DEF PanelsOnce, PanelsInv, PanelsTyped
<1>7. EntriesOwned'
  <2>1. inflight = stuck \cup {Pair(d) : d \in {q \in Callers : Busy(q)}}
    BY DEF PanelsOnce, PanelsInv, EntriesOwned, Pair
  <2>2. {Pair(d)' : d \in {q \in Callers : Busy(q)'}}
        = {Pair(d) : d \in {q \in Callers : Busy(q)}} \cup {<<k, w>>}
    BY <1>2, <1>4
  <2>3. inflight' = stuck' \cup {Pair(d)' : d \in {q \in Callers : Busy(q)'}}
    BY <1>2, <2>1, <2>2
  <2>4. \A e, f \in inflight' : e[1] = f[1] => e = f
    BY <1>2, <1>3 DEF PanelsOnce, PanelsInv, EntriesOwned
  <2>5. \A d, e \in Callers : Busy(d)' /\ Busy(e)' /\ action'[d].id = action'[e].id => d = e
    BY <1>1, <1>4, <1>5 DEF PanelsOnce, PanelsInv, EntriesOwned
  <2> QED
    BY <2>3, <2>4, <2>5 DEF EntriesOwned, Pair
<1>8. BusyAlone'
  <2>1. <<k, w>> \notin stuck /\ ~Answered(k)
    BY <1>3 DEF PanelsOnce, PanelsInv, EntriesOwned, BeginAction
  <2> QED
    BY <1>1, <1>2, <1>4, <2>1 DEF PanelsOnce, PanelsInv, BusyAlone, Answered
<1>9. \A i \in RequestIds : Spent(i) => Spent(i)'
  BY <1>1, <1>2, <1>4 DEF Spent, Answered
<1>10. OnceInv'
  BY <1>2, <1>9 DEF PanelsOnce, OnceInv
<1> QED
  BY <1>6, <1>7, <1>8, <1>10 DEF PanelsOnce, PanelsInv

LEMMA AppliesIsSound ==
    ASSUME PanelsOnce, NEW c \in Callers, Applies(c)
    PROVE  PanelsOnce'
<1>1. /\ Busy(c) /\ ~action[c].applied /\ action[c].id \in RequestIds
      /\ UNCHANGED <<inflight, records, threads, excused, stuck>>
      /\ effects' = [effects EXCEPT ![action[c].id] = @ + 1]
  BY DEF Applies, TakesEffect, PanelsOnce, PanelsInv, PanelsTyped, Busy
<1>2. /\ \A d \in Callers : action'[d] = IF d = c THEN [action[c] EXCEPT !.applied = TRUE]
                                         ELSE action[d]
      /\ action' = [d \in Callers |-> action'[d]]
  BY DEF Applies, PanelsOnce, PanelsInv, PanelsTyped
<1>3. action'[c] \in [pc : {"busy"}, id : RequestIds, content : Contents, applied : BOOLEAN]
      /\ action'[c].id = action[c].id /\ action'[c].content = action[c].content
      /\ action'[c].applied
  BY <1>1, <1>2 DEF PanelsOnce, PanelsInv, PanelsTyped, Busy
<1>4. \A d \in Callers : /\ Busy(d)' <=> Busy(d)
                         /\ Pair(d)' = Pair(d) /\ action'[d].id = action[d].id
  BY <1>1, <1>2, <1>3 DEF Busy, Pair
<1>5. PanelsTyped'
  BY <1>1, <1>2, <1>3 DEF PanelsOnce, PanelsInv, PanelsTyped
<1>6. EntriesOwned' /\ BusyAlone'
  BY <1>1, <1>4 DEF PanelsOnce, PanelsInv, EntriesOwned, BusyAlone, Pair, Answered
<1>7. OnceInv'
  <2>1. \A k \in RequestIds : Spent(k) => Spent(k)'
    BY <1>1, <1>2, <1>3, <1>4 DEF Spent, Answered
  <2>2. \A k : k = action[c].id => Spent(k)'
    BY <1>1, <1>3, <1>4 DEF Spent
  <2>3. \A k \in RequestIds : effects'[k] = IF k = action[c].id THEN effects[k] + 1 ELSE effects[k]
    BY <1>1 DEF PanelsOnce, PanelsInv, PanelsTyped
  <2>4. action[c].id \notin excused =>
            effects'[action[c].id] + threads'[action[c].id] = 1
    <3>1. action[c].id \notin excused => effects[action[c].id] + threads[action[c].id] = 0
      BY <1>1, OwnEffect DEF PanelsOnce
    <3> QED
      BY <1>1, <2>3, <3>1 DEF PanelsOnce, PanelsInv, PanelsTyped
  <2> SUFFICES ASSUME NEW k \in RequestIds, k \notin excused
               PROVE  \/ effects'[k] + threads'[k] = 0
                      \/ effects'[k] + threads'[k] = 1 /\ Spent(k)'
    BY <1>1 DEF OnceInv
  <2>5. CASE k = action[c].id
    BY <2>2, <2>4, <2>5
  <2>6. CASE k # action[c].id
    BY <1>1, <2>1, <2>3, <2>6 DEF PanelsOnce, OnceInv
  <2> QED
    BY <2>5, <2>6
<1> QED
  BY <1>5, <1>6, <1>7 DEF PanelsOnce, PanelsInv

LEMMA ThreadIsSound ==
    ASSUME PanelsOnce, NEW k \in RequestIds, ThreadApplies(k)
    PROVE  PanelsOnce'
<1>1. /\ threads' = [threads EXCEPT ![k] = @ - 1] /\ effects' = [effects EXCEPT ![k] = @ + 1]
      /\ threads[k] > 0 /\ UNCHANGED <<action, inflight, records, excused, stuck>>
  BY DEF ThreadApplies, TakesEffect
<1>2. threads' \in [RequestIds -> Nat] /\ effects' \in [RequestIds -> Nat]
  BY <1>1 DEF PanelsOnce, PanelsInv, PanelsTyped
<1>3. \A i \in RequestIds : effects'[i] + threads'[i] = effects[i] + threads[i]
  BY <1>1 DEF PanelsOnce, PanelsInv, PanelsTyped
<1>4. PanelsInv'
  BY <1>1, <1>2 DEF PanelsOnce, PanelsInv, PanelsTyped, EntriesOwned, BusyAlone, Busy, Pair, Answered
<1>5. \A i \in RequestIds : Spent(i)' <=> Spent(i)
  BY <1>1 DEF Spent, Answered, Busy
<1> QED
  BY <1>1, <1>3, <1>4, <1>5 DEF PanelsOnce, OnceInv

LEMMA BusyTyped ==
    ASSUME PanelsInv, NEW c \in Callers, Busy(c)
    PROVE  Pair(c) \in Entry /\ action[c].id \in RequestIds /\ action[c].applied \in BOOLEAN
  BY DEF PanelsInv, PanelsTyped, Busy, Pair, Entry

\* A success is answered from its record from now on; the record that it pushes
\* out, if any, excuses its id.
LEMMA SucceedsIsSound ==
    ASSUME PanelsOnce, NEW c \in Callers, Succeeds(c)
    PROVE  PanelsOnce'
<1> DEFINE all == Append(records, Pair(c))
<1>1. /\ Busy(c) /\ Rest(c) /\ inflight' = inflight \ {Pair(c)}
      /\ UNCHANGED <<threads, effects, stuck>>
      /\ \/ records' = Tail(all) /\ excused' = excused \cup {Head(all)[1]}
         \/ records' = all /\ UNCHANGED excused
  BY RemovalsAgree DEF Succeeds, PanelsOnce, Pair
<1>2. records \in Seq(Entry) /\ Pair(c) \in Entry /\ Pair(c)[1] = action[c].id
  BY <1>1, BusyTyped DEF PanelsOnce, PanelsInv, PanelsTyped, Pair
<1>3. /\ all \in Seq(Entry) /\ all # <<>>
      /\ \A n \in DOMAIN all : all[n] = Pair(c) \/ \E m \in DOMAIN records : all[n] = records[m]
      /\ \A m \in DOMAIN records : m \in DOMAIN all /\ all[m] = records[m]
      /\ \E n \in DOMAIN all : all[n] = Pair(c)
  BY <1>2, AppendFacts
<1> HIDE DEF all
<1>4. /\ Tail(all) \in Seq(Entry) /\ Head(all) = all[1]
      /\ \A n \in DOMAIN Tail(all) : n + 1 \in DOMAIN all /\ Tail(all)[n] = all[n + 1]
      /\ \A n \in DOMAIN all : n # 1 => n - 1 \in DOMAIN Tail(all) /\ Tail(all)[n - 1] = all[n]
  BY <1>3, TailFacts
<1>5. records' \in Seq(Entry)
  BY <1>1, <1>3, <1>4
<1>6. \A n \in DOMAIN records' : \E m \in DOMAIN all : records'[n] = all[m]
  BY <1>1, <1>4
<1>7. \A k : Answered(k)' => Answered(k) \/ k = action[c].id
  BY <1>2, <1>3, <1>6 DEF Answered
<1>8. \A m \in DOMAIN all : all[m][1] \in excused' \/ \E n \in DOMAIN records' : records'[n] = all[m]
  BY <1>1, <1>4
<1>9. \A k : Answered(k) \/ k = action[c].id => Answered(k)' \/ k \in excused'
  BY <1>2, <1>3, <1>8 DEF Answered
<1>10. PanelsInv'
  BY <1>1, <1>5, <1>7, EndKeepsEntries DEF PanelsOnce, PanelsInv, PanelsTyped
<1>11. \A k \in RequestIds : k = action[c].id /\ k \notin excused' =>
              effects[k] + threads'[k] = 0 \/ (effects[k] + threads'[k] = 1 /\ Spent(k)')
  <2>1. \A k : k = action[c].id /\ k \notin excused' => k \notin excused /\ Spent(k)'
    BY <1>1, <1>9 DEF Spent
  <2> QED
    BY <1>1, <2>1, OwnEffect DEF PanelsOnce
<1>12. OnceInv'
  BY <1>1, <1>9, <1>11, EndKeepsOnce DEF PanelsOnce
<1> QED
  BY <1>10, <1>12 DEF PanelsOnce

\* A call that ends without a record: its effect, if any, is excused.
LEMMA AbortIsSound ==
    ASSUME PanelsOnce, NEW c \in Callers, Busy(c), Rest(c), FinishEntry(c) \/ AbortEntry(c),
           excused \subseteq excused', UNCHANGED <<effects, stuck, records>>,
           threads' \in [RequestIds -> Nat],
           \A k \in RequestIds \ {action[c].id} : threads'[k] = threads[k],
           action[c].id \in excused' \/ (UNCHANGED threads /\ ~action[c].applied)
    PROVE  PanelsOnce'
<1>1. inflight' = inflight \ {Pair(c)}
  BY RemovalsAgree DEF PanelsOnce
<1>2. records' \in Seq(Entry) /\ \A k : Answered(k)' <=> Answered(k)
  BY DEF PanelsOnce, PanelsInv, PanelsTyped, Answered
<1>3. PanelsInv'
  BY <1>1, <1>2, EndKeepsEntries DEF PanelsOnce
<1>4. \A k \in RequestIds : k = action[c].id /\ k \notin excused' =>
              effects[k] + threads'[k] = 0
  BY OwnEffect DEF PanelsOnce
<1>5. OnceInv'
  BY <1>1, <1>2, <1>4, EndKeepsOnce DEF PanelsOnce
<1> QED
  BY <1>3, <1>5 DEF PanelsOnce

\* A thread that is left behind counts for its request id.
LEMMA AbandonAt ==
    ASSUME PanelsInv, NEW c \in Callers, Busy(c), Abandon(c)
    PROVE  /\ threads' \in [RequestIds -> Nat]
           /\ \A k \in RequestIds \ {action[c].id} : threads'[k] = threads[k]
           /\ \A k \in RequestIds : k = action[c].id =>
                 threads'[k] = threads[k] \/ (~action[c].applied /\ threads'[k] = threads[k] + 1)
<1>1. CASE threads' = threads
  BY <1>1 DEF PanelsInv, PanelsTyped
<1>2. CASE ~action[c].applied /\ threads' = [threads EXCEPT ![action[c].id] = @ + 1]
  BY <1>2, BusyTyped DEF PanelsInv, PanelsTyped
<1>3. \/ threads' = threads
      \/ ~action[c].applied /\ threads' = [threads EXCEPT ![action[c].id] = @ + 1]
  <2>1. CASE action[c].applied
    BY <2>1 DEF Abandon
  <2>2. CASE ~action[c].applied
    BY <2>2 DEF Abandon
  <2> QED
    BY <2>1, <2>2
<1> QED
  BY <1>1, <1>2, <1>3

LEMMA TimesOutIsSound == ASSUME PanelsOnce, NEW c \in Callers, TimesOut(c) PROVE PanelsOnce'
<1>1. /\ Busy(c) /\ AbortEntry(c) /\ Rest(c) /\ Abandon(c)
      /\ excused' = excused \cup {action[c].id} /\ UNCHANGED <<effects, stuck, records>>
  BY DEF TimesOut
<1>2. /\ threads' \in [RequestIds -> Nat]
      /\ \A k \in RequestIds \ {action[c].id} : threads'[k] = threads[k]
  BY <1>1, AbandonAt DEF PanelsOnce
<1> QED
  BY <1>1, <1>2, AbortIsSound

LEMMA CancelledIsSound == ASSUME PanelsOnce, NEW c \in Callers, Cancelled(c) PROVE PanelsOnce'
<1>1. /\ Busy(c) /\ Rest(c) /\ Abandon(c) /\ stuck' = stuck \cup {Pair(c)}
      /\ UNCHANGED <<inflight, effects, excused, records>>
  BY DEF Cancelled, Pair
<1>2. records' \in Seq(Entry) /\ \A k : Answered(k)' <=> Answered(k)
  BY <1>1 DEF PanelsOnce, PanelsInv, PanelsTyped, Answered
<1>3. /\ threads' \in [RequestIds -> Nat]
      /\ \A k \in RequestIds \ {action[c].id} : threads'[k] = threads[k]
      /\ \A k \in RequestIds : k = action[c].id =>
            threads'[k] = threads[k] \/ (~action[c].applied /\ threads'[k] = threads[k] + 1)
  BY <1>1, AbandonAt DEF PanelsOnce
<1>4. PanelsInv'
  BY <1>1, <1>2, <1>3, EndKeepsEntries DEF PanelsOnce
<1>5. \A k : k = action[c].id => Spent(k)'
  <2>1. Pair(c) \in stuck' /\ Pair(c)[1] = action[c].id
    BY <1>1 DEF Pair
  <2> QED
    BY <2>1 DEF Spent
<1>6. \A k \in RequestIds : k = action[c].id /\ k \notin excused' =>
         effects[k] + threads'[k] \in {0, 1}
  <2> SUFFICES ASSUME action[c].id \in RequestIds, action[c].id \notin excused
               PROVE  effects[action[c].id] + threads'[action[c].id] \in {0, 1}
    BY <1>1
  <2>1. effects[action[c].id] \in Nat /\ threads[action[c].id] \in Nat
    BY DEF PanelsOnce, PanelsInv, PanelsTyped
  <2> QED
    BY <1>1, <1>3, <2>1, OwnEffect DEF PanelsOnce
<1>7. OnceInv'
  BY <1>1, <1>2, <1>3, <1>5, <1>6, EndKeepsOnce DEF PanelsOnce
<1> QED
  BY <1>4, <1>7 DEF PanelsOnce

LEMMA ExpiryIsSound == ASSUME PanelsOnce, RecordExpires PROVE PanelsOnce'
<1>1. /\ records # <<>> /\ records' = Tail(records)
      /\ excused' = excused \cup {Head(records)[1]}
      /\ UNCHANGED <<action, inflight, threads, effects, stuck>>
  BY DEF RecordExpires
<1>2. records \in Seq(Entry)
  BY DEF PanelsOnce, PanelsInv, PanelsTyped
<1>3. /\ Tail(records) \in Seq(Entry) /\ Head(records) = records[1]
      /\ \A n \in DOMAIN Tail(records) : \E m \in DOMAIN records : Tail(records)[n] = records[m]
      /\ \A n \in DOMAIN records : n # 1 => \E m \in DOMAIN Tail(records) :
                                               Tail(records)[m] = records[n]
  BY <1>1, <1>2, TailFacts
<1>4. \A k : Answered(k)' => Answered(k)
  BY <1>1, <1>3 DEF Answered
<1>5. \A k : Answered(k) => Answered(k)' \/ k \in excused'
  BY <1>1, <1>3 DEF Answered
<1>6. PanelsInv'
  BY <1>1, <1>3, <1>4 DEF PanelsOnce, PanelsInv, PanelsTyped, EntriesOwned, BusyAlone, Busy, Pair
<1>7. \A k \in RequestIds : k \notin excused' /\ Spent(k) => Spent(k)'
  BY <1>1, <1>5 DEF Spent, Busy
<1> QED
  BY <1>1, <1>6, <1>7 DEF PanelsOnce, OnceInv

---------------------------------------------------------------------------
LEMMA PanelsInitSound == PanelsInit => PanelsOnce
<1> SUFFICES ASSUME PanelsInit PROVE PanelsOnce
  OBVIOUS
<1>1. Resting.pc = "idle"
  BY DEF Resting
<1>2. /\ action = [c \in Callers |-> action[c]]
      /\ \A c \in Callers : action[c].pc = "idle"
  BY <1>1 DEF PanelsInit
<1>3. PanelsTyped
  BY <1>2 DEF PanelsInit, PanelsTyped
<1>4. EntriesOwned /\ BusyAlone
  BY <1>2 DEF PanelsInit, EntriesOwned, BusyAlone, Busy
<1> QED
  BY <1>3, <1>4 DEF PanelsInit, PanelsOnce, PanelsInv, OnceInv

LEMMA PanelsStepSound == PanelsOnce /\ [PanelsNext]_panelsVars => PanelsOnce'
<1> SUFFICES ASSUME PanelsOnce, [PanelsNext]_panelsVars PROVE PanelsOnce'
  OBVIOUS
<1>1. CASE \E c \in Callers : \E k \in RequestIds, w \in Contents : BeginAction(c, k, w)
  BY <1>1, BeginIsSound
<1>2. CASE \E c \in Callers : Applies(c) \/ Succeeds(c) \/ TimesOut(c) \/ Cancelled(c)
  BY <1>2, AppliesIsSound, SucceedsIsSound, TimesOutIsSound, CancelledIsSound
<1>3. ASSUME NEW c \in Callers, Declines(c) \/ Raises(c) PROVE PanelsOnce'
  <2>1. /\ Busy(c) /\ Rest(c) /\ (FinishEntry(c) \/ AbortEntry(c))
        /\ UNCHANGED <<effects, stuck, records, threads>>
    BY <1>3 DEF Declines, Raises
  <2>2. excused \subseteq excused' /\ (action[c].id \in excused' \/ ~action[c].applied)
    BY <1>3 DEF Declines, Raises, Excuse
  <2>3. threads' \in [RequestIds -> Nat] /\ threads' = threads
    BY <2>1 DEF PanelsOnce, PanelsInv, PanelsTyped
  <2> QED
    BY <2>1, <2>2, <2>3, AbortIsSound
<1>4. CASE \E k \in RequestIds : ThreadApplies(k)
  BY <1>4, ThreadIsSound
<1>5. CASE RecordExpires
  BY <1>5, ExpiryIsSound
<1>6. CASE Upload \/ UNCHANGED panelsVars
  <2>1. UNCHANGED <<action, inflight, records, threads, effects, excused, stuck>>
    BY <1>6 DEF Upload, panelsVars
  <2>2. PanelsTyped' /\ EntriesOwned' /\ BusyAlone'
    BY <2>1 DEF PanelsOnce, PanelsInv, PanelsTyped, EntriesOwned, BusyAlone, Busy, Pair, Answered
  <2>3. \A k \in RequestIds : Spent(k)' <=> Spent(k)
    BY <2>1 DEF Spent, Busy, Answered
  <2> QED
    BY <2>1, <2>2, <2>3 DEF PanelsOnce, PanelsInv, OnceInv
<1> QED
  BY <1>1, <1>2, <1>3, <1>4, <1>5, <1>6 DEF PanelsNext

LEMMA PanelsInvariance == PanelsSpec => []PanelsOnce
  BY PanelsInitSound, PanelsStepSound, PTL DEF PanelsSpec

\* EntriesOwned for any number of callers, ids, contents, records and timeouts:
\* an entry in flight belongs to one call, or to one that was cancelled.
THEOREM EntriesAlwaysOwned == PanelsSpec => []EntriesOwned
<1>1. PanelsOnce => EntriesOwned
  BY DEF PanelsOnce, PanelsInv
<1> QED
  BY <1>1, PanelsInvariance, PTL

\* AppliedOnce for the same: an action takes effect once for its request id,
\* unless its caller was told otherwise or its record is gone.
THEOREM AlwaysAppliedOnce == PanelsSpec => []AppliedOnce
<1>1. PanelsOnce => AppliedOnce
  BY DEF PanelsOnce, OnceInv, AppliedOnce
<1> QED
  BY <1>1, PanelsInvariance, PTL

---------------------------------------------------------------------------
(* The memory of the artifacts.                                             *)

\* Total adds up: of nothing, and of one artifact more.
LEMMA TotalFacts ==
    /\ Total(<<>>) = 0
    /\ \A s \in Seq(Nat) : Total(s) \in Nat
    /\ \A s \in Seq(Nat), x \in Nat : Total(Append(s, x)) = Total(s) + x
<1>1. ASSUME NEW s \in Seq(Nat)
      PROVE  /\ IsFiniteSet(DOMAIN s) /\ s \in [DOMAIN s -> Nat]
             /\ Total(s) = Cardinality(Dots(s, DOMAIN s))
  <2>1. DOMAIN s = 1..Len(s) /\ Len(s) \in Nat /\ s \in [DOMAIN s -> Nat]
    OBVIOUS
  <2>2. IsFiniteSet(DOMAIN s)
    <3>1. Len(s) \in Int /\ 1 \in Int
      BY <2>1
    <3>2. IsFiniteSet(1..Len(s))
      BY <3>1, FS_Interval
    <3> QED
      BY <2>1, <3>2
  <2>3. Total(s) = (CHOOSE it : IsSum(it, s, DOMAIN s))[DOMAIN s]
    BY DEF Total, FoldSeq, FoldFunction, FoldFunctionOnSet, MapThenFoldSet, IsSum, Chosen
  <2> QED
    BY <2>1, <2>2, <2>3, SumDefined
<1>2. \A s \in Seq(Nat) : Total(s) \in Nat
  BY <1>1, DotsFacts
<1>3. Total(<<>>) = 0
  <2>1. <<>> \in Seq(Nat) /\ DOMAIN <<>> = {}
    OBVIOUS
  <2>2. Dots(<<>>, {}) = {}
    BY DEF Dots
  <2> QED
    BY <1>1, <2>1, <2>2, FS_EmptySet
<1>4. ASSUME NEW s \in Seq(Nat), NEW x \in Nat
      PROVE  Total(Append(s, x)) = Total(s) + x
  <2> DEFINE a == Append(s, x)
             n == Len(s) + 1
  <2>1. a \in Seq(Nat) /\ DOMAIN a = DOMAIN s \cup {n} /\ n \notin DOMAIN s /\ a[n] = x
    OBVIOUS
  <2>2. \A i \in DOMAIN s : a[i] = s[i]
    OBVIOUS
  <2>3. Dots(a, DOMAIN s) = Dots(s, DOMAIN s)
    BY <2>2, Zenon DEF Dots
  <2> HIDE DEF a, n
  <2>4. Cardinality(Dots(a, DOMAIN s \cup {n})) = Cardinality(Dots(a, DOMAIN s)) + a[n]
    BY <1>1, <2>1, DotsFacts
  <2>5. Total(a) = Total(s) + x
    BY <1>1, <2>1, <2>3, <2>4
  <2> QED
    BY <2>5 DEF a
<1> QED
  BY <1>2, <1>3, <1>4

---------------------------------------------------------------------------
\* Pruning leaves artifacts that fit.
LEMMA PruneFits ==
    ASSUME NEW s \in Seq(FileSizes)
    PROVE  Prune(s) \in Seq(FileSizes) /\ Total(Prune(s)) <= MaxTotal
<1> DEFINE N == {n \in 1..(Len(s) + 1) : Total(From(s, n)) <= MaxTotal}
<1>1. Len(s) \in Nat
  OBVIOUS
<1>2. From(s, Len(s) + 1) = <<>>
  BY <1>1 DEF From
<1>3. Len(s) + 1 \in N
  BY <1>1, <1>2, TotalFacts, ArtifactsAssumption
<1>4. N \in SUBSET Nat /\ N # {}
  BY <1>1, <1>3
<1>5. \A n \in N : n \in 1..(Len(s) + 1) /\ Total(From(s, n)) <= MaxTotal
  OBVIOUS
<1> HIDE DEF N
<1>6. \E x \in N : \A y \in N : x <= y
  BY <1>4, LeastOf
<1>7. Min(N) \in N
  BY <1>6, Zenon DEF Min
<1>8. Prune(s) = From(s, Min(N))
  BY DEF Prune, N
<1>9. From(s, Min(N)) \in Seq(FileSizes)
  <2>1. \A n \in 1..(Len(s) + 1) : SubSeq(s, n, Len(s)) \in Seq(FileSizes)
    BY <1>1
  <2> QED
    BY <2>1, <1>5, <1>7 DEF From
<1> QED
  BY <1>5, <1>7, <1>8, <1>9

\* The limits are those of the store before the artifact that came last.
ArtifactsInv == ArtifactsTypeOK /\ MemoryBounded

LEMMA PutKeepsArtifacts ==
    ASSUME ArtifactsInv, Put
    PROVE  ArtifactsInv'
<1>1. PICK size \in FileSizes, n \in 1..(Len(artifacts) + 1) :
         Accepted(size) /\ artifacts' = Append(Prune(From(artifacts, n)), size)
  BY DEF Put
<1>2. From(artifacts, n) \in Seq(FileSizes)
  BY DEF ArtifactsInv, ArtifactsTypeOK, From
<1> DEFINE kept == Prune(From(artifacts, n))
<1>3. kept \in Seq(FileSizes) /\ Total(kept) <= MaxTotal
  BY <1>2, PruneFits
<1> HIDE DEF kept
<1>4. FileSizes \subseteq Nat /\ MaxArtifact \in Nat /\ MaxTotal \in Nat
  BY ArtifactsAssumption
<1>5. kept \in Seq(Nat) /\ size \in Nat /\ size <= MaxArtifact
  <2>1. Len(kept) \in Nat /\ kept \in [1..Len(kept) -> FileSizes]
    BY <1>3
  <2>2. \A i \in 1..Len(kept) : kept[i] \in Nat
    BY <1>4, <2>1
  <2>3. kept \in Seq(Nat)
    BY <2>1, <2>2
  <2> QED
    BY <1>1, <1>4, <2>3 DEF Accepted
<1>6. artifacts' = Append(kept, size)
  BY <1>1 DEF kept
<1>7. Total(artifacts') = Total(kept) + size /\ Total(kept) \in Nat
  BY <1>5, <1>6, TotalFacts
<1>8. Front(artifacts') = kept
  BY <1>3, <1>6 DEF Front
<1>9. ArtifactsTypeOK'
  BY <1>3, <1>6 DEF ArtifactsTypeOK
<1>10. MemoryBounded'
  BY <1>3, <1>4, <1>5, <1>7, <1>8 DEF MemoryBounded
<1> QED
  BY <1>9, <1>10 DEF ArtifactsInv

LEMMA ArtifactsInvariance == PanelsSpec => []ArtifactsInv
<1>1. PanelsInit => ArtifactsInv
  <2> SUFFICES ASSUME PanelsInit PROVE ArtifactsInv
    OBVIOUS
  <2>1. artifacts = <<>>
    BY DEF PanelsInit, ArtifactsInit
  <2>2. Total(artifacts) = 0
    BY <2>1, TotalFacts
  <2> QED
    BY <2>1, <2>2, ArtifactsAssumption DEF ArtifactsInv, ArtifactsTypeOK, MemoryBounded
<1>2. ArtifactsInv /\ [PanelsNext]_panelsVars => ArtifactsInv'
  <2> SUFFICES ASSUME ArtifactsInv, [PanelsNext]_panelsVars PROVE ArtifactsInv'
    OBVIOUS
  <2>1. CASE UNCHANGED artifacts
    BY <2>1 DEF ArtifactsInv, ArtifactsTypeOK, MemoryBounded
  <2>2. Put \/ UNCHANGED artifacts
    BY DEF PanelsNext, BeginAction, Applies, Succeeds, Declines, Raises, TimesOut, Cancelled,
           ThreadApplies, RecordExpires, Upload, Materialized, panelsVars
  <2> QED
    BY <2>1, <2>2, PutKeepsArtifacts
<1> QED
  BY <1>1, <1>2, PTL DEF PanelsSpec

\* The artifact store never passes its total by more than the one artifact
\* that came last, for any sizes, limits, uploads and actions of panels.
THEOREM MemoryAlwaysBounded == PanelsSpec => []MemoryBounded
<1>1. ArtifactsInv => MemoryBounded
  BY DEF ArtifactsInv
<1> QED
  BY <1>1, ArtifactsInvariance, PTL

---------------------------------------------------------------------------
\* The rest of the types: bounds, and one record for each request id.
Action == [pc : {"idle", "busy"}, id : RequestIds, content : Contents, applied : BOOLEAN]
RecordsOnce ==
    /\ Len(records) <= MaxRecords
    /\ \A i, j \in DOMAIN records : records[i][1] = records[j][1] => i = j
PanelsBounded ==
    /\ action \in [Callers -> Action]
    /\ RecordsOnce
    /\ givenUp \in 0..MaxGivenUp
    /\ \A k \in RequestIds : threads[k] <= givenUp /\ effects[k] <= MaxEffects
    /\ excused \subseteq RequestIds

LEMMA RestingTyped == Resting \in Action
  BY PanelsAssumption DEF Resting, Action

LEMMA CallerTyped ==
    ASSUME PanelsBounded, NEW c \in Callers
    PROVE  action[c].id \in RequestIds /\ (Rest(c) => action' \in [Callers -> Action])
  BY RestingTyped DEF PanelsBounded, Rest, Action

\* A thread is left behind by a call that is given up.
LEMMA AbandonBounded ==
    ASSUME PanelsInv, PanelsBounded, NEW c \in Callers, Busy(c), Abandon(c)
    PROVE  givenUp' \in 0..MaxGivenUp /\ \A k \in RequestIds : threads'[k] <= givenUp'
<1>1. givenUp' = givenUp + 1 /\ givenUp' \in 0..MaxGivenUp
  BY PanelsAssumption DEF Abandon, PanelsBounded
<1>2. \A k \in RequestIds : threads[k] \in Nat /\ threads[k] <= givenUp /\ givenUp \in Nat
  BY DEF PanelsInv, PanelsTyped, PanelsBounded
<1>3. ASSUME NEW k \in RequestIds PROVE threads'[k] <= threads[k] + 1
  <2>1. CASE k = action[c].id
    BY <1>2, <2>1, AbandonAt
  <2>2. CASE k # action[c].id
    BY <1>2, <2>2, AbandonAt
  <2> QED
    BY <2>1, <2>2
<1>4. \A k \in RequestIds : threads'[k] \in Nat
  BY AbandonAt
<1> QED
  BY <1>1, <1>2, <1>3, <1>4

\* The oldest record goes; the others keep their ids apart.
LEMMA TailOnce ==
    ASSUME NEW s \in Seq(Entry), s # <<>>,
           \A i, j \in DOMAIN s : s[i][1] = s[j][1] => i = j
    PROVE  /\ \A i, j \in DOMAIN Tail(s) : Tail(s)[i][1] = Tail(s)[j][1] => i = j
           /\ Len(Tail(s)) = Len(s) - 1 /\ Head(s)[1] \in RequestIds
<1>1. \A i \in DOMAIN Tail(s) : i \in Nat /\ i + 1 \in DOMAIN s /\ Tail(s)[i] = s[i + 1]
  OBVIOUS
<1>2. ASSUME NEW i \in DOMAIN Tail(s), NEW j \in DOMAIN Tail(s), Tail(s)[i][1] = Tail(s)[j][1]
      PROVE  i = j
  <2>1. i + 1 = j + 1
    BY <1>1, <1>2
  <2> QED
    BY <1>1, <2>1
<1>3. Head(s) \in Entry
  OBVIOUS
<1> QED
  BY <1>2, <1>3 DEF Entry

\* A busy call has no record yet, so that its own is the only one of its id.
LEMMA SuccessBounded ==
    ASSUME PanelsInv, PanelsBounded, NEW c \in Callers, Succeeds(c)
    PROVE  PanelsBounded'
<1> DEFINE all == Append(records, Pair(c))
<1>1. /\ Busy(c) /\ Rest(c) /\ UNCHANGED <<threads, givenUp, effects>>
      /\ IF Len(all) > MaxRecords
         THEN records' = Tail(all) /\ excused' = excused \cup {Head(all)[1]}
         ELSE records' = all /\ UNCHANGED excused
  BY DEF Succeeds, Pair
<1>2. records \in Seq(Entry) /\ Pair(c) \in Entry /\ Pair(c)[1] = action[c].id
  BY <1>1, BusyTyped DEF PanelsInv, PanelsTyped, Pair
<1>3. \A i \in DOMAIN records : records[i][1] # Pair(c)[1]
  BY <1>1, <1>2 DEF PanelsInv, BusyAlone, Answered
<1>4. \A i, j \in DOMAIN all : all[i][1] = all[j][1] => i = j
  <2>1. \A i \in DOMAIN all : \/ i \in DOMAIN records /\ all[i] = records[i]
                              \/ i = Len(records) + 1 /\ all[i] = Pair(c)
    <3> DEFINE e == Pair(c)
    <3> HIDE DEF e
    <3>1. e \in Entry
      BY <1>2 DEF e
    <3>2. \A i \in DOMAIN Append(records, e) :
             \/ i \in DOMAIN records /\ Append(records, e)[i] = records[i]
             \/ i = Len(records) + 1 /\ Append(records, e)[i] = e
      BY <1>2, <3>1
    <3> QED
      BY <3>2 DEF e
  <2> HIDE DEF all
  <2> QED
    BY <1>3, <2>1 DEF PanelsBounded, RecordsOnce
<1>5. all \in Seq(Entry) /\ all # <<>> /\ Len(all) = Len(records) + 1 /\ Len(records) \in Nat
  BY <1>2, AppendFacts
<1> HIDE DEF all
<1>6. /\ \A i, j \in DOMAIN Tail(all) : Tail(all)[i][1] = Tail(all)[j][1] => i = j
      /\ Len(Tail(all)) = Len(all) - 1 /\ Head(all)[1] \in RequestIds
  BY <1>4, <1>5, TailOnce
<1>7. RecordsOnce'
  <2>1. Len(records) <= MaxRecords /\ MaxRecords \in Nat
    BY PanelsAssumption DEF PanelsBounded, RecordsOnce
  <2>2. CASE Len(all) > MaxRecords
    BY <1>1, <1>5, <1>6, <2>1, <2>2 DEF RecordsOnce
  <2>3. CASE ~(Len(all) > MaxRecords)
    BY <1>1, <1>4, <1>5, <2>1, <2>3 DEF RecordsOnce
  <2> QED
    BY <2>2, <2>3
<1>8. excused' \subseteq RequestIds
  BY <1>1, <1>6 DEF PanelsBounded
<1>9. action' \in [Callers -> Action]
  BY <1>1, CallerTyped
<1> QED
  BY <1>1, <1>7, <1>8, <1>9 DEF PanelsBounded

LEMMA PanelsStepBounded ==
    ASSUME PanelsInv, PanelsBounded, [PanelsNext]_panelsVars
    PROVE  PanelsBounded'
<1>1. ASSUME NEW c \in Callers, NEW k \in RequestIds, NEW w \in Contents, BeginAction(c, k, w)
      PROVE  PanelsBounded'
  <2>1. action' = [action EXCEPT ![c] = [pc |-> "busy", id |-> k, content |-> w,
                                         applied |-> FALSE]]
        /\ UNCHANGED <<records, threads, givenUp, effects, excused>>
    BY <1>1 DEF BeginAction
  <2>2. action' \in [Callers -> Action]
    BY <2>1 DEF PanelsBounded, Action
  <2> QED
    BY <2>1, <2>2 DEF PanelsBounded, RecordsOnce
<1>2. ASSUME NEW k \in RequestIds, TakesEffect(k) PROVE \A j \in RequestIds : effects'[j] <= MaxEffects
  <2>1. effects \in [RequestIds -> Nat] /\ MaxEffects \in Nat
    BY PanelsAssumption DEF PanelsInv, PanelsTyped
  <2> QED
    BY <1>2, <2>1 DEF TakesEffect, PanelsBounded
<1>3. ASSUME NEW c \in Callers, Applies(c) PROVE PanelsBounded'
  <2>1. action' = [action EXCEPT ![c].applied = TRUE] /\ TakesEffect(action[c].id)
        /\ UNCHANGED <<records, threads, givenUp, excused>>
    BY <1>3 DEF Applies
  <2>2. action' \in [Callers -> Action]
    BY <2>1 DEF PanelsBounded, Action
  <2>3. \A j \in RequestIds : effects'[j] <= MaxEffects
    BY <1>2, <2>1, CallerTyped
  <2> QED
    BY <2>1, <2>2, <2>3 DEF PanelsBounded, RecordsOnce
<1>4. ASSUME NEW k \in RequestIds, ThreadApplies(k) PROVE PanelsBounded'
  <2>1. TakesEffect(k) /\ threads' = [threads EXCEPT ![k] = @ - 1]
        /\ UNCHANGED <<action, records, givenUp, excused>>
    BY <1>4 DEF ThreadApplies
  <2>2. threads \in [RequestIds -> Nat] /\ givenUp \in Nat
    BY DEF PanelsInv, PanelsTyped, PanelsBounded
  <2>3. \A j \in RequestIds : threads'[j] <= givenUp
    BY <2>1, <2>2 DEF PanelsBounded
  <2> QED
    BY <1>2, <2>1, <2>3 DEF PanelsBounded, RecordsOnce
<1>5. ASSUME NEW c \in Callers, Declines(c) \/ Raises(c) PROVE PanelsBounded'
  <2>1. Rest(c) /\ UNCHANGED <<records, threads, givenUp, effects>>
    BY <1>5 DEF Declines, Raises
  <2>2. excused' \subseteq RequestIds
    BY <1>5, CallerTyped DEF Declines, Raises, Excuse, PanelsBounded
  <2> QED
    BY <2>1, <2>2, CallerTyped DEF PanelsBounded, RecordsOnce
<1>6. ASSUME NEW c \in Callers, TimesOut(c) \/ Cancelled(c) PROVE PanelsBounded'
  <2>1. Busy(c) /\ Rest(c) /\ Abandon(c) /\ UNCHANGED <<records, effects>>
    BY <1>6 DEF TimesOut, Cancelled
  <2>2. excused' \subseteq RequestIds
    BY <1>6, CallerTyped DEF TimesOut, Cancelled, PanelsBounded
  <2> QED
    BY <2>1, <2>2, CallerTyped, AbandonBounded DEF PanelsBounded, RecordsOnce
<1>7. CASE RecordExpires
  <2>1. /\ records # <<>> /\ records' = Tail(records)
        /\ excused' = excused \cup {Head(records)[1]}
        /\ UNCHANGED <<action, threads, givenUp, effects>>
    BY <1>7 DEF RecordExpires
  <2>2. records \in Seq(Entry) /\ Len(records) \in Nat /\ MaxRecords \in Nat
    BY PanelsAssumption DEF PanelsInv, PanelsTyped
  <2>3. RecordsOnce' /\ Head(records)[1] \in RequestIds
    BY <2>1, <2>2, TailOnce DEF PanelsBounded, RecordsOnce
  <2> QED
    BY <2>1, <2>3 DEF PanelsBounded
<1>8. CASE Upload \/ UNCHANGED panelsVars
  BY <1>8 DEF Upload, panelsVars, PanelsBounded, RecordsOnce
<1> QED
  BY <1>1, <1>3, <1>4, <1>5, <1>6, <1>7, <1>8, SuccessBounded DEF PanelsNext

\* PanelsTypeOK for any number of callers and requests: the records keep to
\* their limit and have one entry for a request id, and no more threads are left
\* behind than calls were given up.
THEOREM PanelsAlwaysTyped == PanelsSpec => []PanelsTypeOK
<1>1. PanelsInit => PanelsBounded
  <2> SUFFICES ASSUME PanelsInit PROVE PanelsBounded
    OBVIOUS
  <2>1. action \in [Callers -> Action]
    BY RestingTyped DEF PanelsInit
  <2>2. MaxRecords \in Nat /\ MaxGivenUp \in Nat /\ MaxEffects \in Nat
    BY PanelsAssumption
  <2> QED
    BY <2>1, <2>2 DEF PanelsInit, PanelsBounded, RecordsOnce
<1>2. PanelsOnce /\ PanelsBounded /\ [PanelsNext]_panelsVars => PanelsBounded'
  BY PanelsStepBounded DEF PanelsOnce
<1>3. PanelsOnce /\ PanelsBounded /\ ArtifactsInv => PanelsTypeOK
  <2> SUFFICES ASSUME PanelsTyped, PanelsBounded, ArtifactsTypeOK PROVE PanelsTypeOK
    BY DEF PanelsOnce, PanelsInv, ArtifactsInv
  <2>1. \A k \in RequestIds : threads[k] \in 0..MaxGivenUp /\ effects[k] \in 0..MaxEffects
    BY PanelsAssumption DEF PanelsTyped, PanelsBounded
  <2> QED
    BY <2>1 DEF PanelsTyped, PanelsBounded, RecordsOnce, PanelsTypeOK, Action
<1> QED
  BY <1>1, <1>2, <1>3, PanelsInvariance, ArtifactsInvariance, PTL DEF PanelsSpec
=============================================================================
