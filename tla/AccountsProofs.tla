--------------------------- MODULE AccountsProofs ---------------------------
(***************************************************************************)
(* Accounts and sessions, for any number of users, tokens and requests in  *)
(* progress and whatever the lifetimes and limits.                         *)
(*                                                                         *)
(* The argument: a row that a request has read may be out of date when it  *)
(* writes, but an account is never deleted and a key never reused, so what *)
(* it writes to is the same account still; and a session is written by an  *)
(* UPDATE that finds no row once it has ended.                             *)
(***************************************************************************)
EXTENDS Accounts, FiniteSetTheorems, TLAPS

-----------------------------------------------------------------------------
(* The backoff.                                                            *)

LEMMA PowersOfTwo == ASSUME NEW n \in Nat PROVE 2 ^ n \in Nat
<1>1. IsFiniteSet(1 .. n) /\ Cardinality(1 .. n) = n
  BY FS_Interval
<1>2. 2 ^ n = Cardinality(SUBSET (1 .. n))
  BY <1>1, FS_SUBSET
<1> QED
  BY <1>1, <1>2, FS_SUBSET, FS_CardinalityType

LEMMA DoublingsBound ==
    ASSUME NEW failed \in Nat, failed > LOGIN_FREE_ATTEMPTS
    PROVE  doublings(failed) \in 0 .. MAX_DOUBLINGS
  BY TimesAssumption, BackoffAssumption DEF doublings, Smaller

\* users.py:39-61: however many failures there have been, the lock they earn is capped.
LEMMA BackoffType ==
    ASSUME NEW failed \in Nat
    PROVE  backoff_after(failed) \in Locks
<1>1. CASE failed <= LOGIN_FREE_ATTEMPTS
  BY <1>1 DEF backoff_after, Locks
<1>2. CASE failed > LOGIN_FREE_ATTEMPTS
  <2>1. 2 ^ doublings(failed) \in Nat
    BY <1>2, DoublingsBound, PowersOfTwo
  <2>2. Smaller(2 ^ doublings(failed), LOGIN_BACKOFF_CAP) \in 0 .. LOGIN_BACKOFF_CAP
    BY <2>1, TimesAssumption DEF Smaller
  <2>3. backoff_after(failed) = Smaller(2 ^ doublings(failed), LOGIN_BACKOFF_CAP)
    BY <1>2, TimesAssumption DEF backoff_after
  <2> QED
    BY <2>2, <2>3 DEF Locks
<1> QED
  BY <1>1, <1>2, TimesAssumption

\* users.py:54-60: however many failures there have been, timedelta holds their delay.
LEMMA NeverOverflows == ASSUME NEW failed \in Nat PROVE ~Overflows(failed)
<1> SUFFICES ASSUME failed > LOGIN_FREE_ATTEMPTS PROVE ~(2 ^ doublings(failed) > TIMEDELTA_MAX)
  BY DEF Overflows
<1>1. PICK k \in 0 .. MAX_DOUBLINGS : k = doublings(failed)
  BY DoublingsBound
<1>2. PICK p \in 0 .. TIMEDELTA_MAX : p = 2 ^ k
  BY BackoffAssumption
<1> QED
  BY <1>1, <1>2, BackoffAssumption

\* What a login writes of an account is an account with the same address.
LEMMA WriteType ==
    ASSUME NEW account \in AccountRows, NEW loaded,
           NEW failed \in 0 .. MaxCount, NEW lock \in Locks
    PROVE  /\ Write(account, loaded, failed, lock) \in AccountRows
           /\ Write(account, loaded, failed, lock).email = account.email
  BY DEF Write, AccountRows

LEMMA TimesAreNumbers ==
    /\ LOGIN_FREE_ATTEMPTS \in Nat /\ LOGIN_BACKOFF_CAP \in Nat /\ MaxCount \in Nat
    /\ SESSION_ABSOLUTE_LIFETIME \in Nat /\ SESSION_IDLE_LIFETIME \in Nat
  BY TimesAssumption

LEMMA Counting ==
    ASSUME NEW cap \in Nat, NEW n \in 0 .. cap
    PROVE  Smaller(n + 1, cap) \in 0 .. cap /\ Smaller(n + 1, cap) >= n
  BY DEF Smaller

\* A session with other times is a session of the same user.
LEMMA SessionType ==
    ASSUME NEW session \in SessionRows,
           NEW age \in 0 .. SESSION_ABSOLUTE_LIFETIME, NEW idle \in 0 .. SESSION_IDLE_LIFETIME
    PROVE  /\ [session EXCEPT !.age = age, !.idle = idle] \in SessionRows
           /\ [session EXCEPT !.age = age, !.idle = idle].age = age
           /\ [session EXCEPT !.idle = idle] \in SessionRows
           /\ [session EXCEPT !.idle = idle].age = session.age
           /\ session.age \in 0 .. SESSION_ABSOLUTE_LIFETIME
           /\ session.idle \in 0 .. SESSION_IDLE_LIFETIME
  BY DEF SessionRows

\* A session grows older by one, up to the numbers that are told apart.
LEMMA Ageing ==
    ASSUME Tick, NEW t \in Tokens, Stored(t), sessions[t] \in SessionRows
    PROVE  sessions'[t] \in SessionRows /\ sessions'[t].age >= sessions[t].age
<1> DEFINE age == Smaller(sessions[t].age + 1, SESSION_ABSOLUTE_LIFETIME)
           idle == Smaller(sessions[t].idle + 1, SESSION_IDLE_LIFETIME)
<1>1. /\ sessions[t].age \in 0 .. SESSION_ABSOLUTE_LIFETIME
      /\ sessions[t].idle \in 0 .. SESSION_IDLE_LIFETIME
  BY DEF SessionRows
<1>2. /\ age \in 0 .. SESSION_ABSOLUTE_LIFETIME /\ age >= sessions[t].age
      /\ idle \in 0 .. SESSION_IDLE_LIFETIME
  BY <1>1, Counting, TimesAreNumbers
<1>3. sessions'[t] = [sessions[t] EXCEPT !.age = age, !.idle = idle]
  BY DEF Tick
<1> HIDE DEF age, idle
<1>4. sessions'[t] \in SessionRows /\ sessions'[t].age = age
  BY <1>2, <1>3 DEF SessionRows
<1> QED
  BY <1>2, <1>4

LEMMA CallFields ==
    ASSUME NEW c \in Calls
    PROVE  /\ c.op \in {"register", "login", "logout", "other"}
           /\ c.op \in {"register", "login"} => c.spelling \in Spellings
           /\ c.token \in Tokens \cup {None}
           /\ c # None
  BY NullsAssumption DEF Calls, Form

LEMMA Folding == \A s \in Spellings : normalise_email(s) \in Emails
  BY FoldingAssumption DEF normalise_email, Emails

\* Two addresses that fold to one are one, as they are stored folded.
LEMMA StoredFolded == \A e \in Emails : Folded[e] = e /\ e \in Spellings
  BY FoldingAssumption DEF Emails

-----------------------------------------------------------------------------
(* Invariance.                                                             *)

LocalType ==
    /\ pc \in [Requests -> {"new"} \cup Waiting \cup Answers]
    /\ call \in [Requests -> Calls \cup {None}]
    /\ seen \in [Requests -> Loads \cup {None}]
    /\ waited \in [Requests -> 0 .. SESSION_IDLE_LIFETIME]

\* A request that is answered leaves nothing behind.
LEMMA AnswerKeeps ==
    ASSUME LocalType, NEW r \in Requests, NEW code \in Answers, Answer(r, code),
           \A q \in Requests : ProgressInv(q),
           \A u : There(u) => There(u)'
    PROVE  LocalType' /\ \A q \in Requests : ProgressInv(q)'
<1>1. LocalType'
  BY TimesAssumption DEF LocalType, Answer
<1>2. ProgressInv(r)'
  BY DEF LocalType, Answer, ProgressInv, Waiting, Answers
<1>3. ASSUME NEW q \in Requests, q # r
      PROVE  ProgressInv(q)'
  BY <1>3 DEF LocalType, Answer, ProgressInv
<1> QED
  BY <1>1, <1>2, <1>3

\* A request that goes on keeps what it has established.
LEMMA GotoKeeps ==
    ASSUME LocalType, NEW r \in Requests, NEW label \in Waiting, Goto(r, label),
           UNCHANGED <<users, call, waited>>,
           \A q \in Requests : ProgressInv(q),
           seen' \in [Requests -> Loads \cup {None}],
           \A q \in Requests : q # r => seen'[q] = seen[q],
           ProgressInv(r)'
    PROVE  LocalType' /\ \A q \in Requests : ProgressInv(q)'
<1>1. LocalType'
  BY DEF LocalType, Goto
<1>2. ASSUME NEW q \in Requests, q # r
      PROVE  ProgressInv(q)'
  BY <1>2 DEF LocalType, Goto, ProgressInv, There
<1> QED
  BY <1>1, <1>2

\* Writes that neither add an account nor change an address.
AddressesKept ==
    \A u \in UserIds : /\ There(u) <=> There(u)'
                       /\ There(u) => users'[u].email = users[u].email

LEMMA AddressesKeep ==
    ASSUME OneAccountPerAddress, AddressesKept
    PROVE  OneAccountPerAddress'
  BY DEF OneAccountPerAddress, AddressesKept

LEMMA InitIInv == Init => IInv
<1> SUFFICES ASSUME Init PROVE IInv
  OBVIOUS
<1>1. users \in [UserIds -> AccountRows \cup {None}]
  BY StartAssumption, TimesAssumption DEF Init, AccountRows, Locks
<1>2. TypeOK
  BY <1>1, TimesAssumption DEF Init, TypeOK
<1>3. OneAccountPerAddress
  <2> SUFFICES ASSUME NEW u \in UserIds, NEW v \in UserIds, There(u), There(v),
                      Folded[users[u].email] = Folded[users[v].email]
               PROVE  u = v
    BY DEF OneAccountPerAddress
  <2>1. /\ users[u].email = StartUsers[u] /\ StartUsers[u] \in Emails
        /\ users[v].email = StartUsers[v] /\ StartUsers[v] \in Emails
    BY StartAssumption DEF Init, There
  <2>2. StartUsers[u] = StartUsers[v] /\ StartUsers[u] # None
    BY <2>1, StoredFolded DEF Init, There
  <2> QED
    BY <2>2, StartAssumption
<1>4. ASSUME NEW r \in Requests PROVE ProgressInv(r)
  BY DEF Init, ProgressInv, Waiting
<1> QED
  BY <1>2, <1>3, <1>4 DEF IInv

LEMMA TypeParts ==
    /\ TypeOK <=> /\ users \in [UserIds -> AccountRows \cup {None}]
                  /\ sessions \in [Tokens -> SessionRows \cup {Unissued, Deleted}]
                  /\ LocalType
    /\ TypeOK' <=> /\ (users \in [UserIds -> AccountRows \cup {None}])'
                   /\ (sessions \in [Tokens -> SessionRows \cup {Unissued, Deleted}])'
                   /\ LocalType'
  BY DEF TypeOK, LocalType

LEMMA StepKeeps ==
    ASSUME IInv, NEW r \in Requests, Step(r)
    PROVE  IInv'
<1> USE DEF IInv
<1>0. /\ LocalType /\ ProgressInv(r)
      /\ users \in [UserIds -> AccountRows \cup {None}]
      /\ sessions \in [Tokens -> SessionRows \cup {Unissued, Deleted}]
  BY TypeParts
<1>1. ASSUME NEW code \in Answers, Answer(r, code), UNCHANGED <<users, sessions>>
      PROVE  IInv'
  <2>1. LocalType' /\ \A q \in Requests : ProgressInv(q)'
    BY <1>0, <1>1, AnswerKeeps DEF There
  <2>2. OneAccountPerAddress'
    BY <1>1 DEF OneAccountPerAddress, There
  <2> QED
    BY <1>0, <1>1, <2>1, <2>2, TypeParts
<1>2. CASE Arrive(r)
  <2>1. PICK c \in Calls, label \in Waiting :
           /\ call' = [call EXCEPT ![r] = c] /\ pc' = [pc EXCEPT ![r] = label]
           /\ \/ c.op = "register" /\ label = "check"
              \/ c.op = "login" /\ label = "lookup"
              \/ c.op = "logout" /\ label = "logout"
              \/ c.op = "other" /\ label = "auth"
    BY <1>2, CallFields DEF Arrive, Goto, Waiting
  <2>2. LocalType'
    BY <1>0, <1>2, <2>1 DEF LocalType, Arrive
  <2>3. ASSUME NEW q \in Requests PROVE ProgressInv(q)'
    BY <1>0, <1>2, <2>1 DEF LocalType, ProgressInv, Arrive, There
  <2>4. OneAccountPerAddress'
    BY <1>2 DEF Arrive, OneAccountPerAddress, There
  <2> QED
    BY <1>0, <1>2, <2>2, <2>3, <2>4, TypeParts DEF Arrive
<1>3. CASE RegisterCheck(r)
  <2>1. CASE Answer(r, "409")
    BY <1>1, <1>3, <2>1 DEF RegisterCheck, Answers
  <2>2. CASE Goto(r, "create") /\ UNCHANGED <<call, seen, waited>>
    <3>1. ProgressInv(r)'
      BY <1>0, <1>3, <2>2 DEF RegisterCheck, Goto, LocalType, ProgressInv, Waiting, There
    <3>2. LocalType' /\ \A q \in Requests : ProgressInv(q)'
      BY <1>0, <1>3, <2>2, <3>1, GotoKeeps DEF RegisterCheck, Waiting, LocalType
    <3>3. OneAccountPerAddress'
      BY <1>3 DEF RegisterCheck, OneAccountPerAddress, There
    <3> QED
      BY <1>0, <1>3, <3>2, <3>3, TypeParts DEF RegisterCheck
  <2> QED
    BY <1>3, <2>1, <2>2 DEF RegisterCheck
<1>4. CASE RegisterCreate(r)
  <2> DEFINE email == normalise_email(call[r].spelling)
  <2>1. CASE Answer(r, "500") /\ UNCHANGED <<users, sessions>>
    BY <1>1, <2>1 DEF Answers
  <2>2. CASE Answer(r, "201") /\ Holding(email) = {}
    <3>1. PICK u \in UserIds, t \in Tokens :
             /\ ~There(u) /\ sessions[t] = Unissued
             /\ users' = [users EXCEPT ![u] = [email |-> email, failed |-> 0, lock |-> None]]
             /\ sessions' = [sessions EXCEPT ![t] = NewSession(u)]
      BY <1>4, <2>2 DEF RegisterCreate, Answer
    <3>2. email \in Emails
      BY <1>0, <1>4, CallFields, Folding DEF RegisterCreate, ProgressInv, Waiting
    <3>3. [email |-> email, failed |-> 0, lock |-> None] \in AccountRows
      BY <3>2, TimesAssumption DEF AccountRows, Locks
    <3>4. NewSession(u) \in SessionRows
      BY TimesAssumption DEF NewSession, SessionRows
    <3>5. LocalType' /\ \A q \in Requests : ProgressInv(q)'
      <4>1. \A v : There(v) => There(v)'
        BY <1>0, <3>1, <3>3, NullsAssumption DEF There
      <4> QED
        BY <1>0, <2>2, <4>1, AnswerKeeps DEF Answers
    <3>6. OneAccountPerAddress'
      <4> SUFFICES ASSUME NEW v \in UserIds, NEW w \in UserIds, There(v)', There(w)', v # w,
                          Folded[users'[v].email] = Folded[users'[w].email]
                   PROVE  FALSE
        BY DEF OneAccountPerAddress
      <4>1. users'[u].email = email
        BY <1>0, <3>1
      <4>2. \A x \in UserIds \ {u} :
               There(x)' => There(x) /\ users'[x] = users[x] /\ users[x].email \in Emails
        BY <1>0, <3>1 DEF There, AccountRows
      <4>3. \A x \in UserIds \ {u} : There(x)' => Folded[users'[x].email] # Folded[email]
        BY <2>2, <3>2, <4>2, StoredFolded DEF Holding
      <4> QED
        BY <4>1, <4>2, <4>3 DEF OneAccountPerAddress
    <3> QED
      BY <1>0, <3>1, <3>3, <3>4, <3>5, <3>6, TypeParts
  <2> QED
    BY <1>4, <2>1, <2>2 DEF RegisterCreate
<1>5. CASE LoginLookup(r)
  <2>1. PICK load \in Loads \cup {None} :
           /\ seen' = [seen EXCEPT ![r] = load]
           /\ load # None => There(load.user)
    <3> DEFINE found == Holding(normalise_email(call[r].spelling))
    <3>1. CASE found = {}
      BY <1>5, <3>1 DEF LoginLookup
    <3>2. CASE found # {}
      <4>1. PICK u \in found :
               seen' = [seen EXCEPT ![r] = [user |-> u, failed |-> users[u].failed,
                                            lock |-> users[u].lock]]
        BY <1>5, <3>2 DEF LoginLookup
      <4>2. u \in UserIds /\ There(u) /\ users[u] \in AccountRows
        BY <1>0 DEF Holding, There
      <4>3. [user |-> u, failed |-> users[u].failed, lock |-> users[u].lock] \in Loads
        BY <4>2 DEF AccountRows, Loads
      <4> DEFINE load == [user |-> u, failed |-> users[u].failed, lock |-> users[u].lock]
      <4>4. load \in Loads \cup {None} /\ load.user = u
        BY <4>3
      <4>5. seen' = [seen EXCEPT ![r] = load] /\ There(load.user)
        BY <4>1, <4>2
      <4> HIDE DEF load
      <4> QED
        BY <4>4, <4>5
    <3> QED
      BY <3>1, <3>2
  <2>2. ProgressInv(r)'
    BY <1>0, <1>5, <2>1 DEF LoginLookup, Goto, LocalType, ProgressInv, Waiting, There
  <2>3. LocalType' /\ \A q \in Requests : ProgressInv(q)'
    BY <1>0, <1>5, <2>1, <2>2, GotoKeeps DEF LoginLookup, Waiting, LocalType
  <2>4. OneAccountPerAddress'
    BY <1>5 DEF LoginLookup, OneAccountPerAddress, There
  <2> QED
    BY <1>0, <1>5, <2>3, <2>4, TypeParts DEF LoginLookup
<1>6. CASE LoginRefused(r)
  BY <1>1, <1>6 DEF LoginRefused, Answers
<1>7. ASSUME NEW code \in Answers, Answer(r, code), seen[r] # None,
             NEW failed \in 0 .. MaxCount, NEW lock \in Locks,
             users' = [users EXCEPT ![seen[r].user] = Write(@, seen[r], failed, lock)],
             sessions' \in [Tokens -> SessionRows \cup {Unissued, Deleted}]
      PROVE  IInv'
  <2> DEFINE u == seen[r].user
             account == Write(users[u], seen[r], failed, lock)
  <2>1. u \in UserIds /\ users[u] \in AccountRows
    BY <1>0, <1>7 DEF LocalType, Loads, ProgressInv, There
  <2>2. account \in AccountRows /\ account.email = users[u].email
    BY <2>1, WriteType
  <2>3. users' = [users EXCEPT ![u] = account]
    BY <1>7
  <2>4. users' \in [UserIds -> AccountRows \cup {None}]
    BY <1>0, <2>2, <2>3
  <2>5. AddressesKept
    BY <1>0, <2>1, <2>2, <2>3, NullsAssumption DEF AddressesKept, There
  <2>6. \A v : There(v) => There(v)'
    BY <1>0, <2>1, <2>2, <2>3, NullsAssumption DEF There
  <2>7. LocalType' /\ \A q \in Requests : ProgressInv(q)'
    BY <1>0, <1>7, <2>6, AnswerKeeps
  <2> QED
    BY <1>7, <2>4, <2>5, <2>7, AddressesKeep, TypeParts
<1>8. CASE LoginFailed(r)
  <2> DEFINE failed == Smaller(seen[r].failed + 1, MaxCount)
             lock == IF backoff_after(failed) = None THEN seen[r].lock ELSE backoff_after(failed)
  <2>1. seen[r] \in Loads
    BY <1>0, <1>8 DEF LoginFailed, Counts, LocalType
  <2>2. failed \in 0 .. MaxCount
    BY <2>1, TimesAssumption DEF Loads, Smaller
  <2>3. lock \in Locks
    BY <2>1, <2>2, BackoffType, TimesAssumption DEF Loads
  <2>4. ~Overflows(failed)
    BY <2>2, NeverOverflows, TimesAssumption
  <2> HIDE DEF failed, lock
  <2>5. /\ users' = [users EXCEPT ![seen[r].user] = Write(@, seen[r], failed, lock)]
        /\ Answer(r, "401") /\ sessions' = sessions /\ seen[r] # None
    BY <1>8, <2>4 DEF LoginFailed, Counts, failed, lock
  <2> QED
    BY <1>0, <1>7, <2>2, <2>3, <2>5 DEF Answers
<1>9. CASE LoginSucceeded(r)
  <2>1. /\ seen[r] # None /\ seen[r] \in Loads
        /\ users' = [users EXCEPT ![seen[r].user] = Write(@, seen[r], 0, None)]
        /\ Answer(r, "200")
    BY <1>0, <1>9 DEF LoginSucceeded, LocalType
  <2>2. NewSession(seen[r].user) \in SessionRows
    BY <2>1, TimesAssumption DEF NewSession, SessionRows, Loads
  <2>3. sessions' \in [Tokens -> SessionRows \cup {Unissued, Deleted}]
    BY <1>0, <1>9, <2>2 DEF LoginSucceeded
  <2>4. 0 \in 0 .. MaxCount /\ None \in Locks /\ "200" \in Answers
    BY TimesAssumption DEF Locks, Answers
  <2> QED
    BY <1>7, <2>1, <2>3, <2>4
<1>10. ASSUME NEW code \in Answers, Answer(r, code), users' = users,
              sessions' \in [Tokens -> SessionRows \cup {Unissued, Deleted}]
       PROVE  IInv'
  <2>1. LocalType' /\ \A q \in Requests : ProgressInv(q)'
    BY <1>0, <1>10, AnswerKeeps DEF There
  <2>2. OneAccountPerAddress'
    BY <1>10 DEF OneAccountPerAddress, There
  <2> QED
    BY <1>0, <1>10, <2>1, <2>2, TypeParts
<1>11. CASE Logout(r)
  <2>1. sessions' \in [Tokens -> SessionRows \cup {Unissued, Deleted}]
    BY <1>0, <1>11 DEF Logout
  <2> QED
    BY <1>10, <1>11, <2>1 DEF Logout, Answers
<1>12. CASE Authenticate(r)
  <2>1. CASE Answer(r, "401") \/ Answer(r, "200")
    BY <1>1, <1>12, <2>1 DEF Authenticate, Answers
  <2>2. CASE /\ Goto(r, "touch") /\ UNCHANGED <<call, seen, waited>>
             /\ call[r].token # None
    <3>1. call[r].token \in Tokens /\ call[r] \in Calls
      BY <1>0, <1>12, <2>2, CallFields DEF Authenticate, ProgressInv, Waiting
    <3>2. ProgressInv(r)'
      BY <1>0, <1>12, <2>2, <3>1
         DEF Authenticate, Goto, LocalType, ProgressInv, Waiting, There
    <3>3. LocalType' /\ \A q \in Requests : ProgressInv(q)'
      BY <1>0, <1>12, <2>2, <3>2, GotoKeeps DEF Authenticate, Waiting, LocalType
    <3>4. OneAccountPerAddress'
      BY <1>12 DEF Authenticate, OneAccountPerAddress, There
    <3> QED
      BY <1>0, <1>12, <3>3, <3>4, TypeParts DEF Authenticate
  <2> QED
    BY <1>12, <2>1, <2>2 DEF Authenticate
<1>13. CASE Touch(r)
  <2>1. call[r].token \in Tokens /\ waited[r] \in 0 .. SESSION_IDLE_LIFETIME
    BY <1>0, <1>13 DEF Touch, ProgressInv, LocalType
  <2>2. Touched(call[r].token, waited[r]) \in SessionRows \cup {Unissued, Deleted}
    BY <1>0, <2>1 DEF Touched, Stored, SessionRows
  <2>3. sessions' \in [Tokens -> SessionRows \cup {Unissued, Deleted}]
    BY <1>0, <1>13, <2>2 DEF Touch
  <2> QED
    BY <1>10, <1>13, <2>3 DEF Touch, Answers
<1>14. CASE Abort(r)
  BY <1>1, <1>14 DEF Abort, Answers
<1> QED
  BY <1>2, <1>3, <1>4, <1>5, <1>6, <1>8, <1>9, <1>11, <1>12, <1>13, <1>14 DEF Step

LEMMA TickKeeps ==
    ASSUME IInv, Tick
    PROVE  IInv'
<1> USE DEF IInv
<1>1. /\ LocalType
      /\ users \in [UserIds -> AccountRows \cup {None}]
      /\ sessions \in [Tokens -> SessionRows \cup {Unissued, Deleted}]
  BY TypeParts
<1>2. ASSUME NEW account \in AccountRows, is_locked(account)
      PROVE  /\ [account EXCEPT !.lock = @ - 1] \in AccountRows
             /\ [account EXCEPT !.lock = @ - 1].email = account.email
  BY <1>2, TimesAssumption DEF is_locked, AccountRows, Locks
<1>3. \A u \in UserIds : /\ users'[u] \in AccountRows \cup {None}
                         /\ There(u) <=> users'[u] # None
                         /\ There(u) => users'[u].email = users[u].email
  <2> SUFFICES ASSUME NEW u \in UserIds
               PROVE  /\ users'[u] \in AccountRows \cup {None}
                      /\ There(u) <=> users'[u] # None
                      /\ There(u) => users'[u].email = users[u].email
    OBVIOUS
  <2>1. CASE There(u) /\ is_locked(users[u])
    <3>1. users[u] \in AccountRows
      BY <1>1, <2>1 DEF There
    <3>2. users'[u] = [users[u] EXCEPT !.lock = @ - 1]
      BY <2>1 DEF Tick
    <3> QED
      BY <1>2, <2>1, <3>1, <3>2, NullsAssumption
  <2>2. CASE ~(There(u) /\ is_locked(users[u]))
    <3>1. users'[u] = users[u]
      BY <2>2 DEF Tick
    <3> QED
      BY <1>1, <3>1 DEF There
  <2> QED
    BY <2>1, <2>2
<1>4. users' \in [UserIds -> AccountRows \cup {None}] /\ DOMAIN users' = UserIds
  BY <1>3 DEF Tick
<1>5. AddressesKept
  BY <1>3 DEF AddressesKept, There
<1>6. sessions' \in [Tokens -> SessionRows \cup {Unissued, Deleted}]
  <2>1. ASSUME NEW t \in Tokens PROVE sessions'[t] \in SessionRows \cup {Unissued, Deleted}
    <3>1. CASE Stored(t)
      BY <1>1, <3>1, Ageing DEF Stored
    <3>2. CASE ~Stored(t)
      BY <1>1, <3>2 DEF Tick
    <3> QED
      BY <3>1, <3>2
  <2>2. sessions' = [t \in Tokens |-> sessions'[t]]
    BY DEF Tick
  <2> QED
    BY <2>1, <2>2
<1>7. waited' \in [Requests -> 0 .. SESSION_IDLE_LIFETIME]
  <2>1. ASSUME NEW r \in Requests PROVE waited'[r] \in 0 .. SESSION_IDLE_LIFETIME
    <3>1. waited[r] \in 0 .. SESSION_IDLE_LIFETIME
      BY <1>1 DEF LocalType
    <3>2. Smaller(waited[r] + 1, SESSION_IDLE_LIFETIME) \in 0 .. SESSION_IDLE_LIFETIME
      BY <3>1, Counting, TimesAreNumbers
    <3>3. 0 \in 0 .. SESSION_IDLE_LIFETIME
      BY TimesAreNumbers
    <3> QED
      BY <3>2, <3>3 DEF Tick
  <2>2. waited' = [r \in Requests |-> waited'[r]]
    BY DEF Tick
  <2> QED
    BY <2>1, <2>2
<1>8. LocalType'
  BY <1>1, <1>7 DEF Tick, LocalType
<1>9. ASSUME NEW r \in Requests PROVE ProgressInv(r)'
  <2>1. seen[r] # None => seen[r].user \in UserIds
    BY <1>1 DEF LocalType, Loads
  <2>2. ProgressInv(r)
    OBVIOUS
  <2> QED
    BY <1>3, <2>1, <2>2 DEF Tick, ProgressInv, There
<1> QED
  BY <1>4, <1>5, <1>6, <1>8, <1>9, AddressesKeep, TypeParts

\* The invariant holds for every number of users, tokens and requests.
THEOREM Invariance == Spec => []IInv
<1>1. IInv /\ [Next]_vars => IInv'
  <2> SUFFICES ASSUME IInv, [Next]_vars PROVE IInv'
    OBVIOUS
  <2>1. CASE Next
    BY <2>1, StepKeeps, TickKeeps DEF Next
  <2>2. CASE UNCHANGED vars
    BY <2>2 DEF vars, IInv, TypeOK, OneAccountPerAddress, ProgressInv, There
  <2> QED
    BY <2>1, <2>2
<1> QED
  BY <1>1, InitIInv, PTL DEF Spec

\* users.py:13-20, auth.py:105-107: one address never becomes two accounts, however
\* many registrations of it pass the check before the first commits.
THEOREM OneAccount == Spec => []OneAccountPerAddress
<1>1. IInv => OneAccountPerAddress
  BY DEF IInv
<1> QED
  BY <1>1, Invariance, PTL

-----------------------------------------------------------------------------
(* What a step may never do.                                               *)

\* sessions.py:11-14, auth.py:172-174: a session that was ended, or has outlived the
\* absolute lifetime, never comes back.
THEOREM EndedStaysEnded == Spec => EndedForGood
<1>1. ASSUME IInv, [Next]_vars, NEW t \in Tokens, Ended(t)
      PROVE  Ended(t)'
  <2>1. sessions \in [Tokens -> SessionRows \cup {Unissued, Deleted}]
    BY <1>1 DEF IInv, TypeOK
  <2>2. sessions[t] # Unissued
    BY <1>1, NullsAssumption DEF Ended, Stored
  <2>3. CASE sessions'[t] = sessions[t] \/ sessions'[t] = Deleted
    BY <1>1, <2>3 DEF Ended, Stored
  <2>4. ASSUME Stored(t), sessions'[t] \in SessionRows, sessions'[t].age >= sessions[t].age
        PROVE  Ended(t)'
    <3>1. sessions[t] \in SessionRows /\ sessions[t].age >= SESSION_ABSOLUTE_LIFETIME
      BY <1>1, <2>1, <2>4 DEF Ended, Stored
    <3>2. sessions[t].age \in Int /\ sessions'[t].age \in Int
      BY <2>4, <3>1 DEF SessionRows
    <3>3. sessions'[t].age >= SESSION_ABSOLUTE_LIFETIME
      BY <2>4, <3>1, <3>2, TimesAreNumbers
    <3> QED
      BY <2>4, <3>3, NullsAssumption DEF Ended, Stored
  <2>5. CASE Tick
    <3>1. CASE ~Stored(t)
      BY <2>1, <2>3, <2>5, <3>1 DEF Tick
    <3>2. CASE Stored(t)
      BY <2>1, <2>4, <2>5, <3>2, Ageing DEF Stored
    <3> QED
      BY <3>1, <3>2
  <2>6. ASSUME NEW r \in Requests, Step(r) PROVE Ended(t)'
    <3>1. CASE Touch(r)
      <4>1. waited[r] \in 0 .. SESSION_IDLE_LIFETIME
        BY <1>1 DEF IInv, TypeOK
      <4>2. CASE t = call[r].token /\ Stored(t)
        <5>1. sessions[t] \in SessionRows
          BY <2>1, <4>2 DEF Stored
        <5>2. sessions'[t] = [sessions[t] EXCEPT !.idle = waited[r]]
          BY <2>1, <3>1, <4>2 DEF Touch, Touched
        <5>3. sessions'[t] \in SessionRows /\ sessions'[t].age = sessions[t].age
          BY <4>1, <5>1, <5>2 DEF SessionRows
        <5>4. sessions'[t].age >= sessions[t].age
          BY <5>1, <5>3 DEF SessionRows
        <5> QED
          BY <2>4, <4>2, <5>3, <5>4
      <4>3. CASE ~(t = call[r].token /\ Stored(t))
        BY <2>1, <2>3, <3>1, <4>3 DEF Touch, Touched, Stored
      <4> QED
        BY <4>2, <4>3
    <3>2. CASE RegisterCreate(r)
      BY <2>1, <2>2, <2>3, <3>2 DEF RegisterCreate
    <3>3. CASE LoginSucceeded(r) \/ Logout(r)
      BY <2>1, <2>2, <2>3, <3>3 DEF LoginSucceeded, Logout
    <3>4. CASE sessions' = sessions
      BY <2>3, <3>4
    <3> QED
      BY <2>6, <3>1, <3>2, <3>3, <3>4
         DEF Step, Arrive, Abort, RegisterCheck, LoginLookup, LoginRefused, LoginFailed,
             Authenticate
  <2>7. CASE UNCHANGED vars
    BY <2>3, <2>7 DEF vars
  <2> QED
    BY <1>1, <2>5, <2>6, <2>7 DEF Next
<1>2. IInv /\ [Next]_vars => [\A t \in Tokens : Ended(t) => Ended(t)']_vars
  BY <1>1
<1> QED
  BY <1>2, Invariance, PTL DEF Spec, EndedForGood

\* sessions.py:108-117: signing in or out ends the session of the cookie it came with
\* and dead ones; nobody else is signed out.
THEOREM NobodyElseSignedOut == Spec => OthersStaySignedIn
<1>1. ASSUME IInv, [Next]_vars, NEW t \in Tokens, Stored(t), ~Stored(t)', ~Dead(t)
      PROVE  \E r \in Requests : /\ call[r] # None /\ call[r].token = t
                                 /\ pc[r] \in {"verify", "logout"}
                                 /\ pc'[r] \in {"200", "204"}
  <2>1. /\ sessions \in [Tokens -> SessionRows \cup {Unissued, Deleted}]
        /\ sessions[t] \in SessionRows /\ sessions[t] # Unissued
        /\ pc \in [Requests -> {"new"} \cup Waiting \cup Answers]
    BY <1>1 DEF IInv, TypeOK, Stored
  <2>2. sessions'[t] # sessions[t]
    BY <1>1 DEF Stored
  <2>3. sessions'[t] \notin SessionRows
    BY <1>1, NullsAssumption DEF Stored
  <2>4. ~Tick
    <3> SUFFICES ASSUME Tick PROVE FALSE
      OBVIOUS
    <3> QED
      BY <1>1, <2>1, <2>3, Ageing
  <2>5. PICK r \in Requests : Step(r)
    BY <1>1, <2>2, <2>4 DEF Next, vars
  <2>6. ~RegisterCreate(r)
    BY <2>1, <2>2, <2>5 DEF RegisterCreate
  <2>7. ~Touch(r)
    <3> SUFFICES ASSUME Touch(r) PROVE FALSE
      OBVIOUS
    <3>1. waited[r] \in 0 .. SESSION_IDLE_LIFETIME
      BY <1>1 DEF IInv, TypeOK
    <3>2. sessions'[t] = [sessions[t] EXCEPT !.idle = waited[r]]
      BY <1>1, <2>1, <2>2 DEF Touch, Touched
    <3>3. sessions'[t] \in SessionRows
      BY <2>1, <3>1, <3>2 DEF SessionRows
    <3> QED
      BY <2>3, <3>3
  <2>8. LoginSucceeded(r) \/ Logout(r)
    BY <2>2, <2>5, <2>6, <2>7
       DEF Step, Arrive, Abort, RegisterCheck, LoginLookup, LoginRefused, LoginFailed,
           Authenticate
  <2>9. call[r].token = t
    <3>1. CASE LoginSucceeded(r)
      BY <1>1, <2>1, <2>2, <3>1 DEF LoginSucceeded, Purged, Stored
    <3>2. CASE Logout(r)
      BY <2>1, <2>2, <3>2 DEF Logout
    <3> QED
      BY <2>8, <3>1, <3>2
  <2>10. /\ pc[r] \in {"verify", "logout"}
         /\ pc'[r] \in {"200", "204"}
    BY <2>1, <2>8 DEF LoginSucceeded, Logout, Answer
  <2>11. call[r] # None
    BY <1>1, <2>10, NullsAssumption DEF IInv, ProgressInv, Waiting
  <2> QED
    BY <2>9, <2>10, <2>11
<1>2. IInv /\ [Next]_vars =>
         [\A t \in Tokens : Stored(t) /\ ~Stored(t)' /\ ~Dead(t) =>
             \E r \in Requests : /\ call[r] # None /\ call[r].token = t
                                 /\ pc[r] \in {"verify", "logout"}
                                 /\ pc'[r] \in {"200", "204"}]_vars
  BY <1>1
<1> QED
  BY <1>2, Invariance, PTL DEF Spec, OthersStaySignedIn

\* users.py:54-60: a bad login is answered 401, however many have come before it: the
\* clamp on the exponent is what keeps the delay within a timedelta.
THEOREM BadLoginsAlike == Spec => RefusalsAlike
<1>1. ASSUME IInv, [Next]_vars, NEW r \in Requests, pc[r] = "verify", pc'[r] # "verify"
      PROVE  pc'[r] \in {"401", "aborted"} \/ (pc'[r] = "200" /\ call[r].right)
  <2>1. pc \in [Requests -> {"new"} \cup Waiting \cup Answers] /\ seen \in [Requests -> Loads \cup {None}]
    BY <1>1 DEF IInv, TypeOK
  <2>2. PICK q \in Requests : Step(q)
    BY <1>1 DEF Next, Tick, vars
  <2>3. q = r
    <3>1. \A code : Answer(q, code) \/ Goto(q, code) => \A p \in Requests \ {q} : pc'[p] = pc[p]
      BY <2>1 DEF Answer, Goto
    <3>2. \A p \in Requests \ {q} : pc'[p] = pc[p]
      BY <2>2, <3>1
         DEF Step, Arrive, Abort, RegisterCheck, RegisterCreate, LoginLookup, LoginRefused,
             LoginFailed, LoginSucceeded, Logout, Authenticate, Touch
    <3> QED
      BY <1>1, <3>2
  <2>4. Abort(r) \/ LoginRefused(r) \/ LoginFailed(r) \/ LoginSucceeded(r)
    BY <1>1, <2>2, <2>3
       DEF Step, Arrive, Waiting, RegisterCheck, RegisterCreate, LoginLookup, Logout,
           Authenticate, Touch
  <2>5. CASE LoginFailed(r)
    <3>1. PICK failed \in Nat : failed = Smaller(seen[r].failed + 1, MaxCount)
      BY <2>1, <2>5, TimesAssumption DEF LoginFailed, Counts, Loads, Smaller
    <3>2. Answer(r, "401")
      BY <2>5, <3>1, NeverOverflows DEF LoginFailed
    <3> QED
      BY <2>1, <3>2 DEF Answer
  <2> QED
    BY <2>1, <2>4, <2>5 DEF Abort, LoginRefused, LoginSucceeded, Answer
<1>2. IInv /\ [Next]_vars =>
         [\A r \in Requests : pc[r] = "verify" /\ pc'[r] # "verify" =>
             \/ pc'[r] \in {"401", "aborted"}
             \/ pc'[r] = "200" /\ call[r].right]_vars
  BY <1>1
<1> QED
  BY <1>2, Invariance, PTL DEF Spec, RefusalsAlike
=============================================================================
