------------------------------ MODULE Accounts ------------------------------
(***************************************************************************)
(* Accounts and sign-in sessions: backend/app/routers/auth.py over         *)
(* services/users.py and services/sessions.py, and the authentication of   *)
(* every other request (deps.py).                                          *)
(*                                                                         *)
(* Each request has its own database session.  It reads an account or a    *)
(* session row, then waits (for Argon2 in a thread, or for the database),  *)
(* then writes what it makes of the row as it was read; whatever commits   *)
(* in between, it does not see.  The writes of one request follow its last *)
(* wait and are committed together, so they are one step.                  *)
(*                                                                         *)
(* Time is counted in ticks, and only distances in time are kept: how long *)
(* a session has lived and has been idle, for how long an account is still *)
(* locked.  They stop counting where nothing tells them apart.  A password *)
(* is right or wrong, a token one of a set; hashes, cookies' attributes    *)
(* and the rehash of an old password are left out.                         *)
(***************************************************************************)
EXTENDS Integers, FiniteSets

CONSTANTS Spellings,     \* e-mail addresses as they are typed
          Folded,        \* Folded[s] is s.strip().lower()
          UserIds, Tokens,   \* keys; none is used twice
          Requests,      \* how many requests may be in progress at once
          Kinds,         \* the operations the requests may ask for
          StartUsers,    \* the accounts there are at the start: their emails, or None
          LOGIN_FREE_ATTEMPTS, LOGIN_BACKOFF_CAP,
          MAX_DOUBLINGS,   \* of the back-off's first lock: 30 in the code
          TIMEDELTA_MAX,   \* the longest time that Python's timedelta can hold
          SESSION_ABSOLUTE_LIFETIME, SESSION_IDLE_LIFETIME, SESSION_TOUCH_INTERVAL,
          MaxCount,      \* bound: failures beyond it are not counted
          Unissued, Deleted, None

Emails == {Folded[s] : s \in Spellings}

ASSUME FoldingAssumption == /\ Folded \in [Spellings -> Spellings]
                            /\ \A s \in Spellings : Folded[Folded[s]] = Folded[s]
ASSUME StartAssumption ==
    /\ StartUsers \in [UserIds -> Emails \cup {None}]
    /\ \A u, v \in UserIds : StartUsers[u] = StartUsers[v] => u = v \/ StartUsers[u] = None
    /\ None \notin Spellings \cup UserIds \cup Tokens
ASSUME TimesAssumption ==
    /\ {LOGIN_FREE_ATTEMPTS, LOGIN_BACKOFF_CAP, SESSION_ABSOLUTE_LIFETIME,
        SESSION_IDLE_LIFETIME, SESSION_TOUCH_INTERVAL, MaxCount} \subseteq Nat
    /\ LOGIN_BACKOFF_CAP > 0 /\ SESSION_ABSOLUTE_LIFETIME > 0 /\ SESSION_IDLE_LIFETIME > 0
    /\ LOGIN_FREE_ATTEMPTS < MaxCount
ASSUME BackoffAssumption ==
    /\ {MAX_DOUBLINGS, TIMEDELTA_MAX} \subseteq Nat
    /\ \A k \in 0 .. MAX_DOUBLINGS : 2 ^ k \in 0 .. TIMEDELTA_MAX

VARIABLES users,     \* the committed accounts: a record or None
          sessions,  \* the committed sessions: a record, Unissued or Deleted
          pc,        \* where each request is, or how the last one was answered
          call,      \* what each request in progress asks for
          seen,      \* the account a login has loaded, as it was then
          waited     \* ticks since a request took the time it writes to last_used_at

vars == <<users, sessions, pc, call, seen, waited>>

Waiting == {"check", "create", "lookup", "verify", "logout", "auth", "touch"}
Answers == {"200", "201", "204", "401", "409", "500", "aborted"}

-----------------------------------------------------------------------------
(* The tables.                                                             *)

Smaller(m, n) == IF m < n THEN m ELSE n

There(u)  == users[u] # None
Stored(t) == sessions[t] \notin {Unissued, Deleted}

\* Mutant of normalise_email: the address is stored as it was typed.
normalise_email_Verbatim(spelling) == spelling

normalise_email(spelling) == Folded[spelling]

\* The rows get_by_email may return; create_user meets the unique index on them.
Holding(email) == {u \in UserIds : There(u) /\ users[u].email = email}

\* Mutant of backoff_after: the delay is not capped.
backoff_after_Uncapped(failed) ==
    IF failed <= LOGIN_FREE_ATTEMPTS THEN None ELSE 2 ^ (failed - LOGIN_FREE_ATTEMPTS - 1)

\* Mutant of doublings: the exponent is not clamped, only the delay.
doublings_Unclamped(failed) == failed - LOGIN_FREE_ATTEMPTS - 1

doublings(failed) == Smaller(failed - LOGIN_FREE_ATTEMPTS - 1, MAX_DOUBLINGS)

\* The lock that a number of failures in a row earns.
backoff_after(failed) ==
    IF failed <= LOGIN_FREE_ATTEMPTS THEN None
    ELSE Smaller(2 ^ doublings(failed), LOGIN_BACKOFF_CAP)

\* timedelta(seconds=...) raises OverflowError, before the cap is looked at.
Overflows(failed) == failed > LOGIN_FREE_ATTEMPTS /\ 2 ^ doublings(failed) > TIMEDELTA_MAX

\* locked_until may be in the past (0) or NULL.
is_locked(account) == account.lock # None /\ account.lock > 0

\* What purge_expired_for_user deletes and user_for_token does not find.
Dead(t) == \/ sessions[t].age >= SESSION_ABSOLUTE_LIFETIME
           \/ sessions[t].idle >= SESSION_IDLE_LIFETIME

\* last_used_at is the database's now(), which is when the request's transaction began:
\* the Argon2 check before the INSERT is shorter than a tick.
NewSession(u) == [user |-> u, age |-> 0, idle |-> 0]

-----------------------------------------------------------------------------
(* The requests.                                                           *)

Form(op, spelling, right, token) ==
    [op : {op}, spelling : spelling, right : right, token : token]

\* The token is what the cookie holds: anything that was ever issued, or made up.
Calls ==
    Form("register", Spellings, {TRUE}, {None})
    \cup Form("login", Spellings, BOOLEAN, Tokens \cup {None})
    \cup Form("logout", {None}, {TRUE}, Tokens \cup {None})
    \cup Form("other", {None}, {TRUE}, Tokens \cup {None})

\* The rows of the two tables, and what a login loads of an account.
Locks       == {None} \cup 0 .. LOGIN_BACKOFF_CAP
AccountRows == [email : Emails, failed : 0 .. MaxCount, lock : Locks]
SessionRows == [user : UserIds, age : 0 .. SESSION_ABSOLUTE_LIFETIME,
                idle : 0 .. SESSION_IDLE_LIFETIME]
Loads       == [user : UserIds, failed : 0 .. MaxCount, lock : Locks]

\* What stands for nothing is nothing else.
ASSUME NullsAssumption ==
    /\ Unissued # Deleted /\ Unissued \notin SessionRows /\ Deleted \notin SessionRows
    /\ None \notin AccountRows /\ None \notin Loads /\ None \notin Calls /\ None \notin Nat

Goto(r, label) == pc' = [pc EXCEPT ![r] = label]

Answer(r, code) == /\ pc' = [pc EXCEPT ![r] = code]
                   /\ call' = [call EXCEPT ![r] = None]
                   /\ seen' = [seen EXCEPT ![r] = None]
                   /\ waited' = [waited EXCEPT ![r] = 0]

Arrive(r) ==
    /\ pc[r] \notin Waiting
    /\ \E c \in Calls :
          /\ c.op \in Kinds
          /\ call' = [call EXCEPT ![r] = c]
          /\ Goto(r, CASE c.op = "register" -> "check"
                       [] c.op = "login"    -> "lookup"
                       [] c.op = "logout"   -> "logout"
                       [] c.op = "other"    -> "auth")
    /\ UNCHANGED <<users, sessions, seen, waited>>

\* register: is the address taken?
RegisterCheck(r) ==
    /\ pc[r] = "check"
    /\ \/ /\ Holding(normalise_email(call[r].spelling)) # {}
          /\ Answer(r, "409")
       \/ /\ Holding(normalise_email(call[r].spelling)) = {}
          /\ Goto(r, "create")
          /\ UNCHANGED <<call, seen, waited>>
    /\ UNCHANGED <<users, sessions>>

\* register, once the password is hashed: the account and its first session.  The
\* INSERT is flushed in create_user, before the try block around the commit, and the
\* unique index is checked there and then.
RegisterCreate(r) ==
    LET email == normalise_email(call[r].spelling)
    IN  /\ pc[r] = "create"
        /\ \/ /\ Holding(email) = {}
              /\ \E u \in UserIds, t \in Tokens :
                    /\ ~There(u) /\ sessions[t] = Unissued
                    /\ users' = [users EXCEPT ![u] = [email |-> email, failed |-> 0, lock |-> None]]
                    /\ sessions' = [sessions EXCEPT ![t] = NewSession(u)]
              /\ Answer(r, "201")
           \/ /\ Holding(email) # {}
              /\ Answer(r, "500")
              /\ UNCHANGED <<users, sessions>>

\* login: the account with this address, or none.
LoginLookup(r) ==
    /\ pc[r] = "lookup"
    /\ LET found == Holding(normalise_email(call[r].spelling))
       IN  IF found = {} THEN seen' = [seen EXCEPT ![r] = None]
           ELSE \E u \in found :
                seen' = [seen EXCEPT ![r] = [user |-> u, failed |-> users[u].failed,
                                             lock |-> users[u].lock]]
    /\ Goto(r, "verify")
    /\ UNCHANGED <<users, sessions, call, waited>>

\* An attribute that keeps its loaded value is not in the UPDATE.
Write(account, loaded, failed, lock) ==
    [account EXCEPT !.failed = IF failed = loaded.failed THEN @ ELSE failed,
                    !.lock   = IF lock = loaded.lock THEN @ ELSE lock]

\* No such account, or locked when it was read: DUMMY_HASH was verified.
LoginRefused(r) ==
    /\ pc[r] = "verify"
    /\ seen[r] # None => is_locked(seen[r])
    /\ Answer(r, "401")
    /\ UNCHANGED <<users, sessions>>

\* Mutant of Counts: the lock is not looked at.
Counts_WhileLocked(r) == seen[r] # None /\ ~call[r].right

\* The password is wrong, and the account was not locked when it was read.
Counts(r) == seen[r] # None /\ ~is_locked(seen[r]) /\ ~call[r].right

\* A failure, counted from the count that was read.  What backoff_after raises is not
\* caught: nothing is committed.
LoginFailed(r) ==
    LET failed == Smaller(seen[r].failed + 1, MaxCount)
        lock   == IF backoff_after(failed) = None THEN seen[r].lock ELSE backoff_after(failed)
    IN  /\ pc[r] = "verify"
        /\ Counts(r)
        /\ users' = IF Overflows(failed) THEN users
                    ELSE [users EXCEPT ![seen[r].user] = Write(@, seen[r], failed, lock)]
        /\ Answer(r, IF Overflows(failed) THEN "500" ELSE "401")
        /\ UNCHANGED sessions

\* Mutant of Purged: every session of the user goes.
Purged_All(u, presented) == {t \in Tokens : Stored(t) /\ (t = presented \/ sessions[t].user = u)}

\* The sessions a login deletes: the one it was presented with, whoever's it is, and
\* the dead ones of this user.
Purged(u, presented) ==
    {t \in Tokens : Stored(t) /\ (t = presented \/ (sessions[t].user = u /\ Dead(t)))}

LoginSucceeded(r) ==
    LET u == seen[r].user
    IN  /\ pc[r] = "verify"
        /\ seen[r] # None /\ ~is_locked(seen[r]) /\ call[r].right
        /\ users' = [users EXCEPT ![u] = Write(@, seen[r], 0, None)]
        /\ \E new \in Tokens :
              /\ sessions[new] = Unissued
              /\ sessions' = [t \in Tokens |-> IF t = new THEN NewSession(u)
                                               ELSE IF t \in Purged(u, call[r].token) THEN Deleted
                                               ELSE sessions[t]]
        /\ Answer(r, "200")

\* logout: no session is required.
Logout(r) ==
    /\ pc[r] = "logout"
    /\ sessions' = [t \in Tokens |-> IF t = call[r].token /\ Stored(t) THEN Deleted ELSE sessions[t]]
    /\ Answer(r, "204")
    /\ UNCHANGED users

\* get_current_user, user_for_token: not signed in; signed in; or signed in, with the
\* idle window to be slid.
Authenticate(r) ==
    LET t == call[r].token
        valid == t # None /\ Stored(t) /\ ~Dead(t)
    IN  /\ pc[r] = "auth"
        /\ \/ ~valid /\ Answer(r, "401")
           \/ valid /\ sessions[t].idle < SESSION_TOUCH_INTERVAL /\ Answer(r, "200")
           \/ /\ valid /\ sessions[t].idle >= SESSION_TOUCH_INTERVAL
              /\ Goto(r, "touch")
              /\ UNCHANGED <<call, seen, waited>>
        /\ UNCHANGED <<users, sessions>>

\* Mutant of Touched: INSERT ... ON CONFLICT DO UPDATE.
Touched_Upserts(t, idle) == IF Stored(t) THEN [sessions[t] EXCEPT !.idle = idle]
                            ELSE [user |-> CHOOSE u \in UserIds : TRUE, age |-> 0, idle |-> idle]

Touched(t, idle) == IF Stored(t) THEN [sessions[t] EXCEPT !.idle = idle] ELSE sessions[t]

\* The UPDATE of last_used_at, to the time taken before the row was read.  If the row
\* is gone it finds none to update, and SQLAlchemy raises StaleDataError.
Touch(r) ==
    LET t == call[r].token
    IN  /\ pc[r] = "touch"
        /\ sessions' = [sessions EXCEPT ![t] = Touched(t, waited[r])]
        /\ Answer(r, IF Stored(t) THEN "200" ELSE "500")
        /\ UNCHANGED users

\* The connection is lost; what is uncommitted is rolled back.
Abort(r) ==
    /\ pc[r] \in Waiting
    /\ Answer(r, "aborted")
    /\ UNCHANGED <<users, sessions>>

Tick ==
    /\ users' = [u \in UserIds |->
           IF There(u) /\ is_locked(users[u]) THEN [users[u] EXCEPT !.lock = @ - 1] ELSE users[u]]
    /\ sessions' = [t \in Tokens |->
           IF Stored(t) THEN [sessions[t] EXCEPT !.age  = Smaller(@ + 1, SESSION_ABSOLUTE_LIFETIME),
                                                 !.idle = Smaller(@ + 1, SESSION_IDLE_LIFETIME)]
           ELSE sessions[t]]
    /\ waited' = [r \in Requests |->
           IF pc[r] = "touch" THEN Smaller(waited[r] + 1, SESSION_IDLE_LIFETIME) ELSE 0]
    /\ UNCHANGED <<pc, call, seen>>

-----------------------------------------------------------------------------
Init ==
    /\ users = [u \in UserIds |-> IF StartUsers[u] = None THEN None
                                  ELSE [email |-> StartUsers[u], failed |-> 0, lock |-> None]]
    /\ sessions = [t \in Tokens |-> Unissued]
    /\ pc = [r \in Requests |-> "new"]
    /\ call = [r \in Requests |-> None]
    /\ seen = [r \in Requests |-> None]
    /\ waited = [r \in Requests |-> 0]

Step(r) ==
    \/ Arrive(r) \/ Abort(r)
    \/ RegisterCheck(r) \/ RegisterCreate(r)
    \/ LoginLookup(r) \/ LoginRefused(r) \/ LoginFailed(r) \/ LoginSucceeded(r)
    \/ Logout(r)
    \/ Authenticate(r) \/ Touch(r)

Next == Tick \/ \E r \in Requests : Step(r)

Spec == Init /\ [][Next]_vars

\* Nothing obliges a client to ask or a request to finish; time passes.
FairSpec == Spec /\ WF_vars(Tick)

-----------------------------------------------------------------------------
(* Properties.                                                             *)

\* Every variable has its type; in particular no number of failures makes the lock
\* time longer than the cap (record_failed_login).
TypeOK ==
    /\ users \in [UserIds -> AccountRows \cup {None}]
    /\ sessions \in [Tokens -> SessionRows \cup {Unissued, Deleted}]
    /\ pc \in [Requests -> {"new"} \cup Waiting \cup Answers]
    /\ call \in [Requests -> Calls \cup {None}]
    /\ seen \in [Requests -> Loads \cup {None}]
    /\ waited \in [Requests -> 0 .. SESSION_IDLE_LIFETIME]

\* users.py:13-20, auth.py:105-107: one address never becomes two accounts, however it
\* is spelt and however many registrations pass the check before one of them commits.
OneAccountPerAddress ==
    \A u, v \in UserIds :
        There(u) /\ There(v) /\ Folded[users[u].email] = Folded[users[v].email] => u = v

\* What a request has established at each of its waits; an account that a login has read
\* is there still, since none is ever deleted.
ProgressInv(r) ==
    /\ pc[r] \in Waiting => call[r] \in Calls
    /\ pc[r] \in {"check", "create"} => call[r].op = "register"
    /\ pc[r] \in {"lookup", "verify"} => call[r].op = "login"
    /\ pc[r] = "logout" => call[r].op = "logout"
    /\ pc[r] = "auth" => call[r].op = "other"
    /\ pc[r] = "touch" => call[r].token \in Tokens
    /\ seen[r] # None => There(seen[r].user)

\* The inductive invariant behind the properties of accounts and sessions.
IInv == TypeOK /\ OneAccountPerAddress /\ \A r \in Requests : ProgressInv(r)

Ended(t) == \/ sessions[t] = Deleted
            \/ Stored(t) /\ sessions[t].age >= SESSION_ABSOLUTE_LIFETIME

\* sessions.py:11-14, auth.py:172-174: a session that was ended, or has outlived the
\* absolute lifetime, never comes back, though a request that found it valid before may
\* slide its idle window after.
EndedForGood == [][\A t \in Tokens : Ended(t) => Ended(t)']_vars

\* sessions.py:108-117: signing in or out ends the session of the cookie it came with
\* and sessions that are dead; every other one stays, of this user or another.
OthersStaySignedIn ==
    [][\A t \in Tokens : Stored(t) /\ ~Stored(t)' /\ ~Dead(t) =>
          \E r \in Requests : /\ call[r] # None /\ call[r].token = t
                              /\ pc[r] \in {"verify", "logout"}
                              /\ pc'[r] \in {"200", "204"}]_vars

\* users.py:54-60, auth.py:147-158: every bad login is answered 401, be the account
\* missing, locked, or locked again and again: no number of failures in a row makes the
\* delay one that cannot be computed, and the answer a 500 that tells the account is there.
RefusalsAlike ==
    [][\A r \in Requests : pc[r] = "verify" /\ pc'[r] # "verify" =>
          \/ pc'[r] \in {"401", "aborted"}
          \/ pc'[r] = "200" /\ call[r].right]_vars

Locked(u) == There(u) /\ users[u].lock # None /\ users[u].lock > 0

\* users.py:47-50, auth.py:154-155: a lock runs out, however often and however many at
\* once others fail to sign in as this user meanwhile.
Unlocks == \A u \in UserIds : Locked(u) ~> ~Locked(u)

\* Said by auth.py:105-107: of two registrations of one address that race between the
\* check and the commit, the loser gets "the same 409 the check would have given rather
\* than a 500".
RacersGet409 ==
    [][\A r \in Requests : pc[r] = "create" /\ pc'[r] # "create" =>
          pc'[r] \in {"201", "409", "aborted"}]_vars
=============================================================================
