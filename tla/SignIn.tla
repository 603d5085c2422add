------------------------------- MODULE SignIn -------------------------------
(***************************************************************************)
(* Who is signed in, as the page believes and as the server knows:         *)
(* frontend/src/auth.tsx with the login and register pages, the requests   *)
(* of api.ts, the CSRF guard they pass (csrf.py) and the session cookie    *)
(* (routers/auth.py, deps.py).                                             *)
(*                                                                         *)
(* The tabs of one browser share the cookie and nothing else.  A request   *)
(* carries the cookie as it is when it is sent; the browser changes the    *)
(* cookie when an answer arrives.  In between other requests are sent,     *)
(* executed and answered, in any order.  An answer arrives whole or not at *)
(* all, and a request whose connection fails has been executed by then or  *)
(* never is; what a late one would do to a session, Expire does.          *)
(*                                                                         *)
(* What the server does with accounts and sessions is Accounts; here it is *)
(* one step, and a session lives or has ended.                             *)
(***************************************************************************)
EXTENDS Integers, Sequences

CONSTANTS Tabs, Accounts,
          Registered,    \* the accounts there are at the start
          MaxInFlight,   \* bound: requests on the wire at once
          MaxSends,      \* bound: requests sent in all
          MaxSessions,   \* bound: sessions there have ever been
          None

ASSUME AccountsAssumption == /\ Registered \subseteq Accounts
                             /\ {"checking", "out", None} \cap Accounts = {}
                             /\ None \notin Nat
ASSUME BoundsAssumption == {MaxInFlight, MaxSends, MaxSessions} \subseteq Nat \ {0}

VARIABLES registered,  \* the accounts there are
          sessions,    \* the sessions there have been; a token is an index
          jar,         \* the session cookie, or None
          known,       \* each tab's user: "checking", "out" or an account
          busy,        \* the request that the tab's form or sign-out button waits for
          wire,        \* the requests in flight
          sends,
          unaware      \* the tabs to which the cookie has changed behind their back

server == <<registered, sessions>>
vars   == <<server, jar, known, busy, wire, sends, unaware>>

Slots == 1 .. MaxInFlight
Ops   == {"me", "login", "register", "logout", "read", "delete"}

Live(t)  == t # None /\ sessions[t].live
Owner(t) == sessions[t].owner

-----------------------------------------------------------------------------
(* A request of the page and the guard.                                    *)

method(op) == CASE op \in {"me", "read"} -> "GET"
                [] op = "delete" -> "DELETE"
                [] OTHER -> "POST"

SendsBody(op) == op \in {"login", "register"}

\* Mutant of HasCsrfHeader: the header goes with the body.
HasCsrfHeader_WithBody(op) == SendsBody(op)

\* request(): gated on the method.
HasCsrfHeader(op) == method(op) # "GET"

\* A string is sent as text/plain unless a content type is set.
MediaType(op) == IF SendsBody(op) THEN "application/json" ELSE ""

SAFE_METHODS == {"GET", "HEAD", "OPTIONS"}
FORBIDDEN_CONTENT_TYPES ==
    {"application/x-www-form-urlencoded", "multipart/form-data", "text/plain"}

\* Origin and Referer are the page's own.
csrf_guard(op) ==
    \/ method(op) \in SAFE_METHODS
    \/ HasCsrfHeader(op) /\ MediaType(op) \notin FORBIDDEN_CONTENT_TYPES

\* The header is looked at first.
refused(op) == IF HasCsrfHeader(op) THEN "415" ELSE "403"

-----------------------------------------------------------------------------
(* The page.                                                               *)

Free(s) == wire[s] = None /\ \A i \in 1 .. s - 1 : wire[i] # None

\* fetch, with the cookie of this moment.
Send(s, tab, op, who) ==
    /\ sends < MaxSends
    /\ sends' = sends + 1
    /\ wire' = [wire EXCEPT ![s] = [tab |-> tab, op |-> op, who |-> who, token |-> jar,
                                    status |-> "sent", sets |-> None]]

SignedIn(tab) == known[tab] \in Accounts

\* LoginPage and RegisterPage, rendered only behind RedirectIfSignedIn.
Submit(tab) ==
    /\ known[tab] = "out" /\ busy[tab] = None
    /\ \E s \in Slots, op \in {"login", "register"}, who \in Accounts :
          Free(s) /\ Send(s, tab, op, who) /\ busy' = [busy EXCEPT ![tab] = s]
    /\ UNCHANGED <<server, jar, known, unaware>>

\* SignOutButton, rendered only behind RequireAuth.
SignOut(tab) ==
    /\ SignedIn(tab) /\ busy[tab] = None
    /\ \E s \in Slots :
          Free(s) /\ Send(s, tab, "logout", None) /\ busy' = [busy EXCEPT ![tab] = s]
    /\ UNCHANGED <<server, jar, known, unaware>>

\* Whatever else the pages behind RequireAuth ask for.
Work(tab) ==
    /\ SignedIn(tab)
    /\ \E s \in Slots, op \in {"read", "delete"} : Free(s) /\ Send(s, tab, op, None)
    /\ UNCHANGED <<server, jar, known, busy, unaware>>

\* A link to another page: its form or button is not busy, and what the last one
\* waits for is still on its way.
Navigate(tab) ==
    /\ busy[tab] # None
    /\ busy' = [busy EXCEPT ![tab] = None]
    /\ UNCHANGED <<server, jar, known, wire, sends, unaware>>

\* AuthProvider mounts and asks who it is; what the page had on the wire is abandoned, a
\* check that has not been answered included.
Reload(tab) ==
    LET others == [s \in Slots |-> IF wire[s] # None /\ wire[s].tab = tab THEN None ELSE wire[s]]
    IN  /\ sends < MaxSends
        /\ sends' = sends + 1
        /\ \E s \in Slots :
              /\ others[s] = None /\ \A i \in 1 .. s - 1 : others[i] # None
              /\ wire' = [others EXCEPT ![s] = [tab |-> tab, op |-> "me", who |-> None,
                                                token |-> jar, status |-> "sent", sets |-> None]]
        /\ known' = [known EXCEPT ![tab] = "checking"]
        /\ busy' = [busy EXCEPT ![tab] = None]
        /\ unaware' = unaware \ {tab}
        /\ UNCHANGED <<server, jar>>

-----------------------------------------------------------------------------
(* The server.                                                             *)

Reply(s, status) == wire' = [wire EXCEPT ![s].status = status]

Ending(t) == [i \in DOMAIN sessions |-> IF i = t THEN [sessions[i] EXCEPT !.live = FALSE]
                                        ELSE sessions[i]]

\* create_session and set_session_cookie.
Grant(s, kept) ==
    /\ Len(sessions) < MaxSessions
    /\ sessions' = Append(kept, [owner |-> wire[s].who, live |-> TRUE])
    /\ wire' = [wire EXCEPT ![s].status = "200", ![s].sets = Len(sessions) + 1]

Asked(s, ops) == /\ wire[s] # None
                 /\ wire[s].status = "sent" /\ wire[s].op \in ops
                 /\ csrf_guard(wire[s].op)

ServeRegister(s) ==
    /\ Asked(s, {"register"})
    /\ wire[s].who \notin registered
    /\ registered' = registered \cup {wire[s].who}
    /\ Grant(s, sessions)
    /\ UNCHANGED <<jar, known, busy, sends, unaware>>

\* The session it was presented with is over.
ServeLogin(s) ==
    /\ Asked(s, {"login"})
    /\ wire[s].who \in registered
    /\ Grant(s, Ending(wire[s].token))
    /\ UNCHANGED <<registered, jar, known, busy, sends, unaware>>

ServeLogout(s) ==
    /\ Asked(s, {"logout"})
    /\ sessions' = Ending(wire[s].token)
    /\ Reply(s, "200")
    /\ UNCHANGED <<registered, jar, known, busy, sends, unaware>>

\* get_current_user; /me answers with it.
ServeUser(s) ==
    /\ Asked(s, {"me", "read", "delete"})
    /\ IF Live(wire[s].token)
       THEN wire' = [wire EXCEPT ![s].status = "200", ![s].who = Owner(wire[s].token)]
       ELSE Reply(s, "401")
    /\ UNCHANGED <<server, jar, known, busy, sends, unaware>>

\* The guard refuses; or the server does, before anything has changed: a wrong
\* password (401), a taken address, a rate limit, an error.
ServeRefusal(s) ==
    /\ wire[s] # None /\ wire[s].status = "sent"
    /\ Reply(s, IF ~csrf_guard(wire[s].op) THEN refused(wire[s].op)
                ELSE IF wire[s].op = "login" THEN "401" ELSE "500")
    /\ UNCHANGED <<server, jar, known, busy, sends, unaware>>

\* A session expires, or ends on another device.
Expire ==
    /\ \E t \in DOMAIN sessions : Live(t) /\ sessions' = Ending(t)
    /\ UNCHANGED <<registered, jar, known, busy, wire, sends, unaware>>

\* The browser drops the cookie after max_age, which is the absolute lifetime of its
\* session, counted from a later moment.
CookieExpires ==
    /\ jar # None /\ ~Live(jar)
    /\ jar' = None
    /\ unaware' = Tabs
    /\ UNCHANGED <<server, known, busy, wire, sends>>

-----------------------------------------------------------------------------
(* The answer arrives.                                                     *)

\* Mutant of JarAfter: the cookie holds the account.
JarAfter_TheAccount(q, status) ==
    IF status # "200" THEN jar
    ELSE IF q.op \in {"login", "register"} THEN q.who
    ELSE IF q.op = "logout" THEN None
    ELSE jar

\* set_session_cookie and clear_session_cookie, in the browser; for max_age, see
\* CookieExpires.
JarAfter(q, status) ==
    IF status # "200" THEN jar
    ELSE IF q.op \in {"login", "register"} THEN q.sets
    ELSE IF q.op = "logout" THEN None
    ELSE jar

ownsUnauthorized(op) == op \in {"me", "login"}

\* Mutants of KnownAfter: a sign-out whose answer finds its button gone is ignored; a
\* sign-out that failed clears the user; a check that failed is left undecided.
KnownAfter_MountedOnly(q, status) ==
    IF q.op = "logout" /\ busy[q.tab] = None THEN known[q.tab]
    ELSE CASE q.op = "logout" -> IF status = "200" THEN "out" ELSE known[q.tab]
           [] q.op = "me" -> IF status = "200" THEN q.who ELSE "out"
           [] q.op \in {"login", "register"} -> IF status = "200" THEN q.who ELSE known[q.tab]
           [] OTHER -> IF status = "401" THEN "out" ELSE known[q.tab]
KnownAfter_OutAnyway(q, status) ==
    CASE q.op \in {"me", "login", "register"} /\ status = "200" -> q.who
      [] q.op \in {"me", "logout"} -> "out"
      [] status = "401" /\ ~ownsUnauthorized(q.op) -> "out"
      [] OTHER -> known[q.tab]
KnownAfter_Undecided(q, status) ==
    CASE q.op \in {"me", "login", "register"} /\ status = "200" -> q.who
      [] q.op = "logout" /\ status = "200" -> "out"
      [] status = "401" /\ q.op # "login" -> "out"
      [] OTHER -> known[q.tab]

\* signedIn(), signedOut(), the handler of every 401 that no caller owns, and the catch
\* of the check.
KnownAfter(q, status) ==
    CASE q.op \in {"me", "login", "register"} /\ status = "200" -> q.who
      [] q.op = "logout" /\ status = "200" -> "out"
      [] q.op = "me" /\ status # "200" -> "out"
      [] status = "401" /\ ~ownsUnauthorized(q.op) -> "out"
      [] OTHER -> known[q.tab]

\* The form or button that waits for it is there no more, or ready again.
BusyAfter(s, tab) ==
    IF busy[tab] = s \/ (known[tab] = "out") # (known'[tab] = "out") THEN None ELSE busy[tab]

Settle(s, status) ==
    LET q == wire[s]
    IN  /\ jar' = JarAfter(q, status)
        /\ known' = [known EXCEPT ![q.tab] = KnownAfter(q, status)]
        /\ busy' = [busy EXCEPT ![q.tab] = BusyAfter(s, q.tab)]
        /\ wire' = [wire EXCEPT ![s] = None]
        /\ unaware' = IF jar' = jar THEN unaware ELSE Tabs \ {q.tab}
        /\ UNCHANGED <<server, sends>>

Arrive(s) == wire[s] # None /\ wire[s].status # "sent" /\ Settle(s, wire[s].status)

\* fetch rejects.
Lose(s) == wire[s] # None /\ Settle(s, "lost")

-----------------------------------------------------------------------------
\* One tab is being loaded, in a browser that may hold a cookie from before; the others
\* have been left on the login page.
Init ==
    /\ registered = Registered
    /\ \E u \in Registered : sessions = <<[owner |-> u, live |-> TRUE]>>
    /\ jar \in {None, 1}
    /\ \E first \in Tabs :
          /\ known = [tab \in Tabs |-> IF tab = first THEN "checking" ELSE "out"]
          /\ wire = [s \in Slots |->
                        IF s = 1 THEN [tab |-> first, op |-> "me", who |-> None, token |-> jar,
                                       status |-> "sent", sets |-> None]
                        ELSE None]
          /\ unaware = Tabs \ {first}
    /\ busy = [tab \in Tabs |-> None]
    /\ sends = 1

Serve(s) ==
    ServeRegister(s) \/ ServeLogin(s) \/ ServeLogout(s) \/ ServeUser(s) \/ ServeRefusal(s)

Next ==
    \/ Expire \/ CookieExpires
    \/ \E tab \in Tabs : Submit(tab) \/ SignOut(tab) \/ Work(tab) \/ Navigate(tab) \/ Reload(tab)
    \/ \E s \in Slots : Serve(s) \/ Arrive(s) \/ Lose(s)

\* A request ends, with an answer or without.  Nobody has to click.
Spec == Init /\ [][Next]_vars /\ \A s \in Slots : WF_vars(Arrive(s) \/ Lose(s))

-----------------------------------------------------------------------------
(* Properties.                                                             *)

Requests ==
    [tab : Tabs, op : Ops, who : Accounts \cup {None}, token : 1 .. MaxSessions \cup {None},
     status : {"sent", "200", "401", "403", "415", "500"}, sets : 1 .. MaxSessions \cup {None}]

\* Every variable has its type; a cookie names a session there has been.
TypeOK ==
    /\ registered \subseteq Accounts
    /\ sessions \in Seq([owner : Accounts, live : BOOLEAN]) /\ Len(sessions) <= MaxSessions
    /\ jar \in DOMAIN sessions \cup {None}
    /\ known \in [Tabs -> {"checking", "out"} \cup Accounts]
    /\ busy \in [Tabs -> Slots \cup {None}]
    /\ wire \in [Slots -> Requests \cup {None}]
    /\ sends \in 0 .. MaxSends /\ unaware \subseteq Tabs

\* auth.tsx:33-38: a tab that shows a user acts as that user, whatever answers are late
\* or lost, unless another tab has signed in or out since, or the browser has dropped
\* the cookie.
ShowsWhoItActsFor ==
    \A tab \in Tabs \ unaware : SignedIn(tab) => jar # None /\ Owner(jar) = known[tab]

\* What a request on the wire, or its answer, says of accounts and sessions is so.
RequestInv(q) ==
    /\ q.token \in DOMAIN sessions \cup {None} /\ q.sets \in DOMAIN sessions \cup {None}
    /\ q.op \in {"login", "register"} => q.who \in Accounts
    /\ q.op \in {"login", "register"} /\ q.status = "200" => q.sets # None /\ Owner(q.sets) = q.who
    /\ q.op = "me" /\ q.status = "200" => q.token # None /\ Owner(q.token) = q.who
    /\ q.status = "401" /\ q.op # "login" => q.op \in {"me", "read", "delete"} /\ ~Live(q.token)
    /\ q.status \notin {"403", "415"}

\* A tab that asks who it is has nothing else on the wire, and asks with the cookie there
\* is, unless that has changed behind its back.
CheckInv(s) ==
    wire[s].op = "me" =>
       /\ known[wire[s].tab] = "checking"
       /\ wire[s].tab \notin unaware => wire[s].token = jar
       /\ \A other \in Slots \ {s} : wire[other] # None => wire[other].tab # wire[s].tab

\* The inductive invariant behind the safety properties.
IInv == /\ TypeOK /\ ShowsWhoItActsFor
        /\ \A s \in Slots : wire[s] # None => RequestInv(wire[s]) /\ CheckInv(s)

\* auth.tsx:51-75 and 147-150: a tab goes to the signed-out page over a cookie that is
\* still good in two cases only: a 401 that was given to an older cookie arrives late, or
\* the check of the session fails or is lost.  Both happen.  No sign-in, registration or
\* sign-out does it, be it refused, lost or overtaken.
FalseSignOutCauses ==
    [][\A tab \in Tabs : known[tab] # "out" /\ known'[tab] = "out" /\ Live(jar)' =>
          \E s \in Slots :
              /\ wire[s] # None /\ wire'[s] = None /\ wire[s].tab = tab
              /\ \/ /\ wire[s].op \in {"me", "read", "delete"}
                    /\ wire[s].status = "401" /\ wire[s].token # jar
                 \/ wire[s].op = "me" /\ wire[s].status # "401"]_vars

\* auth.tsx:57-75: "Checking your session..." ends, whatever becomes of the question, and
\* also when the page is reloaded before the answer, unless it is reloaded for ever (each
\* reload sends a request, and MaxSends ends that).
CheckEnds == \A tab \in Tabs : known[tab] = "checking" ~> known[tab] # "checking"

\* api.ts:102-105 with csrf.py: what the page sends is never refused by the guard,
\* requests without a body included.
OwnRequestsPass == \A s \in Slots : wire[s] # None => wire[s].status \notin {"403", "415"}
=============================================================================
