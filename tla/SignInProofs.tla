---------------------------- MODULE SignInProofs ----------------------------
(***************************************************************************)
(* Who is signed in, for any number of tabs, accounts, sessions and        *)
(* requests on the wire.                                                   *)
(*                                                                         *)
(* The argument: a session keeps its owner, and once ended stays so.  The  *)
(* cookie and the user of a tab change together, except that a tab which   *)
(* asks who it is learns it later; it sends nothing else meanwhile, so     *)
(* only another tab can have changed the cookie it asked with.             *)
(***************************************************************************)
EXTENDS SignIn, SequenceTheorems, TLAPS

Session == [owner : Accounts, live : BOOLEAN]

LEMMA Bounds == /\ MaxInFlight \in Nat \ {0} /\ MaxSends \in Nat \ {0}
                /\ MaxSessions \in Nat \ {0}
  BY BoundsAssumption

-----------------------------------------------------------------------------
(* What the page sends, and what it makes of an answer.                    *)

LEMMA Methods == /\ method("me") = "GET" /\ method("read") = "GET"
                 /\ method("delete") = "DELETE" /\ method("login") = "POST"
                 /\ method("register") = "POST" /\ method("logout") = "POST"
  BY DEF method

\* api.ts:102-105: the guard lets every request of the page pass.
LEMMA GuardPasses == \A op \in Ops : csrf_guard(op)
<1>1. \A op \in Ops : method(op) \in SAFE_METHODS \/ HasCsrfHeader(op)
  BY Methods DEF Ops, SAFE_METHODS, HasCsrfHeader
<1>2. \A op \in Ops : MediaType(op) \notin FORBIDDEN_CONTENT_TYPES
  BY DEF MediaType, FORBIDDEN_CONTENT_TYPES
<1> QED
  BY <1>1, <1>2 DEF csrf_guard

LEMMA KnownCases ==
    ASSUME NEW q, NEW status
    PROVE  /\ q.op \in {"me", "login", "register"} /\ status = "200" => KnownAfter(q, status) = q.who
           /\ q.op = "logout" /\ status = "200" => KnownAfter(q, status) = "out"
           /\ q.op = "me" /\ status # "200" => KnownAfter(q, status) = "out"
           /\ status = "401" /\ q.op \notin {"me", "login"} => KnownAfter(q, status) = "out"
           /\ \/ KnownAfter(q, status) = known[q.tab]
              \/ KnownAfter(q, status) = "out"
              \/ q.op \in {"me", "login", "register"} /\ status = "200"
           /\ KnownAfter(q, status) = "out" =>
                 \/ KnownAfter(q, status) = known[q.tab]
                 \/ q.op \in {"me", "login", "register"} /\ status = "200"
                 \/ q.op = "logout" /\ status = "200"
                 \/ q.op = "me" /\ status # "200"
                 \/ status = "401" /\ q.op # "login"
  BY DEF KnownAfter, ownsUnauthorized

-----------------------------------------------------------------------------
(* Sessions.                                                               *)

\* Sessions are added and ended; none changes hands or comes back.
SessionsGrow ==
    /\ sessions' \in Seq(Session) /\ Len(sessions') <= MaxSessions
    /\ DOMAIN sessions \subseteq DOMAIN sessions'
    /\ \A t \in DOMAIN sessions : /\ sessions'[t].owner = sessions[t].owner
                                  /\ sessions'[t].live => sessions[t].live

\* The same sessions, some of them ended perhaps.
SameSessions(kept) ==
    /\ kept \in Seq(Session) /\ Len(kept) = Len(sessions)
    /\ \A i \in DOMAIN sessions : /\ kept[i].owner = sessions[i].owner
                                  /\ kept[i].live => sessions[i].live

LEMMA EndingKeeps ==
    ASSUME TypeOK, NEW t
    PROVE  SameSessions(Ending(t))
<1>1. sessions \in Seq(Session) /\ DOMAIN sessions = 1 .. Len(sessions) /\ Len(sessions) \in Nat
  BY LenProperties DEF TypeOK, Session
<1>2. \A i \in 1 .. Len(sessions) : sessions[i] \in Session
  BY <1>1, ElementOfSeq
<1>3. Ending(t) \in [1 .. Len(sessions) -> Session]
  BY <1>1, <1>2 DEF Ending, Session
<1>4. Ending(t) \in Seq(Session)
  BY <1>1, <1>3, SeqDef
<1>5. Len(Ending(t)) = Len(sessions)
  BY <1>1, <1>3, <1>4, LenProperties
<1>6. \A i \in DOMAIN sessions : /\ Ending(t)[i].owner = sessions[i].owner
                                 /\ Ending(t)[i].live => sessions[i].live
  BY <1>1, <1>2 DEF Ending, Session
<1> QED
  BY <1>4, <1>5, <1>6 DEF SameSessions

LEMMA EndingGrows ==
    ASSUME TypeOK, NEW t, sessions' = Ending(t)
    PROVE  SessionsGrow
<1>1. SameSessions(Ending(t))
  BY EndingKeeps
<1>2. DOMAIN sessions = DOMAIN Ending(t)
  BY DEF Ending
<1> QED
  BY <1>1, <1>2 DEF SameSessions, SessionsGrow, TypeOK

\* A session that is granted is the last one, and belongs to the account that asked.
LEMMA GrantGrows ==
    ASSUME TypeOK, NEW kept, SameSessions(kept),
           NEW who \in Accounts, Len(sessions) < MaxSessions,
           sessions' = Append(kept, [owner |-> who, live |-> TRUE])
    PROVE  /\ SessionsGrow
           /\ Len(sessions) + 1 \in DOMAIN sessions'
           /\ sessions'[Len(sessions) + 1].owner = who
<1>1. /\ DOMAIN sessions = 1 .. Len(sessions) /\ Len(sessions) \in Nat
      /\ DOMAIN kept = 1 .. Len(sessions) /\ kept \in Seq(Session) /\ Len(kept) = Len(sessions)
  BY LenProperties DEF TypeOK, Session, SameSessions
<1>2. [owner |-> who, live |-> TRUE] \in Session
  BY DEF Session
<1>3. /\ sessions' \in Seq(Session) /\ Len(sessions') = Len(sessions) + 1
      /\ \A i \in 1 .. Len(sessions) : sessions'[i] = kept[i]
      /\ sessions'[Len(sessions) + 1] = [owner |-> who, live |-> TRUE]
  BY <1>1, <1>2, AppendProperties
<1>4. DOMAIN sessions' = 1 .. Len(sessions) + 1
  BY <1>3, LenProperties
<1>5. DOMAIN sessions \subseteq DOMAIN sessions' /\ Len(sessions) + 1 \in DOMAIN sessions'
  BY <1>1, <1>4
<1>6. Len(sessions') <= MaxSessions
  BY <1>1, <1>3, Bounds
<1> QED
  BY <1>1, <1>3, <1>5, <1>6 DEF SessionsGrow, SameSessions

LEMMA Stays ==
    ASSUME TypeOK
    PROVE  (UNCHANGED sessions) => SessionsGrow
  BY DEF TypeOK, SessionsGrow, Session

\* What was so of a request is so still.
LEMMA RequestStays ==
    ASSUME TypeOK, SessionsGrow, NEW q \in Requests, RequestInv(q)
    PROVE  RequestInv(q)'
<1>1. None \notin DOMAIN sessions
  BY AccountsAssumption, LenProperties DEF TypeOK, Session
<1> QED
  BY <1>1 DEF RequestInv, SessionsGrow, Live, Owner, Requests

\* A tab that has not been overtaken acts as the user it shows, still.
LEMMA ShowsStays ==
    ASSUME TypeOK, ShowsWhoItActsFor, SessionsGrow, jar' = jar,
           \A tab \in Tabs \ unaware' :
              SignedIn(tab)' => tab \notin unaware /\ known'[tab] = known[tab]
    PROVE  ShowsWhoItActsFor' /\ jar' \in DOMAIN sessions' \cup {None}
<1>1. jar' \in DOMAIN sessions' \cup {None}
  BY DEF TypeOK, SessionsGrow
<1>2. ASSUME NEW tab \in Tabs \ unaware', SignedIn(tab)'
      PROVE  jar' # None /\ Owner(jar)' = known'[tab]
  BY <1>2 DEF TypeOK, ShowsWhoItActsFor, SessionsGrow, SignedIn, Owner
<1> QED
  BY <1>1, <1>2 DEF ShowsWhoItActsFor

-----------------------------------------------------------------------------
(* Invariance.                                                             *)

WireInv == \A s \in Slots : wire[s] # None => RequestInv(wire[s]) /\ CheckInv(s)

LEMMA DomainBound ==
    ASSUME TypeOK
    PROVE  DOMAIN sessions \subseteq 1 .. MaxSessions /\ None \notin DOMAIN sessions
  BY LenProperties, Bounds, AccountsAssumption DEF TypeOK, Session

LEMMA InitIInv == Init => IInv
<1> SUFFICES ASSUME Init PROVE IInv
  OBVIOUS
<1>1. PICK u \in Accounts : sessions = <<[owner |-> u, live |-> TRUE]>>
  BY AccountsAssumption DEF Init
<1>2. /\ sessions \in Seq(Session) /\ Len(sessions) = 1 /\ DOMAIN sessions = {1}
      /\ sessions[1].owner = u
  BY <1>1 DEF Session
<1>3. PICK first \in Tabs :
         /\ known = [tab \in Tabs |-> IF tab = first THEN "checking" ELSE "out"]
         /\ wire = [s \in Slots |->
                       IF s = 1 THEN [tab |-> first, op |-> "me", who |-> None, token |-> jar,
                                      status |-> "sent", sets |-> None]
                       ELSE None]
         /\ unaware = Tabs \ {first}
  BY DEF Init
<1>4. jar \in DOMAIN sessions \cup {None} /\ jar \in 1 .. MaxSessions \cup {None}
  BY <1>2, Bounds DEF Init
<1>5. wire \in [Slots -> Requests \cup {None}]
  BY <1>3, <1>4 DEF Requests, Ops
<1>6. TypeOK
  BY <1>2, <1>3, <1>4, <1>5, AccountsAssumption, Bounds DEF Init, TypeOK, Session
<1>7. ShowsWhoItActsFor
  BY <1>3, AccountsAssumption DEF ShowsWhoItActsFor, SignedIn
<1>8. ASSUME NEW s \in Slots, wire[s] # None PROVE RequestInv(wire[s]) /\ CheckInv(s)
  <2>1. /\ s = 1 /\ \A other \in Slots \ {s} : wire[other] = None
        /\ wire[s] = [tab |-> first, op |-> "me", who |-> None, token |-> jar,
                      status |-> "sent", sets |-> None]
    BY <1>3, <1>8
  <2> QED
    BY <1>3, <1>4, <2>1 DEF RequestInv, CheckInv
<1> QED
  BY <1>6, <1>7, <1>8 DEF IInv

\* A tab whose check has been answered, or that asks anew, puts one more request on the wire.
LEMMA SendKeeps ==
    ASSUME IInv, NEW s \in Slots, NEW tab \in Tabs, NEW op \in Ops \ {"me"},
           NEW who \in Accounts \cup {None}, op \in {"login", "register"} => who \in Accounts,
           Free(s), Send(s, tab, op, who), known[tab] # "checking",
           busy' \in [Tabs -> Slots \cup {None}], UNCHANGED <<server, jar, known, unaware>>
    PROVE  IInv'
<1>1. TypeOK /\ ShowsWhoItActsFor /\ WireInv /\ SessionsGrow
  BY Stays DEF IInv, WireInv, server
<1>2. jar \in 1 .. MaxSessions \cup {None}
  BY <1>1, DomainBound DEF TypeOK
<1>3. PICK q \in Requests : q = [tab |-> tab, op |-> op, who |-> who, token |-> jar,
                                 status |-> "sent", sets |-> None]
  BY <1>2 DEF Requests
<1>4. /\ wire' = [wire EXCEPT ![s] = q] /\ sends' \in 0 .. MaxSends
      /\ UNCHANGED <<registered, sessions, jar, known, unaware>>
  BY <1>1, <1>3, Bounds DEF Send, TypeOK, server
<1>5. q.tab = tab /\ q.op # "me" /\ RequestInv(q)'
  BY <1>1, <1>3, <1>4 DEF RequestInv, TypeOK
<1>6. TypeOK'
  BY <1>1, <1>4 DEF TypeOK
<1>7. ShowsWhoItActsFor'
  BY <1>1, <1>4, ShowsStays DEF SignedIn
<1>8. ASSUME NEW t \in Slots, wire'[t] # None
      PROVE  RequestInv(wire[t])' /\ CheckInv(t)'
  <2>1. CASE t = s
    <3>1. wire'[t] = q
      BY <1>1, <1>4, <2>1 DEF TypeOK
    <3>2. RequestInv(wire[t])'
      BY <1>5, <3>1 DEF RequestInv, Live, Owner
    <3>3. CheckInv(t)'
      BY <1>5, <3>1 DEF CheckInv
    <3> QED
      BY <3>2, <3>3
  <2>2. CASE t # s
    <3>1. wire'[t] = wire[t] /\ wire[t] # None /\ wire[t] \in Requests
      BY <1>1, <1>4, <1>8, <2>2 DEF TypeOK
    <3>2. RequestInv(wire[t]) /\ CheckInv(t)
      BY <1>1, <3>1 DEF WireInv
    <3>3. RequestInv(wire[t])'
      BY <1>4, <3>1, <3>2 DEF RequestInv, Live, Owner
    <3>4. CheckInv(t)'
      <4> SUFFICES ASSUME wire[t].op = "me" PROVE CheckInv(t)'
        BY <3>1 DEF CheckInv
      <4>1. known[wire[t].tab] = "checking" /\ wire[t].tab # tab
        BY <3>2 DEF CheckInv
      <4>2. \A other \in Slots \ {t} : wire'[other] # None => wire'[other].tab # wire[t].tab
        BY <1>1, <1>4, <1>5, <3>2, <4>1 DEF CheckInv, TypeOK
      <4> QED
        BY <1>4, <3>1, <3>2, <4>1, <4>2 DEF CheckInv
    <3> QED
      BY <3>3, <3>4
  <2> QED
    BY <2>1, <2>2
<1> QED
  BY <1>6, <1>7, <1>8 DEF IInv

\* The server answers one request, or none.
LEMMA ServeKeeps ==
    ASSUME IInv, NEW s \in Slots, NEW r \in Requests, wire[s] # None,
           wire' = [wire EXCEPT ![s] = r],
           r.tab = wire[s].tab, r.op = wire[s].op, r.token = wire[s].token,
           RequestInv(r)', SessionsGrow, registered' \subseteq Accounts,
           UNCHANGED <<jar, known, busy, sends, unaware>>
    PROVE  IInv'
<1>1. TypeOK /\ ShowsWhoItActsFor /\ WireInv
  BY DEF IInv, WireInv
<1>2. ShowsWhoItActsFor' /\ jar' \in DOMAIN sessions' \cup {None}
  BY <1>1, ShowsStays DEF SignedIn
<1>3. TypeOK'
  BY <1>1, <1>2 DEF TypeOK, SessionsGrow, Session
<1>4. \A t \in Slots : wire'[t] # None =>
         wire[t] # None /\ wire'[t].tab = wire[t].tab /\ wire'[t].op = wire[t].op
                       /\ wire'[t].token = wire[t].token
  BY <1>1 DEF TypeOK
<1>5. ASSUME NEW t \in Slots, wire'[t] # None
      PROVE  RequestInv(wire[t])' /\ CheckInv(t)'
  <2>1. wire[t] # None /\ wire[t] \in Requests /\ RequestInv(wire[t]) /\ CheckInv(t)
    BY <1>1, <1>4, <1>5 DEF WireInv, TypeOK
  <2>2. CheckInv(t)'
    BY <1>4, <1>5, <2>1 DEF CheckInv
  <2>3. CASE t = s
    <3>1. wire'[t] = r
      BY <1>1, <2>3 DEF TypeOK
    <3> QED
      BY <2>2, <3>1 DEF RequestInv, Live, Owner
  <2>4. CASE t # s
    <3>1. PICK q \in Requests : q = wire[t]
      BY <2>1
    <3>2. wire'[t] = q /\ RequestInv(q)
      BY <1>1, <2>1, <2>4, <3>1 DEF TypeOK
    <3>3. RequestInv(q)'
      BY <1>1, <3>2, RequestStays
    <3> QED
      BY <2>2, <3>2, <3>3 DEF RequestInv, Live, Owner
  <2> QED
    BY <2>3, <2>4
<1> QED
  BY <1>2, <1>3, <1>5 DEF IInv

\* An answer arrives, or will not.
LEMMA SettleKeeps ==
    ASSUME IInv, NEW s \in Slots, NEW status, wire[s] # None, Settle(s, status),
           status = wire[s].status \/ status = "lost"
    PROVE  IInv'
<1>1. TypeOK /\ ShowsWhoItActsFor /\ WireInv
  BY DEF IInv, WireInv
<1>2. PICK q \in Requests : q = wire[s] /\ RequestInv(q) /\ q.tab \in Tabs
  BY <1>1 DEF TypeOK, WireInv, Requests
<1>3. /\ jar' = JarAfter(q, status)
      /\ known' = [known EXCEPT ![q.tab] = KnownAfter(q, status)]
      /\ wire' = [wire EXCEPT ![s] = None]
      /\ unaware' = (IF jar' = jar THEN unaware ELSE Tabs \ {q.tab})
      /\ UNCHANGED <<registered, sessions, sends>>
  BY <1>2 DEF Settle, server
<1>4. status = "200" => q.status = "200"
  BY <1>2
<1>5. \/ jar' = jar
      \/ q.op \in {"login", "register"} /\ status = "200" /\ jar' = q.sets
      \/ q.op = "logout" /\ status = "200" /\ jar' = None
  BY <1>3 DEF JarAfter
<1>6. q.op \in {"me", "login", "register"} /\ status = "200" => q.who \in Accounts
  <2>1. q.op = "me" /\ q.status = "200" => q.token \in DOMAIN sessions /\ q.who = sessions[q.token].owner
    BY <1>2 DEF RequestInv, Owner
  <2>2. \A t \in DOMAIN sessions : sessions[t].owner \in Accounts
    <3>1. sessions \in Seq(Session) /\ DOMAIN sessions = 1 .. Len(sessions)
      BY <1>1, LenProperties DEF TypeOK, Session
    <3>2. \A t \in DOMAIN sessions : sessions[t] \in Session
      BY <3>1, ElementOfSeq
    <3> QED
      BY <3>2 DEF Session
  <2> QED
    BY <1>2, <1>4, <2>1, <2>2 DEF RequestInv
<1>7. KnownAfter(q, status) \in {"checking", "out"} \cup Accounts
  BY <1>1, <1>2, <1>6, KnownCases DEF TypeOK
<1>8. TypeOK'
  <2>1. jar' \in DOMAIN sessions \cup {None}
    BY <1>1, <1>2, <1>5 DEF TypeOK, RequestInv
  <2>2. busy' \in [Tabs -> Slots \cup {None}]
    BY <1>1, <1>2 DEF Settle, BusyAfter, TypeOK
  <2>3. known' \in [Tabs -> {"checking", "out"} \cup Accounts]
    BY <1>1, <1>3, <1>7 DEF TypeOK
  <2>4. wire' \in [Slots -> Requests \cup {None}]
    BY <1>1, <1>3 DEF TypeOK
  <2>5. unaware' \subseteq Tabs
    BY <1>1, <1>3 DEF TypeOK
  <2> QED
    BY <1>1, <1>3, <2>1, <2>2, <2>3, <2>4, <2>5 DEF TypeOK
<1>9. \A tab \in Tabs : known'[tab] = IF tab = q.tab THEN KnownAfter(q, status) ELSE known[tab]
  BY <1>1, <1>3 DEF TypeOK
<1>10. q.op = "me" => known[q.tab] = "checking" /\ (q.tab \notin unaware => q.token = jar)
  BY <1>1, <1>2 DEF WireInv, CheckInv
<1>11. ASSUME NEW tab \in Tabs \ unaware', SignedIn(tab)'
       PROVE  jar' # None /\ Owner(jar)' = known'[tab]
  <2>1. CASE tab # q.tab
    <3>1. jar' = jar /\ tab \notin unaware /\ known'[tab] = known[tab]
      BY <1>3, <1>9, <1>11, <2>1
    <3> QED
      BY <1>1, <1>3, <1>11, <3>1 DEF ShowsWhoItActsFor, SignedIn, Owner
  <2>2. CASE tab = q.tab
    <3>0. known'[tab] = KnownAfter(q, status) /\ KnownAfter(q, status) \in Accounts
      BY <1>9, <1>11, <2>2 DEF SignedIn
    <3>1. CASE q.op \in {"login", "register"} /\ status = "200"
      <4>1. jar' = q.sets /\ q.sets # None /\ Owner(q.sets) = q.who
        BY <1>2, <1>3, <1>4, <3>1 DEF JarAfter, RequestInv
      <4>2. known'[tab] = q.who
        BY <3>0, <3>1, KnownCases
      <4> QED
        BY <1>3, <4>1, <4>2 DEF Owner
    <3>2. CASE q.op = "me" /\ status = "200"
      <4>1. jar' = jar /\ unaware' = unaware
        BY <1>3, <1>5, <3>2
      <4>2. q.token = jar /\ q.token # None /\ Owner(q.token) = q.who
        BY <1>2, <1>4, <1>10, <1>11, <2>2, <3>2, <4>1 DEF RequestInv
      <4>3. known'[tab] = q.who
        BY <3>0, <3>2, KnownCases
      <4> QED
        BY <1>3, <4>1, <4>2, <4>3 DEF Owner
    <3>3. CASE ~(q.op \in {"me", "login", "register"} /\ status = "200")
      <4>1. known'[tab] = known[tab]
        BY <2>2, <3>0, <3>3, KnownCases, AccountsAssumption
      <4>2. ~(q.op = "logout" /\ status = "200")
        BY <3>0, KnownCases, AccountsAssumption
      <4>3. jar' = jar /\ unaware' = unaware
        BY <1>3, <1>5, <3>3, <4>2
      <4> QED
        BY <1>1, <1>3, <1>11, <4>1, <4>3 DEF ShowsWhoItActsFor, SignedIn, Owner
    <3> QED
      BY <3>1, <3>2, <3>3
  <2> QED
    BY <2>1, <2>2
<1>12. ASSUME NEW t \in Slots, wire'[t] # None
       PROVE  RequestInv(wire[t])' /\ CheckInv(t)'
  <2>1. /\ t # s /\ wire'[t] = wire[t] /\ wire[t] # None /\ wire[t] \in Requests
        /\ RequestInv(wire[t]) /\ CheckInv(t)
    BY <1>1, <1>3, <1>12 DEF TypeOK, WireInv
  <2>2. RequestInv(wire[t])'
    BY <1>3, <2>1 DEF RequestInv, Live, Owner
  <2>3. CheckInv(t)'
    <3> SUFFICES ASSUME wire[t].op = "me" PROVE CheckInv(t)'
      BY <2>1 DEF CheckInv
    <3>1. wire[t].tab # q.tab /\ known[wire[t].tab] = "checking"
      BY <1>2, <2>1 DEF CheckInv
    <3>2. wire[t].tab \notin unaware' => wire[t].tab \notin unaware /\ jar' = jar
      BY <1>3, <2>1, <3>1 DEF Requests
    <3>3. known'[wire[t].tab] = "checking"
      BY <1>9, <2>1, <3>1 DEF Requests
    <3>4. \A other \in Slots \ {t} : wire'[other] # None => wire'[other].tab # wire[t].tab
      BY <1>1, <1>3, <2>1 DEF CheckInv, TypeOK
    <3> QED
      BY <2>1, <3>2, <3>3, <3>4 DEF CheckInv
  <2> QED
    BY <2>2, <2>3
<1>13. ShowsWhoItActsFor'
  BY <1>11 DEF ShowsWhoItActsFor
<1> QED
  BY <1>8, <1>12, <1>13 DEF IInv

LEMMA ReloadKeeps == ASSUME IInv, NEW tab \in Tabs, Reload(tab) PROVE IInv'
<1>1. TypeOK /\ ShowsWhoItActsFor /\ WireInv /\ SessionsGrow
  BY Stays DEF IInv, WireInv, Reload, server
<1> DEFINE others == [s \in Slots |-> IF wire[s] # None /\ wire[s].tab = tab THEN None ELSE wire[s]]
<1>2. PICK s \in Slots : wire' = [others EXCEPT ![s] =
            [tab |-> tab, op |-> "me", who |-> None, token |-> jar,
             status |-> "sent", sets |-> None]]
  BY DEF Reload
<1>3. /\ known' = [known EXCEPT ![tab] = "checking"] /\ unaware' = unaware \ {tab}
      /\ sends' \in 0 .. MaxSends /\ busy' \in [Tabs -> Slots \cup {None}]
      /\ UNCHANGED <<registered, sessions, jar>>
  BY <1>1, Bounds DEF Reload, TypeOK, server
<1>4. jar \in 1 .. MaxSessions \cup {None}
  BY <1>1, DomainBound DEF TypeOK
<1>5. PICK q \in Requests : q = [tab |-> tab, op |-> "me", who |-> None, token |-> jar,
                                 status |-> "sent", sets |-> None]
  BY <1>4 DEF Requests, Ops
<1>6. RequestInv(q)' /\ q.tab = tab /\ q.token = jar
  BY <1>1, <1>3, <1>5 DEF RequestInv, TypeOK
<1>7. wire'[s] = q /\ \A t \in Slots \ {s} :
         /\ wire'[t] \in {None, wire[t]}
         /\ wire'[t] # None => wire[t].tab # tab
  BY <1>2, <1>5
<1>8. wire' \in [Slots -> Requests \cup {None}]
  BY <1>1, <1>2, <1>5 DEF TypeOK
<1>9. TypeOK'
  BY <1>1, <1>3, <1>8 DEF TypeOK
<1>10. ShowsWhoItActsFor'
  <2> SUFFICES ASSUME NEW other \in Tabs \ unaware', SignedIn(other)'
               PROVE  other \notin unaware /\ known'[other] = known[other]
    BY <1>1, <1>3, ShowsStays
  <2>1. other # tab
    BY <1>1, <1>3, AccountsAssumption DEF SignedIn, TypeOK
  <2> QED
    BY <1>1, <1>3, <2>1 DEF TypeOK
<1>11. ASSUME NEW t \in Slots, wire'[t] # None
       PROVE  RequestInv(wire[t])' /\ CheckInv(t)'
  <2>1. CASE t = s
    <3>1. wire'[t] = q
      BY <1>7, <2>1
    <3>2. RequestInv(wire[t])'
      BY <1>6, <3>1 DEF RequestInv, Live, Owner
    <3>3. known'[tab] = "checking"
      BY <1>1, <1>3 DEF TypeOK
    <3>4. \A other \in Slots \ {t} : wire'[other] # None => wire'[other].tab # tab
      BY <1>7, <2>1
    <3> QED
      BY <1>3, <1>6, <3>1, <3>2, <3>3, <3>4 DEF CheckInv
  <2>2. CASE t # s
    <3>1. /\ wire'[t] = wire[t] /\ wire[t] # None /\ wire[t].tab # tab /\ wire[t] \in Requests
          /\ RequestInv(wire[t]) /\ CheckInv(t)
      BY <1>1, <1>7, <1>11, <2>2 DEF WireInv, TypeOK
    <3>2. RequestInv(wire[t])'
      BY <1>3, <3>1 DEF RequestInv, Live, Owner
    <3>3. CheckInv(t)'
      <4> SUFFICES ASSUME wire[t].op = "me" PROVE CheckInv(t)'
        BY <3>1 DEF CheckInv
      <4>1. \A other \in Slots \ {t} : wire'[other] # None => wire'[other].tab # wire[t].tab
        BY <1>6, <1>7, <3>1 DEF CheckInv
      <4>2. known'[wire[t].tab] = "checking"
        BY <1>1, <1>3, <3>1 DEF CheckInv, TypeOK, Requests
      <4> QED
        BY <1>3, <3>1, <4>1, <4>2 DEF CheckInv
    <3> QED
      BY <3>2, <3>3
  <2> QED
    BY <2>1, <2>2
<1> QED
  BY <1>9, <1>10, <1>11 DEF IInv

\* register and login grant a session to the account of the form.
LEMMA GrantKeeps ==
    ASSUME IInv, NEW s \in Slots, Asked(s, {"login", "register"}), NEW kept, Grant(s, kept),
           SameSessions(kept), registered' \subseteq Accounts,
           UNCHANGED <<jar, known, busy, sends, unaware>>
    PROVE  IInv'
<1> DEFINE new == Len(sessions) + 1
<1>1. TypeOK /\ WireInv
  BY DEF IInv, WireInv
<1>2. PICK q \in Requests : /\ q = wire[s] /\ q.op \in {"login", "register"} /\ RequestInv(q)
                            /\ wire[s] # None
  BY <1>1 DEF Asked, TypeOK, WireInv
<1>3. q.who \in Accounts
  BY <1>2 DEF RequestInv
<1>4. SessionsGrow /\ new \in DOMAIN sessions' /\ sessions'[new].owner = q.who
  BY <1>1, <1>2, <1>3, GrantGrows DEF Grant
<1>5. new \in 1 .. MaxSessions
  <2>1. Len(sessions) \in Nat
    BY <1>1, LenProperties DEF TypeOK
  <2> QED
    BY <2>1, Bounds DEF Grant
<1>6. PICK n \in 1 .. MaxSessions : n = new
  BY <1>5
<1>7. PICK r \in Requests : r = [q EXCEPT !.status = "200", !.sets = n]
  BY <1>6 DEF Requests
<1>8. /\ r.tab = q.tab /\ r.op = q.op /\ r.token = q.token /\ r.who = q.who
      /\ r.status = "200" /\ r.sets = n
  BY <1>7 DEF Requests
<1>9. wire' = [wire EXCEPT ![s] = r]
  BY <1>2, <1>6, <1>7 DEF Grant
<1>10. RequestInv(r)'
  <2>1. q.token \in DOMAIN sessions' \cup {None} /\ n \in DOMAIN sessions' /\ n # None
    BY <1>2, <1>4, <1>6, AccountsAssumption DEF RequestInv, SessionsGrow
  <2>2. sessions'[n].owner = q.who
    BY <1>4, <1>6
  <2> QED
    BY <1>2, <1>3, <1>8, <2>1, <2>2 DEF RequestInv, Owner
<1> QED
  BY <1>2, <1>4, <1>8, <1>9, <1>10, ServeKeeps

\* The server answers without granting a session.
LEMMA ReplyKeeps ==
    ASSUME IInv, NEW s \in Slots, wire[s] # None,
           NEW status \in {"200", "401", "500"}, NEW who \in Accounts \cup {None},
           wire' = [wire EXCEPT ![s].status = status, ![s].who = who],
           wire[s].op \in {"login", "register"} => status # "200" /\ who = wire[s].who,
           wire[s].op = "me" /\ status = "200" => wire[s].token # None /\ Owner(wire[s].token) = who,
           status = "401" /\ wire[s].op # "login" =>
              wire[s].op \in {"me", "read", "delete"} /\ ~Live(wire[s].token),
           SessionsGrow, registered' = registered,
           UNCHANGED <<jar, known, busy, sends, unaware>>
    PROVE  IInv'
<1>1. TypeOK /\ WireInv
  BY DEF IInv, WireInv
<1>2. PICK q \in Requests : q = wire[s] /\ RequestInv(q)
  BY <1>1 DEF TypeOK, WireInv
<1>3. PICK r \in Requests : r = [q EXCEPT !.status = status, !.who = who]
  BY DEF Requests
<1>4. /\ r.tab = q.tab /\ r.op = q.op /\ r.token = q.token /\ r.who = who
      /\ r.status = status /\ r.sets = q.sets
  BY <1>3 DEF Requests
<1>5. wire' = [wire EXCEPT ![s] = r]
  BY <1>2, <1>3
<1>6. RequestInv(r)
  BY <1>2, <1>4 DEF RequestInv
<1>7. RequestInv(r)'
  BY <1>1, <1>6, RequestStays
<1> QED
  BY <1>1, <1>2, <1>4, <1>5, <1>7, ServeKeeps DEF TypeOK

LEMMA ServerKeeps == ASSUME IInv, NEW s \in Slots, Serve(s) PROVE IInv'
<1>1. TypeOK /\ WireInv
  BY DEF IInv, WireInv
<1>2. wire[s] # None /\ wire[s] \in Requests /\ RequestInv(wire[s])
  BY <1>1 DEF Serve, ServeRegister, ServeLogin, ServeLogout, ServeUser, ServeRefusal, Asked,
              TypeOK, WireInv
<1>3. CASE ServeRegister(s)
  <2>1. registered' \subseteq Accounts
    BY <1>1, <1>2, <1>3 DEF ServeRegister, Asked, RequestInv, TypeOK
  <2>2. Asked(s, {"login", "register"}) /\ SameSessions(sessions)
    BY <1>1, <1>3 DEF ServeRegister, Asked, TypeOK, Session, SameSessions
  <2> QED
    BY <1>3, <2>1, <2>2, GrantKeeps DEF ServeRegister
<1>4. CASE ServeLogin(s)
  <2>1. registered' \subseteq Accounts
    BY <1>1, <1>4 DEF ServeLogin, TypeOK
  <2>2. Asked(s, {"login", "register"})
    BY <1>4 DEF ServeLogin, Asked
  <2> DEFINE kept == Ending(wire[s].token)
  <2>3. SameSessions(kept)
    BY <1>1, EndingKeeps
  <2>4. Grant(s, kept) /\ UNCHANGED <<jar, known, busy, sends, unaware>>
    BY <1>4 DEF ServeLogin
  <2> HIDE DEF kept
  <2> QED
    BY <2>1, <2>2, <2>3, <2>4, GrantKeeps
<1>5. CASE ServeLogout(s)
  <2>1. SessionsGrow
    BY <1>1, <1>5, EndingGrows DEF ServeLogout
  <2>2. PICK who \in Accounts \cup {None} : who = wire[s].who
    BY <1>2 DEF Requests
  <2>3. wire' = [wire EXCEPT ![s].status = "200", ![s].who = who]
    <3>1. [wire[s] EXCEPT !.status = "200", !.who = who] = [wire[s] EXCEPT !.status = "200"]
      BY <1>2, <2>2 DEF Requests
    <3> QED
      BY <1>5, <3>1 DEF ServeLogout, Reply
  <2>4. wire[s].op = "logout"
    BY <1>5 DEF ServeLogout, Asked
  <2> QED
    BY <1>2, <1>5, <2>1, <2>3, <2>4, ReplyKeeps DEF ServeLogout
<1>6. CASE ServeUser(s)
  <2>1. SessionsGrow /\ registered' = registered /\ wire[s].op \in {"me", "read", "delete"}
    BY <1>1, <1>6, Stays DEF ServeUser, Asked, server
  <2>2. CASE Live(wire[s].token)
    <3>1. wire[s].token \in DOMAIN sessions /\ wire[s].token # None
      BY <1>2, <2>2 DEF RequestInv, Live
    <3>2. Owner(wire[s].token) \in Accounts
      <4>1. sessions \in Seq(Session) /\ DOMAIN sessions = 1 .. Len(sessions)
        BY <1>1, LenProperties DEF TypeOK, Session
      <4>2. sessions[wire[s].token] \in Session
        BY <3>1, <4>1, ElementOfSeq
      <4> QED
        BY <4>2 DEF Session, Owner
    <3>3. PICK who \in Accounts : who = Owner(wire[s].token)
      BY <3>2
    <3>4. wire' = [wire EXCEPT ![s].status = "200", ![s].who = who]
      BY <1>6, <2>2, <3>3 DEF ServeUser
    <3> QED
      BY <1>2, <1>6, <2>1, <3>1, <3>3, <3>4, ReplyKeeps DEF ServeUser
  <2>3. CASE ~Live(wire[s].token)
    <3>1. PICK who \in Accounts \cup {None} : who = wire[s].who
      BY <1>2 DEF Requests
    <3>2. wire' = [wire EXCEPT ![s].status = "401", ![s].who = who]
      <4>1. [wire[s] EXCEPT !.status = "401", !.who = who] = [wire[s] EXCEPT !.status = "401"]
        BY <1>2, <3>1 DEF Requests
      <4> QED
        BY <1>6, <2>3, <4>1 DEF ServeUser, Reply
    <3> QED
      BY <1>2, <1>6, <2>1, <2>3, <3>1, <3>2, ReplyKeeps DEF ServeUser
  <2> QED
    BY <2>2, <2>3
<1>7. CASE ServeRefusal(s)
  <2>1. PICK status \in {"401", "500"} :
           /\ Reply(s, status)
           /\ status = "401" => wire[s].op = "login"
    BY <1>2, <1>7, GuardPasses DEF ServeRefusal, Requests
  <2>2. PICK who \in Accounts \cup {None} : who = wire[s].who
    BY <1>2 DEF Requests
  <2>3. wire' = [wire EXCEPT ![s].status = status, ![s].who = who]
    <3>1. [wire[s] EXCEPT !.status = status, !.who = who] = [wire[s] EXCEPT !.status = status]
      BY <1>2, <2>2 DEF Requests
    <3> QED
      BY <2>1, <3>1 DEF Reply
  <2>4. SessionsGrow /\ registered' = registered
    BY <1>1, <1>7, Stays DEF ServeRefusal, server
  <2> QED
    BY <1>2, <1>7, <2>1, <2>2, <2>3, <2>4, ReplyKeeps DEF ServeRefusal
<1> QED
  BY <1>3, <1>4, <1>5, <1>6, <1>7 DEF Serve

LEMMA ExpireKeeps == ASSUME IInv, Expire PROVE IInv'
<1>1. TypeOK /\ ShowsWhoItActsFor /\ WireInv
  BY DEF IInv, WireInv
<1>2. SessionsGrow
  BY <1>1, EndingGrows DEF Expire
<1>3. ShowsWhoItActsFor' /\ jar' \in DOMAIN sessions' \cup {None}
  BY <1>1, <1>2, ShowsStays DEF Expire, SignedIn
<1>4. TypeOK'
  BY <1>1, <1>2, <1>3 DEF Expire, TypeOK, SessionsGrow, Session
<1>5. ASSUME NEW t \in Slots, wire'[t] # None
      PROVE  RequestInv(wire[t])' /\ CheckInv(t)'
  <2>1. PICK q \in Requests : q = wire[t] /\ q = wire'[t] /\ RequestInv(q) /\ CheckInv(t)
    BY <1>1, <1>5 DEF Expire, TypeOK, WireInv
  <2>2. RequestInv(q)'
    BY <1>1, <1>2, <2>1, RequestStays
  <2>3. RequestInv(wire[t])'
    BY <2>1, <2>2 DEF RequestInv, Live, Owner
  <2>4. CheckInv(t)'
    BY <2>1 DEF Expire, CheckInv
  <2> QED
    BY <2>3, <2>4
<1> QED
  BY <1>3, <1>4, <1>5 DEF IInv

LEMMA CookieExpiresKeeps == ASSUME IInv, CookieExpires PROVE IInv'
<1>1. TypeOK /\ WireInv
  BY DEF IInv, WireInv
<1>2. TypeOK'
  BY <1>1 DEF CookieExpires, TypeOK, server
<1>3. ShowsWhoItActsFor'
  BY DEF CookieExpires, ShowsWhoItActsFor
<1>4. ASSUME NEW t \in Slots, wire'[t] # None
      PROVE  RequestInv(wire[t])' /\ CheckInv(t)'
  <2>1. wire[t] # None /\ wire'[t] = wire[t] /\ wire[t].tab \in Tabs /\ RequestInv(wire[t]) /\ CheckInv(t)
    BY <1>1, <1>4 DEF CookieExpires, WireInv, TypeOK, Requests
  <2> QED
    BY <2>1 DEF CookieExpires, server, RequestInv, CheckInv, Live, Owner
<1> QED
  BY <1>2, <1>3, <1>4 DEF IInv

LEMMA PageKeeps ==
    ASSUME IInv, NEW tab \in Tabs,
           Submit(tab) \/ SignOut(tab) \/ Work(tab) \/ Navigate(tab) \/ Reload(tab)
    PROVE  IInv'
<1>1. TypeOK /\ \A s \in Slots : [busy EXCEPT ![tab] = s] \in [Tabs -> Slots \cup {None}]
  BY DEF IInv, TypeOK
<1>2. CASE Submit(tab)
  <2>1. PICK s \in Slots, op \in {"login", "register"}, who \in Accounts :
           Free(s) /\ Send(s, tab, op, who) /\ busy' = [busy EXCEPT ![tab] = s]
    BY <1>2 DEF Submit
  <2>2. op \in Ops \ {"me"} /\ known[tab] # "checking"
    BY <1>2 DEF Submit, Ops
  <2> QED
    BY <1>1, <1>2, <2>1, <2>2, SendKeeps DEF Submit
<1>3. CASE SignOut(tab)
  <2>1. PICK s \in Slots :
           Free(s) /\ Send(s, tab, "logout", None) /\ busy' = [busy EXCEPT ![tab] = s]
    BY <1>3 DEF SignOut
  <2>2. "logout" \in Ops \ {"me"} /\ known[tab] # "checking"
    BY <1>3, AccountsAssumption DEF SignOut, SignedIn, Ops
  <2> QED
    BY <1>1, <1>3, <2>1, <2>2, SendKeeps DEF SignOut
<1>4. CASE Work(tab)
  <2>1. PICK s \in Slots, op \in {"read", "delete"} : Free(s) /\ Send(s, tab, op, None)
    BY <1>4 DEF Work
  <2>2. op \in Ops \ {"me"} /\ known[tab] # "checking"
    BY <1>4, AccountsAssumption DEF Work, SignedIn, Ops
  <2>3. busy' \in [Tabs -> Slots \cup {None}]
    BY <1>1, <1>4 DEF Work, TypeOK
  <2> QED
    BY <1>4, <2>1, <2>2, <2>3, SendKeeps DEF Work
<1>5. CASE Navigate(tab)
  <2>1. TypeOK'
    BY <1>1, <1>5 DEF Navigate, TypeOK, server
  <2> QED
    BY <1>5, <2>1 DEF Navigate, server, IInv, ShowsWhoItActsFor, SignedIn, RequestInv, CheckInv,
                      Live, Owner
<1>6. CASE Reload(tab)
  BY <1>6, ReloadKeeps
<1> QED
  BY <1>2, <1>3, <1>4, <1>5, <1>6

\* The invariant holds for every number of tabs, accounts, sessions and requests.
THEOREM Invariance == Spec => []IInv
<1>1. IInv /\ [Next]_vars => IInv'
  <2> SUFFICES ASSUME IInv, [Next]_vars PROVE IInv'
    OBVIOUS
  <2>1. CASE UNCHANGED vars
    BY <2>1 DEF vars, server, IInv, TypeOK, ShowsWhoItActsFor, SignedIn, RequestInv, CheckInv,
                Live, Owner
  <2>2. ASSUME NEW s \in Slots, Arrive(s) \/ Lose(s) PROVE IInv'
    <3>1. PICK status : Settle(s, status) /\ (status = wire[s].status \/ status = "lost")
      BY <2>2 DEF Arrive, Lose
    <3> QED
      BY <2>2, <3>1, SettleKeeps DEF Arrive, Lose
  <2> QED
    BY <2>1, <2>2, ServerKeeps, ExpireKeeps, CookieExpiresKeeps, PageKeeps DEF Next
<1> QED
  BY <1>1, InitIInv, PTL DEF Spec

\* auth.tsx:33-38: a tab that shows a user acts as that user, unless another tab has
\* signed in or out since or the browser has dropped the cookie.
THEOREM ShownUserActs == Spec => []ShowsWhoItActsFor
<1>1. IInv => ShowsWhoItActsFor
  BY DEF IInv
<1> QED
  BY <1>1, Invariance, PTL

\* api.ts:102-105 with csrf.py: the guard refuses nothing that the page sends.
THEOREM GuardRefusesNothing == Spec => []OwnRequestsPass
<1>1. IInv => OwnRequestsPass
  BY DEF IInv, OwnRequestsPass, RequestInv
<1> QED
  BY <1>1, Invariance, PTL

-----------------------------------------------------------------------------
(* What a step may never do.                                               *)

\* auth.tsx:51-75 and 147-150: a tab goes to the signed-out page over a cookie that is still
\* good only on a late 401 that was given to an older cookie, or when its check of the
\* session fails or is lost; no sign-in, registration or sign-out does it.
THEOREM FalseSignOutHasTwoCauses == Spec => FalseSignOutCauses
<1>1. ASSUME IInv, [Next]_vars, NEW tab \in Tabs, known[tab] # "out", known'[tab] = "out",
             Live(jar)'
      PROVE  \E s \in Slots :
                /\ wire[s] # None /\ wire'[s] = None /\ wire[s].tab = tab
                /\ \/ /\ wire[s].op \in {"me", "read", "delete"}
                      /\ wire[s].status = "401" /\ wire[s].token # jar
                   \/ wire[s].op = "me" /\ wire[s].status # "401"
  <2>1. TypeOK /\ WireInv
    BY <1>1 DEF IInv, WireInv
  <2>2. \A other \in Tabs : ~Reload(other)
    BY <1>1, <2>1 DEF Reload, TypeOK
  <2>3. PICK s \in Slots : wire[s] # None /\ (Arrive(s) \/ Lose(s))
    BY <1>1, <2>2
       DEF Next, vars, server, Serve, ServeRegister, ServeLogin, ServeLogout, ServeUser,
           ServeRefusal, Expire, CookieExpires, Submit, SignOut, Work, Navigate, Arrive, Lose
  <2>4. PICK status : Settle(s, status) /\ (status = wire[s].status \/ status = "lost")
    BY <2>3 DEF Arrive, Lose
  <2>5. PICK q \in Requests : q = wire[s] /\ RequestInv(q)
    BY <2>1, <2>3 DEF TypeOK, WireInv
  <2>6. /\ known' = [known EXCEPT ![q.tab] = KnownAfter(q, status)]
        /\ jar' = JarAfter(q, status) /\ wire' = [wire EXCEPT ![s] = None]
        /\ sessions' = sessions
    BY <2>4, <2>5 DEF Settle, server
  <2>7. q.tab = tab /\ KnownAfter(q, status) = "out" /\ wire'[s] = None
    BY <1>1, <2>1, <2>6 DEF TypeOK
  <2>8. ~(q.op \in {"me", "login", "register"} /\ status = "200")
    <3> SUFFICES ASSUME q.op \in {"me", "login", "register"}, status = "200" PROVE FALSE
      OBVIOUS
    <3>1. q.who = "out" /\ q.status = "200"
      BY <2>4, <2>5, <2>7, KnownCases
    <3>2. q.op = "me"
      BY <2>5, <3>1, AccountsAssumption DEF RequestInv
    <3>3. q.token \in DOMAIN sessions /\ sessions[q.token].owner = "out"
      BY <2>5, <3>1, <3>2 DEF RequestInv, Owner
    <3>4. sessions \in Seq(Session) /\ DOMAIN sessions = 1 .. Len(sessions)
      BY <2>1, LenProperties DEF TypeOK, Session
    <3>5. sessions[q.token] \in Session
      BY <3>3, <3>4, ElementOfSeq
    <3> QED
      BY <3>3, <3>5, AccountsAssumption DEF Session
  <2>9. ~(q.op = "logout" /\ status = "200")
    BY <1>1, <2>6 DEF JarAfter, Live
  <2>10. jar' = jar
    BY <2>6, <2>8, <2>9 DEF JarAfter
  <2>11. \/ q.op = "me" /\ status # "200"
         \/ status = "401" /\ q.op # "login"
    <3>1. KnownAfter(q, status) # known[q.tab]
      BY <1>1, <2>7
    <3> QED
      BY <2>7, <2>8, <2>9, <3>1, KnownCases
  <2>12. q.status = "401" /\ q.op # "login" => q.op \in {"me", "read", "delete"} /\ q.token # jar
    BY <1>1, <2>5, <2>6, <2>10 DEF RequestInv, Live
  <2>13. \/ q.op \in {"me", "read", "delete"} /\ q.status = "401" /\ q.token # jar
         \/ q.op = "me" /\ q.status # "401"
    <3>1. status = q.status \/ status = "lost"
      BY <2>4, <2>5
    <3> QED
      BY <2>11, <2>12, <3>1
  <2> QED
    BY <2>3, <2>5, <2>7, <2>13
<1>2. IInv /\ [Next]_vars =>
         [\A tab \in Tabs : known[tab] # "out" /\ known'[tab] = "out" /\ Live(jar)' =>
            \E s \in Slots :
               /\ wire[s] # None /\ wire'[s] = None /\ wire[s].tab = tab
               /\ \/ /\ wire[s].op \in {"me", "read", "delete"}
                     /\ wire[s].status = "401" /\ wire[s].token # jar
                  \/ wire[s].op = "me" /\ wire[s].status # "401"]_vars
  BY <1>1
<1> QED
  BY <1>2, Invariance, PTL DEF Spec, FalseSignOutCauses
=============================================================================
