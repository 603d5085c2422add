----------------------------- MODULE BoardPage ------------------------------
(***************************************************************************)
(* The board page: frontend/src/pages/BoardPage.tsx and the chat of        *)
(* components/AssistantPanel.tsx, between a user who does not wait and a   *)
(* server whose answers may fail, get lost or overtake each other.         *)
(*                                                                         *)
(* Every write of the page is a run: clear the error, perform the action,  *)
(* fetch the board whether or not it failed, show board and error.  A drag *)
(* also rearranges the board on screen at once.  Nothing stops a second    *)
(* run from starting before the first has ended.                           *)
(*                                                                         *)
(* A board is its columns and the cards in each, in order.  The order of   *)
(* the columns, titles and descriptions are left out; an action that only  *)
(* changes those is "rename".  A request whose connection fails has been   *)
(* executed by then or never is.                                           *)
(***************************************************************************)
EXTENDS Ordering, FiniteSets

SE == INSTANCE SequencesExt

CONSTANTS Columns, Cards,
          Start,        \* the board at the start: a list of cards for each column
          Runs,         \* the runs that may be in progress at once
          MaxRuns,      \* bound: runs of the page, the initial load included
          MaxChats,     \* bound: messages to the assistant
          None

ASSUME StartAssumption ==
    /\ Start \in [Columns -> Seq(Cards)]
    /\ \A c \in Columns : IsInjective(Start[c])
    /\ \A c, d \in Columns : c # d => Range(Start[c]) \cap Range(Start[d]) = {}
    /\ MaxRuns \in Nat \ {0} /\ MaxChats \in Nat /\ IsFiniteSet(Cards)

VARIABLES server,    \* the board in the database
          made,      \* the cards there are or have been
          board,     \* the board on screen, or None
          error,     \* the error on screen: of an action, of a load, or None
          phase,     \* where each run is
          call,      \* its action, with the board on screen when it was asked for
          failure,   \* what it will report
          snapshot,  \* the board in the answer to its GET
          chat,      \* "quiet", "asked", or "changed": asked, and the board changed
          served,    \* the GETs executed and not yet answered, in that order, as far
                     \* as no answer to a later one has arrived
          inOrder,   \* since the page was last at rest no GET has failed, and their
                     \* answers have arrived in the order of their execution
          unheard,   \* the assistant has changed the board in a turn that failed,
                     \* and no GET has been executed since
          runs, chats

page == <<board, error, phase, call, failure, snapshot>>
vars == <<server, made, page, chat, served, inOrder, unheard, runs, chats>>

Phases == {"idle", "acting", "done", "refused", "loading", "loaded"}

-----------------------------------------------------------------------------
(* The arrangement of a board.                                             *)

Smaller(m, n) == IF m < n THEN m ELSE n

Holds(lists, k) == \E c \in DOMAIN lists : k \in Range(lists[c])
\* locate
ColumnOf(lists, k) == CHOOSE c \in DOMAIN lists : k \in Range(lists[c])

\* Mutant of applyMove: the index is moved up when the card leaves a place before it.
applyMove_Adjusts(lists, k, to, index) ==
    LET from == ColumnOf(lists, k)
        out  == [lists EXCEPT ![from] = SE!Remove(@, k)]
        at   == IF from = to /\ Place(lists[from], k) < index THEN index - 1 ELSE index
    IN  [out EXCEPT ![to] = SE!InsertAt(@, Smaller(at, Len(out[to])) + 1, k)]

\* applyMove: splice the card out, then in, at most at the end.
applyMove(lists, k, to, index) ==
    LET out == [lists EXCEPT ![ColumnOf(lists, k)] = SE!RemoveAt(@, Place(@, k) + 1)]
    IN  [out EXCEPT ![to] = SE!InsertAt(@, Smaller(index, Len(out[to])) + 1, k)]

\* The server's move_card: the lists that ordering.py numbers.
Moved(lists, k, to, index) ==
    LET from == ColumnOf(lists, k)
    IN  IF from = to THEN [lists EXCEPT ![to] = Placed(@, k, index)]
        ELSE [lists EXCEPT ![from] = without(@, k), ![to] = Placed(@, k, index)]

-----------------------------------------------------------------------------
(* The actions of the page.                                                *)

Action(kind, cards, columns, indexes) ==
    [kind : {kind}, card : cards, into : columns, index : indexes, shown : {board}]

\* onDragEnd: dropped on a column, to its end; on a card, to the place of that card;
\* where it was, nothing.
Drags ==
    {a \in Action("move", Cards, DOMAIN board, 0 .. Cardinality(Cards)) :
        /\ Holds(board, a.card)
        /\ a.index <= Len(board[a.into])
        /\ ~(a.card \in Range(board[a.into]) /\ Place(board[a.into], a.card) = a.index)}

Buttons ==
    Action("create", {None}, DOMAIN board, {0})
    \cup {a \in Action("delete", Cards, {None}, {0}) : Holds(board, a.card)}
    \cup Action("drop", {None}, DOMAIN board, {0})
    \cup Action("rename", {None}, {None}, {0})

\* What the services make of an action on the board as it now is; none: a 404.
Results(a) ==
    CASE a.kind = "move" ->
            {Moved(l, a.card, a.into, a.index) :
                l \in {x \in {server} : Holds(x, a.card) /\ a.into \in DOMAIN x}}
      [] a.kind = "create" ->
            {[server EXCEPT ![a.into] = Append(@, k)] :
                k \in {x \in Cards \ made : a.into \in DOMAIN server}}
      [] a.kind = "delete" ->
            {[c \in DOMAIN l |-> without(l[c], a.card)] : l \in {x \in {server} : Holds(x, a.card)}}
      [] a.kind = "drop" ->
            {[c \in DOMAIN l \ {a.into} |-> l[c]] : l \in {x \in {server} : a.into \in DOMAIN x}}
      [] a.kind = "rename" -> {server}

Shown(lists) == UNION {Range(lists[c]) : c \in DOMAIN lists}

ServerBecomes(lists) ==
    /\ server' = lists
    /\ made' = made \cup Shown(lists)

-----------------------------------------------------------------------------
(* run().                                                                  *)

InFlight == {r \in Runs : phase[r] # "idle"}

\* setError(null), then the action, or straight to the load if there is none.
Begin(r, a) ==
    /\ phase[r] = "idle" /\ runs < MaxRuns
    /\ runs' = runs + 1
    /\ error' = None
    /\ call' = [call EXCEPT ![r] = a]
    /\ phase' = [phase EXCEPT ![r] = IF a = None THEN "loading" ELSE "acting"]
    /\ failure' = [failure EXCEPT ![r] = None]
    /\ inOrder' = (inOrder \/ InFlight = {})
    /\ UNCHANGED <<server, made, snapshot, served, unheard, chats>>

Drag(r) ==
    /\ board # None
    /\ \E a \in Drags :
          /\ Begin(r, a)
          /\ board' = applyMove(board, a.card, a.into, a.index)
    /\ UNCHANGED chat

Press(r) ==
    /\ board # None
    /\ \E a \in Buttons : Begin(r, a)
    /\ UNCHANGED <<board, chat>>

\* The server executes the request.
Serve(r) ==
    /\ phase[r] = "acting"
    /\ \/ /\ \E lists \in Results(call[r]) : ServerBecomes(lists)
          /\ phase' = [phase EXCEPT ![r] = "done"]
       \/ /\ phase' = [phase EXCEPT ![r] = "refused"]   \* a 4xx or a 500
          /\ UNCHANGED <<server, made>>
    /\ UNCHANGED <<board, error, call, failure, snapshot, chat, served, inOrder, unheard, runs, chats>>

\* Mutant of AfterAction: only a write that succeeded is followed by a load.
AfterAction_OnSuccess(outcome) == IF outcome = None THEN "loading" ELSE "idle"

\* Refetch either way.
AfterAction(outcome) == "loading"

Acted(r, outcome) ==
    /\ failure' = [failure EXCEPT ![r] = outcome]
    /\ phase' = [phase EXCEPT ![r] = AfterAction(outcome)]
    /\ UNCHANGED <<server, made, board, error, call, snapshot, chat, served, inOrder, unheard, runs, chats>>

Answered(r) == \/ phase[r] = "done" /\ Acted(r, None)
               \/ phase[r] = "refused" /\ Acted(r, "action")

Lost(r) == phase[r] \in {"acting", "done", "refused"} /\ Acted(r, "action")

\* The GET is executed.
ServeLoad(r) ==
    /\ phase[r] = "loading"
    /\ snapshot' = [snapshot EXCEPT ![r] = server]
    /\ served' = Append(served, r)
    /\ unheard' = FALSE
    /\ phase' = [phase EXCEPT ![r] = "loaded"]
    /\ UNCHANGED <<server, made, board, error, call, failure, chat, inOrder, runs, chats>>

Finish(r, outcome) ==
    /\ error' = outcome
    /\ phase' = [phase EXCEPT ![r] = "idle"]
    /\ call' = [call EXCEPT ![r] = None]
    /\ failure' = [failure EXCEPT ![r] = None]
    /\ snapshot' = [snapshot EXCEPT ![r] = None]
    /\ UNCHANGED <<server, made, chat, unheard, runs, chats>>

LoadArrives(r) ==
    /\ phase[r] = "loaded"
    /\ board' = snapshot[r]
    /\ Finish(r, failure[r])
    /\ inOrder' = (inOrder /\ r \in Range(served))
    /\ served' = IF r \in Range(served) THEN SubSeq(served, Place(served, r) + 2, Len(served))
                 ELSE served

\* failure ??= ...
LoadFails(r) ==
    /\ phase[r] \in {"loading", "loaded"}
    /\ inOrder' = FALSE
    /\ served' = without(served, r)
    /\ Finish(r, IF failure[r] = None THEN "load" ELSE failure[r])
    /\ UNCHANGED board

-----------------------------------------------------------------------------
(* AssistantPanel.send().                                                  *)

Ask ==
    /\ board # None /\ chat = "quiet" /\ chats < MaxChats
    /\ chat' = "asked" /\ chats' = chats + 1
    /\ UNCHANGED <<server, made, page, served, inOrder, unheard, runs>>

\* The agent works on the board.
AgentEdits ==
    /\ chat = "asked"
    /\ \E a \in Action("move", Cards, Columns, 0 .. Cardinality(Cards))
                \cup Action("create", {None}, Columns, {0})
                \cup Action("delete", Cards, {None}, {0}) :
          \E lists \in Results(a) : ServerBecomes(lists)
    /\ chat' = "changed"
    /\ UNCHANGED <<page, served, inOrder, unheard, runs, chats>>

\* answer.changed: onChanged() is a run with no action.
ChatAnswered(r) ==
    /\ chat \in {"asked", "changed"}
    /\ chat' = "quiet"
    /\ IF chat = "changed" THEN Begin(r, None) /\ UNCHANGED board
       ELSE UNCHANGED <<server, made, page, served, inOrder, unheard, runs, chats>>

\* readable(cause) goes into the transcript; the board is not fetched.
ChatFails ==
    /\ chat \in {"asked", "changed"}
    /\ chat' = "quiet"
    /\ unheard' = (unheard \/ chat = "changed")
    /\ UNCHANGED <<server, made, page, served, inOrder, runs, chats>>

-----------------------------------------------------------------------------
\* The initial load is under way: a run with no action.
Init ==
    /\ server = Start /\ made = Shown(Start)
    /\ board = None /\ error = None
    /\ \E first \in Runs :
          phase = [r \in Runs |-> IF r = first THEN "loading" ELSE "idle"]
    /\ call = [r \in Runs |-> None]
    /\ failure = [r \in Runs |-> None]
    /\ snapshot = [r \in Runs |-> None]
    /\ chat = "quiet" /\ served = <<>> /\ inOrder = TRUE /\ unheard = FALSE /\ runs = 1 /\ chats = 0

Step(r) ==
    \/ Drag(r) \/ Press(r) \/ Serve(r) \/ Answered(r) \/ Lost(r)
    \/ ServeLoad(r) \/ LoadArrives(r) \/ LoadFails(r) \/ ChatAnswered(r)

Next == Ask \/ AgentEdits \/ ChatFails \/ \E r \in Runs : Step(r)

Spec == Init /\ [][Next]_vars

-----------------------------------------------------------------------------
(* Properties.                                                             *)

\* Some of the columns, with cards in each; no card is in two places.
IsBoard(lists) ==
    /\ DOMAIN lists \subseteq Columns /\ lists \in [DOMAIN lists -> Seq(Cards)]
    /\ \A c \in DOMAIN lists : IsInjective(lists[c])
    /\ \A c, d \in DOMAIN lists : c # d => Range(lists[c]) \cap Range(lists[d]) = {}

IsAction(a) ==
    a.kind \in {"move", "create", "delete", "drop", "rename"} /\ a.index \in Nat

\* Every variable has its type; no board, in the database, on screen or on the way,
\* has a card in two places.
TypeOK ==
    /\ IsBoard(server) /\ Shown(server) \subseteq made /\ made \subseteq Cards
    /\ board = None \/ IsBoard(board)
    /\ snapshot = [r \in Runs |-> snapshot[r]]
    /\ \A r \in Runs : snapshot[r] = None \/ IsBoard(snapshot[r])
    /\ call = [r \in Runs |-> call[r]] /\ \A r \in Runs : call[r] = None \/ IsAction(call[r])
    /\ error \in {None, "action", "load"}
    /\ phase \in [Runs -> Phases] /\ failure \in [Runs -> {None, "action"}]
    /\ chat \in {"quiet", "asked", "changed"} /\ {inOrder, unheard} \subseteq BOOLEAN
    /\ served \in Seq(Runs)
    /\ runs \in 0 .. MaxRuns /\ chats \in 0 .. MaxChats

AtRest == InFlight = {} /\ chat = "quiet"

\* BoardPage.tsx:97-100, AssistantPanel.tsx:56-58: however runs overlap and whatever
\* writes fail or are lost on the way, once all is answered the page shows the board as
\* the database has it.  It takes that the GETs among them got through and were answered
\* in order, and that no turn of the assistant failed after it had changed the board.
ShowsTheServer == AtRest /\ inOrder /\ ~unheard => board = server

\* The board that will be on screen once the answers on their way have arrived in order.
Coming == IF served = <<>> THEN board ELSE snapshot[served[Len(served)]]

\* A GET is still to follow: that of a run, or of the assistant's answer.
Awaited == \/ \E r \in Runs : phase[r] \in {"acting", "done", "refused", "loading"}
           \/ chat = "changed"

\* Each GET is executed once before it is answered; if they get through in order, the
\* board that is coming is the server's, or another GET is to follow.
OrderInv ==
    /\ IsInjective(served)
    /\ \A i \in DOMAIN served : phase[served[i]] = "loaded"
    /\ inOrder => Coming = server \/ Awaited \/ unheard

\* The inductive invariant behind the properties.
IInv == TypeOK /\ OrderInv /\ \A r \in Runs : phase[r] = "acting" => call[r] # None

\* BoardPage.tsx:31-33, "the same rearrangement the server performs": a drag on a board
\* that is the server's puts every card where the server puts it.
SameRearrangement ==
    [][\A r \in Runs :
          (phase[r] = "acting" /\ phase'[r] = "done" /\ call[r].kind = "move"
             /\ call[r].shown = server) =>
          server' = applyMove(call[r].shown, call[r].card, call[r].into, call[r].index)]_vars
=============================================================================
