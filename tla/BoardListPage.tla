--------------------------- MODULE BoardListPage ----------------------------
(***************************************************************************)
(* The list of boards: frontend/src/pages/BoardListPage.tsx, between a     *)
(* user who does not wait and a server whose answers may fail, get lost or *)
(* overtake each other.                                                    *)
(*                                                                         *)
(* Creating and deleting are runs, as on the board page: clear the error,  *)
(* perform the action, fetch the list whether or not it failed, show list  *)
(* and error.  The form stays usable meanwhile.  A create that was         *)
(* answered well empties the field of the form, whatever it holds by then. *)
(*                                                                         *)
(* The user types each text once, so that a text stands for one intention; *)
(* it may be submitted as often as it is in the field.  The page stays on  *)
(* screen, and the list's order is left out.  A request whose connection   *)
(* fails has been executed by then or never is.                            *)
(***************************************************************************)
EXTENDS Integers, FiniteSets, Sequences

SE == INSTANCE SequencesExt

CONSTANTS Texts,         \* what the user types
          MaxInFlight,   \* bound: runs in progress at once
          MaxRuns,       \* bound: runs of the page, the initial load included
          None

ASSUME TextsAssumption  == None \notin Texts \cup {"action", "load"}
ASSUME BoundsAssumption == {MaxInFlight, MaxRuns} \subseteq Nat \ {0}

VARIABLES made,      \* the titles of the boards there have been; a board is an index
          there,     \* the boards in the database
          boards,    \* the boards on screen, or None
          error,     \* the error on screen: of an action, of a load, or None
          title,     \* the text in the field, or None
          phase,     \* where each run is
          call,      \* its action: the text to create, the board to delete, or None
          failure,   \* what it will report
          snapshot,  \* the boards in the answer to its GET
          served,    \* the GETs executed and not yet answered, in that order, as far
                     \* as no answer to a later one has arrived
          inOrder,   \* since the page was last at rest no GET has failed, and their
                     \* answers have arrived in the order of their execution
          unsure,    \* the texts a create of which has gone unanswered: submitted again
                     \* before its answer, or its answer lost
          early,     \* the texts submitted again while the run that had created them,
                     \* and had been told so, was still fetching the list
          fresh,     \* the texts the user has not typed yet
          runs

server == <<made, there>>
page   == <<boards, error, title>>
calls  == <<phase, call, failure, snapshot>>
vars   == <<server, page, calls, served, inOrder, unsure, early, fresh, runs>>

Runs   == 1 .. MaxInFlight
Phases == {"idle", "acting", "done", "refused", "loading", "loaded"}

InFlight == {r \in Runs : phase[r] # "idle"}

Create(text)  == [kind |-> "create", text |-> text, board |-> 0]
Delete(board) == [kind |-> "delete", text |-> None, board |-> board]

\* What stands for nothing is no action.
ASSUME NoneAssumption ==
    None \notin [kind : {"create", "delete"}, text : Texts \cup {None}, board : Nat]

-----------------------------------------------------------------------------
(* What the user does.                                                     *)

\* onChange.
Type ==
    /\ \E text \in fresh : title' = text /\ fresh' = fresh \ {text}
    /\ UNCHANGED <<server, boards, error, calls, served, inOrder, unsure, early, runs>>

\* run(): setError(null), then the request.
Begin(r, action) ==
    /\ phase[r] = "idle" /\ \A i \in 1 .. r - 1 : phase[i] # "idle"
    /\ runs < MaxRuns
    /\ runs' = runs + 1
    /\ error' = None
    /\ call' = [call EXCEPT ![r] = action]
    /\ phase' = [phase EXCEPT ![r] = "acting"]
    /\ inOrder' = (inOrder \/ InFlight = {})
    /\ UNCHANGED <<server, boards, title, failure, snapshot, served, fresh>>

\* The run has asked for the text and has no answer; it has been told that the text is
\* created and fetches the list, and not before it has the list will it empty the field.
Awaited(r, text)  == call[r] = Create(text) /\ phase[r] \in {"acting", "done", "refused"}
Fetching(r, text) == call[r] = Create(text) /\ phase[r] \in {"loading", "loaded"} /\ failure[r] = None

\* create: the button is off only while the field is empty.
Submit(r) ==
    /\ title # None
    /\ Begin(r, Create(title))
    /\ unsure' = IF \E i \in Runs : Awaited(i, title) THEN unsure \cup {title} ELSE unsure
    /\ early'  = IF \E i \in Runs : Fetching(i, title) THEN early \cup {title} ELSE early

remove(r) ==
    /\ boards # None
    /\ \E board \in boards : Begin(r, Delete(board))
    /\ UNCHANGED <<unsure, early>>

-----------------------------------------------------------------------------
(* The server: create_board and delete_board.                              *)

\* Mutant of create_board: the answer names a board that was never stored.
create_board_Unstored(text) ==
    /\ there' = there \cup {Len(made) + 1}
    /\ UNCHANGED made

create_board(text) ==
    /\ made' = Append(made, text)
    /\ there' = there \cup {Len(made) + 1}

delete_board(board) ==
    /\ board \in there        \* else a 404
    /\ there' = there \ {board}
    /\ UNCHANGED made

Serve(r) ==
    /\ phase[r] = "acting"
    /\ \/ /\ \/ call[r].kind = "create" /\ create_board(call[r].text)
             \/ call[r].kind = "delete" /\ delete_board(call[r].board)
          /\ phase' = [phase EXCEPT ![r] = "done"]
       \/ /\ phase' = [phase EXCEPT ![r] = "refused"]   \* a 4xx, or a 500
          /\ UNCHANGED server
    /\ UNCHANGED <<page, call, failure, snapshot, served, inOrder, unsure, early, fresh, runs>>

\* The GET is executed: list_boards.
ServeLoad(r) ==
    /\ phase[r] = "loading"
    /\ snapshot' = [snapshot EXCEPT ![r] = there]
    /\ served' = Append(served, r)
    /\ phase' = [phase EXCEPT ![r] = "loaded"]
    /\ UNCHANGED <<server, page, call, failure, inOrder, unsure, early, fresh, runs>>

-----------------------------------------------------------------------------
(* The answers.                                                            *)

\* Refetch either way.
Acted(r, outcome) ==
    /\ failure' = [failure EXCEPT ![r] = outcome]
    /\ phase' = [phase EXCEPT ![r] = "loading"]
    /\ UNCHANGED <<server, page, call, snapshot, served, inOrder, early, fresh, runs>>

Answered(r) ==
    /\ \/ phase[r] = "done" /\ Acted(r, None)
       \/ phase[r] = "refused" /\ Acted(r, "action")
    /\ UNCHANGED unsure

\* No answer, or a 500 after the commit.
Lost(r) ==
    /\ phase[r] \in {"acting", "done", "refused"}
    /\ Acted(r, "action")
    /\ unsure' = unsure \cup ({call[r].text} \ {None})

\* Mutants of TitleAfter: the field is emptied whatever became of the create; it is kept
\* when only the list could not be fetched.
TitleAfter_Emptied(r, loaded) ==
    IF call[r] # None /\ call[r].kind = "create" THEN None ELSE title
TitleAfter_KeptOnAnyFailure(r, loaded) ==
    IF call[r] # None /\ call[r].kind = "create" /\ failure[r] = None /\ loaded THEN None ELSE title

\* create: setTitle('') if run() says the action has been performed.
TitleAfter(r, loaded) ==
    IF call[r] # None /\ call[r].kind = "create" /\ failure[r] = None THEN None ELSE title

\* Mutant of ErrorAfter: only the action is reported.
ErrorAfter_ActionOnly(r, loaded) == failure[r]

\* failure ??= ...
ErrorAfter(r, loaded) == IF failure[r] = None /\ ~loaded THEN "load" ELSE failure[r]

Position(r) == CHOOSE i \in DOMAIN served : served[i] = r

Finish(r, loaded) ==
    /\ title' = TitleAfter(r, loaded)
    /\ error' = ErrorAfter(r, loaded)
    /\ phase' = [phase EXCEPT ![r] = "idle"]
    /\ call' = [call EXCEPT ![r] = None]
    /\ failure' = [failure EXCEPT ![r] = None]
    /\ snapshot' = [snapshot EXCEPT ![r] = None]
    /\ UNCHANGED <<server, unsure, early, fresh, runs>>

\* Mutant of BoardsAfter: the list is replaced only after an action that succeeded.
BoardsAfter_OnSuccess(r) == IF failure[r] = None THEN snapshot[r] ELSE boards

BoardsAfter(r) == snapshot[r]

LoadArrives(r) ==
    /\ phase[r] = "loaded"
    /\ boards' = BoardsAfter(r)
    /\ Finish(r, TRUE)
    /\ inOrder' = (inOrder /\ SE!Contains(served, r))
    /\ served' = IF SE!Contains(served, r) THEN SubSeq(served, Position(r) + 1, Len(served))
                 ELSE served

LoadFails(r) ==
    /\ phase[r] \in {"loading", "loaded"}
    /\ Finish(r, FALSE)
    /\ inOrder' = FALSE
    /\ served' = IF SE!Contains(served, r) THEN SE!RemoveAt(served, Position(r)) ELSE served
    /\ UNCHANGED boards

-----------------------------------------------------------------------------
\* The initial load is under way; there is a board from before.
Init ==
    /\ made = <<None>> /\ there = {1}
    /\ boards = None /\ error = None /\ title = None
    /\ phase = [r \in Runs |-> IF r = 1 THEN "loading" ELSE "idle"]
    /\ call = [r \in Runs |-> None]
    /\ failure = [r \in Runs |-> None]
    /\ snapshot = [r \in Runs |-> None]
    /\ served = <<>> /\ inOrder = TRUE /\ unsure = {} /\ early = {} /\ fresh = Texts /\ runs = 1

ActionEnds(r) == Answered(r) \/ Lost(r)
LoadEnds(r)   == LoadArrives(r) \/ LoadFails(r)

Next ==
    \/ Type
    \/ \E r \in Runs :
          \/ Submit(r) \/ remove(r) \/ Serve(r) \/ ServeLoad(r) \/ ActionEnds(r) \/ LoadEnds(r)

\* A request ends, with an answer or without.
Spec ==
    /\ Init /\ [][Next]_vars
    /\ \A r \in Runs : WF_vars(ActionEnds(r)) /\ WF_vars(LoadEnds(r))

-----------------------------------------------------------------------------
(* Properties.                                                             *)

Actions == {Create(text) : text \in Texts} \cup {Delete(board) : board \in DOMAIN made}

Lists   == (SUBSET DOMAIN made) \cup {None}

\* Every variable has its type; a list, on screen or on the way, names boards that have
\* been made.
TypeOK ==
    /\ made \in Seq(Texts \cup {None}) /\ there \subseteq DOMAIN made
    /\ boards \in Lists /\ snapshot \in [Runs -> Lists]
    /\ error \in {None, "action", "load"} /\ title \in Texts \cup {None}
    /\ phase \in [Runs -> Phases] /\ call \in [Runs -> Actions \cup {None}]
    /\ failure \in [Runs -> {None, "action"}]
    /\ served \in Seq(Runs) /\ inOrder \in BOOLEAN
    /\ {unsure, early, fresh} \subseteq SUBSET Texts /\ runs \in 0 .. MaxRuns

\* BoardListPage.tsx:32-36: however runs overlap, whatever creates and deletes fail or
\* are lost on the way, once all is answered the page lists the boards there are.  It
\* takes that the GETs among them got through and were answered in order.
ListsWhatIsThere == InFlight = {} /\ inOrder => boards = there

Again == unsure \cup early

\* BoardListPage.tsx:23-39 and 52: one text makes two boards only if it was submitted
\* again before its create was answered, if that answer was lost, or if it was submitted
\* again in the window the page leaves after a good answer: the field is not emptied
\* before the list has been fetched.  A refused create and a list that could not be
\* fetched do not lead to a second board.
OncePerText ==
    \A i, j \in DOMAIN made : i # j /\ made[i] = made[j] /\ made[i] # None => made[i] \in Again

Made(text) == \E i \in DOMAIN made : made[i] = text

\* The action of the run has been performed, and its answer has said so or may say so.
Performed(r) == phase[r] = "done" \/ (phase[r] \in {"loading", "loaded"} /\ failure[r] = None)

\* A run on its way has its action; what it has created is there or has been.
RunInv(r) ==
    /\ phase[r] = "idle" => call[r] = None
    /\ phase[r] \in {"idle", "acting", "done", "refused"} => failure[r] = None
    /\ phase[r] \in {"acting", "done", "refused"} => call[r] # None
    /\ \A text \in Texts : call[r] = Create(text) /\ Performed(r) => Made(text)

\* The run creates the text, and has not been told that it failed.
Creating(r, text) == call[r] = Create(text) /\ failure[r] = None

\* Unless a text is one of those, one run at most creates it, and while it may be
\* submitted again it has not been created, or the field will be emptied.
TextInv(text) ==
    text \notin Again =>
       /\ \A r, q \in Runs : Creating(r, text) /\ Creating(q, text) => r = q
       /\ \A r \in Runs : Creating(r, text) /\ Made(text) => Performed(r)
       /\ text \in fresh => /\ title # text /\ ~Made(text)
                            /\ \A r \in Runs : call[r] # Create(text)
       /\ Made(text) /\ title = text => \E r \in Runs : Creating(r, text)

\* The list that will be on screen once the answers on their way have arrived in order.
Coming == IF served = <<>> THEN boards ELSE snapshot[served[Len(served)]]

\* Each GET is executed once before it is answered; if they get through in order, the list
\* that is coming is the list there is, or another GET is to follow.
OrderInv ==
    /\ \A i, j \in DOMAIN served : served[i] = served[j] => i = j
    /\ \A i \in DOMAIN served : phase[served[i]] = "loaded"
    /\ inOrder => \/ Coming = there
                  \/ \E r \in Runs : phase[r] \in {"acting", "done", "refused", "loading"}

\* The inductive invariant behind the safety properties.
IInv == /\ TypeOK /\ OncePerText /\ OrderInv
        /\ \A r \in Runs : RunInv(r)
        /\ \A text \in Texts : TextInv(text)

\* BoardListPage.tsx:52: the field is emptied only for a text that has become a board.
\* (What it holds at that moment may be a text typed since.)
EmptiedOnlyIfCreated ==
    [][title # None /\ title' = None =>
          \E r \in Runs : /\ phase[r] # "idle" /\ phase'[r] = "idle"
                          /\ call[r].kind = "create" /\ call[r].text \in SE!ToSet(made)]_vars

\* BoardListPage.tsx:64-71 and 86: "Loading..." ends in a list or in an error, even when
\* creates are submitted over a list that has never been fetched.
LoadingEnds == boards = None /\ error = None ~> boards # None \/ error # None
=============================================================================
