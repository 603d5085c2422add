----------------------------- MODULE AgentTurn -----------------------------
(***************************************************************************)
(* One chat turn of the agent: run_turn and Budget of                      *)
(* backend/app/agent/runner.py, dispatch and the tools of agent/tools.py,  *)
(* the chat endpoint of routers/agent.py, while the same user goes on      *)
(* editing the board in the browser.                                       *)
(*                                                                         *)
(* What the model says is arbitrary: each reply fails, answers, or asks    *)
(* for calls, and each call may be to any tool with any arguments.  A call *)
(* that passes its checks commits at a later step and most then refresh    *)
(* the row, and the browser may act at each of these points.  Positions    *)
(* are BoardService's business; here a renumbering that the browser has    *)
(* overtaken may be refused, or not.                                       *)
(*                                                                         *)
(* All calls of a turn share one database session.  The endpoint keeps the *)
(* board object alive for the whole turn, and with it, once list_board has *)
(* been called, its columns and their cards: a later list_board finds them *)
(* loaded and does not load them again.                                    *)
(***************************************************************************)
EXTENDS Integers

CONSTANTS Columns, Cards,   \* primary keys; a key is never reused
          Bound,            \* the board in the URL
          BoardOf,          \* the board of each column
          Reachable,        \* the boards the user owns
          Start,            \* the column each card is in at the start, or Unborn
          AGENT_MAX_STEPS, AGENT_MAX_MUTATIONS, AGENT_MAX_DELETIONS,
          MaxCalls,         \* bound: calls in one reply
          MaxEdits,         \* bound: edits in the browser during the turn
          Unborn, Gone, None

ASSUME LimitsAssumption ==
    /\ {AGENT_MAX_MUTATIONS, AGENT_MAX_DELETIONS, MaxEdits} \subseteq Nat
    /\ {AGENT_MAX_STEPS, MaxCalls} \subseteq Nat \ {0}
ASSUME BoardsAssumption ==
    /\ Bound \in Reachable
    /\ DOMAIN BoardOf = Columns
    /\ Start \in [Cards -> Columns \cup {Unborn}]
    /\ {Unborn, Gone, None} \cap (Columns \cup Cards) = {}
    /\ Bound \notin Columns /\ Unborn # Gone

VARIABLES column,     \* the committed cards: their column, Unborn or Gone
          dropped,    \* the columns, and the bound board, once deleted
          pc,         \* where the turn is, or how it was answered
          step,       \* model round trips begun
          left,       \* calls of this reply still to be run
          pending,    \* the call that has passed its checks
          overtaken,  \* whether the browser has written since the rows the
                      \* session holds were read
          loaded,     \* the lists loaded by list_board: card -> column, or None
          attribute,  \* the column_id of the loaded card objects
          budget,     \* [mutations, deletions, tripped]
          actions,    \* the calls reported so far: any at all, and how many of
                      \* them report a change and a deletion
          changed,    \* the flag that makes the page reload the board
          wrote,      \* what the turn has really committed: changes to cards,
          erased,     \*   and those of them that were deletions
          edits       \* edits made in the browser

turn == <<pc, step, left, pending, loaded, attribute, budget, actions, changed>>
vars == <<column, dropped, turn, overtaken, wrote, erased, edits>>

Answered == {"200", "502", "500"}

-----------------------------------------------------------------------------
(* The tools and the budget.                                               *)

Tools == {"list_board", "create_card", "edit_card", "move_card", "delete_card"}

mutates(tool)     == tool \in Tools \ {"list_board"}
destructive(tool) == tool = "delete_card"

Call(tool, cards, columns) == [tool : {tool}, card : cards, into : columns]

\* A name that is no tool's, or arguments that do not validate, are "invalid".
Calls ==
    Call("invalid", {None}, {None})
    \cup Call("list_board", {None}, {None})
    \cup Call("create_card", {None}, Columns)
    \cup Call("edit_card", Cards, {None})
    \cup Call("move_card", Cards, Columns)
    \cup Call("delete_card", Cards, {None})

\* A call that has passed its checks, with the column_id they found for a card to move.
PendingCalls == [tool : Tools, card : Cards \cup {None}, into : Columns \cup {None},
                 from : Columns \cup {None}]

\* Mutant of refusal: deletions are not counted apart.
refusal_OneBudget(tool) == mutates(tool) /\ budget.mutations >= AGENT_MAX_MUTATIONS

refusal(tool) ==
    /\ mutates(tool)
    /\ \/ destructive(tool) /\ budget.deletions >= AGENT_MAX_DELETIONS
       \/ budget.mutations >= AGENT_MAX_MUTATIONS

-----------------------------------------------------------------------------
(* The board.                                                              *)

Live(k)  == column[k] \notin {Unborn, Gone}
There(c) == c \in Columns \ dropped

\* The cards in columns of the bound board, as the database has them.
Present == [k \in Cards |-> IF Live(k) /\ BoardOf[column[k]] = Bound THEN column[k] ELSE None]

\* Mutant of OnBoard: the column is the user's, on whichever board.
OnBoard_AnyBoard(c) == There(c) /\ BoardOf[c] \in Reachable

\* _column_on_board
OnBoard(c) == There(c) /\ BoardOf[c] \in Reachable /\ BoardOf[c] = Bound

\* The column_id of the card object: the loaded one's is not read again.
column_id(k) == IF attribute[k] # None THEN attribute[k] ELSE column[k]

\* _card_on_board, on which the services' own lookups follow
CardOnBoard(k) == Live(k) /\ BoardOf[column[k]] \in Reachable /\ OnBoard(column_id(k))

Allowed(c) ==
    /\ c.tool = "list_board" => Bound \notin dropped
    /\ c.card # None => CardOnBoard(c.card)
    /\ c.into # None => OnBoard(c.into)

-----------------------------------------------------------------------------
(* The turn.                                                               *)

\* Mutant of Begun: a round trip that brings calls is not counted.
Begun_Uncounted == step

\* The range of the loop of run_turn.
Begun == step + 1

\* After a call: the next one of this reply, the next reply, or out of steps.
NextRound == IF left > 1 THEN "run" ELSE IF step < AGENT_MAX_STEPS THEN "model" ELSE "200"

\* Mutant of Recorded: a deletion is charged as a change only.
Recorded_ChangesOnly(tool, ok) ==
    [budget EXCEPT !.mutations = IF ok /\ mutates(tool) THEN @ + 1 ELSE @]

\* Budget.record
Recorded(tool, ok) ==
    [budget EXCEPT !.mutations = IF ok /\ mutates(tool) THEN @ + 1 ELSE @,
                   !.deletions = IF ok /\ destructive(tool) THEN @ + 1 ELSE @]

\* The result goes to the list of actions and back into the conversation.
Report(tool, ok) ==
    /\ actions' = [any     |-> TRUE,
                   changes |-> actions.changes + (IF ok /\ mutates(tool) THEN 1 ELSE 0),
                   erased  |-> actions.erased + (IF ok /\ destructive(tool) THEN 1 ELSE 0)]
    /\ changed' = (changed \/ (ok /\ mutates(tool)))
    /\ pc' = NextRound
    /\ left' = left - 1
    /\ pending' = None

\* An exception that is no HTTPException leaves run_turn.
Raise == /\ pc' = "500"
         /\ pending' = None
         /\ UNCHANGED <<left, budget, actions, changed>>

\* Mutant of Lost: the ModelError is raised whenever it comes.
Lost_Raised == "502"

\* A ModelError, if nothing has been done yet, is a 502; later it ends the turn.
Lost == IF actions.any THEN "200" ELSE "502"

\* client.complete: ModelError, an answer, a reply of a shape parse_reply is not
\* ready for, or calls to run.
Complete ==
    /\ pc = "model"
    /\ \/ /\ pc' \in {Lost, "200", "500"}
          /\ UNCHANGED <<step, left>>
       \/ /\ pc' = "run"
          /\ step' = Begun
          /\ left' \in 1 .. MaxCalls
    /\ UNCHANGED <<column, dropped, pending, overtaken, loaded, attribute, budget,
                   actions, changed, wrote, erased, edits>>

\* A call the budget refuses: it is not dispatched.
Refuse ==
    /\ pc = "run"
    /\ \E c \in Calls :
          /\ refusal(c.tool)
          /\ budget' = [budget EXCEPT !.tripped = TRUE]
          /\ Report(c.tool, FALSE)
    /\ UNCHANGED <<column, dropped, step, overtaken, loaded, attribute, wrote,
                   erased, edits>>

\* A call whose name or whose arguments are no string: TOOLS.get or json.loads raises.
Unreadable ==
    /\ pc = "run" /\ Raise
    /\ UNCHANGED <<column, dropped, step, overtaken, loaded, attribute, wrote,
                   erased, edits>>

\* A call that dispatch answers with an error: it is not valid, or a 404.
Reject ==
    /\ pc = "run"
    /\ \E c \in Calls :
          /\ ~refusal(c.tool)
          /\ (c.tool = "invalid" \/ ~Allowed(c))
          /\ budget' = Recorded(c.tool, FALSE)
          /\ Report(c.tool, FALSE)
    /\ UNCHANGED <<column, dropped, step, overtaken, loaded, attribute, wrote,
                   erased, edits>>

\* list_board: what is loaded already is not loaded again.
ListBoard ==
    /\ pc = "run"
    /\ Bound \notin dropped
    /\ loaded' = IF loaded = None THEN Present ELSE loaded
    /\ attribute' = IF loaded = None THEN Present ELSE attribute
    /\ overtaken' = (overtaken /\ loaded # None)
    /\ budget' = Recorded("list_board", TRUE)
    /\ Report("list_board", TRUE)
    /\ UNCHANGED <<column, dropped, step, wrote, erased, edits>>

\* A call that changes the board has passed its checks.
Check ==
    /\ pc = "run"
    /\ \E c \in Calls :
          /\ mutates(c.tool) /\ ~refusal(c.tool) /\ Allowed(c)
          /\ c.tool = "create_card" => \E k \in Cards : column[k] = Unborn   \* bound
          /\ pending' = [tool |-> c.tool, card |-> c.card, into |-> c.into,
                         from |-> IF c.tool = "move_card" THEN column_id(c.card) ELSE None]
    /\ pc' = "commit"
    /\ overtaken' = (overtaken /\ loaded # None)
    /\ UNCHANGED <<column, dropped, step, left, loaded, attribute, budget, actions,
                   changed, wrote, erased, edits>>

\* The row was inserted or updated; the tool goes on to refresh it.
Committed(k) == /\ pc' = "refresh"
                /\ pending' = [pending EXCEPT !.card = k]
                /\ UNCHANGED <<left, budget, actions, changed>>

Wrote == wrote' = wrote + 1 /\ UNCHANGED erased

CommitCreate ==
    /\ pc = "commit" /\ pending.tool = "create_card"
    /\ \/ /\ There(pending.into)
          /\ \E k \in Cards : /\ column[k] = Unborn
                              /\ column' = [column EXCEPT ![k] = pending.into]
                              /\ Committed(k)
          /\ Wrote
       \/ /\ (~There(pending.into) \/ overtaken)   \* IntegrityError
          /\ Raise
          /\ UNCHANGED <<column, wrote, erased>>
    /\ UNCHANGED <<dropped, step, overtaken, loaded, attribute, edits>>

\* A new title or description, or the old ones and no UPDATE.
CommitEdit ==
    /\ pc = "commit" /\ pending.tool = "edit_card"
    /\ \/ Committed(pending.card) /\ UNCHANGED <<wrote, erased>>
       \/ Live(pending.card) /\ Committed(pending.card) /\ Wrote
       \/ ~Live(pending.card) /\ Raise /\ UNCHANGED <<wrote, erased>>   \* StaleDataError
    /\ UNCHANGED <<column, dropped, step, overtaken, loaded, attribute, edits>>

CommitMove ==
    LET k == pending.card
        c == pending.into
        within == c = pending.from
    IN  /\ pc = "commit" /\ pending.tool = "move_card"
        /\ \/ /\ within
              /\ Committed(k)   \* in its place already
              /\ UNCHANGED <<column, wrote, erased>>
           \/ /\ Live(k) /\ There(c)
              /\ column' = IF within THEN column ELSE [column EXCEPT ![k] = c]
              /\ Committed(k) /\ Wrote
           \/ /\ (~Live(k) \/ ~There(c) \/ overtaken)
              /\ Raise
              /\ UNCHANGED <<column, wrote, erased>>
        /\ UNCHANGED <<dropped, step, overtaken, loaded, attribute, edits>>

\* A DELETE that finds no row is no error.
CommitDelete ==
    LET k == pending.card
    IN  /\ pc = "commit" /\ pending.tool = "delete_card"
        /\ \/ /\ column' = [column EXCEPT ![k] = Gone]
              /\ wrote' = wrote + 1 /\ erased' = erased + 1
              /\ budget' = Recorded("delete_card", TRUE)
              /\ Report("delete_card", TRUE)
           \/ overtaken /\ Raise /\ UNCHANGED <<column, wrote, erased>>
        /\ UNCHANGED <<dropped, step, overtaken, loaded, attribute, edits>>

\* session.refresh reads the row again, and fails if it is gone.
Refresh ==
    LET k == pending.card
    IN  /\ pc = "refresh"
        /\ \/ /\ Live(k)
              /\ attribute' = IF attribute[k] = None THEN attribute
                              ELSE [attribute EXCEPT ![k] = column[k]]
              /\ budget' = Recorded(pending.tool, TRUE)
              /\ Report(pending.tool, TRUE)
           \/ ~Live(k) /\ Raise /\ UNCHANGED attribute
        /\ UNCHANGED <<column, dropped, step, overtaken, loaded, wrote, erased, edits>>

-----------------------------------------------------------------------------
\* The user's own requests from the browser, each of them complete.
Edit ==
    /\ edits < MaxEdits
    /\ edits' = edits + 1
    /\ overtaken' = TRUE
    /\ \/ /\ \E k \in Cards, c \in Columns :
                /\ There(c) /\ BoardOf[c] \in Reachable
                /\ (column[k] = Unborn \/ (Live(k) /\ BoardOf[column[k]] = BoardOf[c]))
                /\ column' = [column EXCEPT ![k] = c]
          /\ UNCHANGED dropped
       \/ /\ \E k \in Cards : /\ Live(k) /\ BoardOf[column[k]] \in Reachable
                              /\ column' = [column EXCEPT ![k] = Gone]
          /\ UNCHANGED dropped
       \/ \E C \in {{c} : c \in Columns} \cup {{c \in Columns : BoardOf[c] = Bound} \cup {Bound}} :
             /\ \A c \in C : c \notin dropped
             /\ \A c \in C \cap Columns : BoardOf[c] \in Reachable
             /\ dropped' = dropped \cup C
             /\ column' = [k \in Cards |-> IF column[k] \in C THEN Gone ELSE column[k]]
    /\ UNCHANGED <<turn, wrote, erased>>

Init ==
    /\ column = Start /\ dropped = {}
    /\ pc = "model" /\ step = 0 /\ left = 0 /\ pending = None /\ overtaken = FALSE
    /\ loaded = None /\ attribute = [k \in Cards |-> None]
    /\ budget = [mutations |-> 0, deletions |-> 0, tripped |-> FALSE]
    /\ actions = [any |-> FALSE, changes |-> 0, erased |-> 0] /\ changed = FALSE
    /\ wrote = 0 /\ erased = 0 /\ edits = 0

Turn == \/ Complete \/ Refuse \/ Unreadable \/ Reject \/ ListBoard \/ Check
        \/ CommitCreate \/ CommitEdit \/ CommitMove \/ CommitDelete \/ Refresh

\* Nothing more happens once the turn is answered and the browser rests.
Done == pc \in Answered /\ UNCHANGED vars

Next == Turn \/ Edit \/ Done

\* The model answers or times out, the database answers: the turn goes on.
Spec == Init /\ [][Next]_vars /\ WF_vars(Turn)

-----------------------------------------------------------------------------
(* Properties.                                                             *)

\* Every variable has its type, and the budget is never overspent by its own
\* count (Budget).
TypeOK ==
    /\ column \in [Cards -> Columns \cup {Unborn, Gone}]
    /\ dropped \subseteq Columns \cup {Bound}
    /\ pc \in {"model", "run", "commit", "refresh"} \cup Answered
    /\ step \in 0 .. AGENT_MAX_STEPS /\ left \in 0 .. MaxCalls
    /\ pending \in PendingCalls \cup {None}
    /\ overtaken \in BOOLEAN /\ changed \in BOOLEAN
    /\ loaded = None \/ loaded \in [Cards -> Columns \cup {None}]
    /\ attribute \in [Cards -> Columns \cup {None}]
    /\ budget \in [mutations : 0 .. AGENT_MAX_MUTATIONS,
                   deletions : 0 .. AGENT_MAX_DELETIONS, tripped : BOOLEAN]
    /\ actions \in [any : BOOLEAN, changes : Nat, erased : Nat]
    /\ wrote \in Nat /\ erased \in Nat /\ edits \in 0 .. MaxEdits

\* A card that is or was on the bound board: it can leave it only by being deleted.
Ours(k) == column[k] # Unborn /\ (Live(k) => BoardOf[column[k]] = Bound)

\* The loop of run_turn: there is a round trip left, or a call of this reply.
LoopInv ==
    /\ pc = "model" => step < AGENT_MAX_STEPS
    /\ pc \in {"run", "commit", "refresh"} => left > 0

\* What the checks of a call have established still holds when it commits and when it
\* is reported, whatever the browser does between.
PendingInv ==
    /\ pc = "commit" => /\ pending.tool # "create_card" => pending.card \in Cards
                        /\ pending.tool \in {"create_card", "move_card"} => pending.into \in Columns
    /\ pc = "refresh" => pending.card \in Cards /\ ~destructive(pending.tool)
    /\ pc \in {"commit", "refresh"} =>
          /\ pending \in PendingCalls /\ mutates(pending.tool) /\ ~refusal(pending.tool)
          /\ pending.card # None => Ours(pending.card)
          /\ pending.into # None => BoardOf[pending.into] = Bound

\* What has been committed, charged and reported.  Only between the commit of a call and
\* its report can a change be committed that is not yet charged.
CountInv ==
    /\ budget.mutations = actions.changes
    /\ budget.deletions = actions.erased /\ erased = actions.erased
    /\ changed <=> actions.changes > 0
    /\ actions.changes > 0 => actions.any
    /\ wrote <= AGENT_MAX_MUTATIONS
    /\ pc \notin {"refresh", "500"} => wrote <= actions.changes
    /\ wrote <= actions.changes + 1
    /\ pc = "502" => wrote = 0

\* The inductive invariant behind the safety properties of a turn.
IInv == /\ TypeOK /\ LoopInv /\ PendingInv /\ CountInv
        /\ \A k \in Cards : attribute[k] # None => Ours(k)

\* Whatever the model asks for, and whatever the browser does meanwhile, a turn
\* commits at most AGENT_MAX_MUTATIONS changes and AGENT_MAX_DELETIONS
\* deletions (Budget, config.py).  The budget is checked before a call and
\* charged after it, on the report of the call and not on its commit.
WithinBudget == wrote <= AGENT_MAX_MUTATIONS /\ erased <= AGENT_MAX_DELETIONS

\* A turn that is answered accounts for what it did: each change and each
\* deletion it committed is among the reported actions, and the page is told to
\* reload.  A 502, which carries no actions, is given only if nothing was done
\* (run_turn's handling of ModelError).
ReportsWhatItDid ==
    /\ pc = "200" => /\ wrote <= actions.changes
                     /\ erased <= actions.erased
                     /\ wrote > 0 => changed
    /\ pc = "502" => wrote = 0

\* What the turn changes on the board is on the board of the URL, before and
\* after, though the user has other boards and the check of a call and its
\* commit are apart (_card_on_board, _column_on_board).
StaysOnBoundBoard ==
    [][Turn => \A k \in Cards : column'[k] # column[k] =>
                 \A c \in {column[k], column'[k]} \cap Columns : BoardOf[c] = Bound]_vars

\* A turn is answered: the model cannot keep it going with calls, whether they
\* are run, refused or rejected (the range of run_turn's loop).
Ends == <>(pc \in Answered)

\* run_turn: a turn that has changed the board is not answered with an error
\* that leaves the changes out ("Reporting is the whole point of the actions
\* list").
NothingSilent == pc = "500" => wrote = 0
=============================================================================
