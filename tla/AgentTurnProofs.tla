-------------------------- MODULE AgentTurnProofs --------------------------
(***************************************************************************)
(* A turn of the agent, for any budget, any number of round trips and of   *)
(* calls in a reply, any cards and columns, whatever the model asks for    *)
(* and whatever the browser does meanwhile.                                *)
(*                                                                         *)
(* The argument: the calls of a turn run one after another, so between the *)
(* check of the budget and the charge no other call of the turn is charged;*)
(* and a card leaves its board only by being deleted, so a card that was   *)
(* once seen on the bound board is on it, or gone, when the call commits,  *)
(* however old the column id that was compared.                            *)
(***************************************************************************)
EXTENDS AgentTurn, TLAPS

LEMMA Limits == /\ AGENT_MAX_MUTATIONS \in Nat /\ AGENT_MAX_DELETIONS \in Nat
                /\ AGENT_MAX_STEPS \in Nat /\ AGENT_MAX_STEPS > 0
                /\ MaxCalls \in Nat /\ MaxCalls > 0 /\ MaxEdits \in Nat
  BY LimitsAssumption

LEMMA CallFields ==
    ASSUME NEW c \in Calls
    PROVE  /\ c.card \in Cards \cup {None} /\ c.into \in Columns \cup {None}
           /\ c.tool \in Tools \cup {"invalid"}
           /\ c.tool \in {"create_card", "move_card"} => c.into \in Columns
           /\ c.tool \in {"edit_card", "move_card", "delete_card"} => c.card \in Cards
  BY DEF Calls, Call, Tools

\* The card of a call that has passed its checks is set when the call creates it.
LEMMA PendingType ==
    ASSUME NEW c \in PendingCalls, NEW k \in Cards
    PROVE  /\ [c EXCEPT !.card = k] \in PendingCalls
           /\ [c EXCEPT !.card = k].tool = c.tool /\ [c EXCEPT !.card = k].card = k
           /\ [c EXCEPT !.card = k].into = c.into
  BY DEF PendingCalls

-----------------------------------------------------------------------------
(* The board.                                                              *)

BoardType == /\ column \in [Cards -> Columns \cup {Unborn, Gone}]
             /\ dropped \subseteq Columns \cup {Bound}
             /\ overtaken \in BOOLEAN /\ edits \in 0 .. MaxEdits

SessionType == /\ loaded = None \/ loaded \in [Cards -> Columns \cup {None}]
               /\ attribute \in [Cards -> Columns \cup {None}]

LocalType ==
    /\ pc \in {"model", "run", "commit", "refresh"} \cup Answered
    /\ step \in 0 .. AGENT_MAX_STEPS /\ left \in 0 .. MaxCalls
    /\ pending \in PendingCalls \cup {None}
    /\ budget \in [mutations : 0 .. AGENT_MAX_MUTATIONS,
                   deletions : 0 .. AGENT_MAX_DELETIONS, tripped : BOOLEAN]
    /\ actions \in [any : BOOLEAN, changes : Nat, erased : Nat]
    /\ changed \in BOOLEAN /\ wrote \in Nat /\ erased \in Nat

AttributeInv == \A k \in Cards : attribute[k] # None => Ours(k)

LEMMA Parts ==
    /\ IInv <=> /\ BoardType /\ SessionType /\ LocalType
                /\ LoopInv /\ PendingInv /\ CountInv /\ AttributeInv
    /\ IInv' <=> /\ BoardType' /\ SessionType' /\ LocalType'
                 /\ LoopInv' /\ PendingInv' /\ CountInv' /\ AttributeInv'
  BY DEF IInv, TypeOK, BoardType, SessionType, LocalType, AttributeInv

\* Cards keep their board: they move within it, or they are deleted.
OursKept == \A k \in Cards : Ours(k) => Ours(k)'

LEMMA OursStays ==
    ASSUME BoardType,
           \A k \in Cards : \/ column'[k] \in {column[k], Gone}
                            \/ column'[k] \in Columns /\ BoardOf[column'[k]] = Bound
    PROVE  OursKept
  BY BoardsAssumption DEF OursKept, Ours, Live

\* The browser moves cards between columns of one board.
LEMMA EditKeepsOurs ==
    ASSUME BoardType, Edit
    PROVE  BoardType' /\ OursKept
<1>1. edits' \in 0 .. MaxEdits /\ overtaken' \in BOOLEAN
  BY Limits DEF Edit, BoardType
<1>2. CASE \E k \in Cards, c \in Columns :
              /\ column[k] = Unborn \/ (Live(k) /\ BoardOf[column[k]] = BoardOf[c])
              /\ column' = [column EXCEPT ![k] = c]
              /\ dropped' = dropped
  BY <1>1, <1>2, BoardsAssumption DEF BoardType, OursKept, Ours, Live
<1>3. CASE \E k \in Cards : column' = [column EXCEPT ![k] = Gone] /\ dropped' = dropped
  BY <1>1, <1>3, BoardsAssumption DEF BoardType, OursKept, Ours, Live
<1>4. CASE \E C \in {{c} : c \in Columns} \cup {{c \in Columns : BoardOf[c] = Bound} \cup {Bound}} :
              /\ dropped' = dropped \cup C
              /\ column' = [k \in Cards |-> IF column[k] \in C THEN Gone ELSE column[k]]
  <2>1. BoardType'
    BY <1>1, <1>4 DEF BoardType
  <2>2. \A k \in Cards : column'[k] \in {column[k], Gone}
    BY <1>4
  <2> QED
    BY <2>1, <2>2, OursStays
<1> QED
  BY <1>2, <1>3, <1>4 DEF Edit

-----------------------------------------------------------------------------
(* The ways a call ends.                                                   *)

LEMMA BudgetType ==
    ASSUME NEW b, b \in [mutations : 0 .. AGENT_MAX_MUTATIONS,
                         deletions : 0 .. AGENT_MAX_DELETIONS, tripped : BOOLEAN],
           NEW m \in {0, 1}, NEW d \in {0, 1}
    PROVE  /\ [b EXCEPT !.mutations = @ + m, !.deletions = @ + d].mutations = b.mutations + m
           /\ [b EXCEPT !.mutations = @ + m, !.deletions = @ + d].deletions = b.deletions + d
           /\ [b EXCEPT !.mutations = @ + m, !.deletions = @ + d]
                 \in [mutations : Int, deletions : Int, tripped : BOOLEAN]
           /\ [b EXCEPT !.tripped = TRUE].mutations = b.mutations + 0
           /\ [b EXCEPT !.tripped = TRUE].deletions = b.deletions + 0
           /\ [b EXCEPT !.tripped = TRUE]
                 \in [mutations : Int, deletions : Int, tripped : BOOLEAN]
<1>1. b.mutations \in Int /\ b.deletions \in Int /\ b.tripped \in BOOLEAN
  BY Limits
<1>2. /\ [b EXCEPT !.mutations = @ + m, !.deletions = @ + d].mutations = b.mutations + m
      /\ [b EXCEPT !.mutations = @ + m, !.deletions = @ + d].deletions = b.deletions + d
      /\ [b EXCEPT !.tripped = TRUE].mutations = b.mutations + 0
      /\ [b EXCEPT !.tripped = TRUE].deletions = b.deletions + 0
  BY <1>1
<1>3. [b EXCEPT !.mutations = @ + m, !.deletions = @ + d]
         \in [mutations : Int, deletions : Int, tripped : BOOLEAN]
  <2>1. ASSUME NEW x \in Int, NEW y \in Int
        PROVE  [b EXCEPT !.mutations = x, !.deletions = y]
                  \in [mutations : Int, deletions : Int, tripped : BOOLEAN]
    BY <1>1
  <2>2. b.mutations + m \in Int /\ b.deletions + d \in Int
    BY <1>1
  <2>3. [b EXCEPT !.mutations = b.mutations + m, !.deletions = b.deletions + d]
           \in [mutations : Int, deletions : Int, tripped : BOOLEAN]
    BY <2>1, <2>2, Zenon
  <2> QED
    BY <2>3
<1>4. [b EXCEPT !.tripped = TRUE] \in [mutations : Int, deletions : Int, tripped : BOOLEAN]
  BY <1>1
<1> QED
  BY <1>2, <1>3, <1>4

\* A call is reported: the budget is charged with what the report says.
LEMMA ReportKeeps ==
    ASSUME IInv, NEW tool, NEW ok \in BOOLEAN,
           pc \in {"run", "commit", "refresh"}, Report(tool, ok), step' = step,
           \/ budget' = Recorded(tool, ok)
           \/ ~ok /\ budget' = [budget EXCEPT !.tripped = TRUE],
           ok => ~refusal(tool),
           wrote' \in Nat, wrote' <= actions.changes + (IF ok /\ mutates(tool) THEN 1 ELSE 0),
           erased' = erased + (IF ok /\ destructive(tool) THEN 1 ELSE 0)
    PROVE  LocalType' /\ LoopInv' /\ PendingInv' /\ CountInv'
<1> DEFINE m == IF ok /\ mutates(tool) THEN 1 ELSE 0
           d == IF ok /\ destructive(tool) THEN 1 ELSE 0
<1>1. LocalType /\ LoopInv /\ CountInv
  BY Parts
<1>2. m \in {0, 1} /\ d \in {0, 1} /\ (m = 1 <=> ok /\ mutates(tool))
  OBVIOUS
<1>3. m = 1 => budget.mutations < AGENT_MAX_MUTATIONS
  BY <1>1, Limits DEF refusal, LocalType
<1>4. d = 1 => budget.deletions < AGENT_MAX_DELETIONS
  BY <1>1, Limits DEF refusal, LocalType, mutates, destructive, Tools
<1>5. /\ budget'.mutations = budget.mutations + m
      /\ budget'.deletions = budget.deletions + d
      /\ budget' \in [mutations : Int, deletions : Int, tripped : BOOLEAN]
  <2>1. CASE budget' = Recorded(tool, ok)
    <3>1. budget' = [budget EXCEPT !.mutations = @ + m, !.deletions = @ + d]
      <4>1. budget.mutations \in Int /\ budget.deletions \in Int
        BY <1>1, Limits DEF LocalType
      <4>2. /\ (IF ok /\ mutates(tool) THEN budget.mutations + 1 ELSE budget.mutations)
                  = budget.mutations + m
            /\ (IF ok /\ destructive(tool) THEN budget.deletions + 1 ELSE budget.deletions)
                  = budget.deletions + d
        BY <4>1
      <4> HIDE DEF m, d
      <4> QED
        BY <2>1, <4>2 DEF Recorded
    <3> HIDE DEF m, d
    <3> QED
      BY <1>1, <1>2, <3>1, BudgetType DEF LocalType
  <2>2. CASE ~ok /\ budget' = [budget EXCEPT !.tripped = TRUE]
    <3>1. m = 0 /\ d = 0
      BY <2>2
    <3> HIDE DEF m, d
    <3> QED
      BY <1>1, <2>2, <3>1, BudgetType DEF LocalType
  <2> QED
    BY <2>1, <2>2
<1>6. budget' \in [mutations : 0 .. AGENT_MAX_MUTATIONS,
                   deletions : 0 .. AGENT_MAX_DELETIONS, tripped : BOOLEAN]
  BY <1>1, <1>2, <1>3, <1>4, <1>5, Limits DEF LocalType
<1>7. /\ actions' = [any |-> TRUE, changes |-> actions.changes + m, erased |-> actions.erased + d]
      /\ changed' = (changed \/ (ok /\ mutates(tool)))
      /\ pc' = NextRound /\ left' = left - 1 /\ pending' = None
  BY DEF Report
<1>8. /\ wrote' \in Nat /\ wrote' <= actions.changes + m
      /\ erased' = erased + d /\ step' = step
  OBVIOUS
<1> HIDE DEF m, d
<1>9. pc' \in {"run", "model", "200"}
  BY <1>7 DEF NextRound
<1>10. LocalType'
  BY <1>1, <1>2, <1>6, <1>7, <1>8, <1>9, Limits DEF LocalType, LoopInv, Answered
<1>11. LoopInv'
  BY <1>1, <1>7, <1>8, Limits DEF LocalType, LoopInv, NextRound
<1>12. PendingInv'
  BY <1>9 DEF PendingInv
<1>13. CountInv'
  <2>1. /\ budget'.mutations = actions'.changes /\ actions'.changes = actions.changes + m
        /\ budget'.deletions = actions'.erased /\ erased' = actions'.erased
    BY <1>1, <1>5, <1>7, <1>8 DEF CountInv
  <2>2. changed' <=> actions'.changes > 0
    <3>1. actions.changes \in Nat /\ (changed <=> actions.changes > 0)
      BY <1>1 DEF LocalType, CountInv
    <3>2. changed' <=> changed \/ m = 1
      BY <1>2, <1>7
    <3> QED
      BY <1>2, <2>1, <3>1, <3>2
  <2>3. actions'.any
    BY <1>7
  <2>4. wrote' <= actions'.changes /\ wrote' <= AGENT_MAX_MUTATIONS
    BY <1>1, <1>2, <1>6, <1>8, <2>1, Limits DEF LocalType
  <2> QED
    BY <1>9, <1>10, <2>1, <2>2, <2>3, <2>4 DEF CountInv, LocalType
<1> QED
  BY <1>10, <1>11, <1>12, <1>13

\* A call raises: what it has committed is charged to nobody.
LEMMA RaiseKeeps ==
    ASSUME IInv, pc \in {"run", "commit", "refresh"}, Raise, UNCHANGED <<step, wrote, erased>>
    PROVE  LocalType' /\ LoopInv' /\ PendingInv' /\ CountInv'
<1>1. LocalType /\ CountInv
  BY Parts
<1>2. LocalType' /\ LoopInv' /\ PendingInv'
  BY <1>1 DEF Raise, LocalType, LoopInv, PendingInv, Answered
<1>3. CountInv'
  BY <1>1 DEF Raise, CountInv
<1> QED
  BY <1>2, <1>3

\* A call commits and goes on to refresh the row.
LEMMA CommittedKeeps ==
    ASSUME IInv, pc = "commit", pending.tool # "delete_card",
           NEW k \in Cards, Committed(k),
           pending.tool = "create_card" \/ k = pending.card,
           Ours(k)', step' = step, erased' = erased, wrote' \in {wrote, wrote + 1}
    PROVE  LocalType' /\ LoopInv' /\ PendingInv' /\ CountInv'
<1>1. LocalType /\ LoopInv /\ PendingInv /\ CountInv
  BY Parts
<1>2. /\ pending \in PendingCalls /\ pc' = "refresh" /\ pending' = [pending EXCEPT !.card = k]
      /\ left' = left /\ budget' = budget /\ actions' = actions /\ changed' = changed
  BY <1>1 DEF Committed, PendingInv
<1>3. pending' \in PendingCalls
  BY <1>2, PendingType
<1>4. pending'.tool = pending.tool /\ pending'.card = k /\ pending'.into = pending.into
  BY <1>2, PendingType
<1>5. LocalType'
  BY <1>1, <1>2, <1>3 DEF LocalType
<1>6. LoopInv'
  BY <1>1, <1>2 DEF LoopInv
<1>7. PendingInv'
  BY <1>1, <1>2, <1>3, <1>4 DEF PendingInv, refusal, mutates, destructive
<1>8. budget.mutations < AGENT_MAX_MUTATIONS
  BY <1>1, Limits DEF PendingInv, refusal, LocalType
<1>9. CountInv'
  BY <1>1, <1>2, <1>8, Limits DEF CountInv, LocalType
<1> QED
  BY <1>5, <1>6, <1>7, <1>9

-----------------------------------------------------------------------------
(* The actions.                                                            *)

LEMMA InitIInv == Init => IInv
<1> SUFFICES ASSUME Init PROVE IInv
  OBVIOUS
<1>1. BoardType /\ SessionType
  <2>1. column \in [Cards -> Columns \cup {Unborn, Gone}]
    BY BoardsAssumption DEF Init
  <2>2. 0 \in 0 .. MaxEdits
    BY Limits
  <2> QED
    BY <2>1, <2>2 DEF Init, BoardType, SessionType
<1>2. budget \in [mutations : 0 .. AGENT_MAX_MUTATIONS,
                  deletions : 0 .. AGENT_MAX_DELETIONS, tripped : BOOLEAN]
  BY Limits DEF Init
<1>3. LocalType
  <2>1. 0 \in 0 .. AGENT_MAX_STEPS /\ 0 \in 0 .. MaxCalls /\ 0 \in Nat
    BY Limits
  <2>2. actions \in [any : BOOLEAN, changes : Nat, erased : Nat]
    BY DEF Init
  <2> QED
    BY <1>2, <2>1, <2>2 DEF Init, LocalType
<1>4. LoopInv /\ PendingInv /\ CountInv /\ AttributeInv
  BY Limits DEF Init, LoopInv, PendingInv, CountInv, AttributeInv
<1> QED
  BY <1>1, <1>3, <1>4, Parts

\* A step that leaves the rows and the loaded objects alone.
LEMMA BoardUntouched ==
    ASSUME IInv, UNCHANGED <<column, dropped, overtaken, loaded, attribute, edits>>
    PROVE  BoardType' /\ SessionType' /\ AttributeInv' /\ OursKept
  BY Parts DEF BoardType, SessionType, AttributeInv, OursKept, Ours, Live

\* A step that moves a card of this board within it, or deletes it.
LEMMA BoardWritten ==
    ASSUME IInv, NEW k \in Cards, NEW c \in Columns \cup {Gone},
           column' = [column EXCEPT ![k] = c], c # Gone => BoardOf[c] = Bound,
           UNCHANGED <<dropped, overtaken, loaded, attribute, edits>>
    PROVE  BoardType' /\ SessionType' /\ AttributeInv' /\ OursKept
<1>1. BoardType /\ SessionType /\ AttributeInv
  BY Parts
<1>2. BoardType' /\ SessionType'
  BY <1>1 DEF BoardType, SessionType
<1>3. OursKept
  BY <1>1, OursStays DEF BoardType
<1> QED
  BY <1>1, <1>2, <1>3 DEF AttributeInv, OursKept

LEMMA CompleteKeeps == ASSUME IInv, Complete PROVE IInv'
<1>1. LocalType /\ LoopInv /\ PendingInv /\ CountInv
  BY Parts
<1>2. BoardType' /\ SessionType' /\ AttributeInv'
  BY BoardUntouched DEF Complete
<1>3. pc = "model" /\ pc' \in {"200", "502", "500", "run"}
  BY DEF Complete, Lost
<1>4. pc' = "502" => ~actions.any
  BY DEF Complete, Lost
<1>5. LocalType' /\ LoopInv'
  <2>1. step' \in 0 .. AGENT_MAX_STEPS /\ left' \in 0 .. MaxCalls /\ (pc' = "run" => left' > 0)
    BY <1>1, <1>3, Limits DEF Complete, Begun, LocalType, LoopInv, Lost
  <2> QED
    BY <1>1, <1>3, <2>1 DEF Complete, LocalType, LoopInv, Answered
<1>6. PendingInv'
  BY <1>3 DEF PendingInv
<1>7. CountInv'
  <2>1. ~actions.any => wrote = 0
    BY <1>1, <1>3 DEF CountInv, LocalType
  <2>2. UNCHANGED <<budget, actions, changed, wrote, erased>>
    BY DEF Complete
  <2> QED
    BY <1>1, <1>3, <1>4, <2>1, <2>2 DEF CountInv
<1> QED
  BY <1>2, <1>5, <1>6, <1>7, Parts

LEMMA RefuseKeeps == ASSUME IInv, Refuse \/ Reject PROVE IInv'
<1>1. PICK tool : /\ Report(tool, FALSE)
                  /\ \/ budget' = Recorded(tool, FALSE)
                     \/ budget' = [budget EXCEPT !.tripped = TRUE]
  BY DEF Refuse, Reject
<1>2. LocalType /\ CountInv
  BY Parts
<1>3. pc = "run" /\ UNCHANGED <<step, wrote, erased>>
  BY DEF Refuse, Reject
<1>4. /\ wrote' \in Nat /\ wrote' <= actions.changes + 0
      /\ erased' = erased + 0
  BY <1>2, <1>3 DEF LocalType, CountInv
<1>5. LocalType' /\ LoopInv' /\ PendingInv' /\ CountInv'
  BY <1>1, <1>3, <1>4, ReportKeeps
<1>6. BoardType' /\ SessionType' /\ AttributeInv'
  BY BoardUntouched DEF Refuse, Reject
<1> QED
  BY <1>5, <1>6, Parts

LEMMA UnreadableKeeps == ASSUME IInv, Unreadable PROVE IInv'
<1>1. pc = "run" /\ Raise /\ UNCHANGED <<step, wrote, erased>>
  BY DEF Unreadable
<1>2. LocalType' /\ LoopInv' /\ PendingInv' /\ CountInv'
  BY <1>1, RaiseKeeps
<1>3. BoardType' /\ SessionType' /\ AttributeInv'
  BY BoardUntouched DEF Unreadable
<1> QED
  BY <1>2, <1>3, Parts

LEMMA ListBoardKeeps == ASSUME IInv, ListBoard PROVE IInv'
<1>1. LocalType /\ CountInv /\ BoardType /\ SessionType /\ AttributeInv
  BY Parts
<1>2. LocalType' /\ LoopInv' /\ PendingInv' /\ CountInv'
  <2>1. ~mutates("list_board") /\ ~destructive("list_board") /\ ~refusal("list_board")
    BY DEF mutates, destructive, refusal
  <2>2. pc = "run" /\ UNCHANGED <<step, wrote, erased>>
    BY DEF ListBoard
  <2>3. /\ wrote' \in Nat /\ wrote' <= actions.changes + 0
        /\ erased' = erased + 0
    BY <1>1, <2>2 DEF LocalType, CountInv
  <2> QED
    BY <2>1, <2>2, <2>3, ReportKeeps DEF ListBoard
<1>3. Present \in [Cards -> Columns \cup {None}]
  BY <1>1 DEF Present, Live, BoardType
<1>4. \A k \in Cards : Present[k] # None => Ours(k)
  BY DEF Present, Ours, Live
<1>5. BoardType' /\ SessionType'
  BY <1>1, <1>3 DEF ListBoard, BoardType, SessionType
<1>6. AttributeInv'
  BY <1>1, <1>4 DEF ListBoard, AttributeInv, Ours, Live
<1> QED
  BY <1>2, <1>5, <1>6, Parts

\* The checks establish that the card of the call is a card of this board.
LEMMA CheckedIsOurs ==
    ASSUME BoardType, AttributeInv, NEW k \in Cards, CardOnBoard(k)
    PROVE  Ours(k)
<1>1. CASE attribute[k] # None
  BY <1>1 DEF AttributeInv
<1>2. CASE attribute[k] = None
  BY <1>2 DEF CardOnBoard, OnBoard, column_id, Ours, Live
<1> QED
  BY <1>1, <1>2

LEMMA CheckKeeps == ASSUME IInv, Check PROVE IInv'
<1>1. LocalType /\ LoopInv /\ CountInv /\ BoardType /\ SessionType /\ AttributeInv
  BY Parts
<1>2. PICK c \in Calls : /\ mutates(c.tool) /\ ~refusal(c.tool) /\ Allowed(c)
                         /\ pending' = [tool |-> c.tool, card |-> c.card, into |-> c.into,
                                        from |-> IF c.tool = "move_card"
                                                 THEN column_id(c.card) ELSE None]
  BY DEF Check
<1>3. /\ pc = "run" /\ pc' = "commit" /\ overtaken' \in BOOLEAN
      /\ UNCHANGED <<column, dropped, step, left, loaded, attribute, budget, actions,
                     changed, wrote, erased, edits>>
  BY <1>1 DEF Check, BoardType
<1>4. BoardType' /\ SessionType' /\ AttributeInv'
  BY <1>1, <1>3 DEF BoardType, SessionType, AttributeInv, Ours, Live
<1>5. pending' \in PendingCalls
  <2>1. c.tool \in Tools
    BY <1>2 DEF mutates
  <2>2. c.tool = "move_card" => column_id(c.card) \in Columns
    <3> SUFFICES ASSUME c.tool = "move_card" PROVE column_id(c.card) \in Columns
      OBVIOUS
    <3>1. c.card \in Cards /\ CardOnBoard(c.card)
      BY <1>2, CallFields, BoardsAssumption DEF Allowed
    <3> QED
      BY <3>1 DEF CardOnBoard, OnBoard, There
  <2> QED
    BY <1>2, <2>1, <2>2, CallFields DEF PendingCalls
<1>6. c.card # None => Ours(c.card)
  BY <1>1, <1>2, CallFields, CheckedIsOurs DEF Allowed
<1>7. c.into # None => BoardOf[c.into] = Bound
  BY <1>2 DEF Allowed, OnBoard
<1>8. /\ pending'.tool = c.tool /\ pending'.card = c.card /\ pending'.into = c.into
      /\ c.tool # "create_card" => c.card \in Cards
      /\ c.tool \in {"create_card", "move_card"} => c.into \in Columns
  BY <1>2, CallFields DEF mutates, Tools
<1>9. PendingInv'
  BY <1>2, <1>3, <1>5, <1>6, <1>7, <1>8 DEF PendingInv, Ours, Live, refusal, mutates, destructive
<1>10. LocalType' /\ LoopInv' /\ CountInv'
  BY <1>1, <1>3, <1>5 DEF LocalType, LoopInv, CountInv
<1> QED
  BY <1>4, <1>9, <1>10, Parts

LEMMA CommitCreateKeeps == ASSUME IInv, CommitCreate PROVE IInv'
<1>1. LocalType /\ PendingInv /\ BoardType
  BY Parts
<1>2. /\ pc = "commit" /\ pending.tool = "create_card"
      /\ pending.into \in Columns /\ BoardOf[pending.into] = Bound
      /\ UNCHANGED <<dropped, step, overtaken, loaded, attribute, edits>>
  BY <1>1, CallFields, BoardsAssumption DEF CommitCreate, PendingInv
<1>3. CASE Raise /\ UNCHANGED <<column, wrote, erased>>
  BY <1>2, <1>3, RaiseKeeps, BoardUntouched, Parts
<1>4. ASSUME NEW k \in Cards, column[k] = Unborn,
             column' = [column EXCEPT ![k] = pending.into], Committed(k), Wrote
      PROVE  IInv'
  <2>1. BoardType' /\ SessionType' /\ AttributeInv'
    BY <1>2, <1>4, BoardWritten
  <2>2. Ours(k)'
    BY <1>1, <1>2, <1>4, BoardsAssumption DEF Ours, Live, BoardType
  <2>3. LocalType' /\ LoopInv' /\ PendingInv' /\ CountInv'
    BY <1>2, <1>4, <2>2, CommittedKeeps DEF Wrote
  <2> QED
    BY <2>1, <2>3, Parts
<1> QED
  BY <1>3, <1>4 DEF CommitCreate

LEMMA CommitEditKeeps == ASSUME IInv, CommitEdit PROVE IInv'
<1>1. PendingInv
  BY Parts
<1>2. /\ pc = "commit" /\ pending.tool = "edit_card"
      /\ pending.card \in Cards /\ Ours(pending.card)
      /\ UNCHANGED <<column, dropped, step, overtaken, loaded, attribute, edits>>
  BY <1>1, CallFields, BoardsAssumption DEF CommitEdit, PendingInv
<1> PICK k \in Cards : k = pending.card
  BY <1>2
<1>3. BoardType' /\ SessionType' /\ AttributeInv' /\ Ours(k)'
  BY <1>2, BoardUntouched DEF OursKept
<1>4. CASE Raise /\ UNCHANGED <<wrote, erased>>
  BY <1>2, <1>3, <1>4, RaiseKeeps, Parts
<1>5. CASE Committed(k) /\ erased' = erased /\ wrote' \in {wrote, wrote + 1}
  <2>1. Ours(k)'
    BY <1>3
  <2>2. LocalType' /\ LoopInv' /\ PendingInv' /\ CountInv'
    BY <1>2, <1>5, <2>1, CommittedKeeps
  <2> QED
    BY <1>3, <2>2, Parts
<1> QED
  BY <1>4, <1>5 DEF CommitEdit, Wrote

LEMMA CommitMoveKeeps == ASSUME IInv, CommitMove PROVE IInv'
<1>1. PendingInv /\ BoardType
  BY Parts
<1>2. /\ pc = "commit" /\ pending.tool = "move_card"
      /\ pending.card \in Cards /\ Ours(pending.card)
      /\ pending.into \in Columns /\ BoardOf[pending.into] = Bound
      /\ UNCHANGED <<dropped, step, overtaken, loaded, attribute, edits>>
  BY <1>1, CallFields, BoardsAssumption DEF CommitMove, PendingInv
<1> PICK k \in Cards, c \in Columns : k = pending.card /\ c = pending.into
  BY <1>2
<1>3. CASE UNCHANGED column
  <2>1. BoardType' /\ SessionType' /\ AttributeInv' /\ OursKept
    BY <1>2, <1>3, BoardUntouched
  <2>2. Ours(k)'
    BY <1>2, <2>1 DEF OursKept
  <2>3. CASE Raise /\ UNCHANGED <<wrote, erased>>
    BY <1>2, <2>1, <2>3, RaiseKeeps, Parts
  <2>4. CASE Committed(k) /\ erased' = erased /\ wrote' \in {wrote, wrote + 1}
    <3>1. LocalType' /\ LoopInv' /\ PendingInv' /\ CountInv'
      BY <1>2, <2>2, <2>4, CommittedKeeps
    <3> QED
      BY <2>1, <3>1, Parts
  <2> QED
    BY <1>3, <2>3, <2>4 DEF CommitMove, Wrote
<1>4. CASE column' = [column EXCEPT ![k] = c] /\ Committed(k) /\ Wrote
  <2>1. BoardType' /\ SessionType' /\ AttributeInv' /\ OursKept
    BY <1>2, <1>4, BoardWritten
  <2>2. Ours(k)'
    BY <1>2, <2>1 DEF OursKept
  <2>3. LocalType' /\ LoopInv' /\ PendingInv' /\ CountInv'
    BY <1>2, <1>4, <2>2, CommittedKeeps DEF Wrote
  <2> QED
    BY <2>1, <2>3, Parts
<1> QED
  BY <1>3, <1>4 DEF CommitMove

LEMMA CommitDeleteKeeps == ASSUME IInv, CommitDelete PROVE IInv'
<1> DEFINE k == pending.card
<1>1. PendingInv /\ LocalType /\ CountInv
  BY Parts
<1>2. /\ pc = "commit" /\ pending.tool = "delete_card" /\ k \in Cards
      /\ ~refusal("delete_card")
      /\ UNCHANGED <<dropped, step, overtaken, loaded, attribute, edits>>
  BY <1>1, CallFields, BoardsAssumption DEF CommitDelete, PendingInv
<1>3. CASE Raise /\ UNCHANGED <<column, wrote, erased>>
  BY <1>2, <1>3, RaiseKeeps, BoardUntouched, Parts
<1>4. CASE /\ column' = [column EXCEPT ![k] = Gone]
           /\ wrote' = wrote + 1 /\ erased' = erased + 1
           /\ budget' = Recorded("delete_card", TRUE) /\ Report("delete_card", TRUE)
  <2>1. BoardType' /\ SessionType' /\ AttributeInv'
    BY <1>2, <1>4, BoardWritten
  <2>2. mutates("delete_card") /\ destructive("delete_card")
    BY DEF mutates, destructive, Tools
  <2>3. wrote' \in Nat /\ wrote' <= actions.changes + 1
    BY <1>1, <1>2, <1>4 DEF LocalType, CountInv
  <2>4. LocalType' /\ LoopInv' /\ PendingInv' /\ CountInv'
    BY <1>2, <1>4, <2>2, <2>3, ReportKeeps
  <2> QED
    BY <2>1, <2>4, Parts
<1> QED
  BY <1>3, <1>4 DEF CommitDelete

LEMMA RefreshKeeps == ASSUME IInv, Refresh PROVE IInv'
<1> DEFINE k == pending.card
<1>1. PendingInv /\ LocalType /\ CountInv /\ BoardType /\ SessionType /\ AttributeInv
  BY Parts
<1>2. /\ pc = "refresh" /\ k \in Cards /\ mutates(pending.tool) /\ ~refusal(pending.tool)
      /\ ~destructive(pending.tool)
      /\ UNCHANGED <<column, dropped, step, overtaken, loaded, wrote, erased, edits>>
  BY <1>1 DEF Refresh, PendingInv
<1>3. CASE Raise /\ UNCHANGED attribute
  BY <1>2, <1>3, RaiseKeeps, BoardUntouched, Parts
<1>4. CASE /\ Live(k)
           /\ attribute' = IF attribute[k] = None THEN attribute
                           ELSE [attribute EXCEPT ![k] = column[k]]
           /\ budget' = Recorded(pending.tool, TRUE) /\ Report(pending.tool, TRUE)
  <2>1. BoardType'
    BY <1>1, <1>2 DEF BoardType
  <2>2. column[k] \in Columns
    BY <1>1, <1>2, <1>4 DEF BoardType, Live
  <2>3. SessionType'
    BY <1>1, <1>2, <1>4, <2>2 DEF SessionType
  <2>4. AttributeInv'
    BY <1>1, <1>2, <1>4 DEF AttributeInv, SessionType, Ours, Live
  <2>5. wrote' \in Nat /\ wrote' <= actions.changes + 1 /\ erased' = erased + 0
    BY <1>1, <1>2 DEF LocalType, CountInv
  <2>6. LocalType' /\ LoopInv' /\ PendingInv' /\ CountInv'
    BY <1>2, <1>4, <2>5, ReportKeeps
  <2> QED
    BY <2>1, <2>3, <2>4, <2>6, Parts
<1> QED
  BY <1>3, <1>4 DEF Refresh

LEMMA EditKeeps == ASSUME IInv, Edit PROVE IInv'
<1>1. PendingInv /\ LocalType /\ SessionType /\ CountInv /\ LoopInv /\ AttributeInv /\ BoardType
  BY Parts
<1>2. BoardType' /\ OursKept
  BY <1>1, EditKeepsOurs
<1>3. UNCHANGED <<turn, wrote, erased>>
  BY DEF Edit
<1>4. LocalType' /\ SessionType' /\ CountInv' /\ LoopInv'
  BY <1>1, <1>3 DEF turn, LocalType, SessionType, CountInv, LoopInv
<1>5. AttributeInv'
  BY <1>1, <1>2, <1>3 DEF turn, AttributeInv, OursKept
<1>6. PendingInv'
  <2>1. pc = "commit" \/ pc = "refresh" => pending.card \in Cards \cup {None}
    BY <1>1 DEF PendingInv, PendingCalls
  <2> QED
    BY <1>1, <1>2, <1>3, <2>1
       DEF turn, PendingInv, OursKept, refusal, mutates, destructive
<1> QED
  BY <1>2, <1>4, <1>5, <1>6, Parts

\* The invariant holds for every budget, board and model.
THEOREM Invariance == Spec => []IInv
<1>1. IInv /\ [Next]_vars => IInv'
  <2> SUFFICES ASSUME IInv, [Next]_vars PROVE IInv'
    OBVIOUS
  <2>1. CASE Turn
    BY <2>1, CompleteKeeps, RefuseKeeps, UnreadableKeeps, ListBoardKeeps, CheckKeeps,
       CommitCreateKeeps, CommitEditKeeps, CommitMoveKeeps, CommitDeleteKeeps, RefreshKeeps DEF Turn
  <2>2. CASE Edit
    BY <2>2, EditKeeps
  <2>3. CASE UNCHANGED vars
    <3>1. UNCHANGED <<column, dropped, overtaken, edits>> /\ UNCHANGED turn
          /\ UNCHANGED <<wrote, erased>>
      BY <2>3 DEF vars
    <3>2. BoardType' /\ SessionType' /\ AttributeInv' /\ OursKept
      BY <3>1, BoardUntouched DEF turn
    <3>3. LocalType' /\ LoopInv' /\ PendingInv' /\ CountInv'
      BY <3>1, Parts DEF turn, LocalType, LoopInv, PendingInv, CountInv, Ours, Live,
                         refusal, mutates, destructive
    <3> QED
      BY <3>2, <3>3, Parts
  <2> QED
    BY <2>1, <2>2, <2>3 DEF Next, Done
<1> QED
  BY <1>1, InitIInv, PTL DEF Spec

\* Budget, config.py: a turn never commits more changes, or more deletions, than it may.
THEOREM BudgetHolds == Spec => []WithinBudget
<1>1. IInv => WithinBudget
  BY Limits, Parts DEF CountInv, LocalType, WithinBudget
<1> QED
  BY <1>1, Invariance, PTL

\* run_turn: an answered turn reports all it did, and a 502 is given only if it did nothing.
THEOREM AnswersReport == Spec => []ReportsWhatItDid
<1>1. IInv => ReportsWhatItDid
  <2> SUFFICES ASSUME IInv PROVE ReportsWhatItDid
    OBVIOUS
  <2>1. CountInv /\ LocalType
    BY Parts
  <2> QED
    BY <2>1 DEF CountInv, LocalType, ReportsWhatItDid
<1> QED
  BY <1>1, Invariance, PTL

\* _card_on_board, _column_on_board: the turn changes no card of another board.
THEOREM OnlyTheBoundBoard == Spec => StaysOnBoundBoard
<1>1. ASSUME IInv, Turn, NEW k \in Cards, column'[k] # column[k],
             NEW c \in {column[k], column'[k]} \cap Columns
      PROVE  BoardOf[c] = Bound
  <2>1. PendingInv /\ BoardType
    BY <1>1, Parts
  <2>2. pc = "commit"
    BY <1>1, <2>1 DEF Turn, Complete, Refuse, Unreadable, Reject, ListBoard, Check, CommitCreate, CommitEdit,
                CommitMove, CommitDelete, Refresh, PendingInv
  <2>3. CASE CommitCreate
    BY <1>1, <2>1, <2>2, <2>3, CallFields, BoardsAssumption
       DEF CommitCreate, PendingInv, BoardType
  <2>4. CASE CommitMove
    BY <1>1, <2>1, <2>2, <2>4, CallFields, BoardsAssumption
       DEF CommitMove, PendingInv, BoardType, Ours, Live
  <2>5. CASE CommitDelete
    BY <1>1, <2>1, <2>2, <2>5, CallFields, BoardsAssumption
       DEF CommitDelete, PendingInv, BoardType, Ours, Live
  <2> QED
    BY <1>1, <2>3, <2>4, <2>5
       DEF Turn, Complete, Refuse, Unreadable, Reject, ListBoard, Check, CommitEdit, Refresh
<1>2. IInv /\ [Next]_vars =>
         [Turn => \A k \in Cards : column'[k] # column[k] =>
             \A c \in {column[k], column'[k]} \cap Columns : BoardOf[c] = Bound]_vars
  BY <1>1
<1> QED
  BY <1>2, Invariance, PTL DEF Spec, StaysOnBoundBoard
=============================================================================
