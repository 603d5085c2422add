---------------------------- MODULE BoardService ----------------------------
(***************************************************************************)
(* backend/app/services/{boards,columns,cards}.py over the tables of       *)
(* models.py: what any number of HTTP requests do to the shared database.  *)
(*                                                                         *)
(* Every request has an AsyncSession of its own and gives up the event     *)
(* loop at each await, so its SELECTs are steps of their own, each seeing  *)
(* what is committed at that instant (PostgreSQL's READ COMMITTED).  What  *)
(* was read stays in the session's identity map: a row that is loaded is   *)
(* not refreshed by a later query.  The UPDATEs and DELETEs of one request *)
(* follow its last read and hold their row locks until the commit, so they *)
(* take effect together: the commit is one step.                           *)
(*                                                                         *)
(* Boards, columns and cards are all rows with a parent: the owner of a    *)
(* board, the board of a column, the column of a card.  Titles and         *)
(* descriptions are left out: no property tells two of them apart.         *)
(***************************************************************************)
EXTENDS Ordering, FiniteSets

CONSTANTS Users, Boards, Columns, Cards,  \* primary keys; a key is never reused
          Requests,      \* HTTP requests, each made at most once
          Kinds,         \* the operations the requests may ask for
          MaxIndex,      \* bound: the largest position a client asks for
          MaxInFlight,   \* bound: how many requests may be in progress at once
          Layouts,       \* the contents the database may start with
          Unborn, Gone,  \* in place of a parent: not inserted yet, deleted
          None

Items   == Columns \cup Cards
Rows    == Boards \cup Items
Holders == Boards \cup Columns
Parents == Users \cup Holders

VARIABLES parent,        \* the committed rows: parent[x], Unborn or Gone
          position,      \* the committed position of each column and card
          call,          \* what each request in progress asks for
          pc,            \* where each request is, or how it was answered
          seenParent,    \* each session's identity map: the parent attribute of
          seenPosition,  \*   the rows it has loaded, and their position attribute
          siblings,      \* the list each request has read
          targets        \* the second list: the cards of a move's target column, or
                         \*   of the columns of a board

-----------------------------------------------------------------------------
(* Assumptions.                                                            *)

\* What is written for a parent that is no row: model values of their own.
NoRow == {Unborn, Gone, None}

ASSUME KeysAssumption ==
    /\ Users \cap Rows = {} /\ Boards \cap Items = {} /\ Columns \cap Cards = {}
    /\ NoRow \cap Parents = {} /\ NoRow \cap Rows = {}
    /\ Unborn # Gone /\ Unborn # None /\ Gone # None

ASSUME FinitenessAssumption == IsFiniteSet(Rows)

ASSUME BoundsAssumption == MaxIndex \in Nat /\ MaxInFlight \in Nat

\* A database the application can have written: every row under a live parent of
\* the right kind, every list of columns or cards numbered 0..n-1.
WellFormed(layout) ==
    LET p == layout.parent
        Within(rows, parents) == \A x \in rows :
            p[x] \in {Unborn, Gone} \/ p[x] \in {y \in parents : y \in Rows => p[y] \in Parents}
    IN  /\ p \in [Rows -> Parents \cup {Unborn, Gone}]
        /\ layout.position \in [Rows -> Nat]
        /\ Within(Boards, Users) /\ Within(Columns, Boards) /\ Within(Cards, Columns)
        /\ \A q \in Holders : Contiguous({x \in Rows : p[x] = q}, layout.position)

ASSUME LayoutsAssumption == \A layout \in Layouts : WellFormed(layout)

-----------------------------------------------------------------------------
db    == <<parent, position>>
local == <<call, seenParent, seenPosition, siblings, targets>>
vars  == <<parent, position, call, pc, seenParent, seenPosition, siblings, targets>>

-----------------------------------------------------------------------------
(* The calls.  `row` is the id in the request: what a create adds to, what *)
(* the others act on.                                                      *)

Form(op, rows, columns, indexes) ==
    [op : {op}, user : Users, row : rows, into : columns, index : indexes]

Calls ==
    Form("create_board",  {None},  {None},  {0})
    \cup Form("get_board",     Boards,  {None},  {0})
    \cup Form("list_columns",  Boards,  {None},  {0})
    \cup Form("list_cards",    Columns, {None},  {0})
    \cup Form("rename_board",  Boards,  {None},  {0})
    \cup Form("delete_board",  Boards,  {None},  {0})
    \cup Form("create_column", Boards,  {None},  {0})
    \cup Form("rename_column", Columns, {None},  {0})
    \cup Form("move_column",   Columns, {None},  0 .. MaxIndex)
    \cup Form("delete_column", Columns, {None},  {0})
    \cup Form("create_card",   Columns, {None},  {0})
    \cup Form("update_card",   Cards,   {None},  {0})
    \cup Form("move_card",     Cards,   Columns, 0 .. MaxIndex)
    \cup Form("delete_card",   Cards,   {None},  {0})

Operations == {"create_board", "get_board", "rename_board", "delete_board",
               "create_column", "list_columns", "rename_column", "move_column",
               "delete_column", "create_card", "list_cards", "update_card", "move_card",
               "delete_card"}

\* What becomes of a call: once it is committed its row is the one it answers.
CallType == [op : Operations, user : Users, row : Rows \cup {None},
             into : Columns \cup {None}, index : 0 .. MaxIndex]

Answers  == {"200", "404", "400", "500"}
Waiting  == {"lookup", "source", "target", "list", "listTarget", "contents",
             "commit", "refresh", "answer"}
InFlight == {r \in Requests : pc[r] \in Waiting}

-----------------------------------------------------------------------------
(* The committed database.                                                 *)

Live(x)     == parent[x] \notin {Unborn, Gone}
Children(p) == {x \in Rows : parent[x] = p}

\* Mutants of OwnedColumns and OwnedCards: looked up by their own id alone.
OwnedColumns_ById(u) == {c \in Columns : Live(c)}
OwnedCards_ById(u) == {k \in Cards : Live(k)}

\* The joins of get_owned_board, get_owned_column and get_owned_card.
OwnedBoards(u)  == {b \in Boards : parent[b] = u}
OwnedColumns(u) == {c \in Columns : parent[c] \in OwnedBoards(u)}
OwnedCards(u)   == {k \in Cards : parent[k] \in OwnedColumns(u)}

\* Mutant of Listings: the ORDER BY is left out.
Listings_Unordered(p) == Bijection(1 .. Cardinality(Children(p)), Children(p))

\* ORDER BY position: the order of ties is free.
Orderings(rows) ==
    {s \in Bijection(1 .. Cardinality(rows), rows) :
        \A i, j \in DOMAIN s : i < j => position[s[i]] <= position[s[j]]}

\* SELECT ... WHERE parent = p ORDER BY position.
Listings(p) == Orderings(Children(p))

-----------------------------------------------------------------------------
(* The session of a request.                                               *)

NothingSeen == [x \in Rows |-> None]
NoPositions == [x \in Rows |-> 0]

\* Rows that come back from a query: the ones loaded before keep their attributes.
Load(r, rows) ==
    LET fresh == {x \in rows : seenParent[r][x] = None}
    IN  /\ seenParent' = [seenParent EXCEPT ![r] =
                            [x \in Rows |-> IF x \in fresh THEN parent[x] ELSE @[x]]]
        /\ seenPosition' = [seenPosition EXCEPT ![r] =
                            [x \in Rows |-> IF x \in fresh THEN position[x] ELSE @[x]]]

\* Nothing the session holds is read again.
Forget(r) ==
    /\ seenParent' = [seenParent EXCEPT ![r] = NothingSeen]
    /\ seenPosition' = [seenPosition EXCEPT ![r] = NoPositions]
    /\ siblings' = [siblings EXCEPT ![r] = <<>>]
    /\ targets' = [targets EXCEPT ![r] = <<>>]

Answer(r, code) ==
    /\ pc' = [pc EXCEPT ![r] = code]
    /\ call' = [call EXCEPT ![r] = None]
    /\ Forget(r)

Goto(r, label) == pc' = [pc EXCEPT ![r] = label]

-----------------------------------------------------------------------------
(* A transaction: the parents and the positions it sets, the rows it       *)
(* UPDATEs and the rows it DELETEs.                                        *)

Tx(parents, positions, updated, deleted) ==
    [parent |-> parents, position |-> positions, updated |-> updated, deleted |-> deleted]

Nothing == [x \in {} |-> None]

\* ON DELETE CASCADE, down to the cards of the columns of a board.
Doomed(rows) ==
    {x \in Rows : /\ Live(x)
                  /\ \/ x \in rows
                     \/ parent[x] \in rows
                     \/ parent[x] \in Rows /\ parent[parent[x]] \in rows}

\* Mutant of ParentAfter: the delete-orphan cascade takes a card out of the column
\* it leaves.
ParentAfter_DeletesOrphans(tx) ==
    [x \in Rows |-> IF x \in Doomed(tx.deleted) THEN Gone
                    ELSE IF x \notin DOMAIN tx.parent THEN parent[x]
                    ELSE IF parent[x] = Unborn THEN tx.parent[x] ELSE Gone]

\* An UPDATE of a row that is gone changes nothing.
ParentAfter(tx) ==
    [x \in Rows |-> IF x \in Doomed(tx.deleted) THEN Gone
                    ELSE IF x \in DOMAIN tx.parent /\ parent[x] # Gone THEN tx.parent[x]
                    ELSE parent[x]]

PositionAfter(tx) ==
    [x \in Rows |-> IF x \in Doomed(tx.deleted) THEN 0
                    ELSE IF x \in DOMAIN tx.position /\ parent[x] # Gone THEN tx.position[x]
                    ELSE position[x]]

\* SQLAlchemy counts the rows an UPDATE found when the statement is for one row
\* (StaleDataError if there is none); a batch of several rows is not counted.
\* The card whose column changes has a statement of its own.  SQLAlchemy batches by the
\* set of columns written, so a statement may also be for one row only where several
\* are updated; the model, which counts them all as batched, commits more than the code.
MissesARow(tx) ==
    \E x \in tx.updated : /\ parent[x] = Gone
                          /\ x \in DOMAIN tx.parent \/ tx.updated = {x}

ForeignKeysHold(tx) ==
    \A x \in DOMAIN tx.parent :
        tx.parent[x] \in Rows => ParentAfter(tx)[tx.parent[x]] \notin {Unborn, Gone}

\* The deferred unique constraints, on the final arrangement.
PositionsUnique(tx) ==
    \A x, y \in Items :
        /\ ParentAfter(tx)[x] \notin {Unborn, Gone}
        /\ ParentAfter(tx)[x] = ParentAfter(tx)[y]
        /\ PositionAfter(tx)[x] = PositionAfter(tx)[y]
        => x = y

Accepted(tx) == ~MissesARow(tx) /\ ForeignKeysHold(tx) /\ PositionsUnique(tx)

Apply(tx) == /\ parent' = ParentAfter(tx)
             /\ position' = PositionAfter(tx)

\* A refused transaction is rolled back and the request ends in a 500.
Refused(r, tx) == ~Accepted(tx) /\ Answer(r, "500") /\ UNCHANGED db

\* Commit, then refresh the row that is answered.
CommitAndRefresh(r, tx, row) ==
    \/ /\ Accepted(tx)
       /\ Apply(tx)
       /\ Goto(r, "refresh")
       /\ call' = [call EXCEPT ![r].row = row]
       /\ Forget(r)
    \/ Refused(r, tx)

\* Commit and answer 204.
CommitAndAnswer(r, tx) ==
    \/ Accepted(tx) /\ Apply(tx) /\ Answer(r, "200")
    \/ Refused(r, tx)

-----------------------------------------------------------------------------
(* The steps of the handlers.                                              *)

Arrive(r) ==
    /\ pc[r] = "new"
    /\ Cardinality(InFlight) < MaxInFlight
    /\ \E c \in Calls :
          /\ c.op \in Kinds
          /\ call' = [call EXCEPT ![r] = c]
          /\ Goto(r, IF c.op = "create_board" THEN "commit" ELSE "lookup")
    /\ UNCHANGED <<parent, position, seenParent, seenPosition, siblings, targets>>

\* Fetch a row through the ownership join, or answer 404.
Fetch(r, row, owned, next) ==
    \/ /\ row \in owned
       /\ Load(r, {row})
       /\ Goto(r, next)
       /\ UNCHANGED <<parent, position, call, siblings, targets>>
    \/ row \notin owned /\ Answer(r, "404") /\ UNCHANGED db

GetOwnedBoard(r) ==
    /\ pc[r] = "lookup"
    /\ call[r].row \in Boards
    /\ Fetch(r, call[r].row, OwnedBoards(call[r].user),
             IF call[r].op \in {"rename_board", "delete_board"} THEN "commit" ELSE "list")

GetOwnedColumn(r) ==
    /\ pc[r] = "lookup"
    /\ call[r].row \in Columns
    /\ Fetch(r, call[r].row, OwnedColumns(call[r].user),
             IF call[r].op = "rename_column" THEN "commit" ELSE "list")

GetOwnedCard(r) ==
    /\ pc[r] = "lookup"
    /\ call[r].row \in Cards
    /\ Fetch(r, call[r].row, OwnedCards(call[r].user),
             CASE call[r].op = "update_card" -> "commit"
               [] call[r].op = "delete_card" -> "list"
               [] call[r].op = "move_card"   -> "source")

\* move_card: the column the card was in when it was loaded.
GetSourceColumn(r) ==
    /\ pc[r] = "source"
    /\ Fetch(r, seenParent[r][call[r].row], OwnedColumns(call[r].user), "target")

\* Mutant of BoardIdOf: the boards are not compared.
BoardIdOf_Unchecked(r, column) == seenParent[r][seenParent[r][call[r].row]]

\* The board_id a column has for this request once it has been loaded.
BoardIdOf(r, column) ==
    IF seenParent[r][column] = None THEN parent[column] ELSE seenParent[r][column]

\* move_card: the column asked for, which has to be on the same board.
GetTargetColumn(r) ==
    LET source == seenParent[r][call[r].row]
        into   == call[r].into
        owned  == OwnedColumns(call[r].user)
    IN  /\ pc[r] = "target"
        /\ IF into \in owned /\ BoardIdOf(r, into) # seenParent[r][source]
           THEN Answer(r, "400") /\ UNCHANGED db
           ELSE Fetch(r, into, owned, "list")

\* The list a request reads: of the row itself if it is to be shown or to be added to,
\* else of the parent the row was loaded with.
ListedParent(r) ==
    IF call[r].op \in {"get_board", "list_columns", "list_cards", "create_column", "create_card"}
    THEN call[r].row
    ELSE seenParent[r][call[r].row]

MovesAcross(r) ==
    call[r].op = "move_card" /\ call[r].into # seenParent[r][call[r].row]

ListSiblings(r) ==
    /\ pc[r] = "list"
    /\ \E s \in Listings(ListedParent(r)) : siblings' = [siblings EXCEPT ![r] = s]
    /\ Load(r, Children(ListedParent(r)))
    /\ Goto(r, CASE call[r].op = "get_board" -> "contents"
                 [] call[r].op \in {"list_columns", "list_cards"} -> "answer"
                 [] MovesAcross(r) -> "listTarget"
                 [] OTHER -> "commit")
    /\ UNCHANGED <<parent, position, call, targets>>

ListTargetSiblings(r) ==
    /\ pc[r] = "listTarget"
    /\ \E s \in Listings(call[r].into) : targets' = [targets EXCEPT ![r] = s]
    /\ Load(r, Children(call[r].into))
    /\ Goto(r, "commit")
    /\ UNCHANGED <<parent, position, call, siblings>>

\* Mutant of Batch: a statement for each column.
Batch_EachOnItsOwn(columns) == IF columns = <<>> THEN 0 ELSE 1

\* selectinload: one statement fetches the cards of all columns.  (Of 500 of them at a
\* time: a board with more columns is read in as many statements.)
Batch(columns) == Len(columns)

\* get_owned_board with_contents: the cards of the columns that have been read.
ListContents(r) ==
    LET columns == siblings[r]
        n       == Batch(columns)
        rows    == UNION {Children(columns[i]) : i \in 1 .. n}
        rest    == SubSeq(columns, n + 1, Len(columns))
    IN  /\ pc[r] = "contents"
        /\ \E s \in Orderings(rows) : targets' = [targets EXCEPT ![r] = @ \o s]
        /\ siblings' = [siblings EXCEPT ![r] = rest]
        /\ Load(r, rows)
        /\ Goto(r, IF rest = <<>> THEN "answer" ELSE "contents")
        /\ UNCHANGED <<parent, position, call>>

\* The list, or the board, is the answer.
Show(r) == pc[r] = "answer" /\ Answer(r, "200") /\ UNCHANGED db

-----------------------------------------------------------------------------
(* The writes.                                                             *)

Commits(r, op) == pc[r] = "commit" /\ call[r].op = op

\* Mutant of Insert: appends one place too far.
Insert_LeavesGap(x, p, at) == Tx([y \in {x} |-> p], [y \in {x} |-> at + 1], {}, {})

\* A new row, with the position after the last of those read.
Insert(x, p, at) == Tx([y \in {x} |-> p], [y \in {x} |-> at], {}, {})

CreateBoard(r) ==
    /\ Commits(r, "create_board")
    /\ \E b \in Boards :
          /\ parent[b] = Unborn
          /\ CommitAndRefresh(r, Insert(b, call[r].user, 0), b)

CreateColumn(r) ==
    /\ Commits(r, "create_column")
    /\ \E c \in Columns :
          /\ parent[c] = Unborn
          /\ CommitAndRefresh(r, Insert(c, call[r].row, Len(siblings[r])), c)

CreateCard(r) ==
    /\ Commits(r, "create_card")
    /\ \E k \in Cards :
          /\ parent[k] = Unborn
          /\ CommitAndRefresh(r, Insert(k, call[r].row, Len(siblings[r])), k)

\* A new title or description; if it is the old one there is no UPDATE.
Retitle(r) ==
    \E updated \in {{}, {call[r].row}} :
        CommitAndRefresh(r, Tx(Nothing, Nothing, updated, {}), call[r].row)

RenameBoard(r)  == Commits(r, "rename_board") /\ Retitle(r)
RenameColumn(r) == Commits(r, "rename_column") /\ Retitle(r)
UpdateCard(r)   == Commits(r, "update_card") /\ Retitle(r)

\* insert_at on the list the row is believed to be in.
Reorder(r) ==
    LET moved == insert_at(siblings[r], call[r].row, call[r].index, seenPosition[r])
    IN  CommitAndRefresh(r, Tx(Nothing, moved, DOMAIN moved, {}), call[r].row)

MoveColumn(r) == Commits(r, "move_column") /\ Reorder(r)

MoveCardWithin(r) == Commits(r, "move_card") /\ ~MovesAcross(r) /\ Reorder(r)

\* remove_from the source, then insert_at the target: the second starts from the
\* positions the first assigned.  What is written is what differs from the loaded
\* row in the end.
MoveCardAcross(r) ==
    LET card   == call[r].row
        loaded == seenPosition[r]
        Assign(attributes, new) ==
            [x \in Rows |-> IF x \in DOMAIN new THEN new[x] ELSE attributes[x]]
        closed == Assign(loaded, remove_from(siblings[r], card, loaded))
        opened == Assign(closed, insert_at(targets[r], card, call[r].index, closed))
        moved  == [x \in {y \in Rows : opened[y] # loaded[y]} |-> opened[x]]
    IN  /\ Commits(r, "move_card")
        /\ MovesAcross(r)
        /\ CommitAndRefresh(r, Tx([x \in {card} |-> call[r].into], moved,
                                  DOMAIN moved \cup {card}, {}), card)

DeleteBoard(r) ==
    /\ Commits(r, "delete_board")
    /\ CommitAndAnswer(r, Tx(Nothing, Nothing, {}, {call[r].row}))

\* The row is deleted, the gap closed.
Remove(r) ==
    LET moved == remove_from(siblings[r], call[r].row, seenPosition[r])
    IN  CommitAndAnswer(r, Tx(Nothing, moved, DOMAIN moved, {call[r].row}))

DeleteColumn(r) == Commits(r, "delete_column") /\ Remove(r)
DeleteCard(r)   == Commits(r, "delete_card") /\ Remove(r)

\* session.refresh after the commit fails if the row has been deleted meanwhile.
Refresh(r) ==
    /\ pc[r] = "refresh"
    /\ Answer(r, IF Live(call[r].row) THEN "200" ELSE "500")
    /\ UNCHANGED db

\* The connection is lost, or PostgreSQL picks this transaction to break a
\* deadlock: it is rolled back.
Abort(r) == r \in InFlight /\ Answer(r, "500") /\ UNCHANGED db

-----------------------------------------------------------------------------
Init ==
    /\ \E layout \in Layouts : parent = layout.parent /\ position = layout.position
    /\ call = [r \in Requests |-> None]
    /\ pc = [r \in Requests |-> "new"]
    /\ seenParent = [r \in Requests |-> NothingSeen]
    /\ seenPosition = [r \in Requests |-> NoPositions]
    /\ siblings = [r \in Requests |-> <<>>]
    /\ targets = [r \in Requests |-> <<>>]

Read(r) ==
    \/ GetOwnedBoard(r) \/ GetOwnedColumn(r) \/ GetOwnedCard(r)
    \/ GetSourceColumn(r) \/ GetTargetColumn(r)
    \/ ListSiblings(r) \/ ListTargetSiblings(r) \/ ListContents(r) \/ Show(r)

Write(r) ==
    \/ CreateBoard(r) \/ CreateColumn(r) \/ CreateCard(r)
    \/ RenameBoard(r) \/ RenameColumn(r) \/ UpdateCard(r)
    \/ MoveColumn(r) \/ MoveCardWithin(r) \/ MoveCardAcross(r)
    \/ DeleteBoard(r) \/ DeleteColumn(r) \/ DeleteCard(r)

Step(r) == Arrive(r) \/ Read(r) \/ Write(r) \/ Refresh(r) \/ Abort(r)

Next == \E r \in Requests : Step(r)

Spec == Init /\ [][Next]_vars

-----------------------------------------------------------------------------
(* Properties.                                                             *)

BoardOf(x) == IF x \in Boards THEN x
              ELSE IF x \in Columns THEN parent[x]
              ELSE parent[parent[x]]

\* Every variable has its type: positions never go below zero, and the lists a request
\* loads and the parents it remembers are rows of the tables (columns.py, cards.py).
TypeOK ==
    /\ parent \in [Rows -> Parents \cup {Unborn, Gone}]
    /\ position \in [Rows -> Nat]
    /\ call \in [Requests -> CallType \cup {None}]
    /\ pc \in [Requests -> {"new"} \cup Waiting \cup Answers]
    /\ seenParent \in [Requests -> [Rows -> Parents \cup {None}]]
    /\ seenPosition \in [Requests -> [Rows -> Nat]]
    /\ siblings \in [Requests -> Seq(Rows)]
    /\ targets \in [Requests -> Seq(Rows)]

\* ordering.py:3-4, "within one parent, positions are exactly the integers 0..n-1,
\* with no gaps and no duplicates", of every list in the database, at every moment.
PositionsContiguous == \A p \in Holders : Contiguous(Children(p), position)

\* Tenant isolation (boards.py:20-21, cards.py:92-93): a row is inserted, moved,
\* renumbered or deleted only by a request of the user who owns its board, although
\* ownership was read steps earlier, of other rows, and nothing checks it at the write.
WritesOnlyItsOwn ==
    [][\A x \in Rows : parent'[x] # parent[x] \/ position'[x] # position[x] =>
          \E r \in InFlight :
              /\ pc[r] = "commit" /\ pc'[r] # "commit"
              /\ IF Live(x) THEN parent[BoardOf(x)] = call[r].user
                            ELSE (parent[BoardOf(x)])' = call[r].user]_vars

\* Of the rows that still exist, a session has loaded none that is another user's.
SeesOnlyItsOwn ==
    \A r \in InFlight : \A x \in Rows :
        seenParent[r][x] # None /\ Live(x) => parent[BoardOf(x)] = call[r].user

\* cards.py:100-104: no card changes board, and no column, however many moves run at
\* once and whatever they had read when they compared the boards.
StaysOnItsBoard ==
    [][\A x \in Items : Live(x) /\ Live(x)' => BoardOf(x)' = BoardOf(x)]_vars

\* models.py:93-98, 136-142: a row goes only when it, its column or its board is
\* deleted; a move never costs a card, not even one into a column that is going.
OnlyDeletesRemove ==
    [][\A x \in Rows : Live(x) /\ ~Live(x)' =>
          \E r \in InFlight :
              /\ call[r].op \in {"delete_board", "delete_column", "delete_card"}
              /\ pc[r] = "commit" /\ pc'[r] = "200"
              /\ call[r].row \in {x, parent[x], BoardOf(x)}]_vars

\* boards.py:26-30, models.py:95-97: while cards move between its columns, the answer to
\* get_board has each card that is in one of the columns it lists once, neither twice
\* nor not at all.
EachCardOnce ==
    [][\A r \in InFlight : pc[r] = "contents" /\ pc'[r] = "answer" =>
          /\ IsInjective(targets'[r])
          /\ Range(targets'[r]) = {k \in Cards : Live(k) /\ seenParent[r][parent[k]] # None}]_vars

-----------------------------------------------------------------------------
(* The inductive invariant behind the four properties above: what a        *)
(* session has read may be out of date, but not on whose board it is.      *)

Owner(x)  == parent[BoardOf(x)]
Loaded(r) == {x \in Rows : seenParent[r][x] # None}

\* The foreign keys: a live row hangs from a live row of the right table.
ForeignKeysInv ==
    /\ \A b \in Boards : Live(b) => parent[b] \in Users
    /\ \A c \in Columns : Live(c) => parent[c] \in Boards /\ Live(parent[c])
    /\ \A k \in Cards : Live(k) => parent[k] \in Columns /\ Live(parent[k])

\* A row that was loaded may be gone, a card may be in another column by now; but
\* they and the parents they were loaded with are on the caller's boards, and the
\* column a card was loaded with is on the card's board.
Remembers(r, x, p) ==
    /\ pc[r] \in Waiting \ {"refresh"}
    /\ parent[x] # Unborn
    /\ Live(x) => Owner(x) = call[r].user
    /\ x \in Columns => p \in Boards
    /\ x \in Cards => p \in Columns
    /\ x \in Items => parent[p] # Unborn /\ (Live(p) => Owner(p) = call[r].user)
    /\ x \in Columns /\ Live(x) => parent[x] = p
    /\ x \in Cards /\ Live(x) => /\ Live(p) => parent[p] = BoardOf(x)
                                 /\ p \in Loaded(r) => seenParent[r][p] = BoardOf(x)

SessionInv(r) == \A x \in Loaded(r) : Remembers(r, x, seenParent[r][x])

ListsInv(r) == Range(siblings[r]) \cup Range(targets[r]) \subseteq Loaded(r)

\* What each handler has established by the time it gets to each of its awaits.
ProgressInv(r) ==
    LET op == call[r].op
        row == call[r].row
    IN  /\ pc[r] \in Waiting => call[r] \in CallType
        /\ pc[r] \in Waiting \ {"refresh"} => call[r] \in Calls
        /\ pc[r] = "lookup" => op # "create_board"
        /\ pc[r] \in {"source", "target", "listTarget"} => op = "move_card"
        /\ pc[r] = "list" => op \in {"get_board", "list_columns", "list_cards",
                                     "create_column", "move_column", "delete_column",
                                     "create_card", "move_card", "delete_card"}
        /\ pc[r] = "commit" => op \notin {"get_board", "list_columns", "list_cards"}
        /\ pc[r] \in {"new", "lookup"} => Loaded(r) = {} /\ targets[r] = <<>>
        /\ pc[r] = "list" /\ op = "get_board" => Loaded(r) = {row} /\ targets[r] = <<>>
        /\ pc[r] = "contents" => /\ op = "get_board" /\ targets[r] = <<>>
                                 /\ Range(siblings[r]) = Loaded(r) \cap Columns
        /\ pc[r] \in Waiting \ {"lookup", "refresh"} /\ op # "create_board"
              => row \in Loaded(r)
        /\ pc[r] = "refresh" => row \in Rows
        /\ pc[r] = "target" => seenParent[r][row] \in Loaded(r)
        /\ pc[r] \in {"list", "listTarget", "commit"} /\ op = "move_card"
              => /\ call[r].into \in Loaded(r)
                 /\ seenParent[r][row] \in Loaded(r)
                 /\ seenParent[r][call[r].into] = seenParent[r][seenParent[r][row]]

\* All of it: foreign keys hold, and whatever a request in progress has read and is
\* about to use is on its caller's boards, however long ago it read it.
IInv == /\ TypeOK
        /\ ForeignKeysInv
        /\ \A r \in Requests : SessionInv(r) /\ ListsInv(r) /\ ProgressInv(r)
=============================================================================
