----------------------- MODULE BoardServiceImplements -----------------------
(***************************************************************************)
(* How the rows of BoardService stand for the lists of KanbanLists: the    *)
(* list of a board or a column is its children in the order of their       *)
(* positions.                                                              *)
(***************************************************************************)
EXTENDS BoardService

\* The rows in the order of their positions, counted from 0.
InOrderOf(rows, positions) ==
    [i \in 1 .. Cardinality(rows) |-> CHOOSE x \in rows : positions[x] = i - 1]

Owners == [b \in Boards |-> parent[b]]
InOrder == [p \in Holders |-> InOrderOf(Children(p), position)]
Made == {x \in Items : parent[x] # Unborn}

Lists == INSTANCE KanbanLists WITH owner <- Owners, lists <- InOrder, made <- Made
=============================================================================
