---------------------------- MODULE KanbanLists -----------------------------
(***************************************************************************)
(* What the board services promise, with nothing of how: a board is a list *)
(* of columns, a column a list of cards, and every operation takes effect  *)
(* at once on the list as it then is.  Positions, rows and transactions do *)
(* not appear; the position of an item is its place in the list.           *)
(***************************************************************************)
EXTENDS Integers, Sequences

CONSTANTS Users, Boards, Columns, Cards, Unborn, Gone

VARIABLES owner,   \* the owner of each board, Unborn or Gone
          lists,   \* the columns of each board, the cards of each column
          made     \* the columns and cards there are or have been

vars == <<owner, lists, made>>

Holders == Boards \cup Columns
Items   == Columns \cup Cards

SE == INSTANCE SequencesExt

On(x, p)    == x \in SE!ToSet(lists[p])
BoardThere(b) == owner[b] \in Users
ColumnThere(c) == \E b \in Boards : On(c, b)

Init ==
    /\ owner \in [Boards -> Users \cup {Unborn, Gone}]
    /\ made \in SUBSET Items
    /\ DOMAIN lists = Holders
    /\ \A p \in Boards : lists[p] \in Seq(Columns) /\ (lists[p] # <<>> => BoardThere(p))
    /\ \A p \in Columns : lists[p] \in Seq(Cards) /\ (lists[p] # <<>> => ColumnThere(p))
    /\ \A p \in Holders : SE!IsInjective(lists[p]) /\ SE!ToSet(lists[p]) \subseteq made
    /\ \A p, q \in Holders : p # q => SE!ToSet(lists[p]) \cap SE!ToSet(lists[q]) = {}

AddBoard(b, u) ==
    /\ owner[b] = Unborn
    /\ owner' = [owner EXCEPT ![b] = u]
    /\ UNCHANGED <<lists, made>>

\* A new item goes to the end of its list.
Add(x, p) ==
    /\ x \notin made
    /\ made' = made \cup {x}
    /\ lists' = [lists EXCEPT ![p] = Append(@, x)]
    /\ UNCHANGED owner

AddColumn(c, b) == BoardThere(b) /\ Add(c, b)
AddCard(k, c)   == ColumnThere(c) /\ Add(k, c)

\* The lists less what is at place i of q.
Without(q, i) == [lists EXCEPT ![q] = SE!RemoveAt(@, i)]

\* x leaves the list q and enters the list p, at any place.  Every other item keeps its
\* order.
Move(x, q, p) ==
    \E i \in DOMAIN lists[q] : \E at \in 1 .. Len(Without(q, i)[p]) + 1 :
        /\ lists[q][i] = x
        /\ lists' = [Without(q, i) EXCEPT ![p] = SE!InsertAt(@, at, x)]
        /\ UNCHANGED <<owner, made>>

MoveColumn(c, b) == Move(c, b, b)

\* A card moves between the columns of one board.
MoveCard(k, from, to) ==
    /\ \E b \in Boards : On(from, b) /\ On(to, b)
    /\ Move(k, from, to)

DropCard(k, c) ==
    \E i \in DOMAIN lists[c] :
        /\ lists[c][i] = k
        /\ lists' = Without(c, i)
        /\ UNCHANGED <<owner, made>>

\* A column takes its cards with it, a board its columns and their cards.
DropColumn(c, b) ==
    \E i \in DOMAIN lists[b] :
        /\ lists[b][i] = c
        /\ lists' = [Without(b, i) EXCEPT ![c] = <<>>]
        /\ UNCHANGED <<owner, made>>

DropBoard(b) ==
    /\ BoardThere(b)
    /\ owner' = [owner EXCEPT ![b] = Gone]
    /\ lists' = [p \in Holders |-> IF p = b \/ On(p, b) THEN <<>> ELSE lists[p]]
    /\ UNCHANGED made

Next ==
    \/ \E b \in Boards : DropBoard(b) \/ \E u \in Users : AddBoard(b, u)
    \/ \E c \in Columns, b \in Boards : AddColumn(c, b) \/ MoveColumn(c, b) \/ DropColumn(c, b)
    \/ \E k \in Cards, c \in Columns :
          AddCard(k, c) \/ DropCard(k, c) \/ \E to \in Columns : MoveCard(k, c, to)

Spec == Init /\ [][Next]_vars
=============================================================================
