------------------------------ MODULE Ordering ------------------------------
(***************************************************************************)
(* backend/app/ordering.py: how the columns of a board and the cards of a  *)
(* column are renumbered.                                                  *)
(*                                                                         *)
(* A list of rows is the sequence of their primary keys, so it holds no    *)
(* key twice.  The attribute `position` of a row is the function position. *)
(* Python assigns the attributes in place and SQLAlchemy later writes the  *)
(* ones that changed; here each operator returns what would be written: a  *)
(* function from the rows whose position changes to their new position.    *)
(***************************************************************************)
EXTENDS Integers, Sequences, Functions

\* The 0-based place of item in items, as enumerate() counts it.
Place(items, item) == (CHOOSE i \in DOMAIN items : items[i] = item) - 1

\* Mutant of renumber: the last row of the list is forgotten.
renumber_SkipsLast(items, position) ==
    [x \in {y \in Range(items) : /\ position[y] # Place(items, y)
                                /\ Place(items, y) + 1 < Len(items)} |-> Place(items, x)]

\* renumber: 0..n-1 in list order, touching only rows whose position changed.
renumber(items, position) ==
    [x \in {y \in Range(items) : position[y] # Place(items, y)} |-> Place(items, x)]

\* Mutant of without: compares nothing, so a list that holds the item keeps it.
without_NoFilter(items, item) == items

\* _without: the list less the row with this primary key, if it is there.
without(items, item) ==
    IF item \notin Range(items) THEN items
    ELSE LET at == Place(items, item) + 1
         IN  [i \in 1 .. Len(items) - 1 |-> IF i < at THEN items[i] ELSE items[i + 1]]

\* Mutant of Clamp: without the max, list.insert counts a negative index from the end.
Clamp_NegativeFromEnd(index, length) ==
    IF index > length THEN length
    ELSE IF index >= 0 THEN index
    ELSE IF length + index < 0 THEN 0 ELSE length + index

\* max(0, min(index, len(remaining)))
Clamp(index, length) == IF index < 0 THEN 0 ELSE IF index > length THEN length ELSE index

\* Mutant of Placed: the index is ignored.
Placed_Appends(siblings, item, index) == Append(without(siblings, item), item)

\* The list insert_at renumbers: item taken out, then put back at index.
Placed(siblings, item, index) ==
    LET remaining == without(siblings, item)
        at == Clamp(index, Len(remaining)) + 1
    IN  [i \in 1 .. Len(remaining) + 1 |->
            IF i < at THEN remaining[i]
            ELSE IF i = at THEN item ELSE remaining[i - 1]]

insert_at(siblings, item, index, position) ==
    renumber(Placed(siblings, item, index), position)

remove_from(siblings, item, position) ==
    renumber(without(siblings, item), position)

\* The module docstring's invariant: the positions of these rows are exactly
\* 0..n-1.  Said without n: no two agree, and below each one none is missing.
Contiguous(rows, position) ==
    /\ \A x, y \in rows : position[x] = position[y] => x = y
    /\ \A x \in rows : \A i \in 0 .. position[x] - 1 : \E y \in rows : position[y] = i
=============================================================================
