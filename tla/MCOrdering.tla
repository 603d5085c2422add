----------------------------- MODULE MCOrdering -----------------------------
(***************************************************************************)
(* The functions of ordering.py on every short list, one call after        *)
(* another, from positions that may be anything: the callers hand them     *)
(* lists whose positions another transaction has already spoilt.           *)
(***************************************************************************)
EXTENDS Ordering, FiniteSets

SE == INSTANCE SequencesExt
FE == INSTANCE FiniteSetsExt

CONSTANTS Ids,      \* primary keys
          Highest   \* the largest position or index given to a call

VARIABLES items,     \* the list a call is given
          position   \* the position each row carries

vars == <<items, position>>

Lists == UNION {{s \in [1 .. n -> Ids] : IsInjective(s)} : n \in 0 .. Cardinality(Ids)}

Overwrite(written) ==
    position' = [x \in Ids |-> IF x \in DOMAIN written THEN written[x] ELSE position[x]]

\* The arrangement a reader of insert_at expects, in the community modules' words.
Expected(item, index) ==
    LET rest == SE!Remove(items, item)
    IN  SE!InsertAt(rest, FE!Max({0, FE!Min({index, Len(rest)})}) + 1, item)

Init == /\ items \in {s \in Lists : Len(s) < Cardinality(Ids)}
        /\ position \in [Ids -> 0 .. Highest]

CallInsertAt ==
    \E item \in Ids, index \in -1 .. Highest :
        /\ Overwrite(insert_at(items, item, index, position))
        /\ items' = Expected(item, index)

CallRemoveFrom ==
    \E item \in Ids :
        /\ Overwrite(remove_from(items, item, position))
        /\ items' = SE!Remove(items, item)

Next == CallInsertAt \/ CallRemoveFrom

Spec == Init /\ [][Next]_vars

\* ordering.py:3-5, "Every function here restores that before returning": whatever
\* the positions were, after a call the rows of the list are numbered 0..n-1.
EveryCallRestores == [][Contiguous(Range(items'), position')]_vars

\* The positions a call leaves put the rows in the order its caller asked for:
\* every other row keeps its place relative to the rest and the item is at the
\* clamped index.
CallsOrderTheList ==
    [][\A i, j \in DOMAIN items' : i < j => position'[items'[i]] < position'[items'[j]]]_vars
=============================================================================
