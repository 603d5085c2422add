--------------------------- MODULE MCBoardService ---------------------------
(***************************************************************************)
(* Small databases for BoardService.  A behaviour starts from any layout   *)
(* with contiguous positions on the boards that StartOwner names, so the   *)
(* requests act on whatever an earlier, unhurried use of the application   *)
(* may have left.                                                          *)
(***************************************************************************)
EXTENDS BoardServiceImplements, TLC

CONSTANT StartOwner   \* the owner of each board there is at the start, Unborn for the others

\* Where the columns may be: on a board that there is, or still to be inserted.
Filings == [Columns -> {Unborn} \cup {b \in Boards : StartOwner[b] # Unborn}]

\* Every way to number the rows that f puts under some parent.
Numberings(f) ==
    {q \in [DOMAIN f -> 0 .. Cardinality(DOMAIN f) - 1] :
        /\ \A x \in DOMAIN f : f[x] = Unborn => q[x] = 0
        /\ \A p \in Holders : Contiguous({x \in DOMAIN f : f[x] = p}, q)}

\* With the columns filed in one of these ways, every way to fill them with cards.
LayoutsOver(filings) ==
    UNION {{[parent   |-> StartOwner @@ f @@ g,
             position |-> [b \in Boards |-> 0] @@ cs @@ ks] :
                cs \in Numberings(f), ks \in Numberings(g)} :
           <<f, g>> \in {<<f, g>> \in filings \X [Cards -> {Unborn} \cup Columns] :
                            \A k \in Cards : g[k] \in Columns => f[g[k]] # Unborn}}

MCLayouts == LayoutsOver(Filings)

CONSTANTS u1, u2, b1, b2, b3
OneBoard  == (b1 :> u1)
ThreeBoards == (b1 :> u1 @@ b2 :> u1 @@ b3 :> u2)
OneAndAFresh == (b1 :> u1 @@ b2 :> Unborn)

Symmetric == Permutations(Columns) \cup Permutations(Cards) \cup Permutations(Requests)

\* Two columns on the first board, and the third on any other or not there yet.
MCTwoColumnsAndOne ==
    LayoutsOver({f \in Filings : Cardinality({c \in Columns : f[c] = b1}) = 2})

\* Or two boards just made, and room for more.
MCNewBoards ==
    {[parent   |-> (b2 :> Unborn) @@ ThreeBoards @@ [x \in Columns \cup Cards |-> Unborn],
      position |-> [x \in Rows |-> 0]]}

MCTenants == MCTwoColumnsAndOne \cup MCNewBoards

\* The calls that write, and of those the ones that write positions.
Writing    == Operations \ {"get_board", "list_columns", "list_cards"}
Reordering == Writing \ {"rename_board", "rename_column", "update_card"}
=============================================================================
