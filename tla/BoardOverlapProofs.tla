-------------------------- MODULE BoardOverlapProofs --------------------------
(***************************************************************************)
(* Positions, for any number of requests at once: they stay 0..n-1 on a    *)
(* board until a request commits there after another's commit has          *)
(* overtaken it, and the services implement KanbanLists until then.        *)
(*                                                                         *)
(* The argument: a request writes on the board it found its row on and     *)
(* nowhere else (WrittenAtHome), so what a request that has not been       *)
(* overtaken has read is what there is (CurrentInv), and ordering.py then  *)
(* numbers the list as it is.  Positions 0..n-1 stand for one list         *)
(* (InOrderIs), the one that was read, so each write does to that list     *)
(* what the abstract operation does (Becomes, Stays).                      *)
(***************************************************************************)
EXTENDS BoardOverlap, BoardServiceProofs

-----------------------------------------------------------------------------
(* Positions.                                                              *)

\* Positions 0..n-1, counted.
LEMMA PositionsCounted ==
    ASSUME NEW S, IsFiniteSet(S), NEW pos, \A x \in S : pos[x] \in Nat, Contiguous(S, pos)
    PROVE  /\ Cardinality(S) \in Nat
           /\ \A x \in S : pos[x] < Cardinality(S)
           /\ \A i \in 0 .. Cardinality(S) - 1 : \E x \in S : pos[x] = i
<1>1. PICK n : n = Cardinality(S)
  OBVIOUS
<1>2. PICK taken : taken = {pos[x] : x \in S}
  OBVIOUS
<1>3. PICK f : f = [x \in S |-> pos[x]]
  OBVIOUS
<1>4. f \in Bijection(S, taken)
  BY <1>2, <1>3 DEF Contiguous, Bijection, Injection, Surjection, IsInjective
<1>5. n \in Nat /\ IsFiniteSet(taken) /\ Cardinality(taken) = n
  <2>1. ExistsBijection(S, taken)
    BY <1>4 DEF ExistsBijection
  <2> QED
    BY <1>1, <2>1, FS_Bijection, FS_CardinalityType
<1>6. ASSUME NEW x \in S
      PROVE  pos[x] < n
  <2>1. 0 .. pos[x] \in SUBSET taken
    <3>1. ASSUME NEW i \in 0 .. pos[x]
          PROVE  i \in taken
      <4>1. CASE i = pos[x]
        BY <4>1, <1>2
      <4>2. CASE i # pos[x]
        <5>1. i \in 0 .. pos[x] - 1
          BY <3>1, <4>2
        <5>2. \E y \in S : pos[y] = i
          BY <5>1 DEF Contiguous
        <5> QED
          BY <5>2, <1>2
      <4> QED
        BY <4>1, <4>2
    <3> QED
      BY <3>1
  <2>2. pos[x] \in Int /\ 0 \in Int /\ pos[x] >= 0
    OBVIOUS
  <2>3. Cardinality(0 .. pos[x]) = pos[x] + 1
    BY <2>2, FS_Interval
  <2>4. Cardinality(0 .. pos[x]) <= n
    BY <2>1, <1>5, FS_Subset
  <2> QED
    BY <2>2, <2>3, <2>4, <1>5
<1>7. taken = 0 .. n - 1
  <2>1. taken \in SUBSET (0 .. n - 1)
    BY <1>2, <1>5, <1>6
  <2>2. IsFiniteSet(0 .. n - 1) /\ Cardinality(0 .. n - 1) = n
    <3>1. 0 \in Int /\ n - 1 \in Int
      BY <1>5
    <3>2. IsFiniteSet(0 .. n - 1) /\ Cardinality(0 .. n - 1) = IF 0 > n - 1 THEN 0 ELSE n - 1 - 0 + 1
      BY <3>1, FS_Interval
    <3> QED
      BY <1>5, <3>2
  <2> QED
    BY <1>5, <2>1, <2>2, FS_Subset
<1> QED
  BY <1>1, <1>2, <1>5, <1>6, <1>7

LEMMA SamePositions ==
    ASSUME NEW S, NEW pos, NEW after, Contiguous(S, pos), \A x \in S : after[x] = pos[x]
    PROVE  Contiguous(S, after)
  BY DEF Contiguous

\* A list that a SELECT ... ORDER BY has returned.
LEMMA ListingFacts ==
    ASSUME NEW p, NEW s \in Listings(p)
    PROVE  /\ s \in Seq(Rows) /\ Range(s) = Children(p) /\ IsInjective(s)
           /\ IsFiniteSet(Children(p)) /\ Len(s) = Cardinality(Children(p))
<1>1. PICK rows \in SUBSET Rows : rows = Children(p)
  BY DEF Children
<1>2. s \in Orderings(rows)
  BY <1>1 DEF Listings
<1>3. s \in Seq(Rows) /\ Range(s) = rows /\ IsInjective(s)
  BY <1>2, OrderingType
<1>4. IsFiniteSet(rows)
  BY FinitenessAssumption, FS_Subset
<1>5. Cardinality(rows) \in Nat
  BY <1>4, FS_CardinalityType
<1>6. s \in [1 .. Cardinality(rows) -> rows]
  BY <1>2 DEF Orderings, Bijection, Injection
<1>7. Len(s) = Cardinality(rows)
  BY <1>3, <1>5, <1>6
<1> QED
  BY <1>1, <1>3, <1>4, <1>7

LEMMA ListingStays ==
    ASSUME NEW p, NEW s \in Listings(p), Children(p)' = Children(p),
           \A x \in Children(p) : position'[x] = position[x]
    PROVE  s \in Listings(p)'
<1>1. PICK rows : rows = Children(p)
  OBVIOUS
<1>2. /\ s \in Bijection(1 .. Cardinality(rows), rows)
      /\ \A i, j \in DOMAIN s : i < j => position[s[i]] <= position[s[j]]
  BY <1>1 DEF Listings, Orderings
<1>3. \A i \in DOMAIN s : s[i] \in rows
  BY <1>2 DEF Bijection, Injection
<1>4. \A i, j \in DOMAIN s : i < j => position'[s[i]] <= position'[s[j]]
  BY <1>1, <1>2, <1>3
<1> QED
  BY <1>1, <1>2, <1>4 DEF Listings, Orderings

\* There is one such list.
LEMMA InOrderIs ==
    ASSUME NEW S, IsFiniteSet(S), NEW pos, NEW s, NumberedBy(s, S, pos)
    PROVE  InOrderOf(S, pos) = s
<1>1. IsInjective(s) /\ DOMAIN s = 1 .. Len(s) /\ Len(s) \in Nat
  BY NumberedOnce
<1>2. Cardinality(S) = Len(s)
  <2>1. s \in Bijection(1 .. Len(s), S)
    <3>1. \A i \in 1 .. Len(s) : s[i] \in S
      BY <1>1 DEF NumberedBy, Range
    <3>2. s = [i \in 1 .. Len(s) |-> s[i]]
      BY LenProperties DEF NumberedBy
    <3> QED
      BY <1>1, <3>1, <3>2 DEF NumberedBy, Range, Bijection, Injection, Surjection, IsInjective
  <2>2. ExistsBijection(1 .. Len(s), S)
    BY <2>1 DEF ExistsBijection
  <2>3. IsFiniteSet(1 .. Len(s)) /\ Cardinality(1 .. Len(s)) = Len(s)
    <3>1. 1 \in Int /\ Len(s) \in Int /\ (1 > Len(s) => Len(s) = 0) /\ Len(s) - 1 + 1 = Len(s)
      BY <1>1
    <3> QED
      BY <3>1, FS_Interval
  <2> QED
    BY <2>2, <2>3, FS_Bijection
<1>3. ASSUME NEW i \in 1 .. Len(s)
      PROVE  (CHOOSE x \in S : pos[x] = i - 1) = s[i]
  <2>1. s[i] \in S /\ pos[s[i]] = i - 1
    BY <1>1 DEF NumberedBy, Range
  <2>2. ASSUME NEW x \in S, pos[x] = i - 1
        PROVE  x = s[i]
    <3>1. PICK j \in DOMAIN s : s[j] = x
      BY DEF NumberedBy, Range
    <3>2. pos[x] = j - 1
      BY <3>1 DEF NumberedBy
    <3> QED
      BY <1>1, <2>2, <3>1, <3>2
  <2> QED
    BY <2>1, <2>2
<1>4. s = [i \in 1 .. Len(s) |-> s[i]]
  BY LenProperties DEF NumberedBy
<1> QED
  BY <1>2, <1>3, <1>4 DEF InOrderOf

\* Positions 0..n-1 have such a list, and the other way around.
LEMMA InOrderNumbers ==
    ASSUME NEW S, IsFiniteSet(S), NEW pos, \A x \in S : pos[x] \in Nat, Contiguous(S, pos)
    PROVE  NumberedBy(InOrderOf(S, pos), S, pos)
<1>1. PICK n : n = Cardinality(S)
  OBVIOUS
<1>2. /\ n \in Nat /\ \A x \in S : pos[x] \in Nat /\ pos[x] < n
      /\ \A i \in 0 .. n - 1 : \E x \in S : pos[x] = i
  BY <1>1, PositionsCounted
<1>3. PICK s : s = InOrderOf(S, pos)
  OBVIOUS
<1>4. s = [i \in 1 .. n |-> CHOOSE x \in S : pos[x] = i - 1]
  BY <1>1, <1>3 DEF InOrderOf
<1>5. ASSUME NEW i \in 1 .. n
      PROVE  s[i] \in S /\ pos[s[i]] = i - 1
  <2>1. i - 1 \in 0 .. n - 1
    BY <1>2
  <2>2. \E x \in S : pos[x] = i - 1
    BY <1>2, <2>1
  <2> QED
    BY <1>4, <2>2
<1>6. DOMAIN s = 1 .. n /\ s \in Seq(S)
  <2>1. s \in [1 .. n -> S]
    BY <1>4, <1>5
  <2> QED
    BY <1>2, <2>1
<1>7. ASSUME NEW x \in S
      PROVE  x \in Range(s)
  <2>1. pos[x] + 1 \in 1 .. n /\ pos[x] + 1 - 1 = pos[x]
    BY <1>2
  <2>2. s[pos[x] + 1] \in S /\ pos[s[pos[x] + 1]] = pos[x]
    BY <1>5, <2>1
  <2>3. s[pos[x] + 1] = x
    BY <2>2 DEF Contiguous
  <2> QED
    BY <1>6, <2>1, <2>3 DEF Range
<1>8. Range(s) = S
  BY <1>5, <1>6, <1>7 DEF Range
<1> QED
  BY <1>3, <1>5, <1>6, <1>8 DEF NumberedBy

\* ORDER BY position reads the list that positions 0..n-1 stand for.
LEMMA ListingNumbered ==
    ASSUME DatabaseOK, NEW p, NEW s \in Listings(p), Contiguous(Children(p), position)
    PROVE  NumberedBy(s, Children(p), position)
<1>1. /\ s \in Seq(Rows) /\ Range(s) = Children(p) /\ IsInjective(s)
  BY ListingFacts
<1>2. \A i, j \in DOMAIN s : i < j => position[s[i]] <= position[s[j]]
  BY DEF Listings, Orderings
<1>3. DOMAIN s = 1 .. Len(s) /\ Len(s) \in Nat
  BY <1>1, LenProperties
<1>4. \A i \in 1 .. Len(s) : s[i] \in Children(p) /\ position[s[i]] \in Nat
  BY <1>1, <1>3 DEF Range, DatabaseOK
<1>5. \A i, j \in 1 .. Len(s) : i < j => position[s[i]] < position[s[j]]
  <2> SUFFICES ASSUME NEW i \in 1 .. Len(s), NEW j \in 1 .. Len(s), i < j
               PROVE  position[s[i]] < position[s[j]]
    OBVIOUS
  <2>1. position[s[i]] <= position[s[j]]
    BY <1>2, <1>3
  <2>2. s[i] # s[j]
    BY <1>1, <1>3 DEF IsInjective
  <2>3. position[s[i]] # position[s[j]]
    BY <1>4, <2>2 DEF Contiguous
  <2> QED
    BY <1>4, <2>1, <2>3
<1>6. ASSUME NEW i \in 1 .. Len(s)
      PROVE  position[s[i]] = i - 1
  <2>1. PICK n : n = position[s[i]]
    OBVIOUS
  <2>2. n \in Nat
    BY <1>4, <2>1
  <2>3. PICK f : f = [j \in 1 .. i - 1 |-> position[s[j]]]
    OBVIOUS
  <2>4. ASSUME NEW j \in 1 .. i - 1
        PROVE  j \in 1 .. Len(s) /\ f[j] = position[s[j]] /\ f[j] \in 0 .. n - 1
    <3>1. j \in 1 .. Len(s) /\ j < i
      BY <1>3
    <3> QED
      BY <1>4, <1>5, <2>1, <2>3, <3>1
  <2>5. \A j, k \in 1 .. i - 1 : f[j] = f[k] => j = k
    <3> SUFFICES ASSUME NEW j \in 1 .. i - 1, NEW k \in 1 .. i - 1, f[j] = f[k]
                 PROVE  j = k
      OBVIOUS
    <3>1. ~(j < k) /\ ~(k < j)
      BY <1>4, <1>5, <2>4
    <3> QED
      BY <3>1
  <2>6. ASSUME NEW v \in 0 .. n - 1
        PROVE  \E j \in 1 .. i - 1 : f[j] = v
    <3>1. PICK x \in Children(p) : position[x] = v
      BY <1>4, <2>1 DEF Contiguous
    <3>2. PICK j \in 1 .. Len(s) : s[j] = x
      BY <1>1, <1>3 DEF Range
    <3>3. ~(i < j) /\ i # j
      BY <1>4, <1>5, <2>1, <2>2, <3>1, <3>2
    <3>4. j \in 1 .. i - 1
      BY <1>3, <3>3
    <3> QED
      BY <2>3, <3>1, <3>2, <3>4
  <2>7. ExistsBijection(1 .. i - 1, 0 .. n - 1)
    <3>1. f \in Bijection(1 .. i - 1, 0 .. n - 1)
      BY <2>3, <2>4, <2>5, <2>6 DEF Bijection, Injection, Surjection, IsInjective
    <3> QED
      BY <3>1 DEF ExistsBijection
  <2>8. IsFiniteSet(1 .. i - 1) /\ Cardinality(1 .. i - 1) = i - 1
    <3>1. i - 1 \in Int /\ (1 > i - 1 => i - 1 = 0) /\ i - 1 - 1 + 1 = i - 1
      BY <1>3
    <3> QED
      BY <3>1, FS_Interval
  <2>9. Cardinality(0 .. n - 1) = n
    <3>1. n - 1 \in Int /\ 0 \in Int /\ (0 > n - 1 => n = 0) /\ n - 1 - 0 + 1 = n
      BY <2>2
    <3> QED
      BY <3>1, FS_Interval
  <2>10. Cardinality(0 .. n - 1) = Cardinality(1 .. i - 1)
    BY <2>7, <2>8, FS_Bijection
  <2> QED
    BY <2>1, <2>8, <2>9, <2>10
<1>7. s \in Seq(Children(p))
  <2>1. s = [i \in 1 .. Len(s) |-> s[i]]
    BY <1>1, LenProperties
  <2>2. s \in [1 .. Len(s) -> Children(p)]
    BY <1>4, <2>1
  <2> QED
    BY <1>3, <2>2
<1> QED
  BY <1>1, <1>3, <1>6, <1>7 DEF NumberedBy

-----------------------------------------------------------------------------
(* What each write makes of the database.                                  *)

Inserted(x, p, at) ==
    /\ parent[x] = Unborn
    /\ parent' = [parent EXCEPT ![x] = p]
    /\ position' = [position EXCEPT ![x] = at]

Renumber(doomed, moved) ==
    position' = [x \in Rows |-> IF x \in doomed THEN 0
                                ELSE IF x \in DOMAIN moved /\ parent[x] # Gone THEN moved[x]
                                ELSE position[x]]

Refiled(card, into, moved) ==
    /\ parent' = [x \in Rows |-> IF x = card /\ parent[x] # Gone THEN into ELSE parent[x]]
    /\ Renumber({}, moved)

Deleted(row, moved) ==
    /\ parent' = [x \in Rows |-> IF x \in Doomed({row}) THEN Gone ELSE parent[x]]
    /\ Renumber(Doomed({row}), moved)

\* The positions that MoveCardAcross leaves on the rows it has loaded.
Opened(r) ==
    LET closed == Assigned(Rows, seenPosition[r],
                           remove_from(siblings[r], call[r].row, seenPosition[r]))
    IN  Assigned(Rows, closed, insert_at(targets[r], call[r].row, call[r].index, closed))

MovedAcross(r) ==
    [x \in {y \in Rows : Opened(r)[y] # seenPosition[r][y]} |-> Opened(r)[x]]

Effect(r) ==
    \/ call[r].op = "create_board" /\ \E b \in Boards : Inserted(b, call[r].user, 0)
    \/ /\ call[r].op = "create_column"
       /\ \E c \in Columns : Inserted(c, call[r].row, Len(siblings[r]))
    \/ /\ call[r].op = "create_card"
       /\ \E k \in Cards : Inserted(k, call[r].row, Len(siblings[r]))
    \/ /\ call[r].op \in {"move_column", "move_card"} /\ ~MovesAcross(r)
       /\ parent' = parent
       /\ Renumber({}, insert_at(siblings[r], call[r].row, call[r].index, seenPosition[r]))
    \/ call[r].op = "move_card" /\ MovesAcross(r) /\ Refiled(call[r].row, call[r].into, MovedAcross(r))
    \/ call[r].op = "delete_board" /\ Deleted(call[r].row, Nothing)
    \/ /\ call[r].op \in {"delete_column", "delete_card"}
       /\ Deleted(call[r].row, remove_from(siblings[r], call[r].row, seenPosition[r]))

LEMMA NoneDoomed == Doomed({}) = {}
  BY DEF Doomed

LEMMA InsertApplied ==
    ASSUME DatabaseOK, NEW x \in Rows, parent[x] = Unborn, NEW p, NEW at,
           Apply(Insert(x, p, at))
    PROVE  Inserted(x, p, at)
<1>1. /\ Insert(x, p, at).parent = [y \in {x} |-> p]
      /\ Insert(x, p, at).position = [y \in {x} |-> at]
      /\ Insert(x, p, at).deleted = {}
  BY DEF Insert, Tx
<1>2. parent[x] # Gone
  BY Disjoint
<1>3. parent' = [y \in Rows |-> IF y = x THEN p ELSE parent[y]]
  BY <1>1, <1>2, NoneDoomed DEF Apply, ParentAfter
<1>4. position' = [y \in Rows |-> IF y = x THEN at ELSE position[y]]
  BY <1>1, <1>2, NoneDoomed DEF Apply, PositionAfter
<1> QED
  BY <1>3, <1>4 DEF Inserted, DatabaseOK

LEMMA TxApplied ==
    ASSUME DatabaseOK, NEW moved, NEW updated, NEW deleted,
           Apply(Tx(Nothing, moved, updated, deleted))
    PROVE  /\ parent' = [x \in Rows |-> IF x \in Doomed(deleted) THEN Gone ELSE parent[x]]
           /\ Renumber(Doomed(deleted), moved)
<1>1. PICK tx : tx = Tx(Nothing, moved, updated, deleted)
  OBVIOUS
<1>2. tx.parent = Nothing /\ tx.position = moved /\ tx.deleted = deleted
  BY <1>1 DEF Tx
<1>3. DOMAIN tx.parent = {}
  BY <1>2 DEF Nothing
<1>4. parent' = [x \in Rows |-> IF x \in Doomed(tx.deleted) THEN Gone
                                ELSE IF x \in DOMAIN tx.parent /\ parent[x] # Gone
                                     THEN tx.parent[x] ELSE parent[x]]
  BY <1>1 DEF Apply, ParentAfter
<1>5. position' = [x \in Rows |-> IF x \in Doomed(tx.deleted) THEN 0
                                  ELSE IF x \in DOMAIN tx.position /\ parent[x] # Gone
                                       THEN tx.position[x] ELSE position[x]]
  BY <1>1 DEF Apply, PositionAfter
<1> QED
  BY <1>2, <1>3, <1>4, <1>5 DEF Renumber

LEMMA RefileApplied ==
    ASSUME DatabaseOK, NEW card \in Rows, NEW into, NEW moved, NEW updated,
           Apply(Tx([x \in {card} |-> into], moved, updated, {}))
    PROVE  Refiled(card, into, moved)
<1>1. PICK tx : tx = Tx([x \in {card} |-> into], moved, updated, {})
  OBVIOUS
<1>2. tx.parent = [x \in {card} |-> into] /\ tx.position = moved /\ tx.deleted = {}
  BY <1>1 DEF Tx
<1>3. parent' = [x \in Rows |-> IF x \in DOMAIN tx.parent /\ parent[x] # Gone
                                THEN tx.parent[x] ELSE parent[x]]
  BY <1>1, <1>2, NoneDoomed DEF Apply, ParentAfter
<1>4. Renumber({}, moved)
  BY <1>1, <1>2, NoneDoomed DEF Apply, PositionAfter, Renumber
<1> QED
  BY <1>2, <1>3, <1>4 DEF Refiled

\* A commit is refused, changes titles only, or has one of the effects above.
LEMMA CommitEffect ==
    ASSUME IInv, NEW r \in Requests, Write(r)
    PROVE  \/ UNCHANGED db /\ Answer(r, "500")
           \/ UNCHANGED db /\ call[r].op \in {"rename_board", "rename_column", "update_card"}
           \/ Effect(r)
<1>1. pc[r] = "commit"
  BY WriteWrites
<1>2. DatabaseOK /\ call[r] \in Calls /\ (call[r].op # "create_board" => call[r].row \in Rows)
  BY <1>1, AboutToCommit
<1>3. ASSUME NEW tx, NEW row, CommitAndRefresh(r, tx, row) \/ CommitAndAnswer(r, tx)
      PROVE  Apply(tx) \/ (UNCHANGED db /\ Answer(r, "500"))
  BY <1>3 DEF CommitAndRefresh, CommitAndAnswer, Refused
<1>4. CASE CreateBoard(r)
  <2>1. PICK b \in Boards :
           parent[b] = Unborn /\ CommitAndRefresh(r, Insert(b, call[r].user, 0), b)
    BY <1>4 DEF CreateBoard
  <2>2. Apply(Insert(b, call[r].user, 0)) \/ (UNCHANGED db /\ Answer(r, "500"))
    BY <1>3, <2>1
  <2> QED
    BY <1>2, <1>4, <2>1, <2>2, InsertApplied, Disjoint DEF Effect, CreateBoard, Commits
<1>5. CASE CreateColumn(r)
  <2>1. PICK c \in Columns : /\ parent[c] = Unborn
                             /\ CommitAndRefresh(r, Insert(c, call[r].row, Len(siblings[r])), c)
    BY <1>5 DEF CreateColumn
  <2>2. Apply(Insert(c, call[r].row, Len(siblings[r]))) \/ (UNCHANGED db /\ Answer(r, "500"))
    BY <1>3, <2>1
  <2> QED
    BY <1>2, <1>5, <2>1, <2>2, InsertApplied, Disjoint DEF Effect, CreateColumn, Commits
<1>6. CASE CreateCard(r)
  <2>1. PICK k \in Cards : /\ parent[k] = Unborn
                           /\ CommitAndRefresh(r, Insert(k, call[r].row, Len(siblings[r])), k)
    BY <1>6 DEF CreateCard
  <2>2. Apply(Insert(k, call[r].row, Len(siblings[r]))) \/ (UNCHANGED db /\ Answer(r, "500"))
    BY <1>3, <2>1
  <2> QED
    BY <1>2, <1>6, <2>1, <2>2, InsertApplied, Disjoint DEF Effect, CreateCard, Commits
<1>7. CASE RenameBoard(r) \/ RenameColumn(r) \/ UpdateCard(r)
  <2>1. PICK updated : CommitAndRefresh(r, Tx(Nothing, Nothing, updated, {}), call[r].row)
    BY <1>7 DEF RenameBoard, RenameColumn, UpdateCard, Retitle
  <2>2. Apply(Tx(Nothing, Nothing, updated, {})) \/ (UNCHANGED db /\ Answer(r, "500"))
    BY <1>3, <2>1
  <2>3. call[r].op \in {"rename_board", "rename_column", "update_card"}
    BY <1>7 DEF RenameBoard, RenameColumn, UpdateCard, Commits
  <2>4. ASSUME Apply(Tx(Nothing, Nothing, updated, {}))
        PROVE  UNCHANGED db
    <3>1. parent' = [x \in Rows |-> IF x \in {} THEN Gone ELSE parent[x]] /\ Renumber({}, Nothing)
      BY <1>2, <2>4, TxApplied, NoneDoomed
    <3>2. DOMAIN Nothing = {}
      BY DEF Nothing
    <3> QED
      BY <1>2, <3>1, <3>2 DEF Renumber, DatabaseOK, db
  <2> QED
    BY <2>2, <2>3, <2>4
<1>8. CASE MoveColumn(r) \/ MoveCardWithin(r)
  <2>1. PICK moved : moved = insert_at(siblings[r], call[r].row, call[r].index, seenPosition[r])
    OBVIOUS
  <2>2. CommitAndRefresh(r, Tx(Nothing, moved, DOMAIN moved, {}), call[r].row)
    BY <1>8, <2>1 DEF MoveColumn, MoveCardWithin, Reorder
  <2>3. Apply(Tx(Nothing, moved, DOMAIN moved, {})) \/ (UNCHANGED db /\ Answer(r, "500"))
    BY <1>3, <2>2
  <2>4. call[r].op \in {"move_column", "move_card"} /\ ~MovesAcross(r)
    BY <1>8 DEF MoveColumn, MoveCardWithin, Commits, MovesAcross
  <2>5. ASSUME Apply(Tx(Nothing, moved, DOMAIN moved, {}))
        PROVE  parent' = parent /\ Renumber({}, moved)
    <3>1. parent' = [x \in Rows |-> IF x \in {} THEN Gone ELSE parent[x]] /\ Renumber({}, moved)
      BY <1>2, <2>5, TxApplied, NoneDoomed
    <3> QED
      BY <1>2, <3>1 DEF DatabaseOK
  <2> QED
    BY <2>1, <2>3, <2>4, <2>5 DEF Effect
<1>9. CASE MoveCardAcross(r)
  <2>1. PICK moved : moved = MovedAcross(r)
    OBVIOUS
  <2>2. /\ call[r].op = "move_card" /\ MovesAcross(r)
        /\ CommitAndRefresh(r, Tx([x \in {call[r].row} |-> call[r].into], moved,
                                  DOMAIN moved \cup {call[r].row}, {}), call[r].row)
    BY <1>9, <2>1 DEF MoveCardAcross, MovedAcross, Opened, Assigned, Commits
  <2>3. \/ Apply(Tx([x \in {call[r].row} |-> call[r].into], moved, DOMAIN moved \cup {call[r].row}, {}))
        \/ UNCHANGED db /\ Answer(r, "500")
    BY <1>3, <2>2
  <2>4. call[r].row \in Rows
    BY <1>2, <2>2
  <2>5. \/ Refiled(call[r].row, call[r].into, moved)
        \/ UNCHANGED db /\ Answer(r, "500")
    BY <1>2, <2>3, <2>4, RefileApplied
  <2> QED
    BY <2>1, <2>2, <2>5 DEF Effect
<1>10. CASE DeleteBoard(r)
  <2>1. call[r].op = "delete_board" /\ CommitAndAnswer(r, Tx(Nothing, Nothing, {}, {call[r].row}))
    BY <1>10 DEF DeleteBoard, Commits
  <2>2. Apply(Tx(Nothing, Nothing, {}, {call[r].row})) \/ (UNCHANGED db /\ Answer(r, "500"))
    BY <1>3, <2>1
  <2> QED
    BY <1>2, <2>1, <2>2, TxApplied DEF Effect, Deleted
<1>11. CASE DeleteColumn(r) \/ DeleteCard(r)
  <2>1. PICK moved : moved = remove_from(siblings[r], call[r].row, seenPosition[r])
    OBVIOUS
  <2>2. /\ call[r].op \in {"delete_column", "delete_card"}
        /\ CommitAndAnswer(r, Tx(Nothing, moved, DOMAIN moved, {call[r].row}))
    BY <1>11, <2>1 DEF DeleteColumn, DeleteCard, Remove, Commits
  <2>3. Apply(Tx(Nothing, moved, DOMAIN moved, {call[r].row})) \/ (UNCHANGED db /\ Answer(r, "500"))
    BY <1>3, <2>2
  <2>4. ASSUME Apply(Tx(Nothing, moved, DOMAIN moved, {call[r].row}))
        PROVE  Deleted(call[r].row, moved)
    BY <1>2, <2>4, TxApplied DEF Deleted
  <2> QED
    BY <2>1, <2>2, <2>3, <2>4 DEF Effect
<1> QED
  BY <1>4, <1>5, <1>6, <1>7, <1>8, <1>9, <1>10, <1>11 DEF Write

-----------------------------------------------------------------------------
(* A request writes on its board only.                                     *)

LEMMA LoadedAtHome ==
    ASSUME OverlapInv, NEW r \in Requests, Working(r), NEW x \in Loaded(r), Live(x)
    PROVE  x \in Rows /\ BoardOf(x) = home[r]
<1>1. AtHome(r, x, seenParent[r][x]) /\ SessionInv(r) /\ x \in Rows
  BY DEF OverlapInv, HomeInv, IInv, Loaded
<1>2. x \in Columns => parent[x] = seenParent[r][x]
  BY <1>1 DEF SessionInv, Remembers
<1> QED
  BY <1>1, <1>2, Disjoint DEF AtHome, BoardOf

\* What a request about to write on its board has read.
LEMMA WorkingToCommit ==
    ASSUME OverlapInv, NEW r \in Requests, pc[r] = "commit", call[r].op # "create_board"
    PROVE  /\ Working(r) /\ IInv /\ DatabaseOK /\ ForeignKeysInv
           /\ call[r] \in Calls /\ call[r].row \in Loaded(r) /\ call[r].row \in Rows
           /\ Loaded(r) \subseteq Rows
           /\ siblings[r] \in Seq(Rows) /\ targets[r] \in Seq(Rows)
           /\ Range(siblings[r]) \cup Range(targets[r]) \subseteq Loaded(r)
           /\ \A x \in Loaded(r) : parent[x] # Unborn /\ AtHome(r, x, seenParent[r][x])
           /\ \A x \in Loaded(r) : Remembers(r, x, seenParent[r][x])
           /\ home[r] \in Boards /\ call[r].index \in Nat
<1>1. IInv /\ HomeInv(r)
  BY DEF OverlapInv
<1>2. Working(r)
  BY DEF Working, Waiting
<1> QED
  BY <1>1, <1>2, AboutToCommit DEF HomeInv, Remembers

\* Renumbering writes rows that have been read.
LEMMA MovedWithin ==
    ASSUME OverlapInv, NEW r \in Requests, pc[r] = "commit", call[r].op # "create_board"
    PROVE  /\ DOMAIN insert_at(siblings[r], call[r].row, call[r].index, seenPosition[r])
                 \subseteq Loaded(r)
           /\ DOMAIN remove_from(siblings[r], call[r].row, seenPosition[r]) \subseteq Loaded(r)
           /\ DOMAIN MovedAcross(r) \subseteq Loaded(r)
<1>1. /\ siblings[r] \in Seq(Rows) /\ targets[r] \in Seq(Rows) /\ call[r].row \in Rows
      /\ call[r].index \in Int /\ call[r].row \in Loaded(r)
      /\ Range(siblings[r]) \subseteq Loaded(r) /\ Range(targets[r]) \subseteq Loaded(r)
  BY WorkingToCommit
<1>2. DOMAIN insert_at(siblings[r], call[r].row, call[r].index, seenPosition[r]) \subseteq Loaded(r)
  BY <1>1, InsertAtType
<1>3. PICK removed : removed = remove_from(siblings[r], call[r].row, seenPosition[r])
  OBVIOUS
<1>4. DOMAIN removed \subseteq Loaded(r)
  BY <1>1, <1>3, RemoveFromType
<1>5. PICK closed : closed = Assigned(Rows, seenPosition[r], removed)
  OBVIOUS
<1>6. PICK inserted : inserted = insert_at(targets[r], call[r].row, call[r].index, closed)
  OBVIOUS
<1>7. DOMAIN inserted \subseteq Loaded(r)
  BY <1>1, <1>6, InsertAtType
<1>8. Opened(r) = Assigned(Rows, closed, inserted)
  BY <1>3, <1>5, <1>6 DEF Opened
<1>9. \A y \in Rows : Opened(r)[y] # seenPosition[r][y] => y \in DOMAIN removed \cup DOMAIN inserted
  BY <1>5, <1>8 DEF Assigned
<1>10. DOMAIN MovedAcross(r) \subseteq Loaded(r)
  BY <1>4, <1>7, <1>9 DEF MovedAcross
<1> QED
  BY <1>2, <1>3, <1>4, <1>10

LEMMA InsertedAtHome ==
    ASSUME OverlapInv, NEW r \in Requests, pc[r] = "commit", ForeignKeysInv', Settled,
           NEW x \in Items, NEW at, Inserted(x, call[r].row, at),
           call[r].op = IF x \in Columns THEN "create_column" ELSE "create_card"
    PROVE  /\ parent'[x] = call[r].row /\ call[r].row \in Holders
           /\ call[r].row # x /\ Live(call[r].row) /\ BoardOf(call[r].row) = home[r]
           /\ BoardOf(x)' = home[r]
           /\ \A y \in Rows \ {x} : parent'[y] = parent[y] /\ position'[y] = position[y]
<1>1. PICK p : p = call[r].row
  OBVIOUS
<1>2. call[r] \in Calls /\ p \in Loaded(r) /\ p \in Rows /\ Working(r) /\ DatabaseOK
      /\ parent[p] # Unborn
  BY <1>1, WorkingToCommit
<1>3. /\ x \in Columns => p \in Boards
      /\ x \in Cards => p \in Columns
  BY <1>1, <1>2, CallKinds, Disjoint DEF OnBoards, OnColumns
<1>4. /\ parent'[x] = p /\ x \in Rows /\ p # x /\ parent[x] = Unborn
      /\ \A y \in Rows \ {x} : parent'[y] = parent[y] /\ position'[y] = position[y]
  BY <1>1, <1>2, Disjoint DEF Inserted, DatabaseOK
<1>5. Live(x)'
  BY <1>2, <1>4, Disjoint DEF Live
<1>6. Live(p)'
  BY <1>3, <1>4, <1>5, Disjoint DEF ForeignKeysInv
<1>7. Live(p) /\ BoardOf(p)' = BoardOf(p)
  BY <1>2, <1>6 DEF Settled
<1>8. BoardOf(p) = home[r]
  BY <1>2, <1>7, LoadedAtHome
<1>9. BoardOf(x)' = BoardOf(p)'
  BY <1>3, <1>4, Disjoint DEF BoardOf
<1> QED
  BY <1>1, <1>3, <1>4, <1>7, <1>8, <1>9, Disjoint DEF Holders

LEMMA WrittenAtHome ==
    ASSUME OverlapInv, NEW r \in Requests, pc[r] = "commit", Effect(r),
           ForeignKeysInv', Settled,
           NEW x \in Rows, parent'[x] # parent[x] \/ position'[x] # position[x]
    PROVE  /\ ~Live(x) => parent[x] = Unborn /\ (x \in Boards \/ BoardOf(x)' = home[r])
           /\ Live(x) => BoardOf(x) = home[r]
<1>1. DatabaseOK /\ ForeignKeysInv
  BY TypeParts DEF OverlapInv, IInv
<1>2. CASE \E b \in Boards : Inserted(b, call[r].user, 0)
  BY <1>1, <1>2 DEF Inserted, DatabaseOK, Live
<1>3. CASE call[r].op = "create_column" /\ \E c \in Columns : Inserted(c, call[r].row, Len(siblings[r]))
  <2>1. PICK c \in Columns : Inserted(c, call[r].row, Len(siblings[r]))
    BY <1>3
  <2>2. c \in Items /\ c \in Columns
    BY Disjoint
  <2>3. BoardOf(c)' = home[r] /\ \A y \in Rows \ {c} : parent'[y] = parent[y] /\ position'[y] = position[y]
    BY <1>3, <2>1, <2>2, InsertedAtHome
  <2> QED
    BY <2>1, <2>3 DEF Inserted, Live
<1>4. CASE call[r].op = "create_card" /\ \E k \in Cards : Inserted(k, call[r].row, Len(siblings[r]))
  <2>1. PICK k \in Cards : Inserted(k, call[r].row, Len(siblings[r]))
    BY <1>4
  <2>2. k \in Items /\ k \notin Columns
    BY Disjoint
  <2>3. BoardOf(k)' = home[r] /\ \A y \in Rows \ {k} : parent'[y] = parent[y] /\ position'[y] = position[y]
    BY <1>4, <2>1, <2>2, InsertedAtHome
  <2> QED
    BY <2>1, <2>3 DEF Inserted, Live
<1>5. ASSUME call[r].op # "create_board", NEW moved, DOMAIN moved \subseteq Loaded(r),
             NEW doomed, x \notin doomed, Renumber(doomed, moved), position'[x] # position[x]
      PROVE  Live(x) /\ BoardOf(x) = home[r]
  <2>1. x \in DOMAIN moved /\ parent[x] # Gone
    BY <1>5 DEF Renumber
  <2>2. x \in Loaded(r) /\ Live(x) /\ Working(r)
    BY <1>5, <2>1, WorkingToCommit DEF Live
  <2> QED
    BY <2>2, LoadedAtHome
<1>6. CASE /\ call[r].op \in {"move_column", "move_card"} /\ ~MovesAcross(r) /\ parent' = parent
           /\ Renumber({}, insert_at(siblings[r], call[r].row, call[r].index, seenPosition[r]))
  <2>1. DOMAIN insert_at(siblings[r], call[r].row, call[r].index, seenPosition[r]) \subseteq Loaded(r)
    BY <1>6, MovedWithin
  <2> QED
    BY <1>5, <1>6, <2>1
<1>7. CASE call[r].op = "move_card" /\ Refiled(call[r].row, call[r].into, MovedAcross(r))
  <2>1. DOMAIN MovedAcross(r) \subseteq Loaded(r)
    BY <1>7, MovedWithin
  <2>2. CASE position'[x] # position[x]
    BY <1>5, <1>7, <2>1, <2>2 DEF Refiled
  <2>3. CASE parent'[x] # parent[x]
    <3>1. x = call[r].row /\ parent[x] # Gone
      BY <1>7, <2>3 DEF Refiled
    <3>2. x \in Loaded(r) /\ Live(x) /\ Working(r)
      BY <1>7, <3>1, WorkingToCommit DEF Live
    <3> QED
      BY <3>2, LoadedAtHome
  <2> QED
    BY <2>2, <2>3
<1>8. ASSUME call[r].op # "create_board", x \in Doomed({call[r].row})
      PROVE  Live(x) /\ BoardOf(x) = home[r]
  <2>1. PICK row : row = call[r].row
    OBVIOUS
  <2>2. row \in Loaded(r) /\ row \in Rows /\ Working(r)
    BY <1>8, <2>1, WorkingToCommit
  <2>3. Live(x) /\ (x = row \/ parent[x] = row \/ (parent[x] \in Rows /\ parent[parent[x]] = row))
    BY <1>8, <2>1 DEF Doomed
  <2>4. Live(row) /\ BoardOf(x) = BoardOf(row)
    <3>1. CASE x \in Boards
      BY <1>1, <2>2, <2>3, <3>1, Disjoint DEF ForeignKeysInv
    <3>2. CASE x \in Columns
      BY <1>1, <2>2, <2>3, <3>2, Disjoint DEF ForeignKeysInv, BoardOf
    <3>3. CASE x \in Cards
      BY <1>1, <2>2, <2>3, <3>3, Disjoint DEF ForeignKeysInv, BoardOf
    <3> QED
      BY <3>1, <3>2, <3>3, Disjoint
  <2> QED
    BY <2>2, <2>3, <2>4, LoadedAtHome
<1>9. ASSUME call[r].op # "create_board", NEW moved, DOMAIN moved \subseteq Loaded(r),
             Deleted(call[r].row, moved)
      PROVE  Live(x) /\ BoardOf(x) = home[r]
  <2>1. CASE x \in Doomed({call[r].row})
    BY <1>8, <1>9, <2>1
  <2>2. CASE x \notin Doomed({call[r].row})
    <3>1. parent'[x] = parent[x] /\ Renumber(Doomed({call[r].row}), moved)
      BY <1>9, <2>2 DEF Deleted
    <3> QED
      BY <1>5, <1>9, <2>2, <3>1
  <2> QED
    BY <2>1, <2>2
<1>10. CASE call[r].op = "delete_board" /\ Deleted(call[r].row, Nothing)
  <2>1. DOMAIN Nothing \subseteq Loaded(r)
    BY DEF Nothing
  <2> QED
    BY <1>9, <1>10, <2>1
<1>11. CASE /\ call[r].op \in {"delete_column", "delete_card"}
            /\ Deleted(call[r].row, remove_from(siblings[r], call[r].row, seenPosition[r]))
  <2>1. DOMAIN remove_from(siblings[r], call[r].row, seenPosition[r]) \subseteq Loaded(r)
    BY <1>11, MovedWithin
  <2> QED
    BY <1>9, <1>11, <2>1
<1> QED
  BY <1>2, <1>3, <1>4, <1>6, <1>7, <1>10, <1>11 DEF Effect

-----------------------------------------------------------------------------
(* What a step leaves alone.                                               *)

\* A step that changes the database is a commit with one of the effects.
LEMMA ChangeHasEffect ==
    ASSUME OverlapInv, NEW r \in Requests, Step(r), Changes
    PROVE  /\ pc[r] = "commit" /\ Effect(r)
           /\ DatabaseOK' /\ ForeignKeysInv' /\ Settled
<1>1. IInv /\ ~UNCHANGED db
  BY DEF OverlapInv, Changes, db
<1>2. pc[r] = "commit"
  BY <1>1, StepEffect
<1>3. Write(r)
  <2>1. ~Arrive(r) /\ ~Refresh(r) /\ ~Abort(r)
    BY <1>1, <1>2 DEF Arrive, Refresh, Abort
  <2>2. ~Read(r)
    BY <1>2 DEF Read, GetOwnedBoard, GetOwnedColumn, GetOwnedCard, GetSourceColumn,
                GetTargetColumn, ListSiblings, ListTargetSiblings, ListContents, Show
  <2> QED
    BY <2>1, <2>2 DEF Step
<1>4. Effect(r)
  BY <1>1, <1>3, CommitEffect
<1> QED
  BY <1>1, <1>2, <1>4, StepSettles

\* The rest of the boards are as they were.
LEMMA Elsewhere ==
    ASSUME OverlapInv, NEW r \in Requests, Step(r),
           NEW b \in Boards, parent[b] # Unborn, Changes => b # home[r]
    PROVE  /\ \A x \in Rows : Live(x) /\ BoardOf(x) = b =>
                 parent'[x] = parent[x] /\ position'[x] = position[x]
           /\ \A x \in Rows : Live(x)' /\ BoardOf(x)' = b => Live(x) /\ BoardOf(x) = b
<1>1. CASE ~Changes
  BY <1>1 DEF Changes, Live, BoardOf
<1>2. CASE Changes
  <2>1. pc[r] = "commit" /\ Effect(r) /\ ForeignKeysInv' /\ Settled /\ b # home[r] /\ b \in Rows
    BY <1>2, ChangeHasEffect, Disjoint
  <2>2. ASSUME NEW x \in Rows, Live(x), BoardOf(x) = b
        PROVE  parent'[x] = parent[x] /\ position'[x] = position[x]
    BY <2>1, <2>2, WrittenAtHome
  <2>3. ASSUME NEW x \in Rows, Live(x)', BoardOf(x)' = b
        PROVE  Live(x) /\ BoardOf(x) = b
    <3>1. CASE parent[x] = Unborn
      <4>1. parent'[x] # parent[x] /\ ~Live(x)
        BY <2>3, <3>1 DEF Live
      <4>2. x \in Boards \/ BoardOf(x)' = home[r]
        BY <2>1, <4>1, WrittenAtHome
      <4>3. x \in Boards => x = b
        BY <2>3 DEF BoardOf
      <4> QED
        BY <2>1, <2>3, <3>1, <4>2, <4>3
    <3>2. CASE parent[x] # Unborn
      BY <2>1, <2>3, <3>2 DEF Settled
    <3> QED
      BY <3>1, <3>2
  <2> QED
    BY <2>2, <2>3
<1> QED
  BY <1>1, <1>2

\* And so are their lists.
LEMMA ListsElsewhere ==
    ASSUME OverlapInv, NEW r \in Requests, Step(r),
           NEW b \in Boards, parent[b] # Unborn, Changes => b # home[r],
           NEW p \in Holders, Live(p), BoardOf(p) = b
    PROVE  /\ Children(p)' = Children(p)
           /\ \A x \in Children(p) : position'[x] = position[x]
<1>1. /\ \A x \in Rows : Live(x) /\ BoardOf(x) = b =>
            parent'[x] = parent[x] /\ position'[x] = position[x]
      /\ \A x \in Rows : Live(x)' /\ BoardOf(x)' = b => Live(x) /\ BoardOf(x) = b
  BY Elsewhere
<1>2. /\ DatabaseOK /\ ForeignKeysInv /\ ForeignKeysInv' /\ p \in Rows
  BY TypeParts, StepSettles, Disjoint DEF OverlapInv, IInv, Holders
<1>3. \A x \in Children(p) : x \in Rows /\ Live(x) /\ BoardOf(x) = b
  BY <1>2, ChildrenOf
<1>4. ASSUME NEW x \in Rows, parent'[x] = p
      PROVE  Live(x)' /\ BoardOf(x)' = b
  <2>1. Live(x)' /\ parent'[p] = parent[p]
    BY <1>1, <1>2, <1>4, Disjoint DEF Live
  <2>2. CASE x \in Boards
    BY <1>2, <1>4, <2>1, <2>2, Disjoint DEF ForeignKeysInv
  <2>3. CASE x \in Columns
    <3>1. p \in Boards
      BY <1>2, <1>4, <2>1, <2>3 DEF ForeignKeysInv
    <3> QED
      BY <1>4, <2>1, <2>3, <3>1, Disjoint DEF BoardOf
  <2>4. CASE x \in Cards
    <3>1. p \in Columns
      BY <1>2, <1>4, <2>1, <2>4 DEF ForeignKeysInv
    <3> QED
      BY <1>4, <2>1, <2>4, <3>1, Disjoint DEF BoardOf
  <2> QED
    BY <2>2, <2>3, <2>4, Disjoint
<1>5. \A x \in Rows : parent'[x] = p => x \in Children(p)
  BY <1>1, <1>4 DEF Children
<1>6. \A x \in Children(p) : parent'[x] = p /\ position'[x] = position[x]
  BY <1>1, <1>3 DEF Children
<1> QED
  BY <1>3, <1>5, <1>6 DEF Children

\* The others' attributes of rows, too, are their own.
LEMMA OthersPositions ==
    ASSUME OverlapInv, NEW r \in Requests, Step(r), NEW q \in Requests \ {r}
    PROVE  seenPosition'[q] = seenPosition[q]
<1>1. seenPosition \in [Requests -> [Rows -> Nat]]
  BY DEF OverlapInv, IInv, TypeOK
<1>2. ASSUME Forget(r) PROVE seenPosition'[q] = seenPosition[q]
  BY <1>1, <1>2 DEF Forget
<1>3. ASSUME NEW rows, Load(r, rows) PROVE seenPosition'[q] = seenPosition[q]
  BY <1>1, <1>3 DEF Load
<1>4. ASSUME NEW code, Answer(r, code) PROVE seenPosition'[q] = seenPosition[q]
  BY <1>2, <1>4 DEF Answer
<1>5. ASSUME NEW row, NEW owned, NEW next, Fetch(r, row, owned, next)
      PROVE  seenPosition'[q] = seenPosition[q]
  BY <1>3, <1>4, <1>5 DEF Fetch
<1>6. CASE Arrive(r) \/ Refresh(r) \/ Abort(r) \/ Show(r)
  BY <1>4, <1>6 DEF Arrive, Refresh, Abort, Show
<1>7. CASE GetOwnedBoard(r) \/ GetOwnedColumn(r) \/ GetOwnedCard(r) \/ GetSourceColumn(r)
  BY <1>5, <1>7 DEF GetOwnedBoard, GetOwnedColumn, GetOwnedCard, GetSourceColumn
<1>8. CASE GetTargetColumn(r)
  BY <1>4, <1>5, <1>8 DEF GetTargetColumn
<1>9. CASE ListSiblings(r) \/ ListTargetSiblings(r) \/ ListContents(r)
  BY <1>3, <1>9 DEF ListSiblings, ListTargetSiblings, ListContents
<1>10. CASE Write(r)
  <2>1. PICK tx : Writes(r, tx)
    BY <1>10, WriteWrites DEF OverlapInv
  <2> QED
    BY <1>2, <1>4, <2>1 DEF Writes, CommitAndRefresh, CommitAndAnswer, Refused
<1> QED
  BY <1>6, <1>7, <1>8, <1>9, <1>10 DEF Step, Read

-----------------------------------------------------------------------------
(* What a request knows, when another one takes a step.                    *)

\* The lists that a request that has not been overtaken works on.
LEMMA ListsAtHome ==
    ASSUME OverlapInv, NEW r \in Requests, Working(r), r \notin overtaken
    PROVE  /\ call[r] \in Calls /\ call[r].row \in Loaded(r) /\ Live(call[r].row)
           /\ call[r].op \in Listing => /\ ListedParent(r) \in Holders /\ Live(ListedParent(r))
                                        /\ BoardOf(ListedParent(r)) = home[r]
           /\ call[r].op \in {"create_column", "create_card"} => ListedParent(r) = call[r].row
           /\ call[r].op \in Listing \ {"create_column", "create_card"} =>
                 ListedParent(r) = parent[call[r].row]
           /\ pc[r] \in {"listTarget", "commit"} /\ MovesAcross(r) =>
                 /\ call[r].into \in Columns /\ Live(call[r].into)
                 /\ BoardOf(call[r].into) = home[r]
<1>1. PICK row, op, p, into :
         row = call[r].row /\ op = call[r].op /\ p = ListedParent(r) /\ into = call[r].into
  OBVIOUS
<1>2. /\ IInv /\ ForeignKeysInv /\ pc[r] \in Waiting \ {"lookup", "refresh"}
      /\ pc[r] \in Waiting \ {"refresh"} /\ op # "create_board"
  BY <1>1 DEF OverlapInv, IInv, Working
<1>3. call[r] \in Calls /\ row \in Loaded(r) /\ row \in Rows
  <2>1. call[r] \in Calls /\ Loaded(r) \subseteq Rows
    BY <1>2, InProgress
  <2>2. row \in Loaded(r)
    BY <1>1, <1>2 DEF IInv, ProgressInv
  <2> QED
    BY <2>1, <2>2
<1>4. Live(row) /\ seenParent[r][row] = parent[row] /\ BoardOf(row) = home[r]
  BY <1>3, LoadedAtHome DEF OverlapInv, CurrentInv
<1>5. /\ op \in OnBoards <=> row \in Boards
      /\ op \in OnColumns <=> row \in Columns
      /\ op \in OnCards <=> row \in Cards
      /\ op = "move_card" => into \in Columns
  BY <1>1, <1>3, CallKinds
<1>6. op \in {"create_column", "create_card"} => p = row /\ row \in Holders
  BY <1>1, <1>5 DEF ListedParent, OnBoards, OnColumns, Holders
<1>7. ASSUME op \in Listing \ {"create_column", "create_card"}
      PROVE  p = parent[row] /\ p \in Holders /\ Live(p) /\ BoardOf(p) = home[r]
  <2>1. p = parent[row]
    BY <1>1, <1>4, <1>7 DEF ListedParent, Listing
  <2>2. row \in Columns \/ row \in Cards
    BY <1>5, <1>7 DEF OnColumns, OnCards, Listing
  <2> QED
    BY <1>2, <1>4, <2>1, <2>2, Disjoint DEF ForeignKeysInv, BoardOf, Holders
<1>8. ASSUME pc[r] \in {"listTarget", "commit"}, MovesAcross(r)
      PROVE  into \in Columns /\ Live(into) /\ BoardOf(into) = home[r]
  <2>1. op = "move_card"
    BY <1>1, <1>8 DEF MovesAcross
  <2>2. into \in Loaded(r)
    BY <1>1, <1>2, <1>8, <2>1 DEF IInv, ProgressInv
  <2>3. Live(into)
    BY <2>2 DEF OverlapInv, CurrentInv
  <2> QED
    BY <1>5, <2>1, <2>2, <2>3, LoadedAtHome
<1> QED
  BY <1>1, <1>3, <1>4, <1>6, <1>7, <1>8

LEMMA OthersKnow ==
    ASSUME OverlapInv, NEW r \in Requests, Step(r), Record(r), NEW q \in Requests \ {r}
    PROVE  HomeInv(q)' /\ CurrentInv(q)'
<1>1. /\ call'[q] = call[q] /\ pc'[q] = pc[q] /\ seenParent'[q] = seenParent[q]
      /\ siblings'[q] = siblings[q] /\ targets'[q] = targets[q]
      /\ seenPosition'[q] = seenPosition[q] /\ home'[q] = home[q]
  BY StepEffect, OthersPositions DEF OverlapInv, OthersSame, Same, Record
<1>2. /\ Working(q)' <=> Working(q)
      /\ Loaded(q)' = Loaded(q)
      /\ ListedParent(q)' = ListedParent(q)
      /\ MovesAcross(q)' <=> MovesAcross(q)
  BY <1>1 DEF Working, Loaded, ListedParent, MovesAcross
<1>3. Settled /\ HomeInv(q) /\ CurrentInv(q) /\ SessionInv(q)
  BY StepSettles DEF OverlapInv, IInv
<1>4. HomeInv(q)'
  <2> SUFFICES ASSUME Working(q)
               PROVE  /\ home[q] \in Boards /\ parent'[home[q]] # Unborn
                      /\ \A x \in Loaded(q) : AtHome(q, x, seenParent[q][x])'
    BY <1>1, <1>2 DEF HomeInv
  <2>1. /\ home[q] \in Boards /\ parent[home[q]] # Unborn
        /\ \A x \in Loaded(q) : AtHome(q, x, seenParent[q][x])
    BY <1>3 DEF HomeInv
  <2>2. parent'[home[q]] # Unborn
    BY <1>3, <2>1, Disjoint DEF Settled
  <2>3. ASSUME NEW x \in Loaded(q), NEW p, p = seenParent[q][x]
        PROVE  AtHome(q, x, p)'
    <3>1. AtHome(q, x, p) /\ Remembers(q, x, p) /\ x \in Rows
      BY <1>3, <2>1, <2>3 DEF SessionInv, Loaded
    <3>2. Live(x)' => Live(x) /\ BoardOf(x)' = BoardOf(x)
      BY <1>3, <3>1 DEF Settled, Remembers
    <3>3. x \in Cards => p \in Rows /\ (Live(p)' => Live(p) /\ BoardOf(p)' = BoardOf(p))
      BY <1>3, <3>1, Disjoint DEF Settled, Remembers
    <3> QED
      BY <1>1, <3>1, <3>2, <3>3 DEF AtHome
  <2>4. \A x \in Loaded(q) : AtHome(q, x, seenParent[q][x])'
    <3> TAKE x \in Loaded(q)
    <3>1. PICK p : p = seenParent[q][x]
      OBVIOUS
    <3>2. AtHome(q, x, p)'
      BY <2>3, <3>1
    <3> QED
      BY <1>1, <3>1, <3>2 DEF AtHome
  <2> QED
    BY <2>1, <2>2, <2>4
<1>5. CurrentInv(q)'
  <2> SUFFICES ASSUME Working(q), q \notin overtaken'
               PROVE  /\ \A x \in Loaded(q) : /\ Live(x)' /\ seenParent[q][x] = parent'[x]
                                              /\ seenPosition[q][x] = position'[x]
                      /\ pc[q] \in {"listTarget", "commit"} /\ call[q].op \in Listing =>
                            siblings[q] \in Listings(ListedParent(q))'
                      /\ pc[q] = "commit" /\ MovesAcross(q) =>
                            targets[q] \in Listings(call[q].into)'
    BY <1>1, <1>2 DEF CurrentInv
  <2>1. PICK b : b = home[q]
    OBVIOUS
  <2>2. b \in Boards /\ parent[b] # Unborn /\ q \in InFlight
    BY <1>3, <2>1 DEF HomeInv, Working, InFlight
  <2>3. q \notin overtaken /\ (Changes => b # home[r])
    <3>1. b # None
      BY <2>2, Disjoint
    <3> QED
      BY <1>1, <2>1, <2>2, <3>1 DEF Record, InFlight
  <2>4. /\ \A x \in Loaded(q) : /\ Live(x) /\ seenParent[q][x] = parent[x]
                                /\ seenPosition[q][x] = position[x]
        /\ pc[q] \in {"listTarget", "commit"} /\ call[q].op \in Listing =>
              siblings[q] \in Listings(ListedParent(q))
        /\ pc[q] = "commit" /\ MovesAcross(q) => targets[q] \in Listings(call[q].into)
    BY <1>3, <2>3 DEF CurrentInv
  <2>5. ASSUME NEW x \in Loaded(q)
        PROVE  /\ Live(x)' /\ seenParent[q][x] = parent'[x]
               /\ seenPosition[q][x] = position'[x]
    <3>1. x \in Rows /\ BoardOf(x) = b /\ Live(x)
      BY <2>1, <2>4, LoadedAtHome
    <3>2. parent'[x] = parent[x] /\ position'[x] = position[x]
      BY <2>2, <2>3, <3>1, Elsewhere
    <3> QED
      BY <2>4, <3>1, <3>2 DEF Live
  <2>6. ASSUME NEW p \in Holders, Live(p), BoardOf(p) = b, NEW s \in Listings(p)
        PROVE  s \in Listings(p)'
    <3>1. Children(p)' = Children(p) /\ \A x \in Children(p) : position'[x] = position[x]
      BY <2>2, <2>3, <2>6, ListsElsewhere
    <3> QED
      BY <2>6, <3>1, ListingStays
  <2>7. ASSUME pc[q] \in {"listTarget", "commit"}, call[q].op \in Listing
        PROVE  siblings[q] \in Listings(ListedParent(q))'
    <3>1. PICK p : p = ListedParent(q)
      OBVIOUS
    <3>2. p \in Holders /\ Live(p) /\ BoardOf(p) = b
      BY <2>1, <2>3, <2>7, <3>1, ListsAtHome
    <3>3. siblings[q] \in Listings(p)'
      BY <2>4, <2>6, <2>7, <3>1, <3>2
    <3> QED
      BY <1>2, <3>1, <3>3 DEF Listings, Children
  <2>8. ASSUME pc[q] = "commit", MovesAcross(q)
        PROVE  targets[q] \in Listings(call[q].into)'
    <3>1. PICK p : p = call[q].into
      OBVIOUS
    <3>2. p \in Holders /\ Live(p) /\ BoardOf(p) = b
      BY <2>1, <2>3, <2>8, <3>1, ListsAtHome DEF Holders
    <3>3. targets[q] \in Listings(p)'
      BY <2>4, <2>6, <2>8, <3>1, <3>2
    <3> QED
      BY <1>1, <3>1, <3>3 DEF Listings, Children
  <2> QED
    BY <2>5, <2>7, <2>8
<1> QED
  BY <1>4, <1>5

-----------------------------------------------------------------------------
(* What a request knows after a step of its own.                           *)

Reads(r, rows, next) ==
    /\ Load(r, rows) /\ Goto(r, next) /\ UNCHANGED db /\ call' = call
    /\ rows \in SUBSET Rows /\ next \in Waiting \ {"lookup", "refresh"}

\* Rows of one board come back from a query.
LEMMA ReadAtHome ==
    ASSUME OverlapInv, NEW r \in Requests, Record(r), call[r].op # "create_board",
           NEW rows, NEW next, Reads(r, rows, next),
           NEW b \in Boards, parent[b] # Unborn, \A x \in rows : Live(x) /\ BoardOf(x) = b,
           home'[r] = b,
           Loaded(r) = {} \/ (Working(r) /\ home[r] = b)
    PROVE  /\ HomeInv(r)' /\ pc'[r] = next
           /\ r \notin overtaken' =>
                 /\ r \notin overtaken
                 /\ \A x \in Loaded(r)' : /\ Live(x)' /\ seenParent'[r][x] = parent'[x]
                                          /\ seenPosition'[r][x] = position'[x]
<1>1. /\ seenParent \in [Requests -> [Rows -> Parents \cup {None}]]
      /\ seenPosition \in [Requests -> [Rows -> Nat]]
      /\ pc \in [Requests -> {"new"} \cup Waiting \cup Answers]
      /\ parent \in [Rows -> Parents \cup {Unborn, Gone}]
      /\ ForeignKeysInv
  BY DEF OverlapInv, IInv, TypeOK
<1>2. parent' = parent /\ position' = position /\ ~Changes
  BY DEF Reads, db, Changes
<1>3. pc'[r] = next /\ next \in Waiting
  BY <1>1 DEF Reads, Goto
<1>4. /\ seenParent'[r] = [x \in Rows |-> IF x \in rows /\ seenParent[r][x] = None
                                          THEN parent[x] ELSE seenParent[r][x]]
      /\ seenPosition'[r] = [x \in Rows |-> IF x \in rows /\ seenParent[r][x] = None
                                            THEN position[x] ELSE seenPosition[r][x]]
  BY <1>1 DEF Reads, Load
<1>5. \A x \in rows : x \in Rows /\ parent[x] \in Parents /\ parent[x] # None
  BY <1>1, Disjoint DEF Reads, Live
<1>6. /\ Loaded(r)' = Loaded(r) \cup rows
      /\ \A x \in Loaded(r) : /\ seenParent'[r][x] = seenParent[r][x]
                              /\ seenPosition'[r][x] = seenPosition[r][x]
      /\ \A x \in rows \ Loaded(r) : /\ seenParent'[r][x] = parent[x]
                                     /\ seenPosition'[r][x] = position[x]
  BY <1>4, <1>5 DEF Loaded
<1>7. ASSUME NEW x \in Loaded(r) \cup rows, NEW p, p = seenParent'[r][x]
      PROVE  AtHome(r, x, p)'
  <2>1. CASE x \in Loaded(r)
    <3>1. home[r] = b /\ AtHome(r, x, p)
      BY <1>6, <1>7, <2>1 DEF OverlapInv, HomeInv
    <3> QED
      BY <1>2, <3>1 DEF AtHome, Live, BoardOf
  <2>2. CASE x \notin Loaded(r)
    <3>1. x \in rows /\ x \in Rows /\ p = parent[x] /\ Live(x) /\ BoardOf(x) = b
      BY <1>5, <1>6, <1>7, <2>2
    <3>2. /\ x \in Boards => x = b
          /\ x \in Columns => p = b
          /\ x \in Cards => BoardOf(x) = b /\ BoardOf(p) = b
      BY <1>1, <3>1, Disjoint DEF BoardOf, ForeignKeysInv
    <3> QED
      BY <1>2, <3>1, <3>2 DEF AtHome, Live, BoardOf
  <2> QED
    BY <2>1, <2>2
<1>8. HomeInv(r)'
  <2>1. /\ home'[r] \in Boards /\ parent'[home'[r]] # Unborn
    BY <1>2
  <2>2. ASSUME NEW x \in Loaded(r)'
        PROVE  AtHome(r, x, seenParent[r][x])'
    <3>1. PICK p : p = seenParent'[r][x]
      OBVIOUS
    <3>2. AtHome(r, x, p)'
      BY <1>6, <1>7, <2>2, <3>1
    <3> QED
      BY <3>1, <3>2 DEF AtHome
  <2> QED
    BY <2>1, <2>2 DEF HomeInv
<1>9. ASSUME r \notin overtaken'
      PROVE  /\ r \notin overtaken
             /\ \A x \in Loaded(r)' : /\ Live(x)' /\ seenParent'[r][x] = parent'[x]
                                      /\ seenPosition'[r][x] = position'[x]
  <2>1. r \notin overtaken
    BY <1>3, <1>9 DEF Record
  <2>2. \A x \in Loaded(r) : /\ Live(x) /\ seenParent[r][x] = parent[x]
                             /\ seenPosition[r][x] = position[x]
    BY <2>1 DEF OverlapInv, CurrentInv
  <2> QED
    BY <1>2, <1>6, <2>1, <2>2 DEF Live
<1> QED
  BY <1>3, <1>8, <1>9

LEMMA FetchesRow ==
    ASSUME OverlapInv, NEW r \in Requests, NEW row, NEW owned, NEW next, row \in owned,
           Fetch(r, row, owned, next), owned \subseteq Rows, next \in Waiting \ {"lookup", "refresh"}
    PROVE  Reads(r, {row}, next)
  BY DEF Fetch, Reads, db

Ended(r) == pc'[r] \in Answers \cup {"refresh"}

LEMMA EndedKnows ==
    ASSUME NEW r \in Requests, Ended(r)
    PROVE  HomeInv(r)' /\ CurrentInv(r)'
<1>1. ~Working(r)'
  BY DEF Ended, Working, Answers, Waiting
<1> QED
  BY <1>1 DEF HomeInv, CurrentInv

LEMMA AnswerEnds ==
    ASSUME OverlapInv, NEW r \in Requests, NEW code \in Answers, Answer(r, code)
    PROVE  Ended(r)
  BY DEF Answer, Ended, OverlapInv, IInv, TypeOK

\* The first row: there the request is at home.
LEMMA LookupKnows ==
    ASSUME OverlapInv, NEW r \in Requests, Record(r),
           GetOwnedBoard(r) \/ GetOwnedColumn(r) \/ GetOwnedCard(r)
    PROVE  HomeInv(r)' /\ CurrentInv(r)' /\ (pc'[r] \in Waiting => Working(r)')
<1>1. PICK row, u, op : row = call[r].row /\ u = call[r].user /\ op = call[r].op
  OBVIOUS
<1>2. /\ pc[r] = "lookup" /\ IInv
      /\ \E next \in {"commit", "list", "source"} :
            /\ \/ Fetch(r, row, OwnedBoards(u), next)
               \/ Fetch(r, row, OwnedColumns(u), next)
               \/ Fetch(r, row, OwnedCards(u), next)
            /\ next = "commit" => op \in {"rename_board", "delete_board", "rename_column", "update_card"}
  <2>1. CASE GetOwnedBoard(r)
    BY <1>1, <2>1 DEF GetOwnedBoard, OverlapInv
  <2>2. CASE GetOwnedColumn(r)
    BY <1>1, <2>2 DEF GetOwnedColumn, OverlapInv
  <2>3. CASE GetOwnedCard(r)
    <3>1. pc[r] = "lookup" /\ IInv /\ row \in Cards
      BY <1>1, <2>3 DEF GetOwnedCard, OverlapInv
    <3>2. pc[r] \in Waiting \ {"refresh"}
      BY <3>1 DEF Waiting
    <3>3. op \in OnCards
      BY <1>1, <3>1, <3>2, InProgress, CallKinds
    <3>4. PICK next : next = CASE op = "update_card" -> "commit"
                               [] op = "delete_card" -> "list"
                               [] op = "move_card"   -> "source"
      OBVIOUS
    <3>5. /\ next \in {"commit", "list", "source"}
          /\ next = "commit" => op \in {"rename_board", "delete_board", "rename_column", "update_card"}
      BY <3>3, <3>4 DEF OnCards
    <3>6. Fetch(r, row, OwnedCards(u), next)
      BY <1>1, <2>3, <3>4 DEF GetOwnedCard
    <3> QED
      BY <3>1, <3>5, <3>6
  <2> QED
    BY <2>1, <2>2, <2>3
<1>3. PICK next \in {"commit", "list", "source"}, owned \in {OwnedBoards(u), OwnedColumns(u), OwnedCards(u)} :
         /\ Fetch(r, row, owned, next)
         /\ next = "commit" => op \in {"rename_board", "delete_board", "rename_column", "update_card"}
  BY <1>2
<1>4. /\ pc[r] \in Waiting \ {"refresh"} /\ next \in Waiting \ {"lookup", "refresh"}
      /\ next \notin {"listTarget"}
  BY <1>2, <1>3 DEF Waiting
<1>5. ForeignKeysInv /\ u \in Users /\ Loaded(r) = {} /\ op # "create_board"
  BY <1>1, <1>2, <1>4, InProgress DEF IInv, ProgressInv
<1>6. CASE row \notin owned
  <2>1. Answer(r, "404")
    BY <1>3, <1>6 DEF Fetch
  <2>2. Ended(r)
    BY <2>1, AnswerEnds DEF Answers
  <2>3. pc'[r] \notin Waiting
    BY <2>1 DEF Answer, Waiting, OverlapInv, IInv, TypeOK
  <2> QED
    BY <2>2, <2>3, EndedKnows
<1>7. CASE row \in owned
  <2>1. Live(row) /\ owned \subseteq Rows /\ row \in Rows
    BY <1>3, <1>5, <1>7, OwnedRows, Disjoint
  <2>2. PICK b : b = BoardOf(row)
    OBVIOUS
  <2>3. b \in Boards /\ parent[b] # Unborn
    BY <1>5, <2>1, <2>2, Disjoint DEF ForeignKeysInv, BoardOf, Live
  <2>4. Reads(r, {row}, next)
    BY <1>3, <1>4, <1>7, <2>1, FetchesRow
  <2>5. pc'[r] = next
    BY <2>4 DEF Reads, Goto, OverlapInv, IInv, TypeOK
  <2>6. home'[r] = b
    BY <1>1, <1>2, <1>4, <2>2, <2>5 DEF Record, OverlapInv
  <2>7. /\ HomeInv(r)'
        /\ r \notin overtaken' =>
              \A x \in Loaded(r)' : /\ Live(x)' /\ seenParent'[r][x] = parent'[x]
                                    /\ seenPosition'[r][x] = position'[x]
    <3>1. \A x \in {row} : Live(x) /\ BoardOf(x) = b
      BY <2>1, <2>2
    <3> QED
      BY <1>1, <1>5, <2>3, <2>4, <2>6, <3>1, ReadAtHome
  <2>8. call' = call
    BY <2>4 DEF Reads
  <2>9. pc'[r] \in {"listTarget", "commit"} => call'[r].op \notin Listing /\ ~MovesAcross(r)'
    BY <1>1, <1>3, <1>4, <2>5, <2>8 DEF Listing, MovesAcross
  <2>10. Working(r)'
    BY <1>1, <1>4, <1>5, <2>5, <2>8 DEF Working
  <2> QED
    BY <2>7, <2>9, <2>10 DEF CurrentInv
<1> QED
  BY <1>6, <1>7

\* The same, for a request that is at home already.
LEMMA ReadsOn ==
    ASSUME OverlapInv, NEW r \in Requests, Record(r), Working(r),
           NEW rows, NEW next, Reads(r, rows, next),
           \A x \in rows : Live(x) /\ BoardOf(x) = home[r]
    PROVE  /\ HomeInv(r)' /\ pc'[r] = next /\ call'[r] = call[r]
           /\ parent' = parent /\ position' = position
           /\ \A x \in Loaded(r) : seenParent'[r][x] = seenParent[r][x]
           /\ r \notin overtaken' =>
                 /\ r \notin overtaken
                 /\ \A x \in Loaded(r)' : /\ Live(x)' /\ seenParent'[r][x] = parent'[x]
                                          /\ seenPosition'[r][x] = position'[x]
<1>1. PICK b : b = home[r]
  OBVIOUS
<1>2. HomeInv(r) /\ b \in Boards /\ parent[b] # Unborn /\ call[r].op # "create_board"
  BY <1>1 DEF OverlapInv, HomeInv, Working
<1>3. pc'[r] = next /\ home'[r] = b
  BY <1>1 DEF OverlapInv, IInv, TypeOK, Reads, Goto, Record, Working
<1>4. \A x \in rows : Live(x) /\ BoardOf(x) = b
  BY <1>1
<1>5. /\ HomeInv(r)'
      /\ r \notin overtaken' =>
            /\ r \notin overtaken
            /\ \A x \in Loaded(r)' : /\ Live(x)' /\ seenParent'[r][x] = parent'[x]
                                     /\ seenPosition'[r][x] = position'[x]
  BY <1>1, <1>2, <1>3, <1>4, ReadAtHome
<1>6. \A x \in Loaded(r) : seenParent'[r][x] = seenParent[r][x]
  BY DEF OverlapInv, IInv, TypeOK, Reads, Load, Loaded
<1> QED
  BY <1>3, <1>5, <1>6 DEF Reads, db

LEMMA SourceKnows ==
    ASSUME OverlapInv, NEW r \in Requests, Record(r), GetSourceColumn(r)
    PROVE  HomeInv(r)' /\ CurrentInv(r)'
<1>1. PICK row, source, owned :
         row = call[r].row /\ source = seenParent[r][row] /\ owned = OwnedColumns(call[r].user)
  OBVIOUS
<1>2. pc[r] = "source" /\ IInv /\ Fetch(r, source, owned, "target")
  BY <1>1 DEF GetSourceColumn, OverlapInv
<1>3. pc[r] \in Waiting \ {"refresh"} /\ pc[r] \in Waiting \ {"lookup", "refresh"}
  BY <1>2 DEF Waiting
<1>4. ForeignKeysInv /\ call[r] \in Calls /\ call[r].user \in Users /\ call[r].op = "move_card"
  BY <1>2, <1>3, InProgress DEF IInv, ProgressInv
<1>5. Working(r) /\ row \in Loaded(r) /\ row \in Cards
  BY <1>1, <1>2, <1>3, <1>4, CallKinds DEF Working, IInv, ProgressInv, OnCards
<1>6. CASE source \notin owned
  <2>1. Answer(r, "404")
    BY <1>2, <1>6 DEF Fetch
  <2>2. Ended(r)
    BY <2>1, AnswerEnds DEF Answers
  <2> QED
    BY <2>2, EndedKnows
<1>7. CASE source \in owned
  <2>1. Live(source) /\ source \in Columns /\ owned \subseteq Rows
    BY <1>1, <1>4, <1>7, OwnedRows, Disjoint
  <2>2. BoardOf(source) = home[r]
    BY <1>1, <1>5, <2>1 DEF OverlapInv, HomeInv, AtHome
  <2>3. Reads(r, {source}, "target")
    BY <1>2, <1>7, <2>1, FetchesRow DEF Waiting
  <2>4. \A x \in {source} : Live(x) /\ BoardOf(x) = home[r]
    BY <2>1, <2>2
  <2>5. /\ HomeInv(r)' /\ pc'[r] = "target"
        /\ r \notin overtaken' =>
              \A x \in Loaded(r)' : /\ Live(x)' /\ seenParent'[r][x] = parent'[x]
                                    /\ seenPosition'[r][x] = position'[x]
    BY <1>5, <2>3, <2>4, ReadsOn
  <2> QED
    BY <2>5 DEF CurrentInv
<1> QED
  BY <1>6, <1>7

LEMMA TargetKnows ==
    ASSUME OverlapInv, NEW r \in Requests, Record(r), GetTargetColumn(r)
    PROVE  HomeInv(r)' /\ CurrentInv(r)'
<1>1. PICK row, source, into, owned : /\ row = call[r].row /\ source = seenParent[r][row]
                                      /\ into = call[r].into
                                      /\ owned = OwnedColumns(call[r].user)
  OBVIOUS
<1>2. /\ pc[r] = "target" /\ IInv
      /\ IF into \in owned /\ BoardIdOf(r, into) # seenParent[r][source]
         THEN Answer(r, "400") /\ UNCHANGED db
         ELSE Fetch(r, into, owned, "list")
  BY <1>1 DEF GetTargetColumn, OverlapInv
<1>3. pc[r] \in Waiting \ {"refresh"} /\ pc[r] \in Waiting \ {"lookup", "refresh"}
  BY <1>2 DEF Waiting
<1>4. /\ ForeignKeysInv /\ call[r] \in Calls /\ call[r].user \in Users /\ call[r].op = "move_card"
      /\ source \in Loaded(r)
  BY <1>1, <1>2, <1>3, InProgress DEF IInv, ProgressInv
<1>5. Working(r) /\ row \in Loaded(r) /\ row \in Cards
  BY <1>1, <1>2, <1>3, <1>4, CallKinds DEF Working, IInv, ProgressInv, OnCards
<1>6. source \in Columns /\ seenParent[r][source] = home[r]
  <2>1. Remembers(r, row, source)
    BY <1>1, <1>2, <1>5 DEF IInv, SessionInv
  <2>2. source \in Columns
    BY <1>5, <2>1 DEF Remembers
  <2> QED
    BY <1>4, <1>5, <2>2 DEF OverlapInv, HomeInv, AtHome
<1>7. CASE into \notin owned \/ BoardIdOf(r, into) # seenParent[r][source]
  <2>1. Answer(r, "404") \/ Answer(r, "400")
    BY <1>2, <1>7 DEF Fetch
  <2>2. Ended(r)
    BY <2>1, AnswerEnds DEF Answers
  <2> QED
    BY <2>2, EndedKnows
<1>8. CASE into \in owned /\ BoardIdOf(r, into) = seenParent[r][source]
  <2>1. Live(into) /\ into \in Columns /\ into \in Rows /\ owned \subseteq Rows
    BY <1>1, <1>4, <1>8, OwnedRows, Disjoint
  <2>2. BoardOf(into) = home[r]
    <3>1. CASE seenParent[r][into] = None
      BY <1>6, <1>8, <2>1, <3>1, Disjoint DEF BoardIdOf, BoardOf
    <3>2. CASE seenParent[r][into] # None
      BY <1>5, <2>1, <3>2, LoadedAtHome DEF Loaded
    <3> QED
      BY <3>1, <3>2
  <2>3. Reads(r, {into}, "list")
    BY <1>2, <1>8, <2>1, FetchesRow DEF Waiting
  <2>4. \A x \in {into} : Live(x) /\ BoardOf(x) = home[r]
    BY <2>1, <2>2
  <2>5. /\ HomeInv(r)' /\ pc'[r] = "list"
        /\ r \notin overtaken' =>
              \A x \in Loaded(r)' : /\ Live(x)' /\ seenParent'[r][x] = parent'[x]
                                    /\ seenPosition'[r][x] = position'[x]
    BY <1>5, <2>3, <2>4, ReadsOn
  <2> QED
    BY <2>5 DEF CurrentInv
<1> QED
  BY <1>7, <1>8

\* The list of a row at home is at home.
LEMMA ChildrenAtHome ==
    ASSUME OverlapInv, NEW r \in Requests, NEW p \in Rows, Live(p) => BoardOf(p) = home[r]
    PROVE  \A x \in Children(p) : x \in Rows /\ Live(x) /\ BoardOf(x) = home[r]
<1>1. ForeignKeysInv /\ DatabaseOK
  BY TypeParts DEF OverlapInv, IInv
<1> QED
  BY <1>1, ChildrenOf

LEMMA SiblingsKnow ==
    ASSUME OverlapInv, NEW r \in Requests, Record(r), ListSiblings(r)
    PROVE  HomeInv(r)' /\ CurrentInv(r)'
<1>1. PICK row, op, p, next : /\ row = call[r].row /\ op = call[r].op /\ p = ListedParent(r)
                              /\ next = CASE op = "get_board" -> "contents"
                                          [] op \in {"list_columns", "list_cards"} -> "answer"
                                          [] MovesAcross(r) -> "listTarget"
                                          [] OTHER -> "commit"
  OBVIOUS
<1>2. /\ pc[r] = "list" /\ IInv /\ Load(r, Children(p)) /\ Goto(r, next)
      /\ UNCHANGED <<parent, position, call, targets>>
      /\ \E s \in Listings(p) : siblings' = [siblings EXCEPT ![r] = s]
  BY <1>1 DEF ListSiblings, OverlapInv
<1>3. /\ next \in {"contents", "answer", "listTarget", "commit"}
      /\ next = "listTarget" => op = "move_card"
      /\ next = "commit" => ~MovesAcross(r)
  <2>1. MovesAcross(r) => op = "move_card"
    BY <1>1 DEF MovesAcross
  <2> QED
    BY <1>1, <2>1
<1>4. pc[r] \in Waiting \ {"refresh"} /\ pc[r] \in Waiting \ {"lookup", "refresh"}
  BY <1>2 DEF Waiting
<1>5. /\ call[r] \in Calls /\ row \in Loaded(r) /\ row \in Rows /\ Working(r)
      /\ op \in {"get_board", "list_columns", "list_cards"} \cup Listing
  <2>1. /\ call[r] \in Calls /\ Loaded(r) \subseteq Rows
        /\ op \in {"get_board", "list_columns", "list_cards"} \cup Listing
    BY <1>1, <1>2, <1>4, InProgress DEF IInv, ProgressInv, Listing
  <2>2. op # "create_board"
    BY <2>1 DEF Listing
  <2> QED
    BY <1>1, <1>2, <1>4, <2>1, <2>2 DEF Working, IInv, ProgressInv
<1>6. p \in Rows /\ (Live(p) => BoardOf(p) = home[r])
  <2>1. CASE op \in {"get_board", "list_columns", "list_cards", "create_column", "create_card"}
    <3>1. p = row
      BY <1>1, <2>1 DEF ListedParent
    <3> QED
      BY <1>5, <3>1, LoadedAtHome
  <2>2. CASE op \notin {"get_board", "list_columns", "list_cards", "create_column", "create_card"}
    <3>1. p = seenParent[r][row]
      BY <1>1, <2>2 DEF ListedParent
    <3>2. row \in Columns \/ row \in Cards
      BY <1>1, <1>5, <2>2, CallKinds DEF OnColumns, OnCards, Listing
    <3>3. Remembers(r, row, p) /\ AtHome(r, row, p)
      BY <1>2, <1>5, <3>1 DEF IInv, SessionInv, OverlapInv, HomeInv
    <3> QED
      BY <3>2, <3>3, Disjoint DEF Remembers, AtHome, BoardOf
  <2> QED
    BY <2>1, <2>2
<1>7. Reads(r, Children(p), next)
  BY <1>2, <1>3 DEF Reads, db, Children, Waiting
<1>8. \A x \in Children(p) : Live(x) /\ BoardOf(x) = home[r]
  BY <1>6, ChildrenAtHome
<1>9. /\ HomeInv(r)' /\ pc'[r] = next /\ call'[r] = call[r]
      /\ parent' = parent /\ position' = position
      /\ \A x \in Loaded(r) : seenParent'[r][x] = seenParent[r][x]
      /\ r \notin overtaken' =>
            \A x \in Loaded(r)' : /\ Live(x)' /\ seenParent'[r][x] = parent'[x]
                                  /\ seenPosition'[r][x] = position'[x]
  BY <1>5, <1>7, <1>8, ReadsOn
<1>10. (MovesAcross(r)' <=> MovesAcross(r)) /\ ListedParent(r)' = p
  BY <1>1, <1>5, <1>9 DEF MovesAcross, ListedParent
<1>11. siblings'[r] \in Listings(ListedParent(r))'
  <2>1. siblings'[r] \in Listings(p)
    BY <1>2 DEF OverlapInv, IInv, TypeOK
  <2> QED
    BY <1>9, <1>10, <2>1 DEF Listings, Orderings, Children
<1> QED
  BY <1>3, <1>9, <1>10, <1>11 DEF CurrentInv

LEMMA TargetSiblingsKnow ==
    ASSUME OverlapInv, NEW r \in Requests, Record(r), ListTargetSiblings(r)
    PROVE  HomeInv(r)' /\ CurrentInv(r)'
<1>1. PICK into : into = call[r].into
  OBVIOUS
<1>2. /\ pc[r] = "listTarget" /\ IInv /\ Load(r, Children(into)) /\ Goto(r, "commit")
      /\ UNCHANGED <<parent, position, call, siblings>>
      /\ \E s \in Listings(into) : targets' = [targets EXCEPT ![r] = s]
  BY <1>1 DEF ListTargetSiblings, OverlapInv
<1>3. pc[r] \in Waiting \ {"refresh"} /\ pc[r] \in Waiting \ {"lookup", "refresh"}
  BY <1>2 DEF Waiting
<1>4. /\ call[r] \in Calls /\ call[r].op = "move_card" /\ into \in Loaded(r)
      /\ Loaded(r) \subseteq Rows /\ call[r].row \in Loaded(r)
  BY <1>1, <1>2, <1>3, InProgress DEF IInv, ProgressInv
<1>5. Working(r)
  BY <1>3, <1>4 DEF Working
<1>6. into \in Rows /\ (Live(into) => BoardOf(into) = home[r])
  BY <1>4, <1>5, LoadedAtHome
<1>7. Reads(r, Children(into), "commit")
  BY <1>2 DEF Reads, db, Children, Waiting
<1>8. \A x \in Children(into) : Live(x) /\ BoardOf(x) = home[r]
  BY <1>6, ChildrenAtHome
<1>9. /\ HomeInv(r)' /\ pc'[r] = "commit" /\ call'[r] = call[r]
      /\ parent' = parent /\ position' = position
      /\ \A x \in Loaded(r) : seenParent'[r][x] = seenParent[r][x]
      /\ r \notin overtaken' =>
            /\ r \notin overtaken
            /\ \A x \in Loaded(r)' : /\ Live(x)' /\ seenParent'[r][x] = parent'[x]
                                     /\ seenPosition'[r][x] = position'[x]
  BY <1>5, <1>7, <1>8, ReadsOn
<1>10. ListedParent(r)' = ListedParent(r)
  BY <1>4, <1>9 DEF ListedParent
<1>11. ASSUME r \notin overtaken'
       PROVE  siblings'[r] \in Listings(ListedParent(r))'
  <2>1. siblings[r] \in Listings(ListedParent(r)) /\ siblings' = siblings
    BY <1>2, <1>4, <1>5, <1>9, <1>11 DEF OverlapInv, CurrentInv, Listing
  <2> QED
    BY <1>9, <1>10, <2>1 DEF Listings, Orderings, Children
<1>12. targets'[r] \in Listings(call[r].into)'
  <2>1. targets'[r] \in Listings(into)
    BY <1>2 DEF OverlapInv, IInv, TypeOK
  <2> QED
    BY <1>1, <1>9, <2>1 DEF Listings, Orderings, Children
<1> QED
  BY <1>9, <1>11, <1>12 DEF CurrentInv

LEMMA ContentsKnow ==
    ASSUME OverlapInv, NEW r \in Requests, Record(r), ListContents(r)
    PROVE  HomeInv(r)' /\ CurrentInv(r)'
<1>1. IInv /\ pc[r] = "contents"
  BY ListedContents DEF OverlapInv
<1>2. PICK rows \in SUBSET Rows :
         rows = {k \in Cards : Live(k) /\ parent[k] \in Loaded(r)} /\ Load(r, rows)
  BY <1>1, ListedContents
<1>3. Goto(r, "answer") /\ UNCHANGED <<parent, position, call>>
  BY <1>1, ListedContents
<1>4. pc[r] \in Waiting \ {"lookup", "refresh"} /\ call[r].op = "get_board" /\ ForeignKeysInv
  BY <1>1 DEF Waiting, IInv, ProgressInv
<1>5. Working(r)
  BY <1>4 DEF Working
<1>6. ASSUME NEW k \in rows
      PROVE  Live(k) /\ BoardOf(k) = home[r]
  <2>1. k \in Cards /\ Live(k) /\ parent[k] \in Loaded(r) /\ parent[k] \in Columns /\ Live(parent[k])
    BY <1>2, <1>4 DEF ForeignKeysInv
  <2>2. BoardOf(parent[k]) = home[r]
    BY <1>5, <2>1, LoadedAtHome
  <2> QED
    BY <2>1, <2>2, Disjoint DEF BoardOf
<1>7. Reads(r, rows, "answer")
  BY <1>2, <1>3 DEF Reads, db, Waiting
<1>8. /\ HomeInv(r)' /\ pc'[r] = "answer"
      /\ r \notin overtaken' =>
            \A x \in Loaded(r)' : /\ Live(x)' /\ seenParent'[r][x] = parent'[x]
                                  /\ seenPosition'[r][x] = position'[x]
  BY <1>5, <1>6, <1>7, ReadsOn
<1> QED
  BY <1>8 DEF CurrentInv

LEMMA OwnKnows ==
    ASSUME OverlapInv, NEW r \in Requests, Step(r), Record(r)
    PROVE  HomeInv(r)' /\ CurrentInv(r)'
<1>1. CASE Arrive(r)
  <2>1. ~Working(r)'
    BY <1>1 DEF Arrive, Goto, Working, OverlapInv, IInv, TypeOK
  <2> QED
    BY <2>1 DEF HomeInv, CurrentInv
<1>2. CASE Show(r) \/ Refresh(r) \/ Abort(r)
  <2>1. \E code \in Answers : Answer(r, code)
    BY <1>2 DEF Show, Refresh, Abort, Answers
  <2> QED
    BY <2>1, AnswerEnds, EndedKnows
<1>3. CASE Write(r)
  <2>1. PICK tx : Writes(r, tx)
    BY <1>3, WriteWrites DEF OverlapInv
  <2>2. CASE \E code \in Answers : Answer(r, code)
    BY <2>2, AnswerEnds, EndedKnows
  <2>3. CASE Goto(r, "refresh")
    <3>1. Ended(r)
      BY <2>3 DEF Goto, Ended, OverlapInv, IInv, TypeOK
    <3> QED
      BY <3>1, EndedKnows
  <2> QED
    BY <2>1, <2>2, <2>3 DEF Writes, CommitAndRefresh, CommitAndAnswer, Refused, Answers
<1>4. CASE GetOwnedBoard(r) \/ GetOwnedColumn(r) \/ GetOwnedCard(r)
  BY <1>4, LookupKnows
<1> QED
  BY <1>1, <1>2, <1>3, <1>4, SourceKnows, TargetKnows, SiblingsKnow, TargetSiblingsKnow,
     ContentsKnow DEF Step, Read

-----------------------------------------------------------------------------
(* The lists after a commit.                                               *)

\* What a request that has not been overtaken writes from.
LEMMA UpToDate ==
    ASSUME OverlapInv, NEW r \in Requests, pc[r] = "commit", r \notin overtaken,
           call[r].op \in Listing, NEW p, p = ListedParent(r)
    PROVE  /\ DatabaseOK /\ ForeignKeysInv
           /\ call[r].row \in Rows /\ Live(call[r].row) /\ call[r].index \in Int
           /\ p \in Holders /\ p \in Rows /\ Live(p)
           /\ siblings[r] \in Seq(Rows) /\ IsInjective(siblings[r])
           /\ Range(siblings[r]) = Children(p)
           /\ IsFiniteSet(Children(p)) /\ Len(siblings[r]) = Cardinality(Children(p))
           /\ \A x \in Loaded(r) : Live(x) /\ seenPosition[r][x] = position[x]
           /\ Children(p) \subseteq Loaded(r) /\ call[r].row \in Loaded(r)
           /\ call[r].op \in {"create_column", "create_card"} => p = call[r].row
           /\ call[r].op \notin {"create_column", "create_card"} => p = parent[call[r].row]
<1>1. call[r].op # "create_board"
  BY DEF Listing
<1>2. /\ Working(r) /\ DatabaseOK /\ ForeignKeysInv /\ call[r].row \in Rows
      /\ Range(siblings[r]) \subseteq Loaded(r) /\ call[r].index \in Nat
      /\ call[r].row \in Loaded(r)
  BY <1>1, WorkingToCommit
<1>3. /\ siblings[r] \in Listings(p)
      /\ \A x \in Loaded(r) : Live(x) /\ seenPosition[r][x] = position[x]
  BY <1>2 DEF OverlapInv, CurrentInv
<1>4. /\ siblings[r] \in Seq(Rows) /\ IsInjective(siblings[r])
      /\ Range(siblings[r]) = Children(p)
      /\ IsFiniteSet(Children(p)) /\ Len(siblings[r]) = Cardinality(Children(p))
  BY <1>3, ListingFacts
<1>5. /\ Live(call[r].row) /\ p \in Holders /\ Live(p)
      /\ call[r].op \in {"create_column", "create_card"} => p = call[r].row
      /\ call[r].op \notin {"create_column", "create_card"} => p = parent[call[r].row]
  BY <1>2, ListsAtHome
<1> QED
  BY <1>2, <1>3, <1>4, <1>5, Disjoint DEF Holders

\* A list as it was, and a list that has become s.
Stays(p) == Children(p)' = Children(p) /\ \A y \in Children(p) : position'[y] = position[y]
Becomes(p, s) == NumberedBy(s, Children(p)', position')

\* A column or card is added to a list.
LEMMA InsertedList ==
    ASSUME OverlapInv, NEW r \in Requests, pc[r] = "commit", r \notin overtaken,
           call[r].op \in {"create_column", "create_card"},
           NEW q, q = call[r].row, Contiguous(Children(q), position),
           NEW x \in Rows, Inserted(x, q, Len(siblings[r]))
    PROVE  /\ Becomes(q, Append(siblings[r], x))
           /\ \A p \in Rows : p # q => Stays(p)
<1>1. /\ DatabaseOK /\ q \in Rows /\ siblings[r] \in Listings(q)
  <2>1. call[r].op \in Listing
    BY DEF Listing
  <2>2. PICK p : p = ListedParent(r)
    OBVIOUS
  <2>3. DatabaseOK /\ p \in Rows /\ p = q
    BY <2>1, <2>2, UpToDate
  <2>4. Working(r) /\ pc[r] \in {"listTarget", "commit"}
    BY <2>1, WorkingToCommit DEF Listing
  <2>5. siblings[r] \in Listings(p)
    BY <2>1, <2>2, <2>4 DEF OverlapInv, CurrentInv
  <2> QED
    BY <2>3, <2>5
<1>2. /\ parent[x] = Unborn /\ parent' = [parent EXCEPT ![x] = q]
      /\ position' = [position EXCEPT ![x] = Len(siblings[r])]
  BY DEF Inserted
<1>3. \A p \in Rows : x \notin Children(p)
  BY <1>2, Disjoint DEF Children
<1>4. /\ Children(q)' = Children(q) \cup {x}
      /\ \A p \in Rows : p # q => Children(p)' = Children(p)
  BY <1>1, <1>2, <1>3 DEF DatabaseOK, Children
<1>5. \A p \in Rows : \A y \in Children(p) : position'[y] = position[y]
  BY <1>1, <1>2, <1>3 DEF DatabaseOK, Children
<1>6. NumberedBy(siblings[r], Children(q), position)
  BY <1>1, ListingNumbered
<1>7. position'[x] = Len(siblings[r])
  BY <1>1, <1>2 DEF DatabaseOK
<1>8. NumberedBy(Append(siblings[r], x), Children(q) \cup {x}, position')
  BY <1>1, <1>3, <1>5, <1>6, <1>7, NumberedAppend
<1> QED
  BY <1>4, <1>5, <1>8 DEF Becomes, Stays

\* A list is renumbered with a row of its own put somewhere else.
LEMMA ReorderedList ==
    ASSUME OverlapInv, NEW r \in Requests, pc[r] = "commit", r \notin overtaken,
           call[r].op \in {"move_column", "move_card"}, parent' = parent,
           Renumber({}, insert_at(siblings[r], call[r].row, call[r].index, seenPosition[r])),
           NEW q, q = ListedParent(r)
    PROVE  /\ Becomes(q, Placed(siblings[r], call[r].row, call[r].index))
           /\ \A p \in Rows : p # q => Stays(p)
<1>1. PICK row, moved, new : /\ row = call[r].row
                             /\ moved = insert_at(siblings[r], row, call[r].index, seenPosition[r])
                             /\ new = Placed(siblings[r], row, call[r].index)
  OBVIOUS
<1>2. call[r].op \in Listing /\ call[r].op \notin {"create_column", "create_card"}
  BY DEF Listing
<1>3. /\ DatabaseOK /\ row \in Rows /\ Live(row) /\ call[r].index \in Int /\ q = parent[row]
      /\ q \in Rows
      /\ siblings[r] \in Seq(Rows) /\ IsInjective(siblings[r]) /\ Range(siblings[r]) = Children(q)
      /\ \A x \in Loaded(r) : Live(x) /\ seenPosition[r][x] = position[x]
      /\ Children(q) \subseteq Loaded(r)
  BY <1>1, <1>2, UpToDate
<1>4. row \in Children(q) /\ \A x \in Children(q) : x \in Rows /\ parent[x] # Gone
  BY <1>3, Disjoint DEF Children
<1>5. DOMAIN moved \subseteq Children(q)
  BY <1>1, <1>3, <1>4, InsertAtType
<1>6. \A x \in Rows : position'[x] = IF x \in DOMAIN moved /\ parent[x] # Gone
                                     THEN moved[x] ELSE position[x]
  BY <1>1 DEF Renumber
<1>7. NumberedBy(new, Children(q) \cup {row}, Assigned(Rows, seenPosition[r], moved))
  BY <1>1, <1>3, InsertAtNumbers
<1>8. Children(q) \cup {row} = Children(q)
  BY <1>4
<1>9. \A x \in Children(q) : position'[x] = Assigned(Rows, seenPosition[r], moved)[x]
  BY <1>3, <1>4, <1>6 DEF Assigned
<1>10. NumberedBy(new, Children(q), position')
  BY <1>7, <1>8, <1>9, NumberedSame
<1>11. \A p \in Rows : Children(p)' = Children(p)
  BY DEF Children
<1>12. ASSUME NEW p \in Rows, p # q
       PROVE  \A y \in Children(p) : position'[y] = position[y]
  <2>1. \A y \in Children(p) : y \in Rows /\ y \notin Children(q)
    BY <1>12 DEF Children
  <2> QED
    BY <1>5, <1>6, <2>1
<1> QED
  BY <1>1, <1>3, <1>10, <1>11, <1>12 DEF Becomes, Stays

\* A row is deleted with all that hangs from it, and the gap in its list closed.
LEMMA ClosedList ==
    ASSUME OverlapInv, NEW r \in Requests, pc[r] = "commit", r \notin overtaken,
           call[r].op \in {"delete_column", "delete_card"},
           Deleted(call[r].row, remove_from(siblings[r], call[r].row, seenPosition[r])),
           NEW q, q = ListedParent(r)
    PROVE  /\ Becomes(q, without(siblings[r], call[r].row))
           /\ \A p \in Rows : p # q /\ Live(p)' => Stays(p)
<1>1. PICK row, moved, doomed, new : /\ row = call[r].row /\ doomed = Doomed({row})
                                     /\ moved = remove_from(siblings[r], row, seenPosition[r])
                                     /\ new = without(siblings[r], row)
  OBVIOUS
<1>2. call[r].op \in Listing /\ call[r].op \notin {"create_column", "create_card"}
  BY DEF Listing
<1>3. /\ DatabaseOK /\ ForeignKeysInv /\ row \in Rows /\ Live(row) /\ q = parent[row]
      /\ q \in Rows /\ Live(q)
      /\ siblings[r] \in Seq(Rows) /\ IsInjective(siblings[r]) /\ Range(siblings[r]) = Children(q)
      /\ \A x \in Loaded(r) : Live(x) /\ seenPosition[r][x] = position[x]
      /\ Children(q) \subseteq Loaded(r)
  BY <1>1, <1>2, UpToDate
<1>4. /\ parent' = [x \in Rows |-> IF x \in doomed THEN Gone ELSE parent[x]]
      /\ \A x \in Rows : position'[x] = IF x \in doomed THEN 0
                                        ELSE IF x \in DOMAIN moved /\ parent[x] # Gone
                                        THEN moved[x] ELSE position[x]
  BY <1>1 DEF Deleted, Renumber
<1>5. \A x \in Rows : x \in doomed <=>
         Live(x) /\ (x = row \/ parent[x] = row \/ (parent[x] \in Rows /\ parent[parent[x]] = row))
  BY <1>1 DEF Doomed
<1>6. q # row /\ parent[q] # row /\ (parent[q] \in Rows => parent[parent[q]] # row)
  BY <1>3, Disjoint DEF ForeignKeysInv
<1>7. row \in doomed /\ q \notin doomed
  BY <1>3, <1>5, <1>6
<1>8. ASSUME NEW x \in Children(q), x # row
      PROVE  x \notin doomed /\ x \in Rows /\ parent[x] # Gone
  BY <1>3, <1>5, <1>6, <1>8, Disjoint DEF Children
<1>9. Children(q)' = Children(q) \ {row}
  BY <1>3, <1>4, <1>7, <1>8, Disjoint DEF Children
<1>10. DOMAIN moved \subseteq Children(q)
  BY <1>1, <1>3, RemoveFromType
<1>11. NumberedBy(new, Children(q) \ {row}, Assigned(Rows, seenPosition[r], moved))
  BY <1>1, <1>3, RemoveFromNumbers
<1>12. \A x \in Children(q) \ {row} : position'[x] = Assigned(Rows, seenPosition[r], moved)[x]
  BY <1>3, <1>4, <1>8 DEF Assigned
<1>13. NumberedBy(new, Children(q) \ {row}, position')
  BY <1>11, <1>12, NumberedSame
<1>14. ASSUME NEW p \in Rows, p # q, Live(p)'
       PROVE  /\ Children(p)' = Children(p)
              /\ \A y \in Children(p) : position'[y] = position[y]
  <2>1. p \notin doomed
    BY <1>4, <1>14 DEF Live
  <2>2. Live(p)
    BY <1>4, <1>14, <2>1 DEF Live
  <2>3. ASSUME NEW y \in Children(p)
        PROVE  y \in Rows /\ y \notin doomed /\ y \notin Children(q)
    BY <1>3, <1>5, <1>14, <2>1, <2>2, <2>3 DEF Children
  <2> QED
    BY <1>4, <1>10, <1>14, <2>3, Disjoint DEF Children
<1> QED
  BY <1>1, <1>9, <1>13, <1>14 DEF Becomes, Stays

\* A card is taken out of one list and put into another.
LEMMA AcrossWrites ==
    ASSUME OverlapInv, NEW r \in Requests, pc[r] = "commit", r \notin overtaken,
           call[r].op = "move_card", MovesAcross(r),
           Refiled(call[r].row, call[r].into, MovedAcross(r)),
           NEW card, card = call[r].row, NEW q, q = ListedParent(r), NEW into, into = call[r].into
    PROVE  /\ DatabaseOK /\ card \in Rows /\ call[r].index \in Int /\ q = parent[card]
           /\ q \in Rows /\ Live(q) /\ into \in Rows /\ into # q
           /\ siblings[r] \in Seq(Rows) /\ IsInjective(siblings[r])
           /\ Range(siblings[r]) = Children(q)
           /\ targets[r] \in Seq(Rows) /\ IsInjective(targets[r])
           /\ Range(targets[r]) = Children(into)
           /\ IsFiniteSet(Children(into)) /\ Len(targets[r]) = Cardinality(Children(into))
           /\ Children(q) \cup Children(into) \cup {card} \subseteq Loaded(r)
           /\ parent' = [x \in Rows |-> IF x = card THEN into ELSE parent[x]]
           /\ \A x \in Rows \ DOMAIN MovedAcross(r) : position'[x] = position[x]
           /\ \A x \in Loaded(r) : x \in Rows /\ position'[x] = Opened(r)[x]
<1>1. call[r].op \in Listing /\ call[r].op \notin {"create_column", "create_card"}
  BY DEF Listing
<1>2. /\ DatabaseOK /\ card \in Rows /\ Live(card) /\ call[r].index \in Int /\ q = parent[card]
      /\ q \in Rows /\ Live(q)
      /\ siblings[r] \in Seq(Rows) /\ IsInjective(siblings[r]) /\ Range(siblings[r]) = Children(q)
      /\ \A x \in Loaded(r) : Live(x) /\ seenPosition[r][x] = position[x]
      /\ Children(q) \subseteq Loaded(r) /\ card \in Loaded(r)
  BY <1>1, UpToDate
<1>3. Working(r) /\ Range(targets[r]) \subseteq Loaded(r)
  BY WorkingToCommit
<1>4. /\ targets[r] \in Seq(Rows) /\ IsInjective(targets[r]) /\ Range(targets[r]) = Children(into)
      /\ IsFiniteSet(Children(into)) /\ Len(targets[r]) = Cardinality(Children(into))
      /\ Children(into) \subseteq Loaded(r) /\ into \in Rows
  <2>1. targets[r] \in Listings(into)
    BY <1>3 DEF OverlapInv, CurrentInv
  <2>2. into \in Rows
    BY <1>3, ListsAtHome, Disjoint
  <2> QED
    BY <1>3, <2>1, <2>2, ListingFacts
<1>5. into # q
  <2>1. seenParent[r][card] = parent[card]
    BY <1>2, <1>3 DEF OverlapInv, CurrentInv
  <2> QED
    BY <1>2, <2>1 DEF MovesAcross
<1>6. PICK moved : moved = MovedAcross(r)
  OBVIOUS
<1>7. /\ parent' = [x \in Rows |-> IF x = card THEN into ELSE parent[x]]
      /\ \A x \in Rows : position'[x] = IF x \in DOMAIN moved /\ parent[x] # Gone
                                        THEN moved[x] ELSE position[x]
  BY <1>2, <1>6 DEF Refiled, Renumber, Live
<1>8. moved = [x \in {y \in Rows : Opened(r)[y] # seenPosition[r][y]} |-> Opened(r)[x]]
  BY <1>6 DEF MovedAcross
<1>9. \A x \in Loaded(r) : x \in Rows /\ position'[x] = Opened(r)[x]
  <2>1. ASSUME NEW x \in Loaded(r)
        PROVE  x \in Rows /\ parent[x] # Gone /\ seenPosition[r][x] = position[x]
    BY <1>2, <2>1 DEF Loaded, Live
  <2> QED
    BY <1>7, <1>8, <2>1
<1> QED
  BY <1>2, <1>4, <1>5, <1>6, <1>7, <1>9

LEMMA ListsMovedAcross ==
    ASSUME OverlapInv, NEW r \in Requests, pc[r] = "commit", r \notin overtaken,
           call[r].op = "move_card", MovesAcross(r),
           Refiled(call[r].row, call[r].into, MovedAcross(r)),
           NEW q, q = ListedParent(r), NEW into, into = call[r].into
    PROVE  /\ Becomes(q, without(siblings[r], call[r].row))
           /\ Becomes(into, Placed(targets[r], call[r].row, call[r].index))
           /\ \A p \in Rows : p # q /\ p # into => Stays(p)
<1>1. PICK card, index, loaded, removed, closed, inserted, opened, moved :
         /\ card = call[r].row /\ index = call[r].index /\ loaded = seenPosition[r]
         /\ removed = remove_from(siblings[r], card, loaded)
         /\ closed = Assigned(Rows, loaded, removed)
         /\ inserted = insert_at(targets[r], card, index, closed)
         /\ opened = Assigned(Rows, closed, inserted)
         /\ moved = MovedAcross(r)
  OBVIOUS
<1>2. Opened(r) = opened /\ moved = [x \in {y \in Rows : opened[y] # loaded[y]} |-> opened[x]]
  BY <1>1 DEF Opened, MovedAcross
<1>3. /\ DatabaseOK /\ card \in Rows /\ index \in Int /\ q = parent[card]
      /\ q \in Rows /\ into \in Rows /\ into # q
      /\ siblings[r] \in Seq(Rows) /\ IsInjective(siblings[r]) /\ Range(siblings[r]) = Children(q)
      /\ targets[r] \in Seq(Rows) /\ IsInjective(targets[r]) /\ Range(targets[r]) = Children(into)
      /\ Children(q) \cup Children(into) \cup {card} \subseteq Loaded(r)
      /\ parent' = [x \in Rows |-> IF x = card THEN into ELSE parent[x]]
      /\ \A x \in Rows \ DOMAIN moved : position'[x] = position[x]
      /\ \A x \in Loaded(r) : x \in Rows /\ position'[x] = opened[x]
  <2>1. card = call[r].row
    BY <1>1
  <2>2. index = call[r].index /\ opened = Opened(r) /\ moved = MovedAcross(r)
    BY <1>1, <1>2
  <2> QED
    BY <2>1, <2>2, AcrossWrites
<1>4. DOMAIN removed \subseteq Children(q) /\ DOMAIN inserted \subseteq Children(into) \cup {card}
  <2>1. DOMAIN removed \subseteq Range(siblings[r])
    BY <1>1, <1>3, RemoveFromType
  <2>2. DOMAIN inserted \subseteq Range(targets[r]) \cup {card}
    BY <1>1, <1>3, InsertAtType
  <2> QED
    BY <1>3, <2>1, <2>2
<1>5. card \in Children(q) /\ card \notin Children(into) /\ Children(q) \cap Children(into) = {}
  BY <1>3 DEF Children
<1>6. Children(q)' = Children(q) \ {card} /\ Children(into)' = Children(into) \cup {card}
  BY <1>3 DEF Children
<1>7. NumberedBy(without(siblings[r], card), Children(q) \ {card}, position')
  <2>1. NumberedBy(without(siblings[r], card), Children(q) \ {card}, closed)
    BY <1>1, <1>3, RemoveFromNumbers
  <2>2. ASSUME NEW x \in Children(q) \ {card}
        PROVE  position'[x] = closed[x]
    <3>1. x \in Loaded(r) /\ x \in Rows /\ x \notin DOMAIN inserted
      BY <1>3, <1>4, <1>5, <2>2
    <3> QED
      BY <1>1, <1>3, <3>1 DEF Assigned
  <2> QED
    BY <2>1, <2>2, NumberedSame
<1>8. NumberedBy(Placed(targets[r], card, index), Children(into) \cup {card}, position')
  <2>1. NumberedBy(Placed(targets[r], card, index), Children(into) \cup {card}, opened)
    BY <1>1, <1>3, InsertAtNumbers
  <2>2. \A x \in Children(into) \cup {card} : position'[x] = opened[x]
    BY <1>3
  <2> QED
    BY <2>1, <2>2, NumberedSame
<1>9. ASSUME NEW p \in Rows, p # q, p # into
      PROVE  /\ Children(p)' = Children(p)
             /\ \A y \in Children(p) : position'[y] = position[y]
  <2>1. Children(p)' = Children(p)
    BY <1>3, <1>9 DEF Children
  <2>2. ASSUME NEW y \in Children(p)
        PROVE  y \in Rows /\ y \notin DOMAIN removed /\ y \notin DOMAIN inserted
    BY <1>3, <1>4, <1>9, <2>2 DEF Children
  <2>3. ASSUME NEW y \in Children(p)
        PROVE  y \in Rows \ DOMAIN moved
    <3>1. y \in Rows /\ opened[y] = loaded[y]
      BY <1>1, <2>2, <2>3 DEF Assigned
    <3> QED
      BY <1>2, <3>1
  <2> QED
    BY <1>3, <2>1, <2>3
<1> QED
  BY <1>1, <1>6, <1>7, <1>8, <1>9 DEF Becomes, Stays

\* Nothing hangs from a row before it is there.
LEMMA NothingUnder ==
    ASSUME ForeignKeysInv, DatabaseOK, NEW p \in Rows, ~Live(p)
    PROVE  Children(p) = {}
  BY ChildrenOf

LEMMA InsertedUnder ==
    ASSUME ForeignKeysInv, DatabaseOK, NEW p \in Rows, ~Live(p),
           NEW x \in Rows, NEW q, NEW at, Inserted(x, q, at), q # p
    PROVE  Contiguous(Children(p), position)'
<1>1. \A y \in Rows : parent[y] # p
  BY NothingUnder DEF Children
<1>2. Children(p)' = {}
  BY <1>1 DEF Inserted, DatabaseOK, Children
<1> QED
  BY <1>2 DEF Contiguous

\* What there is on a request's board after its commit.
LEMMA ContiguousAtHome ==
    ASSUME OverlapInv, NEW r \in Requests, Step(r), Changes, r \notin overtaken,
           home[r] \notin raced, call[r].op # "create_board",
           NEW p \in Holders, Live(p)', BoardOf(p)' = home[r]
    PROVE  Contiguous(Children(p), position)'
<1>1. pc[r] = "commit" /\ Effect(r) /\ ForeignKeysInv' /\ Settled
  BY ChangeHasEffect
<1>2. /\ Working(r) /\ DatabaseOK /\ ForeignKeysInv /\ p \in Rows /\ home[r] \in Boards
      /\ call[r].row \in Rows /\ call[r].row \in Loaded(r) /\ call[r] \in Calls
  BY <1>1, WorkingToCommit, Disjoint DEF Holders
<1>3. ASSUME NEW q \in Holders, Live(q), BoardOf(q) = home[r]
      PROVE  Contiguous(Children(q), position)
  BY <1>3 DEF OverlapInv, ContiguousUnlessRaced
<1>4. ASSUME Live(p), Stays(p) \/ \E s : Becomes(p, s)
      PROVE  Contiguous(Children(p), position)'
  <2>1. CASE Stays(p)
    <3>1. BoardOf(p) = home[r]
      BY <1>1, <1>2, <1>4 DEF Settled, Live
    <3>2. Contiguous(Children(p), position)
      BY <1>3, <1>4, <3>1
    <3>3. Contiguous(Children(p), position')
      BY <2>1, <3>2, SamePositions DEF Stays
    <3> QED
      BY <2>1, <3>3 DEF Stays
  <2>2. CASE \E s : Becomes(p, s)
    BY <2>2, NumberedContiguous DEF Becomes
  <2> QED
    BY <1>4, <2>1, <2>2
<1>5. ASSUME ~Live(p), parent' = parent \/ Deleted(call[r].row, Nothing)
                       \/ Deleted(call[r].row, remove_from(siblings[r], call[r].row, seenPosition[r]))
                       \/ Refiled(call[r].row, call[r].into, MovedAcross(r))
      PROVE  FALSE
  <2>1. parent[p] = Unborn
    BY <1>1, <1>2, <1>5 DEF Settled, Live
  <2>2. parent'[p] # Unborn
    BY DEF Live
  <2>3. p # call[r].row
    BY <1>1, <1>2, <2>1, WorkingToCommit
  <2> QED
    BY <1>2, <1>5, <2>1, <2>2, <2>3 DEF Deleted, Refiled, Doomed, Live
<1>6. ASSUME NEW x \in Items, Inserted(x, call[r].row, Len(siblings[r])),
             call[r].op \in {"create_column", "create_card"},
             call[r].op = IF x \in Columns THEN "create_column" ELSE "create_card"
      PROVE  Contiguous(Children(p), position)'
  <2>1. PICK q : q = call[r].row
    OBVIOUS
  <2>2. q \in Holders /\ Live(q) /\ BoardOf(q) = home[r] /\ x \in Rows
    BY <1>1, <1>6, <2>1, InsertedAtHome, Disjoint
  <2>3. Contiguous(Children(q), position)
    BY <1>3, <2>2
  <2>4. CASE Live(p)
    BY <1>1, <1>2, <1>4, <1>6, <2>1, <2>2, <2>3, <2>4, InsertedList
  <2>5. CASE ~Live(p)
    <3>1. p # q
      BY <2>2, <2>5
    <3> QED
      BY <1>2, <1>6, <2>1, <2>2, <2>5, <3>1, InsertedUnder
  <2> QED
    BY <2>4, <2>5
<1>7. CASE call[r].op = "create_column" /\ \E c \in Columns : Inserted(c, call[r].row, Len(siblings[r]))
  BY <1>6, <1>7, Disjoint
<1>8. CASE call[r].op = "create_card" /\ \E k \in Cards : Inserted(k, call[r].row, Len(siblings[r]))
  BY <1>6, <1>8, Disjoint
<1>9. CASE /\ call[r].op \in {"move_column", "move_card"} /\ ~MovesAcross(r) /\ parent' = parent
           /\ Renumber({}, insert_at(siblings[r], call[r].row, call[r].index, seenPosition[r]))
  BY <1>1, <1>2, <1>4, <1>5, <1>9, ReorderedList
<1>10. CASE /\ call[r].op = "move_card" /\ MovesAcross(r)
            /\ Refiled(call[r].row, call[r].into, MovedAcross(r))
  BY <1>1, <1>2, <1>4, <1>5, <1>10, ListsMovedAcross
<1>11. CASE /\ call[r].op \in {"delete_column", "delete_card"}
            /\ Deleted(call[r].row, remove_from(siblings[r], call[r].row, seenPosition[r]))
  BY <1>1, <1>2, <1>4, <1>5, <1>11, ClosedList
<1>12. CASE call[r].op = "delete_board" /\ Deleted(call[r].row, Nothing)
  <2>1. PICK b : b = home[r]
    OBVIOUS
  <2>2. call[r].row \in Boards
    BY <1>2, <1>12, CallKinds DEF OnBoards
  <2>3. call[r].row = b
    BY <1>1, <1>12, <2>1, <2>2, WorkingToCommit DEF AtHome
  <2>4. Live(b)' /\ b \in Rows
    BY <1>1, <1>2, <2>1, Disjoint DEF ForeignKeysInv, BoardOf, Holders
  <2>5. parent'[b] # Gone /\ Live(b)
    BY <1>1, <1>2, <2>1, <2>3, <2>4, WorkingToCommit DEF Live, Settled
  <2> QED
    BY <1>12, <2>3, <2>4, <2>5 DEF Deleted, Doomed
<1> QED
  BY <1>1, <1>7, <1>8, <1>9, <1>10, <1>11, <1>12 DEF Effect

LEMMA KeepsContiguous ==
    ASSUME OverlapInv, NEW r \in Requests, Step(r), Record(r)
    PROVE  ContiguousUnlessRaced'
<1> SUFFICES ASSUME NEW p \in Holders, Live(p)', BoardOf(p)' \notin raced'
             PROVE  Contiguous(Children(p), position)'
  BY DEF ContiguousUnlessRaced
<1>1. PICK b : b = BoardOf(p)'
  OBVIOUS
<1>2. /\ DatabaseOK /\ ForeignKeysInv /\ DatabaseOK' /\ ForeignKeysInv' /\ Settled
      /\ p \in Rows /\ b \notin raced
  BY <1>1, TypeParts, StepSettles, Disjoint DEF OverlapInv, IInv, Holders, Record
<1>3. ASSUME Live(p)
      PROVE  /\ BoardOf(p) = b /\ b \in Boards /\ parent[b] # Unborn
             /\ Contiguous(Children(p), position)
  <2>1. BoardOf(p) = b
    BY <1>1, <1>2, <1>3 DEF Settled, Live
  <2>2. b \in Boards /\ parent[b] # Unborn
    BY <1>2, <1>3, <2>1, Disjoint DEF Holders, ForeignKeysInv, BoardOf, Live
  <2> QED
    BY <1>2, <1>3, <2>1, <2>2 DEF OverlapInv, ContiguousUnlessRaced
<1>4. ASSUME Live(p), Children(p)' = Children(p), \A y \in Children(p) : position'[y] = position[y]
      PROVE  Contiguous(Children(p), position)'
  <2>1. Contiguous(Children(p), position')
    BY <1>3, <1>4, SamePositions
  <2> QED
    BY <1>4, <2>1
<1>5. CASE ~Changes
  BY <1>4, <1>5 DEF Changes, Children, Live
<1>6. CASE Changes /\ b # home[r]
  <2>1. pc[r] = "commit" /\ Effect(r)
    BY <1>6, ChangeHasEffect
  <2>2. CASE Live(p)
    <3>1. /\ Children(p)' = Children(p)
          /\ \A y \in Children(p) : position'[y] = position[y]
      BY <1>3, <1>6, <2>2, ListsElsewhere
    <3> QED
      BY <1>4, <2>2, <3>1
  <2>3. CASE ~Live(p)
    <3>1. parent'[p] # parent[p]
      BY <2>3 DEF Live
    <3>2. p \in Boards
      BY <1>1, <1>2, <1>6, <2>1, <2>3, <3>1, WrittenAtHome
    <3>3. p = b
      BY <1>1, <3>2 DEF BoardOf
    <3>4. ASSUME NEW x \in Rows, parent'[x] = p
          PROVE  FALSE
      <4>1. parent'[x] # parent[x]
        BY <1>2, <2>3, <3>4, NothingUnder DEF Children
      <4>2. x \in Columns /\ Live(x)' /\ BoardOf(x)' = b
        BY <1>2, <3>2, <3>3, <3>4, Disjoint DEF ForeignKeysInv, Live, BoardOf
      <4>3. CASE ~Live(x)
        BY <1>2, <1>6, <2>1, <4>1, <4>2, <4>3, WrittenAtHome, Disjoint
      <4>4. CASE Live(x)
        <5>1. BoardOf(x) = home[r]
          BY <1>2, <2>1, <4>1, <4>4, WrittenAtHome
        <5>2. BoardOf(x)' = BoardOf(x)
          BY <1>2, <4>2, <4>4 DEF Settled, Live
        <5> QED
          BY <1>6, <4>2, <5>1, <5>2
      <4> QED
        BY <4>3, <4>4
    <3> QED
      BY <3>4 DEF Children, Contiguous
  <2> QED
    BY <2>2, <2>3
<1>7. CASE Changes /\ call[r].op = "create_board"
  <2>1. pc[r] = "commit" /\ Effect(r)
    BY <1>7, ChangeHasEffect
  <2>2. PICK x, u : x \in Boards /\ u = call[r].user /\ Inserted(x, u, 0)
    BY <1>7, <2>1 DEF Effect
  <2>3. u \in Users /\ x \in Rows /\ u \notin Rows
    BY <2>1, <2>2, AboutToCommit, Disjoint DEF OverlapInv
  <2>4. CASE Live(p)
    <3>1. \A y \in Rows : parent'[y] = p <=> parent[y] = p
      BY <1>2, <2>2, <2>3, Disjoint DEF Inserted, DatabaseOK
    <3>2. \A y \in Children(p) : y \in Rows /\ y # x
      BY <1>2, <2>2, Disjoint DEF Inserted, Children
    <3>3. Children(p)' = Children(p) /\ \A y \in Children(p) : position'[y] = position[y]
      BY <1>2, <2>2, <3>1, <3>2 DEF Inserted, Children, DatabaseOK
    <3> QED
      BY <1>4, <2>4, <3>3
  <2>5. CASE ~Live(p)
    BY <1>2, <2>2, <2>3, <2>5, InsertedUnder
  <2> QED
    BY <2>4, <2>5
<1>8. CASE Changes /\ b = home[r] /\ call[r].op # "create_board"
  <2>1. r \notin overtaken /\ home[r] \notin raced
    BY <1>1, <1>2, <1>8 DEF Record
  <2> QED
    BY <1>1, <1>8, <2>1, ContiguousAtHome
<1> QED
  BY <1>5, <1>6, <1>7, <1>8

LEMMA HistoryTypes ==
    ASSUME OverlapInv, NEW r \in Requests, Step(r), Record(r)
    PROVE  /\ home' \in [Requests -> Boards \cup {None}]
           /\ overtaken' \subseteq Requests /\ raced' \subseteq Boards \cup {None}
<1>1. /\ home \in [Requests -> Boards \cup {None}]
      /\ overtaken \subseteq Requests /\ raced \subseteq Boards \cup {None}
  BY DEF OverlapInv
<1>2. home'[r] \in Boards \cup {None}
  <2>1. CASE pc[r] # "lookup" \/ pc'[r] \notin Waiting
    BY <1>1, <2>1 DEF Record
  <2>2. CASE pc[r] = "lookup" /\ pc'[r] \in Waiting
    <3>1. ~Abort(r)
      BY <2>2 DEF Abort, Answer, Waiting, OverlapInv, IInv, TypeOK
    <3>2. GetOwnedBoard(r) \/ GetOwnedColumn(r) \/ GetOwnedCard(r)
      <4>1. ~Write(r)
        BY <2>2, WriteWrites DEF OverlapInv
      <4> QED
        BY <2>2, <3>1, <4>1 DEF Step, Read, Arrive, Refresh, GetSourceColumn, GetTargetColumn,
                                ListSiblings, ListTargetSiblings, ListContents, Show
    <3> QED
      BY <2>2, <3>2, LookupKnows DEF HomeInv
  <2> QED
    BY <2>1, <2>2
<1>3. home' \in [Requests -> Boards \cup {None}]
  BY <1>1, <1>2 DEF Record
<1> QED
  BY <1>1, <1>3 DEF Record, InFlight

-----------------------------------------------------------------------------
(* The invariant.                                                          *)

LEMMA OverlapInitially ==
    ASSUME OverlapInit
    PROVE  OverlapInv
<1>1. Init /\ home = [r \in Requests |-> None] /\ overtaken = {} /\ raced = {}
  BY DEF OverlapInit
<1>2. IInv
  BY <1>1, InitInv
<1>3. \A r \in Requests : ~Working(r)
  BY <1>1 DEF Init, Working, Waiting
<1>4. ContiguousUnlessRaced
  <2>1. PICK layout \in Layouts : parent = layout.parent /\ position = layout.position
    BY <1>1 DEF Init
  <2>2. WellFormed(layout)
    BY LayoutsAssumption
  <2>3. \A p \in Holders : Contiguous(Children(p), position)
    BY <2>1, <2>2 DEF WellFormed, Children
  <2> QED
    BY <2>3 DEF ContiguousUnlessRaced
<1> QED
  BY <1>1, <1>2, <1>3, <1>4 DEF OverlapInv, HomeInv, CurrentInv

LEMMA OverlapStep ==
    ASSUME OverlapInv, [OverlapNext]_<<vars, history>>
    PROVE  OverlapInv'
<1>1. CASE UNCHANGED <<vars, history>>
  <2>1. /\ parent' = parent /\ position' = position /\ call' = call /\ pc' = pc
        /\ seenParent' = seenParent /\ seenPosition' = seenPosition
        /\ siblings' = siblings /\ targets' = targets
        /\ home' = home /\ overtaken' = overtaken /\ raced' = raced
    BY <1>1 DEF vars, history
  <2>2. IInv'
    BY <1>1, NextInv DEF OverlapInv, vars
  <2>3. ContiguousUnlessRaced'
    BY <2>1 DEF OverlapInv, ContiguousUnlessRaced, Live, BoardOf, Children
  <2>4. ASSUME NEW q \in Requests
        PROVE  HomeInv(q)' /\ CurrentInv(q)'
    <3>1. HomeInv(q) /\ CurrentInv(q)
      BY DEF OverlapInv
    <3>2. HomeInv(q)'
      BY <2>1, <3>1 DEF HomeInv, Working, Loaded, AtHome, Live, BoardOf
    <3>3. CurrentInv(q)'
      BY <2>1, <3>1 DEF CurrentInv, Working, Loaded, Live, Listings, Orderings, Children,
                        ListedParent, MovesAcross
    <3> QED
      BY <3>2, <3>3
  <2> QED
    BY <2>1, <2>2, <2>3, <2>4 DEF OverlapInv
<1>2. CASE OverlapNext
  <2>1. PICK r \in Requests : Step(r) /\ Record(r)
    BY <1>2 DEF OverlapNext
  <2>2. IInv'
    BY <2>1, NextInv DEF OverlapInv, Next
  <2>3. ContiguousUnlessRaced'
    BY <2>1, KeepsContiguous
  <2>4. /\ home' \in [Requests -> Boards \cup {None}]
        /\ overtaken' \subseteq Requests /\ raced' \subseteq Boards \cup {None}
    BY <2>1, HistoryTypes
  <2>5. \A q \in Requests : HomeInv(q)' /\ CurrentInv(q)'
    BY <2>1, OwnKnows, OthersKnow
  <2> QED
    BY <2>2, <2>3, <2>4, <2>5 DEF OverlapInv
<1> QED
  BY <1>1, <1>2

\* However many requests run at once: each writes on its own board, and what a request
\* that has not been overtaken has read is still so when it commits.
THEOREM OverlapInvariance == OverlapSpec => []OverlapInv
<1>1. OverlapInit => OverlapInv
  BY OverlapInitially
<1>2. OverlapInv /\ [OverlapNext]_<<vars, history>> => OverlapInv'
  BY OverlapStep
<1> QED
  BY <1>1, <1>2, PTL DEF OverlapSpec

\* ordering.py:3-4: the positions on a board are 0..n-1 until a request commits there
\* after another one's commit has made what it read out of date.
THEOREM ContiguityUnlessRaced == OverlapSpec => []ContiguousUnlessRaced
<1>1. OverlapInv => ContiguousUnlessRaced
  BY DEF OverlapInv
<1> QED
  BY <1>1, OverlapInvariance, PTL

-----------------------------------------------------------------------------
(* Where a move ends.                                                      *)

LEMMA LandsWithin ==
    ASSUME OverlapInv, NEW r \in Requests, pc[r] = "commit", r \notin overtaken,
           call[r].op \in {"move_column", "move_card"}, ~MovesAcross(r), parent' = parent,
           Renumber({}, insert_at(siblings[r], call[r].row, call[r].index, seenPosition[r])),
           NEW row, row = call[r].row, NEW list, list = {x \in Rows : parent'[x] = parent'[row]}
    PROVE  /\ position'[row] = Clamp(call[r].index, Cardinality(list) - 1)
           /\ call[r].op = "move_card" => parent'[row] = call[r].into
<1>1. PICK q, moved : /\ q = ListedParent(r)
                      /\ moved = insert_at(siblings[r], row, call[r].index, seenPosition[r])
  OBVIOUS
<1>2. call[r].op \in Listing /\ call[r].op \notin {"create_column", "create_card"}
  BY DEF Listing
<1>3. /\ DatabaseOK /\ row \in Rows /\ Live(row) /\ call[r].index \in Int /\ q = parent[row]
      /\ siblings[r] \in Seq(Rows) /\ IsInjective(siblings[r]) /\ Range(siblings[r]) = Children(q)
      /\ Len(siblings[r]) = Cardinality(Children(q))
      /\ seenPosition[r][row] = position[row] /\ row \in Loaded(r)
  BY <1>1, <1>2, UpToDate
<1>4. list = Children(q) /\ row \in Children(q)
  BY <1>3 DEF Children
<1>5. Assigned(Rows, seenPosition[r], moved)[row] = Clamp(call[r].index, Len(without(siblings[r], row)))
  BY <1>1, <1>3, InsertAtLands
<1>6. Len(without(siblings[r], row)) = Cardinality(list) - 1
  <2>1. Len(without(siblings[r], row)) = Len(siblings[r]) - 1
    BY <1>3, <1>4, WithoutLength
  <2> QED
    BY <1>3, <1>4, <2>1
<1>7. position'[row] = Assigned(Rows, seenPosition[r], moved)[row]
  BY <1>1, <1>3 DEF Renumber, Assigned, Live
<1>8. ASSUME call[r].op = "move_card"
      PROVE  parent'[row] = call[r].into
  <2>1. Working(r)
    BY <1>8, WorkingToCommit
  <2>2. seenParent[r][row] = parent[row]
    BY <1>3, <2>1 DEF OverlapInv, CurrentInv
  <2> QED
    BY <1>8, <2>2 DEF MovesAcross
<1> QED
  BY <1>5, <1>6, <1>7, <1>8

LEMMA LandsAcross ==
    ASSUME OverlapInv, NEW r \in Requests, pc[r] = "commit", r \notin overtaken,
           call[r].op = "move_card", MovesAcross(r),
           Refiled(call[r].row, call[r].into, MovedAcross(r)),
           NEW row, row = call[r].row, NEW list, list = {x \in Rows : parent'[x] = parent'[row]}
    PROVE  /\ position'[row] = Clamp(call[r].index, Cardinality(list) - 1)
           /\ parent'[row] = call[r].into
<1>1. PICK q, into, index, closed : /\ q = ListedParent(r) /\ into = call[r].into
                                    /\ index = call[r].index
                                    /\ closed = Assigned(Rows, seenPosition[r],
                                          remove_from(siblings[r], row, seenPosition[r]))
  OBVIOUS
<1>2. /\ row \in Rows /\ index \in Int /\ q = parent[row] /\ into # q
      /\ targets[r] \in Seq(Rows) /\ IsInjective(targets[r]) /\ Range(targets[r]) = Children(into)
      /\ IsFiniteSet(Children(into)) /\ Len(targets[r]) = Cardinality(Children(into))
      /\ parent' = [x \in Rows |-> IF x = row THEN into ELSE parent[x]]
      /\ position'[row] = Opened(r)[row]
  BY <1>1, AcrossWrites
<1>3. row \notin Children(into) /\ list = Children(into) \cup {row} /\ parent'[row] = into
  BY <1>2 DEF Children
<1>4. Opened(r) = Assigned(Rows, closed, insert_at(targets[r], row, index, closed))
  BY <1>1 DEF Opened
<1>5. Opened(r)[row] = Clamp(index, Len(without(targets[r], row)))
  BY <1>2, <1>4, InsertAtLands
<1>6. Len(without(targets[r], row)) = Len(targets[r])
  BY <1>2, <1>3, WithoutLength
<1>7. Cardinality(list) - 1 = Len(targets[r])
  <2>1. Cardinality(list) = Cardinality(Children(into)) + 1
    BY <1>2, <1>3, FS_AddElement
  <2>2. Cardinality(Children(into)) \in Nat
    BY <1>2, FS_CardinalityType
  <2> QED
    BY <1>2, <2>1, <2>2
<1> QED
  BY <1>1, <1>2, <1>3, <1>5, <1>6, <1>7

LEMMA Lands ==
    ASSUME OverlapInv, [OverlapNext]_<<vars, history>>, NEW r \in InFlight, r \notin overtaken,
           call[r].op \in {"move_column", "move_card"}, pc[r] = "commit", pc'[r] = "refresh",
           NEW row, row = call[r].row, NEW list, list = {x \in Rows : parent'[x] = parent'[row]}
    PROVE  /\ position'[row] = Clamp(call[r].index, Cardinality(list) - 1)
           /\ call[r].op = "move_card" => parent'[row] = call[r].into
<1>1. PICK q \in Requests : Step(q)
  BY DEF OverlapNext, vars
<1>2. IInv /\ r \in Requests
  BY DEF OverlapInv, InFlight
<1>3. q = r
  BY <1>1, <1>2, StepEffect DEF OthersSame, Same
<1>4. Write(r)
  <2>1. ~Abort(r)
    BY <1>2 DEF Abort, Answer, IInv, TypeOK
  <2> QED
    BY <1>1, <1>3, <2>1 DEF Step, Read, Arrive, Refresh, GetOwnedBoard, GetOwnedColumn,
       GetOwnedCard, GetSourceColumn, GetTargetColumn, ListSiblings, ListTargetSiblings,
       ListContents, Show
<1>5. ~Answer(r, "500")
  BY <1>2 DEF Answer, IInv, TypeOK
<1>6. Effect(r)
  BY <1>2, <1>4, <1>5, CommitEffect
<1>7. \/ /\ ~MovesAcross(r) /\ parent' = parent
         /\ Renumber({}, insert_at(siblings[r], call[r].row, call[r].index, seenPosition[r]))
      \/ /\ call[r].op = "move_card" /\ MovesAcross(r)
         /\ Refiled(call[r].row, call[r].into, MovedAcross(r))
  BY <1>6 DEF Effect
<1> QED
  BY <1>2, <1>7, LandsWithin, LandsAcross

\* columns.py:65-74, cards.py:83-119: a column or card whose move has not been overtaken is
\* at the index asked for when the move is committed, or at the end of a shorter list, and
\* a card in the column asked for.
THEOREM MovesLand == OverlapSpec => LandsWhereAsked
<1>1. ASSUME OverlapInv, [OverlapNext]_<<vars, history>>
      PROVE  \A r \in InFlight :
                /\ raced' = {} /\ r \notin overtaken
                /\ call[r].op \in {"move_column", "move_card"} /\ pc[r] = "commit" /\ pc'[r] = "refresh"
                => LET row  == call[r].row
                       list == {x \in Rows : parent'[x] = parent'[row]}
                   IN  /\ position'[row] = Clamp(call[r].index, Cardinality(list) - 1)
                       /\ call[r].op = "move_card" => parent'[row] = call[r].into
  <2> TAKE r \in InFlight
  <2> HAVE /\ raced' = {} /\ r \notin overtaken
           /\ call[r].op \in {"move_column", "move_card"} /\ pc[r] = "commit" /\ pc'[r] = "refresh"
  <2>1. PICK row : row = call[r].row
    OBVIOUS
  <2>2. PICK list : list = {x \in Rows : parent'[x] = parent'[row]}
    OBVIOUS
  <2>3. /\ position'[row] = Clamp(call[r].index, Cardinality(list) - 1)
        /\ call[r].op = "move_card" => parent'[row] = call[r].into
    BY <1>1, <2>1, <2>2, Lands
  <2> QED
    BY <2>1, <2>2, <2>3
<1> QED
  BY <1>1, OverlapInvariance, PTL DEF OverlapSpec, LandsWhereAsked

-----------------------------------------------------------------------------
(* The lists that the rows stand for.                                      *)

LEMMA FiniteChildren ==
    ASSUME NEW p
    PROVE  IsFiniteSet(Children(p)) /\ IsFiniteSet(Children(p)')
<1>1. Children(p) \in SUBSET Rows /\ Children(p)' \in SUBSET Rows
  BY DEF Children
<1> QED
  BY <1>1, FinitenessAssumption, FS_Subset

\* On a board that is not raced positions 0..n-1 stand for one list.
LEMMA Represented ==
    ASSUME OverlapInv, raced = {}, NEW p \in Holders
    PROVE  /\ DatabaseOK /\ ForeignKeysInv /\ p \in Rows
           /\ Contiguous(Children(p), position)
           /\ NumberedBy(InOrder[p], Children(p), position)
<1>1. DatabaseOK /\ ForeignKeysInv /\ p \in Rows
  BY TypeParts, Disjoint DEF OverlapInv, IInv, Holders
<1>2. Contiguous(Children(p), position)
  <2>1. CASE Live(p)
    BY <2>1 DEF OverlapInv, ContiguousUnlessRaced
  <2>2. CASE ~Live(p)
    <3>1. Children(p) = {}
      BY <1>1, <2>2, NothingUnder
    <3> QED
      BY <3>1 DEF Contiguous
  <2> QED
    BY <2>1, <2>2
<1>3. PICK rows : rows = Children(p)
  OBVIOUS
<1>4. IsFiniteSet(rows) /\ \A x \in rows : position[x] \in Nat
  BY <1>1, <1>3, FiniteChildren DEF Children, DatabaseOK
<1>5. NumberedBy(InOrderOf(rows, position), rows, position)
  BY <1>2, <1>3, <1>4, InOrderNumbers
<1>6. InOrder[p] = InOrderOf(rows, position)
  BY <1>3 DEF InOrder
<1> QED
  BY <1>1, <1>2, <1>3, <1>5, <1>6

\* What the lists are after a step.
LEMMA ListBecomes ==
    ASSUME NEW p \in Holders, NEW s, Becomes(p, s)
    PROVE  InOrder'[p] = s
<1>1. PICK rows : rows = Children(p)'
  OBVIOUS
<1>2. IsFiniteSet(rows) /\ NumberedBy(s, rows, position')
  BY <1>1, FiniteChildren DEF Becomes
<1>3. InOrderOf(rows, position') = s
  BY <1>2, InOrderIs
<1> QED
  BY <1>1, <1>3 DEF InOrder

LEMMA ListStays ==
    ASSUME OverlapInv, raced = {}, NEW p \in Holders, Stays(p)
    PROVE  InOrder'[p] = InOrder[p]
<1>1. NumberedBy(InOrder[p], Children(p), position)
  BY Represented
<1>2. NumberedBy(InOrder[p], Children(p), position')
  BY <1>1, NumberedSame DEF Stays
<1>3. PICK s : s = InOrder[p]
  OBVIOUS
<1>4. Becomes(p, s)
  BY <1>2, <1>3 DEF Becomes, Stays
<1> QED
  BY <1>3, <1>4, ListBecomes

\* A request that has not been overtaken has read the lists as they are.
LEMMA ReadAsItIs ==
    ASSUME OverlapInv, raced = {}, NEW p \in Holders, NEW s \in Listings(p)
    PROVE  /\ InOrder[p] = s
           /\ s \in Seq(Rows) /\ IsInjective(s) /\ Range(s) = Children(p)
<1>1. DatabaseOK /\ Contiguous(Children(p), position)
  BY Represented
<1>2. PICK rows : rows = Children(p)
  OBVIOUS
<1>3. IsFiniteSet(rows) /\ NumberedBy(s, rows, position)
  BY <1>1, <1>2, ListingNumbered, FiniteChildren
<1>4. InOrderOf(rows, position) = s
  BY <1>3, InOrderIs
<1> QED
  BY <1>2, <1>4, ListingFacts DEF InOrder

\* The abstract lists and the foreign keys.
LEMMA OnList ==
    ASSUME OverlapInv, raced = {}, NEW p \in Holders, NEW x
    PROVE  Lists!On(x, p) <=> x \in Children(p)
<1>1. PICK s : s = InOrder[p]
  OBVIOUS
<1>2. Range(s) = Children(p)
  BY <1>1, Represented DEF NumberedBy
<1> QED
  BY <1>1, <1>2 DEF Lists!On, Lists!SE!ToSet, Range

-----------------------------------------------------------------------------
(* Each write is a step of the lists.                                      *)

LEMMA BoardAdded ==
    ASSUME OverlapInv, raced = {}, NEW b \in Boards, NEW u \in Users, Inserted(b, u, 0)
    PROVE  Lists!AddBoard(b, u)
<1>1. DatabaseOK /\ b \in Rows /\ b \notin Items
  BY TypeParts, Disjoint DEF OverlapInv, IInv
<1>2. /\ parent[b] = Unborn /\ parent' = [parent EXCEPT ![b] = u]
      /\ position' = [position EXCEPT ![b] = 0]
  BY DEF Inserted
<1>3. Owners[b] = Unborn /\ Owners' = [Owners EXCEPT ![b] = u]
  BY <1>1, <1>2, Disjoint DEF Owners, DatabaseOK
<1>4. Made' = Made
  BY <1>1, <1>2, Disjoint DEF Made, DatabaseOK
<1>5. ASSUME NEW p \in Holders
      PROVE  Stays(p)
  <2>1. p \in Rows /\ p # Unborn /\ p # u
    BY Disjoint DEF Holders
  <2> QED
    BY <1>1, <1>2, <2>1 DEF Stays, Children, DatabaseOK
<1>6. \A p \in Holders : InOrder'[p] = InOrder[p]
  BY <1>5, ListStays
<1>7. InOrder' = InOrder
  BY <1>6 DEF InOrder
<1> QED
  BY <1>3, <1>4, <1>7 DEF Lists!AddBoard

LEMMA ItemAdded ==
    ASSUME OverlapInv, raced = {}, NEW r \in Requests, pc[r] = "commit", r \notin overtaken,
           ForeignKeysInv', Settled,
           NEW x \in Items, Inserted(x, call[r].row, Len(siblings[r])),
           call[r].op = IF x \in Columns THEN "create_column" ELSE "create_card"
    PROVE  Lists!Next
<1>1. PICK q : q = call[r].row
  OBVIOUS
<1>2. /\ q \in Holders /\ Live(q) /\ parent'[x] = q /\ x \in Rows
      /\ \A y \in Rows \ {x} : parent'[y] = parent[y]
  BY <1>1, InsertedAtHome, Disjoint
<1>3. DatabaseOK /\ ForeignKeysInv /\ q \in Rows /\ Contiguous(Children(q), position)
  BY <1>2, Represented
<1>4. Becomes(q, Append(siblings[r], x)) /\ \A p \in Rows : p # q => Stays(p)
  BY <1>1, <1>2, <1>3, InsertedList
<1>5. siblings[r] \in Listings(q)
  <2>1. call[r].op \in Listing
    BY DEF Listing
  <2>2. Working(r) /\ pc[r] \in {"listTarget", "commit"}
    BY <2>1, WorkingToCommit DEF Listing
  <2>3. ListedParent(r) = q
    BY <1>1 DEF ListedParent
  <2> QED
    BY <2>1, <2>2, <2>3 DEF OverlapInv, CurrentInv
<1>6. InOrder[q] = siblings[r]
  BY <1>2, <1>5, ReadAsItIs
<1>7. InOrder' = [InOrder EXCEPT ![q] = Append(@, x)]
  <2>1. InOrder'[q] = Append(InOrder[q], x)
    BY <1>2, <1>4, <1>6, ListBecomes
  <2>2. \A p \in Holders \ {q} : InOrder'[p] = InOrder[p]
    BY <1>4, ListStays, Represented
  <2> QED
    BY <1>2, <2>1, <2>2 DEF InOrder
<1>8. parent[x] = Unborn /\ parent'[x] # Unborn
  BY <1>2, <1>3, Disjoint DEF Inserted
<1>9. x \notin Made /\ Made' = Made \cup {x}
  BY <1>2, <1>8, Disjoint DEF Made
<1>10. Owners' = Owners
  BY <1>2, Disjoint DEF Owners
<1>11. Lists!Add(x, q)
  BY <1>7, <1>9, <1>10 DEF Lists!Add
<1>12. CASE x \in Columns
  <2>1. q \in Boards
    BY <1>12, <1>2, <1>3, Disjoint DEF ForeignKeysInv, Live
  <2>2. Lists!BoardThere(q)
    BY <1>2, <1>3, <2>1 DEF Lists!BoardThere, Owners, ForeignKeysInv
  <2> QED
    BY <1>11, <1>12, <2>1, <2>2 DEF Lists!Next, Lists!AddColumn
<1>13. CASE x \in Cards
  <2>1. q \in Columns
    BY <1>13, <1>2, <1>3, Disjoint DEF ForeignKeysInv, Live
  <2>2. parent[q] \in Boards
    BY <1>2, <1>3, <2>1 DEF ForeignKeysInv
  <2>3. PICK b \in Boards : b = parent[q]
    BY <2>2
  <2>4. q \in Children(b) /\ b \in Holders
    BY <1>3, <2>3 DEF Children, Holders
  <2>5. Lists!ColumnThere(q)
    BY <2>4, OnList DEF Lists!ColumnThere
  <2> QED
    BY <1>11, <1>13, <2>1, <2>5 DEF Lists!Next, Lists!AddCard
<1> QED
  BY <1>12, <1>13, Disjoint

\* ordering.py takes a row out of one list and puts it into another, or into the same.
LEMMA ItemMoved ==
    ASSUME NEW q \in Holders, NEW p \in Holders, NEW x \in Rows, NEW index \in Int,
           NEW L, L = InOrder, L[q] \in Seq(Rows), x \in Range(L[q]),
           NEW M, M = [L EXCEPT ![q] = without(@, x)],
           M[p] \in Seq(Rows), x \notin Range(M[p]),
           InOrder' = [M EXCEPT ![p] = Placed(@, x, index)], Owners' = Owners, Made' = Made
    PROVE  Lists!Move(x, q, p)
<1>1. PICK list, i : list = L[q] /\ i = Place(list, x) + 1
  OBVIOUS
<1>2. list \in Seq(Rows) /\ x \in Range(list)
  BY <1>1
<1>3. i \in DOMAIN list /\ list[i] = x /\ CutAt(list, i) = without(list, x)
  BY <1>1, <1>2, CutIsWithout
<1>4. Lists!Without(q, i) = M
  <2>1. Lists!SE!RemoveAt(list, i) = CutAt(list, i)
    BY DEF Lists!SE!RemoveAt, CutAt
  <2> QED
    BY <1>1, <1>3, <2>1 DEF Lists!Without
<1>5. PICK s, rest, at : s = M[p] /\ rest = without(s, x) /\ at = Clamp(index, Len(rest)) + 1
  OBVIOUS
<1>6. s \in Seq(Rows) /\ rest = s
  BY <1>5 DEF without
<1>7. at \in 1 .. Len(rest) + 1 /\ Spliced(rest, at, x) = Placed(s, x, index)
  BY <1>5, <1>6, SpliceIsPlaced
<1>8. InOrder' = [Lists!Without(q, i) EXCEPT ![p] = Lists!SE!InsertAt(@, at, x)]
  <2>1. Lists!SE!InsertAt(s, at, x) = Spliced(s, at, x)
    BY DEF Lists!SE!InsertAt, Spliced
  <2> QED
    BY <1>4, <1>5, <1>6, <1>7, <2>1
<1>9. at \in 1 .. Len(Lists!Without(q, i)[p]) + 1
  BY <1>4, <1>5, <1>6, <1>7
<1>10. i \in DOMAIN InOrder[q] /\ InOrder[q][i] = x
  BY <1>1, <1>3
<1> QED
  BY <1>8, <1>9, <1>10 DEF Lists!Move

LEMMA ItemReordered ==
    ASSUME OverlapInv, raced = {}, NEW r \in Requests, pc[r] = "commit", r \notin overtaken,
           call[r].op \in {"move_column", "move_card"}, ~MovesAcross(r), parent' = parent,
           Renumber({}, insert_at(siblings[r], call[r].row, call[r].index, seenPosition[r]))
    PROVE  Lists!Next
<1>1. PICK q, row, index : q = ListedParent(r) /\ row = call[r].row /\ index = call[r].index
  OBVIOUS
<1>2. call[r].op \in Listing /\ call[r].op \notin {"create_column", "create_card", "create_board"}
  BY DEF Listing
<1>3. /\ DatabaseOK /\ ForeignKeysInv /\ row \in Rows /\ Live(row) /\ index \in Int
      /\ q \in Holders /\ Live(q) /\ q = parent[row]
  BY <1>1, <1>2, UpToDate
<1>4. siblings[r] \in Listings(q)
  <2>1. Working(r) /\ pc[r] \in {"listTarget", "commit"}
    BY <1>2, WorkingToCommit
  <2> QED
    BY <1>1, <1>2, <2>1 DEF OverlapInv, CurrentInv
<1>5. PICK s : s = siblings[r]
  OBVIOUS
<1>6. /\ InOrder[q] = s /\ s \in Seq(Rows) /\ IsInjective(s) /\ Range(s) = Children(q)
      /\ row \in Range(s)
  <2>1. row \in Children(q)
    BY <1>3 DEF Children
  <2> QED
    BY <1>3, <1>4, <1>5, <2>1, ReadAsItIs
<1>7. Becomes(q, Placed(s, row, index)) /\ \A p \in Rows : p # q => Stays(p)
  BY <1>1, <1>5, ReorderedList
<1>8. PICK L, M : L = InOrder /\ M = [L EXCEPT ![q] = without(@, row)]
  OBVIOUS
<1>9. L = [h \in Holders |-> L[h]]
  BY <1>8 DEF InOrder
<1>10. M[q] = without(s, row) /\ M[q] \in Seq(Rows) /\ row \notin Range(M[q])
       /\ Placed(M[q], row, index) = Placed(s, row, index)
  BY <1>3, <1>6, <1>8, <1>9, WithoutProperties, PlacedAgain
<1>11. InOrder' = [M EXCEPT ![q] = Placed(@, row, index)]
  <2>1. InOrder'[q] = Placed(s, row, index)
    BY <1>3, <1>7, ListBecomes
  <2>2. \A p \in Holders \ {q} : InOrder'[p] = L[p]
    BY <1>7, <1>8, ListStays, Represented
  <2>3. InOrder' = [h \in Holders |-> InOrder'[h]]
    BY DEF InOrder
  <2>4. M = [h \in Holders |-> IF h = q THEN without(s, row) ELSE L[h]]
    BY <1>6, <1>8, <1>9
  <2> QED
    BY <1>10, <2>1, <2>2, <2>3, <2>4
<1>12. Owners' = Owners /\ Made' = Made
  BY DEF Owners, Made
<1>13. L[q] \in Seq(Rows) /\ row \in Range(L[q])
  BY <1>6, <1>8
<1>14. Lists!Move(row, q, q)
  BY <1>3, <1>8, <1>10, <1>11, <1>12, <1>13, ItemMoved
<1>15. CASE row \in Columns
  <2>1. q \in Boards
    BY <1>3, <1>15 DEF ForeignKeysInv
  <2> QED
    BY <1>14, <1>15, <2>1 DEF Lists!Next, Lists!MoveColumn
<1>16. CASE row \in Cards
  <2>1. q \in Columns /\ parent[q] \in Boards
    BY <1>3, <1>16 DEF ForeignKeysInv
  <2>2. PICK b \in Boards : b = parent[q]
    BY <2>1
  <2>3. q \in Children(b) /\ b \in Holders
    BY <1>3, <2>1, <2>2, Disjoint DEF Children, Holders
  <2>4. Lists!On(q, b)
    BY <2>3, OnList
  <2>5. Lists!MoveCard(row, q, q)
    BY <1>14, <2>4 DEF Lists!MoveCard
  <2> QED
    BY <1>16, <2>1, <2>5 DEF Lists!Next
<1>17. row \notin Boards
  <2>1. call[r] \in Calls
    BY <1>2, WorkingToCommit
  <2>2. call[r].op \in OnColumns \cup OnCards
    BY DEF OnColumns, OnCards
  <2> QED
    BY <1>1, <2>1, <2>2, CallKinds, Disjoint
<1> QED
  BY <1>3, <1>15, <1>16, <1>17, Disjoint

LEMMA ItemRefiled ==
    ASSUME OverlapInv, raced = {}, NEW r \in Requests, pc[r] = "commit", r \notin overtaken,
           call[r].op = "move_card", MovesAcross(r),
           Refiled(call[r].row, call[r].into, MovedAcross(r))
    PROVE  Lists!Next
<1>1. PICK q, row, into, index : /\ q = ListedParent(r) /\ row = call[r].row
                                 /\ into = call[r].into /\ index = call[r].index
  OBVIOUS
<1>2. call[r].op \in Listing \ {"create_column", "create_card"}
  BY DEF Listing
<1>3. /\ row \in Rows /\ index \in Int /\ q = parent[row] /\ into # q
      /\ parent' = [x \in Rows |-> IF x = row THEN into ELSE parent[x]]
  BY <1>1, AcrossWrites
<1>4. /\ Working(r) /\ DatabaseOK /\ ForeignKeysInv /\ row \in Cards
  <2>1. Working(r) /\ DatabaseOK /\ ForeignKeysInv /\ call[r] \in Calls
    BY WorkingToCommit
  <2> QED
    BY <1>1, <2>1, CallKinds DEF OnCards
<1>5. /\ q \in Holders /\ Live(q) /\ BoardOf(q) = home[r] /\ Live(row)
      /\ into \in Columns /\ Live(into) /\ BoardOf(into) = home[r]
  BY <1>1, <1>2, <1>4, ListsAtHome
<1>6. /\ q \in Columns /\ into \in Holders
      /\ parent[q] = home[r] /\ parent[into] = home[r] /\ home[r] \in Boards
  <2>1. q \in Columns
    BY <1>3, <1>4, <1>5 DEF ForeignKeysInv
  <2> QED
    BY <1>4, <1>5, <2>1, Disjoint DEF ForeignKeysInv, BoardOf, Holders
<1>7. PICK s, t : s = siblings[r] /\ t = targets[r]
  OBVIOUS
<1>8. s \in Listings(q) /\ t \in Listings(into)
  BY <1>1, <1>2, <1>4, <1>7 DEF OverlapInv, CurrentInv
<1>9. /\ InOrder[q] = s /\ s \in Seq(Rows) /\ IsInjective(s) /\ Range(s) = Children(q)
      /\ InOrder[into] = t /\ t \in Seq(Rows) /\ Range(t) = Children(into)
      /\ row \in Range(s) /\ row \notin Range(t)
  <2>1. row \in Children(q) /\ row \notin Children(into)
    BY <1>3 DEF Children
  <2> QED
    BY <1>5, <1>6, <1>8, <2>1, ReadAsItIs
<1>10. /\ Becomes(q, without(s, row)) /\ Becomes(into, Placed(t, row, index))
       /\ \A p \in Rows : p # q /\ p # into => Stays(p)
  BY <1>1, <1>7, ListsMovedAcross
<1>11. PICK L, M : L = InOrder /\ M = [L EXCEPT ![q] = without(@, row)]
  OBVIOUS
<1>12. L = [h \in Holders |-> L[h]]
  BY <1>11 DEF InOrder
<1>13. M = [h \in Holders |-> IF h = q THEN without(s, row) ELSE L[h]] /\ M[into] = t
  BY <1>3, <1>6, <1>9, <1>11, <1>12
<1>14. InOrder' = [M EXCEPT ![into] = Placed(@, row, index)]
  <2>1. InOrder'[q] = without(s, row) /\ InOrder'[into] = Placed(t, row, index)
    BY <1>5, <1>6, <1>10, ListBecomes
  <2>2. \A p \in Holders \ {q, into} : InOrder'[p] = L[p]
    BY <1>10, <1>11, ListStays, Represented
  <2>3. InOrder' = [h \in Holders |-> InOrder'[h]]
    BY DEF InOrder
  <2> QED
    BY <1>3, <1>13, <2>1, <2>2, <2>3
<1>15. Owners' = Owners /\ Made' = Made
  BY <1>3, <1>4, <1>5, <1>6, Disjoint DEF Owners, Made, Live
<1>16. Lists!Move(row, q, into)
  <2>1. L[q] \in Seq(Rows) /\ row \in Range(L[q]) /\ M[into] \in Seq(Rows) /\ row \notin Range(M[into])
    BY <1>9, <1>11, <1>13
  <2> QED
    BY <1>3, <1>5, <1>6, <1>11, <1>14, <1>15, <2>1, ItemMoved
<1>17. PICK b \in Boards : b = home[r]
  BY <1>6
<1>18. q \in Children(b) /\ into \in Children(b) /\ b \in Holders
  BY <1>6, <1>17, Disjoint DEF Children, Holders
<1>19. Lists!On(q, b) /\ Lists!On(into, b)
  BY <1>18, OnList
<1>20. Lists!MoveCard(row, q, into)
  BY <1>16, <1>19 DEF Lists!MoveCard
<1> QED
  BY <1>4, <1>5, <1>6, <1>20 DEF Lists!Next

\* A row that is deleted has no list.
LEMMA ListEmptied ==
    ASSUME DatabaseOK', ForeignKeysInv', NEW p \in Holders, ~Live(p)'
    PROVE  InOrder'[p] = <<>>
<1>1. p \in Rows /\ p \notin Users /\ p # Unborn /\ p # Gone
  BY Disjoint DEF Holders
<1>2. ASSUME NEW x \in Rows, parent'[x] = p
      PROVE  FALSE
  <2>1. Live(x)'
    BY <1>1, <1>2 DEF Live
  <2> QED
    BY <1>1, <1>2, <2>1, Disjoint DEF ForeignKeysInv
<1>3. PICK rows : rows = Children(p)'
  OBVIOUS
<1>4. rows = {}
  BY <1>2, <1>3 DEF Children
<1>5. NumberedBy(<<>>, rows, position')
  BY <1>4, EmptyNumbered
<1>6. Becomes(p, <<>>)
  BY <1>3, <1>5 DEF Becomes
<1> QED
  BY <1>6, ListBecomes

LEMMA BoardDropped ==
    ASSUME OverlapInv, raced = {}, NEW r \in Requests, pc[r] = "commit", r \notin overtaken,
           DatabaseOK', ForeignKeysInv',
           call[r].op = "delete_board", Deleted(call[r].row, Nothing)
    PROVE  Lists!Next
<1>1. PICK b, doomed : b = call[r].row /\ doomed = Doomed({b})
  OBVIOUS
<1>2. DatabaseOK /\ ForeignKeysInv /\ b \in Boards /\ Live(b) /\ b \in Rows
  <2>1. Working(r) /\ DatabaseOK /\ ForeignKeysInv /\ call[r] \in Calls
    BY WorkingToCommit
  <2> QED
    BY <1>1, <2>1, ListsAtHome, CallKinds, Disjoint DEF OnBoards
<1>3. /\ parent' = [x \in Rows |-> IF x \in doomed THEN Gone ELSE parent[x]]
      /\ \A x \in Rows : x \notin doomed => position'[x] = position[x]
  <2>1. DOMAIN Nothing = {}
    BY DEF Nothing
  <2> QED
    BY <1>1, <2>1 DEF Deleted, Renumber
<1>4. \A x \in Rows : x \in doomed <=>
         Live(x) /\ (x = b \/ parent[x] = b \/ (parent[x] \in Rows /\ parent[parent[x]] = b))
  BY <1>1 DEF Doomed
<1>5. Owners' = [Owners EXCEPT ![b] = Gone]
  <2>1. \A x \in Boards : x \in doomed <=> x = b
    BY <1>2, <1>4, Disjoint DEF ForeignKeysInv
  <2> QED
    BY <1>2, <1>3, <2>1, Disjoint DEF Owners
<1>6. Made' = Made
  BY <1>2, <1>3, <1>4, Disjoint DEF Made, Live
<1>7. ASSUME NEW p \in Holders, p = b \/ p \in Children(b)
      PROVE  InOrder'[p] = <<>>
  <2>1. p \in doomed /\ p \in Rows
    BY <1>2, <1>4, <1>7, Disjoint DEF Children, Live, Holders
  <2>2. ~Live(p)'
    BY <1>3, <2>1 DEF Live
  <2> QED
    BY <2>2, ListEmptied
<1>8. ASSUME NEW p \in Holders, p # b, p \notin Children(b)
      PROVE  InOrder'[p] = InOrder[p]
  <2>1. p \in Rows /\ p # Gone /\ p # Unborn /\ p \notin Users
    BY Disjoint DEF Holders
  <2>2. \A x \in Children(p) : x \in Rows /\ parent[x] = p /\ x \notin doomed
    BY <1>2, <1>4, <1>8, <2>1 DEF Children, ForeignKeysInv
  <2>3. Stays(p)
    BY <1>3, <2>1, <2>2 DEF Stays, Children
  <2> QED
    BY <2>3, ListStays
<1>9. \A p \in Holders : Lists!On(p, b) <=> p \in Children(b)
  <2>1. b \in Holders
    BY <1>2 DEF Holders
  <2> QED
    BY <2>1, OnList
<1>10. InOrder' = [p \in Holders |-> IF p = b \/ Lists!On(p, b) THEN <<>> ELSE InOrder[p]]
  <2>1. InOrder' = [p \in Holders |-> InOrder'[p]]
    BY DEF InOrder
  <2> QED
    BY <1>7, <1>8, <1>9, <2>1
<1>11. Lists!BoardThere(b)
  BY <1>2 DEF Lists!BoardThere, Owners, ForeignKeysInv
<1>12. Lists!DropBoard(b)
  BY <1>5, <1>6, <1>10, <1>11 DEF Lists!DropBoard, Lists!Holders, Holders
<1> QED
  BY <1>2, <1>12 DEF Lists!Next

LEMMA ItemDropped ==
    ASSUME OverlapInv, raced = {}, NEW r \in Requests, pc[r] = "commit", r \notin overtaken,
           DatabaseOK', ForeignKeysInv',
           call[r].op \in {"delete_column", "delete_card"},
           Deleted(call[r].row, remove_from(siblings[r], call[r].row, seenPosition[r]))
    PROVE  Lists!Next
<1>1. PICK q, row, doomed : q = ListedParent(r) /\ row = call[r].row /\ doomed = Doomed({row})
  OBVIOUS
<1>2. call[r].op \in Listing /\ call[r].op \notin {"create_column", "create_card", "create_board"}
  BY DEF Listing
<1>3. /\ DatabaseOK /\ ForeignKeysInv /\ row \in Rows /\ Live(row)
      /\ q \in Holders /\ q \in Rows /\ Live(q) /\ q = parent[row]
  BY <1>1, <1>2, UpToDate
<1>4. siblings[r] \in Listings(q) /\ row \in Items
  <2>1. Working(r) /\ pc[r] \in {"listTarget", "commit"} /\ call[r] \in Calls
    BY <1>2, WorkingToCommit
  <2>2. row \in Columns \cup Cards
    BY <1>1, <2>1, CallKinds DEF OnColumns, OnCards
  <2> QED
    BY <1>1, <1>2, <2>1, <2>2, Disjoint DEF OverlapInv, CurrentInv
<1>5. PICK s : s = siblings[r]
  OBVIOUS
<1>6. InOrder[q] = s /\ s \in Seq(Rows) /\ row \in Range(s)
  <2>1. row \in Children(q)
    BY <1>3 DEF Children
  <2> QED
    BY <1>3, <1>4, <1>5, <2>1, ReadAsItIs
<1>7. Becomes(q, without(s, row)) /\ \A p \in Rows : p # q /\ Live(p)' => Stays(p)
  BY <1>1, <1>5, ClosedList
<1>8. parent' = [x \in Rows |-> IF x \in doomed THEN Gone ELSE parent[x]]
  BY <1>1 DEF Deleted
<1>9. \A x \in Rows : x \in doomed <=>
         Live(x) /\ (x = row \/ parent[x] = row \/ (parent[x] \in Rows /\ parent[parent[x]] = row))
  BY <1>1 DEF Doomed
<1>10. row \in doomed /\ \A p \in Holders : p \in doomed => p = row
  BY <1>3, <1>4, <1>9, Disjoint DEF ForeignKeysInv, Holders
<1>11. Owners' = Owners
  BY <1>3, <1>4, <1>8, <1>10, Disjoint DEF Owners, Holders
<1>12. Made' = Made
  BY <1>3, <1>8, <1>9, Disjoint DEF Made, Live
<1>13. ASSUME NEW p \in Holders, p # q, p # row
       PROVE  InOrder'[p] = InOrder[p]
  <2>1. p \in Rows /\ p \notin doomed
    BY <1>10, <1>13, Disjoint DEF Holders
  <2>2. CASE Live(p)'
    BY <1>7, <1>13, <2>1, <2>2, ListStays
  <2>3. CASE ~Live(p)'
    <3>1. Children(p) = {}
      BY <1>3, <1>8, <2>1, <2>3, NothingUnder DEF Live
    <3>2. NumberedBy(InOrder[p], Children(p), position)
      BY Represented
    <3>3. InOrder[p] = <<>>
      BY <3>1, <3>2 DEF NumberedBy
    <3> QED
      BY <2>3, <3>3, ListEmptied
  <2> QED
    BY <2>2, <2>3
<1>14. PICK i : i = Place(s, row) + 1
  OBVIOUS
<1>15. i \in DOMAIN s /\ s[i] = row /\ CutAt(s, i) = without(s, row)
  BY <1>6, <1>14, CutIsWithout
<1>16. Lists!Without(q, i) = [InOrder EXCEPT ![q] = without(s, row)]
  <2>1. Lists!SE!RemoveAt(s, i) = CutAt(s, i)
    BY DEF Lists!SE!RemoveAt, CutAt
  <2> QED
    BY <1>6, <1>15, <2>1 DEF Lists!Without
<1>17. InOrder' = [p \in Holders |-> InOrder'[p]] /\ InOrder = [p \in Holders |-> InOrder[p]]
  BY DEF InOrder
<1>18. InOrder'[q] = without(s, row)
  BY <1>3, <1>7, ListBecomes
<1>19. CASE row \in Cards
  <2>1. q \in Columns
    BY <1>3, <1>19 DEF ForeignKeysInv
  <2>2. row \notin Holders
    BY <1>19, Disjoint DEF Holders
  <2>3. InOrder' = Lists!Without(q, i)
    BY <1>3, <1>13, <1>16, <1>17, <1>18, <2>2
  <2>4. Lists!DropCard(row, q)
    BY <1>6, <1>11, <1>12, <1>15, <2>3 DEF Lists!DropCard
  <2> QED
    BY <1>19, <2>1, <2>4 DEF Lists!Next
<1>20. CASE row \in Columns
  <2>1. q \in Boards /\ row \in Holders /\ q # row
    BY <1>3, <1>20, Disjoint DEF ForeignKeysInv, Holders
  <2>2. ~Live(row)'
    BY <1>3, <1>8, <1>10 DEF Live
  <2>3. InOrder'[row] = <<>>
    BY <2>1, <2>2, ListEmptied
  <2>4. InOrder' = [Lists!Without(q, i) EXCEPT ![row] = <<>>]
    BY <1>3, <1>13, <1>16, <1>17, <1>18, <2>1, <2>3
  <2>5. Lists!DropColumn(row, q)
    BY <1>6, <1>11, <1>12, <1>15, <2>4 DEF Lists!DropColumn
  <2> QED
    BY <1>20, <2>1, <2>5 DEF Lists!Next
<1> QED
  BY <1>4, <1>19, <1>20, Disjoint

\* A step of the services, until a board is raced, is a step of the lists or none.
LEMMA StepsTheLists ==
    ASSUME OverlapInv, NEW r \in Requests, Step(r), Record(r), raced' = {}
    PROVE  [Lists!Next]_(Lists!vars)
<1>1. CASE ~Changes
  <2>1. parent' = parent /\ position' = position
    BY <1>1 DEF Changes
  <2>2. Owners' = Owners /\ Made' = Made /\ InOrder' = InOrder
    BY <2>1 DEF Owners, Made, InOrder, Children
  <2> QED
    BY <2>2 DEF Lists!vars
<1>2. CASE Changes
  <2>1. raced = {} /\ r \notin overtaken
    BY <1>2 DEF Record
  <2>2. pc[r] = "commit" /\ Effect(r) /\ DatabaseOK' /\ ForeignKeysInv' /\ Settled
    BY <1>2, ChangeHasEffect
  <2>3. CASE call[r].op = "create_board" /\ \E b \in Boards : Inserted(b, call[r].user, 0)
    <3>1. PICK u \in Users : u = call[r].user
      BY <2>2, AboutToCommit DEF OverlapInv
    <3>2. PICK b \in Boards : Inserted(b, u, 0)
      BY <2>3, <3>1
    <3>3. Lists!AddBoard(b, u)
      BY <2>1, <3>2, BoardAdded
    <3> QED
      BY <3>3 DEF Lists!Next
  <2>4. CASE /\ call[r].op = "create_column"
             /\ \E c \in Columns : Inserted(c, call[r].row, Len(siblings[r]))
    BY <2>1, <2>2, <2>4, ItemAdded, Disjoint
  <2>5. CASE /\ call[r].op = "create_card"
             /\ \E k \in Cards : Inserted(k, call[r].row, Len(siblings[r]))
    BY <2>1, <2>2, <2>5, ItemAdded, Disjoint
  <2>6. CASE /\ call[r].op \in {"move_column", "move_card"} /\ ~MovesAcross(r) /\ parent' = parent
             /\ Renumber({}, insert_at(siblings[r], call[r].row, call[r].index, seenPosition[r]))
    BY <2>1, <2>2, <2>6, ItemReordered
  <2>7. CASE /\ call[r].op = "move_card" /\ MovesAcross(r)
             /\ Refiled(call[r].row, call[r].into, MovedAcross(r))
    BY <2>1, <2>2, <2>7, ItemRefiled
  <2>8. CASE call[r].op = "delete_board" /\ Deleted(call[r].row, Nothing)
    BY <2>1, <2>2, <2>8, BoardDropped
  <2>9. CASE /\ call[r].op \in {"delete_column", "delete_card"}
             /\ Deleted(call[r].row, remove_from(siblings[r], call[r].row, seenPosition[r]))
    BY <2>1, <2>2, <2>9, ItemDropped
  <2> QED
    BY <2>2, <2>3, <2>4, <2>5, <2>6, <2>7, <2>8, <2>9 DEF Effect
<1> QED
  BY <1>1, <1>2

\* The databases there are to start with stand for lists.
LEMMA ListsInitially ==
    ASSUME OverlapInv, raced = {}
    PROVE  Lists!Init
<1>1. DatabaseOK /\ ForeignKeysInv
  BY TypeParts DEF OverlapInv, IInv
<1>2. Owners \in [Boards -> Users \cup {Unborn, Gone}]
  BY <1>1, Disjoint DEF Owners, ForeignKeysInv, Live
<1>3. Made \in SUBSET Items /\ DOMAIN InOrder = Holders
  BY DEF Made, InOrder
<1>4. ASSUME NEW p \in Holders
      PROVE  /\ InOrder[p] \in Seq(Children(p)) /\ IsInjective(InOrder[p])
             /\ Range(InOrder[p]) = Children(p)
             /\ \A x \in Children(p) : x \in Rows /\ parent[x] = p /\ Live(x) /\ Live(p)
  <2>1. PICK s, rows : s = InOrder[p] /\ rows = Children(p)
    OBVIOUS
  <2>2. NumberedBy(s, rows, position) /\ p \in Rows
    BY <2>1, Represented
  <2>3. IsInjective(s)
    BY <2>2, NumberedOnce
  <2>4. \A x \in rows : x \in Rows /\ parent[x] = p /\ Live(x) /\ Live(p)
    BY <1>1, <2>1, <2>2, ChildrenOf DEF Children
  <2> QED
    BY <2>1, <2>2, <2>3, <2>4 DEF NumberedBy
<1>5. ASSUME NEW p \in Boards
      PROVE  InOrder[p] \in Seq(Columns) /\ (InOrder[p] # <<>> => Lists!BoardThere(p))
  <2>1. p \in Holders /\ p \in Rows
    BY Disjoint DEF Holders
  <2>2. PICK s, rows : s = InOrder[p] /\ rows = Children(p)
    OBVIOUS
  <2>3. s \in Seq(rows) /\ Range(s) = rows /\ \A x \in rows : x \in Columns /\ Live(p)
    BY <1>1, <1>4, <2>1, <2>2, ChildrenOf
  <2>4. s \in Seq(Columns)
    BY <2>3
  <2>5. s # <<>> => Live(p)
    BY <2>3 DEF Range
  <2> QED
    BY <1>1, <2>2, <2>4, <2>5 DEF Lists!BoardThere, Owners, ForeignKeysInv
<1>6. ASSUME NEW p \in Columns
      PROVE  InOrder[p] \in Seq(Cards) /\ (InOrder[p] # <<>> => Lists!ColumnThere(p))
  <2>1. p \in Holders /\ p \in Rows
    BY Disjoint DEF Holders
  <2>2. PICK s, rows : s = InOrder[p] /\ rows = Children(p)
    OBVIOUS
  <2>3. s \in Seq(rows) /\ Range(s) = rows /\ \A x \in rows : x \in Cards /\ Live(p)
    BY <1>1, <1>4, <2>1, <2>2, ChildrenOf
  <2>4. s \in Seq(Cards)
    BY <2>3
  <2>5. s # <<>> => Live(p)
    BY <2>3 DEF Range
  <2>6. ASSUME Live(p)
        PROVE  Lists!ColumnThere(p)
    <3>1. PICK b \in Boards : b = parent[p]
      BY <1>1, <2>6 DEF ForeignKeysInv
    <3>2. p \in Children(b) /\ b \in Holders
      BY <2>1, <3>1 DEF Children, Holders
    <3> QED
      BY <3>2, OnList DEF Lists!ColumnThere
  <2> QED
    BY <2>2, <2>4, <2>5, <2>6
<1>7. ASSUME NEW p \in Holders
      PROVE  Lists!SE!IsInjective(InOrder[p]) /\ Lists!SE!ToSet(InOrder[p]) \subseteq Made
  <2>1. Lists!SE!IsInjective(InOrder[p])
    BY <1>4 DEF Lists!SE!IsInjective, IsInjective
  <2>2. Lists!SE!ToSet(InOrder[p]) = Children(p)
    BY <1>4 DEF Lists!SE!ToSet, Range
  <2>3. \A x \in Children(p) : x \in Items /\ parent[x] # Unborn
    BY <1>1, <1>4, Disjoint DEF ForeignKeysInv, Live, Holders
  <2> QED
    BY <2>1, <2>2, <2>3 DEF Made
<1>8. ASSUME NEW p \in Holders, NEW q \in Holders, p # q
      PROVE  Lists!SE!ToSet(InOrder[p]) \cap Lists!SE!ToSet(InOrder[q]) = {}
  <2>1. Lists!SE!ToSet(InOrder[p]) = Children(p) /\ Lists!SE!ToSet(InOrder[q]) = Children(q)
    BY <1>4 DEF Lists!SE!ToSet, Range
  <2> QED
    BY <1>8, <2>1 DEF Children
<1> QED
  BY <1>2, <1>3, <1>5, <1>6, <1>7, <1>8 DEF Lists!Init, Lists!Items, Lists!Holders, Items, Holders

\* boards.py, columns.py, cards.py: until a request commits on a board where another's commit
\* has overtaken it, the services implement KanbanLists.  Each call that is answered well takes
\* effect at once, on the list as it is, and everything else keeps its order.
THEOREM Atomicity == OverlapSpec => AtomicUntilRaced
<1>1. OverlapInit => Lists!Init
  BY OverlapInitially, ListsInitially DEF OverlapInit
<1>2. ASSUME OverlapInv, [OverlapNext]_<<vars, history>>
      PROVE  raced' = {} => [Lists!Next]_(Lists!vars)
  <2> HAVE raced' = {}
  <2>1. CASE OverlapNext
    BY <1>2, <2>1, StepsTheLists DEF OverlapNext
  <2>2. CASE UNCHANGED <<vars, history>>
    <3>1. parent' = parent /\ position' = position
      BY <2>2 DEF vars
    <3>2. Owners' = Owners /\ Made' = Made /\ InOrder' = InOrder
      BY <3>1 DEF Owners, Made, InOrder, Children
    <3> QED
      BY <3>2 DEF Lists!vars
  <2> QED
    BY <1>2, <2>1, <2>2
<1> QED
  BY <1>1, <1>2, OverlapInvariance, PTL DEF OverlapSpec, AtomicUntilRaced
=============================================================================
