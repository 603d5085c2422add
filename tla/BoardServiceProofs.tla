------------------------- MODULE BoardServiceProofs -------------------------
(***************************************************************************)
(* Tenant isolation of BoardService, for any number of users, boards,      *)
(* columns, cards and requests in progress.                                *)
(*                                                                         *)
(* The argument: IInv says whose rows a session has loaded.  A transaction *)
(* built from them is proper whatever the other requests have committed    *)
(* since (Proper below): all it writes is its user's, and it moves cards   *)
(* within their board only.  A proper transaction that the foreign keys    *)
(* accept takes no row to another board (Settled), which keeps the         *)
(* invariant true of every session that is still in progress.              *)
(***************************************************************************)
EXTENDS BoardService, OrderingProofs, FiniteSetTheorems

LEMMA Disjoint ==
    /\ \A x \in Rows : x \notin Users /\ x \notin {Unborn, Gone, None}
    /\ \A p \in Parents : p \notin {Unborn, Gone, None}
    /\ Boards \cap Columns = {} /\ Boards \cap Cards = {} /\ Columns \cap Cards = {}
    /\ Boards \subseteq Rows /\ Columns \subseteq Rows /\ Cards \subseteq Rows
    /\ Rows = Boards \cup Columns \cup Cards /\ Items = Columns \cup Cards
    /\ Unborn # Gone /\ Unborn # None /\ Gone # None
  BY KeysAssumption DEF NoRow, Parents, Holders, Rows, Items

DatabaseOK == /\ parent \in [Rows -> Parents \cup {Unborn, Gone}]
              /\ position \in [Rows -> Nat]

\* A transaction of a request of user u: it inserts under a row that u owns, moves
\* cards of u's within their board, and renumbers and deletes rows of u's.  Rows that
\* have gone meanwhile do not count.
Proper(tx, u) ==
    /\ DOMAIN tx.parent \subseteq Rows
    /\ DOMAIN tx.position \subseteq Rows
    /\ tx.deleted \subseteq Rows
    /\ \A x \in DOMAIN tx.position :
          /\ tx.position[x] \in Nat
          /\ parent[x] = Unborn => x \in DOMAIN tx.parent
    /\ \A x \in DOMAIN tx.position \cup tx.deleted : Live(x) => Owner(x) = u
    /\ \A x \in tx.deleted : parent[x] # Unborn
    /\ \A x \in DOMAIN tx.parent :
          LET p == tx.parent[x]
          IN  /\ x \in Boards => p = u /\ parent[x] = Unborn
              /\ x \in Columns => p \in Boards /\ parent[x] = Unborn
              /\ x \in Cards => p \in Columns
              /\ x \in Items => parent[p] # Unborn /\ (Live(p) => Owner(p) = u)
              /\ Live(x) => Owner(x) = u /\ (Live(p) => parent[p] = BoardOf(x))

\* No row comes back, and no row changes board or owner.
Settled ==
    \A x \in Rows : parent[x] # Unborn =>
        /\ parent'[x] # Unborn
        /\ Live(x)' => /\ Live(x)
                       /\ BoardOf(x)' = BoardOf(x)
                       /\ Owner(x)' = Owner(x)
                       /\ x \in Columns => parent'[x] = parent[x]

-----------------------------------------------------------------------------
(* What a proper transaction does to the database.                         *)

\* The cascade takes a column with its board, a card with its column or board.
LEMMA DoomedRows ==
    ASSUME ForeignKeysInv, DatabaseOK, NEW deleted \in SUBSET Rows
    PROVE  /\ Doomed(deleted) \subseteq Rows
           /\ \A x \in Doomed(deleted) : Live(x)
           /\ \A b \in Boards : b \in Doomed(deleted) <=> Live(b) /\ b \in deleted
           /\ \A c \in Columns :
                 c \in Doomed(deleted) <=> Live(c) /\ (c \in deleted \/ parent[c] \in Doomed(deleted))
           /\ \A k \in Cards :
                 k \in Doomed(deleted) <=> Live(k) /\ (k \in deleted \/ parent[k] \in Doomed(deleted))
<1>1. \A b \in Boards : Live(b) => parent[b] \notin Rows
  BY Disjoint DEF ForeignKeysInv
<1>2. \A c \in Columns : Live(c) => /\ parent[c] \in Boards /\ Live(parent[c])
                                    /\ parent[parent[c]] \notin Rows
  BY <1>1 DEF ForeignKeysInv
<1>3. \A k \in Cards : Live(k) => parent[k] \in Columns /\ Live(parent[k])
  BY DEF ForeignKeysInv
<1>4. \A b \in Boards : b \in Doomed(deleted) <=> Live(b) /\ b \in deleted
  BY <1>1, Disjoint DEF Doomed
<1>5. \A c \in Columns : c \in Doomed(deleted) <=>
                            Live(c) /\ (c \in deleted \/ parent[c] \in Doomed(deleted))
  BY <1>2, <1>4, Disjoint DEF Doomed
<1>6. \A k \in Cards : k \in Doomed(deleted) <=>
                            Live(k) /\ (k \in deleted \/ parent[k] \in Doomed(deleted))
  BY <1>2, <1>3, <1>4, <1>5, Disjoint DEF Doomed
<1> QED
  BY <1>4, <1>5, <1>6 DEF Doomed

LEMMA ProperTransaction ==
    ASSUME ForeignKeysInv, DatabaseOK, NEW u \in Users, NEW tx, Proper(tx, u),
           ForeignKeysHold(tx), Apply(tx)
    PROVE  /\ DatabaseOK'
           /\ ForeignKeysInv'
           /\ Settled
<1> DEFINE doomed == Doomed(tx.deleted)
<1>d. /\ doomed \subseteq Rows /\ \A x \in doomed : Live(x)
      /\ \A b \in Boards : b \in doomed <=> Live(b) /\ b \in tx.deleted
      /\ \A c \in Columns : c \in doomed <=> Live(c) /\ (c \in tx.deleted \/ parent[c] \in doomed)
      /\ \A k \in Cards : k \in doomed <=> Live(k) /\ (k \in tx.deleted \/ parent[k] \in doomed)
  BY DoomedRows DEF Proper
<1> HIDE DEF doomed
<1>1. parent' = [x \in Rows |-> IF x \in doomed THEN Gone
                                ELSE IF x \in DOMAIN tx.parent /\ parent[x] # Gone
                                     THEN tx.parent[x] ELSE parent[x]]
  BY DEF Apply, ParentAfter, doomed
<1>2. position' = [x \in Rows |-> IF x \in doomed THEN 0
                                  ELSE IF x \in DOMAIN tx.position /\ parent[x] # Gone
                                       THEN tx.position[x] ELSE position[x]]
  BY DEF Apply, PositionAfter, doomed
<1>3. \A x \in DOMAIN tx.parent : /\ tx.parent[x] \in Parents
                                  /\ tx.parent[x] \in Rows => parent'[tx.parent[x]] \notin {Unborn, Gone}
  <2>1. ParentAfter(tx) = parent'
    BY DEF Apply
  <2> QED
    BY <2>1, Disjoint DEF ForeignKeysHold, Proper, Parents, Holders
<1>4. DatabaseOK'
  BY <1>1, <1>2, <1>3 DEF DatabaseOK, Proper
<1>5. \A b \in Boards : Live(b)' => parent'[b] \in Users
  BY <1>1, Disjoint DEF Live, ForeignKeysInv, Proper
<1>6. ASSUME NEW c \in Columns, Live(c)'
      PROVE  parent'[c] \in Boards /\ Live(parent[c])'
  <2>1. CASE c \in DOMAIN tx.parent /\ parent[c] # Gone
    BY <2>1, <1>6, <1>1, <1>3, Disjoint DEF Live, Proper
  <2>2. CASE ~(c \in DOMAIN tx.parent /\ parent[c] # Gone)
    <3>1. c \notin doomed /\ parent'[c] = parent[c] /\ Live(c)
      BY <2>2, <1>6, <1>1, Disjoint DEF Live
    <3>2. parent[c] \in Boards /\ Live(parent[c]) /\ parent[c] \notin doomed
      BY <3>1, <1>d DEF ForeignKeysInv
    <3>3. parent[c] \notin DOMAIN tx.parent
      BY <3>2 DEF Proper, Live
    <3> QED
      BY <3>1, <3>2, <3>3, <1>1, Disjoint DEF Live
  <2> QED
    BY <2>1, <2>2
<1>7. ASSUME NEW k \in Cards, Live(k)'
      PROVE  parent'[k] \in Columns /\ Live(parent[k])'
  <2>1. CASE k \in DOMAIN tx.parent /\ parent[k] # Gone
    BY <2>1, <1>7, <1>1, <1>3, Disjoint DEF Live, Proper
  <2>2. CASE ~(k \in DOMAIN tx.parent /\ parent[k] # Gone)
    <3>1. k \notin doomed /\ parent'[k] = parent[k] /\ Live(k)
      BY <2>2, <1>7, <1>1, Disjoint DEF Live
    <3>2. parent[k] \in Columns /\ Live(parent[k]) /\ parent[k] \notin doomed
      BY <3>1, <1>d DEF ForeignKeysInv
    <3>3. parent[k] \notin DOMAIN tx.parent
      BY <3>2, Disjoint DEF Proper, Live
    <3> QED
      BY <3>1, <3>2, <3>3, <1>1, Disjoint DEF Live
  <2> QED
    BY <2>1, <2>2
<1>8. ForeignKeysInv'
  BY <1>5, <1>6, <1>7 DEF ForeignKeysInv
<1>9. \A b \in Boards : parent[b] # Unborn =>
         parent'[b] # Unborn /\ (Live(b)' => Live(b) /\ parent'[b] = parent[b])
  BY <1>1, Disjoint DEF Live, Proper
<1>10. \A c \in Columns : parent[c] # Unborn =>
         parent'[c] # Unborn /\ (Live(c)' => Live(c) /\ parent'[c] = parent[c])
  BY <1>1, Disjoint DEF Live, Proper
<1>11. ASSUME NEW k \in Cards, parent[k] # Unborn
       PROVE  /\ parent'[k] # Unborn
              /\ Live(k)' => Live(k) /\ parent'[parent'[k]] = parent[parent[k]]
  <2>1. parent'[k] # Unborn /\ (Live(k)' => Live(k))
    BY <1>11, <1>1, <1>3, Disjoint DEF Live
  <2>2. ASSUME Live(k)'
        PROVE  parent'[parent'[k]] = parent[parent[k]]
    <3>1. parent'[k] \in Columns /\ Live(parent[k])' /\ Live(k)
      BY <1>7, <2>1, <2>2
    <3>2. CASE k \in DOMAIN tx.parent
      <4>1. parent'[k] = tx.parent[k]
        BY <3>1, <3>2, <1>1, <1>11, <2>2, Disjoint DEF Live
      <4>2. parent[tx.parent[k]] # Unborn
        BY <3>2, Disjoint DEF Proper
      <4>3. Live(tx.parent[k]) /\ parent'[tx.parent[k]] = parent[tx.parent[k]]
        BY <4>1, <4>2, <3>1, <1>10 DEF Live
      <4>4. parent[tx.parent[k]] = BoardOf(k)
        BY <4>3, <3>1, <3>2 DEF Proper
      <4> QED
        BY <4>1, <4>3, <4>4, Disjoint DEF BoardOf
    <3>3. CASE k \notin DOMAIN tx.parent
      <4>1. parent'[k] = parent[k]
        BY <3>1, <3>3, <1>1, <2>2, Disjoint DEF Live
      <4>2. parent[k] \in Columns /\ parent[parent[k]] # Unborn
        BY <3>1 DEF ForeignKeysInv, Live
      <4> QED
        BY <4>1, <4>2, <3>1, <1>10 DEF Live
    <3> QED
      BY <3>2, <3>3
  <2> QED
    BY <2>1, <2>2
<1>12. ASSUME NEW x \in Rows, parent[x] # Unborn, Live(x)'
       PROVE  /\ Live(x)
              /\ BoardOf(x)' = BoardOf(x)
              /\ Owner(x)' = Owner(x)
              /\ x \in Columns => parent'[x] = parent[x]
  <2>1. Live(x) /\ (x \in Columns => parent'[x] = parent[x])
    BY <1>9, <1>10, <1>11, <1>12, Disjoint
  <2>2. BoardOf(x)' = BoardOf(x)
    BY <1>9, <1>10, <1>11, <1>12, Disjoint DEF BoardOf
  <2>3. BoardOf(x) \in Boards /\ Live(BoardOf(x)) /\ Live(BoardOf(x))'
    <3>1. CASE x \in Boards
      BY <3>1, <2>1, <2>2, <1>12 DEF BoardOf
    <3>2. CASE x \in Columns
      BY <3>2, <2>1, <1>6, <1>12, Disjoint DEF BoardOf, ForeignKeysInv
    <3>3. CASE x \in Cards
      <4>1. parent'[x] \in Columns /\ Live(parent[x])'
        BY <3>3, <1>7, <1>12
      <4>2. parent'[parent'[x]] \in Boards /\ Live(parent[parent[x]])'
        BY <4>1, <1>6 DEF Live
      <4>3. parent[x] \in Columns /\ Live(parent[x])
        BY <3>3, <2>1 DEF ForeignKeysInv
      <4>4. parent[parent[x]] \in Boards /\ Live(parent[parent[x]])
        BY <4>3 DEF ForeignKeysInv
      <4>5. BoardOf(x) = parent[parent[x]] /\ BoardOf(x)' = parent'[parent'[x]]
        BY <3>3, Disjoint DEF BoardOf
      <4> QED
        BY <4>2, <4>4, <4>5, <2>2 DEF Live
    <3> QED
      BY <3>1, <3>2, <3>3, Disjoint
  <2>4. parent'[BoardOf(x)] = parent[BoardOf(x)]
    BY <2>2, <2>3, <1>9 DEF Live
  <2> QED
    BY <2>1, <2>2, <2>4 DEF Owner
<1>13. \A x \in Rows : parent[x] # Unborn => parent'[x] # Unborn
  BY <1>9, <1>10, <1>11, Disjoint
<1> QED
  BY <1>4, <1>8, <1>12, <1>13 DEF Settled

\* It writes no row that is another user's, before or after.
LEMMA ProperWrites ==
    ASSUME ForeignKeysInv, DatabaseOK, NEW u \in Users, NEW tx, Proper(tx, u),
           ForeignKeysHold(tx), Apply(tx),
           NEW x \in Rows, parent'[x] # parent[x] \/ position'[x] # position[x]
    PROVE  IF Live(x) THEN Owner(x) = u ELSE Owner(x)' = u
<1> DEFINE doomed == Doomed(tx.deleted)
<1>d. /\ \A y \in doomed : Live(y)
      /\ \A b \in Boards : b \in doomed <=> Live(b) /\ b \in tx.deleted
      /\ \A c \in Columns : c \in doomed <=> Live(c) /\ (c \in tx.deleted \/ parent[c] \in doomed)
      /\ \A k \in Cards : k \in doomed <=> Live(k) /\ (k \in tx.deleted \/ parent[k] \in doomed)
  BY DoomedRows DEF Proper
<1> HIDE DEF doomed
<1>1. /\ x \notin doomed => /\ parent'[x] = IF x \in DOMAIN tx.parent /\ parent[x] # Gone
                                            THEN tx.parent[x] ELSE parent[x]
                            /\ position'[x] = IF x \in DOMAIN tx.position /\ parent[x] # Gone
                                              THEN tx.position[x] ELSE position[x]
  BY DEF Apply, ParentAfter, PositionAfter, doomed
<1>2. DatabaseOK' /\ ForeignKeysInv' /\ Settled
  BY ProperTransaction
<1>3. CASE Live(x) /\ x \in doomed
  <2>1. \A b \in Boards : b \in doomed => Owner(b) = u
    BY <1>d DEF Proper
  <2>2. \A c \in Columns : c \in doomed => Owner(c) = u
    BY <1>d, <2>1, Disjoint DEF Proper, ForeignKeysInv, Owner, BoardOf
  <2>3. \A k \in Cards : k \in doomed => Owner(k) = u
    BY <1>d, <2>2, Disjoint DEF Proper, ForeignKeysInv, Owner, BoardOf
  <2> QED
    BY <1>3, <2>1, <2>2, <2>3, Disjoint
<1>4. CASE Live(x) /\ x \notin doomed
  BY <1>4, <1>1 DEF Proper
<1>5. CASE ~Live(x)
  <2>1. x \notin doomed /\ parent[x] = Unborn /\ x \in DOMAIN tx.parent
    BY <1>5, <1>1, <1>d DEF Live, Proper
  <2>2. parent'[x] = tx.parent[x]
    BY <2>1, <1>1, Disjoint
  <2>3. CASE x \in Boards
    BY <2>1, <2>2, <2>3 DEF Proper, Owner, BoardOf
  <2>4. CASE x \in Items
    <3> DEFINE p == tx.parent[x]
    <3>1. p \in Rows /\ parent[p] # Unborn /\ (Live(p) => Owner(p) = u)
      BY <2>1, <2>4, Disjoint DEF Proper
    <3>2. parent'[p] \notin {Unborn, Gone}
      BY <2>1, <3>1 DEF ForeignKeysHold, Apply
    <3>3. Live(p) /\ Owner(p)' = Owner(p)
      BY <1>2, <3>1, <3>2 DEF Settled, Live
    <3>4. Owner(x)' = Owner(p)'
      BY <2>1, <2>2, <2>4, Disjoint DEF Proper, Owner, BoardOf
    <3> QED
      BY <1>5, <3>1, <3>3, <3>4
  <2> QED
    BY <1>5, <2>3, <2>4 DEF Rows
<1> QED
  BY <1>3, <1>4, <1>5

\* What it removes is what it deletes and what hangs from that.
LEMMA ProperRemoves ==
    ASSUME ForeignKeysInv, DatabaseOK, NEW u \in Users, NEW tx, Proper(tx, u),
           Apply(tx), NEW x \in Rows, Live(x), ~Live(x)'
    PROVE  tx.deleted \cap {x, parent[x], BoardOf(x)} # {}
<1>1. x \in Doomed(tx.deleted)
  <2>1. ASSUME x \in DOMAIN tx.parent
        PROVE  tx.parent[x] \in Parents
    BY <2>1, Disjoint DEF Proper, Parents, Holders
  <2> QED
    BY <2>1, Disjoint DEF Apply, ParentAfter, Live
<1>2. CASE x \in Cards
  BY <1>1, <1>2, Disjoint DEF Doomed, BoardOf
<1>3. CASE x \notin Cards
  <2>1. parent[x] \in Rows => parent[parent[x]] \notin Rows
    BY <1>3, Disjoint DEF ForeignKeysInv
  <2> QED
    BY <1>1, <2>1 DEF Doomed, Proper
<1> QED
  BY <1>2, <1>3

-----------------------------------------------------------------------------
(* What a step does to the sessions.                                       *)

SessionsOK ==
    /\ call \in [Requests -> CallType \cup {None}]
    /\ pc \in [Requests -> {"new"} \cup Waiting \cup Answers]
    /\ seenParent \in [Requests -> [Rows -> Parents \cup {None}]]
    /\ seenPosition \in [Requests -> [Rows -> Nat]]
    /\ siblings \in [Requests -> Seq(Rows)]
    /\ targets \in [Requests -> Seq(Rows)]

LEMMA TypeParts == TypeOK <=> DatabaseOK /\ SessionsOK
  BY DEF TypeOK, DatabaseOK, SessionsOK

Session(r) == SessionInv(r) /\ ListsInv(r) /\ ProgressInv(r)

Same(q) == /\ call'[q] = call[q] /\ pc'[q] = pc[q]
           /\ seenParent'[q] = seenParent[q]
           /\ siblings'[q] = siblings[q] /\ targets'[q] = targets[q]

OthersSame(r) == \A q \in Requests \ {r} : Same(q)

\* A session that takes no step stays consistent with a settled database.
LEMMA OthersKeep ==
    ASSUME SessionsOK, NEW q \in Requests, Session(q), Same(q), Settled
    PROVE  Session(q)'
<1>1. Loaded(q)' = Loaded(q)
  BY DEF Loaded, Same
<1>2. ProgressInv(q)' /\ ListsInv(q)'
  BY <1>1 DEF Session, ProgressInv, ListsInv, Same
<1>3. ASSUME NEW x \in Loaded(q), NEW p, p = seenParent[q][x]
      PROVE  Remembers(q, x, p)'
  <2>1. x \in Rows /\ Remembers(q, x, p)
    BY <1>3 DEF Session, SessionInv, Loaded
  <2>2. /\ parent'[x] # Unborn
        /\ Live(x)' => /\ Live(x) /\ BoardOf(x)' = BoardOf(x) /\ Owner(x)' = Owner(x)
                       /\ x \in Columns => parent'[x] = parent[x]
    BY <2>1 DEF Settled, Remembers
  <2>3. x \in Items => /\ parent'[p] # Unborn
                       /\ Live(p)' => /\ Live(p) /\ Owner(p)' = Owner(p)
                                      /\ p \in Columns => parent'[p] = parent[p]
    BY <2>1, Disjoint DEF Settled, Remembers
  <2> QED
    BY <2>1, <2>2, <2>3, <1>1, Disjoint DEF Same, Remembers
<1>4. SessionInv(q)'
  BY <1>1, <1>3 DEF SessionInv, Same
<1> QED
  BY <1>2, <1>4 DEF Session

\* A session that has let go of what it read.
LEMMA Forgotten ==
    ASSUME SessionsOK, NEW r \in Requests, Forget(r)
    PROVE  /\ seenParent' \in [Requests -> [Rows -> Parents \cup {None}]]
           /\ seenPosition' \in [Requests -> [Rows -> Nat]]
           /\ siblings' \in [Requests -> Seq(Rows)]
           /\ targets' \in [Requests -> Seq(Rows)]
           /\ \A q \in Requests \ {r} : /\ seenParent'[q] = seenParent[q]
                                        /\ siblings'[q] = siblings[q]
                                        /\ targets'[q] = targets[q]
           /\ SessionInv(r)' /\ ListsInv(r)'
<1>1. NothingSeen \in [Rows -> Parents \cup {None}] /\ NoPositions \in [Rows -> Nat]
      /\ <<>> \in Seq(Rows)
  BY DEF NothingSeen, NoPositions
<1>2. /\ seenParent' \in [Requests -> [Rows -> Parents \cup {None}]]
      /\ seenPosition' \in [Requests -> [Rows -> Nat]]
      /\ siblings' \in [Requests -> Seq(Rows)]
      /\ targets' \in [Requests -> Seq(Rows)]
  BY <1>1 DEF Forget, SessionsOK
<1>3. seenParent'[r] = NothingSeen /\ siblings'[r] = <<>> /\ targets'[r] = <<>>
  BY DEF Forget, SessionsOK
<1>4. Loaded(r)' = {}
  BY <1>3 DEF Loaded, NothingSeen
<1>5. SessionInv(r)'
  BY <1>4 DEF SessionInv
<1>6. ListsInv(r)'
  <2>1. Range(<<>>) = {}
    BY DEF Range
  <2> QED
    BY <1>3, <2>1 DEF ListsInv
<1>7. \A q \in Requests \ {r} : /\ seenParent'[q] = seenParent[q]
                                /\ siblings'[q] = siblings[q]
                                /\ targets'[q] = targets[q]
  BY DEF Forget, SessionsOK
<1> QED
  BY <1>2, <1>5, <1>6, <1>7

LEMMA Answered ==
    ASSUME SessionsOK, NEW r \in Requests, NEW code \in Answers, Answer(r, code)
    PROVE  SessionsOK' /\ Session(r)' /\ OthersSame(r)
<1>1. call' = [call EXCEPT ![r] = None] /\ pc' = [pc EXCEPT ![r] = code] /\ Forget(r)
  BY DEF Answer
<1>2. SessionsOK' /\ OthersSame(r)
  BY <1>1, Forgotten DEF SessionsOK, OthersSame, Same
<1>3. pc'[r] \in Answers
  BY <1>1 DEF SessionsOK
<1>4. ProgressInv(r)'
  BY <1>3 DEF ProgressInv, Answers, Waiting
<1> QED
  BY <1>1, <1>2, <1>4, Forgotten DEF Session

LEMMA Committed ==
    ASSUME SessionsOK, NEW r \in Requests, NEW row \in Rows, call[r] \in CallType,
           Goto(r, "refresh"), call' = [call EXCEPT ![r].row = row], Forget(r)
    PROVE  SessionsOK' /\ Session(r)' /\ OthersSame(r)
<1>1. [call[r] EXCEPT !.row = row] \in CallType
  BY DEF CallType
<1>2. /\ call' \in [Requests -> CallType \cup {None}]
      /\ call'[r] = [call[r] EXCEPT !.row = row]
      /\ \A q \in Requests \ {r} : call'[q] = call[q]
  BY <1>1 DEF SessionsOK
<1>3. call'[r].row = row
  BY <1>2 DEF CallType
<1>4. /\ pc' \in [Requests -> {"new"} \cup Waiting \cup Answers] /\ pc'[r] = "refresh"
      /\ \A q \in Requests \ {r} : pc'[q] = pc[q]
  BY DEF SessionsOK, Goto, Waiting
<1>5. SessionsOK' /\ OthersSame(r)
  BY <1>2, <1>4, Forgotten DEF SessionsOK, OthersSame, Same
<1>6. ProgressInv(r)'
  BY <1>1, <1>2, <1>3, <1>4 DEF ProgressInv
<1> QED
  BY <1>5, <1>6, Forgotten DEF Session

-----------------------------------------------------------------------------
(* The calls.                                                              *)

OnBoards  == {"get_board", "list_columns", "rename_board", "delete_board", "create_column"}
OnColumns == {"list_cards", "rename_column", "move_column", "delete_column", "create_card"}
OnCards   == {"update_card", "move_card", "delete_card"}

LEMMA CallKinds ==
    ASSUME NEW c \in Calls
    PROVE  /\ c \in CallType
           /\ c.op \in OnBoards <=> c.row \in Boards
           /\ c.op \in OnColumns <=> c.row \in Columns
           /\ c.op \in OnCards <=> c.row \in Cards
           /\ c.op = "create_board" <=> c.row \notin Rows
           /\ c.op = "move_card" => c.into \in Columns
<1>1. /\ c.op \in OnBoards => c.row \in Boards
      /\ c.op \in OnColumns => c.row \in Columns
      /\ c.op \in OnCards => c.row \in Cards
      /\ c.op = "create_board" => c.row = None
      /\ c.op = "move_card" => c.into \in Columns
  BY DEF Calls, Form, OnBoards, OnColumns, OnCards
<1>2. c.op \in OnBoards \cup OnColumns \cup OnCards \cup {"create_board"}
  BY DEF Calls, Form, OnBoards, OnColumns, OnCards
<1>3. c \in CallType
  <2>1. \A op, rows, columns, indexes :
           op \in Operations /\ rows \subseteq Rows \cup {None}
           /\ columns \subseteq Columns \cup {None} /\ indexes \subseteq 0 .. MaxIndex
           => Form(op, rows, columns, indexes) \subseteq CallType
    BY DEF Form, CallType
  <2>2. {0} \subseteq 0 .. MaxIndex
    BY BoundsAssumption
  <2>3. \A op, rows, columns, indexes :
           op \in Operations /\ rows \in {{None}, Boards, Columns, Cards}
           /\ columns \in {{None}, Columns} /\ indexes \in {{0}, 0 .. MaxIndex}
           => Form(op, rows, columns, indexes) \subseteq CallType
    BY <2>1, <2>2, Disjoint
  <2>4. PICK op \in Operations, rows \in {{None}, Boards, Columns, Cards},
             columns \in {{None}, Columns}, indexes \in {{0}, 0 .. MaxIndex} :
                c \in Form(op, rows, columns, indexes)
    BY DEF Calls, Operations
  <2> QED
    BY <2>3, <2>4
<1> QED
  BY <1>1, <1>2, <1>3, Disjoint DEF OnBoards, OnColumns, OnCards

-----------------------------------------------------------------------------
(* The reads.                                                              *)

\* What a SELECT returns is its rows, each once.
LEMMA OrderingType ==
    ASSUME NEW rows \in SUBSET Rows, NEW s \in Orderings(rows)
    PROVE  s \in Seq(Rows) /\ Range(s) = rows /\ IsInjective(s)
<1>1. IsFiniteSet(rows)
  BY FinitenessAssumption, FS_Subset
<1>2. Cardinality(rows) \in Nat
  BY <1>1, FS_CardinalityType
<1>3. /\ s \in [1 .. Cardinality(rows) -> rows]
      /\ IsInjective(s)
      /\ \A x \in rows : \E i \in 1 .. Cardinality(rows) : s[i] = x
  BY DEF Orderings, Bijection, Injection, Surjection, IsInjective
<1>4. s \in Seq(Rows)
  BY <1>2, <1>3
<1> QED
  BY <1>3, <1>4 DEF Range

LEMMA ListingType ==
    ASSUME NEW p, NEW s \in Listings(p)
    PROVE  s \in Seq(Rows) /\ Range(s) = Children(p)
<1>1. PICK rows \in SUBSET Rows : rows = Children(p)
  BY DEF Children
<1> QED
  BY <1>1, OrderingType DEF Listings

\* The rows under a live row are of the kind that belongs there, on its board.
LEMMA ChildrenOf ==
    ASSUME ForeignKeysInv, DatabaseOK, NEW p \in Rows, NEW x \in Children(p)
    PROVE  /\ x \in Rows /\ Live(x) /\ Live(p)
           /\ p \in Boards => x \in Columns
           /\ p \in Columns => x \in Cards
           /\ BoardOf(x) = BoardOf(p) /\ Owner(x) = Owner(p)
<1>1. x \in Rows /\ parent[x] = p /\ Live(x)
  BY Disjoint DEF Children, Live
<1>2. CASE x \in Boards
  BY <1>1, <1>2, Disjoint DEF ForeignKeysInv
<1>3. CASE x \in Columns
  BY <1>1, <1>3, Disjoint DEF ForeignKeysInv, BoardOf, Owner
<1>4. CASE x \in Cards
  BY <1>1, <1>4, Disjoint DEF ForeignKeysInv, BoardOf, Owner
<1> QED
  BY <1>1, <1>2, <1>3, <1>4, Disjoint

\* Rows of the caller's own come back from a query: the session stays consistent.
LEMMA Loads ==
    ASSUME ForeignKeysInv, DatabaseOK, SessionsOK,
           NEW r \in Requests, Session(r), pc[r] \in Waiting \ {"refresh"},
           NEW rows \in SUBSET Rows,
           \A x \in rows : Live(x) /\ Owner(x) = call[r].user,
           Load(r, rows), UNCHANGED db, call'[r] = call[r],
           pc'[r] \in Waiting \ {"refresh"}
    PROVE  /\ seenParent' \in [Requests -> [Rows -> Parents \cup {None}]]
           /\ seenPosition' \in [Requests -> [Rows -> Nat]]
           /\ \A q \in Requests \ {r} : seenParent'[q] = seenParent[q]
           /\ Loaded(r)' = Loaded(r) \cup rows
           /\ \A x \in Loaded(r) : seenParent'[r][x] = seenParent[r][x]
           /\ \A x \in rows \ Loaded(r) : seenParent'[r][x] = parent[x]
           /\ SessionInv(r)'
<1>1. parent' = parent /\ position' = position
  BY DEF db
<1>2. \A x \in rows : parent[x] \in Parents
  BY Disjoint DEF DatabaseOK, Live
<1>3. /\ seenParent'[r] = [x \in Rows |-> IF x \in rows /\ seenParent[r][x] = None
                                          THEN parent[x] ELSE seenParent[r][x]]
      /\ seenPosition'[r] = [x \in Rows |-> IF x \in rows /\ seenParent[r][x] = None
                                            THEN position[x] ELSE seenPosition[r][x]]
      /\ \A q \in Requests \ {r} : /\ seenParent'[q] = seenParent[q]
                                   /\ seenPosition'[q] = seenPosition[q]
      /\ DOMAIN seenParent' = Requests /\ DOMAIN seenPosition' = Requests
      /\ seenParent' = [q \in Requests |-> seenParent'[q]]
      /\ seenPosition' = [q \in Requests |-> seenPosition'[q]]
  BY DEF Load, SessionsOK
<1>4. /\ seenParent' \in [Requests -> [Rows -> Parents \cup {None}]]
      /\ seenPosition' \in [Requests -> [Rows -> Nat]]
  <2>1. seenParent'[r] \in [Rows -> Parents \cup {None}]
    BY <1>2, <1>3 DEF SessionsOK
  <2>2. seenPosition'[r] \in [Rows -> Nat]
    BY <1>3 DEF SessionsOK, DatabaseOK
  <2> QED
    BY <2>1, <2>2, <1>3 DEF SessionsOK
<1>5. /\ Loaded(r)' = Loaded(r) \cup rows
      /\ \A x \in Loaded(r) : seenParent'[r][x] = seenParent[r][x]
      /\ \A x \in rows \ Loaded(r) : seenParent'[r][x] = parent[x]
  BY <1>2, <1>3, Disjoint DEF Loaded
<1>6. \A p \in Columns \cap Loaded(r)' : Live(p) => seenParent'[r][p] = parent[p]
  BY <1>5 DEF Session, SessionInv, Remembers
<1>7. ASSUME NEW x \in Loaded(r)', NEW p, p = seenParent'[r][x]
      PROVE  Remembers(r, x, p)'
  <2>1. x \in Rows
    BY <1>7 DEF Loaded
  <2>2. /\ parent[x] # Unborn
        /\ Live(x) => Owner(x) = call[r].user
        /\ x \in Columns => p \in Boards
        /\ x \in Cards => p \in Columns
        /\ x \in Items => parent[p] # Unborn /\ (Live(p) => Owner(p) = call[r].user)
        /\ x \in Columns /\ Live(x) => parent[x] = p
        /\ x \in Cards /\ Live(x) /\ Live(p) => parent[p] = BoardOf(x)
    <3>1. CASE x \in Loaded(r)
      BY <3>1, <1>5, <1>7 DEF Session, SessionInv, Remembers
    <3>2. CASE x \in rows \ Loaded(r)
      <4>1. p = parent[x] /\ Live(x) /\ Owner(x) = call[r].user
        BY <3>2, <1>5, <1>7
      <4>2. x \in Items => p \in Rows /\ x \in Children(p)
        BY <4>1, <2>1, Disjoint DEF ForeignKeysInv, Children
      <4>3. x \in Items => Live(p) /\ Owner(p) = Owner(x)
        BY <4>2, ChildrenOf
      <4> QED
        BY <4>1, <4>3, Disjoint DEF ForeignKeysInv, Live, BoardOf
    <3> QED
      BY <3>1, <3>2, <1>5, <1>7
  <2>3. ASSUME x \in Cards, Live(x), p \in Loaded(r)'
        PROVE  seenParent'[r][p] = BoardOf(x)
    <3>1. CASE Live(p)
      BY <3>1, <2>2, <2>3, <1>6
    <3>2. CASE ~Live(p)
      <4>1. p \in Loaded(r)
        BY <3>2, <2>3, <1>5
      <4>2. x \in Loaded(r)
        <5>1. CASE x \in rows \ Loaded(r)
          BY <5>1, <3>2, <1>5, <1>7, <2>3 DEF ForeignKeysInv
        <5> QED
          BY <5>1, <1>5, <1>7
      <4> QED
        BY <4>1, <4>2, <1>5, <1>7, <2>3 DEF Session, SessionInv, Remembers
    <3> QED
      BY <3>1, <3>2
  <2>4. /\ Live(x)' <=> Live(x)
        /\ Owner(x)' = Owner(x) /\ BoardOf(x)' = BoardOf(x)
        /\ Live(p)' <=> Live(p)
        /\ Owner(p)' = Owner(p)
    BY <1>1 DEF Live, Owner, BoardOf
  <2> QED
    BY <2>2, <2>3, <2>4, <1>1 DEF Remembers
<1>8. SessionInv(r)'
  BY <1>7 DEF SessionInv
<1> QED
  BY <1>3, <1>4, <1>5, <1>8

\* The ownership joins return live rows of the user.
LEMMA OwnedRows ==
    ASSUME ForeignKeysInv, NEW u \in Users
    PROVE  /\ \A x \in OwnedBoards(u) : x \in Boards /\ Live(x) /\ Owner(x) = u
           /\ \A x \in OwnedColumns(u) : x \in Columns /\ Live(x) /\ Owner(x) = u
           /\ \A x \in OwnedCards(u) : x \in Cards /\ Live(x) /\ Owner(x) = u
<1>1. \A x \in OwnedBoards(u) : x \in Boards /\ Live(x) /\ Owner(x) = u
  BY Disjoint DEF OwnedBoards, Live, Owner, BoardOf, Parents
<1>2. \A x \in OwnedColumns(u) : x \in Columns /\ Live(x) /\ Owner(x) = u
  BY <1>1, Disjoint DEF OwnedColumns, OwnedBoards, Live, Owner, BoardOf
<1>3. \A x \in OwnedCards(u) : x \in Cards /\ Live(x) /\ Owner(x) = u
  BY <1>2, Disjoint DEF OwnedCards, OwnedColumns, OwnedBoards, Live, Owner, BoardOf
<1> QED
  BY <1>1, <1>2, <1>3

\* A request that reads rows of the caller's own and goes on to its next await.
LEMMA LoadStep ==
    ASSUME IInv, NEW r \in Requests, pc[r] \in Waiting \ {"refresh"},
           NEW rows \in SUBSET Rows,
           \A x \in rows : Live(x) /\ Owner(x) = call[r].user,
           Load(r, rows), NEW next \in Waiting \ {"refresh"}, Goto(r, next),
           parent' = parent, position' = position, call' = call,
           siblings' \in [Requests -> Seq(Rows)], targets' \in [Requests -> Seq(Rows)],
           \A q \in Requests \ {r} : siblings'[q] = siblings[q] /\ targets'[q] = targets[q],
           Range(siblings'[r]) \cup Range(targets'[r]) \subseteq Loaded(r) \cup rows
    PROVE  /\ SessionsOK' /\ OthersSame(r) /\ SessionInv(r)' /\ ListsInv(r)'
           /\ pc'[r] = next /\ call'[r] = call[r]
           /\ Loaded(r)' = Loaded(r) \cup rows
           /\ \A x \in Loaded(r) : seenParent'[r][x] = seenParent[r][x]
           /\ \A x \in rows \ Loaded(r) : seenParent'[r][x] = parent[x]
<1>1. SessionsOK /\ DatabaseOK /\ ForeignKeysInv /\ Session(r)
  BY TypeParts DEF IInv, Session
<1>2. /\ pc' \in [Requests -> {"new"} \cup Waiting \cup Answers] /\ pc'[r] = next
      /\ \A q \in Requests \ {r} : pc'[q] = pc[q]
  BY <1>1 DEF SessionsOK, Goto
<1>3. UNCHANGED db /\ call' = call
  BY DEF db
<1>4. /\ seenParent' \in [Requests -> [Rows -> Parents \cup {None}]]
      /\ seenPosition' \in [Requests -> [Rows -> Nat]]
      /\ \A q \in Requests \ {r} : seenParent'[q] = seenParent[q]
      /\ Loaded(r)' = Loaded(r) \cup rows
      /\ \A x \in Loaded(r) : seenParent'[r][x] = seenParent[r][x]
      /\ \A x \in rows \ Loaded(r) : seenParent'[r][x] = parent[x]
      /\ SessionInv(r)'
  BY <1>1, <1>2, <1>3, Loads
<1>5. SessionsOK' /\ OthersSame(r)
  BY <1>1, <1>2, <1>3, <1>4 DEF SessionsOK, OthersSame, Same
<1>6. ListsInv(r)'
  BY <1>4 DEF ListsInv
<1> QED
  BY <1>2, <1>3, <1>4, <1>5, <1>6

Keeps(r) == SessionsOK' /\ Session(r)' /\ OthersSame(r) /\ UNCHANGED db

LEMMA Answers4xx ==
    ASSUME IInv, NEW r \in Requests, NEW code \in Answers, Answer(r, code), UNCHANGED db
    PROVE  Keeps(r)
  BY TypeParts, Answered DEF IInv, Keeps

\* What a request that is waiting asks for, and has loaded.
LEMMA InProgress ==
    ASSUME IInv, NEW r \in Requests, pc[r] \in Waiting \ {"refresh"}
    PROVE  /\ SessionsOK /\ DatabaseOK /\ ForeignKeysInv /\ Session(r)
           /\ call[r] \in Calls /\ call[r] \in CallType /\ call[r].user \in Users
           /\ Loaded(r) \subseteq Rows
           /\ Range(siblings[r]) \cup Range(targets[r]) \subseteq Loaded(r)
           /\ \A x \in Loaded(r) : Remembers(r, x, seenParent[r][x])
           /\ \A x \in Loaded(r) : seenParent[r][x] \in Parents
<1>1. SessionsOK /\ DatabaseOK /\ ForeignKeysInv /\ Session(r)
  BY TypeParts DEF IInv, Session
<1>2. call[r] \in Calls
  BY DEF IInv, ProgressInv
<1>3. call[r] \in CallType
  BY <1>2, CallKinds
<1>4. call[r].user \in Users
  BY <1>3 DEF CallType
<1>5. Loaded(r) \subseteq Rows /\ \A x \in Loaded(r) : seenParent[r][x] \in Parents
  BY <1>1 DEF Loaded, SessionsOK
<1>6. /\ Range(siblings[r]) \cup Range(targets[r]) \subseteq Loaded(r)
      /\ \A x \in Loaded(r) : Remembers(r, x, seenParent[r][x])
  BY <1>1 DEF Session, SessionInv, ListsInv
<1> QED
  BY <1>1, <1>2, <1>3, <1>4, <1>5, <1>6

LEMMA Fetched ==
    ASSUME IInv, NEW r \in Requests, pc[r] \in Waiting \ {"refresh"},
           NEW row \in Rows, Live(row), Owner(row) = call[r].user,
           Load(r, {row}), NEW next \in Waiting \ {"refresh"}, Goto(r, next),
           UNCHANGED <<parent, position, call, siblings, targets>>
    PROVE  /\ SessionsOK' /\ OthersSame(r) /\ SessionInv(r)' /\ ListsInv(r)'
           /\ pc'[r] = next /\ call'[r] = call[r]
           /\ Loaded(r)' = Loaded(r) \cup {row}
           /\ \A x \in Loaded(r) : seenParent'[r][x] = seenParent[r][x]
           /\ row \notin Loaded(r) => seenParent'[r][row] = parent[row]
<1>1. PICK rows \in SUBSET Rows : rows = {row}
  OBVIOUS
<1>2. /\ \A x \in rows : Live(x) /\ Owner(x) = call[r].user
      /\ Load(r, rows) /\ parent' = parent /\ position' = position /\ call' = call
  BY <1>1
<1>3. /\ siblings' \in [Requests -> Seq(Rows)] /\ targets' \in [Requests -> Seq(Rows)]
      /\ \A q \in Requests \ {r} : siblings'[q] = siblings[q] /\ targets'[q] = targets[q]
      /\ Range(siblings'[r]) \cup Range(targets'[r]) \subseteq Loaded(r) \cup rows
  BY InProgress DEF SessionsOK
<1>4. /\ SessionsOK' /\ OthersSame(r) /\ SessionInv(r)' /\ ListsInv(r)'
      /\ pc'[r] = next /\ call'[r] = call[r]
      /\ Loaded(r)' = Loaded(r) \cup rows
      /\ \A x \in Loaded(r) : seenParent'[r][x] = seenParent[r][x]
      /\ \A x \in rows \ Loaded(r) : seenParent'[r][x] = parent[x]
  BY <1>2, <1>3, LoadStep
<1> QED
  BY <1>1, <1>4

LEMMA GetOwnedBoardKeeps ==
    ASSUME IInv, NEW r \in Requests, GetOwnedBoard(r)
    PROVE  Keeps(r)
<1> DEFINE next == IF call[r].op \in {"rename_board", "delete_board"} THEN "commit" ELSE "list"
           row  == call[r].row
<1>1. pc[r] = "lookup" /\ row \in Boards /\ Fetch(r, row, OwnedBoards(call[r].user), next)
  BY DEF GetOwnedBoard
<1>2. pc[r] \in Waiting \ {"refresh"} /\ next \in Waiting \ {"refresh"}
  BY <1>1 DEF Waiting
<1>3. /\ call[r] \in Calls /\ call[r].op \in OnBoards /\ call[r].user \in Users
      /\ call[r] \in CallType /\ ForeignKeysInv
  BY <1>1, <1>2, InProgress, CallKinds
<1>4. CASE row \notin OwnedBoards(call[r].user)
  BY <1>1, <1>4, Answers4xx DEF Fetch, Answers
<1>5. CASE row \in OwnedBoards(call[r].user)
  <2>1. row \in Rows /\ Live(row) /\ Owner(row) = call[r].user
    BY <1>3, <1>5, OwnedRows, Disjoint
  <2>2. Load(r, {row}) /\ Goto(r, next) /\ UNCHANGED <<parent, position, call, siblings, targets>>
    BY <1>1, <1>5 DEF Fetch
  <2>3. /\ SessionsOK' /\ OthersSame(r) /\ SessionInv(r)' /\ ListsInv(r)'
        /\ pc'[r] = next /\ call'[r] = call[r] /\ Loaded(r)' = Loaded(r) \cup {row}
    BY <1>2, <2>1, <2>2, Fetched
  <2>4. Loaded(r) = {} /\ targets[r] = <<>>
    BY <1>1 DEF IInv, ProgressInv
  <2>5. Loaded(r)' = {row} /\ targets'[r] = <<>>
    BY <2>2, <2>3, <2>4
  <2>6. ProgressInv(r)'
    BY <1>3, <2>3, <2>5 DEF ProgressInv, OnBoards
  <2> QED
    BY <2>2, <2>3, <2>6 DEF Keeps, Session, db
<1> QED
  BY <1>4, <1>5

LEMMA GetOwnedColumnKeeps ==
    ASSUME IInv, NEW r \in Requests, GetOwnedColumn(r)
    PROVE  Keeps(r)
<1> DEFINE next == IF call[r].op = "rename_column" THEN "commit" ELSE "list"
           row  == call[r].row
<1>1. pc[r] = "lookup" /\ row \in Columns /\ Fetch(r, row, OwnedColumns(call[r].user), next)
  BY DEF GetOwnedColumn
<1>2. pc[r] \in Waiting \ {"refresh"} /\ next \in Waiting \ {"refresh"}
  BY <1>1 DEF Waiting
<1>3. /\ call[r] \in Calls /\ call[r].op \in OnColumns /\ call[r].user \in Users
      /\ call[r] \in CallType /\ ForeignKeysInv
  BY <1>1, <1>2, InProgress, CallKinds
<1>4. CASE row \notin OwnedColumns(call[r].user)
  BY <1>1, <1>4, Answers4xx DEF Fetch, Answers
<1>5. CASE row \in OwnedColumns(call[r].user)
  <2>1. row \in Rows /\ Live(row) /\ Owner(row) = call[r].user
    BY <1>3, <1>5, OwnedRows, Disjoint
  <2>2. Load(r, {row}) /\ Goto(r, next) /\ UNCHANGED <<parent, position, call, siblings, targets>>
    BY <1>1, <1>5 DEF Fetch
  <2>3. /\ SessionsOK' /\ OthersSame(r) /\ SessionInv(r)' /\ ListsInv(r)'
        /\ pc'[r] = next /\ call'[r] = call[r] /\ Loaded(r)' = Loaded(r) \cup {row}
    BY <1>2, <2>1, <2>2, Fetched
  <2>4. ProgressInv(r)'
    BY <1>3, <2>3 DEF ProgressInv, OnColumns
  <2> QED
    BY <2>2, <2>3, <2>4 DEF Keeps, Session, db
<1> QED
  BY <1>4, <1>5

LEMMA GetOwnedCardKeeps ==
    ASSUME IInv, NEW r \in Requests, GetOwnedCard(r)
    PROVE  Keeps(r)
<1> DEFINE next == CASE call[r].op = "update_card" -> "commit"
                     [] call[r].op = "delete_card" -> "list"
                     [] call[r].op = "move_card"   -> "source"
           row  == call[r].row
<1>1. pc[r] = "lookup" /\ row \in Cards /\ Fetch(r, row, OwnedCards(call[r].user), next)
  BY DEF GetOwnedCard
<1>2. pc[r] \in Waiting \ {"refresh"}
  BY <1>1 DEF Waiting
<1>3. /\ call[r] \in Calls /\ call[r].op \in OnCards /\ call[r].user \in Users
      /\ call[r] \in CallType /\ ForeignKeysInv
  BY <1>1, <1>2, InProgress, CallKinds
<1>4. CASE row \notin OwnedCards(call[r].user)
  BY <1>1, <1>4, Answers4xx DEF Fetch, Answers
<1>5. CASE row \in OwnedCards(call[r].user)
  <2>1. row \in Rows /\ Live(row) /\ Owner(row) = call[r].user
    BY <1>3, <1>5, OwnedRows, Disjoint
  <2>2. Load(r, {row}) /\ Goto(r, next) /\ UNCHANGED <<parent, position, call, siblings, targets>>
    BY <1>1, <1>5 DEF Fetch
  <2>3. /\ next \in {"commit", "list", "source"} /\ next \in Waiting \ {"refresh"}
        /\ next = "source" => call[r].op = "move_card"
        /\ next # "source" => call[r].op # "move_card"
        /\ next = "list" => call[r].op = "delete_card"
    BY <1>3 DEF OnCards, Waiting
  <2> HIDE DEF next
  <2>4. /\ SessionsOK' /\ OthersSame(r) /\ SessionInv(r)' /\ ListsInv(r)'
        /\ pc'[r] = next /\ call'[r] = call[r] /\ Loaded(r)' = Loaded(r) \cup {row}
    BY <1>2, <2>1, <2>2, <2>3, Fetched
  <2>5. ProgressInv(r)'
    BY <1>3, <2>3, <2>4 DEF ProgressInv, OnCards
  <2> QED
    BY <2>2, <2>4, <2>5 DEF Keeps, Session, db
<1> QED
  BY <1>4, <1>5

LEMMA GetSourceColumnKeeps ==
    ASSUME IInv, NEW r \in Requests, GetSourceColumn(r)
    PROVE  Keeps(r)
<1>1. PICK source : source = seenParent[r][call[r].row]
  OBVIOUS
<1>2. pc[r] = "source" /\ Fetch(r, source, OwnedColumns(call[r].user), "target")
  BY <1>1 DEF GetSourceColumn
<1>3. pc[r] \in Waiting \ {"refresh"} /\ "target" \in Waiting \ {"refresh"}
  BY <1>2 DEF Waiting
<1>4. /\ call[r] \in Calls /\ call[r] \in CallType /\ call[r].user \in Users
      /\ ForeignKeysInv /\ call[r].op = "move_card" /\ call[r].row \in Loaded(r)
  BY <1>2, <1>3, InProgress DEF IInv, ProgressInv
<1>5. CASE source \notin OwnedColumns(call[r].user)
  BY <1>2, <1>5, Answers4xx DEF Fetch, Answers
<1>6. CASE source \in OwnedColumns(call[r].user)
  <2>1. source \in Rows /\ Live(source) /\ Owner(source) = call[r].user
    BY <1>4, <1>6, OwnedRows, Disjoint
  <2>2. Load(r, {source}) /\ Goto(r, "target")
        /\ UNCHANGED <<parent, position, call, siblings, targets>>
    BY <1>2, <1>6 DEF Fetch
  <2>3. /\ SessionsOK' /\ OthersSame(r) /\ SessionInv(r)' /\ ListsInv(r)'
        /\ pc'[r] = "target" /\ call'[r] = call[r] /\ Loaded(r)' = Loaded(r) \cup {source}
        /\ \A x \in Loaded(r) : seenParent'[r][x] = seenParent[r][x]
    BY <1>3, <2>1, <2>2, Fetched
  <2>4. ProgressInv(r)'
    BY <1>1, <1>4, <2>3 DEF ProgressInv
  <2> QED
    BY <2>2, <2>3, <2>4 DEF Keeps, Session, db
<1> QED
  BY <1>5, <1>6

LEMMA GetTargetColumnKeeps ==
    ASSUME IInv, NEW r \in Requests, GetTargetColumn(r)
    PROVE  Keeps(r)
<1>1. PICK source, into, owned : /\ source = seenParent[r][call[r].row]
                                 /\ into = call[r].into
                                 /\ owned = OwnedColumns(call[r].user)
  OBVIOUS
<1>2. /\ pc[r] = "target"
      /\ IF into \in owned /\ BoardIdOf(r, into) # seenParent[r][source]
         THEN Answer(r, "400") /\ UNCHANGED db
         ELSE Fetch(r, into, owned, "list")
  BY <1>1 DEF GetTargetColumn
<1>3. pc[r] \in Waiting \ {"refresh"} /\ "list" \in Waiting \ {"refresh"}
  BY <1>2 DEF Waiting
<1>4. /\ call[r] \in Calls /\ call[r] \in CallType /\ call[r].user \in Users
      /\ ForeignKeysInv /\ call[r].op = "move_card" /\ call[r].row \in Loaded(r)
      /\ source \in Loaded(r)
  BY <1>1, <1>2, <1>3, InProgress DEF IInv, ProgressInv
<1>5. CASE into \notin owned
  BY <1>2, <1>5, Answers4xx DEF Fetch, Answers
<1>6. CASE into \in owned /\ BoardIdOf(r, into) # seenParent[r][source]
  BY <1>2, <1>6, Answers4xx DEF Answers
<1>7. CASE into \in owned /\ BoardIdOf(r, into) = seenParent[r][source]
  <2>1. into \in Rows /\ Live(into) /\ Owner(into) = call[r].user
    BY <1>1, <1>4, <1>7, OwnedRows, Disjoint
  <2>2. Load(r, {into}) /\ Goto(r, "list")
        /\ UNCHANGED <<parent, position, call, siblings, targets>>
    BY <1>2, <1>7 DEF Fetch
  <2>3. /\ SessionsOK' /\ OthersSame(r) /\ SessionInv(r)' /\ ListsInv(r)'
        /\ pc'[r] = "list" /\ call'[r] = call[r] /\ Loaded(r)' = Loaded(r) \cup {into}
        /\ \A x \in Loaded(r) : seenParent'[r][x] = seenParent[r][x]
        /\ into \notin Loaded(r) => seenParent'[r][into] = parent[into]
    BY <1>3, <2>1, <2>2, Fetched
  <2>4. seenParent'[r][into] = seenParent[r][source]
    BY <1>7, <2>1, <2>3 DEF BoardIdOf, Loaded
  <2>5. ProgressInv(r)'
    BY <1>1, <1>4, <2>3, <2>4 DEF ProgressInv
  <2> QED
    BY <2>2, <2>3, <2>5 DEF Keeps, Session, db
<1> QED
  BY <1>5, <1>6, <1>7

\* A list read under a row of the caller's own.
LEMMA Listed ==
    ASSUME IInv, NEW r \in Requests, pc[r] \in Waiting \ {"refresh"},
           NEW p \in Rows, Live(p) => Owner(p) = call[r].user
    PROVE  /\ Children(p) \in SUBSET Rows
           /\ \A x \in Children(p) : Live(x) /\ Owner(x) = call[r].user
  BY InProgress, ChildrenOf DEF Children

LEMMA ListSiblingsKeeps ==
    ASSUME IInv, NEW r \in Requests, ListSiblings(r)
    PROVE  Keeps(r)
<1>1. PICK p, next, row, op : /\ p = ListedParent(r) /\ row = call[r].row /\ op = call[r].op
                              /\ next = CASE op = "get_board" -> "contents"
                                          [] op \in {"list_columns", "list_cards"} -> "answer"
                                          [] MovesAcross(r) -> "listTarget"
                                          [] OTHER -> "commit"
  OBVIOUS
<1>2. /\ pc[r] = "list" /\ pc[r] \in Waiting \ {"refresh"} /\ next \in Waiting \ {"refresh"}
      /\ next = "contents" <=> op = "get_board"
      /\ next = "answer" <=> op \in {"list_columns", "list_cards"}
      /\ next = "listTarget" => op = "move_card"
      /\ next \in {"contents", "answer", "listTarget", "commit"}
  BY <1>1 DEF ListSiblings, Waiting, MovesAcross
<1>3. /\ call[r] \in Calls /\ call[r] \in CallType /\ row \in Loaded(r)
      /\ op \in {"get_board", "list_columns", "list_cards",
                 "create_column", "move_column", "delete_column",
                 "create_card", "move_card", "delete_card"}
      /\ Loaded(r) \subseteq Rows /\ SessionsOK
      /\ Remembers(r, row, seenParent[r][row])
      /\ Range(siblings[r]) \cup Range(targets[r]) \subseteq Loaded(r)
      /\ op \in OnBoards <=> row \in Boards
      /\ op \in OnColumns <=> row \in Columns
      /\ op \in OnCards <=> row \in Cards
  <2>1. call[r] \in Calls /\ SessionsOK
    BY <1>2, InProgress
  <2>2. row \in Loaded(r) /\ op \in {"get_board", "list_columns", "list_cards",
                                     "create_column", "move_column", "delete_column",
                                     "create_card", "move_card", "delete_card"}
    BY <1>1, <1>2 DEF IInv, ProgressInv
  <2> QED
    BY <1>1, <1>2, <2>1, <2>2, InProgress, CallKinds
<1>4. p \in Rows /\ (Live(p) => Owner(p) = call[r].user)
  <2>1. CASE op \in {"get_board", "list_columns", "list_cards", "create_column", "create_card"}
    BY <1>1, <1>3, <2>1 DEF ListedParent, Remembers
  <2>2. CASE op \notin {"get_board", "list_columns", "list_cards", "create_column", "create_card"}
    <3>1. row \in Items
      BY <1>3, <2>2 DEF OnColumns, OnCards, Items
    <3> QED
      BY <1>1, <1>3, <2>2, <3>1, Disjoint DEF ListedParent, Remembers
  <2> QED
    BY <2>1, <2>2
<1>5. PICK rows \in SUBSET Rows : rows = Children(p)
  BY <1>2, <1>4, Listed
<1>6. \A x \in rows : Live(x) /\ Owner(x) = call[r].user
  BY <1>2, <1>4, <1>5, Listed
<1>7. /\ Load(r, rows) /\ Goto(r, next)
      /\ parent' = parent /\ position' = position /\ call' = call /\ targets' = targets
  BY <1>1, <1>5 DEF ListSiblings
<1>8. PICK s \in Listings(p) : siblings' = [siblings EXCEPT ![r] = s]
  BY <1>1 DEF ListSiblings
<1>9. s \in Seq(Rows) /\ Range(s) = rows
  BY <1>5, <1>8, ListingType
<1>10. /\ siblings' \in [Requests -> Seq(Rows)] /\ targets' \in [Requests -> Seq(Rows)]
       /\ \A q \in Requests \ {r} : siblings'[q] = siblings[q] /\ targets'[q] = targets[q]
       /\ Range(siblings'[r]) \cup Range(targets'[r]) \subseteq Loaded(r) \cup rows
  BY <1>3, <1>7, <1>8, <1>9 DEF SessionsOK
<1>11. /\ SessionsOK' /\ OthersSame(r) /\ SessionInv(r)' /\ ListsInv(r)'
       /\ pc'[r] = next /\ call'[r] = call[r] /\ Loaded(r)' = Loaded(r) \cup rows
       /\ \A x \in Loaded(r) : seenParent'[r][x] = seenParent[r][x]
  BY <1>2, <1>6, <1>7, <1>10, LoadStep
<1>12. op = "move_card" =>
          /\ call[r].into \in Loaded(r)
          /\ seenParent[r][row] \in Loaded(r)
          /\ seenParent[r][call[r].into] = seenParent[r][seenParent[r][row]]
  BY <1>1, <1>2 DEF IInv, ProgressInv
<1>13. op = "get_board" => /\ targets'[r] = <<>>
                           /\ Range(siblings'[r]) = Loaded(r)' \cap Columns
  <2> SUFFICES ASSUME op = "get_board"
               PROVE  targets'[r] = <<>> /\ Range(siblings'[r]) = Loaded(r)' \cap Columns
    OBVIOUS
  <2>1. Loaded(r) = {row} /\ targets[r] = <<>>
    BY <1>1, <1>2 DEF IInv, ProgressInv
  <2>2. row \in Boards /\ p = row
    BY <1>1, <1>3 DEF OnBoards, ListedParent
  <2>3. rows \subseteq Columns
    BY <1>2, <1>4, <1>5, <2>2, ChildrenOf, InProgress
  <2>4. Loaded(r)' \cap Columns = rows
    BY <1>11, <2>1, <2>2, <2>3, Disjoint
  <2>5. siblings'[r] = s
    BY <1>3, <1>8 DEF SessionsOK
  <2> QED
    BY <1>7, <1>9, <2>1, <2>4, <2>5
<1>14. ProgressInv(r)'
  BY <1>1, <1>2, <1>3, <1>11, <1>12, <1>13 DEF ProgressInv
<1> QED
  BY <1>7, <1>11, <1>14 DEF Keeps, Session, db

LEMMA ListTargetSiblingsKeeps ==
    ASSUME IInv, NEW r \in Requests, ListTargetSiblings(r)
    PROVE  Keeps(r)
<1>1. PICK p, row : p = call[r].into /\ row = call[r].row
  OBVIOUS
<1>2. pc[r] = "listTarget" /\ pc[r] \in Waiting \ {"refresh"} /\ "commit" \in Waiting \ {"refresh"}
  BY DEF ListTargetSiblings, Waiting
<1>3. /\ call[r].op = "move_card" /\ row \in Loaded(r)
      /\ p \in Loaded(r) /\ seenParent[r][row] \in Loaded(r)
      /\ seenParent[r][p] = seenParent[r][seenParent[r][row]]
  BY <1>1, <1>2 DEF IInv, ProgressInv
<1>4. /\ call[r] \in Calls /\ call[r] \in CallType /\ Loaded(r) \subseteq Rows /\ SessionsOK
      /\ Remembers(r, p, seenParent[r][p])
      /\ Range(siblings[r]) \cup Range(targets[r]) \subseteq Loaded(r)
  BY <1>2, <1>3, InProgress
<1>5. p \in Rows /\ (Live(p) => Owner(p) = call[r].user)
  BY <1>3, <1>4 DEF Remembers
<1>6. PICK rows \in SUBSET Rows : rows = Children(p)
  BY <1>2, <1>5, Listed
<1>7. \A x \in rows : Live(x) /\ Owner(x) = call[r].user
  BY <1>2, <1>5, <1>6, Listed
<1>8. /\ Load(r, rows) /\ Goto(r, "commit")
      /\ parent' = parent /\ position' = position /\ call' = call /\ siblings' = siblings
  BY <1>1, <1>6 DEF ListTargetSiblings
<1>9. PICK s \in Listings(p) : targets' = [targets EXCEPT ![r] = s]
  BY <1>1 DEF ListTargetSiblings
<1>10. s \in Seq(Rows) /\ Range(s) = rows
  BY <1>6, <1>9, ListingType
<1>11. /\ siblings' \in [Requests -> Seq(Rows)] /\ targets' \in [Requests -> Seq(Rows)]
       /\ \A q \in Requests \ {r} : siblings'[q] = siblings[q] /\ targets'[q] = targets[q]
       /\ Range(siblings'[r]) \cup Range(targets'[r]) \subseteq Loaded(r) \cup rows
  <2>1. siblings' \in [Requests -> Seq(Rows)] /\ siblings'[r] = siblings[r]
        /\ \A q \in Requests \ {r} : siblings'[q] = siblings[q]
    BY <1>4, <1>8 DEF SessionsOK
  <2>2. targets' \in [Requests -> Seq(Rows)] /\ targets'[r] = s
        /\ \A q \in Requests \ {r} : targets'[q] = targets[q]
    BY <1>4, <1>9, <1>10 DEF SessionsOK
  <2> QED
    BY <1>4, <1>10, <2>1, <2>2
<1>12. /\ SessionsOK' /\ OthersSame(r) /\ SessionInv(r)' /\ ListsInv(r)'
       /\ pc'[r] = "commit" /\ call'[r] = call[r] /\ Loaded(r)' = Loaded(r) \cup rows
       /\ \A x \in Loaded(r) : seenParent'[r][x] = seenParent[r][x]
  BY <1>2, <1>7, <1>8, <1>11, LoadStep
<1>13. ProgressInv(r)'
  BY <1>1, <1>3, <1>4, <1>12 DEF ProgressInv
<1> QED
  BY <1>8, <1>12, <1>13 DEF Keeps, Session, db

\* What the one statement for the cards of a board's columns brings.
LEMMA ListedContents ==
    ASSUME IInv, NEW r \in Requests, ListContents(r)
    PROVE  /\ pc[r] = "contents"
           /\ \E rows \in SUBSET Rows : \E s \in Orderings(rows) :
                 /\ rows = {k \in Cards : Live(k) /\ parent[k] \in Loaded(r)}
                 /\ \A x \in rows : Live(x) /\ Owner(x) = call[r].user
                 /\ Load(r, rows) /\ targets' = [targets EXCEPT ![r] = s]
           /\ siblings' = [siblings EXCEPT ![r] = <<>>]
           /\ Goto(r, "answer") /\ UNCHANGED <<parent, position, call>>
<1>1. PICK columns, n, rows, rest :
         /\ columns = siblings[r] /\ n = Batch(columns)
         /\ rows = UNION {Children(columns[i]) : i \in 1 .. n}
         /\ rest = SubSeq(columns, n + 1, Len(columns))
  OBVIOUS
<1>2. /\ pc[r] = "contents"
      /\ \E s \in Orderings(rows) : targets' = [targets EXCEPT ![r] = targets[r] \o s]
      /\ siblings' = [siblings EXCEPT ![r] = rest]
      /\ Load(r, rows)
      /\ Goto(r, IF rest = <<>> THEN "answer" ELSE "contents")
      /\ UNCHANGED <<parent, position, call>>
  <2>1. targets \in [Requests -> Seq(Rows)] /\ siblings \in [Requests -> Seq(Rows)]
    BY DEF IInv, TypeOK
  <2> QED
    BY <1>1, <2>1 DEF ListContents
<1>3. /\ SessionsOK /\ DatabaseOK /\ ForeignKeysInv /\ Loaded(r) \subseteq Rows
      /\ \A x \in Loaded(r) : Remembers(r, x, seenParent[r][x])
      /\ pc[r] \in Waiting \ {"refresh"}
  BY <1>2, InProgress DEF Waiting
<1>4. targets[r] = <<>> /\ Range(columns) = Loaded(r) \cap Columns /\ columns \in Seq(Rows)
  BY <1>1, <1>2, <1>3 DEF IInv, ProgressInv, SessionsOK
<1>5. n = Len(columns) /\ rest = <<>>
  BY <1>1, <1>4 DEF Batch
<1>6. rows = UNION {Children(c) : c \in Range(columns)}
  BY <1>1, <1>4, <1>5 DEF Range
<1>7. rows = {k \in Cards : Live(k) /\ parent[k] \in Loaded(r)}
  <2>1. \A c \in Loaded(r) \cap Columns : \A x \in Children(c) : x \in Cards /\ Live(x) /\ parent[x] = c
    BY <1>3, ChildrenOf, Disjoint DEF Children
  <2>2. \A k \in Cards : Live(k) => parent[k] \in Columns /\ k \in Children(parent[k])
    BY <1>3, Disjoint DEF ForeignKeysInv, Children
  <2> QED
    BY <1>4, <1>6, <2>1, <2>2
<1>8. rows \in SUBSET Rows
  BY <1>7, Disjoint
<1>9. \A x \in rows : Live(x) /\ Owner(x) = call[r].user
  <2> TAKE x \in rows
  <2>1. x \in Cards /\ Live(x) /\ parent[x] \in Loaded(r) /\ x \in Children(parent[x])
    BY <1>7, <1>8 DEF Children
  <2>2. Live(parent[x]) /\ Owner(x) = Owner(parent[x])
    BY <1>3, <2>1, ChildrenOf
  <2> QED
    BY <1>3, <2>1, <2>2 DEF Remembers
<1>10. PICK s \in Orderings(rows) : targets' = [targets EXCEPT ![r] = targets[r] \o s]
  BY <1>2
<1>11. targets[r] \o s = s
  BY <1>4, <1>8, OrderingType
<1> QED
  BY <1>2, <1>5, <1>7, <1>8, <1>9, <1>10, <1>11

LEMMA ListContentsKeeps ==
    ASSUME IInv, NEW r \in Requests, ListContents(r)
    PROVE  Keeps(r)
<1>1. pc[r] = "contents" /\ pc[r] \in Waiting \ {"refresh"} /\ "answer" \in Waiting \ {"refresh"}
  BY ListedContents DEF Waiting
<1>2. PICK rows \in SUBSET Rows : \E s \in Orderings(rows) :
         /\ \A x \in rows : Live(x) /\ Owner(x) = call[r].user
         /\ Load(r, rows) /\ targets' = [targets EXCEPT ![r] = s]
  BY ListedContents
<1>9. PICK s \in Orderings(rows) : targets' = [targets EXCEPT ![r] = s]
  BY <1>2
<1>3. /\ siblings' = [siblings EXCEPT ![r] = <<>>] /\ Goto(r, "answer")
      /\ parent' = parent /\ position' = position /\ call' = call
  BY ListedContents
<1>4. SessionsOK /\ call[r] \in Calls /\ call[r] \in CallType
  BY <1>1, InProgress
<1>5. /\ siblings' \in [Requests -> Seq(Rows)] /\ targets' \in [Requests -> Seq(Rows)]
      /\ \A q \in Requests \ {r} : siblings'[q] = siblings[q] /\ targets'[q] = targets[q]
      /\ Range(siblings'[r]) \cup Range(targets'[r]) \subseteq Loaded(r) \cup rows
  <2>1. s \in Seq(Rows) /\ Range(s) = rows /\ <<>> \in Seq(Rows) /\ Range(<<>>) = {}
    BY OrderingType DEF Range
  <2> QED
    BY <1>3, <1>4, <1>9, <2>1 DEF SessionsOK
<1>6. /\ SessionsOK' /\ OthersSame(r) /\ SessionInv(r)' /\ ListsInv(r)'
      /\ pc'[r] = "answer" /\ call'[r] = call[r] /\ Loaded(r)' = Loaded(r) \cup rows
  BY <1>1, <1>2, <1>3, <1>5, LoadStep
<1>7. call[r].op = "get_board" /\ call[r].row \in Loaded(r)
  BY <1>1 DEF IInv, ProgressInv
<1>8. ProgressInv(r)'
  BY <1>4, <1>6, <1>7 DEF ProgressInv
<1> QED
  BY <1>3, <1>6, <1>8 DEF Keeps, Session, db

LEMMA ShowKeeps ==
    ASSUME IInv, NEW r \in Requests, Show(r)
    PROVE  Keeps(r)
  BY Answers4xx DEF Show, Answers

-----------------------------------------------------------------------------
(* The writes.                                                             *)

Deletes == {"delete_board", "delete_column", "delete_card"}

Writes(r, tx) ==
    /\ Proper(tx, call[r].user)
    /\ \/ tx.deleted = {} /\ \E row \in Rows : CommitAndRefresh(r, tx, row)
       \/ /\ tx.deleted = {call[r].row} /\ call[r].op \in Deletes
          /\ CommitAndAnswer(r, tx)

\* What a request about to commit has loaded.
LEMMA AboutToCommit ==
    ASSUME IInv, NEW r \in Requests, pc[r] = "commit"
    PROVE  /\ SessionsOK /\ DatabaseOK /\ ForeignKeysInv /\ Session(r)
           /\ call[r] \in Calls /\ call[r] \in CallType /\ call[r].user \in Users
           /\ Loaded(r) \subseteq Rows
           /\ siblings[r] \in Seq(Rows) /\ targets[r] \in Seq(Rows)
           /\ Range(siblings[r]) \subseteq Loaded(r) /\ Range(targets[r]) \subseteq Loaded(r)
           /\ \A x \in Loaded(r) : Remembers(r, x, seenParent[r][x])
           /\ call[r].op # "create_board" => call[r].row \in Loaded(r) /\ call[r].row \in Rows
           /\ call[r].index \in Nat
<1>1. pc[r] \in Waiting \ {"refresh"}
  BY DEF Waiting
<1>2. siblings[r] \in Seq(Rows) /\ targets[r] \in Seq(Rows)
  BY <1>1, InProgress DEF SessionsOK
<1>3. call[r].op # "create_board" => call[r].row \in Loaded(r)
  BY <1>1 DEF IInv, ProgressInv
<1>4. call[r].index \in Nat
  BY <1>1, InProgress, BoundsAssumption DEF CallType
<1> QED
  BY <1>1, <1>2, <1>3, <1>4, InProgress

LEMMA InsertIsProper ==
    ASSUME NEW u \in Users, NEW x \in Rows, NEW p, NEW at \in Nat, parent[x] = Unborn,
           x \in Boards => p = u,
           x \in Columns => p \in Boards,
           x \in Cards => p \in Columns,
           x \in Items => parent[p] # Unborn /\ (Live(p) => Owner(p) = u)
    PROVE  Proper(Insert(x, p, at), u) /\ Insert(x, p, at).deleted = {}
<1> DEFINE tx == Insert(x, p, at)
<1>1. /\ tx.parent = [y \in {x} |-> p] /\ tx.position = [y \in {x} |-> at]
      /\ tx.deleted = {}
  BY DEF Insert, Tx
<1>2. /\ DOMAIN tx.parent = {x} /\ DOMAIN tx.position = {x}
      /\ tx.parent[x] = p /\ tx.position[x] = at
  BY <1>1
<1>3. ~Live(x)
  BY DEF Live
<1> QED
  BY <1>1, <1>2, <1>3 DEF Proper

\* Rows that the session has loaded are renumbered or deleted.
LEMMA RenumberIsProper ==
    ASSUME IInv, NEW r \in Requests, pc[r] = "commit",
           NEW moved, DOMAIN moved \subseteq Loaded(r), \A x \in DOMAIN moved : moved[x] \in Nat,
           NEW updated, NEW deleted \in SUBSET Loaded(r)
    PROVE  /\ Proper(Tx(Nothing, moved, updated, deleted), call[r].user)
           /\ Tx(Nothing, moved, updated, deleted).deleted = deleted
<1> DEFINE tx == Tx(Nothing, moved, updated, deleted)
<1>1. tx.parent = Nothing /\ tx.position = moved /\ tx.deleted = deleted
  BY DEF Tx
<1>2. DOMAIN tx.parent = {}
  BY <1>1 DEF Nothing
<1>3. \A x \in Loaded(r) : /\ x \in Rows /\ parent[x] # Unborn
                           /\ Live(x) => Owner(x) = call[r].user
  BY AboutToCommit DEF Remembers
<1> HIDE DEF tx
<1>4. Proper(tx, call[r].user)
  BY <1>1, <1>2, <1>3 DEF Proper
<1> QED
  BY <1>1, <1>4 DEF tx

LEMMA InsertAtType ==
    ASSUME NEW S, NEW list \in Seq(S), NEW item \in S, NEW index \in Int, NEW positions
    PROVE  /\ DOMAIN insert_at(list, item, index, positions) \subseteq Range(list) \cup {item}
           /\ \A x \in DOMAIN insert_at(list, item, index, positions) :
                 insert_at(list, item, index, positions)[x] \in Nat
<1>1. PICK new : new = Placed(list, item, index)
  OBVIOUS
<1>2. new \in Seq(S) /\ Range(new) \subseteq Range(list) \cup {item}
  BY <1>1, PlacedProperties
<1>3. insert_at(list, item, index, positions) = renumber(new, positions)
  BY <1>1 DEF insert_at
<1>4. /\ DOMAIN renumber(new, positions) \subseteq Range(new)
      /\ \A x \in DOMAIN renumber(new, positions) : renumber(new, positions)[x] \in Nat
  BY <1>2, RenumberType
<1> QED
  BY <1>2, <1>3, <1>4

LEMMA RemoveFromType ==
    ASSUME NEW S, NEW list \in Seq(S), NEW item, NEW positions
    PROVE  /\ DOMAIN remove_from(list, item, positions) \subseteq Range(list)
           /\ \A x \in DOMAIN remove_from(list, item, positions) :
                 remove_from(list, item, positions)[x] \in Nat
  BY WithoutProperties, RenumberType DEF remove_from

\* What insert_at and remove_from write of what a session has read is proper.
LEMMA ReorderWrites ==
    ASSUME IInv, NEW r \in Requests, Reorder(r), pc[r] = "commit", call[r].op # "create_board"
    PROVE  \E tx : Writes(r, tx)
<1>1. PICK moved : moved = insert_at(siblings[r], call[r].row, call[r].index, seenPosition[r])
  OBVIOUS
<1>2. DOMAIN moved \subseteq Loaded(r) /\ \A x \in DOMAIN moved : moved[x] \in Nat
  <2>1. /\ DOMAIN moved \subseteq Range(siblings[r]) \cup {call[r].row}
        /\ \A x \in DOMAIN moved : moved[x] \in Nat
    BY <1>1, AboutToCommit, InsertAtType
  <2> QED
    BY <2>1, AboutToCommit
<1>3. PICK tx : tx = Tx(Nothing, moved, DOMAIN moved, {})
  OBVIOUS
<1>4. Proper(tx, call[r].user) /\ tx.deleted = {}
  BY <1>2, <1>3, RenumberIsProper
<1>5. CommitAndRefresh(r, tx, call[r].row)
  BY <1>1, <1>3 DEF Reorder
<1>6. call[r].row \in Rows
  BY AboutToCommit
<1> QED
  BY <1>4, <1>5, <1>6 DEF Writes

LEMMA RemoveWrites ==
    ASSUME IInv, NEW r \in Requests, Remove(r), pc[r] = "commit", call[r].op \in Deletes
    PROVE  \E tx : Writes(r, tx)
<1>1. PICK moved : moved = remove_from(siblings[r], call[r].row, seenPosition[r])
  OBVIOUS
<1>2. DOMAIN moved \subseteq Loaded(r) /\ \A x \in DOMAIN moved : moved[x] \in Nat
  <2>1. /\ DOMAIN moved \subseteq Range(siblings[r])
        /\ \A x \in DOMAIN moved : moved[x] \in Nat
    BY <1>1, AboutToCommit, RemoveFromType
  <2> QED
    BY <2>1, AboutToCommit
<1>3. PICK tx : tx = Tx(Nothing, moved, DOMAIN moved, {call[r].row})
  OBVIOUS
<1>4. {call[r].row} \in SUBSET Loaded(r)
  BY AboutToCommit DEF Deletes
<1>5. Proper(tx, call[r].user) /\ tx.deleted = {call[r].row}
  BY <1>2, <1>3, <1>4, RenumberIsProper
<1>6. CommitAndAnswer(r, tx)
  BY <1>1, <1>3 DEF Remove
<1> QED
  BY <1>5, <1>6 DEF Writes

LEMMA DeleteBoardWrites ==
    ASSUME IInv, NEW r \in Requests, DeleteBoard(r)
    PROVE  \E tx : Writes(r, tx)
<1>1. pc[r] = "commit" /\ call[r].op \in Deletes
  BY DEF DeleteBoard, Commits, Deletes
<1>2. PICK tx : tx = Tx(Nothing, Nothing, {}, {call[r].row})
  OBVIOUS
<1>3. {call[r].row} \in SUBSET Loaded(r)
  BY <1>1, AboutToCommit DEF Deletes
<1>4. DOMAIN Nothing = {}
  BY DEF Nothing
<1>5. Proper(tx, call[r].user) /\ tx.deleted = {call[r].row}
  BY <1>1, <1>2, <1>3, <1>4, RenumberIsProper
<1>6. CommitAndAnswer(r, tx)
  BY <1>2 DEF DeleteBoard
<1> QED
  BY <1>1, <1>5, <1>6 DEF Writes

LEMMA RetitleWrites ==
    ASSUME IInv, NEW r \in Requests, Retitle(r), pc[r] = "commit", call[r].op # "create_board"
    PROVE  \E tx : Writes(r, tx)
<1>1. PICK updated : CommitAndRefresh(r, Tx(Nothing, Nothing, updated, {}), call[r].row)
  BY DEF Retitle
<1>2. PICK tx : tx = Tx(Nothing, Nothing, updated, {})
  OBVIOUS
<1>3. DOMAIN Nothing = {}
  BY DEF Nothing
<1>4. Proper(tx, call[r].user) /\ tx.deleted = {}
  BY <1>2, <1>3, RenumberIsProper
<1>5. call[r].row \in Rows
  BY AboutToCommit
<1> QED
  BY <1>1, <1>2, <1>4, <1>5 DEF Writes

\* A new row goes under a row that was the caller's when it was loaded.
LEMMA CreateWrites ==
    ASSUME IInv, NEW r \in Requests, CreateBoard(r) \/ CreateColumn(r) \/ CreateCard(r)
    PROVE  \E tx : Writes(r, tx)
<1>1. pc[r] = "commit"
  BY DEF CreateBoard, CreateColumn, CreateCard, Commits
<1>2. /\ call[r].user \in Users /\ call[r] \in Calls
      /\ Len(siblings[r]) \in Nat
      /\ call[r].op # "create_board" =>
            /\ call[r].row \in Loaded(r) /\ call[r].row \in Rows
            /\ Remembers(r, call[r].row, seenParent[r][call[r].row])
  BY <1>1, AboutToCommit
<1>3. ASSUME CreateBoard(r)
      PROVE  \E tx : Writes(r, tx)
  <2>1. PICK b \in Boards :
           parent[b] = Unborn /\ CommitAndRefresh(r, Insert(b, call[r].user, 0), b)
    BY <1>3 DEF CreateBoard
  <2>2. Proper(Insert(b, call[r].user, 0), call[r].user) /\ Insert(b, call[r].user, 0).deleted = {}
    BY <1>2, <2>1, InsertIsProper, Disjoint
  <2> QED
    BY <2>1, <2>2, Disjoint DEF Writes
<1>4. ASSUME CreateColumn(r)
      PROVE  \E tx : Writes(r, tx)
  <2>1. PICK c \in Columns : /\ parent[c] = Unborn
                             /\ CommitAndRefresh(r, Insert(c, call[r].row, Len(siblings[r])), c)
    BY <1>4 DEF CreateColumn
  <2>2. call[r].op = "create_column"
    BY <1>4 DEF CreateColumn, Commits
  <2>3. call[r].row \in Boards
    BY <1>2, <2>2, CallKinds DEF OnBoards
  <2>4. /\ parent[call[r].row] # Unborn
        /\ Live(call[r].row) => Owner(call[r].row) = call[r].user
    BY <1>2, <2>2 DEF Remembers
  <2>5. PICK x, p, at : x = c /\ p = call[r].row /\ at = Len(siblings[r])
    OBVIOUS
  <2>6. Proper(Insert(x, p, at), call[r].user) /\ Insert(x, p, at).deleted = {}
    BY <1>2, <2>1, <2>3, <2>4, <2>5, InsertIsProper, Disjoint
  <2> QED
    BY <2>1, <2>5, <2>6, Disjoint DEF Writes
<1>5. ASSUME CreateCard(r)
      PROVE  \E tx : Writes(r, tx)
  <2>1. PICK k \in Cards : /\ parent[k] = Unborn
                           /\ CommitAndRefresh(r, Insert(k, call[r].row, Len(siblings[r])), k)
    BY <1>5 DEF CreateCard
  <2>2. call[r].op = "create_card"
    BY <1>5 DEF CreateCard, Commits
  <2>3. call[r].row \in Columns
    BY <1>2, <2>2, CallKinds DEF OnColumns
  <2>4. /\ parent[call[r].row] # Unborn
        /\ Live(call[r].row) => Owner(call[r].row) = call[r].user
    BY <1>2, <2>2 DEF Remembers
  <2>5. PICK x, p, at : x = k /\ p = call[r].row /\ at = Len(siblings[r])
    OBVIOUS
  <2>6. Proper(Insert(x, p, at), call[r].user) /\ Insert(x, p, at).deleted = {}
    BY <1>2, <2>1, <2>3, <2>4, <2>5, InsertIsProper, Disjoint
  <2> QED
    BY <2>1, <2>5, <2>6, Disjoint DEF Writes
<1> QED
  BY <1>3, <1>4, <1>5

\* remove_from, insert_at, and the card's new column: on the board of the old one.
LEMMA MoveAcrossWrites ==
    ASSUME IInv, NEW r \in Requests, MoveCardAcross(r)
    PROVE  \E tx : Writes(r, tx)
<1>1. PICK card, into, loaded :
         card = call[r].row /\ into = call[r].into /\ loaded = seenPosition[r]
  OBVIOUS
<1> DEFINE Assign(attributes, new) ==
              [x \in Rows |-> IF x \in DOMAIN new THEN new[x] ELSE attributes[x]]
           removed  == remove_from(siblings[r], card, loaded)
           closed   == Assign(loaded, removed)
           inserted == insert_at(targets[r], card, call[r].index, closed)
           opened   == Assign(closed, inserted)
           moved    == [x \in {y \in Rows : opened[y] # loaded[y]} |-> opened[x]]
           tx       == Tx([x \in {card} |-> into], moved, DOMAIN moved \cup {card}, {})
<1>2. pc[r] = "commit" /\ call[r].op = "move_card" /\ CommitAndRefresh(r, tx, card)
  BY <1>1 DEF MoveCardAcross, Commits
<1> HIDE DEF tx
<1>3. /\ call[r].user \in Users /\ call[r] \in Calls /\ call[r].index \in Nat
      /\ card \in Loaded(r) /\ card \in Rows
      /\ \A x \in Loaded(r) : x \in Rows /\ Remembers(r, x, seenParent[r][x])
      /\ Range(siblings[r]) \subseteq Loaded(r) /\ Range(targets[r]) \subseteq Loaded(r)
      /\ siblings[r] \in Seq(Rows) /\ targets[r] \in Seq(Rows)
  BY <1>1, <1>2, AboutToCommit
<1>4. card \in Cards /\ into \in Columns
  BY <1>1, <1>2, <1>3, CallKinds DEF OnCards
<1>5. /\ into \in Loaded(r) /\ seenParent[r][card] \in Loaded(r)
      /\ seenParent[r][into] = seenParent[r][seenParent[r][card]]
  BY <1>1, <1>2 DEF IInv, ProgressInv
<1>6. /\ DOMAIN removed \subseteq Loaded(r) /\ \A x \in DOMAIN removed : removed[x] \in Nat
  <2>1. /\ DOMAIN removed \subseteq Range(siblings[r])
        /\ \A x \in DOMAIN removed : removed[x] \in Nat
    BY <1>3, RemoveFromType
  <2> QED
    BY <1>3, <2>1
<1>7. /\ DOMAIN inserted \subseteq Loaded(r) /\ \A x \in DOMAIN inserted : inserted[x] \in Nat
  <2>1. \A positions :
           /\ DOMAIN insert_at(targets[r], card, call[r].index, positions)
                \subseteq Range(targets[r]) \cup {card}
           /\ \A x \in DOMAIN insert_at(targets[r], card, call[r].index, positions) :
                 insert_at(targets[r], card, call[r].index, positions)[x] \in Nat
    BY <1>3, InsertAtType
  <2>2. /\ DOMAIN inserted \subseteq Range(targets[r]) \cup {card}
        /\ \A x \in DOMAIN inserted : inserted[x] \in Nat
    BY <2>1
  <2> QED
    BY <1>3, <2>2
<1> HIDE DEF removed, inserted
<1>8. \A y \in Rows : opened[y] # loaded[y] =>
                        y \in DOMAIN removed \cup DOMAIN inserted /\ opened[y] \in Nat
  BY <1>6, <1>7
<1>9. DOMAIN moved \subseteq Loaded(r) /\ \A x \in DOMAIN moved : moved[x] \in Nat
  BY <1>6, <1>7, <1>8
<1> HIDE DEF moved
<1>10. /\ tx.position = moved /\ tx.deleted = {}
       /\ DOMAIN tx.parent = {card} /\ tx.parent[card] = into
  BY DEF tx, Tx
<1>11. \A x \in Loaded(r) : /\ x \in Rows /\ parent[x] # Unborn
                            /\ Live(x) => Owner(x) = call[r].user
  BY <1>3 DEF Remembers
<1>12. Live(card) /\ Live(into) => parent[into] = BoardOf(card)
  <2>1. Live(into) => parent[into] = seenParent[r][into]
    BY <1>3, <1>4, <1>5 DEF Remembers
  <2>2. Live(card) => seenParent[r][seenParent[r][card]] = BoardOf(card)
    BY <1>3, <1>4, <1>5 DEF Remembers
  <2> QED
    BY <1>5, <2>1, <2>2
<1>13. Proper(tx, call[r].user)
  BY <1>3, <1>4, <1>5, <1>9, <1>10, <1>11, <1>12, Disjoint DEF Proper
<1> QED
  BY <1>2, <1>3, <1>10, <1>13 DEF Writes

LEMMA WriteWrites ==
    ASSUME IInv, NEW r \in Requests, Write(r)
    PROVE  pc[r] = "commit" /\ \E tx : Writes(r, tx)
<1>1. CASE CreateBoard(r) \/ CreateColumn(r) \/ CreateCard(r)
  BY <1>1, CreateWrites DEF CreateBoard, CreateColumn, CreateCard, Commits
<1>2. CASE RenameBoard(r) \/ RenameColumn(r) \/ UpdateCard(r)
  BY <1>2, RetitleWrites DEF RenameBoard, RenameColumn, UpdateCard, Commits
<1>3. CASE MoveColumn(r) \/ MoveCardWithin(r)
  BY <1>3, ReorderWrites DEF MoveColumn, MoveCardWithin, Commits
<1>4. CASE MoveCardAcross(r)
  BY <1>4, MoveAcrossWrites DEF MoveCardAcross, Commits
<1>5. CASE DeleteBoard(r)
  BY <1>5, DeleteBoardWrites DEF DeleteBoard, Commits
<1>6. CASE DeleteColumn(r) \/ DeleteCard(r)
  BY <1>6, RemoveWrites DEF DeleteColumn, DeleteCard, Commits, Deletes
<1> QED
  BY <1>1, <1>2, <1>3, <1>4, <1>5, <1>6 DEF Write

\* Either the transaction is refused and the request ends, or it is applied.
LEMMA WriteEffect ==
    ASSUME IInv, NEW r \in Requests, pc[r] = "commit", NEW tx, Writes(r, tx)
    PROVE  /\ SessionsOK' /\ Session(r)' /\ OthersSame(r)
           /\ \/ UNCHANGED db
              \/ /\ Apply(tx) /\ ForeignKeysHold(tx)
                 /\ pc'[r] = IF tx.deleted = {} THEN "refresh" ELSE "200"
<1>1. SessionsOK /\ call[r] \in CallType
  BY AboutToCommit
<1>2. CASE Refused(r, tx)
  BY <1>1, <1>2, Answered DEF Refused, Answers
<1>3. CASE tx.deleted # {} /\ Accepted(tx) /\ Apply(tx) /\ Answer(r, "200")
  BY <1>1, <1>3, Answered DEF Accepted, Answers, Answer, SessionsOK
<1>4. ASSUME tx.deleted = {}, Accepted(tx), Apply(tx), Goto(r, "refresh"),
             NEW row \in Rows, call' = [call EXCEPT ![r].row = row], Forget(r)
      PROVE  /\ SessionsOK' /\ Session(r)' /\ OthersSame(r)
             /\ Apply(tx) /\ ForeignKeysHold(tx) /\ pc'[r] = "refresh"
  BY <1>1, <1>4, Committed DEF Accepted, Goto, SessionsOK
<1> QED
  BY <1>2, <1>3, <1>4 DEF Writes, CommitAndRefresh, CommitAndAnswer

-----------------------------------------------------------------------------
(* The invariant.                                                          *)

LEMMA ArriveKeeps ==
    ASSUME IInv, NEW r \in Requests, Arrive(r)
    PROVE  Keeps(r)
<1>1. SessionsOK /\ Session(r) /\ pc[r] = "new"
  BY TypeParts DEF IInv, Session, Arrive
<1>2. Loaded(r) = {}
  BY <1>1 DEF Session, SessionInv, Remembers, Waiting
<1>3. PICK c \in Calls, next \in {"commit", "lookup"} :
         /\ call' = [call EXCEPT ![r] = c] /\ Goto(r, next)
         /\ next = "commit" <=> c.op = "create_board"
  BY DEF Arrive
<1>4. c \in CallType
  BY CallKinds
<1>5. /\ call' \in [Requests -> CallType \cup {None}] /\ call'[r] = c
      /\ pc' \in [Requests -> {"new"} \cup Waiting \cup Answers] /\ pc'[r] = next
      /\ \A q \in Requests \ {r} : call'[q] = call[q] /\ pc'[q] = pc[q]
  BY <1>1, <1>3, <1>4 DEF SessionsOK, Goto, Waiting
<1>6. /\ seenParent' = seenParent /\ seenPosition' = seenPosition
      /\ siblings' = siblings /\ targets' = targets /\ UNCHANGED db
  BY DEF Arrive, db
<1>7. SessionsOK' /\ OthersSame(r)
  BY <1>1, <1>5, <1>6 DEF SessionsOK, OthersSame, Same
<1>8. Loaded(r)' = {} /\ SessionInv(r)' /\ ListsInv(r)'
  BY <1>1, <1>2, <1>6 DEF Loaded, Session, SessionInv, ListsInv
<1>9. targets'[r] = <<>>
  BY <1>1, <1>6 DEF Session, ProgressInv
<1>10. ProgressInv(r)'
  BY <1>3, <1>4, <1>5, <1>8, <1>9 DEF ProgressInv
<1> QED
  BY <1>6, <1>7, <1>8, <1>10 DEF Keeps, Session

LEMMA ReadKeeps ==
    ASSUME IInv, NEW r \in Requests, Read(r)
    PROVE  Keeps(r)
  BY GetOwnedBoardKeeps, GetOwnedColumnKeeps, GetOwnedCardKeeps, GetSourceColumnKeeps,
     GetTargetColumnKeeps, ListSiblingsKeeps, ListTargetSiblingsKeeps,
     ListContentsKeeps, ShowKeeps DEF Read

LEMMA EndKeeps ==
    ASSUME IInv, NEW r \in Requests, Refresh(r) \/ Abort(r)
    PROVE  Keeps(r)
  BY Answers4xx DEF Refresh, Abort, Answers

\* A step changes nothing in the database, or applies a proper transaction.
LEMMA StepEffect ==
    ASSUME IInv, NEW r \in Requests, Step(r)
    PROVE  /\ SessionsOK' /\ Session(r)' /\ OthersSame(r)
           /\ \/ UNCHANGED db
              \/ /\ pc[r] = "commit"
                 /\ \E tx : /\ Writes(r, tx) /\ Apply(tx) /\ ForeignKeysHold(tx)
                            /\ pc'[r] = IF tx.deleted = {} THEN "refresh" ELSE "200"
<1>1. CASE Arrive(r) \/ Read(r) \/ Refresh(r) \/ Abort(r)
  BY <1>1, ArriveKeeps, ReadKeeps, EndKeeps DEF Keeps
<1>2. CASE Write(r)
  <2>1. pc[r] = "commit"
    BY <1>2, WriteWrites
  <2>2. PICK tx : Writes(r, tx)
    BY <1>2, WriteWrites
  <2> QED
    BY <2>1, <2>2, WriteEffect
<1> QED
  BY <1>1, <1>2 DEF Step

LEMMA StepSettles ==
    ASSUME IInv, NEW r \in Requests, Step(r)
    PROVE  DatabaseOK' /\ ForeignKeysInv' /\ Settled
<1>1. DatabaseOK /\ ForeignKeysInv
  BY TypeParts DEF IInv
<1>2. CASE UNCHANGED db
  BY <1>1, <1>2 DEF db, DatabaseOK, ForeignKeysInv, Settled, Live, BoardOf, Owner
<1>3. CASE ~UNCHANGED db
  <2>1. PICK tx : Writes(r, tx) /\ Apply(tx) /\ ForeignKeysHold(tx) /\ pc[r] = "commit"
    BY <1>3, StepEffect
  <2>2. call[r].user \in Users
    BY <2>1, AboutToCommit
  <2>3. Proper(tx, call[r].user)
    BY <2>1 DEF Writes
  <2> QED
    BY <1>1, <2>1, <2>2, <2>3, ProperTransaction
<1> QED
  BY <1>2, <1>3

LEMMA InitInv == Init => IInv
<1> SUFFICES ASSUME Init PROVE IInv
  OBVIOUS
<1>1. PICK layout \in Layouts : parent = layout.parent /\ position = layout.position
  BY DEF Init
<1>2. WellFormed(layout)
  BY LayoutsAssumption
<1>3. DatabaseOK
  BY <1>1, <1>2 DEF WellFormed, DatabaseOK
<1>4. ForeignKeysInv
  BY <1>1, <1>2, Disjoint DEF WellFormed, ForeignKeysInv, Live
<1>5. SessionsOK
  BY DEF Init, SessionsOK, NothingSeen, NoPositions
<1>6. ASSUME NEW r \in Requests
      PROVE  Session(r)
  <2>1. Loaded(r) = {} /\ siblings[r] = <<>> /\ targets[r] = <<>> /\ pc[r] = "new"
    BY DEF Init, Loaded, NothingSeen
  <2>2. Range(<<>>) = {}
    BY DEF Range
  <2> QED
    BY <2>1, <2>2 DEF Session, SessionInv, ListsInv, ProgressInv, Waiting
<1> QED
  BY <1>3, <1>4, <1>5, <1>6, TypeParts DEF IInv, Session

LEMMA NextInv == IInv /\ [Next]_vars => IInv'
<1> SUFFICES ASSUME IInv, [Next]_vars PROVE IInv'
  OBVIOUS
<1>1. SessionsOK /\ \A q \in Requests : Session(q)
  BY TypeParts DEF IInv, Session
<1>2. ASSUME NEW r \in Requests, Step(r)
      PROVE  IInv'
  <2>1. DatabaseOK' /\ ForeignKeysInv' /\ Settled
    BY <1>2, StepSettles
  <2>2. SessionsOK' /\ Session(r)' /\ OthersSame(r)
    BY <1>2, StepEffect
  <2>3. \A q \in Requests \ {r} : Session(q)'
    BY <1>1, <2>1, <2>2, OthersKeep DEF OthersSame
  <2>4. TypeOK'
    BY <2>1, <2>2 DEF TypeOK, DatabaseOK, SessionsOK
  <2> QED
    BY <2>1, <2>2, <2>3, <2>4 DEF IInv, Session
<1>3. CASE UNCHANGED vars
  <2>1. TypeOK' /\ ForeignKeysInv'
    BY <1>3 DEF vars, IInv, TypeOK, ForeignKeysInv, Live
  <2>2. Settled /\ \A q \in Requests : Same(q)
    BY <1>3 DEF vars, Settled, Live, BoardOf, Owner, Same
  <2>3. \A q \in Requests : Session(q)'
    BY <1>1, <2>2, OthersKeep
  <2> QED
    BY <2>1, <2>3 DEF IInv, Session
<1> QED
  BY <1>2, <1>3 DEF Next

\* What every session has loaded is, as far as it still exists, on the boards of
\* the user it works for, and the database is well typed with its foreign keys intact.
THEOREM Invariance == Spec => []IInv
  BY InitInv, NextInv, PTL DEF Spec

\* The values of the tables, the calls and the identity maps.
THEOREM TypeCorrect == Spec => []TypeOK
<1>1. IInv => TypeOK
  BY DEF IInv
<1> QED
  BY <1>1, Invariance, PTL

\* Tenant isolation of reads (boards.py:20-21): no row a session has loaded belongs
\* to another user, however the database has changed since it was loaded.
THEOREM ReadIsolation == Spec => []SeesOnlyItsOwn
<1>1. IInv => SeesOnlyItsOwn
  <2> SUFFICES ASSUME IInv, NEW r \in InFlight, NEW x \in Rows,
                      seenParent[r][x] # None, Live(x)
               PROVE  parent[BoardOf(x)] = call[r].user
    BY DEF SeesOnlyItsOwn
  <2>1. r \in Requests /\ SessionInv(r) /\ x \in Loaded(r)
    BY DEF InFlight, IInv, Loaded
  <2>2. Remembers(r, x, seenParent[r][x])
    BY <2>1 DEF SessionInv
  <2> QED
    BY <2>2 DEF Remembers, Owner
<1> QED
  BY <1>1, Invariance, PTL

\* Tenant isolation of writes: ownership is read steps before the commit, of other
\* rows than the commit writes, and is never looked at again.
THEOREM WriteIsolation == Spec => WritesOnlyItsOwn
<1> DEFINE Written == \A x \in Rows : parent'[x] # parent[x] \/ position'[x] # position[x] =>
                         \E r \in InFlight :
                            /\ pc[r] = "commit" /\ pc'[r] # "commit"
                            /\ IF Live(x) THEN parent[BoardOf(x)] = call[r].user
                               ELSE (parent[BoardOf(x)])' = call[r].user
<1>1. IInv /\ [Next]_vars => [Written]_vars
  <2> SUFFICES ASSUME IInv, NEW r \in Requests, Step(r), ~UNCHANGED db, NEW x \in Rows,
                      parent'[x] # parent[x] \/ position'[x] # position[x]
               PROVE  /\ r \in InFlight
                      /\ pc[r] = "commit" /\ pc'[r] # "commit"
                      /\ IF Live(x) THEN parent[BoardOf(x)] = call[r].user
                         ELSE (parent[BoardOf(x)])' = call[r].user
    BY DEF Next, vars, db
  <2>1. PICK tx : /\ pc[r] = "commit" /\ Writes(r, tx) /\ Apply(tx) /\ ForeignKeysHold(tx)
                  /\ pc'[r] = IF tx.deleted = {} THEN "refresh" ELSE "200"
    BY StepEffect
  <2>2. call[r].user \in Users /\ ForeignKeysInv /\ DatabaseOK
    BY <2>1, AboutToCommit
  <2>3. Proper(tx, call[r].user)
    BY <2>1 DEF Writes
  <2>4. IF Live(x) THEN Owner(x) = call[r].user ELSE Owner(x)' = call[r].user
    BY <2>1, <2>2, <2>3, ProperWrites
  <2> QED
    BY <2>1, <2>4 DEF Owner, InFlight, Waiting
<1>2. QED
  BY <1>1, Invariance, PTL DEF Spec, WritesOnlyItsOwn

\* cards.py:100-104: whatever moves, deletions and moves back are in progress.
THEOREM BoardIsForLife == Spec => StaysOnItsBoard
<1> DEFINE Stays == \A x \in Items : Live(x) /\ Live(x)' => BoardOf(x)' = BoardOf(x)
<1>1. IInv /\ [Next]_vars => [Stays]_vars
  <2> SUFFICES ASSUME IInv, NEW r \in Requests, Step(r), NEW x \in Items, Live(x), Live(x)'
               PROVE  BoardOf(x)' = BoardOf(x)
    BY DEF Next
  <2> QED
    BY StepSettles, Disjoint DEF Settled, Live
<1>2. QED
  BY <1>1, Invariance, PTL DEF Spec, StaysOnItsBoard

\* models.py:93-98, 136-142: rows are lost to deletions only.
THEOREM NothingElseRemoves == Spec => OnlyDeletesRemove
<1> DEFINE Removed == \A x \in Rows : Live(x) /\ ~Live(x)' =>
                         \E r \in InFlight :
                            /\ call[r].op \in {"delete_board", "delete_column", "delete_card"}
                            /\ pc[r] = "commit" /\ pc'[r] = "200"
                            /\ call[r].row \in {x, parent[x], BoardOf(x)}
<1>1. IInv /\ [Next]_vars => [Removed]_vars
  <2> SUFFICES ASSUME IInv, NEW r \in Requests, Step(r), NEW x \in Rows, Live(x), ~Live(x)'
               PROVE  /\ r \in InFlight
                      /\ call[r].op \in {"delete_board", "delete_column", "delete_card"}
                      /\ pc[r] = "commit" /\ pc'[r] = "200"
                      /\ call[r].row \in {x, parent[x], BoardOf(x)}
    BY DEF Next
  <2>1. ~UNCHANGED db
    BY DEF db, Live
  <2>2. PICK tx : /\ pc[r] = "commit" /\ Writes(r, tx) /\ Apply(tx) /\ ForeignKeysHold(tx)
                  /\ pc'[r] = IF tx.deleted = {} THEN "refresh" ELSE "200"
    BY <2>1, StepEffect
  <2>3. call[r].user \in Users /\ ForeignKeysInv /\ DatabaseOK
    BY <2>2, AboutToCommit
  <2>4. Proper(tx, call[r].user)
    BY <2>2 DEF Writes
  <2>5. tx.deleted \cap {x, parent[x], BoardOf(x)} # {}
    BY <2>2, <2>3, <2>4, ProperRemoves
  <2>6. tx.deleted = {call[r].row} /\ call[r].op \in Deletes
    BY <2>2, <2>5 DEF Writes
  <2> QED
    BY <2>2, <2>5, <2>6 DEF InFlight, Waiting, Deletes
<1>2. QED
  BY <1>1, Invariance, PTL DEF Spec, OnlyDeletesRemove

\* boards.py:26-30: whatever moves while get_board is between its statements.
THEOREM BoardShownWhole == Spec => EachCardOnce
<1> DEFINE Once == \A r \in InFlight : pc[r] = "contents" /\ pc'[r] = "answer" =>
                      /\ IsInjective(targets'[r])
                      /\ Range(targets'[r]) =
                            {k \in Cards : Live(k) /\ seenParent[r][parent[k]] # None}
<1>1. IInv /\ [Next]_vars => [Once]_vars
  <2> SUFFICES ASSUME IInv, NEW q \in Requests, Step(q),
                      NEW r \in Requests, pc[r] = "contents", pc'[r] = "answer"
               PROVE  /\ IsInjective(targets'[r])
                      /\ Range(targets'[r]) =
                            {k \in Cards : Live(k) /\ seenParent[r][parent[k]] # None}
    BY DEF Next, InFlight
  <2>1. q = r
    BY StepEffect DEF OthersSame, Same
  <2>2. ListContents(r)
    <3>1. ~Write(r)
      BY WriteWrites
    <3>2. ~Abort(r) /\ ~Show(r)
      BY DEF Abort, Show, Answer, IInv, TypeOK
    <3> QED
      BY <2>1, <3>1, <3>2
         DEF Step, Arrive, Read, Refresh, GetOwnedBoard, GetOwnedColumn, GetOwnedCard,
             GetSourceColumn, GetTargetColumn, ListSiblings, ListTargetSiblings
  <2>3. PICK rows \in SUBSET Rows : \E s \in Orderings(rows) :
           /\ rows = {k \in Cards : Live(k) /\ parent[k] \in Loaded(r)}
           /\ targets' = [targets EXCEPT ![r] = s]
    BY <2>2, ListedContents
  <2>4. PICK s \in Orderings(rows) : targets' = [targets EXCEPT ![r] = s]
    BY <2>3
  <2>5. targets'[r] = s /\ IsInjective(s) /\ Range(s) = rows
    BY <2>4, OrderingType DEF IInv, TypeOK
  <2>6. \A k \in Cards : Live(k) => parent[k] \in Rows
    BY Disjoint DEF IInv, ForeignKeysInv
  <2> QED
    BY <2>3, <2>5, <2>6 DEF Loaded
<1>2. QED
  BY <1>1, Invariance, PTL DEF Spec, EachCardOnce
=============================================================================
