-------------------------- MODULE BoardPageProofs ---------------------------
(***************************************************************************)
(* The board page, for any board, any number of runs and of messages to    *)
(* the assistant.                                                          *)
(*                                                                         *)
(* The argument: every write is followed by a GET of its own, so the board *)
(* that comes last is the server's, or a GET is still to follow.  And what *)
(* the page does with a card on a drag is what ordering.py makes of the    *)
(* same index, on every board.                                             *)
(***************************************************************************)
EXTENDS BoardPage, OrderingProofs, FiniteSetTheorems

-----------------------------------------------------------------------------
(* Boards.                                                                 *)

LEMMA BoardParts ==
    ASSUME NEW lists, IsBoard(lists), NEW c \in DOMAIN lists
    PROVE  c \in Columns /\ lists[c] \in Seq(Cards) /\ IsInjective(lists[c])
  BY DEF IsBoard

\* A card is in one column at most.
LEMMA Located ==
    ASSUME NEW lists, IsBoard(lists), NEW k, Holds(lists, k)
    PROVE  /\ ColumnOf(lists, k) \in DOMAIN lists /\ k \in Range(lists[ColumnOf(lists, k)])
           /\ \A c \in DOMAIN lists : k \in Range(lists[c]) => c = ColumnOf(lists, k)
           /\ k \in Cards
<1>1. ColumnOf(lists, k) \in DOMAIN lists /\ k \in Range(lists[ColumnOf(lists, k)])
  BY DEF Holds, ColumnOf
<1>2. \A c \in DOMAIN lists : k \in Range(lists[c]) => c = ColumnOf(lists, k)
  BY <1>1 DEF IsBoard
<1>3. k \in Cards
  <2>1. PICK c : c = ColumnOf(lists, k)
    OBVIOUS
  <2>2. c \in DOMAIN lists /\ k \in Range(lists[c])
    BY <1>1, <2>1
  <2>3. lists[c] \in Seq(Cards)
    BY <2>2 DEF IsBoard
  <2> QED
    BY <2>2, <2>3 DEF Range
<1> QED
  BY <1>1, <1>2, <1>3

\* One column's list is replaced, by cards that are in no other.
LEMMA OneChanged ==
    ASSUME NEW lists, IsBoard(lists), NEW c \in DOMAIN lists,
           NEW new \in Seq(Cards), IsInjective(new),
           \A d \in DOMAIN lists \ {c} : Range(new) \cap Range(lists[d]) = {}
    PROVE  IsBoard([lists EXCEPT ![c] = new])
<1> DEFINE after == [lists EXCEPT ![c] = new]
<1>1. /\ DOMAIN after = DOMAIN lists /\ after[c] = new
      /\ \A d \in DOMAIN lists \ {c} : after[d] = lists[d]
  BY DEF IsBoard
<1>2. DOMAIN after \subseteq Columns /\ after \in [DOMAIN after -> Seq(Cards)]
  BY <1>1 DEF IsBoard
<1> HIDE DEF after
<1>3. \A d \in DOMAIN after : IsInjective(after[d])
  BY <1>1 DEF IsBoard
<1>4. \A d, e \in DOMAIN after : d # e => Range(after[d]) \cap Range(after[e]) = {}
  BY <1>1 DEF IsBoard
<1>5. IsBoard(after)
  BY <1>2, <1>3, <1>4 DEF IsBoard
<1> QED
  BY <1>5 DEF after

\* One card less in a column.
LEMMA OneLess ==
    ASSUME NEW lists, IsBoard(lists), NEW k, NEW c \in DOMAIN lists
    PROVE  IsBoard([lists EXCEPT ![c] = without(lists[c], k)])
<1>1. lists[c] \in Seq(Cards) /\ IsInjective(lists[c])
  BY BoardParts
<1>2. /\ without(lists[c], k) \in Seq(Cards) /\ IsInjective(without(lists[c], k))
      /\ Range(without(lists[c], k)) \subseteq Range(lists[c])
  BY <1>1, WithoutProperties
<1>3. \A d \in DOMAIN lists \ {c} : Range(without(lists[c], k)) \cap Range(lists[d]) = {}
  BY <1>2 DEF IsBoard
<1> QED
  BY <1>2, <1>3, OneChanged

\* move_card keeps a board a board.
LEMMA MovedIsBoard ==
    ASSUME NEW lists, IsBoard(lists), NEW k, Holds(lists, k), NEW to \in DOMAIN lists, NEW index \in Nat
    PROVE  IsBoard(Moved(lists, k, to, index))
<1>1. PICK from : from = ColumnOf(lists, k)
  OBVIOUS
<1>2. /\ from \in DOMAIN lists /\ k \in Range(lists[from]) /\ k \in Cards
      /\ \A c \in DOMAIN lists : k \in Range(lists[c]) => c = from
  BY <1>1, Located
<1>3. /\ Placed(lists[to], k, index) \in Seq(Cards) /\ IsInjective(Placed(lists[to], k, index))
      /\ Range(Placed(lists[to], k, index)) = Range(lists[to]) \cup {k}
  <2>1. lists[to] \in Seq(Cards) /\ IsInjective(lists[to]) /\ index \in Int
    BY BoardParts
  <2> QED
    BY <1>2, <2>1, PlacedProperties
<1>4. CASE from = to
  <2>1. \A d \in DOMAIN lists \ {to} : Range(Placed(lists[to], k, index)) \cap Range(lists[d]) = {}
    BY <1>2, <1>3, <1>4 DEF IsBoard
  <2>2. IsBoard([lists EXCEPT ![to] = Placed(lists[to], k, index)])
    BY <1>3, <2>1, OneChanged
  <2>3. Moved(lists, k, to, index) = [lists EXCEPT ![to] = Placed(lists[to], k, index)]
    BY <1>1, <1>4 DEF Moved
  <2> QED
    BY <2>2, <2>3
<1>5. CASE from # to
  <2>1. PICK out : out = [lists EXCEPT ![from] = without(lists[from], k)]
    OBVIOUS
  <2>2. IsBoard(out)
    BY <1>2, <2>1, OneLess
  <2>3. /\ DOMAIN out = DOMAIN lists /\ out[from] = without(lists[from], k)
        /\ \A d \in DOMAIN lists \ {from} : out[d] = lists[d]
    BY <1>2, <2>1 DEF IsBoard
  <2>4. Range(out[from]) = Range(lists[from]) \ {k}
    <3>1. lists[from] \in Seq(Cards) /\ IsInjective(lists[from])
      BY <1>2, BoardParts
    <3> QED
      BY <2>3, <3>1, WithoutProperties
  <2>5. \A d \in DOMAIN out \ {to} : Range(Placed(lists[to], k, index)) \cap Range(out[d]) = {}
    <3> SUFFICES ASSUME NEW d \in DOMAIN lists \ {to}
                 PROVE  (Range(lists[to]) \cup {k}) \cap Range(out[d]) = {}
      BY <1>3, <2>3
    <3>1. CASE d = from
      BY <1>2, <2>4, <3>1 DEF IsBoard
    <3>2. CASE d # from
      BY <1>2, <2>3, <3>2 DEF IsBoard
    <3> QED
      BY <3>1, <3>2
  <2>6. IsBoard([out EXCEPT ![to] = Placed(lists[to], k, index)])
    BY <1>3, <2>2, <2>3, <2>5, OneChanged
  <2>7. Moved(lists, k, to, index) = [out EXCEPT ![to] = Placed(lists[to], k, index)]
    BY <1>1, <1>5, <2>1 DEF Moved
  <2> QED
    BY <2>6, <2>7
<1> QED
  BY <1>4, <1>5

-----------------------------------------------------------------------------
(* The drag on the page and move_card.                                     *)

LEMMA SpliceOut ==
    ASSUME NEW S, NEW s \in Seq(S), NEW x \in Range(s)
    PROVE  SE!RemoveAt(s, Place(s, x) + 1) = without(s, x)
<1>1. PICK k : k = Place(s, x) + 1
  OBVIOUS
<1>2. CutAt(s, k) = without(s, x)
  BY <1>1, CutIsWithout
<1> QED
  BY <1>1, <1>2 DEF SE!RemoveAt, CutAt

LEMMA SpliceIn ==
    ASSUME NEW S, NEW s \in Seq(S), NEW x \in S, NEW index \in Nat
    PROVE  SE!InsertAt(without(s, x), Smaller(index, Len(without(s, x))) + 1, x) = Placed(s, x, index)
<1>1. PICK rest : rest = without(s, x)
  OBVIOUS
<1>2. Len(rest) \in Nat
  BY <1>1, WithoutProperties, LenProperties
<1>3. PICK at : at = Clamp(index, Len(rest)) + 1
  OBVIOUS
<1>4. at = Smaller(index, Len(rest)) + 1
  BY <1>2, <1>3 DEF Clamp, Smaller
<1>5. Spliced(rest, at, x) = Placed(s, x, index)
  BY <1>1, <1>3, SpliceIsPlaced
<1>6. SE!InsertAt(rest, at, x) = Spliced(rest, at, x)
  BY DEF SE!InsertAt, Spliced
<1> QED
  BY <1>1, <1>4, <1>5, <1>6

\* applyMove and move_card make the same of every board and every index.
LEMMA MovesAlike ==
    ASSUME NEW lists, IsBoard(lists), NEW k, Holds(lists, k), NEW to \in DOMAIN lists, NEW index \in Nat
    PROVE  applyMove(lists, k, to, index) = Moved(lists, k, to, index)
<1>1. PICK from : from = ColumnOf(lists, k)
  OBVIOUS
<1>2. /\ from \in DOMAIN lists /\ k \in Range(lists[from]) /\ k \in Cards
      /\ \A c \in DOMAIN lists : k \in Range(lists[c]) => c = from
  BY <1>1, Located
<1>3. \A c \in DOMAIN lists : lists[c] \in Seq(Cards) /\ IsInjective(lists[c])
  BY BoardParts
<1>4. PICK out : out = [lists EXCEPT ![from] = without(lists[from], k)]
  OBVIOUS
<1>5. /\ DOMAIN out = DOMAIN lists /\ out[from] = without(lists[from], k)
      /\ \A d \in DOMAIN lists \ {from} : out[d] = lists[d]
  BY <1>2, <1>4 DEF IsBoard
<1>6. SE!RemoveAt(lists[from], Place(lists[from], k) + 1) = without(lists[from], k)
  BY <1>2, <1>3, SpliceOut
<1>7. applyMove(lists, k, to, index)
         = [out EXCEPT ![to] = SE!InsertAt(out[to], Smaller(index, Len(out[to])) + 1, k)]
  BY <1>1, <1>4, <1>6 DEF applyMove
<1>8. out[to] = without(lists[to], k)
  <2>1. CASE to = from
    BY <1>5, <2>1
  <2>2. CASE to # from
    <3>1. without(lists[to], k) = lists[to]
      BY <1>2, <2>2 DEF without
    <3> QED
      BY <1>5, <2>2, <3>1
  <2> QED
    BY <2>1, <2>2
<1>9. SE!InsertAt(out[to], Smaller(index, Len(out[to])) + 1, k) = Placed(lists[to], k, index)
  BY <1>2, <1>3, <1>8, SpliceIn
<1>10. applyMove(lists, k, to, index) = [out EXCEPT ![to] = Placed(lists[to], k, index)]
  BY <1>7, <1>9
<1>11. CASE from = to
  <2>1. Moved(lists, k, to, index) = [lists EXCEPT ![to] = Placed(lists[to], k, index)]
    BY <1>1, <1>11 DEF Moved
  <2> QED
    BY <1>4, <1>10, <1>11, <2>1 DEF IsBoard
<1>12. CASE from # to
  BY <1>1, <1>4, <1>10, <1>12 DEF Moved
<1> QED
  BY <1>11, <1>12

-----------------------------------------------------------------------------
(* What the server makes of an action.                                     *)

LEMMA MoveResult ==
    ASSUME NEW a, a.kind = "move", NEW lists \in Results(a)
    PROVE  /\ lists = Moved(server, a.card, a.into, a.index)
           /\ Holds(server, a.card) /\ a.into \in DOMAIN server
<1>1. Results(a) = {Moved(l, a.card, a.into, a.index) :
                       l \in {x \in {server} : Holds(x, a.card) /\ a.into \in DOMAIN x}}
  BY DEF Results
<1> QED
  BY <1>1

LEMMA ResultIsBoard ==
    ASSUME TypeOK, NEW a, IsAction(a), NEW lists \in Results(a)
    PROVE  IsBoard(lists)
<1>1. IsBoard(server) /\ Shown(server) \subseteq made /\ a.index \in Nat
  BY DEF TypeOK, IsAction
<1>2. CASE a.kind = "move"
  <2>1. /\ lists = Moved(server, a.card, a.into, a.index)
        /\ Holds(server, a.card) /\ a.into \in DOMAIN server
    BY <1>2, MoveResult
  <2> QED
    BY <1>1, <2>1, MovedIsBoard
<1>3. CASE a.kind = "create"
  <2>1. Results(a) = {[server EXCEPT ![a.into] = Append(@, k)] :
                         k \in {x \in Cards \ made : a.into \in DOMAIN server}}
    BY <1>3 DEF Results
  <2>2. PICK k \in Cards \ made : /\ a.into \in DOMAIN server
                                  /\ lists = [server EXCEPT ![a.into] = Append(@, k)]
    BY <2>1
  <2>3. PICK c \in DOMAIN server : c = a.into
    BY <2>2
  <2>4. server[c] \in Seq(Cards) /\ IsInjective(server[c])
    BY <1>1, BoardParts
  <2>5. \A d \in DOMAIN server : k \notin Range(server[d])
    BY <1>1 DEF Shown
  <2>6. PICK new : new = Append(server[c], k)
    OBVIOUS
  <2>7. /\ new \in Seq(Cards) /\ DOMAIN new = 1 .. Len(server[c]) + 1
        /\ DOMAIN server[c] = 1 .. Len(server[c]) /\ Len(server[c]) \in Nat
        /\ \A i \in 1 .. Len(server[c]) : new[i] = server[c][i]
        /\ new[Len(server[c]) + 1] = k
    BY <2>4, <2>6, AppendProperties, LenProperties
  <2>8. \A i \in DOMAIN new : i \in DOMAIN server[c] \/ i = Len(server[c]) + 1
    BY <2>7
  <2>9. \A i \in DOMAIN server[c] : server[c][i] # k
    BY <2>5 DEF Range
  <2>10. IsInjective(new)
    <3> SUFFICES ASSUME NEW i \in DOMAIN new, NEW j \in DOMAIN new, new[i] = new[j] PROVE i = j
      BY DEF IsInjective
    <3>1. CASE i \in DOMAIN server[c] /\ j \in DOMAIN server[c]
      BY <2>4, <2>7, <3>1 DEF IsInjective
    <3>2. CASE i \notin DOMAIN server[c] \/ j \notin DOMAIN server[c]
      BY <2>7, <2>8, <2>9, <3>2
    <3> QED
      BY <3>1, <3>2
  <2>11. Range(new) \subseteq Range(server[c]) \cup {k}
    BY <2>7, <2>8 DEF Range
  <2>12. \A d \in DOMAIN server \ {c} : Range(new) \cap Range(server[d]) = {}
    BY <1>1, <2>5, <2>11 DEF IsBoard
  <2>13. IsBoard([server EXCEPT ![c] = new])
    BY <1>1, <2>7, <2>10, <2>12, OneChanged
  <2> QED
    BY <2>2, <2>3, <2>6, <2>13
<1>4. CASE a.kind = "delete"
  <2>1. Results(a) = {[c \in DOMAIN l |-> without(l[c], a.card)] :
                         l \in {x \in {server} : Holds(x, a.card)}}
    BY <1>4 DEF Results
  <2>2. lists = [c \in DOMAIN server |-> without(server[c], a.card)]
    BY <2>1
  <2>3. \A c \in DOMAIN server :
           /\ lists[c] \in Seq(Cards) /\ IsInjective(lists[c])
           /\ Range(lists[c]) \subseteq Range(server[c])
    BY <1>1, <2>2, BoardParts, WithoutProperties
  <2>4. DOMAIN lists = DOMAIN server /\ lists = [c \in DOMAIN lists |-> lists[c]]
    BY <2>2
  <2> QED
    BY <1>1, <2>3, <2>4 DEF IsBoard
<1>5. CASE a.kind = "drop"
  <2>1. Results(a) = {[c \in DOMAIN l \ {a.into} |-> l[c]] :
                         l \in {x \in {server} : a.into \in DOMAIN x}}
    BY <1>5 DEF Results
  <2>2. lists = [c \in DOMAIN server \ {a.into} |-> server[c]]
    BY <2>1
  <2> QED
    BY <1>1, <2>2 DEF IsBoard
<1>6. CASE a.kind = "rename"
  <2>1. Results(a) = {server}
    BY <1>6 DEF Results
  <2> QED
    BY <1>1, <2>1
<1> QED
  BY <1>2, <1>3, <1>4, <1>5, <1>6 DEF IsAction

LEMMA ServerStaysBoard ==
    ASSUME TypeOK, NEW a, IsAction(a), NEW lists \in Results(a), ServerBecomes(lists)
    PROVE  IsBoard(server') /\ Shown(server') \subseteq made' /\ made' \subseteq Cards
<1>1. IsBoard(lists)
  BY ResultIsBoard
<1>2. Shown(lists) \subseteq Cards
  BY <1>1 DEF IsBoard, Shown, Range
<1> QED
  BY <1>1, <1>2 DEF ServerBecomes, TypeOK

-----------------------------------------------------------------------------
(* The order of the answers.                                               *)

ActingInv == \A r \in Runs : phase[r] = "acting" => call[r] # None

LEMMA Parts ==
    /\ IInv <=> TypeOK /\ OrderInv /\ ActingInv
    /\ IInv' <=> TypeOK' /\ OrderInv' /\ ActingInv'
  BY DEF IInv, ActingInv

LEMMA InitIInv == Init => IInv
<1> SUFFICES ASSUME Init PROVE IInv
  OBVIOUS
<1>1. IsBoard(server) /\ Shown(server) \subseteq made /\ made \subseteq Cards
  <2>1. IsBoard(server)
    BY StartAssumption DEF Init, IsBoard
  <2>2. made = Shown(server)
    BY DEF Init
  <2>3. Shown(server) \subseteq Cards
    BY <2>1 DEF IsBoard, Shown, Range
  <2> QED
    BY <2>1, <2>2, <2>3
<1>2. PICK first \in Runs : phase = [r \in Runs |-> IF r = first THEN "loading" ELSE "idle"]
  BY DEF Init
<1>3. phase \in [Runs -> Phases] /\ phase[first] = "loading"
  BY <1>2 DEF Phases
<1>4. served \in Seq(Runs) /\ DOMAIN served = {}
  BY EmptySeq DEF Init
<1>5. runs \in 0 .. MaxRuns /\ chats \in 0 .. MaxChats
  BY StartAssumption DEF Init
<1>6. TypeOK
  BY <1>1, <1>3, <1>4, <1>5 DEF Init, TypeOK
<1>7. OrderInv
  BY <1>3, <1>4 DEF OrderInv, Awaited, IsInjective
<1>8. ActingInv
  BY <1>2 DEF ActingInv
<1> QED
  BY <1>6, <1>7, <1>8, Parts

LEMMA ServedFacts ==
    ASSUME TypeOK, OrderInv
    PROVE  /\ served \in Seq(Runs) /\ IsInjective(served)
           /\ DOMAIN served = 1 .. Len(served) /\ Len(served) \in Nat
           /\ \A i \in DOMAIN served : served[i] \in Runs /\ phase[served[i]] = "loaded"
           /\ served # <<>> => Len(served) \in DOMAIN served
<1>1. served \in Seq(Runs)
  BY DEF TypeOK
<1>2. DOMAIN served = 1 .. Len(served) /\ Len(served) \in Nat
  BY <1>1, LenProperties
<1>3. served # <<>> => Len(served) \in DOMAIN served
  BY <1>1, <1>2, EmptySeq
<1>4. \A i \in DOMAIN served : served[i] \in Runs
  BY <1>1, <1>2, ElementOfSeq
<1> QED
  BY <1>1, <1>2, <1>3, <1>4 DEF OrderInv

\* As long as nothing that the order of the answers is about has changed.
LEMMA OrderStays ==
    ASSUME TypeOK, OrderInv, UNCHANGED <<board, served, snapshot>>,
           \A r \in Runs : phase[r] = "loaded" => phase'[r] = "loaded",
           inOrder' => \/ Awaited' \/ unheard'
                       \/ inOrder /\ server' = server /\ (Awaited => Awaited') /\ (unheard => unheard')
    PROVE  OrderInv'
<1>1. Coming' = Coming
  BY DEF Coming
<1>2. \A i \in DOMAIN served : phase'[served[i]] = "loaded"
  BY ServedFacts
<1> QED
  BY <1>1, <1>2 DEF OrderInv

\* A run begins that will have its GET; the board on screen may be rearranged with it.
LEMMA BeginKeeps ==
    ASSUME IInv, NEW r \in Runs, NEW a, a = None \/ IsAction(a), Begin(r, a),
           board' = None \/ IsBoard(board'), chat' \in {"quiet", "asked", "changed"}
    PROVE  IInv'
<1>1. TypeOK /\ OrderInv /\ ActingInv
  BY Parts
<1>2. /\ phase[r] = "idle" /\ runs < MaxRuns /\ runs' = runs + 1 /\ error' = None
      /\ call' = [call EXCEPT ![r] = a] /\ failure' = [failure EXCEPT ![r] = None]
      /\ phase' = [phase EXCEPT ![r] = IF a = None THEN "loading" ELSE "acting"]
      /\ inOrder' = (inOrder \/ InFlight = {})
      /\ UNCHANGED <<server, made, snapshot, served, unheard, chats>>
  BY DEF Begin
<1>3. /\ phase' \in [Runs -> Phases] /\ phase'[r] \in {"loading", "acting"}
      /\ phase'[r] = "acting" => a # None
      /\ \A q \in Runs \ {r} : phase'[q] = phase[q]
  BY <1>1, <1>2 DEF TypeOK, Phases
<1>4. /\ call' = [q \in Runs |-> call'[q]] /\ call'[r] = a
      /\ \A q \in Runs \ {r} : call'[q] = call[q]
  BY <1>1, <1>2 DEF TypeOK
<1>5. TypeOK'
  <2>1. runs' \in 0 .. MaxRuns
    BY <1>1, <1>2, StartAssumption DEF TypeOK
  <2>2. failure' \in [Runs -> {None, "action"}]
    BY <1>1, <1>2 DEF TypeOK
  <2>3. \A q \in Runs : call'[q] = None \/ IsAction(call'[q])
    BY <1>1, <1>4 DEF TypeOK
  <2>4. {inOrder', unheard'} \subseteq BOOLEAN
    BY <1>1, <1>2 DEF TypeOK
  <2> QED
    BY <1>1, <1>2, <1>3, <1>4, <2>1, <2>2, <2>3, <2>4 DEF TypeOK
<1>6. OrderInv'
  <2>1. Awaited'
    BY <1>3 DEF Awaited
  <2>2. \A i \in DOMAIN served : phase'[served[i]] = "loaded"
    BY <1>1, <1>2, <1>3, ServedFacts
  <2> QED
    BY <1>1, <1>2, <2>1, <2>2 DEF OrderInv
<1>7. ActingInv'
  BY <1>1, <1>3, <1>4 DEF ActingInv
<1> QED
  BY <1>5, <1>6, <1>7, Parts

-----------------------------------------------------------------------------
(* The actions.                                                            *)

LEMMA DragKeeps == ASSUME IInv, NEW r \in Runs, Drag(r) PROVE IInv'
<1>1. TypeOK
  BY Parts
<1>2. IsBoard(board)
  BY <1>1 DEF Drag, TypeOK
<1>3. PICK a \in Drags : Begin(r, a) /\ board' = applyMove(board, a.card, a.into, a.index)
  BY DEF Drag
<1>4. /\ a.kind = "move" /\ a.index \in 0 .. Cardinality(Cards)
      /\ Holds(board, a.card) /\ a.into \in DOMAIN board
  BY <1>3 DEF Drags, Action
<1>5. a.index \in Nat /\ IsAction(a)
  <2>1. Cardinality(Cards) \in Nat
    BY StartAssumption, FS_CardinalityType
  <2> QED
    BY <1>4, <2>1 DEF IsAction
<1>6. IsBoard(board')
  BY <1>2, <1>3, <1>4, <1>5, MovesAlike, MovedIsBoard
<1>7. chat' \in {"quiet", "asked", "changed"}
  BY <1>1 DEF Drag, TypeOK
<1> QED
  BY <1>3, <1>5, <1>6, <1>7, BeginKeeps

LEMMA PressKeeps == ASSUME IInv, NEW r \in Runs, Press(r) PROVE IInv'
<1>1. TypeOK
  BY Parts
<1>2. PICK a \in Buttons : Begin(r, a)
  BY DEF Press
<1>3. IsAction(a)
  BY DEF Buttons, Action, IsAction
<1>4. /\ board' = None \/ IsBoard(board')
      /\ chat' \in {"quiet", "asked", "changed"}
  <2>1. board' = board /\ chat' = chat
    BY DEF Press
  <2> QED
    BY <1>1, <2>1 DEF TypeOK
<1> QED
  BY <1>2, <1>3, <1>4, BeginKeeps

LEMMA ServeKeeps == ASSUME IInv, NEW r \in Runs, Serve(r) PROVE IInv'
<1>1. TypeOK /\ OrderInv /\ ActingInv
  BY Parts
<1>2. /\ phase[r] = "acting"
      /\ UNCHANGED <<board, error, call, failure, snapshot, chat, served, inOrder, unheard, runs, chats>>
  BY DEF Serve
<1>3. IsAction(call[r])
  BY <1>1, <1>2 DEF ActingInv, TypeOK
<1>4. PICK p \in {"done", "refused"} : phase' = [phase EXCEPT ![r] = p]
  BY DEF Serve
<1>5. /\ phase' \in [Runs -> Phases] /\ phase'[r] = p
      /\ \A q \in Runs \ {r} : phase'[q] = phase[q]
  BY <1>1, <1>4 DEF TypeOK, Phases
<1>6. IsBoard(server') /\ Shown(server') \subseteq made' /\ made' \subseteq Cards
  <2>1. CASE \E lists \in Results(call[r]) : ServerBecomes(lists)
    BY <1>1, <1>3, <2>1, ServerStaysBoard
  <2>2. CASE UNCHANGED <<server, made>>
    <3>1. server' = server /\ made' = made
      BY <2>2
    <3> QED
      BY <1>1, <3>1 DEF TypeOK
  <2> QED
    BY <2>1, <2>2 DEF Serve
<1>7. TypeOK'
  BY <1>1, <1>2, <1>5, <1>6 DEF TypeOK
<1>8. OrderInv'
  <2>1. Awaited'
    BY <1>5 DEF Awaited
  <2> QED
    BY <1>1, <1>2, <1>5, <2>1, OrderStays
<1>9. ActingInv'
  BY <1>1, <1>2, <1>5 DEF ActingInv
<1> QED
  BY <1>7, <1>8, <1>9, Parts

LEMMA ActedKeeps ==
    ASSUME IInv, NEW r \in Runs, NEW outcome \in {None, "action"}, Acted(r, outcome),
           phase[r] \in {"acting", "done", "refused"}
    PROVE  IInv'
<1>1. TypeOK /\ OrderInv /\ ActingInv
  BY Parts
<1>2. /\ failure' = [failure EXCEPT ![r] = outcome] /\ phase' = [phase EXCEPT ![r] = "loading"]
      /\ UNCHANGED <<server, made, board, error, call, snapshot, chat, served, inOrder, unheard, runs, chats>>
  BY DEF Acted, AfterAction
<1>3. /\ phase' \in [Runs -> Phases] /\ phase'[r] = "loading"
      /\ \A q \in Runs \ {r} : phase'[q] = phase[q]
      /\ failure' \in [Runs -> {None, "action"}]
  BY <1>1, <1>2 DEF TypeOK, Phases
<1>4. TypeOK'
  BY <1>1, <1>2, <1>3 DEF TypeOK
<1>5. OrderInv'
  <2>1. Awaited'
    BY <1>3 DEF Awaited
  <2> QED
    BY <1>1, <1>2, <1>3, <2>1, OrderStays
<1>6. ActingInv'
  BY <1>1, <1>2, <1>3 DEF ActingInv
<1> QED
  BY <1>4, <1>5, <1>6, Parts

LEMMA ServeLoadKeeps == ASSUME IInv, NEW r \in Runs, ServeLoad(r) PROVE IInv'
<1>1. TypeOK /\ OrderInv /\ ActingInv
  BY Parts
<1>2. /\ phase[r] = "loading" /\ unheard' = FALSE
      /\ snapshot' = [snapshot EXCEPT ![r] = server] /\ phase' = [phase EXCEPT ![r] = "loaded"]
      /\ served' = Append(served, r)
      /\ UNCHANGED <<server, made, board, error, call, failure, chat, inOrder, runs, chats>>
  BY DEF ServeLoad
<1>3. /\ phase' \in [Runs -> Phases] /\ phase'[r] = "loaded"
      /\ \A q \in Runs \ {r} : phase'[q] = phase[q]
  BY <1>1, <1>2 DEF TypeOK, Phases
<1>4. /\ snapshot' = [q \in Runs |-> snapshot'[q]] /\ snapshot'[r] = server
      /\ \A q \in Runs \ {r} : snapshot'[q] = snapshot[q]
  BY <1>1, <1>2 DEF TypeOK
<1>5. /\ served \in Seq(Runs) /\ IsInjective(served)
      /\ DOMAIN served = 1 .. Len(served) /\ Len(served) \in Nat
      /\ \A i \in DOMAIN served : served[i] \in Runs /\ phase[served[i]] = "loaded" /\ served[i] # r
  BY <1>1, <1>2, ServedFacts
<1>6. /\ served' \in Seq(Runs) /\ Len(served') = Len(served) + 1
      /\ DOMAIN served' = 1 .. Len(served) + 1
      /\ \A i \in DOMAIN served : served'[i] = served[i]
      /\ served'[Len(served) + 1] = r
  BY <1>2, <1>5, AppendProperties, LenProperties
<1>7. TypeOK'
  <2>1. \A q \in Runs : snapshot'[q] = None \/ IsBoard(snapshot'[q])
    BY <1>1, <1>4 DEF TypeOK
  <2>2. {inOrder', unheard'} \subseteq BOOLEAN
    BY <1>1, <1>2 DEF TypeOK
  <2> QED
    BY <1>1, <1>2, <1>3, <1>4, <1>6, <2>1, <2>2 DEF TypeOK
<1>8. OrderInv'
  <2>1. IsInjective(served')
    BY <1>5, <1>6 DEF IsInjective
  <2>2. \A i \in DOMAIN served' : phase'[served'[i]] = "loaded"
    BY <1>3, <1>5, <1>6
  <2>3. Coming' = server'
    <3>1. served' # <<>>
      BY <1>5, <1>6, EmptySeq
    <3> QED
      BY <1>2, <1>4, <1>6, <3>1 DEF Coming
  <2> QED
    BY <2>1, <2>2, <2>3 DEF OrderInv
<1>9. ActingInv'
  BY <1>1, <1>2, <1>3 DEF ActingInv
<1> QED
  BY <1>7, <1>8, <1>9, Parts

\* A run is answered: what becomes of the board and of the order of the answers is left open.
LEMMA FinishKeeps ==
    ASSUME IInv, NEW r \in Runs, NEW outcome \in {None, "action", "load"}, Finish(r, outcome),
           board' = None \/ IsBoard(board'), inOrder' \in BOOLEAN,
           served' \in Seq(Runs), OrderInv'
    PROVE  IInv'
<1>1. TypeOK /\ ActingInv
  BY Parts
<1>2. /\ error' = outcome
      /\ phase' = [phase EXCEPT ![r] = "idle"] /\ call' = [call EXCEPT ![r] = None]
      /\ failure' = [failure EXCEPT ![r] = None] /\ snapshot' = [snapshot EXCEPT ![r] = None]
      /\ UNCHANGED <<server, made, chat, unheard, runs, chats>>
  BY DEF Finish
<1>3. /\ phase' \in [Runs -> Phases] /\ phase'[r] = "idle"
      /\ \A q \in Runs \ {r} : phase'[q] = phase[q]
      /\ failure' \in [Runs -> {None, "action"}]
  BY <1>1, <1>2 DEF TypeOK, Phases
<1>4. /\ call' = [q \in Runs |-> call'[q]] /\ snapshot' = [q \in Runs |-> snapshot'[q]]
      /\ call'[r] = None /\ snapshot'[r] = None
      /\ \A q \in Runs \ {r} : call'[q] = call[q] /\ snapshot'[q] = snapshot[q]
  BY <1>1, <1>2 DEF TypeOK
<1>5. TypeOK'
  <2>1. \A q \in Runs : snapshot'[q] = None \/ IsBoard(snapshot'[q])
    BY <1>1, <1>4 DEF TypeOK
  <2>2. \A q \in Runs : call'[q] = None \/ IsAction(call'[q])
    BY <1>1, <1>4 DEF TypeOK
  <2>3. {inOrder', unheard'} \subseteq BOOLEAN
    BY <1>1, <1>2 DEF TypeOK
  <2> QED
    BY <1>1, <1>2, <1>3, <1>4, <2>1, <2>2, <2>3 DEF TypeOK
<1>6. ActingInv'
  BY <1>1, <1>3, <1>4 DEF ActingInv
<1> QED
  BY <1>5, <1>6, Parts

LEMMA LoadArrivesKeeps == ASSUME IInv, NEW r \in Runs, LoadArrives(r) PROVE IInv'
<1>1. TypeOK /\ OrderInv
  BY Parts
<1>2. /\ phase[r] = "loaded" /\ board' = snapshot[r] /\ Finish(r, failure[r])
      /\ inOrder' = (inOrder /\ r \in Range(served))
      /\ served' = IF r \in Range(served) THEN SubSeq(served, Place(served, r) + 2, Len(served))
                   ELSE served
      /\ failure[r] \in {None, "action", "load"}
  BY <1>1 DEF LoadArrives, TypeOK
<1>3. /\ board' = None \/ IsBoard(board')
      /\ inOrder' \in BOOLEAN
      /\ UNCHANGED <<server, chat, unheard>>
      /\ \A q \in Runs \ {r} : phase'[q] = phase[q] /\ snapshot'[q] = snapshot[q]
  BY <1>1, <1>2 DEF TypeOK, Finish
<1>4. Awaited => Awaited'
  BY <1>2, <1>3 DEF Awaited
<1>5. /\ served \in Seq(Runs) /\ IsInjective(served)
      /\ DOMAIN served = 1 .. Len(served) /\ Len(served) \in Nat
      /\ \A i \in DOMAIN served : served[i] \in Runs /\ phase[served[i]] = "loaded"
  BY <1>1, ServedFacts
<1>6. CASE r \in Range(served)
  <2>1. PICK k \in DOMAIN served : k = Place(served, r) + 1 /\ served[k] = r
    BY <1>5, <1>6, PlaceOf
  <2>2. PICK rest : rest = RestAfter(served, k)
    OBVIOUS
  <2>3. /\ rest \in Seq(Runs) /\ IsInjective(rest)
        /\ \A i \in DOMAIN rest : \E j \in DOMAIN served : rest[i] = served[j] /\ served[j] # r
        /\ rest = <<>> => k = Len(served)
        /\ rest # <<>> => rest[Len(rest)] = served[Len(served)]
    <3>1. served \in Seq(Runs) /\ IsInjective(served) /\ served[k] = r
      BY <1>5, <2>1
    <3> QED
      BY <2>2, <3>1, RestFacts
  <2>4. served' = rest
    <3>1. Place(served, r) + 2 = k + 1
      BY <1>5, <1>6, <2>1, PlaceOf
    <3> QED
      BY <1>2, <1>6, <2>2, <3>1 DEF RestAfter
  <2>5. served # <<>>
    BY <1>5, <2>1, EmptySeq
  <2>6. Coming' = Coming
    <3>1. CASE rest = <<>>
      BY <1>2, <2>1, <2>3, <2>4, <2>5, <3>1 DEF Coming
    <3>2. CASE rest # <<>>
      <4>1. Len(rest) \in DOMAIN rest
        BY <2>3, <3>2, LenProperties, EmptySeq
      <4>2. rest[Len(rest)] \in Runs \ {r}
        BY <1>5, <2>3, <4>1
      <4> QED
        BY <1>3, <2>3, <2>4, <2>5, <3>2, <4>2 DEF Coming
    <3> QED
      BY <3>1, <3>2
  <2>7. \A i \in DOMAIN rest : phase'[rest[i]] = "loaded"
    BY <1>3, <1>5, <2>3
  <2>8. inOrder' => inOrder
    BY <1>2
  <2>9. OrderInv'
    BY <1>1, <1>3, <1>4, <2>3, <2>4, <2>6, <2>7, <2>8 DEF OrderInv
  <2> QED
    BY <1>2, <1>3, <2>3, <2>4, <2>9, FinishKeeps
<1>7. CASE r \notin Range(served)
  <2>1. served' = served /\ inOrder' = FALSE
    BY <1>2, <1>7
  <2>2. \A i \in DOMAIN served : served[i] # r
    BY <1>7 DEF Range
  <2>3. OrderInv'
    BY <1>3, <1>5, <2>1, <2>2 DEF OrderInv
  <2> QED
    BY <1>2, <1>3, <1>5, <2>1, <2>3, FinishKeeps
<1> QED
  BY <1>6, <1>7

LEMMA LoadFailsKeeps == ASSUME IInv, NEW r \in Runs, LoadFails(r) PROVE IInv'
<1>1. TypeOK /\ OrderInv
  BY Parts
<1>2. PICK outcome \in {None, "action", "load"} : Finish(r, outcome)
  BY <1>1 DEF LoadFails, TypeOK
<1>3. /\ inOrder' = FALSE /\ served' = without(served, r)
      /\ board' = None \/ IsBoard(board')
      /\ \A q \in Runs \ {r} : phase'[q] = phase[q]
  <2>1. board' = board
    BY DEF LoadFails
  <2> QED
    BY <1>1, <1>2, <2>1 DEF LoadFails, TypeOK, Finish
<1>4. /\ served' \in Seq(Runs) /\ IsInjective(served')
      /\ Range(served') = Range(served) \ {r}
  BY <1>1, <1>3, ServedFacts, WithoutProperties
<1>5. OrderInv'
  <2>1. \A i \in DOMAIN served' : served'[i] \in Range(served) \ {r}
    BY <1>4 DEF Range
  <2>2. \A q \in Range(served) : q \in Runs /\ phase[q] = "loaded"
    BY <1>1, ServedFacts DEF Range
  <2>3. \A i \in DOMAIN served' : phase'[served'[i]] = "loaded"
    BY <1>3, <2>1, <2>2
  <2> QED
    BY <1>3, <1>4, <2>3 DEF OrderInv
<1> QED
  BY <1>2, <1>3, <1>4, <1>5, FinishKeeps

\* The assistant: the runs stay as they are.
LEMMA ChatKeeps ==
    ASSUME IInv, UNCHANGED <<page, served, inOrder, runs>>,
           chat' \in {"quiet", "asked", "changed"}, chats' \in 0 .. MaxChats, unheard' \in BOOLEAN,
           IsBoard(server'), Shown(server') \subseteq made', made' \subseteq Cards,
           \/ chat' = "changed"
           \/ /\ server' = server /\ (unheard => unheard')
              /\ chat = "changed" => unheard'
    PROVE  IInv'
<1>1. TypeOK /\ OrderInv /\ ActingInv
  BY Parts
<1>2. UNCHANGED <<board, error, phase, call, failure, snapshot, served, inOrder, runs>>
  BY DEF page
<1>3. TypeOK'
  <2>1. {inOrder', unheard'} \subseteq BOOLEAN
    BY <1>1, <1>2 DEF TypeOK
  <2> QED
    BY <1>1, <1>2, <2>1 DEF TypeOK
<1>4. OrderInv'
  BY <1>1, <1>2, OrderStays DEF Awaited
<1>5. ActingInv'
  BY <1>1, <1>2 DEF ActingInv
<1> QED
  BY <1>3, <1>4, <1>5, Parts

LEMMA AskKeeps == ASSUME IInv, Ask PROVE IInv'
<1>1. TypeOK
  BY Parts
<1>2. chats' \in 0 .. MaxChats
  BY <1>1, StartAssumption DEF Ask, TypeOK
<1>3. chat = "quiet" /\ chat' = "asked" /\ UNCHANGED <<server, made, page, served, inOrder, unheard, runs>>
  BY DEF Ask
<1>4. /\ unheard' \in BOOLEAN
      /\ IsBoard(server') /\ Shown(server') \subseteq made' /\ made' \subseteq Cards
  BY <1>1, <1>3 DEF TypeOK
<1> QED
  BY <1>2, <1>3, <1>4, ChatKeeps

LEMMA AgentEditsKeeps == ASSUME IInv, AgentEdits PROVE IInv'
<1>1. TypeOK
  BY Parts
<1>2. PICK a \in Action("move", Cards, Columns, 0 .. Cardinality(Cards))
                 \cup Action("create", {None}, Columns, {0})
                 \cup Action("delete", Cards, {None}, {0}) :
         \E lists \in Results(a) : ServerBecomes(lists)
  BY DEF AgentEdits
<1>3. IsAction(a)
  <2>1. Cardinality(Cards) \in Nat
    BY StartAssumption, FS_CardinalityType
  <2>2. a.kind \in {"move", "create", "delete"} /\ a.index \in 0 .. Cardinality(Cards) \cup {0}
    BY DEF Action
  <2> QED
    BY <2>1, <2>2 DEF IsAction
<1>4. IsBoard(server') /\ Shown(server') \subseteq made' /\ made' \subseteq Cards
  BY <1>1, <1>2, <1>3, ServerStaysBoard
<1>5. chat' = "changed" /\ UNCHANGED <<page, served, inOrder, unheard, runs, chats>>
  BY DEF AgentEdits
<1>6. unheard' \in BOOLEAN /\ chats' \in 0 .. MaxChats
  BY <1>1, <1>5 DEF TypeOK
<1> QED
  BY <1>4, <1>5, <1>6, ChatKeeps

LEMMA ChatAnsweredKeeps == ASSUME IInv, NEW r \in Runs, ChatAnswered(r) PROVE IInv'
<1>1. TypeOK
  BY Parts
<1>2. CASE chat = "changed"
  <2>1. Begin(r, None) /\ board' = board /\ chat' = "quiet"
    BY <1>2 DEF ChatAnswered
  <2> QED
    BY <1>1, <2>1, BeginKeeps DEF TypeOK
<1>3. CASE chat # "changed"
  <2>1. chat' = "quiet" /\ UNCHANGED <<server, made, page, served, inOrder, unheard, runs, chats>>
    BY <1>3 DEF ChatAnswered
  <2>2. /\ unheard' \in BOOLEAN /\ chats' \in 0 .. MaxChats
        /\ IsBoard(server') /\ Shown(server') \subseteq made' /\ made' \subseteq Cards
    BY <1>1, <2>1 DEF TypeOK
  <2> QED
    BY <1>3, <2>1, <2>2, ChatKeeps
<1> QED
  BY <1>2, <1>3

LEMMA ChatFailsKeeps == ASSUME IInv, ChatFails PROVE IInv'
<1>1. TypeOK
  BY Parts
<1>2. /\ chat' = "quiet" /\ unheard' = (unheard \/ chat = "changed")
      /\ UNCHANGED <<server, made, page, served, inOrder, runs, chats>>
  BY DEF ChatFails
<1>3. /\ unheard' \in BOOLEAN /\ chats' \in 0 .. MaxChats
      /\ IsBoard(server') /\ Shown(server') \subseteq made' /\ made' \subseteq Cards
  BY <1>1, <1>2 DEF TypeOK
<1> QED
  BY <1>2, <1>3, ChatKeeps

-----------------------------------------------------------------------------
(* The results.                                                            *)

\* The invariant of every behaviour of the page, its server and the assistant.
THEOREM Invariance == Spec => []IInv
<1>1. Init => IInv
  BY InitIInv
<1>2. IInv /\ [Next]_vars => IInv'
  <2> SUFFICES ASSUME IInv, [Next]_vars PROVE IInv'
    OBVIOUS
  <2>1. CASE Ask
    BY <2>1, AskKeeps
  <2>2. CASE AgentEdits
    BY <2>2, AgentEditsKeeps
  <2>3. CASE ChatFails
    BY <2>3, ChatFailsKeeps
  <2>4. ASSUME NEW r \in Runs, Step(r) PROVE IInv'
    <3>1. CASE Drag(r)
      BY <3>1, DragKeeps
    <3>2. CASE Press(r)
      BY <3>2, PressKeeps
    <3>3. CASE Serve(r)
      BY <3>3, ServeKeeps
    <3>4. CASE Answered(r) \/ Lost(r)
      BY <3>4, ActedKeeps DEF Answered, Lost
    <3>5. CASE ServeLoad(r)
      BY <3>5, ServeLoadKeeps
    <3>6. CASE LoadArrives(r)
      BY <3>6, LoadArrivesKeeps
    <3>7. CASE LoadFails(r)
      BY <3>7, LoadFailsKeeps
    <3>8. CASE ChatAnswered(r)
      BY <3>8, ChatAnsweredKeeps
    <3> QED
      BY <2>4, <3>1, <3>2, <3>3, <3>4, <3>5, <3>6, <3>7, <3>8 DEF Step
  <2>5. CASE UNCHANGED vars
    <3>1. UNCHANGED <<server, made, board, error, phase, call, failure, snapshot, chat, served,
                      inOrder, unheard, runs, chats>>
      BY <2>5 DEF vars, page
    <3>2. TypeOK /\ OrderInv /\ ActingInv
      BY Parts
    <3>3. TypeOK'
      BY <3>1, <3>2 DEF TypeOK
    <3>4. OrderInv'
      BY <3>1, <3>2 DEF OrderInv, Coming, Awaited
    <3>5. ActingInv'
      BY <3>1, <3>2 DEF ActingInv
    <3> QED
      BY <3>3, <3>4, <3>5, Parts
  <2> QED
    BY <2>1, <2>2, <2>3, <2>4, <2>5 DEF Next
<1> QED
  BY <1>1, <1>2, PTL DEF Spec

\* BoardPage.tsx:97-100, AssistantPanel.tsx:56-58: once all is answered, the GETs in order
\* and no change of the assistant unheard of, the page shows the board of the database.
THEOREM ServerShown == Spec => []ShowsTheServer
<1>1. IInv => ShowsTheServer
  <2> SUFFICES ASSUME IInv, AtRest, inOrder, ~unheard PROVE board = server
    BY DEF ShowsTheServer
  <2>1. TypeOK /\ OrderInv
    BY Parts
  <2>2. chat = "quiet" /\ \A r \in Runs : phase[r] = "idle"
    BY DEF AtRest, InFlight
  <2>3. served = <<>>
    BY <2>1, <2>2, ServedFacts
  <2>4. ~Awaited
    BY <2>2 DEF Awaited
  <2> QED
    BY <2>1, <2>3, <2>4 DEF OrderInv, Coming
<1> QED
  BY <1>1, Invariance, PTL

\* BoardPage.tsx:31-57: the rearrangement that a drag shows at once is the one that the
\* server makes of it, on every board and for every index.
THEOREM DragsAlike == Spec => SameRearrangement
<1>1. ASSUME IInv, [Next]_vars, NEW r \in Runs, phase[r] = "acting", phase'[r] = "done",
             call[r].kind = "move", call[r].shown = server
      PROVE  server' = applyMove(call[r].shown, call[r].card, call[r].into, call[r].index)
  <2>1. TypeOK /\ ActingInv
    BY <1>1, Parts
  <2>2. IsBoard(server) /\ call[r].index \in Nat
    BY <1>1, <2>1 DEF ActingInv, TypeOK, IsAction
  <2>3. ASSUME NEW q \in Runs, Step(q), ~Serve(q) PROVE phase'[r] # "done"
    BY <1>1, <2>1, <2>3 DEF Step, Drag, Press, Begin, Answered, Lost, Acted, AfterAction, ServeLoad,
       LoadArrives, LoadFails, Finish, ChatAnswered, page, TypeOK
  <2>4. PICK q \in Runs : Serve(q)
    BY <1>1, <2>3 DEF Next, Ask, AgentEdits, ChatFails, vars, page
  <2>5. q = r /\ phase' # [phase EXCEPT ![q] = "refused"]
    BY <1>1, <2>1, <2>4 DEF Serve, TypeOK
  <2>6. PICK lists \in Results(call[r]) : ServerBecomes(lists)
    BY <2>4, <2>5 DEF Serve
  <2>7. /\ server' = Moved(server, call[r].card, call[r].into, call[r].index)
        /\ Holds(server, call[r].card) /\ call[r].into \in DOMAIN server
    BY <1>1, <2>6, MoveResult DEF ServerBecomes
  <2> QED
    BY <1>1, <2>2, <2>7, MovesAlike
<1>2. IInv /\ [Next]_vars =>
         [\A r \in Runs :
             (phase[r] = "acting" /\ phase'[r] = "done" /\ call[r].kind = "move"
                /\ call[r].shown = server) =>
             server' = applyMove(call[r].shown, call[r].card, call[r].into, call[r].index)]_vars
  BY <1>1
<1> QED
  BY <1>2, Invariance, PTL DEF Spec, SameRearrangement
=============================================================================
