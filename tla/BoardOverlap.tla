---------------------------- MODULE BoardOverlap ----------------------------
(***************************************************************************)
(* BoardService with a history of which requests overlapped.  Nothing in   *)
(* the services stops two requests from working on one board at once, and  *)
(* ordering.py renumbers from what a request has read, so positions can    *)
(* come out wrong (see PositionsContiguous).  The history says when: a     *)
(* board is raced once a request has written to it that another request's  *)
(* commit overtook.                                                        *)
(***************************************************************************)
EXTENDS BoardServiceImplements

VARIABLES home,       \* the board each request has found its row on
          overtaken,  \* the requests another one has overtaken on that board
          raced       \* the boards that an overtaken request has written to

history == <<home, overtaken, raced>>

Changes == parent' # parent \/ position' # position

Record(r) ==
    /\ home' = [home EXCEPT ![r] =
                   IF pc'[r] \notin Waiting THEN None
                   ELSE IF pc[r] = "lookup" THEN BoardOf(call[r].row) ELSE @]
    /\ overtaken' =
          {q \in overtaken : pc'[q] \in Waiting}
          \cup {q \in InFlight \ {r} : Changes /\ home[q] # None /\ home[q] = home[r]}
    /\ raced' = raced \cup IF Changes /\ r \in overtaken THEN {home[r]} ELSE {}

OverlapInit == Init /\ home = [r \in Requests |-> None] /\ overtaken = {} /\ raced = {}

OverlapNext == \E r \in Requests : Step(r) /\ Record(r)

OverlapSpec == OverlapInit /\ [][OverlapNext]_<<vars, history>>

\* The positions on a board stay 0..n-1 whatever goes on elsewhere, and whatever goes
\* on at that board, until a request commits there after another's commit has made
\* what it read out of date.
ContiguousUnlessRaced ==
    \A p \in Holders :
        (Live(p) /\ BoardOf(p) \notin raced) => Contiguous(Children(p), position)

\* A request that has found its row and not yet written.
Working(r) == pc[r] \in Waiting \ {"lookup", "refresh"} /\ call[r].op # "create_board"

\* Whatever it has read is on the board it found its row on.
AtHome(r, x, p) ==
    /\ x \in Boards => x = home[r]
    /\ x \in Columns => p = home[r]
    /\ x \in Cards => /\ Live(x) => BoardOf(x) = home[r]
                      /\ Live(p) => BoardOf(p) = home[r]

HomeInv(r) ==
    Working(r) => /\ home[r] \in Boards /\ parent[home[r]] # Unborn
                  /\ \A x \in Loaded(r) : AtHome(r, x, seenParent[r][x])

\* The calls that read a list before they write.
Listing == {"create_column", "move_column", "delete_column",
            "create_card", "move_card", "delete_card"}

\* And until another request's commit overtakes it there, it is as it was read.
CurrentInv(r) ==
    Working(r) /\ r \notin overtaken =>
        /\ \A x \in Loaded(r) : /\ Live(x) /\ seenParent[r][x] = parent[x]
                                /\ seenPosition[r][x] = position[x]
        /\ pc[r] \in {"listTarget", "commit"} /\ call[r].op \in Listing =>
              siblings[r] \in Listings(ListedParent(r))
        /\ pc[r] = "commit" /\ MovesAcross(r) => targets[r] \in Listings(call[r].into)

\* The inductive invariant behind it: a request that has not been overtaken writes
\* from the lists as they are.
OverlapInv ==
    /\ IInv /\ ContiguousUnlessRaced
    /\ home \in [Requests -> Boards \cup {None}]
    /\ overtaken \subseteq Requests /\ raced \subseteq Boards \cup {None}
    /\ \A r \in Requests : HomeInv(r) /\ CurrentInv(r)

\* So long as that has not happened the services implement KanbanLists: requests one at
\* a time, and requests that overlap in any other way, take effect at once, each on the
\* list as it then is, and keep the order of everything else; every other step, refusal
\* and abort changes nothing.
AtomicUntilRaced == Lists!Init /\ [][raced' = {} => [Lists!Next]_(Lists!vars)]_<<vars, history>>

\* columns.py:65-74, cards.py:83-119: and a column or card that is moved ends at the index
\* asked for, or at the end of a list that is shorter.  (A move that is overtaken may find
\* nothing to write, and is answered well with the row somewhere else.)
LandsWhereAsked ==
    [][\A r \in InFlight :
          /\ raced' = {} /\ r \notin overtaken
          /\ call[r].op \in {"move_column", "move_card"} /\ pc[r] = "commit" /\ pc'[r] = "refresh"
          => LET row  == call[r].row
                 list == {x \in Rows : parent'[x] = parent'[row]}
             IN  /\ position'[row] = Clamp(call[r].index, Cardinality(list) - 1)
                 /\ call[r].op = "move_card" => parent'[row] = call[r].into]_<<vars, history>>
=============================================================================
