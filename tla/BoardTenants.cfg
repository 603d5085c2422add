SPECIFICATION Spec
CONSTANTS
    u1 = u1
    u2 = u2
    b1 = b1
    b2 = b2
    b3 = b3
    Users = {u1, u2}
    Boards = {b1, b2, b3}
    Columns = {c1, c2, c3}
    Cards = {k1, k2}
    Requests = {r1, r2}
    MaxIndex = 0
    MaxInFlight = 2
    Unborn = Unborn
    Gone = Gone
    None = None
    StartOwner <- ThreeBoards
    Layouts <- MCTenants
    Kinds <- Operations
SYMMETRY Symmetric
CHECK_DEADLOCK FALSE
INVARIANTS
    IInv
    SeesOnlyItsOwn
PROPERTIES
    WritesOnlyItsOwn
    StaysOnItsBoard
    OnlyDeletesRemove
    EachCardOnce
