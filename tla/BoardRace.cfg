SPECIFICATION Spec
CONSTANTS
    u1 = u1
    u2 = u2
    b1 = b1
    b2 = b2
    b3 = b3
    Users = {u1}
    Boards = {b1}
    Columns = {c1, c2}
    Cards = {k1, k2, k3}
    Requests = {r1, r2}
    MaxIndex = 2
    MaxInFlight = 2
    Unborn = Unborn
    Gone = Gone
    None = None
    StartOwner <- OneBoard
    Layouts <- MCLayouts
    Kinds <- Reordering
SYMMETRY Symmetric
CHECK_DEADLOCK FALSE
INVARIANT PositionsContiguous
