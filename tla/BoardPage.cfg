SPECIFICATION Spec
CONSTANTS
  todo = todo  done = done
  k1 = k1  k2 = k2
  Columns = {todo, done}
  Cards = {k1, k2, k3}
  Start <- TwoCards
  Runs = {r1, r2}
  MaxRuns = 3
  MaxChats = 1
  None = None
SYMMETRY Symmetric
CHECK_DEADLOCK FALSE
INVARIANTS IInv ShowsTheServer
PROPERTY SameRearrangement
