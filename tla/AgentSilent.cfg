SPECIFICATION Spec
CONSTANTS
  todo = todo  done = done  elsewhere = elsewhere
  k1 = k1  k2 = k2  k3 = k3
  board = board  other = other
  Columns = {todo, done, elsewhere}
  Cards = {k1, k2, k3}
  Bound = board
  BoardOf <- Homes
  Reachable <- Owned
  Start <- Placed
  Unborn = Unborn  Gone = Gone  None = None
  AGENT_MAX_STEPS = 3
  AGENT_MAX_MUTATIONS = 2
  AGENT_MAX_DELETIONS = 1
  MaxCalls = 2
  MaxEdits = 1
INVARIANTS NothingSilent
