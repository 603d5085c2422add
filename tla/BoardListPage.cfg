SPECIFICATION Spec
CONSTANTS
  Texts = {a, b}
  MaxInFlight = 2
  MaxRuns = 4
  None = None
CHECK_DEADLOCK FALSE
INVARIANTS IInv ListsWhatIsThere OncePerText
PROPERTIES EmptiedOnlyIfCreated LoadingEnds
