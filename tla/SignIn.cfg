SPECIFICATION Spec
CONSTANTS
  Tabs = {tab1, tab2}
  Accounts = {u1, u2}
  Registered = {u1}
  MaxInFlight = 2
  MaxSends = 4
  MaxSessions = 3
  None = None
CHECK_DEADLOCK FALSE
INVARIANTS IInv ShowsWhoItActsFor OwnRequestsPass
PROPERTIES FalseSignOutCauses CheckEnds
