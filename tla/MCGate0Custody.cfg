SPECIFICATION CustodyFairSpec
CONSTANTS
  Callers = {c1, c2}
  NoOne = NoOne
  MaxVersion = 2
  Published <- Later
  MinVersion = 1
  Leases = {2}
  Budgets = {5}
  MaxUses = 6
  Life = 2
  MaxSteps = 1
INVARIANTS
  ClosedMeansUnavailable
PROPERTIES
  CallsEnd
CHECK_DEADLOCK FALSE
