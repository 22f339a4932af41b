SPECIFICATION FairSpec
CONSTANTS
  Plans = {1, 2}
  Requests = {1, 2}
  Commands = {c1, c2}
  Sessions = {s1}
  Workers = {w1, w2}
  Payloads = {g, x, y}
  Genuine = g
  Sound = {g, x}
  None = None
  MaxAttempts = 2
  Budgets <- MCBudgets
INVARIANTS
  OutcomeIsTrue
  HealthIsRed
PROPERTIES
  WithdrawalTakesEffect
CHECK_DEADLOCK FALSE
