SPECIFICATION MCSpec
CONSTANTS
  t1 = t1
  t2 = t2
  Issuances = {1, 2}
  Targets = {t1, t2}
  Deliveries = {1, 2}
  Customers = {acme, umbrella}
  Subject = acme
  Bound <- MCBound
  None = None
  Workers = {w1, w2}
  Sessions = {s1, s2}
  Handoffs = {TRUE, FALSE}
  MaxAttempts = 2
  Budgets <- LegacyBudgets
INVARIANT
  ActiveMeansCommitted
CHECK_DEADLOCK FALSE
