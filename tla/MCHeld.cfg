SPECIFICATION Spec
CONSTANTS
  Agreements = {a}
  Plans = {p}
  Requests = {q1, q2}
  Commands = {c1}
  Sessions = {s1, s2}
  MaxTries = 1
  None = None
CONSTRAINT OneChain
SYMMETRY Symmetry
INVARIANTS
  NotCarriedIsFinal
  ToldMeansDone
PROPERTIES
  MovesUnderStandingDecision
CHECK_DEADLOCK FALSE
