SPECIFICATION MCSpec
CONSTANTS
  t1 = t1
  t2 = t2
  r1 = r1
  r2 = r2
  r3 = r3
  r4 = r4
  r5 = r5
  Transitions = {t1, t2}
  Recoveries = {r1, r2, r3, r4, r5}
  None = None
  MaxBeats = 1
INVARIANTS
  PublicOnlyBehindGate
  FailureIsContained
  RollbackPointKept
  OneSuccessor
  ReceiptNeverRefused
  MutationNeverReleased
PROPERTIES
  ExecutionEnds
CHECK_DEADLOCK FALSE
