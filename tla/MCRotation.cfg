SPECIFICATION FairHostSpec
CONSTANTS
  Old = Old
  Foreign = Foreign
  None = None
  Fresh = {n1}
  Mishaps <- MishapKinds
  MaxFaults = 2
  MaxEdits = 1
  MaxVersions = 2
  MaxWriters = 2
INVARIANT ProvedIsInstalled
INVARIANT CandidateIsRecoverable
INVARIANT DispatcherIsAccepted
PROPERTY NoLostUpdate
PROPERTY RetryConverges
CHECK_DEADLOCK FALSE
