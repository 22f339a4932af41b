SPECIFICATION MCSpec
CONSTANTS
  k = k
  m = m
  u = u
  stranger = stranger
  b0 = b0
  b1 = b1
  bu = bu
  bm = bm
  bc = bc
  bt = bt
  Kernel = k
  Modules = {m}
  Public = {u}
  Bytes = {b0, b1, bu, bm, bc, bt}
  Base = b0
  Unframed = {bu}
  Misnamed = {bm}
  RequiresDist <- MCRequiresDist
  Normalised <- MCNormalised
  Locks <- MCLocks
  MaxRepublish = 1
  MaxAttempts = 2
  None = None
INVARIANTS
  ReleasedHashesAreBytes
  LockAnswersForManifest
  NothingPrivateIsBuilt
CHECK_DEADLOCK FALSE
