SPECIFICATION Spec
CONSTANTS
  Writers = {w1}
  Outsiders = {m1}
  Unfenceable = {}
  PUBLIC = PUBLIC
  Owner = Owner
  Stranger = Stranger
  MaxCalls = 3
  MaxDrift = 0
  MaxTries = 1
INVARIANTS
  FencedMeansQuiet
  RestoredIsOriginal
PROPERTY ImplementsContract
CHECK_DEADLOCK FALSE
