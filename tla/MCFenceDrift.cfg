SPECIFICATION FairSpec
CONSTANTS
  Writers = {w1}
  Outsiders = {m1}
  Unfenceable = {m1}
  PUBLIC = PUBLIC
  Owner = Owner
  Stranger = Stranger
  MaxCalls = 2
  MaxDrift = 1
  MaxTries = 1
PROPERTIES
  GrantsOnlyWhatWasRecorded
  CallsReturn
CHECK_DEADLOCK FALSE
