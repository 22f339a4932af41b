SPECIFICATION AgentSpec
CONSTANTS
  Keys = {k1}
  Pubs = {p1}
  k1 = k1
  Images = {m0, m1}
  RunningImages = {m0}
  Commands = {c1, c2}
  Reports = {e1, e2}
  Actors = {a1}
  Says = {"applied", "refused"}
  Scopes <- Campaigns
  ChalLife = 1
  MaxTime = 1
  MaxEvents = 7
  MaxOf <- Most
  MaxFaults = 1
INVARIANTS
  PublishedBeforeServed
  CommandIsOneEnvelope
  OnlyLateActivationsRefused
PROPERTIES
  BaselineNeverRegresses
CONSTRAINT Followed
SYMMETRY Symmetry
CHECK_DEADLOCK FALSE
