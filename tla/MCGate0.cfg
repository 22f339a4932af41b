SPECIFICATION Spec
CONSTANTS
  None = None
  Life = 3
  MaxSteps = 1
  Sessions = {s1, s2}
  Decisions = {d1, d2}
  First = d1
  WindowLife = 3
  ProofLife = 1
  AuthLife = 2
  MaxProofs = 2
  MaxCommands = 2
CONSTRAINT StillRunning
SYMMETRY Symmetry
INVARIANTS
  
  MutationIsStanding
  FreshPossession
  RefusedMeansUncommitted
CHECK_DEADLOCK FALSE
