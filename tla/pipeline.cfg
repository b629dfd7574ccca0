SPECIFICATION Spec
CONSTANTS
  Restarts = TRUE
  m1 = m1
  m2 = m2
  Moves <- TwoMoves
  Modes <- AllModes
  MaxClock = 1
  MaxStateAge = 0
SYMMETRY MoveSymmetry
INVARIANTS
  PipelineTypeOK
  OwnPlanMoves
  StandingLockBlocks
PROPERTIES ImplementsPermit
