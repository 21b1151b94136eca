SPECIFICATION Spec
CONSTANTS
  b1 = b1
  b2 = b2
  Branches <- MCBranches
  Checkpoint = checkpoint
  SingleShot = single
  None = None
INVARIANT PlainErrorLeavesNothing
CHECK_DEADLOCK FALSE
