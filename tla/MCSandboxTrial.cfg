SPECIFICATION FairSpec
CONSTANTS
  b1 = b1
  b2 = b2
  Branches <- MCBranches
  Checkpoint = checkpoint
  SingleShot = single
  None = None
INVARIANT TypeOK RecordedCleanup SiblingsCompared NoCallLeftBehind
PROPERTY CreationCleansUp TrialEnds
CHECK_DEADLOCK FALSE
