SPECIFICATION Spec
CONSTANTS
  s1 = s1
  s2 = s2
  g1 = g1
  g2 = g2
  fixtureA = fixtureA
  repoB = repoB
  None = None
  MaxEventId = 12
  MaxIdGap = 1
  MCKeys = {}
  Strategies <- MCStrategies
  Gates <- MCGates
  Operations = {op1}
  SourceRequests <- MCSourceRequests
  Revisions = {r1}
  Ranks = {1, 2}
  RunRequests <- MCSoloRequests
  GateReports <- MCShortReports
  FailingStages = {"candidate-execution", "verdict"}
  Envelopes <- MCNumbered
PROPERTY FailedGateIsFinal
CHECK_DEADLOCK FALSE
