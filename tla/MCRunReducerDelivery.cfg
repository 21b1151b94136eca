SPECIFICATION Spec
CONSTANTS
  s1 = s1
  s2 = s2
  g1 = g1
  g2 = g2
  fixtureA = fixtureA
  repoB = repoB
  None = None
  MaxEventId = 9
  MaxIdGap = 2
  MCKeys = {k1, k2, k3, k4, k5, k6}
  k1 = k1
  k2 = k2
  k3 = k3
  k4 = k4
  k5 = k5
  k6 = k6
  Strategies <- MCStrategies
  Gates <- MCGates
  Operations = {op1}
  SourceRequests <- MCSourceRequests
  Revisions = {r1}
  Ranks = {1, 2}
  RunRequests <- MCSoloRequests
  GateReports <- MCShortReports
  FailingStages <- Stages
  Envelopes <- MCAnyEnvelope
SYMMETRY MCKeySymmetry
PROPERTY AppliedOnce
CHECK_DEADLOCK FALSE
