SPECIFICATION FairSpec
CONSTANTS
  s1 = s1
  s2 = s2
  g1 = g1
  g2 = g2
  fixtureA = fixtureA
  repoB = repoB
  None = None
  MaxEventId = 20
  MaxIdGap = 1
  MCKeys = {}
  Strategies <- MCStrategies
  Gates <- MCGates
  Operations = {op1}
  SourceRequests <- MCSourceRequests
  Revisions = {r1}
  Ranks = {1, 2}
  RunRequests <- MCRunRequests
  GateReports <- MCGateReports
  FailingStages = {"candidate-execution"}
  Envelopes <- MCNumbered
INVARIANT TypeOK SelectionSound OutcomesPartition ScoresAgreeWithGates RetryBudget
PROPERTY EvaluateIssuedOnce OperationsKept ContractSpec Settles
CHECK_DEADLOCK FALSE
