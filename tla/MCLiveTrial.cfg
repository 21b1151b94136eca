SPECIFICATION DriverSpec
CONSTANTS
  None = None
  Order <- MCOrder
  Outcomes <- MCOutcomes
  Cases <- MCCases
  MaxSmokes = 2
  MaxFaults = 1
  Strategies <- MCStrategies
  Gates <- MCGates
  Operations = {1, 2}
  SourceRequests <- MCSources
  Revisions = {1, 2}
  Ranks = {1, 2}
  RunRequests <- MCRequests
  GateReports <- MCGateReports
  FailingStages = {}
  Envelopes <- MCEnvelopes
  MaxIdGap = 1
  Observed = 2
INVARIANT NeverRefused DispositionsAgree VerdictIsEarned SummaryIsReplayable SuiteOfCleanTrials
PROPERTY DriverRecordSpec
CHECK_DEADLOCK FALSE
