----------------------------- MODULE MCLiveTrial -----------------------------
(***************************************************************************)
(* The live driver with two of its strategies and its ten hard gates, a    *)
(* suite of two cases, and branches that pass in one or two units of time, *)
(* fail a check, or bring nothing back.                                    *)
(***************************************************************************)
EXTENDS LiveRecord

MCOrder == <<"minimal-compatibility", "prompt-schema-adaptation">>
MCStrategies == Range(MCOrder)
MCGates == Range(HardGateOrder)

MCCases == 2

AllChecks ==
  {"build", "original-tests", "schema", "tool-calls", "streaming-retry", "security",
   "secret-scan", "harness-integrity"}

MCOutcomes ==
  {[status |-> "SUCCESS", passed |-> AllChecks, duration |-> 1],
   [status |-> "SUCCESS", passed |-> AllChecks, duration |-> 2],
   [status |-> "SUCCESS", passed |-> AllChecks \ {"harness-integrity"}, duration |-> 1],
   [status |-> "SUCCESS", passed |-> AllChecks \ {"build", "schema"}, duration |-> 2],
   [status |-> "FAILED", passed |-> {}, duration |-> 0]}

MCSources == {[kind |-> "fixture", id |-> k] : k \in 1 .. MCCases}
MCRequests ==
  [mode : {"live"}, source : MCSources, strategies : {MCStrategies}, hardGates : {MCGates},
   maxRetries : {2}]

\* The reports the driver makes, from which the reducer's action chooses.
MCGateReports == {<<>>} \cup {GateReport(o) : o \in MCOutcomes}

MCEnvelopes == {<<n, n>> : n \in 1 .. EventCount}
=============================================================================
