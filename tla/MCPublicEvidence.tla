-------------------------- MODULE MCPublicEvidence --------------------------
(***************************************************************************)
(* Promotion and its readers on a small instance: two sound suites of two  *)
(* cases in one setting, so that a reader may meet both, and one of which  *)
(* a trial left a sandbox behind.  Suites of two cases with two candidates *)
(* each tell apart what the checks tell apart.                             *)
(***************************************************************************)
EXTENDS PublicEvidence

MCCandidate(n) ==
  [id |-> n, operation |-> n, source |-> n, diff |-> n, checkpoint |-> "image"]

MCTrial(suiteId, i) ==
  [run |-> <<suiteId, i>>, revision |-> "commit", fixture |-> i, input |-> 0,
   model |-> "nemotron", smoke |-> "smoke", checkpoint |-> "image",
   candidates |-> <<MCCandidate(1), MCCandidate(2)>>, baselineOperation |-> 3,
   selected |-> IF i = 1 THEN 1 ELSE None, eligible |-> IF i = 1 THEN {1} ELSE {},
   cleanupComplete |-> suiteId # 3]

MCCase(suiteId, i) ==
  [caseId |-> i, family |-> i, run |-> <<suiteId, i>>, fixture |-> i, input |-> 0,
   checkpoint |-> "image", operations |-> <<1, 2>>,
   baseline |-> [checkpoint |-> "image", operation |-> 3, source |-> 4]]

MCSuites == 1 .. 3

MCRecord ==
  [s \in MCSuites |->
     [revision |-> "commit", model |-> "nemotron", smoke |-> "smoke",
      smokeModel |-> "nemotron",
      cases |-> [i \in 1 .. 2 |-> MCCase(s, i)],
      trials |-> [i \in 1 .. 2 |-> MCTrial(s, i)]]]

\* The second of the paths the web application tries is the one that finds a case.
MCCasePaths == <<3, 2>>

\* A primary run, the run of another case, and one that was never promoted.
MCWanted == {<<1, 1>>, <<1, 2>>, <<0, 0>>}
=============================================================================
