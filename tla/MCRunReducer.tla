---------------------------- MODULE MCRunReducer ----------------------------
(***************************************************************************)
(* RunReducer on small instances.  Two candidates and two hard gates are   *)
(* enough for candidates to finish in either order and with different      *)
(* outcomes, and for a gate report to repeat one gate and miss the other.  *)
(***************************************************************************)
EXTENDS RunReducerProperties, TLC

CONSTANTS s1, s2, g1, g2, fixtureA, repoB, MaxEventId

fixtureRequest == [kind |-> "fixture", id |-> fixtureA]
repoRequest == [kind |-> "github", id |-> repoB]
MCSourceRequests == {fixtureRequest, repoRequest}

MCStrategies == {s1, s2}
MCGates == {g1, g2}

MCRunRequest(mode, src, strategies, gates, retries) ==
  [mode |-> mode, source |-> src, strategies |-> strategies, hardGates |-> gates,
   maxRetries |-> retries]

\* Two candidates and one retry; a replay of a repository, which must be refused.
MCRunRequests ==
  {MCRunRequest("live", fixtureRequest, {s1, s2}, {g1, g2}, 1),
   MCRunRequest("replay", repoRequest, {s1}, {g1}, 0)}

\* One candidate under one gate, with and without a retry.
MCSoloRequests ==
  {MCRunRequest("live", repoRequest, {s1}, {g1}, n) : n \in {0, 1}}

Result(g, status) == [gate |-> g, status |-> status]

\* No report, a partial one, one with a failure, a full pass, and one that repeats
\* a gate.
MCGateReports ==
  {<<>>,
   <<Result(g1, "passed")>>,
   <<Result(g1, "passed"), Result(g2, "failed")>>,
   <<Result(g1, "passed"), Result(g2, "passed")>>,
   <<Result(g1, "passed"), Result(g1, "passed")>>}

MCShortReports == {<<>>, <<Result(g1, "passed")>>, <<Result(g1, "failed")>>}

\* The orchestrator's numbering: event n carries the key derived from n.
MCNumbered == {<<n, n>> : n \in 1..MaxEventId}

\* Any key under any ID: lost, repeated, reordered and conflicting deliveries.
CONSTANT MCKeys
MCAnyEnvelope == (1..MaxEventId) \X MCKeys
MCKeySymmetry == Permutations(MCKeys)
=============================================================================
