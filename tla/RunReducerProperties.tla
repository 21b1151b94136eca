------------------------ MODULE RunReducerProperties ------------------------
(***************************************************************************)
(* What the run aggregate must keep to, whatever events reach it.          *)
(***************************************************************************)
EXTENDS RunReducer

Candidate == [state: CandidateStates, op: Operations \cup {None}, gates: Seq(GateResult),
              score: Score \cup {None}, failure: CandidateFailures]

Commands ==
  [kind: {"resolve-source", "inventory-source", "specify-migration",
          "create-base-checkpoint", "evaluate-candidates", "run-final-falsifier",
          "score-candidates", "decide-verdict"}]
  \cup [kind: {"patch-candidate", "build-candidate", "verify-candidate",
               "falsify-candidate"}, candidate: Strategies]
  \cup [kind: {"retry-stage"}, stage: Stages, number: Nat]
  \cup [kind: {"cancel-active-operations"}, operations: SUBSET Operations]

\* The shape of the machine state and of the commands it returns.
TypeOK ==
  /\ runState \in RunStates \cup {"NONE"}
  /\ request \in RunRequests \cup {None}
  /\ (runState = "NONE") <=> (request = None)
  /\ source \in Revisions \cup {None}
  /\ checkpoint \in Revisions \cup {None}
  /\ DOMAIN candidates \subseteq Strategies
  /\ candidates \in [DOMAIN candidates -> Candidate]
  /\ verdict \in {NoVerdict} \cup SelectedVerdicts \cup AbstainedVerdicts
  /\ failure \in {"none", "reported"} \cup Stages
  /\ lastEventId \in Nat
  /\ processedEventKeys \in [DOMAIN processedEventKeys -> Nat]
  /\ retryCounts \in [Stages -> Nat]
  /\ commands \subseteq Commands

\* Every event is applied at most once and in order.  Whatever changes the machine, in
\* any part of it, is a new event: its key is on no record yet, its ID is higher than
\* the ID of every event applied before, and it is entered beside the earlier ones,
\* whose entries never change.  A repeated key, a repeated ID or a late delivery that
\* slipped past the checks at the head of reduceRunEvent would break it.
AppliedOnce ==
  [][\E key \in DOMAIN processedEventKeys' \ DOMAIN processedEventKeys :
       /\ DOMAIN processedEventKeys' = DOMAIN processedEventKeys \cup {key}
       /\ processedEventKeys'[key] = lastEventId'
       /\ \A k \in DOMAIN processedEventKeys :
            /\ processedEventKeys'[k] = processedEventKeys[k]
            /\ processedEventKeys[k] < lastEventId']_vars

\* A selected run rests on evidence: the winner holds a passed result for every
\* hard gate the run configured, although sameSet alone accepts a report that
\* repeats one gate and omits another; all its rivals have settled; it has been
\* scored as eligible; and the checkpoint it was forked from is of the run's source.
SelectionSound ==
  verdict.kind = "selected" =>
    LET winner == candidates[verdict.winner]
    IN  /\ verdict.winner \in request.strategies
        /\ winner.state = "ELIGIBLE"
        /\ \A g \in request.hardGates :
             \E i \in DOMAIN winner.gates : winner.gates[i] = [gate |-> g, status |-> "passed"]
        /\ \A i \in DOMAIN winner.gates : winner.gates[i].status = "passed"
        /\ winner.score # None /\ winner.score.eligible
        /\ AllTerminal(candidates)
        /\ checkpoint = source /\ source # None

\* A verdict accounts for every configured strategy exactly once, under the
\* outcome its candidate reached: no branch is dropped from the report.
OutcomesPartition ==
  verdict.kind # "none" =>
    LET lists == verdict.lists
    IN  /\ lists.eligible \cup lists.rejected \cup lists.inconclusive = request.strategies
        /\ lists.eligible \cap lists.rejected = {}
        /\ lists.eligible \cap lists.inconclusive = {}
        /\ lists.rejected \cap lists.inconclusive = {}
        /\ \A c \in lists.eligible : candidates[c].state = "ELIGIBLE"
        /\ \A c \in lists.rejected : candidates[c].state = "REJECTED"
        /\ \A c \in lists.inconclusive : candidates[c].state = "INCONCLUSIVE"

\* Scores arrive together and agree with the gates, also in a run that is canceled
\* or fails after scoring: either no candidate is scored or all are, a candidate is
\* scored eligible exactly when its gates made it ELIGIBLE, and the eligible are
\* ranked without ties.
ScoresAgreeWithGates ==
  LET scored == {c \in DOMAIN candidates : candidates[c].score # None}
      ranked == InState({"ELIGIBLE"})
  IN  scored # {} =>
        /\ scored = DOMAIN candidates /\ AllTerminal(candidates)
        /\ \A c \in scored : candidates[c].score.eligible <=> c \in ranked
        /\ \A c \in ranked : candidates[c].score.rank # None
        /\ \A c, d \in ranked : candidates[c].score.rank = candidates[d].score.rank => c = d

\* A stage is retried at most maxRetries times over the whole run; the failure that
\* exceeds the budget ends the run and is the one it names.  Counts are never
\* reset, and candidate-execution shares one count over the two states in which it
\* may fail.
RetryBudget ==
  runState # "NONE" =>
    \A s \in Stages :
      /\ retryCounts[s] <= request.maxRetries + 1
      /\ retryCounts[s] = request.maxRetries + 1 <=> failure = s
      /\ failure = s => runState = "FAILED"

\* evaluate-candidates is issued by the event that settles the last candidate and by
\* no other, in whichever order the candidates finish: never early, never twice.
EvaluateIssuedOnce ==
  [][lastEventId' # lastEventId =>
       (Command("evaluate-candidates") \in commands'
          <=> ~AllTerminal(candidates) /\ AllTerminal(candidates'))]_vars

\* An operation that some candidate has recorded is never forgotten by the run, so
\* a later cancellation still names it; only a new operation of the same candidate
\* replaces it.
OperationsKept ==
  [][\A c \in DOMAIN candidates :
       candidates[c].op # None => c \in DOMAIN candidates' /\ candidates'[c].op # None]_vars

\* No state is a dead end: while the adapters keep answering, a run that was
\* received is selected, abstained, canceled or failed in the end, whatever the
\* candidates' outcomes.
Settles == runState # "NONE" ~> runState \in TerminalRunStates

\* prd.md's rule for hard gates, read on the record: once a candidate's gate report
\* holds a failure, the candidate does not become eligible.  The reducer keeps only
\* the last report of a candidate that has not settled.
FailedGateIsFinal ==
  [][\A c \in DOMAIN candidates :
       /\ \E i \in DOMAIN candidates[c].gates : candidates[c].gates[i].status = "failed"
       => candidates'[c].state # "ELIGIBLE"]_vars

-----------------------------------------------------------------------------
(* What makes the properties above inductive: the run state says how far the *)
(* candidates are.                                                         *)

BeforeCandidates == {"NONE", "RECEIVED", "SOURCE_RESOLVED", "INVENTORIED", "SPECIFIED"}
Judged == {"CANDIDATES_EVALUATED", "FALSIFIED", "SCORED", "SELECTED", "ABSTAINED"}
Scored == {"SCORED", "SELECTED", "ABSTAINED"}
Unscored == BeforeCandidates \cup
  {"BASE_CHECKPOINT_READY", "CANDIDATES_RUNNING", "CANDIDATES_EVALUATED", "FALSIFIED"}

\* The candidates are those of the request, forked from the run's source, and have
\* come as far as the run state says.
CandidatesInStep ==
  /\ runState \in BeforeCandidates => DOMAIN candidates = {}
  /\ DOMAIN candidates # {} =>
       DOMAIN candidates = request.strategies /\ checkpoint = source /\ source # None
  /\ runState = "BASE_CHECKPOINT_READY" => InState({"QUEUED"}) = DOMAIN candidates
  /\ runState \in Judged => AllTerminal(candidates)

\* An eligible candidate carries a report that sameSet accepted.
EligibleReported ==
  \A c \in DOMAIN candidates :
    candidates[c].state = "ELIGIBLE" => SameSet(GateNames(candidates[c].gates), request.hardGates)

\* There are no scores before scoring.completed; after it every candidate has one.
ScoresInStep ==
  /\ runState \in Unscored => \A c \in DOMAIN candidates : candidates[c].score = None
  /\ runState \in Scored => \A c \in DOMAIN candidates : candidates[c].score # None
  /\ ScoresAgreeWithGates

\* A stored verdict agrees with the candidates it lists.
VerdictInStep == verdict.kind # "none" => VerdictListsMatchCandidates(verdict.lists)

\* No event on record lies beyond the last one.
RecordInStep == \A k \in DOMAIN processedEventKeys : processedEventKeys[k] <= lastEventId

\* Nothing has failed before there is a run.
RetriesInStep == RetryBudget /\ (runState = "NONE" => retryCounts = [s \in Stages |-> 0])

RunInv ==
  /\ TypeOK /\ RunParses
  /\ CandidatesInStep /\ EligibleReported /\ ScoresInStep /\ VerdictInStep
  /\ RetriesInStep

-----------------------------------------------------------------------------
(* The contract, with the event machinery hidden *)

PhaseOf(s) ==
  CASE s = "NONE" -> "idle"
    [] s \in {"RECEIVED", "SOURCE_RESOLVED", "INVENTORIED", "SPECIFIED"} -> "preparing"
    [] s \in {"BASE_CHECKPOINT_READY", "CANDIDATES_RUNNING"} -> "racing"
    [] s \in {"CANDIDATES_EVALUATED", "FALSIFIED", "SCORED"} -> "judging"
    [] s = "CANCELING" -> "stopping"
    [] OTHER -> "ended"

OutcomeOf(s) == IF s \in TerminalCandidateStates THEN s ELSE "open"

Contract == INSTANCE RunContract WITH
  phase <- PhaseOf(runState),
  outcome <- [c \in DOMAIN candidates |-> OutcomeOf(candidates[c].state)],
  winner <- IF verdict.kind = "selected" THEN verdict.winner ELSE None

\* The reducer implements the contract: one settlement per strategy, judgement only
\* after the last one, a winner only from the eligible, nothing after the end.
ContractSpec == Contract!Spec
=============================================================================
