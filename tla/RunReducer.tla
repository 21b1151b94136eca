----------------------------- MODULE RunReducer -----------------------------
(***************************************************************************)
(* The run aggregate of packages/agent-core: reduceRunEvent, the pure      *)
(* function through which every orchestration event passes.  One action    *)
(* per event type; an event the reducer rejects, or answers with a no-op,  *)
(* returns the machine state it was given and is therefore a stuttering    *)
(* step here.                                                              *)
(*                                                                         *)
(* Events come from adapters the reducer does not trust: any payload the   *)
(* event schemas admit may be delivered, under any envelope (event ID and  *)
(* event key), in any order.                                               *)
(*                                                                         *)
(* Left out because no decision of the reducer reads it, or only to refuse *)
(* a malformed value: timestamps, evidence IDs, artifact IDs, messages,    *)
(* retry delays, and the command metadata that repeats the event's IDs.     *)
(***************************************************************************)
EXTENDS Naturals, Sequences, FiniteSets, Functions

CONSTANTS
  Strategies,    \* CandidateStrategySchema; a candidate is named by its strategy
  Gates,         \* HardGateNameSchema
  Operations,    \* sandbox operation IDs that candidate events may carry
  SourceRequests, \* what a run may be asked to migrate: fixtures and repositories
  Revisions,     \* revisions a source may resolve to
  Ranks,         \* ranks a score may carry
  RunRequests,   \* payloads of run.received: what is asked and the configuration
  GateReports,   \* hard-gate arrays that candidate events may carry
  FailingStages, \* stages that may report a failure
  Envelopes,     \* <<event ID, event key>> pairs that may be delivered
  MaxIdGap,      \* how far past the last applied ID an event's ID may lie
  None           \* null

RunStates == {"RECEIVED", "SOURCE_RESOLVED", "INVENTORIED", "SPECIFIED",
  "BASE_CHECKPOINT_READY", "CANDIDATES_RUNNING", "CANDIDATES_EVALUATED",
  "FALSIFIED", "SCORED", "SELECTED", "ABSTAINED", "CANCELING", "CANCELED",
  "FAILED"}

TerminalRunStates == {"SELECTED", "ABSTAINED", "CANCELED", "FAILED"}

CandidateStates == {"QUEUED", "PATCHING", "BUILDING", "VERIFYING", "FALSIFYING",
  "ELIGIBLE", "REJECTED", "INCONCLUSIVE"}

TerminalCandidateStates == {"ELIGIBLE", "REJECTED", "INCONCLUSIVE"}

CandidateTransitions == [s \in CandidateStates |->
  CASE s = "QUEUED"     -> {"PATCHING"}
    [] s = "PATCHING"   -> {"BUILDING", "REJECTED", "INCONCLUSIVE"}
    [] s = "BUILDING"   -> {"VERIFYING", "REJECTED", "INCONCLUSIVE"}
    [] s = "VERIFYING"  -> {"FALSIFYING", "REJECTED", "INCONCLUSIVE"}
    [] s = "FALSIFYING" -> {"ELIGIBLE", "REJECTED", "INCONCLUSIVE"}
    [] OTHER            -> {}]

Stages == {"source-resolution", "inventory", "specification", "base-checkpoint",
  "candidate-execution", "candidate-evaluation", "falsification", "scoring", "verdict"}

StageStates == [s \in Stages |->
  CASE s = "source-resolution"    -> {"RECEIVED"}
    [] s = "inventory"            -> {"SOURCE_RESOLVED"}
    [] s = "specification"        -> {"INVENTORIED"}
    [] s = "base-checkpoint"      -> {"SPECIFIED"}
    [] s = "candidate-execution"  -> {"BASE_CHECKPOINT_READY", "CANDIDATES_RUNNING"}
    [] s = "candidate-evaluation" -> {"CANDIDATES_RUNNING"}
    [] s = "falsification"        -> {"CANDIDATES_EVALUATED"}
    [] s = "scoring"              -> {"FALSIFIED"}
    [] s = "verdict"              -> {"SCORED"}]

GateStatuses == {"passed", "failed", "inconclusive"}
GateResult == [gate: Gates, status: GateStatuses]

CandidateFailures == {"none", "behavioral", "infrastructure"}

\* An ineligible candidate cannot be ranked (the schema of a score).
Score == [eligible: {TRUE}, rank: Ranks \cup {None}]
           \cup [eligible: {FALSE}, rank: {None}]

AbstentionReasons == {"all-candidates-failed", "insufficient-evidence",
  "no-trustworthy-winner", "catalog-unavailable", "budget-exhausted"}

\* run.received: mode, sourceRequest and the parts of config the reducer reads.
RunRequest == [mode: {"live", "replay"}, source: SourceRequests,
  strategies: (SUBSET Strategies) \ {{}}, hardGates: (SUBSET Gates) \ {{}}, maxRetries: Nat]

ASSUME StrategiesFinite == IsFiniteSet(Strategies)
ASSUME GatesFinite == IsFiniteSet(Gates)
ASSUME NoneIsNoValue ==
  None \notin Operations \cup Revisions \cup Ranks \cup Score \cup RunRequest
ASSUME SourceRequestsHaveKinds == \A s \in SourceRequests : s.kind \in {"fixture", "github"}
ASSUME RunRequestsAreRequests == RunRequests \subseteq RunRequest
ASSUME GateReportsAreReports == GateReports \subseteq Seq(GateResult)
ASSUME FailingStagesAreStages == FailingStages \subseteq Stages
ASSUME EnvelopesHavePositiveIds == \A e \in Envelopes : e[1] \in Nat \ {0}

VARIABLES
  runState,           \* run.state, or "NONE" while the aggregate has no run
  request,            \* run.mode, run.sourceRequest and run.config
  source,             \* run.source: the resolved revision, or None
  checkpoint,         \* the source revision of run.baseCheckpoint, or None
  candidates,         \* run.candidates, by strategy
  verdict,            \* run.verdict, or NoVerdict
  failure,            \* run.failure: "none", "reported", or the exhausted stage
  lastEventId,
  processedEventKeys, \* event key -> ID of the applied event that carried it
  retryCounts,        \* per stage; an absent entry is 0
  commands            \* the commands the last applied event returned

machineVars == <<lastEventId, processedEventKeys>>
vars == <<runState, request, source, checkpoint, candidates, verdict, failure,
          machineVars, retryCounts, commands>>

EmptyFunction == [x \in {} |-> None]
NoVerdict == [kind |-> "none"]

Init ==
  /\ runState = "NONE"
  /\ request = None
  /\ source = None
  /\ checkpoint = None
  /\ candidates = EmptyFunction
  /\ verdict = NoVerdict
  /\ failure = "none"
  /\ lastEventId = 0
  /\ processedEventKeys = EmptyFunction
  /\ retryCounts = [s \in Stages |-> 0]
  /\ commands = {}

-----------------------------------------------------------------------------
(* Helpers of the reducer *)

\* sameSet: as long as the set and inside it.  Equality follows only for a
\* list without repetitions.
SameSet(list, set) == Len(list) = Cardinality(set) /\ Range(list) \subseteq set

GateNames(report) == [i \in 1..Len(report) |-> report[i].gate]

InState(S) == {c \in DOMAIN candidates : candidates[c].state \in S}

\* Mutant: waits for every candidate to pass.
AllEligible(cs) == \A c \in DOMAIN cs : cs[c].state = "ELIGIBLE"

AllTerminal(cs) == \A c \in DOMAIN cs : cs[c].state \in TerminalCandidateStates

\* Mutant: forgets the inconclusive candidates.
VerdictListsMatchSettled(v) ==
  v.eligible = InState({"ELIGIBLE"}) /\ v.rejected = InState({"REJECTED"})

VerdictListsMatchCandidates(v) ==
  /\ v.eligible = InState({"ELIGIBLE"})
  /\ v.rejected = InState({"REJECTED"})
  /\ v.inconclusive = InState({"INCONCLUSIVE"})

Command(kind) == [kind |-> kind]

\* The command that a candidate's new state asks for, if any.
CandidateCommands(c, state) ==
  LET kind == [PATCHING |-> "patch-candidate", BUILDING |-> "build-candidate",
               VERIFYING |-> "verify-candidate", FALSIFYING |-> "falsify-candidate"]
  IN  IF state \in DOMAIN kind THEN {[kind |-> kind[state], candidate |-> c]} ELSE {}

\* CandidateSchema's demands on each state of a candidate.
StateParses(c) ==
  LET failed == {i \in DOMAIN c.gates : c.gates[i].status = "failed"}
  IN  /\ c.state = "ELIGIBLE" =>
           /\ c.failure = "none"
           /\ c.gates # <<>>
           /\ \A i \in DOMAIN c.gates : c.gates[i].status = "passed"
      /\ c.state = "REJECTED" => c.failure = "behavioral" /\ failed # {}
      /\ c.state = "INCONCLUSIVE" => c.failure = "infrastructure"
      /\ c.state \notin TerminalCandidateStates => c.failure = "none"

\* Mutant: a gate may be reported twice.
CandidateParsesRepeats(c) == StateParses(c)

\* CandidateSchema: what safeParse demands of one candidate.
CandidateParses(c) == IsInjective(GateNames(c.gates)) /\ StateParses(c)

StatesRequiringSource == RunStates \ {"RECEIVED", "CANCELING", "CANCELED", "FAILED"}
StatesRequiringCandidates ==
  StatesRequiringSource \ {"SOURCE_RESOLVED", "INVENTORIED", "SPECIFIED"}

\* RunSchema: what safeParse demands of the run as a whole.
RunParses ==
  /\ \A c \in DOMAIN candidates : CandidateParses(candidates[c])
  /\ runState \in StatesRequiringSource => source # None
  /\ runState \in StatesRequiringCandidates => DOMAIN candidates # {}
  /\ runState = "SELECTED" <=> verdict.kind = "selected"
  /\ runState = "ABSTAINED" <=> verdict.kind = "abstained"
  /\ runState = "FAILED" <=> failure # "none"
  /\ verdict.kind = "selected" =>
       /\ verdict.winner \in DOMAIN candidates
       /\ candidates[verdict.winner].state = "ELIGIBLE"

\* Mutant: a key that was already used is not refused.
AdmissibleKeyAgain(id, key) ==
  /\ id > lastEventId
  /\ id <= lastEventId + MaxIdGap
  /\ id \notin Range(processedEventKeys)

\* The envelope checks that come before an event's payload is looked at.
Admissible(id, key) ==
  /\ id > lastEventId
  /\ id <= lastEventId + MaxIdGap
  /\ key \notin DOMAIN processedEventKeys
  /\ id \notin Range(processedEventKeys)

\* apply: the next run must parse; only then is the event recorded.
Apply(id, key) ==
  /\ RunParses'
  /\ lastEventId' = id
  /\ processedEventKeys' = [k \in DOMAIN processedEventKeys \cup {key} |->
                              IF k = key THEN id ELSE processedEventKeys[k]]

\* The fields an event leaves alone when it only moves the run on.
OnlyRunState == UNCHANGED <<request, source, checkpoint, candidates, verdict, failure, retryCounts>>

-----------------------------------------------------------------------------
(* Payloads the event schemas admit.  A list of candidate IDs or strategies *)
(* in an event repeats nothing, so it is a set.                            *)

ScoreLists == UNION {[S -> Score] : S \in SUBSET Strategies}

VerdictLists == [eligible: SUBSET Strategies, rejected: SUBSET Strategies,
                 inconclusive: SUBSET Strategies]

SelectedVerdicts ==
  {v \in [kind: {"selected"}, winner: Strategies, lists: VerdictLists] :
     v.winner \in v.lists.eligible}

AbstainedVerdicts ==
  {v \in [kind: {"abstained"}, reason: AbstentionReasons, lists: VerdictLists] :
     v.reason = "all-candidates-failed" => v.lists.eligible = {}}

-----------------------------------------------------------------------------
(* One action per event type *)

\* Mutant: the request is not stored.
RunReceivedUnstored(id, key) ==
  /\ Admissible(id, key)
  /\ runState = "NONE"
  /\ runState' = "RECEIVED"
  /\ commands' = {Command("resolve-source")}
  /\ UNCHANGED <<request, source, checkpoint, candidates, verdict, failure, retryCounts>>
  /\ Apply(id, key)

RunReceived(id, key) ==
  /\ Admissible(id, key)
  /\ runState = "NONE"
  /\ \E r \in RunRequests :
       /\ r.mode = "replay" => r.source.kind = "fixture"
       /\ request' = r
  /\ runState' = "RECEIVED"
  /\ commands' = {Command("resolve-source")}
  /\ UNCHANGED <<source, checkpoint, candidates, verdict, failure, retryCounts>>
  /\ Apply(id, key)

\* requested: the fixture ID or repository URL the resolved source names.
SourceResolved(id, key) ==
  /\ Admissible(id, key)
  /\ runState = "RECEIVED"
  /\ \E requested \in SourceRequests, revision \in Revisions :
       /\ requested = request.source
       /\ source' = revision
  /\ runState' = "SOURCE_RESOLVED"
  /\ commands' = {Command("inventory-source")}
  /\ UNCHANGED <<request, checkpoint, candidates, verdict, failure, retryCounts>>
  /\ Apply(id, key)

InventoryCompleted(id, key) ==
  /\ Admissible(id, key)
  /\ runState = "SOURCE_RESOLVED" /\ source # None
  /\ runState' = "INVENTORIED"
  /\ commands' = {Command("specify-migration")}
  /\ OnlyRunState
  /\ Apply(id, key)

SpecificationCompleted(id, key) ==
  /\ Admissible(id, key)
  /\ runState = "INVENTORIED" /\ source # None
  /\ runState' = "SPECIFIED"
  /\ commands' = {Command("create-base-checkpoint")}
  /\ OnlyRunState
  /\ Apply(id, key)

NewCandidate ==
  [state |-> "QUEUED", op |-> None, gates |-> <<>>, score |-> None, failure |-> "none"]

CheckpointReady(id, key) ==
  /\ Admissible(id, key)
  /\ runState = "SPECIFIED" /\ source # None
  /\ \E revision \in Revisions, seeds \in SUBSET Strategies :
       /\ revision = source
       /\ seeds = request.strategies
       /\ checkpoint' = revision
       /\ candidates' = [c \in seeds |-> NewCandidate]
  /\ runState' = "BASE_CHECKPOINT_READY"
  /\ commands' = {}
  /\ UNCHANGED <<request, source, verdict, failure, retryCounts>>
  /\ Apply(id, key)

CandidatesStarted(id, key) ==
  /\ Admissible(id, key)
  /\ runState = "BASE_CHECKPOINT_READY" /\ checkpoint # None
  /\ runState' = "CANDIDATES_RUNNING"
  /\ candidates' = [c \in DOMAIN candidates |-> [candidates[c] EXCEPT !.state = "PATCHING"]]
  /\ commands' = UNION {CandidateCommands(c, "PATCHING") : c \in DOMAIN candidates}
  /\ UNCHANGED <<request, source, checkpoint, verdict, failure, retryCounts>>
  /\ Apply(id, key)

\* Mutant: an event without an operation erases the recorded one.
TransitionedErasing(c, to, op, gates, why) ==
  [state |-> to, op |-> op, gates |-> gates, score |-> None, failure |-> why]

\* What candidate.transitioned makes of a candidate: a null operation keeps the
\* old one, the event's gate report replaces the candidate's.
Transitioned(c, to, op, gates, why) ==
  [state |-> to, op |-> IF op = None THEN c.op ELSE op, gates |-> gates,
   score |-> None, failure |-> why]

\* Mutant: looks at the candidates as they were before the event.
SettlementCommandsStale(to, cs) ==
  IF to \in TerminalCandidateStates /\ AllTerminal(candidates)
  THEN {Command("evaluate-candidates")} ELSE {}

\* The candidate that settles last asks for the evaluation; cs is after the event.
SettlementCommands(to, cs) ==
  IF to \in TerminalCandidateStates /\ AllTerminal(cs)
  THEN {Command("evaluate-candidates")} ELSE {}

\* An event whose from-state is not the candidate's, or that carries a score, is
\* refused.
CandidateTransitioned(id, key) ==
  /\ Admissible(id, key)
  /\ runState = "CANDIDATES_RUNNING"
  /\ \E c \in DOMAIN candidates :
     \E to \in CandidateTransitions[candidates[c].state], op \in Operations \cup {None},
        gates \in GateReports, why \in CandidateFailures :
       /\ Range(GateNames(gates)) \subseteq request.hardGates
       /\ to = "ELIGIBLE" => SameSet(GateNames(gates), request.hardGates)
       /\ candidates' =
            [candidates EXCEPT ![c] = Transitioned(candidates[c], to, op, gates, why)]
       /\ commands' = CandidateCommands(c, to) \cup SettlementCommands(to, candidates')
  /\ UNCHANGED <<runState, request, source, checkpoint, verdict, failure, retryCounts>>
  /\ Apply(id, key)

\* Mutant: does not wait for the last candidate.
CandidatesEvaluatedEarly(id, key) ==
  /\ Admissible(id, key)
  /\ runState = "CANDIDATES_RUNNING"
  /\ runState' = "CANDIDATES_EVALUATED"
  /\ commands' = {Command("run-final-falsifier")}
  /\ OnlyRunState
  /\ Apply(id, key)

CandidatesEvaluated(id, key) ==
  /\ Admissible(id, key)
  /\ runState = "CANDIDATES_RUNNING" /\ AllTerminal(candidates)
  /\ runState' = "CANDIDATES_EVALUATED"
  /\ commands' = {Command("run-final-falsifier")}
  /\ OnlyRunState
  /\ Apply(id, key)

FalsificationCompleted(id, key) ==
  /\ Admissible(id, key)
  /\ runState = "CANDIDATES_EVALUATED"
  /\ runState' = "FALSIFIED"
  /\ commands' = {Command("score-candidates")}
  /\ OnlyRunState
  /\ Apply(id, key)

EligibleRanksUnique(scores) ==
  LET eligible == {c \in DOMAIN scores : scores[c].eligible}
  IN  /\ \A c \in eligible : scores[c].rank # None
      /\ \A c, d \in eligible : scores[c].rank = scores[d].rank => c = d

\* Mutant: an eligible candidate may be scored as ineligible.
ScoresAtMostGateOutcomes(scores) ==
  \A c \in DOMAIN candidates : scores[c].eligible => candidates[c].state = "ELIGIBLE"

ScoresMatchGateOutcomes(scores) ==
  \A c \in DOMAIN candidates : scores[c].eligible <=> candidates[c].state = "ELIGIBLE"

ScoringCompleted(id, key) ==
  /\ Admissible(id, key)
  /\ runState = "FALSIFIED"
  /\ \E scores \in ScoreLists :
       /\ DOMAIN scores = DOMAIN candidates
       /\ EligibleRanksUnique(scores)
       /\ ScoresMatchGateOutcomes(scores)
       /\ candidates' =
            [c \in DOMAIN candidates |-> [candidates[c] EXCEPT !.score = scores[c]]]
  /\ runState' = "SCORED"
  /\ commands' = {Command("decide-verdict")}
  /\ UNCHANGED <<request, source, checkpoint, verdict, failure, retryCounts>>
  /\ Apply(id, key)

VerdictSelected(id, key) ==
  /\ Admissible(id, key)
  /\ runState = "SCORED"
  /\ \E v \in SelectedVerdicts :
       /\ VerdictListsMatchCandidates(v.lists)
       /\ v.winner \in InState({"ELIGIBLE"})
       /\ verdict' = v
  /\ runState' = "SELECTED"
  /\ commands' = {}
  /\ UNCHANGED <<request, source, checkpoint, candidates, failure, retryCounts>>
  /\ Apply(id, key)

VerdictAbstained(id, key) ==
  /\ Admissible(id, key)
  /\ runState = "SCORED"
  /\ \E v \in AbstainedVerdicts :
       /\ VerdictListsMatchCandidates(v.lists)
       /\ verdict' = v
  /\ runState' = "ABSTAINED"
  /\ commands' = {}
  /\ UNCHANGED <<request, source, checkpoint, candidates, failure, retryCounts>>
  /\ Apply(id, key)

\* Mutant: one retry too many.
WithinBudgetPlusOne(retryNumber) == retryNumber <= request.maxRetries + 1

WithinBudget(retryNumber) == retryNumber <= request.maxRetries

\* A failed stage is retried while its count stays within the budget; the
\* failure after that ends the run.
StageFailed(id, key, stage) ==
  LET retryNumber == retryCounts[stage] + 1
      retry == WithinBudget(retryNumber)
  IN  /\ Admissible(id, key)
      /\ runState \in StageStates[stage]
      /\ retryCounts' = [retryCounts EXCEPT ![stage] = retryNumber]
      /\ runState' = IF retry THEN runState ELSE "FAILED"
      /\ failure' = IF retry THEN failure ELSE stage
      /\ commands' = IF retry
                     THEN {[kind |-> "retry-stage", stage |-> stage, number |-> retryNumber]}
                     ELSE {}
      /\ UNCHANGED <<request, source, checkpoint, candidates, verdict>>
      /\ Apply(id, key)

Active == runState \notin TerminalRunStates \cup {"NONE", "CANCELING"}

CandidateOperations == {candidates[c].op : c \in DOMAIN candidates} \ {None}

\* A second request while CANCELING or CANCELED is the reducer's no-op.
CancelRequested(id, key) ==
  /\ Admissible(id, key)
  /\ Active
  /\ runState' = "CANCELING"
  /\ commands' = {[kind |-> "cancel-active-operations", operations |-> CandidateOperations]}
  /\ OnlyRunState
  /\ Apply(id, key)

RunCanceled(id, key) ==
  /\ Admissible(id, key)
  /\ runState = "CANCELING"
  /\ runState' = "CANCELED"
  /\ commands' = {}
  /\ OnlyRunState
  /\ Apply(id, key)

RunFailed(id, key) ==
  /\ Admissible(id, key)
  /\ Active
  /\ runState' = "FAILED"
  /\ failure' = "reported"
  /\ commands' = {}
  /\ UNCHANGED <<request, source, checkpoint, candidates, verdict, retryCounts>>
  /\ Apply(id, key)

-----------------------------------------------------------------------------
\* The events that carry a run to its end.
Forward(id, key) ==
  \/ RunReceived(id, key)
  \/ SourceResolved(id, key)
  \/ InventoryCompleted(id, key)
  \/ SpecificationCompleted(id, key)
  \/ CheckpointReady(id, key)
  \/ CandidatesStarted(id, key)
  \/ CandidateTransitioned(id, key)
  \/ CandidatesEvaluated(id, key)
  \/ FalsificationCompleted(id, key)
  \/ ScoringCompleted(id, key)
  \/ VerdictSelected(id, key)
  \/ VerdictAbstained(id, key)
  \/ RunCanceled(id, key)

\* The events that interrupt it.
Interrupt(id, key) ==
  \/ \E stage \in FailingStages : StageFailed(id, key, stage)
  \/ CancelRequested(id, key)
  \/ RunFailed(id, key)

Next == \E e \in Envelopes : Forward(e[1], e[2]) \/ Interrupt(e[1], e[2])

Spec == Init /\ [][Next]_vars

\* The adapters keep answering: while some event would move the run forward, one
\* is eventually delivered.
FairSpec == Spec /\ WF_vars(\E e \in Envelopes : Forward(e[1], e[2]))

=============================================================================
