------------------------------ MODULE LiveTrial ------------------------------
(***************************************************************************)
(* The live driver (packages/orchestrator/src/trial.ts) from the outcome   *)
(* of the sandbox branches on: the hard gates and the inputs of the        *)
(* evaluator, the fixed sequence of events it sends through the reducer    *)
(* (RunReducer) and appends to the log, the snapshot, its comparison with  *)
(* the replayed log, the manifest and the summary; and the loop of         *)
(* runLiveEvaluationSuite over the cases.                                  *)
(*                                                                         *)
(* Any await may reject and the process may die there; the write it waits  *)
(* for is then done or not.  How the branches come by their outcome is     *)
(* SandboxTrial's matter, what a file of the store is EvidenceStore's.     *)
(* Left out: artifacts, telemetry, costs, and failed-attempt.json, which   *)
(* nothing reads.                                                          *)
(***************************************************************************)
EXTENDS RunReducer, Integers, TLC

CONSTANTS
  Order,     \* STRATEGIES; candidate_i is named by its strategy
  Outcomes,  \* what a branch may come back with: [status, passed, duration]
  Cases,     \* how many cases a suite has
  MaxSmokes, \* bound: sponsor smokes
  MaxFaults  \* bound: failed awaits and crashes

INSTANCE Evaluator

ASSUME OrderNamesStrategies ==
  Order \in Seq(Strategies) /\ IsInjective(Order) /\ Range(Order) = Strategies
ASSUME CasesPositive == Cases \in Nat \ {0}
\* HardGateNameSchema lists the gates of HARD_GATE_ORDER.
ASSUME GatesAreOrdered == Gates = Range(HardGateOrder)
\* Math.round.
ASSUME DurationsAreWhole == \A o \in Outcomes : o.duration \in Int

VARIABLES
  call,      \* "trial" or "suite": which function was called
  case,      \* the case it is at
  step,      \* of executeLiveCase
  smoke,     \* how many smokes there have been; the last one may still be valid
  results,   \* strategy -> the outcome of its branch
  clean,     \* cleanupComplete
  settled,   \* strategy -> the driver's disposition of it
  evaluated, \* the evaluator's verdict
  disk,      \* case -> what of its run is in the private evidence
  completed, \* the smokes that the completed cases used
  suiteFile, \* whether evaluation-suite.json was written
  faults

measured == <<results, clean, settled, evaluated>>
driverVars == <<call, case, step, smoke, measured, disk, completed, suiteFile, faults>>

-----------------------------------------------------------------------------
(* From a branch's outcome to the evaluator's input *)

\* The results of the gate runner that a hard gate needs.
Needs ==
  [name \in Gates |->
     CASE name = "migration-tests" -> {"schema", "tool-calls", "streaming-retry"}
       [] name \in {"prompt-regression", "security"} -> {"security", "harness-integrity"}
       [] name \in {"nebius-runtime", "evidence-completeness"} -> {}
       [] OTHER -> {name}]

\* Mutant: without an output only the gates that are about it are inconclusive.
GateStatusApart(name, outcome) ==
  IF outcome.status # "SUCCESS" /\ Needs[name] = {} THEN "inconclusive"
  ELSE IF Needs[name] \subseteq outcome.passed THEN "passed" ELSE "failed"

\* hardGateMap.
GateStatus(name, outcome) ==
  IF outcome.status # "SUCCESS" THEN "inconclusive"
  ELSE IF Needs[name] \subseteq outcome.passed THEN "passed" ELSE "failed"

\* The driver's own disposition of a branch.
DispositionOf(outcome) ==
  LET statuses == {GateStatus(name, outcome) : name \in Gates} IN
  IF "inconclusive" \in statuses THEN "inconclusive"
  ELSE IF "failed" \in statuses THEN "rejected" ELSE "eligible"

SettledAs(d) == {c \in Strategies : settled[c] = d}

GateReport(outcome) ==
  [n \in DOMAIN HardGateOrder |->
     [gate |-> HardGateOrder[n], status |-> GateStatus(HardGateOrder[n], outcome)]]

DurationKey == "sandbox-duration-ms"

\* A piece of evidence is named by its candidate and what it is about.
StatusEvidence(c, name, outcome) ==
  [id |-> <<c, name>>, candidate |-> c, run |-> case, attributed |-> TRUE,
   classification |-> "measured", kind |-> "status", status |-> GateStatus(name, outcome)]

DurationEvidence(c, outcome) ==
  [id |-> <<c, DurationKey>>, candidate |-> c, run |-> case, attributed |-> TRUE,
   classification |-> "measured", kind |-> "metric", value |-> outcome.duration,
   sampleSize |-> 1]

EvaluationInput(c, outcome) ==
  [id |-> c, run |-> case,
   gates |-> [n \in DOMAIN HardGateOrder |->
                [gate |-> HardGateOrder[n], status |-> GateStatus(HardGateOrder[n], outcome),
                 evidence |-> <<<<c, HardGateOrder[n]>>>>]],
   checks |-> <<>>,
   metrics |-> <<[key |-> DurationKey, value |-> outcome.duration,
                  evidence |-> <<<<c, DurationKey>>>>]>>,
   evidence |-> Append([n \in DOMAIN HardGateOrder |->
                          StatusEvidence(c, HardGateOrder[n], outcome)],
                       DurationEvidence(c, outcome))]

\* What evaluateRun makes of the branches' outcomes r.
Evaluation(r) ==
  EvaluateRun([i \in DOMAIN Order |-> EvaluationInput(Order[i], r[Order[i]])],
              <<[key |-> DurationKey, direction |-> "lower"]>>)

Place(c) == CHOOSE i \in DOMAIN Order : Order[i] = c

\* Mutant: candidates of one duration share a rank.
RankShared(c) ==
  1 + Cardinality({d \in SettledAs("eligible") : results[d].duration < results[c].duration})

\* The place of an eligible candidate by duration, then by name.
Rank(c) ==
  1 + Cardinality({d \in SettledAs("eligible") :
        \/ results[d].duration < results[c].duration
        \/ results[d].duration = results[c].duration /\ Place(d) < Place(c)})

-----------------------------------------------------------------------------
(* The events *)

Event(type) == [type |-> type]
Transition(c, from, to) ==
  [type |-> "candidate.transitioned", candidate |-> c, from |-> from, to |-> to]

Final(c) ==
  [eligible |-> "ELIGIBLE", rejected |-> "REJECTED", inconclusive |-> "INCONCLUSIVE"][settled[c]]

CandidateEvents(c) ==
  <<Transition(c, "PATCHING", "BUILDING"), Transition(c, "BUILDING", "VERIFYING"),
    Transition(c, "VERIFYING", "FALSIFYING"), Transition(c, "FALSIFYING", Final(c))>>

EventCount == 10 + 4 * Len(Order)

\* The n-th event.
Script(n) ==
  LET opening == <<"run.received", "source.resolved", "inventory.completed",
                   "specification.completed", "checkpoint.ready", "candidates.started">>
      closing == <<"candidates.evaluated", "falsification.completed", "scoring.completed",
                   "verdict">>
      k == n - 7
  IN IF n <= 6 THEN Event(opening[n])
     ELSE IF k < 4 * Len(Order) THEN CandidateEvents(Order[1 + (k \div 4)])[1 + (k % 4)]
     ELSE Event(closing[n - 6 - 4 * Len(Order)])

RequestFor(k) == [mode |-> "live", source |-> [kind |-> "fixture", id |-> k],
                  strategies |-> Strategies, hardGates |-> Gates, maxRetries |-> 2]
Request == RequestFor(case)

Scores ==
  [c \in Strategies |->
     [eligible |-> settled[c] = "eligible",
      rank |-> IF settled[c] = "eligible" THEN Rank(c) ELSE None]]

Verdict ==
  LET lists == [eligible |-> SettledAs("eligible"), rejected |-> SettledAs("rejected"),
                inconclusive |-> SettledAs("inconclusive")]
  IN IF evaluated.status = "selected"
     THEN [kind |-> "selected", winner |-> evaluated.winner, lists |-> lists]
     ELSE [kind |-> "abstained", lists |-> lists,
           reason |-> IF lists.eligible = {} THEN "all-candidates-failed"
                      ELSE "no-trustworthy-winner"]

Why == [ELIGIBLE |-> "none", REJECTED |-> "behavioral", INCONCLUSIVE |-> "infrastructure"]

\* What the reducer makes of a candidate's event.
Advanced(e) ==
  LET final == e.from = "FALSIFYING" IN
  Transitioned(candidates[e.candidate], e.to, Place(e.candidate),
               IF final THEN GateReport(results[e.candidate]) ELSE <<>>,
               IF final THEN Why[e.to] ELSE "none")

\* The event schemas admit what the driver sends: the ranges over which the reducer's
\* actions choose hold it.
ASSUME SchemasAdmitEvents ==
  /\ MaxIdGap \in Nat \ {0}
  /\ \A k \in 1 .. Cases :
       RequestFor(k) \in RunRequests /\ RequestFor(k).source \in SourceRequests /\ k \in Revisions
  /\ DOMAIN Order \subseteq Operations /\ 1 .. Cardinality(Strategies) \subseteq Ranks
  /\ {<<>>} \cup {GateReport(o) : o \in Outcomes} \subseteq GateReports

\* The n-th event carries the ID n and a key made of it.
ASSUME EventsAreNumbered == \A n \in 1 .. EventCount : <<n, n>> \in Envelopes

\* The reducer applies the event with the driver's payload.  A candidate's operation is
\* known by the candidate's place.
Reduce(e, n) ==
  \/ e.type = "run.received" /\ request' = Request /\ RunReceived(n, n)
  \/ e.type = "source.resolved" /\ source' = case /\ SourceResolved(n, n)
  \/ e.type = "inventory.completed" /\ InventoryCompleted(n, n)
  \/ e.type = "specification.completed" /\ SpecificationCompleted(n, n)
  \/ /\ e.type = "checkpoint.ready" /\ checkpoint' = case
     /\ candidates' = [c \in Strategies |-> NewCandidate]
     /\ CheckpointReady(n, n)
  \/ e.type = "candidates.started" /\ CandidatesStarted(n, n)
  \/ /\ e.type = "candidate.transitioned" /\ candidates[e.candidate].state = e.from
     /\ candidates' = [candidates EXCEPT ![e.candidate] = Advanced(e)]
     /\ CandidateTransitioned(n, n)
  \/ e.type = "candidates.evaluated" /\ CandidatesEvaluated(n, n)
  \/ e.type = "falsification.completed" /\ FalsificationCompleted(n, n)
  \/ /\ e.type = "scoring.completed"
     /\ candidates' = [c \in Strategies |-> [candidates[c] EXCEPT !.score = Scores[c]]]
     /\ ScoringCompleted(n, n)
  \/ e.type = "verdict" /\ verdict' = Verdict /\ VerdictSelected(n, n)
  \/ e.type = "verdict" /\ verdict' = Verdict /\ VerdictAbstained(n, n)

-----------------------------------------------------------------------------
(* The driver *)

\* A file that is not there: a log or a manifest of no events, a summary of none.
NoSummary == [verdict |-> None, events |-> 0, final |-> "NONE", cleanupComplete |-> FALSE]
NoFiles == [logged |-> 0, snapshot |-> None, manifest |-> 0, summary |-> NoSummary]

DriverInit ==
  /\ Init
  /\ call = "none" /\ case = 1 /\ step = "idle"
  /\ smoke = 0
  /\ results = [c \in Strategies |-> None]
  /\ clean = FALSE
  /\ settled = [c \in Strategies |-> None] /\ evaluated = None
  /\ disk = [k \in 1 .. Cases |-> NoFiles]
  /\ completed = <<>>
  /\ suiteFile = FALSE
  /\ faults = 0

\* The driver goes on; the machine is the reducer's.
Goes(from, to) ==
  /\ step = from
  /\ step' = to
  /\ UNCHANGED <<call, faults>>

Keeps == UNCHANGED <<case, smoke, measured, completed, suiteFile>>

Call ==
  /\ call = "none"
  /\ call' \in {"trial", "suite"}
  /\ step' = "smoke"
  /\ UNCHANGED <<vars, disk, faults>> /\ Keeps

\* latestValidSmoke: the last smoke, while it is valid, or a new one.
TakeSmoke ==
  /\ Goes("smoke", "measuring")
  /\ smoke' \in {smoke, smoke + 1} \cap 1 .. MaxSmokes
  /\ UNCHANGED <<vars, case, measured, disk, completed, suiteFile>>

\* The branches have come back, and a new machine awaits the events.
Measure ==
  /\ Goes("measuring", "reducing")
  /\ results' \in [Strategies -> Outcomes]
  /\ clean' \in BOOLEAN
  /\ settled' = [c \in Strategies |-> DispositionOf(results'[c])]
  /\ evaluated' = Evaluation(results')
  /\ runState' = "NONE" /\ request' = None /\ source' = None /\ checkpoint' = None
  /\ candidates' = EmptyFunction /\ verdict' = NoVerdict /\ failure' = "none"
  /\ lastEventId' = 0 /\ processedEventKeys' = EmptyFunction
  /\ retryCounts' = [s \in Stages |-> 0] /\ commands' = {}
  /\ UNCHANGED <<case, smoke, disk, completed, suiteFile>>

\* applyEvent advances the machine ...
ReduceEvent ==
  /\ Goes("reducing", "appending")
  /\ Reduce(Script(lastEventId + 1), lastEventId + 1)
  /\ UNCHANGED disk /\ Keeps

\* What the file being written is to hold.
Writing(d) ==
  CASE step = "appending" -> [d EXCEPT !.logged = @ + 1]
    [] step = "snapshot"  -> [d EXCEPT !.snapshot = [state |-> runState, verdict |-> verdict]]
    [] step = "manifest"  -> [d EXCEPT !.manifest = d.logged]
    [] step = "summary"   -> [d EXCEPT !.summary =
                                [verdict |-> evaluated, events |-> lastEventId,
                                 final |-> runState, cleanupComplete |-> clean]]
    [] OTHER              -> d

Writes(to) ==
  /\ disk' = [disk EXCEPT ![case] = Writing(@)]
  /\ Goes(step, to)
  /\ UNCHANGED vars /\ Keeps

\* Mutant: the snapshot is written before the last event.
AppendEventShort ==
  step = "appending" /\ Writes(IF lastEventId = EventCount - 1 THEN "snapshot" ELSE "reducing")

\* ... before it appends the event to the log.
AppendEvent ==
  step = "appending" /\ Writes(IF lastEventId = EventCount THEN "snapshot" ELSE "reducing")

WriteSnapshot == step = "snapshot" /\ Writes("replay")

Throws ==
  /\ step' = "over"
  /\ UNCHANGED <<vars, call>> /\ Keeps

\* assertSemanticReplay: the log, reduced again, makes the snapshot.
CheckReplay ==
  /\ step = "replay"
  /\ IF disk[case].logged = lastEventId THEN Goes("replay", "manifest") /\ UNCHANGED vars /\ Keeps
                                        ELSE Throws /\ UNCHANGED faults
  /\ UNCHANGED disk

\* Mutant: the manifest is not awaited.
ManifestNotAwaited ==
  /\ Goes("manifest", "summary")
  /\ UNCHANGED <<vars, disk>> /\ Keeps

WriteManifest == step = "manifest" /\ Writes("summary")

WriteSummary == step = "summary" /\ Writes("cleanup")

\* Mutant: whether the cleanup was complete is told, and is no error.
EndCaseUnclean ==
  /\ step = "cleanup"
  /\ completed' = Append(completed, smoke)
  /\ IF call = "suite" /\ case < Cases
     THEN case' = case + 1 /\ Goes("cleanup", "smoke")
     ELSE case' = case /\ Goes("cleanup", IF call = "suite" THEN "suite" ELSE "over")
  /\ UNCHANGED <<vars, smoke, measured, disk, suiteFile>>

\* The end of executeLiveCase; the suite goes to its next case.
EndCase ==
  /\ step = "cleanup"
  /\ IF clean
     THEN /\ completed' = Append(completed, smoke)
          /\ IF call = "suite" /\ case < Cases
             THEN case' = case + 1 /\ Goes("cleanup", "smoke")
             ELSE case' = case /\ Goes("cleanup", IF call = "suite" THEN "suite" ELSE "over")
          /\ UNCHANGED <<vars, smoke, measured, suiteFile>>
     ELSE Throws /\ UNCHANGED faults
  /\ UNCHANGED disk

\* The end of runLiveEvaluationSuite: the cases must share the smoke, and with it the model:
\* executeLiveCase refuses a model that is not the smoke's (trial.ts:703).
WriteSuite ==
  /\ step = "suite"
  /\ IF \A i, j \in DOMAIN completed : completed[i] = completed[j]
     THEN /\ Goes("suite", "over")
          /\ suiteFile' = TRUE
          /\ UNCHANGED <<vars, case, smoke, measured, completed>>
     ELSE Throws /\ UNCHANGED faults
  /\ UNCHANGED disk

\* The reducer does not apply the event.
Refused ==
  step = "reducing" /\ ~ ENABLED Reduce(Script(lastEventId + 1), lastEventId + 1)

\* An await rejects, or the process dies at it; what it was to write is there or not.  An
\* event that is refused is an error too.
Fail ==
  /\ step \notin {"idle", "over"}
  /\ IF Refused THEN UNCHANGED faults ELSE faults < MaxFaults /\ faults' = faults + 1
  /\ disk' \in {disk, [disk EXCEPT ![case] = Writing(@)]}
  /\ Throws

DriverNext ==
  \/ Call \/ TakeSmoke \/ Measure \/ ReduceEvent \/ AppendEvent \/ WriteSnapshot
  \/ CheckReplay \/ WriteManifest \/ WriteSummary \/ EndCase \/ WriteSuite \/ Fail

DriverSpec == DriverInit /\ [][DriverNext]_<<vars, driverVars>>

-----------------------------------------------------------------------------
(* Properties *)

\* The reducer refuses none of the events the driver derives from what the branches came
\* back with: gate reports, dispositions, scores, ranks and verdict lists are computed in
\* different places and must agree with each other and with the reducer's checks.
NeverRefused == ~ Refused

\* The driver's disposition of a candidate, which settles it, is the evaluator's, from which
\* the verdict comes.
DispositionsAgree ==
  step = "reducing" /\ lastEventId = 0 =>
    \A c \in Strategies : settled[c] = Disposition(EvaluationInput(c, results[c]))

\* A selected candidate passed every check of the gate runner in an operation that
\* succeeded, is ranked first, and was strictly faster than any other that did; the run
\* abstains only if no candidate did, or the fastest are as fast as each other.
Passed(c) ==
  /\ results[c].status = "SUCCESS"
  /\ \A name \in Gates : Needs[name] \subseteq results[c].passed
Fastest ==
  {c \in Strategies : Passed(c) /\
     \A d \in Strategies : Passed(d) => results[c].duration <= results[d].duration}

VerdictIsEarned ==
  /\ runState = "SELECTED" =>
       Fastest = {verdict.winner} /\ candidates[verdict.winner].score.rank = 1
  /\ runState = "ABSTAINED" => Cardinality(Fastest) # 1

\* A trial-summary.json is beside a log of all the events, the snapshot they lead to and a
\* manifest of both, and tells the verdict of that snapshot, wherever the run was cut off.
SummaryIsReplayable ==
  \A k \in 1 .. Cases : disk[k].summary # NoSummary =>
    LET d == disk[k] IN
      /\ d.logged = EventCount /\ d.manifest = EventCount /\ d.summary.events = EventCount
      /\ d.snapshot.state = d.summary.final
      /\ d.summary.final = IF d.summary.verdict.status = "selected" THEN "SELECTED"
                                                                   ELSE "ABSTAINED"
      /\ d.summary.final = "SELECTED" => d.snapshot.verdict.winner = d.summary.verdict.winner

\* A suite is recorded only if every one of its cases left a summary, was cleaned up and
\* rests on the one smoke, although each case looks for a smoke by itself.
SuiteOfCleanTrials ==
  suiteFile =>
    /\ \A k \in 1 .. Cases :
         disk[k].summary # NoSummary /\ disk[k].summary.cleanupComplete
    /\ completed = [k \in 1 .. Cases |-> smoke]

-----------------------------------------------------------------------------
(* Why summaries and suites can be relied on: an inductive invariant.      *)

\* The end of the run that the evaluator's verdict asks for.
EndOf(e) == IF e.status = "selected" THEN "SELECTED" ELSE "ABSTAINED"

Stored == [state |-> runState, verdict |-> verdict]
Told ==
  [verdict |-> evaluated, events |-> EventCount, final |-> runState, cleanupComplete |-> clean]

AfterMeasuring ==
  {"reducing", "appending", "snapshot", "replay", "manifest", "summary", "cleanup"}
Steps == {"idle", "smoke", "measuring", "suite", "over"} \cup AfterMeasuring

DriverTypeOK ==
  /\ call \in {"none", "trial", "suite"} /\ step \in Steps
  /\ call = "none" <=> step = "idle"
  /\ step = "suite" => call = "suite"
  /\ case \in 1 .. Cases /\ smoke \in Nat /\ clean \in BOOLEAN
  /\ step \in AfterMeasuring => lastEventId \in Nat
  /\ completed \in Seq(Nat) /\ suiteFile \in BOOLEAN
  /\ DOMAIN disk = 1 .. Cases /\ disk = [k \in DOMAIN disk |-> disk[k]]

\* What the files of the case hold by the step the driver is at; the later cases have none.
FilesInStep ==
  LET files(logged, snapshot, manifest, summary) ==
        disk[case] = [logged |-> logged, snapshot |-> snapshot, manifest |-> manifest,
                      summary |-> summary]
  IN
    /\ step \in {"idle", "smoke", "measuring"} => disk[case] = NoFiles
    /\ step = "reducing" => files(lastEventId, None, 0, NoSummary) /\ lastEventId < EventCount
    /\ step = "appending" =>
         files(lastEventId - 1, None, 0, NoSummary) /\ lastEventId \in 1 .. EventCount
    /\ step = "snapshot" => files(EventCount, None, 0, NoSummary)
    /\ step \in {"replay", "manifest"} => files(EventCount, Stored, 0, NoSummary)
    /\ step = "summary" => files(EventCount, Stored, EventCount, NoSummary)
    /\ step = "cleanup" => files(EventCount, Stored, EventCount, Told)
    /\ step # "over" => \A k \in case + 1 .. Cases : disk[k] = NoFiles

\* After the last event the run has ended as the evaluator says.
RunEnded ==
  step \in AfterMeasuring \ {"reducing"} /\ (step = "appending" => lastEventId = EventCount) =>
    /\ lastEventId = EventCount
    /\ runState = EndOf(evaluated)
    /\ runState = "SELECTED" => verdict.winner = evaluated.winner

\* The cases that are over were clean, and used the smokes that are noted.
CasesOver ==
  call = "suite" /\ step # "over" =>
    /\ Len(completed) = IF step = "suite" THEN Cases ELSE case - 1
    /\ \A k \in 1 .. Len(completed) :
         disk[k].summary # NoSummary /\ disk[k].summary.cleanupComplete
    /\ step = "suite" => case = Cases /\ completed[Cases] = smoke

NotCalled == step = "idle" => case = 1 /\ completed = <<>>

DriverInv ==
  /\ DriverTypeOK /\ FilesInStep /\ RunEnded /\ CasesOver /\ NotCalled
  /\ suiteFile => step = "over"
  /\ SummaryIsReplayable /\ SuiteOfCleanTrials

(* Why the verdict is earned: while there is one, it and the scores it     *)
(* rests on are of the outcomes that were measured.                        *)

OfOutcomes ==
  /\ results \in [Strategies -> Outcomes]
  /\ settled = [c \in Strategies |-> DispositionOf(results[c])]
  /\ IF evaluated.status = "selected" THEN Fastest = {evaluated.winner}
                                      ELSE Cardinality(Fastest) # 1

VerdictInv ==
  /\ step \in AfterMeasuring \/ runState # "NONE" => OfOutcomes
  /\ \A c \in DOMAIN candidates : "score" \in DOMAIN candidates[c]
  /\ runState \in {"SCORED", "SELECTED"} =>
       \A c \in Strategies : candidates[c].score = Scores[c]
  /\ runState \in {"SELECTED", "ABSTAINED"} => runState = EndOf(evaluated)
  /\ runState = "SELECTED" => verdict.winner = evaluated.winner

(* Why no event is refused: what the first n events make of the machine.   *)

StateAfter(n) ==
  LET opening == <<"NONE", "RECEIVED", "SOURCE_RESOLVED", "INVENTORIED", "SPECIFIED",
                   "BASE_CHECKPOINT_READY">>
      closing == <<"CANDIDATES_EVALUATED", "FALSIFIED", "SCORED", EndOf(evaluated)>>
  IN IF n <= 5 THEN opening[n + 1]
     ELSE IF n <= EventCount - 4 THEN "CANDIDATES_RUNNING"
     ELSE closing[n - (EventCount - 4)]

\* How many of the candidate's transitions are among them.
TransitionsOf(c, n) ==
  LET k == n - 6 - 4 * (Place(c) - 1) IN IF k < 0 THEN 0 ELSE IF k > 4 THEN 4 ELSE k

CandidateAfter(c, n) ==
  LET k == TransitionsOf(c, n)
      states == <<"PATCHING", "BUILDING", "VERIFYING", "FALSIFYING", Final(c)>>
  IN [state   |-> IF n = 5 THEN "QUEUED" ELSE states[k + 1],
      op      |-> IF k = 0 THEN None ELSE Place(c),
      gates   |-> IF k = 4 THEN GateReport(results[c]) ELSE <<>>,
      score   |-> IF n >= EventCount - 1 THEN Scores[c] ELSE None,
      failure |-> IF k = 4 THEN Why[Final(c)] ELSE "none"]

CandidatesAfter(n) ==
  IF n < 5 THEN EmptyFunction ELSE [c \in Strategies |-> CandidateAfter(c, n)]

CommandsAfter(n) ==
  LET opening == <<{}, {Command("resolve-source")}, {Command("inventory-source")},
                   {Command("specify-migration")}, {Command("create-base-checkpoint")}, {},
                   UNION {CandidateCommands(c, "PATCHING") : c \in Strategies}>>
      closing == <<{Command("run-final-falsifier")}, {Command("score-candidates")},
                   {Command("decide-verdict")}, {}>>
      e == Script(n)
  IN IF n <= 6 THEN opening[n + 1]
     ELSE IF n <= EventCount - 4
     THEN CandidateCommands(e.candidate, e.to) \cup SettlementCommands(e.to, CandidatesAfter(n))
     ELSE closing[n - (EventCount - 4)]

MachineAfter(n) ==
  <<StateAfter(n),
    IF n >= 1 THEN Request ELSE None,
    IF n >= 2 THEN case ELSE None,
    IF n >= 5 THEN case ELSE None,
    CandidatesAfter(n),
    IF n = EventCount THEN Verdict ELSE NoVerdict,
    "none",
    <<n, [k \in 1 .. n |-> k]>>,
    [s \in Stages |-> 0],
    CommandsAfter(n)>>

ScriptInv == step \in AfterMeasuring => vars = MachineAfter(lastEventId)
=============================================================================
