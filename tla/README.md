# Formal models of PortVerdict

PortVerdict races several coding strategies against each other on one software
migration: it prepares a sandbox checkpoint, forks one branch per strategy, runs hard
gates in each, and lets a deterministic evaluator select a winner or abstain. Everything
it claims must be backed by recorded evidence. This directory holds TLA+ models of the
parts of the code on which that promise rests, the TLC runs that check them on small
instances, and TLAPS proofs for instances of every size.

## The system

| Part | Code | State | Operations |
|---|---|---|---|
| Run reducer | `packages/agent-core/src/reducer.ts` (schemas in `shared-schemas`) | the run aggregate, last event ID, processed event keys, retry counts | `reduceRunEvent`, one case per event type; returns commands |
| Evidence store | `packages/evidence-store/src/store.ts` | one directory per run: `events.ndjson`, snapshot, artifacts and their metadata, replay manifest; a lock per run inside the process | `appendEvent`, `readEvents`, `writeSnapshot`, `putArtifact`, `buildReplayManifest`, `verifyReplayManifest` |
| Sandbox client | `packages/sandbox-runner/src/client.ts` | none of its own; operations live at the service | `spawn`, `waitForOperation`, `cancelOperation`, `createCheckpoint`, `spawnBranches` |
| Model router | `packages/model-router/src` | none | catalog checks, `routeModel`, retried and repaired structured completions |
| Research | `packages/tavily-research/src` | none | search and extract with retries and telemetry |
| Live trial | `packages/orchestrator/src/trial.ts` | local state of one `executeLiveCase` call; the private evidence of its run | model calls, checkpoint, branches, baseline, evaluation, events, snapshot, manifest, summary; a suite of such cases |
| Evaluator | `packages/evaluator/src` | none | `evaluateCandidate`, `evaluateRun` |
| Promotion | `packages/orchestrator/src/promotion.ts` | two public mirrors with a staging directory and a backup beside each | load, check, stage, swap, roll back |
| Readiness and submission | `packages/orchestrator/src/readiness.ts`, `public-evidence.ts`, `submission.ts` | none | judge the promoted evidence |
| Web | `apps/web/src` | none | readiness, replay, patch and report of promoted runs; render |

How they interact. `executeLiveCase` is the driver: it takes a model from the catalog and
research from Tavily, asks for one patch per strategy and one for the baseline, drives the
sandbox client, turns the branches' gate outputs into evidence, lets the evaluator decide,
and feeds run events one by one to the reducer and, when one is applied, to the evidence
store. It then stores a snapshot and a replay manifest and writes the trial's summary. A
suite of trials is checked by the promotion and copied to the public mirrors, which the web
application and the submission check read. The driver is one Node process; what is
concurrent are promises (branches that are spawned and finished together, store operations
queued behind a run's lock, a verification that takes no lock), the services, and the
readers, which read the public mirror file by file while a promotion may swap it.

What is hard. Events that are repeated, late or conflicting; candidates that settle in any
order; gate reports that pass a set comparison although they repeat one gate and omit
another; crashes and failed writes between the file-system effects of one operation;
verification in the midst of writes; spawns of which some fail while others are in flight;
waits that time out while the operation ends; replies that name a stranger's operation;
retries inside repairs inside attempts, all of which must be accounted for; a candidate
judged in four places that must agree; swaps of two directories that take several renames;
readers that meet two bundles in one request. `PROJECT.json` lists these hazards line by
line with the properties that cover them.

### RunReducer, RunContract, RunReducerProperties

`RunReducer` has one action per event type of `reduceRunEvent`. An event that the reducer
rejects, or answers with a no-op, returns the state it was given and is a stuttering step.
`Admissible` is the common prologue (key, ID, order, other run, mode), `Apply` the common
epilogue `apply()`, which parses the next run: the schema's refinements (`RunParses`,
`CandidateParses`) are thus a guard of every action, as they are in the code. The payloads
are every value of the given sets that the event schemas admit; the adapters that send
events are not trusted. `commands` is what the last event returned.

`RunContract` is the abstract specification: strategies enter the race once, each settles
once, judgement comes after the last settlement, a winner is one of the eligible, and an
ended run changes no more. `RunReducerProperties` states the properties, the inductive
invariant `RunInv`, and the refinement mapping (`ContractSpec`).

### EvidenceStore

One run's directory. `op` is the operation that holds the run lock; every file-system
effect is a step, so that crashes, I/O errors and the unlocked `verifyReplayManifest`
(`reader`) fall between any two of them. `Recover` is `recoverEventLogUnlocked`; `torn` are
bytes behind the last newline of the log; `leftovers` are the directories that hold an
abandoned temporary file of `atomicWrite`. `acked`, `changed` and `refusal` record history
for the properties. A digest is the value it digests, that is, hashing is taken as
injective. The unlocked `getArtifact` and `readSnapshot` only return what they read.

`RecordContract` is the abstract specification of the store: a log to which one event at a
time is committed (`Commit`), a snapshot that is stored (`Store`), artifacts that are registered
once (`Register`), a manifest of one moment (`Seal`), and a verification that vouches for what
is on record (`Vouch`). It knows no files, lock, crash or repair. The mapping (`Contract` in
`EvidenceStore`) takes the readable lines of the log for the record and the renamed files for
the rest: the line's last byte and each `rename` are the steps, and everything before and after
them, a crash and a repair included, changes nothing that the contract speaks of. A manifest is
collected in many steps under the lock, and a verification reads file after file without it; that
both are single steps of the contract is what the refinement claims of them.

### SandboxTrial

The sandbox phase of `executeLiveCase` together with the client it calls and the service.
A job is one instance to be spawned (the checkpoint, a branch per strategy, the baseline).
`service[j]` is what became of its request at the service, `call[j]` how far the client is
with it, `target[j]` and `image[j]` what the reply named. The client's calls step
independently, as the promises under `Promise.allSettled` and `Promise.all` do; the trial's
phases step when the calls they await have settled. The service may lose a request, start
the operation after the client has given up, end it at any moment or never, refuse a
cancellation, and name any running operation and any image in its reply. A spawn that
fails before its request is sent is a case of one whose request is lost.

One status request stands for its retries and one wait for all its polls. FAILED stands
for CANCELLED too. What precedes the checkpoint is `SponsorCalls`' matter; what follows the branches
(artifacts, events, manifest) is one step that may fail (`RecordFails`) and `LiveTrial`'s
matter.

### ModelRouter, SponsorCalls

`SponsorCalls` is the part of `executeLiveCase` before the checkpoint: `step` is the call it
makes, `http` the request under way with its attempt, and around it are the loops, each with
what it accumulates: `call` is `completeStructured` with its one repair request, `patch` is
`generatePatch` with its two model attempts, `history` the diversity attempts of the trial,
`queries` the research with its fallback. The two clients differ in what they emit and in
their number of retries and share the actions of a request. `served` is a ghost: what the
services counted. `ModelRouter` is pure: which catalog is admitted, which model
`selectNvidiaDecision` prefers, which one `routeModel` takes. Prices and context windows are
small numbers; a source is a model value with a verdict of the Python validator.

### Evaluator, LiveTrial

`Evaluator` translates `evaluateCandidate` and `evaluateRun` with the checks of evidence.
`LiveTrial` extends `RunReducer` and lets the driver step: `Measure` takes any outcome for
each branch and computes, as the code does, the driver's disposition (`DispositionOf`) and,
from the evaluator's inputs that it builds, the verdict; `Script(n)` is the n-th event of
the fixed sequence, `Reduce` the reducer's own action for its payload, `AppendEvent` the
line in the log. A file is written in one step (`Writing`), which a failed await or a crash
may leave done or not (`Fail`); the steps within a write are `EvidenceStore`'s. `EndCase`
and `WriteSuite` are the loop of `runLiveEvaluationSuite`, in which each case looks for a
sponsor smoke for itself.

`LiveRecord` composes driver and store by way of `RecordContract`: the files of one case
(`Observed`, any of them) as `LiveTrial` writes them are a behaviour of the contract that
`EvidenceStore` implements. So what `LiveTrial` takes for granted of the store is what the store
promises, and what the driver asks of it is what the store allows.

### LiveEvidence, Promotion, PublicEvidence

`LiveEvidence` holds what a suite and its trials say and the checks that the promotion and
the readers share. In `Promotion` a directory is a bundle: which evidence it is of and which
parts are there. Each `rm` and `rename` of `replaceDirectoriesAtomically` is a step, any of
which may fail or be the last of the process. The second mirror of the code, which the web
application serves, is number `Mirrors`; the number of mirrors is a parameter. `PublicationContract` is what
the served mirror promises: a shelf that shows a whole bundle of a checked suite or nothing, and
never an older suite than it has shown (`Publication` in `PublicEvidence` is the mapping). In
`PublicEvidence` a request of the web application (replay, patch, report, readiness) or the
submission check reads the served mirror part by part; promotion steps fall between any two
reads. One request is under way at a time: readers change nothing, so that more of them
would see nothing else.

## What is checked

| Run | Question | Result |
|---|---|---|
| `reducer` | Two candidates, two gates, one retry, events in order: types, `SelectionSound`, `OutcomesPartition`, `ScoresAgreeWithGates`, `RetryBudget`, `EvaluateIssuedOnce`, `OperationsKept`, refinement of `RunContract`; does every received run settle while adapters answer (`Settles`)? | holds (64,804 states) |
| `reducer_delivery` | Any key under any ID, used again, repeated, late or skipped: is every change of the machine one new event, that leaves the record of the earlier ones alone (`AppliedOnce`)? | holds (3,085 states up to symmetry) |
| `reducer_gate_rule` | Is a failed gate on record final, as `docs/hackathon-build/prd.md:113` says? | violated: a later report replaces it |
| `evidence_store` | All operations with two mishaps: `AckedEventsSurvive`, `RefusalsAreEarned`, `RegisteredHasContent`, `FreshManifestVerifies`, `VerifiedReplayStands`; is the directory an implementation of `RecordContract` (`RecordContractSpec`; it implies `LogStaysReadable` and `MetadataImmutable`)? | holds (1,018,478 states) |
| `evidence_store_crash` | Can a crash or failed write make a manifest impossible? | violated: an abandoned temporary file among the metadata is an unexpected name for ever |
| `sandbox_trial` | `RecordedCleanup`, `SiblingsCompared`, `CreationCleansUp`, `NoCallLeftBehind`; does the sandbox phase end whatever the service does (`TrialEnds`)? | holds (287,751 states) |
| `sandbox_trial_leak` | Does an ordinary error leave no known operation running, as `docs/requirements-traceability.md:30` asks? | violated: the checkpoint's operation is not canceled when its wait fails |
| `sponsor_calls` | Does a patch report every request, completion and token of all its attempts, and the research every credit (`EverythingReported`)? Is an accepted source the one that was checked, and new (`SourcesChecked`)? `NoUncertifiedFallback`; do the calls end (`CallsSettle`)? | holds (1,309,743 states) |
| `sponsor_retries` | Are the suite's Tavily retries the attempts beyond the first, as `docs/evaluations/methodology.md:69` says? | violated: cumulative counts are added up |
| `live_trial` | Do gate reports, dispositions, ranks, lists and verdict agree (`NeverRefused`, `DispositionsAgree`)? Is a verdict earned (`VerdictIsEarned`), a summary replayable (`SummaryIsReplayable`), a suite of clean trials on one smoke (`SuiteOfCleanTrials`)? Does the driver write as the store's contract allows (`DriverRecordSpec`)? | holds (99,609 states) |
| `public_evidence` | `MirrorsAgree`, `RollBackRestores`, `OneFaultLosesNothing`; is what a reader vouches for current (`VerifiedIsCurrent`) and of one suite (`ReadyIsOneSuite`)? Does the served mirror implement `PublicationContract` (`PublicationSpec`; it implies `LastMirrorWhole`)? | holds (1,007,806 states) |
| `promotion_swap` | Does a failed swap restore both mirrors, as `orchestrator.test.ts:381` says? | violated: a failure while backups are taken is not rolled back |

Every property of a passing run has a mutant, an operator beside the definition it changes
("Mutant: ..." or "A slip: ..."), under which TLC finds the property violated.

### Bounds

- Reducer: two candidates finish in either order with different outcomes, two gates let a
  report repeat one and omit the other, one retry reaches the budget and exceeds it. A run
  needs at most 19 events on this instance; `MaxEventId` is 20, so that the bound never stops
  a run. `MaxIdGap` bounds how far IDs may be skipped (IDs only have to grow); the delivery
  run skips up to two and uses six interchangeable keys for nine IDs, with one candidate,
  since delivery is decided before the payload is looked at. Without the check
  of the key (the mutant) or of the order TLC finds `AppliedOnce` violated; the check of a used ID
  is implied by that of the order, as no ID on record lies beyond the last one (`RecordInStep`).
- Store: two events for a log that has something to lose when it tears; two keys; two
  snapshots of which one has no source; one content under two roles. `MaxMishaps` = 2 lets a
  second crash hit the repair of the first.
- Sandbox trial: two branches, the least number that are siblings; together with the baseline
  and the checkpoint there are four operations that replies can confuse. The code allows one
  to three; the proofs hold for every number.
- Sponsor calls: two strategies (the second may repeat the first), three sources of which one
  does not parse, and the catalogs in which the preferred model is missing,
  too dear, too small, malformed or repeated. `MaxTransients` bounds the transient answers of
  a trial; it leaves room to exhaust the retries of a client. With that bound
  `CallsSettle` does not tell a client that retries for ever from one that gives up.
- Live trial: two strategies and all ten gates; outcomes that pass in one or two units of
  time, fail a check of one or several gates, or bring nothing back, which gives every
  disposition, ties and unique winners; two cases, two smokes, and one fault anywhere. The case
  whose files are observed is the second, which starts where another one has ended.
- Public evidence: two mirrors as in the code; three suites of which one is not promotable,
  two of which may be recorded; suites of two cases with two candidates, which is what the
  comparisons need to tell entries apart. `MaxTime` lets evidence
  expire; with a `TTL` of one unit a suite's smoke is as old as the suite. `MaxFaults` allows one
  failure or crash anywhere, which is one too few for a failure inside of the catch block
  (`RollBackFails`). Older smokes and further faults are left to the theorems, which hold for
  every `TTL`, `MaxTime` and `MaxFaults`: with readers beside it the instance is too large.

Deadlock is not checked where the system stops: a run that has ended accepts no event, and a
trial returns or throws.

### Fairness

- `reducer`: weak fairness of `Forward`, the events by which adapters answer the reducer's
  commands. Commands that start sandbox work carry a deadline (`config.timeouts`), after
  which an adapter reports a failure instead, so an adapter that lives has an answer. Nothing
  is assumed of cancellations and failures (`Interrupt`). The property is conditional on a
  living driver: one that throws leaves its run where it is.
- `sandbox_trial`: weak fairness of `Client` as a whole. Every request has a timer
  (`requestTimeoutMs`), every wait a deadline (`timeoutMs`), and a promise that settles runs
  its continuation. The service gets no fairness. The request's timer is cleared when the
  headers have arrived; that reading the body ends rests on the limits of Node's `fetch`.
- `sponsor_calls`: weak fairness of the client's own steps and of its timer (`NoAnswer`).
  A service need never answer. Here too the timer covers only the headers: that a body which
  has started ends, well or badly (`BodyUnusable` stands for all its ends), is assumed of the
  services and of `fetch`.

## What is proved

`RunReducerProofs`, `SandboxTrialProofs`, `EvidenceStoreProofs`, `PromotionProofs`,
`PublicEvidenceProofs`, `LiveTrialProofs`, `SponsorCallsProofs` and the lemmas of `DataInduction`
are checked by TLAPS for every value of the constants. The assumptions are the named `ASSUME`s of
the modules: finite sets of names, a null that is no name, no snapshot, no manifest and no
evidence, jobs that differ, at least one mirror and one case, an order that lists every strategy
once, a case to observe whose snapshots are told apart from none (`ObservedIsACase`,
`NoneIsNoSnapshot`), and, for the readers, that each suite has a primary case with a run ID of its own
(`PrimaryRunsDiffer`; run IDs are made from the time and a UUID, `trial.ts:1550`). A catalog is a
finite set of entries (`CatalogsAreFinite`), the hard gates are those of `HARD_GATE_ORDER`
(`GatesAreOrdered`), durations are whole numbers (`DurationsAreWhole`: the driver rounds them,
`trial.ts:1031`), and the ranges over which the reducer's actions choose a payload hold what the
driver sends (`SchemasAdmitEvents`), its numbered envelopes among them (`EventsAreNumbered`). TLC evaluates all of these on the instances.

The library's induction theorems take the induction hypothesis as an operator, which the provers
cannot instantiate. `DataInduction` argues by least counterexamples instead: a set of natural
numbers that is not empty has a least one, and a finite set with a strict total order a first.

For the reducer: `TypeCorrect`, `EventsAppliedOnce`, `RunInvariant`, `SelectionIsSound`,
`VerdictsPartition`, `ScoresAgree`, `RetriesBounded`, `OperationsNeverForgotten`,
`BarrierIssuedOnce` and `ImplementsContract`. No safety property is inductive by itself:
that the winner has all its gates, for instance, rests on what was true when its candidate
became eligible. `RunInv` says for each run state how far the candidates are
(`CandidatesInStep`), that eligible candidates carry a report that `sameSet` accepted
(`EligibleReported`), that scores come with scoring (`ScoresInStep`), that a verdict agrees
with the candidates (`VerdictInStep`) and what the retry counts may be (`RetriesInStep`).
The step lemmas split on the event; the lemma `SameSetCovers` and the schema's refusal of
repeated gates give that an accepted report covers every gate (`EligibleCoversGates`).
`EventsAppliedOnce` is about steps: it needs `RecordInStep`, that no entry of the record lies
beyond `lastEventId`, for a new ID to be above all those applied before.

For the sandbox phase: `TrialInvariant`, `TypesHold`, `CleanupIsTrue`,
`RecordedTrialsCompare`, `CallsAreOver` and `RejectionsCleanUp`. `TrialInv` says for each
phase in which states the calls of each group are (`CallsInStep`), that the checkpoint
remains made (`CheckpointMade`), that a call counts its operation as ended only when it has
(`SeenEnded`), what the images and operations of the branches are once compared
(`BranchesKept`), and that the summary is `CleanupComplete` of calls that have settled
(`SummaryInStep`). `RecordedCleanup` needs `SummaryInStep`, `SeenEnded` and, for the
checkpoint, `CheckpointMade`.

For the promotion: `PromotionInvariant`, `PromotionTypesHold`, `PromotedMirrorsAgree`,
`RollBacksRestore`, `LastMirrorIsWhole` and `OneFaultIsSurvived`, for every number of mirrors
and of faults, as theorems about `PromotionSpec`. `PromotionInv` says for each phase what is
known of the mirrors the loop has passed and of those before it: staged, set aside with the
old bundle kept, or new (`BuildingInv`, `PreparingInv`, `InstallingInv`, `DroppingInv`); and
in the catch block, which mirrors are already back (`RollingBackInv`). The served mirror is
the last one: the loop over the mirrors never has to remove it again, which is why it alone
is never seen half there (`LastMirrorInv`). `PublishedInv` counts faults: what was published
is at the destinations until the first of them, and there or in the backups after it.

For the evidence store: `StoreInvariant`, `TypeCorrect`, `AckedAreDurable`, `LogReadable`,
`ContentFirst`, `VerifiedStands`, `AppendsAreNotLockedOut`, `MetadataStay` and `FreshVerifies`,
for any number of events, contents, crashes and I/O errors. `StoreInv` adds to the properties
what an operation has made sure of by its step (`OpInStep`: an append that writes has repaired
the tail, a put that registers has its content and found no metadata) and what manifests say
(`ManifestKept`). A manifest that is stored or that the reader holds is `Sound`, that is, its
log is a prefix of the committed one; it `Describes` the run while neither log nor snapshot is
written. Prefixes are compared place by place (`PrefixByPlaces`), since an append and a
recovery keep the places there are. `ImplementsRecordContract` is the refinement of
`RecordContract`. It needs `SealInv` (`SealInvariant`) besides: between the temporary file of a
manifest and its rename the manifest must still be the digest of the run, which the run lock
gives, and what any manifest names must still be registered, the one included that a reader
verifies without the lock while others are written.

For the readers: `ReadersDoNotWrite` says that promotion with readers implements
`PromotionSpec`, so that the theorems about the promotion hold beside them. `ReaderInvariant`
gives `VerifiedEvidenceIsCurrent` and `ReadySubmissionIsOneSuite`. `ReaderInv` says that every
bundle with parts is of evidence that held (`BundlesInv`), that a suite is recorded once
(`SuitesOnce`), and, by the step of a request, what it has read (`RequestInv`, `PrimaryInv`,
`SuiteInv`). The last comparison of the owner's check (`Compare`) is what makes readiness and
suite one evidence: evidence that held fits its first case (`HeldEvidence`), and a primary run
is of one suite only.

For the served mirror: `ImplementsPublication`, the refinement of `PublicationContract`, and
`ReadersNeverGoBack`, the temporal formula `NeverBack` (no run lists it: the run checks
`PublicationSpec`, of which it is the consequence). A roll-back does show an older bundle
again at the mirrors it had reached; that the served one does not go back rests on its being the
last of the loop (`LastMirrorInv`, `RollingBackInv`). The bound behind which the shelf does not
go back (`Newest`) is not a variable of the code. It is read off the directories: the place on
record of the bundle that is served, else of its backup, else of the suite being promoted, since
the next promotion drops a backup that a crash has left and starts from the newest suite.
`PublicationInv` says that neither directory is ever ahead of that suite; the lemma `ServedSteps`
reduces the twenty actions to what they can do to the two directories.

For the live driver: `DriverInvariant`, `SummariesAreReplayable` and `SuitesAreOfCleanTrials`,
for any strategies, cases, smokes and faults, and `VerdictInvariant`, `TheFastestWins`,
`DriverAndEvaluatorAgree`, `ScriptInvariant` and `EveryEventApplies`. `DriverInv` says what the
files of the case hold by the step of `executeLiveCase` (`FilesInStep`: the machine is one event
ahead of the log while it is appended), that after the last event the run has ended as the
evaluator's verdict asks (`RunEnded`), and what the cases before this one left (`CasesOver`).
Of the reducer only this is used for `DriverInv` (lemma `Reduced`): an event that it applies is
counted, and the last one, which is always the verdict, ends the run as selected or abstained
with the verdict the driver made of the evaluator's. An await that rejects anywhere is one
lemma (`EndsOver`): the write it waited for is complete or has not happened.

A candidate is judged in four places: by the driver's `disposition`, by the evaluator's gates, by
the reducer's transitions and by the ranks. `DriverAndEvaluatorAgree` says that the first two
agree for any outcomes, since the evidence the driver builds passes every check of the evaluator
and carries the gates' own statuses (`InputIsComplete`). `TheFastestWins` rests on `VerdictInv`,
an inductive invariant over the driver's steps: the verdict and the scores of the run are of the
outcomes that were measured. Its core are two lemmas about any outcomes: the evaluator selects c
exactly if c alone is the fastest of those that passed, and in that case the driver's rank of c is
1.

That no event is refused is proved as an equation. `MachineAfter(n)` is what the first n events
make of the reducer's whole state: its run state, the request, each candidate with its operation,
report, score and failure, the verdict, the processed keys and the commands.
`EveryEventApplies` says that in a state of the invariants the reducer's action for event n + 1
holds of exactly one step, the one to `MachineAfter(n + 1)`; since nothing else constrains the
next values, the event can always be applied, which is `NeverRefused` without `ENABLED`. The
proof goes through the eleven kinds of events (one lemma each): the schema's refinements hold
of the next run, the transitions of a candidate come in the order of the table, the settling
report agrees with the state, the ranks of the eligible are different and leave no gap, and
the lists of the verdict are those the reducer compares them with. `ScriptInvariant` is the
invariant that follows, and a stronger statement than that an event can be applied: every
run the driver makes is this one.

For the sponsor calls: `CallsInvariant`, `TalliesAreComplete`, `SourcesAreChecked`,
`AllIsReported` and `LightningIsChosen`, for any strategies, sources, token counts, catalogs and
numbers of retries. `CallsInv` says what the four loops around a completion have added up at each
step (`CountsAgree`): a loop that reports n retries has made n + 1 requests, so the requests are
those of the earlier diversity attempt, of the earlier model attempt, of the call before its
repair, and of the request under way. `CallsInStep` says what is still empty, and that the single
shot has no history. `ResearchInv` does the same for the research: what the telemetry's entries
sum up to is what the service has charged (`AllIsReported` takes both). `RoutedInv` says that the
model of a trial is what `selectNvidiaDecision` takes of a catalog that was admitted;
`LightningIsChosen` then is about the first of the preferred candidates, which exists because the
catalog is finite.

The driver, the reducer and the store are proved to fit together. `DriverIsLawful` says that
each step of the driver is a step of the reducer, a new run, or leaves the reducer's state alone;
so `RunInv` and what follows from it hold of the runs of the driver, one after the other
(`RunsAreSound`, `LiveSelectionIsSound`, `LiveVerdictsPartition`), and each is a behaviour of
`RunContract` (`LiveRunsKeepTheContract`). `DriverKeepsRecord` says that what the driver writes to
the files of a case, wherever an await rejects, is a behaviour of `RecordContract`: of this
contract `ImplementsRecordContract` says that the store implements it, and `DriverKeepsRecord`
that the driver uses it as it may be used. The proof rests on `FilesInStep`: an event is one line
longer than the log (`OneMoreLine`), the snapshot comes when the run has ended (`EndedRunStored`),
the manifest after it.

TLC checked the inductive invariants on the instances first.

Only model-checked: the liveness properties (`Settles`, `TrialEnds`, `CallsSettle`; liveness
under fairness is out of the prover's reach), and `NeverRefused` in the form that names
`ENABLED`. Every other property of a passing run is the statement of a theorem. The violated
properties are refuted by TLC's traces.

## Findings

1. The reducer keeps a candidate's last gate report only (`reducer.ts:460`); see
   `reducer_gate_rule`.
2. A temporary file left by a killed process or a failed write among the artifact metadata makes
   `buildReplayManifest` throw on that run for good (`store.ts:760`); see
   `evidence_store_crash`.
3. `createCheckpoint` never cancels its operation (`client.ts:525`), and the trial throws
   without canceling spawned branches when the baseline's command is too long or the
   identity check fails (`trial.ts:832`, `trial.ts:865`); see `sandbox_trial_leak`.
4. A failure while mirrors are set aside leaves the first one away (`promotion.ts:246`); see
   `promotion_swap`.
5. A suite's Tavily retries are added up from cumulative counts (`trial.ts:1529`); see
   `sponsor_retries`.

## What is not modelled, and why

- Contents: artifacts, telemetry other than Tavily's, metrics, prose, redaction, hashing, path
  checks and parsers are functions on strings without state that the properties would be
  about. Hashes are taken as injective.
- The sponsor smoke is only its validity; its calls use the clients that `SponsorCalls`
  models. A capability test of a Lightning model exists in `routeModel`, but no code under
  `src/` makes one.
- `guardReportClaims` of the evaluator is not called by the live trial. The shared schemas are
  modelled as far as the reducer and the store depend on them.
- In the web application the synthetic sample run, event cursors and the interface, which
  renders what it is given. The GitHub integration is a stub; the scripts report.
- Losses of the operating system's page cache: the models kill the process, not the machine.
- Two processes on one run directory are excluded by `docs/hackathon-build/spec.md:468`; two
  promotions at once are not excluded by anything, but the promotion is a command that the
  owner runs by hand, and the model has one at a time.
- Between the verification of a run's replay and the reading of `report.md`
  (`live-evidence.ts:476`) a promotion may swap the bundle, so that the report is the newer
  one. Nothing in the report ties it to a request, and no property is claimed.

## Plan

1. `RunReducer` with its contract and proofs: done.
2. `EvidenceStore` with its proofs: done.
3. `SandboxTrial` with its proofs: done.
4. `Evaluator`, `LiveTrial`, with proofs of what is on disk, of the verdict and of the whole
   script of events: done.
5. `ModelRouter`, `SponsorCalls`, with proofs of the tallies, the sources and the model: done.
6. `LiveEvidence`, `Promotion`, `PublicEvidence` with their proofs: done.
7. `RecordContract`, implemented by the store and used by the driver (`LiveRecord`), and
   `PublicationContract`, implemented by the promotion: done.
8. The event cursor of the replay (`Last-Event-ID`) and the sponsor smoke, if they grow.

Each module keeps to one pattern: parameters as constants, one action per operation, a passing
run with a mutant for each property, then the inductive invariant as an `INVARIANT` of a trial
run, then its proof.
