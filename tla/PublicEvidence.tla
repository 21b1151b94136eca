--------------------------- MODULE PublicEvidence ---------------------------
(***************************************************************************)
(* The readers of promoted evidence beside the promotion: the web          *)
(* application (apps/web/src/lib/live-evidence.ts, readiness.ts and the    *)
(* routes under api/runs) and the owner's check of a submission            *)
(* (submission.ts with readiness.ts and public-evidence.ts of              *)
(* packages/orchestrator).                                                 *)
(*                                                                         *)
(* A request reads several files of one mirror, one await after the other  *)
(* and without a lock; the directory may be swapped in between.  The files *)
(* of a run's replay lie in a directory named after the run and are hashed *)
(* in its manifest, so that reading them is finding the run's replay; a    *)
(* suite's case is read with its replay in one step.  readSummary is       *)
(* cached for a request, and so is read once.                              *)
(* Left out: sample runs, event cursors, bounds on bytes, the replay of    *)
(* the events through the reducer (see RunReducer).                        *)
(***************************************************************************)
EXTENDS Promotion

CONSTANTS
  Web,       \* the mirror the readers look at
  CasePaths, \* the cases whose summaries the web application looks for, in order
  Wanted     \* the run IDs that are asked for

ASSUME WebIsMirror == Web \in 1 .. Mirrors

\* A suite has a primary case, whose run is its own: run IDs are never used again.
ASSUME PrimaryRunsDiffer ==
  \A s, r \in Suites :
    /\ 1 \in DOMAIN Record[s].cases
    /\ s # r => Record[s].cases[1].run # Record[r].cases[1].run

VARIABLES
  request, \* [kind, run, since] or None
  step,    \* of its handler
  turn,    \* of the loop it is in
  primary, \* the trial that trial-summary.json told
  trial,   \* the trial the request is answered with
  suite,   \* the evidence that evaluation-suite.json told
  answer   \* [state, trial, other, time] or None

readerVars == <<request, step, turn, primary, trial, suite, answer>>
allVars == <<vars, readerVars>>

Kinds == {"replay", "patch", "report", "readiness", "submission"}
Judged == {"readiness", "submission"}

\* A trial is known by the evidence it belongs to and its place there.
Told(t) == Record[t.of.suite].trials[t.index]
PrimaryOf(b) == [of |-> b.of, index |-> 1]
RunsOf(b) == {t.run : t \in Members(Record[b.of.suite].trials)}

Shelf == destination[Web]
Has(part) == part \in Shelf.parts

ReaderInit ==
  /\ Init
  /\ request = None /\ step = "none" /\ turn = 1
  /\ primary = None /\ trial = None /\ suite = None
  /\ answer = None

\* The reader moves on, and changes nothing that the promotion knows of.
Reads(from, to) ==
  /\ step = from
  /\ step' = to
  /\ turn' = IF to = from THEN turn + 1 ELSE 1
  /\ UNCHANGED <<vars, request>>

Answers(from, state, other) ==
  /\ Reads(from, "done")
  /\ answer' = [state |-> state, trial |-> trial, other |-> other, time |-> now]
  /\ UNCHANGED <<primary, trial, suite>>

\* What a request is told when a file is missing or does not fit: the readiness routes
\* call the evidence degraded, the owner's check throws, the others say "not found".
Failure == IF request.kind \in Judged THEN "degraded" ELSE "not found"

Ask ==
  /\ step = "none"
  /\ \E kind \in Kinds : \E run \in IF kind \in Judged THEN {None} ELSE Wanted :
       request' = [kind |-> kind, run |-> run, since |-> now]
  /\ step' = "summary"
  /\ UNCHANGED <<vars, turn, primary, trial, suite, answer>>

\* readSummary("trial-summary.json"): an invalid one is a failure; of a good one, the
\* request's run may be the primary trial.
ReadSummary ==
  /\ step = "summary" /\ Has("summary")
  /\ LET told == PrimaryOf(Shelf)
         wanted == request.kind \in Judged \/ Told(told).run = request.run
     IN
       IF PromotableTrial(Told(told))
       THEN /\ Reads("summary", CASE request.kind = "submission" -> "summary again"
                                 [] request.kind # "submission" /\ wanted -> "manifest"
                                 [] OTHER -> "case")
            /\ primary' = told
            /\ trial' = IF wanted THEN told ELSE None
            /\ UNCHANGED <<suite, answer>>
       ELSE Answers("summary", Failure, None)

\* An absent one a readiness check takes for "nothing was promoted".
SummaryAbsent ==
  /\ ~ Has("summary")
  /\ Answers("summary",
             IF request.kind \in Judged THEN "configured-unverified" ELSE "not found", None)

\* readVerifiedPublicReplay reads the summary for itself and wants the same run.
ReadSummaryAgain ==
  /\ step = "summary again"
  /\ IF Has("summary") /\ Told(PrimaryOf(Shelf)).run = Told(primary).run
     THEN Reads("summary again", "manifest") /\ UNCHANGED <<primary, trial, suite, answer>>
     ELSE Answers("summary again", Failure, None)

\* getPromotedSummaryForRun looks the run up in the case summaries.
ReadCase ==
  /\ step = "case"
  /\ LET cases == IF Has("cases") THEN Record[Shelf.of.suite].cases ELSE <<>>
         found == {j \in DOMAIN cases :
                     LET t == Record[Shelf.of.suite].trials[j] IN
                       /\ cases[j].caseId = CasePaths[turn]
                       /\ PromotableTrial(t)
                       /\ t.run = request.run
                       /\ SameSetting(t, Told(primary))}
     IN
       \/ \E j \in found :
            /\ Reads("case", "manifest")
            /\ trial' = [of |-> Shelf.of, index |-> j]
            /\ UNCHANGED <<primary, suite, answer>>
       \/ /\ found = {} /\ turn < Len(CasePaths)
          /\ Reads("case", "case")
          /\ UNCHANGED <<primary, trial, suite, answer>>
       \/ found = {} /\ turn = Len(CasePaths) /\ Answers("case", Failure, None)

ReplayThere(t) == Has("replay") /\ Told(t).run \in RunsOf(Shelf)

\* The manifest, and then the files it names.
ReadManifest ==
  /\ step = "manifest"
  /\ IF ReplayThere(trial)
     THEN Reads("manifest", "files") /\ UNCHANGED <<primary, trial, suite, answer>>
     ELSE Answers("manifest", Failure, None)

ReadFiles ==
  /\ step = "files"
  /\ IF ReplayThere(trial)
     THEN /\ Reads("files", IF request.kind \in Judged THEN "judge" ELSE request.kind)
          /\ UNCHANGED <<primary, trial, suite, answer>>
     ELSE Answers("files", Failure, None)

\* GET /api/runs/[runId] and its events.
ServeReplay == Answers("replay", "found", None)

\* readPromotedAsset: the winner's diff, by its digest, from the run's artifacts.
ServePatch ==
  /\ step = "patch"
  /\ Answers("patch",
             IF Told(trial).selected # None /\ ReplayThere(trial) THEN "found" ELSE "not found",
             None)

\* readPromotedAsset: whatever report.md there is now.
ServeReport ==
  /\ step = "report"
  /\ Answers("report", IF Has("report") THEN "found" ELSE "not found", None)

\* Mutant: the age of the evidence is judged by the time the request came.
JudgeEarly ==
  /\ step = "judge"
  /\ IF Fresh(trial.of.at, request.since)
     THEN \/ request.kind = "readiness" /\ Answers("judge", "verified", None)
          \/ /\ request.kind = "submission"
             /\ Reads("judge", "suite")
             /\ UNCHANGED <<primary, trial, suite, answer>>
     ELSE Answers("judge", "stale", None)

\* The end of getEvidenceReadiness and of getLiveReadiness.
Judge ==
  /\ step = "judge"
  /\ IF Fresh(trial.of.at, now)
     THEN \/ request.kind = "readiness" /\ Answers("judge", "verified", None)
          \/ /\ request.kind = "submission"
             /\ Reads("judge", "suite")
             /\ UNCHANGED <<primary, trial, suite, answer>>
     ELSE Answers("judge", "stale", None)

\* verifyEvaluationSuite reads the suite ...
ReadSuite ==
  /\ step = "suite"
  /\ IF /\ Has("suite")
        /\ PromotableSuite(Record[Shelf.of.suite]) /\ Fresh(Shelf.of.at, now)
     THEN /\ Reads("suite", "suite case")
          /\ suite' = Shelf.of
          /\ UNCHANGED <<primary, trial, answer>>
     ELSE Answers("suite", Failure, None)

\* ... and then each case's summary and replay, which must fit it.
ReadSuiteCase ==
  /\ step = "suite case"
  /\ LET s == Record[suite.suite]
         fits == /\ {"cases", "replay"} \subseteq Shelf.parts
                 /\ s.cases[turn].run \in RunsOf(Shelf)
                 /\ PromotableTrial(s.trials[turn])
                 /\ s.trials[turn].revision = s.revision
                 /\ s.trials[turn].model = s.model
                 /\ s.trials[turn].checkpoint = s.cases[turn].checkpoint
     IN IF fits
        THEN /\ Reads("suite case", IF turn < Len(s.cases) THEN "suite case" ELSE "compare")
             /\ UNCHANGED <<primary, trial, suite, answer>>
        ELSE Answers("suite case", Failure, None)

\* Mutant: the readiness and the suite are not compared.
NotCompared ==
  Reads("compare", "sums") /\ UNCHANGED <<primary, trial, suite, answer>>

\* verifySubmissionReadiness compares the suite with the readiness it was told first ...
Compare ==
  /\ step = "compare"
  /\ LET s == Record[suite.suite] IN
       IF s.cases[1].run = Told(primary).run /\ s.model = Told(primary).model
       THEN Reads("compare", "sums") /\ UNCHANGED <<primary, trial, suite, answer>>
       ELSE Answers("compare", Failure, None)

\* ... and ends with verifyHashManifest.
ReadSums ==
  /\ step = "sums"
  /\ Answers("sums", IF Shelf.parts = Parts THEN "ready" ELSE Failure, suite)

ReaderStep ==
  \/ Ask \/ ReadSummary \/ SummaryAbsent \/ ReadSummaryAgain \/ ReadCase
  \/ ReadManifest \/ ReadFiles \/ ServeReplay \/ ServePatch \/ ServeReport
  \/ Judge \/ ReadSuite \/ ReadSuiteCase \/ Compare \/ ReadSums

\* An answer is of the moment it is given: it is gone before anything else happens.
Sent ==
  /\ step = "done"
  /\ step' = "none" /\ turn' = 1
  /\ request' = None /\ primary' = None /\ trial' = None /\ suite' = None /\ answer' = None
  /\ UNCHANGED vars

Next == (PromotionStep /\ answer = None /\ UNCHANGED readerVars) \/ ReaderStep \/ Sent

Spec == ReaderInit /\ [][Next]_allVars

-----------------------------------------------------------------------------
(* Properties *)

\* Evidence called verified is, at that moment, within its seven days, was cleaned up, and
\* is the evidence of the summary the answer shows; however long the reading took.
VerifiedIsCurrent ==
  answer # None /\ answer.state = "verified" =>
    /\ Fresh(answer.trial.of.at, answer.time)
    /\ Told(answer.trial).cleanupComplete
    /\ answer.trial = primary

\* A submission is declared ready only if the readiness and the suite were read of the same
\* evidence, although they are read one after the other while the directory is swapped.
ReadyIsOneSuite ==
  answer # None /\ answer.state = "ready" =>
    /\ answer.other = answer.trial.of
    /\ SuiteEvidenceHolds(answer.other, answer.other.at)

\* Where a suite is on record, and the place behind which the served mirror does not go back:
\* of what it shows, of its backup while it shows nothing, or of what is being promoted.
Place(e) == IF e = None THEN 0 ELSE CHOOSE i \in DOMAIN recorded : recorded[i] = e

Newest ==
  IF destination[Mirrors] # Absent THEN Place(destination[Mirrors].of)
  ELSE IF backup[Mirrors] # Absent THEN Place(backup[Mirrors].of)
  ELSE Place(evidence)

Publication == INSTANCE PublicationContract WITH
  Sound <- {e \in Evidence : \E t \in e.at .. MaxTime : SuiteEvidenceHolds(e, t)},
  record <- recorded,
  shelf <- destination[Mirrors],
  newest <- Newest

\* The mirror that is served shows whole bundles of evidence that held, and never goes back to
\* an older suite: not when a swap is rolled back, nor when a promotion starts among the
\* staging directories and backups of those that were cut off.
PublicationSpec == Publication!Spec

\* The served mirror holds the bundle of the n-th suite on record.
Serves(n) ==
  /\ n \in DOMAIN recorded
  /\ destination[Mirrors] # Absent /\ destination[Mirrors].of = recorded[n]

\* What PublicationSpec means to a reader: who has seen a suite sees no older one later,
\* however many promotions failed, were rolled back or were cut off in between.
NeverBack ==
  \A n \in 1 .. MaxSuites : [](Serves(n) => [](\A k \in 1 .. MaxSuites : Serves(k) => k >= n))

-----------------------------------------------------------------------------
(* Why they hold: an inductive invariant.                                  *)

\* What can be read of a bundle is of evidence that held when it was promoted.
Sound(b) == b.parts # {} => Holds(b.of)

BundlesInv ==
  \A m \in Numbers : Sound(destination[m]) /\ Sound(backup[m]) /\ Sound(staging[m])

\* Evidence is told apart by its suite.
SuitesOnce == \A e, f \in Members(recorded) : e.suite = f.suite => e = f

JudgedSteps == {"summary again", "judge", "suite", "suite case", "compare", "sums"}

RequestInv ==
  /\ answer # None => step = "done"
  /\ step # "none" => request.kind \in Kinds
  /\ step \in JudgedSteps => request.kind \in Judged
  /\ step = "case" => request.kind \notin Judged

\* What a readiness request has read by the step it is at.
PrimaryInv ==
  step \in JudgedSteps \cup {"manifest", "files"} /\ request.kind \in Judged =>
    /\ trial = primary /\ primary.index = 1
    /\ PromotableTrial(Told(primary))
    /\ Holds(primary.of)

SuiteInv ==
  /\ step \in {"suite case", "compare", "sums"} => Holds(suite)
  /\ step = "sums" => suite = primary.of

ReaderInv ==
  /\ PromotionInv /\ BundlesInv /\ SuitesOnce
  /\ RequestInv /\ PrimaryInv /\ SuiteInv
  /\ VerifiedIsCurrent /\ ReadyIsOneSuite

\* A suite has one place on record.
PlacesDiffer ==
  \A i, j \in DOMAIN recorded : recorded[i].suite = recorded[j].suite => i = j

\* What is served, or set aside to be put back, is whole and not newer than what is promoted.
NotAhead(b) == b # Absent => Whole(b) /\ evidence # None /\ Place(b.of) <= Place(evidence)

PublicationInv ==
  /\ PlacesDiffer
  /\ evidence # None => Holds(evidence)
  /\ NotAhead(destination[Mirrors]) /\ NotAhead(backup[Mirrors])
=============================================================================
