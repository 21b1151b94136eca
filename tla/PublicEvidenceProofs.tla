------------------------ MODULE PublicEvidenceProofs ------------------------
(***************************************************************************)
(* Proofs about the readers of promoted evidence: they write nothing, so   *)
(* that what PromotionProofs proves holds beside them, and what they       *)
(* answer is true although a promotion may run between any two reads.      *)
(***************************************************************************)
EXTENDS PublicEvidence, PromotionProofs

-----------------------------------------------------------------------------
(* The promotion *)

\* Evidence that held stays recorded and was sound at a time that has passed.
LEMMA EvidenceStays ==
  ASSUME PromotionTypeOK, [PromotionStep]_vars
  PROVE  /\ Members(recorded) \subseteq Members(recorded')
         /\ \A e : Holds(e) =>
              e # None /\ e \in Members(recorded')
                /\ \E t \in e.at .. now' : SuiteEvidenceHolds(e, t)
<1>1. UNCHANGED <<recorded, now>> \/ RecordSuite \/ Tick
  BY DEF PromotionStep, Begin, Refuse, Promoting, NextMirror, ClearStaging, Build, DropBackup,
         SetAside, Install, DropOld, Return, Leave, BuildFails, PrepareFails, DropOldFails, Throw,
         InstallFails, RemoveInstalled, Removed, PutBack, RolledBack, RollBackFails, Crash, vars
<1>2. Members(recorded) \subseteq Members(recorded')
  BY <1>1, Recording DEF Tick
<1>3. now' \in Int /\ now <= now' /\ now \in Int
  BY <1>1, BoundsNat DEF PromotionTypeOK, RecordSuite, Tick
<1>4. ASSUME NEW e, Holds(e)
      PROVE  e # None /\ e \in Members(recorded')
               /\ \E t \in e.at .. now' : SuiteEvidenceHolds(e, t)
  <2>1. PICK t \in e.at .. now : SuiteEvidenceHolds(e, t)
    BY <1>4 DEF Holds
  <2>2. e.at \in Int
    BY <1>4, RecordedTimes DEF Holds
  <2>3. t \in e.at .. now'
    BY <1>3, <2>1, <2>2
  <2>4. QED
    BY <1>2, <1>4, <2>1, <2>3 DEF Holds
<1>5. QED
  BY <1>2, <1>4

\* No suite is recorded twice.
LEMMA SuitesOnceKept ==
  ASSUME PromotionTypeOK, SuitesOnce, [PromotionStep]_vars
  PROVE  SuitesOnce'
<1>1. CASE RecordSuite
  <2>1. PICK s \in Suites \ {e.suite : e \in Members(recorded)}, smokeAt \in 0 .. now :
          recorded' = Append(recorded, [suite |-> s, at |-> now, smokeAt |-> smokeAt])
    BY <1>1 DEF RecordSuite
  <2> DEFINE new == [suite |-> s, at |-> now, smokeAt |-> smokeAt]
  <2>2. new \in Evidence /\ recorded \in Seq(Evidence)
    BY BoundsNat DEF PromotionTypeOK, Evidence
  <2>3. Members(recorded') = Members(recorded) \cup {new}
    BY <2>1, <2>2, MembersAppended
  <2>4. \A e \in Members(recorded) : e.suite # new.suite
    OBVIOUS
  <2>5. QED
    BY <2>3, <2>4 DEF SuitesOnce
<1>2. CASE recorded' = recorded
  BY <1>2 DEF SuitesOnce
<1>3. QED
  BY <1>1, <1>2
     DEF PromotionStep, Tick, Begin, Refuse, Promoting, NextMirror, ClearStaging, Build, DropBackup,
         SetAside, Install, DropOld, Return, Leave, BuildFails, PrepareFails, DropOldFails, Throw,
         InstallFails, RemoveInstalled, Removed, PutBack, RolledBack, RollBackFails, Crash, vars

\* Bundles are moved and removed, and only one that is built of sound evidence gets parts.
LEMMA BundlesKept ==
  ASSUME PromotionInv, BundlesInv, [PromotionStep]_vars
  PROVE  BundlesInv'
<1> USE DEF PromotionInv
<1>1. PromotionTypeOK /\ at \in Numbers
  BY DEF PromotionTypeOK
<1>2. destination \in [Numbers -> Bundles] /\ backup \in [Numbers -> Bundles]
      /\ staging \in [Numbers -> Bundles]
  BY DEF PromotionTypeOK
<1>3. \A b : Sound(b) => (b.parts # {} => Holds(b.of) /\ b.of # None /\ b.of \in Members(recorded')
                              /\ \E t \in b.of.at .. now' : SuiteEvidenceHolds(b.of, t))
  BY <1>1, EvidenceStays DEF Sound
<1> DEFINE Old == {destination[m] : m \in Numbers} \cup {backup[m] : m \in Numbers}
                    \cup {staging[m] : m \in Numbers}
           Good(b) == b.parts = {} \/ b \in Old \/ (Holds(evidence) /\ b.of = evidence)
<1>4. \A m \in Numbers : Good(destination'[m]) /\ Good(backup'[m]) /\ Good(staging'[m])
  <2>1. CASE UNCHANGED directories
    BY <2>1 DEF directories
  <2>2. CASE ClearStaging
    BY <1>1, <1>2, <2>2 DEF ClearStaging
  <2>3. CASE Build
    <3>1. staging[at].of = evidence /\ Holds(evidence)
      BY <2>3 DEF Build, NextMirror, Promoting, BuildingInv, RunInv
    <3>2. QED
      BY <1>1, <1>2, <2>3, <3>1 DEF Build, Bundles
  <2>4. CASE DropBackup
    BY <1>1, <1>2, <2>4 DEF DropBackup, Absent
  <2>5. CASE SetAside
    BY <1>1, <1>2, <2>5 DEF SetAside, Absent
  <2>6. CASE Install
    BY <1>1, <1>2, <2>6 DEF Install, Absent
  <2>7. CASE DropOldFails
    BY <1>1, <1>2, <2>7 DEF DropOldFails, Throw, Absent
  <2>8. CASE RemoveInstalled
    BY <1>1, <1>2, <2>8 DEF RemoveInstalled, Absent, Bundles
  <2>9. CASE PutBack
    BY <1>1, <1>2, <2>9 DEF PutBack, Absent
  <2>10. CASE DropOld
    <3>1. PICK m \in Numbers : backup' = [backup EXCEPT ![m] = Absent]
      BY <2>10 DEF DropOld
    <3>2. UNCHANGED <<destination, staging>>
      BY <2>10 DEF DropOld
    <3>3. QED
      BY <1>2, <3>1, <3>2 DEF Absent
  <2>11. QED
    BY <2>1, <2>2, <2>3, <2>4, <2>5, <2>6, <2>7, <2>8, <2>9, <2>10
       DEF PromotionStep, RecordSuite, Tick, Begin, Refuse, Return, BuildFails, PrepareFails, Throw,
           InstallFails, Removed, RollBackFails, Crash, vars, directories
<1>5. ASSUME NEW b, Good(b), b.parts # {}
      PROVE  b.of # None /\ b.of \in Members(recorded')
               /\ \E t \in b.of.at .. now' : SuiteEvidenceHolds(b.of, t)
  <2>1. Holds(b.of)
    BY <1>5 DEF BundlesInv, Sound
  <2>2. QED
    BY <1>1, <2>1, EvidenceStays
<1>6. QED
  BY <1>4, <1>5 DEF BundlesInv, Sound, Holds

\* A promotion that goes on between two reads takes nothing from what was read.
LEMMA PromotionKeepsReader ==
  ASSUME ReaderInv, [PromotionStep]_vars, UNCHANGED readerVars
  PROVE  ReaderInv'
<1>1. PromotionInv' /\ BundlesInv' /\ SuitesOnce'
  BY PromotionInvKept, BundlesKept, SuitesOnceKept DEF ReaderInv, PromotionInv
<1>2. UNCHANGED <<request, step, turn, primary, trial, suite, answer>>
  BY DEF readerVars
<1>3. RequestInv' /\ VerifiedIsCurrent' /\ ReadyIsOneSuite'
  BY <1>2 DEF ReaderInv, RequestInv, VerifiedIsCurrent, ReadyIsOneSuite
<1>4. \A e : Holds(e) => e # None /\ e \in Members(recorded')
                           /\ \E t \in e.at .. now' : SuiteEvidenceHolds(e, t)
  BY EvidenceStays DEF ReaderInv, PromotionInv
<1>5. PrimaryInv'
  BY <1>2, <1>4 DEF ReaderInv, PrimaryInv, Holds
<1>6. SuiteInv'
  BY <1>2, <1>4 DEF ReaderInv, SuiteInv, Holds
<1>7. QED
  BY <1>1, <1>3, <1>5, <1>6 DEF ReaderInv

-----------------------------------------------------------------------------
(* The readers *)

\* They write nothing that the promotion knows of.
LEMMA ReadersOnlyRead == ReaderStep \/ Sent => UNCHANGED vars
  BY DEF ReaderStep, Sent, Ask, ReadSummary, SummaryAbsent, ReadSummaryAgain, ReadCase,
         ReadManifest, ReadFiles, ServeReplay, ServePatch, ServeReport, Judge, ReadSuite,
         ReadSuiteCase, Compare, ReadSums, Answers, Reads

\* So that its invariants hold after their steps.
LEMMA WorldStays ==
  ASSUME ReaderInv, UNCHANGED vars
  PROVE  /\ PromotionInv' /\ BundlesInv' /\ SuitesOnce'
         /\ UNCHANGED <<recorded, now>>
<1>1. UNCHANGED <<recorded, now, destination, backup, staging>>
  BY DEF vars, directories
<1>2. PromotionInv'
  BY PromotionInvKept DEF ReaderInv
<1>3. BundlesInv' /\ SuitesOnce'
  BY <1>1 DEF ReaderInv, BundlesInv, SuitesOnce, Sound, Holds
<1>4. QED
  BY <1>1, <1>2, <1>3

\* Evidence that is read from the served mirror is sound.
LEMMA ShelfHolds ==
  ASSUME ReaderInv, NEW part, Has(part)
  PROVE  Holds(Shelf.of)
<1>1. Web \in Numbers
  BY WebIsMirror DEF Numbers
<1>2. QED
  BY <1>1 DEF ReaderInv, BundlesInv, Sound, Has, Shelf

\* A failure is neither of the good answers, and no step of a request.
LEMMA Failing == Failure \notin {"verified", "ready"}
  BY DEF Failure

\* A request that is answered, but neither as verified nor as ready, is over.
LEMMA AnswersPlainly ==
  ASSUME ReaderInv, NEW from, from # "none", from # "done",
         NEW state, state \notin {"verified", "ready"}, NEW other, Answers(from, state, other)
  PROVE  ReaderInv'
<1>1. /\ UNCHANGED vars /\ request' = request /\ step = from /\ step' = "done"
      /\ UNCHANGED <<primary, trial, suite>>
      /\ answer' = [state |-> state, trial |-> trial, other |-> other, time |-> now]
  BY DEF Answers, Reads
<1>2. RequestInv'
  BY <1>1 DEF ReaderInv, RequestInv, JudgedSteps
<1>3. PrimaryInv' /\ SuiteInv'
  BY <1>1 DEF PrimaryInv, SuiteInv, JudgedSteps
<1>4. VerifiedIsCurrent' /\ ReadyIsOneSuite'
  BY <1>1 DEF VerifiedIsCurrent, ReadyIsOneSuite
<1>5. QED
  BY <1>1, <1>2, <1>3, <1>4, WorldStays DEF ReaderInv

\* A request that goes on has no answer yet.
LEMMA GoesOn ==
  ASSUME ReaderInv, NEW from, from \notin {"none", "done"}, NEW to, Reads(from, to),
         answer' = answer, RequestInv', PrimaryInv', SuiteInv'
  PROVE  ReaderInv'
<1>1. UNCHANGED vars /\ step = from
  BY DEF Reads
<1>2. answer = None
  BY <1>1 DEF ReaderInv, RequestInv
<1>3. VerifiedIsCurrent' /\ ReadyIsOneSuite'
  BY <1>2 DEF VerifiedIsCurrent, ReadyIsOneSuite
<1>4. QED
  BY <1>1, <1>3, WorldStays DEF ReaderInv

LEMMA AskKeeps == ReaderInv /\ Ask => ReaderInv'
<1> SUFFICES ASSUME ReaderInv, Ask PROVE ReaderInv'
  OBVIOUS
<1>1. PICK kind \in Kinds, run \in Wanted \cup {None} : request' = [kind |-> kind, run |-> run, since |-> now]
  BY DEF Ask
<1>2. /\ UNCHANGED vars /\ UNCHANGED <<primary, trial, suite, answer>>
      /\ step = "none" /\ step' = "summary" /\ request'.kind \in Kinds
  BY <1>1 DEF Ask
<1>3. answer = None
  BY <1>2 DEF ReaderInv, RequestInv
<1>4. RequestInv' /\ PrimaryInv' /\ SuiteInv'
  BY <1>2, <1>3 DEF RequestInv, PrimaryInv, SuiteInv, JudgedSteps
<1>5. VerifiedIsCurrent' /\ ReadyIsOneSuite'
  BY <1>2, <1>3 DEF VerifiedIsCurrent, ReadyIsOneSuite
<1>6. QED
  BY <1>2, <1>4, <1>5, WorldStays DEF ReaderInv

\* A good summary is of sound evidence, and a readiness request takes its primary trial.
LEMMA SummaryKeeps == ReaderInv /\ ReadSummary => ReaderInv'
<1> SUFFICES ASSUME ReaderInv, ReadSummary PROVE ReaderInv'
  OBVIOUS
<1> DEFINE told == PrimaryOf(Shelf)
           wanted == request.kind \in Judged \/ Told(told).run = request.run
           to == CASE request.kind = "submission" -> "summary again"
                   [] request.kind # "submission" /\ wanted -> "manifest"
                   [] OTHER -> "case"
<1>1. step = "summary" /\ Has("summary") /\ request.kind \in Kinds
  BY DEF ReadSummary, ReaderInv, RequestInv
<1>2. CASE ~ PromotableTrial(Told(told))
  BY <1>2, Failing, AnswersPlainly DEF ReadSummary
<1>3. CASE PromotableTrial(Told(told))
  <2>1. /\ Reads("summary", to)
        /\ primary' = told /\ trial' = IF wanted THEN told ELSE None
        /\ UNCHANGED <<suite, answer>>
    BY <1>3 DEF ReadSummary
  <2>2. /\ step' = to /\ request' = request /\ UNCHANGED vars
    BY <2>1 DEF Reads
  <2>3. /\ to \in {"summary again", "manifest", "case"}
        /\ to = "summary again" => request.kind = "submission"
        /\ to = "case" => request.kind \notin Judged
    BY DEF Judged
  <2>4. RequestInv'
    BY <1>1, <2>1, <2>2, <2>3 DEF ReaderInv, RequestInv, JudgedSteps, Judged
  <2>5. Holds(told.of) /\ told.index = 1
    BY <1>1, ShelfHolds DEF PrimaryOf
  <2>6. PrimaryInv'
    <3>1. UNCHANGED <<recorded, now>>
      BY <2>2 DEF vars
    <3>2. Holds(primary.of)' /\ primary'.index = 1
      BY <2>1, <2>5, <3>1 DEF Holds
    <3>3. PromotableTrial(Told(primary)')
      BY <1>3, <2>1 DEF Told
    <3>4. request'.kind \in Judged => trial' = primary'
      BY <2>1, <2>2
    <3>5. QED
      BY <3>2, <3>3, <3>4 DEF PrimaryInv, PromotableTrial
  <2>7. SuiteInv'
    BY <2>2, <2>3 DEF SuiteInv
  <2>8. QED
    BY <2>1, <2>4, <2>6, <2>7, GoesOn
<1>4. QED
  BY <1>2, <1>3

\* A step that goes on with what it has: what was known of it is still known.
LEMMA Continues ==
  ASSUME ReaderInv,
         NEW from \in JudgedSteps \cup {"manifest", "files"}, NEW to, Reads(from, to),
         UNCHANGED <<primary, trial, suite, answer>>,
         \/ to \in {"manifest", "files"}
         \/ to \in JudgedSteps \ {"suite case", "compare", "sums"} /\ request.kind \in Judged
         \/ to \in {"suite case", "compare"} /\ from \in {"suite case", "compare"}
         \/ to = "sums" /\ from = "compare" /\ suite = primary.of
         \/ to \in {"replay", "patch", "report"}
  PROVE  ReaderInv'
<1>1. UNCHANGED vars /\ step = from /\ step' = to /\ request' = request
  BY DEF Reads
<1>2. from \notin {"none", "done"}
  BY DEF JudgedSteps
<1>3. RequestInv'
  BY <1>1, <1>2 DEF ReaderInv, RequestInv, JudgedSteps
<1>4. UNCHANGED <<recorded, now>>
  BY <1>1 DEF vars
<1>5. PrimaryInv'
  BY <1>1, <1>4 DEF ReaderInv, PrimaryInv, JudgedSteps, Holds, Told
<1>6. SuiteInv'
  BY <1>1, <1>4 DEF ReaderInv, SuiteInv, JudgedSteps, Holds
<1>7. QED
  BY <1>2, <1>3, <1>5, <1>6, GoesOn

LEMMA FilesKeep ==
  ASSUME ReaderInv, ReadSummaryAgain \/ ReadManifest \/ ReadFiles
  PROVE  ReaderInv'
<1>1. CASE ReadSummaryAgain
  BY <1>1, Failing, AnswersPlainly, Continues DEF ReadSummaryAgain, JudgedSteps
<1>2. CASE ReadManifest
  BY <1>2, Failing, AnswersPlainly, Continues DEF ReadManifest, JudgedSteps
<1>3. CASE ReadFiles
  <2>1. CASE ReplayThere(trial)
    <3> DEFINE to == IF request.kind \in Judged THEN "judge" ELSE request.kind
    <3>1. Reads("files", to) /\ UNCHANGED <<primary, trial, suite, answer>>
      BY <1>3, <2>1 DEF ReadFiles
    <3>2. \/ to = "judge" /\ request.kind \in Judged
          \/ to \in {"replay", "patch", "report"}
      BY <3>1 DEF ReaderInv, RequestInv, Reads, Kinds, Judged
    <3>3. QED
      BY <3>1, <3>2, Continues DEF JudgedSteps
  <2>2. CASE ~ ReplayThere(trial)
    BY <1>3, <2>2, Failing, AnswersPlainly DEF ReadFiles
  <2>3. QED
    BY <2>1, <2>2
<1>4. QED
  BY <1>1, <1>2, <1>3

\* The run of another case is found only for a request that judges nothing.
LEMMA CaseKeeps == ReaderInv /\ ReadCase => ReaderInv'
<1> SUFFICES ASSUME ReaderInv, ReadCase PROVE ReaderInv'
  OBVIOUS
<1>1. \/ \E to \in {"manifest", "case"} :
           Reads("case", to) /\ UNCHANGED <<primary, suite, answer>>
      \/ Answers("case", Failure, None)
  BY DEF ReadCase
<1>2. CASE Answers("case", Failure, None)
  BY <1>2, Failing, AnswersPlainly
<1>3. ASSUME NEW to \in {"manifest", "case"}, Reads("case", to), UNCHANGED <<suite, answer>>
      PROVE  ReaderInv'
  <2>1. step = "case" /\ step' = to /\ request' = request
    BY <1>3 DEF Reads
  <2>2. request.kind \notin Judged
    BY <2>1 DEF ReaderInv, RequestInv
  <2>3. RequestInv' /\ PrimaryInv' /\ SuiteInv'
    BY <1>3, <2>1, <2>2 DEF ReaderInv, RequestInv, PrimaryInv, SuiteInv, JudgedSteps
  <2>4. QED
    BY <1>3, <2>3, GoesOn
<1>4. QED
  BY <1>1, <1>2, <1>3

LEMMA ServingKeeps ==
  ASSUME ReaderInv, SummaryAbsent \/ ServeReplay \/ ServePatch \/ ServeReport
  PROVE  ReaderInv'
<1>1. CASE SummaryAbsent
  <2>1. PICK state \in {"configured-unverified", "not found"} : Answers("summary", state, None)
    BY <1>1 DEF SummaryAbsent
  <2>2. QED
    BY <2>1, AnswersPlainly
<1>2. CASE ServeReplay
  BY <1>2, AnswersPlainly DEF ServeReplay
<1>3. CASE ServePatch
  <2>1. PICK state \in {"found", "not found"} : Answers("patch", state, None)
    BY <1>3 DEF ServePatch
  <2>2. QED
    BY <2>1, AnswersPlainly
<1>4. CASE ServeReport
  <2>1. PICK state \in {"found", "not found"} : Answers("report", state, None)
    BY <1>4 DEF ServeReport
  <2>2. QED
    BY <2>1, AnswersPlainly
<1>5. QED
  BY <1>1, <1>2, <1>3, <1>4

\* "Verified" is said by the clock of the moment it is said.
LEMMA JudgeKeeps == ReaderInv /\ Judge => ReaderInv'
<1> SUFFICES ASSUME ReaderInv, Judge PROVE ReaderInv'
  OBVIOUS
<1>1. step = "judge" /\ request.kind \in Judged
  BY DEF Judge, ReaderInv, RequestInv, JudgedSteps
<1>2. trial = primary /\ PromotableTrial(Told(primary))
  BY <1>1 DEF ReaderInv, PrimaryInv, JudgedSteps
<1>3. CASE Answers("judge", "stale", None)
  BY <1>3, AnswersPlainly
<1>4. CASE Fresh(trial.of.at, now) /\ Answers("judge", "verified", None)
  <2>1. /\ UNCHANGED vars /\ step' = "done" /\ request' = request
        /\ UNCHANGED <<primary, trial, suite>>
        /\ answer' = [state |-> "verified", trial |-> trial, other |-> None, time |-> now]
    BY <1>4 DEF Answers, Reads
  <2>2. RequestInv' /\ PrimaryInv' /\ SuiteInv'
    BY <1>1, <2>1 DEF ReaderInv, RequestInv, PrimaryInv, SuiteInv, JudgedSteps
  <2>3. VerifiedIsCurrent'
    BY <1>2, <1>4, <2>1 DEF VerifiedIsCurrent, PromotableTrial, Told
  <2>4. ReadyIsOneSuite'
    BY <2>1 DEF ReadyIsOneSuite
  <2>5. QED
    BY <2>1, <2>2, <2>3, <2>4, WorldStays DEF ReaderInv
<1>5. CASE Reads("judge", "suite") /\ UNCHANGED <<primary, trial, suite, answer>>
  BY <1>1, <1>5, Continues DEF JudgedSteps
<1>6. QED
  BY <1>3, <1>4, <1>5 DEF Judge

LEMMA SuiteKeeps == ReaderInv /\ ReadSuite => ReaderInv'
<1> SUFFICES ASSUME ReaderInv, ReadSuite PROVE ReaderInv'
  OBVIOUS
<1>1. CASE Answers("suite", Failure, None)
  BY <1>1, Failing, AnswersPlainly
<1>2. CASE /\ Has("suite") /\ Reads("suite", "suite case")
           /\ suite' = Shelf.of /\ UNCHANGED <<primary, trial, answer>>
  <2>1. /\ step = "suite" /\ step' = "suite case" /\ request' = request /\ UNCHANGED vars
        /\ UNCHANGED <<recorded, now>>
    BY <1>2 DEF Reads, vars
  <2>2. Holds(suite)'
    BY <1>2, <2>1, ShelfHolds DEF Holds
  <2>3. RequestInv' /\ SuiteInv'
    BY <1>2, <2>1, <2>2 DEF ReaderInv, RequestInv, SuiteInv, JudgedSteps
  <2>4. PrimaryInv'
    BY <1>2, <2>1 DEF ReaderInv, PrimaryInv, JudgedSteps, Holds, Told
  <2>5. QED
    BY <1>2, <2>3, <2>4, GoesOn
<1>3. QED
  BY <1>1, <1>2 DEF ReadSuite

LEMMA SuiteCaseKeeps == ReaderInv /\ ReadSuiteCase => ReaderInv'
<1> SUFFICES ASSUME ReaderInv, ReadSuiteCase PROVE ReaderInv'
  OBVIOUS
<1>1. \/ Answers("suite case", Failure, None)
      \/ \E to \in {"suite case", "compare"} :
           Reads("suite case", to) /\ UNCHANGED <<primary, trial, suite, answer>>
  BY DEF ReadSuiteCase
<1>2. CASE Answers("suite case", Failure, None)
  BY <1>2, Failing, AnswersPlainly
<1>3. ASSUME NEW to \in {"suite case", "compare"}, Reads("suite case", to),
             UNCHANGED <<primary, trial, suite, answer>>
      PROVE  ReaderInv'
  BY <1>3, Continues DEF JudgedSteps
<1>4. QED
  BY <1>1, <1>2, <1>3

\* Evidence that held fits its own cases, and was current when it was recorded.
LEMMA HeldEvidence ==
  ASSUME PromotionTypeOK, NEW e, Holds(e)
  PROVE  /\ e.suite \in Suites
         /\ 1 \in DOMAIN Record[e.suite].cases
         /\ Record[e.suite].trials[1].run = Record[e.suite].cases[1].run
         /\ SuiteEvidenceHolds(e, e.at)
<1>1. e \in Evidence
  BY RecordedTimes DEF Holds
<1>2. PICK t \in e.at .. now : SuiteEvidenceHolds(e, t)
  BY DEF Holds
<1>3. e.suite \in Suites /\ e.at \in Int /\ e.smokeAt \in Int /\ t \in Int /\ e.at <= t
  BY <1>1, <1>2, RecordedTimes DEF Evidence
<1>4. 1 \in DOMAIN Record[e.suite].cases
  BY <1>3, PrimaryRunsDiffer
<1>5. Record[e.suite].trials[1].run = Record[e.suite].cases[1].run
  BY <1>2, <1>4 DEF SuiteEvidenceHolds, TrialFitsCase
<1>6. Fresh(e.at, e.at) /\ Fresh(e.smokeAt, e.at)
  BY <1>2, <1>3, TTLPositive DEF SuiteEvidenceHolds, Fresh
<1>7. SuiteEvidenceHolds(e, e.at)
  BY <1>2, <1>6 DEF SuiteEvidenceHolds
<1>8. QED
  BY <1>3, <1>4, <1>5, <1>7

\* The same primary run is the same evidence.
LEMMA CompareKeeps == ReaderInv /\ Compare => ReaderInv'
<1> SUFFICES ASSUME ReaderInv, Compare PROVE ReaderInv'
  OBVIOUS
<1>1. step = "compare" /\ request.kind \in Judged
  BY DEF Compare, ReaderInv, RequestInv, JudgedSteps
<1>2. CASE Answers("compare", Failure, None)
  BY <1>2, Failing, AnswersPlainly
<1>3. CASE /\ Record[suite.suite].cases[1].run = Told(primary).run
           /\ Reads("compare", "sums") /\ UNCHANGED <<primary, trial, suite, answer>>
  <2>1. Holds(suite) /\ Holds(primary.of) /\ primary.index = 1
    BY <1>1 DEF ReaderInv, SuiteInv, PrimaryInv, JudgedSteps
  <2>2. PromotionTypeOK
    BY DEF ReaderInv, PromotionInv
  <2>3. Record[suite.suite].cases[1].run = Record[primary.of.suite].cases[1].run
    BY <1>3, <2>1, <2>2, HeldEvidence DEF Told
  <2>4. suite.suite = primary.of.suite
    BY <2>1, <2>2, <2>3, HeldEvidence, PrimaryRunsDiffer
  <2>5. suite = primary.of
    BY <2>1, <2>4 DEF ReaderInv, SuitesOnce, Holds
  <2>6. QED
    BY <1>3, <2>5, Continues DEF JudgedSteps
<1>4. QED
  BY <1>2, <1>3 DEF Compare

LEMMA SumsKeep == ReaderInv /\ ReadSums => ReaderInv'
<1> SUFFICES ASSUME ReaderInv, ReadSums PROVE ReaderInv'
  OBVIOUS
<1>1. step = "sums" /\ request.kind \in Judged
  BY DEF ReadSums, ReaderInv, RequestInv, JudgedSteps
<1>2. trial = primary /\ suite = primary.of /\ Holds(suite)
  BY <1>1 DEF ReaderInv, PrimaryInv, SuiteInv, JudgedSteps
<1>3. SuiteEvidenceHolds(suite, suite.at)
  BY <1>2, HeldEvidence DEF ReaderInv, PromotionInv
<1>4. CASE Answers("sums", "ready", suite)
  <2>1. /\ UNCHANGED vars /\ step' = "done" /\ request' = request
        /\ UNCHANGED <<primary, trial, suite>>
        /\ answer' = [state |-> "ready", trial |-> trial, other |-> suite, time |-> now]
    BY <1>4 DEF Answers, Reads
  <2>2. RequestInv' /\ PrimaryInv' /\ SuiteInv'
    BY <1>1, <2>1 DEF ReaderInv, RequestInv, PrimaryInv, SuiteInv, JudgedSteps
  <2>3. VerifiedIsCurrent'
    BY <2>1 DEF VerifiedIsCurrent
  <2>4. ReadyIsOneSuite'
    BY <1>2, <1>3, <2>1 DEF ReadyIsOneSuite, SuiteEvidenceHolds
  <2>5. QED
    BY <2>1, <2>2, <2>3, <2>4, WorldStays DEF ReaderInv
<1>5. CASE Answers("sums", Failure, suite)
  BY <1>5, Failing, AnswersPlainly
<1>6. QED
  BY <1>4, <1>5 DEF ReadSums

LEMMA SentKeeps == ReaderInv /\ Sent => ReaderInv'
<1> SUFFICES ASSUME ReaderInv, Sent PROVE ReaderInv'
  OBVIOUS
<1>1. UNCHANGED vars /\ step' = "none" /\ answer' = None
  BY DEF Sent
<1>2. RequestInv' /\ PrimaryInv' /\ SuiteInv' /\ VerifiedIsCurrent' /\ ReadyIsOneSuite'
  BY <1>1 DEF RequestInv, PrimaryInv, SuiteInv, JudgedSteps, VerifiedIsCurrent, ReadyIsOneSuite
<1>3. QED
  BY <1>1, <1>2, WorldStays DEF ReaderInv

-----------------------------------------------------------------------------
(* The theorems *)

LEMMA ReaderInvInitially == ReaderInit => ReaderInv
<1> SUFFICES ASSUME ReaderInit PROVE ReaderInv
  OBVIOUS
<1>1. PromotionInv
  BY PromotionInvInitially DEF ReaderInit
<1>2. BundlesInv
  BY DEF ReaderInit, Init, BundlesInv, Sound, Absent
<1>3. SuitesOnce
  BY DEF ReaderInit, Init, SuitesOnce, Members
<1>4. RequestInv /\ PrimaryInv /\ SuiteInv /\ VerifiedIsCurrent /\ ReadyIsOneSuite
  BY DEF ReaderInit, RequestInv, PrimaryInv, SuiteInv, JudgedSteps, VerifiedIsCurrent,
         ReadyIsOneSuite
<1>5. QED
  BY <1>1, <1>2, <1>3, <1>4 DEF ReaderInv

LEMMA ReaderInvKept == ReaderInv /\ [Next]_allVars => ReaderInv'
<1> SUFFICES ASSUME ReaderInv, [Next]_allVars PROVE ReaderInv'
  OBVIOUS
<1>1. CASE UNCHANGED allVars
  BY <1>1, PromotionKeepsReader DEF allVars
<1>2. CASE PromotionStep /\ UNCHANGED readerVars
  BY <1>2, PromotionKeepsReader
<1>3. CASE ReaderStep
  BY <1>3, AskKeeps, SummaryKeeps, FilesKeep, CaseKeeps, ServingKeeps, JudgeKeeps, SuiteKeeps,
     SuiteCaseKeeps, CompareKeeps, SumsKeep DEF ReaderStep
<1>4. QED
  BY <1>1, <1>2, <1>3, SentKeeps DEF Next

\* The invariant of promotion and readers together.
THEOREM ReaderInvariant == Spec => []ReaderInv
<1>1. QED
  BY ReaderInvInitially, ReaderInvKept, PTL DEF Spec

\* The web application and the owner's check only read: with them beside it, the promotion
\* does what it does alone, and the theorems about PromotionSpec hold.
THEOREM ReadersDoNotWrite == Spec => PromotionSpec
<1>1. ReaderInit => Init
  BY DEF ReaderInit
<1>2. [Next]_allVars => [PromotionStep]_vars
  BY ReadersOnlyRead DEF Next, allVars
<1>3. QED
  BY <1>1, <1>2, PTL DEF Spec, PromotionSpec

\* getEvidenceReadiness and getLiveReadiness say "verified" only of evidence that is within
\* its seven days at that moment, whatever happened while they read.
THEOREM VerifiedEvidenceIsCurrent == Spec => []VerifiedIsCurrent
<1>1. ReaderInv => VerifiedIsCurrent
  BY DEF ReaderInv
<1>2. QED
  BY <1>1, ReaderInvariant, PTL

\* verifySubmissionReadiness declares a submission ready only when the readiness and the
\* suite came of one promoted evidence, although they are read one after the other.
THEOREM ReadySubmissionIsOneSuite == Spec => []ReadyIsOneSuite
<1>1. ReaderInv => ReadyIsOneSuite
  BY DEF ReaderInv
<1>2. QED
  BY <1>1, ReaderInvariant, PTL

-----------------------------------------------------------------------------
(* What is served: it implements PublicationContract *)

\* A suite on record has its place there.
LEMMA PlaceFound ==
  ASSUME PromotionTypeOK, NEW e \in Members(recorded)
  PROVE  /\ e \in Evidence /\ e # None
         /\ Place(e) \in 1 .. Len(recorded) /\ recorded[Place(e)] = e
<1>1. recorded \in Seq(Evidence)
  BY DEF PromotionTypeOK
<1>2. PICK i \in DOMAIN recorded : recorded[i] = e
  BY DEF Members
<1>3. e \in Evidence /\ e # None
  BY <1>1, <1>2, NoneIsNoEvidence
<1>4. Place(e) \in DOMAIN recorded /\ recorded[Place(e)] = e
  BY <1>2, <1>3 DEF Place
<1>5. QED
  BY <1>1, <1>3, <1>4

LEMMA PlaceOf ==
  ASSUME PromotionTypeOK, PlacesDiffer, NEW i \in DOMAIN recorded
  PROVE  Place(recorded[i]) = i
<1>1. recorded[i] \in Members(recorded)
  BY DEF Members
<1>2. Place(recorded[i]) \in DOMAIN recorded /\ recorded[Place(recorded[i])] = recorded[i]
  BY <1>1, PlaceFound DEF PromotionTypeOK
<1>3. QED
  BY <1>2 DEF PlacesDiffer

\* A new suite is recorded behind the others, which keep their places.
LEMMA PlacesKept ==
  ASSUME PromotionTypeOK, PromotionTypeOK', PlacesDiffer, RecordSuite \/ UNCHANGED recorded
  PROVE  /\ PlacesDiffer'
         /\ \A e \in Members(recorded) : Place(e)' = Place(e)
<1>1. CASE UNCHANGED recorded
  BY <1>1 DEF PlacesDiffer, Place
<1>2. CASE RecordSuite
  <2>1. PICK s \in Suites \ {e.suite : e \in Members(recorded)}, smokeAt \in 0 .. now :
          recorded' = Append(recorded, [suite |-> s, at |-> now, smokeAt |-> smokeAt])
    BY <1>2 DEF RecordSuite
  <2> DEFINE new == [suite |-> s, at |-> now, smokeAt |-> smokeAt]
  <2>2. recorded \in Seq(Evidence) /\ new \in Evidence
    BY BoundsNat DEF PromotionTypeOK, Evidence
  <2>3. /\ DOMAIN recorded' = 1 .. Len(recorded) + 1
        /\ \A i \in 1 .. Len(recorded) : recorded'[i] = recorded[i]
        /\ recorded'[Len(recorded) + 1] = new
    BY <2>1, <2>2
  <2>4. \A i \in 1 .. Len(recorded) : recorded[i].suite # new.suite
    BY <2>2 DEF Members
  <2>5. PlacesDiffer'
    BY <2>2, <2>3, <2>4 DEF PlacesDiffer
  <2>6. ASSUME NEW e \in Members(recorded)
        PROVE  Place(e)' = Place(e)
    <3> DEFINE p == Place(e)
    <3>1. e # None /\ p \in 1 .. Len(recorded) /\ recorded[p] = e
      BY PlaceFound
    <3> HIDE DEF p
    <3>2. p \in DOMAIN recorded' /\ recorded'[p] = e
      BY <2>2, <2>3, <3>1
    <3>3. (CHOOSE i \in DOMAIN recorded' : recorded'[i] = e) = p
      BY <2>5, <3>2 DEF PlacesDiffer
    <3>4. Place(e)' = p
      BY <3>1, <3>3 DEF Place
    <3>5. QED
      BY <3>4 DEF p
  <2>7. QED
    BY <2>5, <2>6
<1>3. QED
  BY <1>1, <1>2

\* The seven things that may happen to the served mirror and its backup: most steps are of
\* other directories, and a step that installs or puts back finds nothing there.
LEMMA ServedSteps ==
  ASSUME PromotionInv, [PromotionStep]_vars
  PROVE  \/ /\ RecordSuite
            /\ UNCHANGED <<destination, backup, evidence>>
         \/ Begin
         \/ /\ UNCHANGED <<recorded, evidence>>
            /\ \/ UNCHANGED <<destination[Mirrors], backup[Mirrors]>>
               \/ destination'[Mirrors] = destination[Mirrors] /\ backup'[Mirrors] = Absent
               \/ destination'[Mirrors] = Absent /\ backup'[Mirrors] = destination[Mirrors]
               \/ /\ destination[Mirrors] = Absent /\ destination'[Mirrors] = New
                  /\ backup'[Mirrors] = backup[Mirrors] /\ Holds(evidence)
               \/ /\ destination[Mirrors] = Absent /\ backup[Mirrors] # Absent
                  /\ destination'[Mirrors] = backup[Mirrors] /\ backup'[Mirrors] = Absent
<1> DEFINE D == destination[Mirrors]
           B == backup[Mirrors]
<1> USE MirrorNumbers DEF PromotionInv
<1>1. /\ Mirrors \in Numbers /\ at \in Numbers
      /\ destination \in [Numbers -> Bundles] /\ backup \in [Numbers -> Bundles]
  BY DEF PromotionTypeOK
<1>2. CASE UNCHANGED vars
  BY <1>2 DEF vars, directories, loop
<1>3. CASE Refuse \/ ClearStaging \/ Build \/ Return \/ Removed \/ Tick
  BY <1>3 DEF Refuse, ClearStaging, Build, Return, Removed, Tick, NextMirror, Promoting, Leave,
              directories, loop
<1>4. CASE BuildFails \/ PrepareFails \/ RollBackFails \/ Crash \/ InstallFails
  BY <1>4 DEF BuildFails, PrepareFails, RollBackFails, Crash, InstallFails, Throw, Leave,
              directories, loop
<1>5. CASE DropBackup
  <2>1. UNCHANGED <<recorded, evidence, destination>>
    BY <1>5 DEF DropBackup, Promoting
  <2>2. backup' = [backup EXCEPT ![at] = Absent]
    BY <1>5 DEF DropBackup
  <2>3. backup'[Mirrors] = B \/ backup'[Mirrors] = Absent
    BY <1>1, <2>2
  <2>4. QED
    BY <2>1, <2>3
<1>6. CASE SetAside
  <2>1. UNCHANGED <<recorded, evidence>>
    BY <1>6 DEF SetAside, NextMirror, Promoting
  <2>2. /\ backup' = [backup EXCEPT ![at] = destination[at]]
        /\ destination' = [destination EXCEPT ![at] = Absent]
    BY <1>6 DEF SetAside
  <2>3. \/ backup'[Mirrors] = B /\ destination'[Mirrors] = D
        \/ backup'[Mirrors] = D /\ destination'[Mirrors] = Absent
    BY <1>1, <2>2
  <2>4. QED
    BY <2>1, <2>3
<1>7. CASE Install
  <2>1. UNCHANGED <<recorded, evidence, backup>> /\ pc = "installing"
    BY <1>7 DEF Install, NextMirror, Promoting
  <2>2. destination' = [destination EXCEPT ![at] = staging[at]]
    BY <1>7 DEF Install
  <2>3. Holds(evidence)
    BY <2>1 DEF RunInv
  <2>4. CASE at # Mirrors
    BY <1>1, <2>1, <2>2, <2>4
  <2>5. CASE at = Mirrors
    <3>1. ~ (Mirrors < at)
      BY <2>5, MirrorsPositive
    <3>2. D = Absent /\ staging[at] = New
      BY <1>1, <2>1, <2>5, <3>1 DEF InstallingInv, Aside, Staged
    <3>3. destination'[Mirrors] = New
      BY <1>1, <2>2, <2>5, <3>2
    <3>4. QED
      BY <2>1, <2>3, <3>2, <3>3
  <2>6. QED
    BY <2>4, <2>5
<1>8. CASE DropOld
  <2>1. UNCHANGED <<recorded, evidence, destination>>
    BY <1>8 DEF DropOld, Promoting
  <2>2. PICK m \in Numbers : backup' = [backup EXCEPT ![m] = Absent]
    BY <1>8 DEF DropOld
  <2>3. backup'[Mirrors] = B \/ backup'[Mirrors] = Absent
    BY <1>1, <2>2
  <2>4. QED
    BY <2>1, <2>3
<1>9. CASE DropOldFails
  <2>1. UNCHANGED <<recorded, evidence, destination>>
    BY <1>9 DEF DropOldFails, Throw, Leave
  <2>2. PICK gone \in SUBSET Numbers :
          backup' = [m \in Numbers |-> IF had[m] /\ m \in gone THEN Absent ELSE backup[m]]
    BY <1>9 DEF DropOldFails
  <2>3. backup'[Mirrors] = B \/ backup'[Mirrors] = Absent
    BY <1>1, <2>2
  <2>4. QED
    BY <2>1, <2>3
<1>10. CASE RemoveInstalled
  <2>1. /\ UNCHANGED <<recorded, evidence, backup>> /\ pc = "removing" /\ installed[at]
        /\ destination' = [destination EXCEPT ![at] = IF Whole(@) THEN [@ EXCEPT !.parts = {}]
                                                                  ELSE Absent]
    BY <1>10 DEF RemoveInstalled, Promoting
  <2>2. at # Mirrors
    BY <2>1 DEF RollingBackInv
  <2>3. destination'[Mirrors] = D
    BY <1>1, <2>1, <2>2
  <2>4. QED
    BY <2>1, <2>3
<1>11. CASE PutBack
  <2>1. UNCHANGED <<recorded, evidence>> /\ pc = "putting back"
    BY <1>11 DEF PutBack, RolledBack, Promoting, Leave
  <2>2. /\ destination' = IF had[at] THEN [destination EXCEPT ![at] = backup[at]] ELSE destination
        /\ backup' = IF had[at] THEN [backup EXCEPT ![at] = Absent] ELSE backup
    BY <1>11 DEF PutBack
  <2>3. CASE at # Mirrors \/ ~ had[at]
    BY <1>1, <2>1, <2>2, <2>3
  <2>4. CASE at = Mirrors /\ had[at]
    <3>1. D = Absent
      BY <2>1, <2>4 DEF RollingBackInv
    <3>2. ~ (Mirrors > at)
      BY <2>4, MirrorsPositive
    <3>3. Kept(Mirrors)
      BY <1>1, <2>1, <3>2 DEF RollingBackInv
    <3>4. B # Absent
      BY <2>4, <3>3 DEF Kept
    <3>5. destination'[Mirrors] = B /\ backup'[Mirrors] = Absent
      BY <1>1, <2>2, <2>4
    <3>6. QED
      BY <2>1, <3>1, <3>4, <3>5
  <2>5. QED
    BY <2>3, <2>4
<1>12. CASE RecordSuite
  BY <1>12 DEF RecordSuite, directories, loop
<1>13. QED
  BY <1>2, <1>3, <1>4, <1>5, <1>6, <1>7, <1>8, <1>9, <1>10, <1>11, <1>12 DEF PromotionStep

\* What is on record with a whole bundle has its place, and stood its checks.
LEMMA ServedIsRecorded ==
  ASSUME ReaderInv, PublicationInv, NEW b \in {destination[Mirrors], backup[Mirrors]}, b # Absent
  PROVE  /\ b = [of |-> b.of, parts |-> Parts]
         /\ b.of \in Members(recorded) /\ Holds(b.of)
         /\ evidence # None /\ Place(b.of) <= Place(evidence)
<1>1. Mirrors \in Numbers /\ b \in Bundles
  BY MirrorNumbers DEF ReaderInv, PromotionInv, PromotionTypeOK
<1>2. Whole(b) /\ evidence # None /\ Place(b.of) <= Place(evidence)
  BY DEF PublicationInv, NotAhead
<1>3. Sound(b) /\ b.parts # {}
  BY <1>1, <1>2 DEF ReaderInv, BundlesInv, Whole, Parts
<1>4. Holds(b.of)
  BY <1>3 DEF Sound
<1>5. b = [of |-> b.of, parts |-> Parts]
  BY <1>1, <1>2 DEF Whole, Bundles
<1>6. QED
  BY <1>2, <1>4, <1>5 DEF Holds

LEMMA PublicationInvInitially == ReaderInit => PublicationInv
  BY MirrorNumbers DEF ReaderInit, Init, PublicationInv, PlacesDiffer, NotAhead, Absent

LEMMA PublicationInvKept ==
  ASSUME ReaderInv, ReaderInv', PublicationInv, [PromotionStep]_vars
  PROVE  PublicationInv'
<1> DEFINE D == destination[Mirrors]
           B == backup[Mirrors]
<1>1. PromotionInv /\ PromotionTypeOK /\ PromotionTypeOK'
  BY DEF ReaderInv, PromotionInv
<1>2. RecordSuite \/ UNCHANGED recorded
  BY <1>1, ServedSteps DEF Begin
<1>3. /\ PlacesDiffer'
      /\ \A e \in Members(recorded) : Place(e)' = Place(e)
  BY <1>1, <1>2, PlacesKept DEF PublicationInv
<1>4. \A e : Holds(e) => Holds(e)'
  BY <1>1, EvidenceStays DEF Holds
<1>5. /\ D # Absent => D.of \in Members(recorded)
      /\ B # Absent => B.of \in Members(recorded)
      /\ evidence # None => evidence \in Members(recorded)
  BY ServedIsRecorded DEF PublicationInv, Holds
<1>6. CASE UNCHANGED <<destination, backup, evidence>>
  <2>1. (evidence # None => Holds(evidence))'
    BY <1>4, <1>6 DEF PublicationInv
  <2>2. NotAhead(D)' /\ NotAhead(B)'
    BY <1>3, <1>5, <1>6 DEF PublicationInv, NotAhead, Whole
  <2>3. QED
    BY <1>3, <2>1, <2>2 DEF PublicationInv
<1>7. CASE Begin
  <2>1. /\ UNCHANGED <<recorded, now, destination, backup>> /\ pc' = "clearing"
        /\ evidence' = recorded[Len(recorded)] /\ Len(recorded) \in DOMAIN recorded
    BY <1>1, <1>7 DEF Begin, directories, PromotionTypeOK
  <2>2. Holds(evidence)'
    BY <2>1 DEF ReaderInv, PromotionInv, RunInv
  <2>3. Place(recorded[Len(recorded)]) = Len(recorded) /\ evidence' # None
    BY <1>1, <2>1, <2>2, PlaceOf DEF PublicationInv, Holds
  <2>4. Place(evidence)' = Len(recorded)
    BY <2>1, <2>3 DEF Place
  <2>5. \A e \in Members(recorded) : Place(e) <= Len(recorded)
    BY <1>1, PlaceFound DEF PromotionTypeOK
  <2>6. NotAhead(D)' /\ NotAhead(B)'
    BY <1>3, <1>5, <2>1, <2>3, <2>4, <2>5 DEF PublicationInv, NotAhead, Whole
  <2>7. QED
    BY <1>3, <2>2, <2>6 DEF PublicationInv
<1>8. CASE /\ UNCHANGED <<recorded, evidence>>
           /\ {destination'[Mirrors], backup'[Mirrors]} \subseteq
                {D, B, Absent} \cup {b \in {New} : Holds(evidence)}
  <2>1. \A b \in {D, B, Absent} : NotAhead(b)
    BY DEF PublicationInv, NotAhead
  <2>2. Holds(evidence) => NotAhead(New)
    BY <1>1, PlaceFound, NewIsWhole DEF NotAhead, New, Holds
  <2>3. \A b : NotAhead(b)' <=> NotAhead(b)
    BY <1>8 DEF NotAhead, Place, Whole
  <2>4. NotAhead(destination'[Mirrors]) /\ NotAhead(backup'[Mirrors])
    BY <1>8, <2>1, <2>2
  <2>5. NotAhead(destination[Mirrors])' /\ NotAhead(backup[Mirrors])'
    BY <1>8, <2>4 DEF NotAhead, Place, Whole
  <2>6. QED
    BY <1>3, <1>4, <1>8, <2>5 DEF PublicationInv
<1>9. QED
  BY <1>1, <1>6, <1>7, <1>8, ServedSteps

\* The mapping, by what the served mirror and its backup hold.
LEMMA NewestPlace ==
  ASSUME ReaderInv, PublicationInv
  PROVE  /\ Newest \in 0 .. Len(recorded)
         /\ evidence # None => Place(evidence) \in 1 .. Len(recorded) /\ Newest <= Place(evidence)
         /\ evidence = None => destination[Mirrors] = Absent /\ backup[Mirrors] = Absent
<1> DEFINE D == destination[Mirrors]
           B == backup[Mirrors]
<1>1. PromotionTypeOK /\ Len(recorded) \in Nat
  BY DEF ReaderInv, PromotionInv, PromotionTypeOK
<1>2. ASSUME NEW b \in {D, B}, b # Absent
      PROVE  /\ Place(b.of) \in 1 .. Len(recorded)
             /\ evidence # None /\ Place(b.of) <= Place(evidence)
  BY <1>1, <1>2, ServedIsRecorded, PlaceFound
<1>3. evidence # None => Place(evidence) \in 1 .. Len(recorded)
  BY <1>1, PlaceFound DEF PublicationInv, Holds
<1>4. evidence = None => Place(evidence) = 0
  BY DEF Place
<1>5. \/ D # Absent /\ Newest = Place(D.of)
      \/ D = Absent /\ B # Absent /\ Newest = Place(B.of)
      \/ D = Absent /\ B = Absent /\ Newest = Place(evidence)
  BY DEF Newest
<1>6. QED
  BY <1>1, <1>2, <1>3, <1>4, <1>5

LEMMA NewestInRange == ReaderInv /\ PublicationInv => Newest \in 0 .. Len(recorded)
  BY NewestPlace

LEMMA HoldingIsSound ==
  ASSUME PromotionTypeOK, NEW e, Holds(e)
  PROVE  e \in {f \in Evidence : \E t \in f.at .. MaxTime : SuiteEvidenceHolds(f, t)}
<1>1. e \in Evidence /\ e.at \in Int
  BY RecordedTimes DEF Holds
<1>2. PICK t \in e.at .. now : SuiteEvidenceHolds(e, t)
  BY DEF Holds
<1>3. t \in e.at .. MaxTime
  BY <1>1, <1>2, BoundsNat DEF PromotionTypeOK
<1>4. QED
  BY <1>1, <1>2, <1>3

LEMMA PublicationStarts == ReaderInit => Publication!Init
  BY MirrorNumbers DEF ReaderInit, Init, Publication!Init, Publication!Nothing, Newest, Place, Absent

\* Every step of the promotion is a step of the contract, or one that the readers of the
\* mirror that is served cannot tell from none.
LEMMA PublicationSteps ==
  ASSUME ReaderInv, ReaderInv', PublicationInv, PublicationInv', [PromotionStep]_vars
  PROVE  [Publication!Next]_(Publication!contractVars)
<1> DEFINE D == destination[Mirrors]
           B == backup[Mirrors]
<1> USE DEF Publication!Nothing, Publication!contractVars
<1>1. PromotionInv /\ PromotionTypeOK /\ PromotionTypeOK'
  BY DEF ReaderInv, PromotionInv
<1>2. CASE /\ RecordSuite
           /\ UNCHANGED <<destination, backup, evidence>>
  <2>1. Newest' = Newest
    <3>1. \A e \in Members(recorded) : Place(e)' = Place(e)
      BY <1>1, <1>2, PlacesKept DEF PublicationInv
    <3>2. /\ D # Absent => D.of \in Members(recorded)
          /\ B # Absent => B.of \in Members(recorded)
          /\ evidence # None => evidence \in Members(recorded)
      BY ServedIsRecorded DEF PublicationInv, Holds
    <3>3. evidence = None => Place(evidence)' = Place(evidence)
      BY <1>2 DEF Place
    <3>4. QED
      BY <1>2, <3>1, <3>2, <3>3 DEF Newest
  <2>2. \E e \in Evidence : recorded' = Append(recorded, e)
    <3>1. PICK s \in Suites, smokeAt \in 0 .. now :
            recorded' = Append(recorded, [suite |-> s, at |-> now, smokeAt |-> smokeAt])
      BY <1>2 DEF RecordSuite
    <3>2. [suite |-> s, at |-> now, smokeAt |-> smokeAt] \in Evidence
      BY <1>1, BoundsNat DEF PromotionTypeOK, Evidence
    <3>3. QED
      BY <3>1, <3>2
  <2>3. QED
    BY <1>2, <2>1, <2>2 DEF Publication!Next, Publication!Add
<1>3. /\ Newest \in 0 .. Len(recorded) /\ Newest' \in 0 .. Len(recorded')
      /\ evidence # None => Place(evidence) \in 1 .. Len(recorded) /\ Newest <= Place(evidence)
      /\ evidence = None => Newest = Place(evidence)
  <2>1. (ReaderInv /\ PublicationInv => Newest \in 0 .. Len(recorded))'
    BY NewestInRange, PTL
  <2>2. QED
    BY <2>1, NewestPlace DEF Newest
<1>4. ASSUME UNCHANGED recorded, D = Absent, destination'[Mirrors] = Absent, Newest <= Newest'
      PROVE  Publication!Next
  <2>1. Newest' \in Newest .. Len(recorded)
    BY <1>3, <1>4
  <2>2. QED
    BY <1>4, <2>1 DEF Publication!Next, Publication!PassOver, Absent
<1>5. ASSUME UNCHANGED recorded
      PROVE  \A e : Place(e)' = Place(e)
  BY <1>5 DEF Place
<1>6. CASE Begin
  <2>1. /\ UNCHANGED <<recorded, destination, backup>>
        /\ evidence' = recorded[Len(recorded)] /\ Len(recorded) \in DOMAIN recorded
    BY <1>1, <1>6 DEF Begin, directories, PromotionTypeOK
  <2>2. CASE D # Absent \/ B # Absent
    BY <2>1, <2>2 DEF Newest, Place
  <2>3. CASE D = Absent /\ B = Absent
    <3>1. Place(recorded[Len(recorded)]) = Len(recorded)
      BY <1>1, <2>1, PlaceOf DEF PublicationInv
    <3>2. Newest' = Len(recorded)
      BY <2>1, <2>3, <3>1 DEF Newest, Place
    <3>3. QED
      BY <1>3, <1>4, <2>1, <2>3, <3>2
  <2>4. QED
    BY <2>2, <2>3
<1>7. CASE /\ UNCHANGED <<recorded, evidence>>
           /\ UNCHANGED <<destination[Mirrors], backup[Mirrors]>>
  BY <1>7 DEF Newest, Place
<1>8. CASE /\ UNCHANGED <<recorded, evidence>> /\ D # Absent
           /\ destination'[Mirrors] = D /\ backup'[Mirrors] = Absent
  BY <1>8 DEF Newest, Place
<1>9. CASE /\ UNCHANGED <<recorded, evidence>> /\ D = Absent
           /\ destination'[Mirrors] = Absent /\ backup'[Mirrors] = Absent
  <2>1. Newest' = Place(evidence)
    BY <1>9 DEF Newest, Place
  <2>2. QED
    BY <1>3, <1>4, <1>9, <2>1
<1>10. CASE /\ UNCHANGED <<recorded, evidence>> /\ D # Absent
            /\ destination'[Mirrors] = Absent /\ backup'[Mirrors] = D
  <2>1. Newest' = Newest
    BY <1>10 DEF Newest, Place
  <2>2. QED
    BY <1>10, <2>1 DEF Publication!Next, Publication!Withdraw, Absent
<1>11. ASSUME UNCHANGED recorded, D = Absent, NEW e, Holds(e), Newest <= Place(e),
              destination'[Mirrors] = [of |-> e, parts |-> Parts]
       PROVE  Publication!Next
  <2>1. e \in Members(recorded) /\ e # None
    BY <1>11 DEF Holds
  <2> DEFINE n == Place(e)
  <2>2. n \in DOMAIN recorded /\ recorded[n] = e
    BY <1>1, <2>1, PlaceFound DEF PromotionTypeOK
  <2>3. Newest' = n
    <3>1. destination'[Mirrors] # Absent
      BY <1>11, <2>1 DEF Absent
    <3>2. Newest' = Place(e)'
      BY <1>11, <3>1 DEF Newest, Place
    <3>3. QED
      BY <1>5, <1>11, <3>2
  <2>4. Publication!Show(n)
    BY <1>1, <1>11, <2>2, <2>3, HoldingIsSound DEF Publication!Show, Absent
  <2>5. QED
    BY <2>2, <2>4 DEF Publication!Next
<1>12. CASE /\ UNCHANGED <<recorded, evidence>>
            /\ D = Absent /\ destination'[Mirrors] = New /\ Holds(evidence)
  BY <1>3, <1>11, <1>12 DEF New, Holds
<1>13. CASE /\ UNCHANGED <<recorded, evidence>>
            /\ D = Absent /\ B # Absent /\ destination'[Mirrors] = B
  <2>1. B = [of |-> B.of, parts |-> Parts] /\ Holds(B.of)
    BY <1>13, ServedIsRecorded
  <2>2. Newest = Place(B.of)
    BY <1>13 DEF Newest
  <2>3. Newest <= Place(B.of)
    BY <1>3, <2>2
  <2>4. QED
    BY <1>11, <1>13, <2>1, <2>3
<1>14. QED
  BY <1>1, <1>2, <1>6, <1>7, <1>8, <1>9, <1>10, <1>12, <1>13, ServedSteps

LEMMA PublicationInvStep ==
  ReaderInv /\ ReaderInv' /\ PublicationInv /\ [Next]_allVars => PublicationInv'
<1> SUFFICES ASSUME ReaderInv, ReaderInv', PublicationInv, [Next]_allVars PROVE PublicationInv'
  OBVIOUS
<1>1. [PromotionStep]_vars
  BY ReadersOnlyRead DEF Next, allVars
<1>2. QED
  BY <1>1, PublicationInvKept

\* What is served or kept to be put back is never newer than what is being promoted, with
\* promotions that fail or die anywhere: what the next two theorems rest on.
THEOREM PublicationInvariant == Spec => []PublicationInv
<1>1. QED
  BY PublicationInvInitially, PublicationInvStep, ReaderInvariant, PTL DEF Spec

LEMMA NextIsPublic ==
  /\ ReaderInv /\ ReaderInv' /\ PublicationInv /\ PublicationInv' /\ [Next]_allVars
  => [Publication!Next]_(Publication!contractVars)
<1> SUFFICES ASSUME ReaderInv, ReaderInv', PublicationInv, PublicationInv', [Next]_allVars
             PROVE  [Publication!Next]_(Publication!contractVars)
  OBVIOUS
<1>1. [PromotionStep]_vars
  BY ReadersOnlyRead DEF Next, allVars
<1>2. QED
  BY <1>1, PublicationSteps

\* The staging directories, backups and renames of replaceDirectoriesAtomically implement a
\* shelf on which whole bundles of checked suites are shown, each at least as new as the last.
THEOREM ImplementsPublication == Spec => PublicationSpec
<1>1. QED
  BY PublicationStarts, NextIsPublic, ReaderInvariant, PublicationInvariant, PTL
     DEF Spec, PublicationSpec, Publication!Spec

\* The contract's bound only grows.
LEMMA NewestGrows ==
  /\ ReaderInv /\ ReaderInv' /\ PublicationInv /\ PublicationInv' /\ [Next]_allVars
  => Newest <= Newest'
<1> SUFFICES ASSUME ReaderInv, ReaderInv', PublicationInv, PublicationInv', [Next]_allVars
             PROVE  Newest <= Newest'
  OBVIOUS
<1>1. Newest \in Nat
  BY NewestInRange DEF ReaderInv, PromotionInv, PromotionTypeOK
<1>2. [Publication!Next]_(Publication!contractVars)
  BY NextIsPublic
<1>3. Newest' = Newest \/ (\E n \in DOMAIN recorded : n >= Newest /\ Newest' = n)
      \/ Newest' \in Newest .. Len(recorded)
  BY <1>2 DEF Publication!Next, Publication!Add, Publication!Show, Publication!Withdraw,
              Publication!PassOver, Publication!contractVars
<1>4. QED
  BY <1>1, <1>3 DEF ReaderInv, PromotionInv, PromotionTypeOK

\* What is served is the newest there has been.
LEMMA ServedIsNewest ==
  ASSUME ReaderInv, PublicationInv, NEW n, Serves(n)
  PROVE  Newest = n /\ n \in Nat
<1>1. PromotionTypeOK /\ n \in DOMAIN recorded
  BY DEF ReaderInv, PromotionInv, Serves
<1>2. Place(recorded[n]) = n
  BY <1>1, PlaceOf DEF PublicationInv
<1>3. QED
  BY <1>1, <1>2 DEF Newest, Serves, PromotionTypeOK

\* Readers of the served mirror never go back in time.
THEOREM ReadersNeverGoBack == Spec => NeverBack
<1> SUFFICES ASSUME NEW n \in 1 .. MaxSuites
             PROVE  Spec => [](Serves(n) => [](\A k \in 1 .. MaxSuites : Serves(k) => k >= n))
  BY DEF NeverBack
<1> DEFINE Reached == Newest \in Nat /\ n <= Newest
           Newer == \A k \in 1 .. MaxSuites : Serves(k) => k >= n
<1>1. ReaderInv /\ PublicationInv /\ Serves(n) => Reached
  BY ServedIsNewest, BoundsNat
<1>2. /\ ReaderInv /\ ReaderInv' /\ PublicationInv /\ PublicationInv' /\ [Next]_allVars
      /\ Reached
      => Reached'
  <2>1. (ReaderInv /\ PublicationInv => Newest \in 0 .. Len(recorded))'
    BY NewestInRange, PTL
  <2>2. ReaderInv' => Len(recorded)' \in Nat
    BY DEF ReaderInv, PromotionInv, PromotionTypeOK
  <2>3. QED
    BY <2>1, <2>2, NewestGrows
<1>3. ReaderInv /\ PublicationInv /\ Reached => Newer
  BY ServedIsNewest
<1> HIDE DEF Reached, Newer
<1>4. Spec => [](Serves(n) => []Newer)
  BY <1>1, <1>2, <1>3, ReaderInvariant, PublicationInvariant, PTL DEF Spec
<1>5. QED
  BY <1>4 DEF Newer
=============================================================================
