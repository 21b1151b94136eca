--------------------------- MODULE LiveTrialProofs ---------------------------
(***************************************************************************)
(* Proofs about LiveTrial, for any strategies, outcomes, cases, smokes and *)
(* faults: what a summary and a suite on disk stand for, wherever a run    *)
(* was cut off; that the driver and the evaluator agree and the winner is  *)
(* the fastest; that the reducer applies every event of the driver; that   *)
(* the driver steps the reducer and writes the evidence of its runs as the *)
(* contracts of the two allow.                                             *)
(***************************************************************************)
EXTENDS LiveRecord, RunReducerProofs, DataInduction

-----------------------------------------------------------------------------
(* The events *)

\* There are at least ten of them, and the last one is the verdict.
LEMMA LastEvent ==
  /\ EventCount \in Nat /\ EventCount >= 10
  /\ Script(EventCount) = Event("verdict")
<1>1. Len(Order) \in Nat
  BY OrderNamesStrategies
<1>2. EventCount \in Nat /\ EventCount >= 10
  BY <1>1 DEF EventCount
<1>3. EventCount - 6 - 4 * Len(Order) = 4 /\ ~ (EventCount <= 6)
      /\ ~ (EventCount - 7 < 4 * Len(Order))
  BY <1>1 DEF EventCount
<1>4. Script(EventCount) = Event("verdict")
  BY <1>3 DEF Script
<1>5. QED
  BY <1>2, <1>4

\* The reducer counts the event; of the verdict, it makes the end of the run.
LEMMA Reduced ==
  ASSUME NEW n \in Nat, Reduce(Script(n), n)
  PROVE  /\ lastEventId' = n
         /\ n = EventCount =>
              /\ runState' = EndOf(evaluated)
              /\ runState' = "SELECTED" => verdict'.winner = evaluated.winner
<1>1. lastEventId' = n
  BY DEF Reduce, RunReceived, SourceResolved, InventoryCompleted, SpecificationCompleted,
         CheckpointReady, CandidatesStarted, CandidateTransitioned, CandidatesEvaluated,
         FalsificationCompleted, ScoringCompleted, VerdictSelected, VerdictAbstained, Apply
<1>2. ASSUME n = EventCount
      PROVE  /\ runState' = EndOf(evaluated)
             /\ runState' = "SELECTED" => verdict'.winner = evaluated.winner
  <2>1. Script(n).type = "verdict"
    BY <1>2, LastEvent DEF Event
  <2>2. verdict' = Verdict /\ (VerdictSelected(n, n) \/ VerdictAbstained(n, n))
    BY <2>1 DEF Reduce
  <2>3. CASE VerdictSelected(n, n)
    <3>1. verdict'.kind = "selected" /\ runState' = "SELECTED"
      BY <2>3 DEF VerdictSelected, SelectedVerdicts
    <3>2. evaluated.status = "selected"
      BY <2>2, <3>1 DEF Verdict
    <3>3. QED
      BY <2>2, <3>1, <3>2 DEF Verdict, EndOf
  <2>4. CASE VerdictAbstained(n, n)
    <3>1. verdict'.kind = "abstained" /\ runState' = "ABSTAINED"
      BY <2>4 DEF VerdictAbstained, AbstainedVerdicts
    <3>2. evaluated.status # "selected"
      BY <2>2, <3>1 DEF Verdict
    <3>3. QED
      BY <3>1, <3>2 DEF EndOf
  <2>5. QED
    BY <2>2, <2>3, <2>4
<1>3. QED
  BY <1>1, <1>2

-----------------------------------------------------------------------------
(* The files *)

\* SummaryIsReplayable, of one case.
Replayable(d) ==
  d.summary # NoSummary =>
    /\ d.logged = EventCount /\ d.manifest = EventCount /\ d.summary.events = EventCount
    /\ d.snapshot.state = d.summary.final
    /\ d.summary.final = IF d.summary.verdict.status = "selected" THEN "SELECTED"
                                                                 ELSE "ABSTAINED"
    /\ d.summary.final = "SELECTED" => d.snapshot.verdict.winner = d.summary.verdict.winner

LEMMA ReplayableCases == SummaryIsReplayable <=> \A k \in 1 .. Cases : Replayable(disk[k])
  BY DEF SummaryIsReplayable, Replayable

LEMMA NoFilesReplayable == Replayable(NoFiles)
  BY DEF Replayable, NoFiles

\* The case is one of the cases.
LEMMA CaseNumbers ==
  ASSUME DriverTypeOK
  PROVE  /\ Cases \in Nat /\ case \in Nat /\ 1 <= case /\ case <= Cases
         /\ \A k \in case + 1 .. Cases : k \in 1 .. Cases /\ k # case
         /\ \A k \in 1 .. case - 1 : k \in 1 .. Cases /\ k # case
  BY CasesPositive DEF DriverTypeOK

\* A write changes the files of the case only.
LEMMA OneCaseWritten ==
  ASSUME DriverTypeOK, NEW d, disk' = [disk EXCEPT ![case] = d]
  PROVE  /\ DOMAIN disk' = 1 .. Cases /\ disk' = [k \in DOMAIN disk' |-> disk'[k]]
         /\ disk'[case] = d
         /\ \A k \in 1 .. Cases : k # case => disk'[k] = disk[k]
  BY DEF DriverTypeOK

\* The summary that is written is of the run that is stored.
LEMMA ToldIsReplayable ==
  ASSUME RunEnded, step \in AfterMeasuring \ {"reducing", "appending"}
  PROVE  /\ Told # NoSummary
         /\ Replayable([logged |-> EventCount, snapshot |-> Stored, manifest |-> EventCount,
                        summary |-> Told])
<1>1. Told # NoSummary
  BY LastEvent DEF Told, NoSummary
<1>2. runState = EndOf(evaluated) /\ (runState = "SELECTED" => verdict.winner = evaluated.winner)
  BY DEF RunEnded
<1>3. QED
  BY <1>1, <1>2 DEF Replayable, Stored, Told, EndOf

\* The parts of the invariant that are about the cases before this one.
LEMMA CasesStayOver ==
  ASSUME DriverInv, UNCHANGED <<call, case, completed>>,
         DOMAIN disk' = 1 .. Cases, \A k \in 1 .. Cases : k # case => disk'[k] = disk[k],
         step' = "over" \/ (step \notin {"suite", "over"} /\ step' # "suite")
  PROVE  CasesOver'
<1>1. CASE step' = "over"
  BY <1>1 DEF CasesOver
<1>2. CASE step \notin {"suite", "over"} /\ step' # "suite" /\ call = "suite"
  <2>1. /\ Len(completed) = case - 1
        /\ \A k \in 1 .. Len(completed) :
             disk[k].summary # NoSummary /\ disk[k].summary.cleanupComplete
    BY <1>2 DEF DriverInv, CasesOver
  <2>2. \A k \in 1 .. Len(completed) : disk'[k] = disk[k]
    BY <2>1, CaseNumbers DEF DriverInv
  <2>3. QED
    BY <1>2, <2>1, <2>2 DEF CasesOver
<1>3. QED
  BY <1>1, <1>2 DEF CasesOver

\* An await rejects or a check throws, and the last write is there or not.
LEMMA EndsOver ==
  ASSUME DriverInv, step \notin {"idle", "over"}, step' = "over",
         UNCHANGED <<call, case, smoke, clean, completed, suiteFile>>,
         disk' \in {disk, [disk EXCEPT ![case] = Writing(@)]}
  PROVE  DriverInv'
<1> USE DEF DriverInv
<1>1. ~ suiteFile
  OBVIOUS
<1>2. /\ DOMAIN disk' = 1 .. Cases /\ disk' = [k \in DOMAIN disk' |-> disk'[k]]
      /\ \A k \in 1 .. Cases : k # case => disk'[k] = disk[k]
      /\ disk'[case] \in {disk[case], Writing(disk[case])}
  <2>1. CASE disk' = disk
    BY <2>1 DEF DriverTypeOK
  <2>2. CASE disk' = [disk EXCEPT ![case] = Writing(disk[case])]
    BY <2>2, OneCaseWritten
  <2>3. QED
    BY <2>1, <2>2
<1>3. DriverTypeOK'
  BY <1>2 DEF DriverTypeOK, Steps, AfterMeasuring
<1>4. FilesInStep' /\ RunEnded' /\ CasesOver' /\ NotCalled'
  BY DEF FilesInStep, RunEnded, CasesOver, NotCalled, AfterMeasuring
<1>5. Replayable(Writing(disk[case]))
  <2>1. CASE step = "summary"
    <3>1. disk[case] = [logged |-> EventCount, snapshot |-> Stored, manifest |-> EventCount,
                        summary |-> NoSummary]
          /\ lastEventId = EventCount
      BY <2>1 DEF FilesInStep, RunEnded, AfterMeasuring
    <3>2. Writing(disk[case]) = [logged |-> EventCount, snapshot |-> Stored,
                                 manifest |-> EventCount, summary |-> Told]
      BY <2>1, <3>1 DEF Writing, Told
    <3>3. QED
      BY <2>1, <3>2, ToldIsReplayable DEF AfterMeasuring
  <2>2. CASE step \in {"appending", "snapshot", "manifest"}
    <3>1. CASE step = "appending"
      <4>1. disk[case] = [logged |-> lastEventId - 1, snapshot |-> None, manifest |-> 0,
                          summary |-> NoSummary]
        BY <3>1 DEF FilesInStep
      <4>2. QED
        BY <3>1, <4>1 DEF Writing, Replayable
    <3>2. CASE step = "snapshot"
      <4>1. disk[case] = [logged |-> EventCount, snapshot |-> None, manifest |-> 0,
                          summary |-> NoSummary]
        BY <3>2 DEF FilesInStep
      <4>2. QED
        BY <3>2, <4>1 DEF Writing, Replayable
    <3>3. CASE step = "manifest"
      <4>1. disk[case] = [logged |-> EventCount, snapshot |-> Stored, manifest |-> 0,
                          summary |-> NoSummary]
        BY <3>3 DEF FilesInStep
      <4>2. QED
        BY <3>3, <4>1 DEF Writing, Replayable
    <3>4. QED
      BY <2>2, <3>1, <3>2, <3>3
  <2>3. CASE step \notin {"appending", "snapshot", "manifest", "summary"}
    <3>1. Writing(disk[case]) = disk[case]
      BY <2>3 DEF Writing
    <3>2. QED
      BY <3>1, ReplayableCases, CaseNumbers
  <2>4. QED
    BY <2>1, <2>2, <2>3
<1>6. SummaryIsReplayable'
  <2>1. \A k \in 1 .. Cases : Replayable(disk[k])
    BY ReplayableCases
  <2>2. \A k \in 1 .. Cases : Replayable(disk'[k])
    BY <1>2, <1>5, <2>1
  <2>3. QED
    BY <2>2 DEF SummaryIsReplayable, Replayable
<1>7. SuiteOfCleanTrials'
  BY <1>1 DEF SuiteOfCleanTrials
<1>8. QED
  BY <1>1, <1>3, <1>4, <1>6, <1>7

-----------------------------------------------------------------------------
(* The steps of the driver *)

\* At the start no function was called and no file is there.
LEMMA DriverInitHolds == DriverInit => DriverInv
<1> SUFFICES ASSUME DriverInit PROVE DriverInv
  OBVIOUS
<1>1. disk = [k \in 1 .. Cases |-> NoFiles] /\ step = "idle" /\ case = 1 /\ completed = <<>>
      /\ call = "none" /\ smoke = 0 /\ ~ clean /\ clean \in BOOLEAN /\ suiteFile = FALSE
  BY DEF DriverInit
<1>2. DriverTypeOK
  <2>1. DOMAIN disk = 1 .. Cases /\ disk = [k \in DOMAIN disk |-> disk[k]]
    BY <1>1
  <2>2. case \in 1 .. Cases /\ smoke \in Nat
    BY <1>1, CasesPositive
  <2>3. <<>> \in Seq(Nat)
    OBVIOUS
  <2>4. suiteFile \in BOOLEAN
    BY <1>1
  <2>5. QED
    BY <1>1, <2>1, <2>2, <2>3, <2>4 DEF DriverTypeOK, Steps, AfterMeasuring
<1>3. FilesInStep /\ RunEnded /\ CasesOver /\ NotCalled
  BY <1>1, <1>2, CaseNumbers DEF FilesInStep, RunEnded, CasesOver, NotCalled, AfterMeasuring
<1>4. SummaryIsReplayable
  BY <1>1, NoFilesReplayable, ReplayableCases
<1>5. QED
  BY <1>1, <1>2, <1>3, <1>4 DEF DriverInv, SuiteOfCleanTrials

\* A step that writes no file, and is not the end of a case or of the suite.
LEMMA NothingWritten ==
  ASSUME DriverInv, UNCHANGED <<call, case, completed, disk, suiteFile>>,
         step \notin {"suite", "over"}, step' \notin {"idle", "suite", "over"},
         DriverTypeOK', FilesInStep', RunEnded'
  PROVE  DriverInv'
<1>1. ~ suiteFile /\ ~ suiteFile'
  BY DEF DriverInv
<1>2. CasesOver'
  BY CasesStayOver DEF DriverInv, DriverTypeOK
<1>3. SummaryIsReplayable'
  BY DEF DriverInv, SummaryIsReplayable
<1>4. NotCalled' /\ SuiteOfCleanTrials'
  BY <1>1 DEF NotCalled, SuiteOfCleanTrials
<1>5. QED
  BY <1>1, <1>2, <1>3, <1>4 DEF DriverInv

LEMMA CallKeeps == DriverInv /\ Call => DriverInv'
<1> SUFFICES ASSUME DriverInv, Call PROVE DriverInv'
  OBVIOUS
<1> USE DEF DriverInv
<1>1. /\ step = "idle" /\ step' = "smoke" /\ call' \in {"trial", "suite"}
      /\ UNCHANGED <<case, smoke, clean, completed, suiteFile, disk>>
  BY DEF Call, DriverTypeOK, Keeps, measured
<1>2. DriverTypeOK'
  BY <1>1 DEF DriverTypeOK, Steps, AfterMeasuring
<1>3. FilesInStep' /\ RunEnded' /\ NotCalled'
  BY <1>1 DEF FilesInStep, RunEnded, NotCalled, AfterMeasuring
<1>4. CasesOver'
  BY <1>1 DEF NotCalled, CasesOver
<1>5. SummaryIsReplayable' /\ SuiteOfCleanTrials' /\ ~ suiteFile'
  BY <1>1 DEF SummaryIsReplayable, SuiteOfCleanTrials
<1>6. QED
  BY <1>2, <1>3, <1>4, <1>5

LEMMA TakeSmokeKeeps == DriverInv /\ TakeSmoke => DriverInv'
<1> SUFFICES ASSUME DriverInv, TakeSmoke PROVE DriverInv'
  OBVIOUS
<1> USE DEF DriverInv
<1>1. /\ step = "smoke" /\ step' = "measuring" /\ smoke' \in {smoke, smoke + 1}
      /\ UNCHANGED <<call, case, clean, completed, suiteFile, disk>>
  BY DEF TakeSmoke, Goes, measured
<1>2. DriverTypeOK'
  BY <1>1 DEF DriverTypeOK, Steps, AfterMeasuring
<1>3. FilesInStep' /\ RunEnded'
  BY <1>1 DEF FilesInStep, RunEnded, AfterMeasuring
<1>4. QED
  BY <1>1, <1>2, <1>3, NothingWritten

LEMMA MeasureKeeps == DriverInv /\ Measure => DriverInv'
<1> SUFFICES ASSUME DriverInv, Measure PROVE DriverInv'
  OBVIOUS
<1> USE DEF DriverInv
<1>1. /\ step = "measuring" /\ step' = "reducing" /\ clean' \in BOOLEAN /\ lastEventId' = 0
      /\ UNCHANGED <<call, case, smoke, completed, suiteFile, disk>>
  BY DEF Measure, Goes
<1>2. DriverTypeOK'
  BY <1>1 DEF DriverTypeOK, Steps, AfterMeasuring
<1>3. FilesInStep'
  BY <1>1, LastEvent DEF FilesInStep, NoFiles
<1>4. RunEnded'
  BY <1>1 DEF RunEnded, AfterMeasuring
<1>5. QED
  BY <1>1, <1>2, <1>3, <1>4, NothingWritten

\* The event is not yet in the log.
LEMMA ReduceEventKeeps == DriverInv /\ ReduceEvent => DriverInv'
<1> SUFFICES ASSUME DriverInv, ReduceEvent PROVE DriverInv'
  OBVIOUS
<1> USE DEF DriverInv
<1>1. /\ step = "reducing" /\ step' = "appending"
      /\ Reduce(Script(lastEventId + 1), lastEventId + 1)
      /\ UNCHANGED <<call, case, smoke, clean, evaluated, completed, suiteFile, disk>>
  BY DEF ReduceEvent, Goes, Keeps, measured
<1>2. lastEventId \in Nat /\ lastEventId < EventCount
      /\ disk[case] = [logged |-> lastEventId, snapshot |-> None, manifest |-> 0,
                       summary |-> NoSummary]
      /\ \A k \in case + 1 .. Cases : disk[k] = NoFiles
  BY <1>1 DEF DriverTypeOK, FilesInStep, AfterMeasuring
<1>3. /\ lastEventId' = lastEventId + 1
      /\ lastEventId + 1 = EventCount =>
           /\ runState' = EndOf(evaluated)
           /\ runState' = "SELECTED" => verdict'.winner = evaluated.winner
  BY <1>1, <1>2, Reduced
<1>4. DriverTypeOK'
  BY <1>1, <1>2, <1>3 DEF DriverTypeOK, Steps, AfterMeasuring
<1>5. lastEventId' \in 1 .. EventCount /\ lastEventId' - 1 = lastEventId
  BY <1>2, <1>3, LastEvent
<1>6. FilesInStep'
  BY <1>1, <1>2, <1>5 DEF FilesInStep
<1>7. RunEnded'
  BY <1>1, <1>3 DEF RunEnded, EndOf, AfterMeasuring
<1>8. QED
  BY <1>1, <1>4, <1>6, <1>7, NothingWritten

\* A write that is done leaves the files of the next step.
LEMMA WritesKeeps ==
  ASSUME DriverInv, NEW to, Writes(to), step \in AfterMeasuring \ {"cleanup"},
         to \in AfterMeasuring, to = "reducing" => step = "appending",
         FilesInStep', RunEnded', Replayable(Writing(disk[case]))
  PROVE  DriverInv'
<1> USE DEF DriverInv
<1>1. /\ step' = to /\ disk' = [disk EXCEPT ![case] = Writing(disk[case])]
      /\ UNCHANGED <<call, case, smoke, clean, completed, suiteFile, lastEventId>>
  BY DEF Writes, Goes, Keeps, measured, vars, machineVars
<1>2. /\ DOMAIN disk' = 1 .. Cases /\ disk' = [k \in DOMAIN disk' |-> disk'[k]]
      /\ disk'[case] = Writing(disk[case])
      /\ \A k \in 1 .. Cases : k # case => disk'[k] = disk[k]
  BY <1>1, OneCaseWritten
<1>3. DriverTypeOK'
  BY <1>1, <1>2 DEF DriverTypeOK, Steps, AfterMeasuring
<1>4. CasesOver'
  BY <1>1, <1>2, CasesStayOver DEF AfterMeasuring
<1>5. SummaryIsReplayable'
  <2>1. \A k \in 1 .. Cases : Replayable(disk'[k])
    BY <1>2, ReplayableCases
  <2>2. QED
    BY <2>1 DEF SummaryIsReplayable, Replayable
<1>6. NotCalled' /\ SuiteOfCleanTrials' /\ ~ suiteFile'
  BY <1>1 DEF NotCalled, SuiteOfCleanTrials, AfterMeasuring
<1>7. QED
  BY <1>3, <1>4, <1>5, <1>6

\* What a write does not touch.
LEMMA WritesChanges ==
  ASSUME DriverInv, NEW to, Writes(to), step \notin {"idle", "over"}
  PROVE  /\ step' = to /\ disk'[case] = Writing(disk[case])
         /\ \A k \in case + 1 .. Cases : disk'[k] = NoFiles
         /\ UNCHANGED <<case, clean, evaluated, runState, verdict, lastEventId>>
         /\ Stored' = Stored /\ Told' = Told
<1>1. /\ step' = to /\ disk' = [disk EXCEPT ![case] = Writing(disk[case])]
      /\ UNCHANGED <<case, clean, evaluated, runState, verdict, lastEventId>>
  BY DEF Writes, Goes, Keeps, measured, vars, machineVars
<1>2. /\ disk'[case] = Writing(disk[case])
      /\ \A k \in 1 .. Cases : k # case => disk'[k] = disk[k]
  BY <1>1, OneCaseWritten DEF DriverInv
<1>3. \A k \in case + 1 .. Cases : disk'[k] = NoFiles
  BY <1>2, CaseNumbers DEF DriverInv, FilesInStep
<1>4. Stored' = Stored /\ Told' = Told
  BY <1>1 DEF Stored, Told
<1>5. QED
  BY <1>1, <1>2, <1>3, <1>4

LEMMA AppendEventKeeps == DriverInv /\ AppendEvent => DriverInv'
<1> SUFFICES ASSUME DriverInv, AppendEvent PROVE DriverInv'
  OBVIOUS
<1> DEFINE to == IF lastEventId = EventCount THEN "snapshot" ELSE "reducing"
<1>1. step = "appending" /\ Writes(to)
  BY DEF AppendEvent
<1>2. /\ disk[case] = [logged |-> lastEventId - 1, snapshot |-> None, manifest |-> 0,
                       summary |-> NoSummary]
      /\ lastEventId \in 1 .. EventCount
  BY <1>1 DEF DriverInv, FilesInStep
<1>3. lastEventId \in Nat /\ (lastEventId - 1) + 1 = lastEventId
      /\ (lastEventId # EventCount => lastEventId < EventCount)
  BY <1>2, LastEvent
<1>4. Writing(disk[case]) = [logged |-> lastEventId, snapshot |-> None, manifest |-> 0,
                             summary |-> NoSummary]
  BY <1>1, <1>2, <1>3 DEF Writing
<1> HIDE DEF to
<1>5. /\ step' = to /\ disk'[case] = Writing(disk[case])
      /\ \A k \in case + 1 .. Cases : disk'[k] = NoFiles
      /\ UNCHANGED <<case, evaluated, runState, verdict, lastEventId>>
  BY <1>1, WritesChanges
<1>6. FilesInStep'
  BY <1>3, <1>4, <1>5 DEF FilesInStep, to
<1>7. RunEnded'
  BY <1>1, <1>5 DEF DriverInv, RunEnded, EndOf, AfterMeasuring, to
<1>8. Replayable(Writing(disk[case]))
  BY <1>4 DEF Replayable
<1>9. to \in AfterMeasuring
  BY DEF to, AfterMeasuring
<1>10. QED
  BY <1>1, <1>6, <1>7, <1>8, <1>9, WritesKeeps DEF AfterMeasuring

LEMMA WriteSnapshotKeeps == DriverInv /\ WriteSnapshot => DriverInv'
<1> SUFFICES ASSUME DriverInv, WriteSnapshot PROVE DriverInv'
  OBVIOUS
<1>1. step = "snapshot" /\ Writes("replay")
  BY DEF WriteSnapshot
<1>2. disk[case] = [logged |-> EventCount, snapshot |-> None, manifest |-> 0,
                    summary |-> NoSummary]
  BY <1>1 DEF DriverInv, FilesInStep
<1>3. Writing(disk[case]) = [logged |-> EventCount, snapshot |-> Stored, manifest |-> 0,
                             summary |-> NoSummary]
  BY <1>1, <1>2 DEF Writing, Stored
<1>4. /\ step' = "replay" /\ disk'[case] = Writing(disk[case])
      /\ \A k \in case + 1 .. Cases : disk'[k] = NoFiles
      /\ UNCHANGED <<case, evaluated, runState, verdict, lastEventId>>
      /\ Stored' = Stored
  BY <1>1, WritesChanges
<1>5. FilesInStep'
  BY <1>3, <1>4 DEF FilesInStep
<1>6. RunEnded'
  BY <1>1, <1>4 DEF DriverInv, RunEnded, EndOf, AfterMeasuring
<1>7. Replayable(Writing(disk[case]))
  BY <1>3 DEF Replayable
<1>8. QED
  BY <1>1, <1>5, <1>6, <1>7, WritesKeeps DEF AfterMeasuring

LEMMA WriteManifestKeeps == DriverInv /\ WriteManifest => DriverInv'
<1> SUFFICES ASSUME DriverInv, WriteManifest PROVE DriverInv'
  OBVIOUS
<1>1. step = "manifest" /\ Writes("summary")
  BY DEF WriteManifest
<1>2. disk[case] = [logged |-> EventCount, snapshot |-> Stored, manifest |-> 0,
                    summary |-> NoSummary]
  BY <1>1 DEF DriverInv, FilesInStep
<1>3. Writing(disk[case]) = [logged |-> EventCount, snapshot |-> Stored,
                             manifest |-> EventCount, summary |-> NoSummary]
  BY <1>1, <1>2 DEF Writing
<1>4. /\ step' = "summary" /\ disk'[case] = Writing(disk[case])
      /\ \A k \in case + 1 .. Cases : disk'[k] = NoFiles
      /\ UNCHANGED <<case, evaluated, runState, verdict, lastEventId>>
      /\ Stored' = Stored
  BY <1>1, WritesChanges
<1>5. FilesInStep'
  BY <1>3, <1>4 DEF FilesInStep
<1>6. RunEnded'
  BY <1>1, <1>4 DEF DriverInv, RunEnded, EndOf, AfterMeasuring
<1>7. Replayable(Writing(disk[case]))
  BY <1>3 DEF Replayable
<1>8. QED
  BY <1>1, <1>5, <1>6, <1>7, WritesKeeps DEF AfterMeasuring

LEMMA WriteSummaryKeeps == DriverInv /\ WriteSummary => DriverInv'
<1> SUFFICES ASSUME DriverInv, WriteSummary PROVE DriverInv'
  OBVIOUS
<1>1. step = "summary" /\ Writes("cleanup")
  BY DEF WriteSummary
<1>2. /\ disk[case] = [logged |-> EventCount, snapshot |-> Stored, manifest |-> EventCount,
                       summary |-> NoSummary]
      /\ lastEventId = EventCount
  BY <1>1 DEF DriverInv, FilesInStep, RunEnded, AfterMeasuring
<1>3. Writing(disk[case]) = [logged |-> EventCount, snapshot |-> Stored,
                             manifest |-> EventCount, summary |-> Told]
  BY <1>1, <1>2 DEF Writing, Told
<1>4. /\ step' = "cleanup" /\ disk'[case] = Writing(disk[case])
      /\ \A k \in case + 1 .. Cases : disk'[k] = NoFiles
      /\ UNCHANGED <<case, evaluated, runState, verdict, lastEventId>>
      /\ Stored' = Stored /\ Told' = Told
  BY <1>1, WritesChanges
<1>5. FilesInStep'
  BY <1>3, <1>4 DEF FilesInStep
<1>6. RunEnded'
  BY <1>1, <1>4 DEF DriverInv, RunEnded, EndOf, AfterMeasuring
<1>7. Replayable(Writing(disk[case]))
  BY <1>1, <1>3, ToldIsReplayable DEF DriverInv, AfterMeasuring
<1>8. QED
  BY <1>1, <1>5, <1>6, <1>7, WritesKeeps DEF AfterMeasuring

LEMMA CheckReplayKeeps == DriverInv /\ CheckReplay => DriverInv'
<1> SUFFICES ASSUME DriverInv, CheckReplay PROVE DriverInv'
  OBVIOUS
<1>1. step = "replay" /\ disk' = disk
      /\ UNCHANGED <<call, case, smoke, clean, evaluated, completed, suiteFile,
                     runState, verdict, lastEventId>>
  BY DEF CheckReplay, Goes, Throws, Keeps, measured, vars, machineVars
<1>2. CASE step' = "manifest"
  <2>1. DriverTypeOK'
    BY <1>1, <1>2 DEF DriverInv, DriverTypeOK, Steps, AfterMeasuring
  <2>2. FilesInStep' /\ RunEnded'
    BY <1>1, <1>2 DEF DriverInv, FilesInStep, RunEnded, Stored, EndOf, AfterMeasuring
  <2>3. QED
    BY <1>1, <1>2, <2>1, <2>2, NothingWritten
<1>3. CASE step' = "over"
  BY <1>1, <1>3, EndsOver
<1>4. QED
  BY <1>2, <1>3 DEF CheckReplay, Goes, Throws

\* A clean case is noted with its smoke; the suite goes to a case that has no files, or,
\* after the last one, compares the smokes.
LEMMA EndCaseKeeps == DriverInv /\ EndCase => DriverInv'
<1> SUFFICES ASSUME DriverInv, EndCase PROVE DriverInv'
  OBVIOUS
<1> USE DEF DriverInv
<1>1. CASE ~ clean
  <2>1. step = "cleanup" /\ step' = "over" /\ disk' = disk
        /\ UNCHANGED <<call, case, smoke, clean, completed, suiteFile>>
    BY <1>1 DEF EndCase, Throws, Keeps, measured
  <2>2. QED
    BY <2>1, EndsOver
<1>2. CASE clean
  <2>1. /\ step = "cleanup" /\ completed' = Append(completed, smoke)
        /\ UNCHANGED <<call, smoke, clean, suiteFile, disk>>
        /\ IF call = "suite" /\ case < Cases
           THEN case' = case + 1 /\ step' = "smoke"
           ELSE case' = case /\ step' = IF call = "suite" THEN "suite" ELSE "over"
    BY <1>2 DEF EndCase, Goes, measured
  <2>2. ~ suiteFile /\ ~ suiteFile'
    BY <2>1
  <2>3. /\ disk[case].summary = Told /\ Told # NoSummary /\ Told.cleanupComplete
        /\ \A k \in case + 1 .. Cases : disk[k] = NoFiles
    <3>1. /\ disk[case] = [logged |-> EventCount, snapshot |-> Stored,
                           manifest |-> EventCount, summary |-> Told]
          /\ \A k \in case + 1 .. Cases : disk[k] = NoFiles
      BY <2>1 DEF FilesInStep
    <3>2. disk[case].summary = Told
      BY <3>1
    <3>3. Told # NoSummary
      BY <2>1, ToldIsReplayable DEF AfterMeasuring
    <3>4. Told.cleanupComplete
      BY <1>2 DEF Told
    <3>5. QED
      BY <3>1, <3>2, <3>3, <3>4
  <2>4. completed \in Seq(Nat) /\ smoke \in Nat /\ completed' \in Seq(Nat)
        /\ Len(completed') = Len(completed) + 1
        /\ completed'[Len(completed) + 1] = smoke
    BY <2>1 DEF DriverTypeOK
  <2>5. DriverTypeOK'
    BY <2>1, <2>4, CaseNumbers DEF DriverTypeOK, Steps, AfterMeasuring
  <2>6. FilesInStep'
    <3>1. CASE call = "suite" /\ case < Cases
      <4>1. case' = case + 1 /\ step' = "smoke" /\ case + 1 \in case + 1 .. Cases
            /\ \A k \in (case + 1) + 1 .. Cases : k \in case + 1 .. Cases
        BY <2>1, <3>1, CaseNumbers
      <4>2. disk'[case'] = NoFiles /\ \A k \in case' + 1 .. Cases : disk'[k] = NoFiles
        BY <2>1, <2>3, <4>1
      <4>3. QED
        BY <4>1, <4>2 DEF FilesInStep
    <3>2. CASE ~ (call = "suite" /\ case < Cases)
      <4>1. case' = case /\ step' \in {"suite", "over"}
        BY <2>1, <3>2
      <4>2. QED
        BY <2>1, <2>3, <4>1 DEF FilesInStep
    <3>3. QED
      BY <3>1, <3>2
  <2>7. RunEnded' /\ NotCalled' /\ SuiteOfCleanTrials'
    BY <2>1, <2>2 DEF RunEnded, NotCalled, SuiteOfCleanTrials, AfterMeasuring
  <2>8. SummaryIsReplayable'
    BY <2>1 DEF SummaryIsReplayable
  <2>9. CasesOver'
    <3>1. SUFFICES ASSUME call = "suite" PROVE CasesOver'
      BY <2>1 DEF CasesOver
    <3>2. /\ Len(completed) = case - 1
          /\ \A k \in 1 .. Len(completed) :
               disk[k].summary # NoSummary /\ disk[k].summary.cleanupComplete
      BY <2>1, <3>1 DEF CasesOver
    <3>3. Len(completed') = case
      BY <2>4, <3>2, CaseNumbers
    <3>4. \A k \in 1 .. case :
            disk'[k].summary # NoSummary /\ disk'[k].summary.cleanupComplete
      BY <2>1, <2>3, <3>2, CaseNumbers
    <3>5. CASE case < Cases
      BY <2>1, <3>1, <3>3, <3>4, <3>5, CaseNumbers DEF CasesOver
    <3>6. CASE ~ (case < Cases)
      <4>1. case = Cases /\ case' = case /\ step' = "suite"
        BY <2>1, <3>1, <3>6, CaseNumbers
      <4>2. completed'[Cases] = smoke'
        BY <2>1, <2>4, <3>2, <4>1, CaseNumbers
      <4>3. QED
        BY <3>3, <3>4, <4>1, <4>2 DEF CasesOver
    <3>7. QED
      BY <3>5, <3>6
  <2>10. QED
    BY <2>2, <2>5, <2>6, <2>7, <2>8, <2>9
<1>3. QED
  BY <1>1, <1>2

LEMMA WriteSuiteKeeps == DriverInv /\ WriteSuite => DriverInv'
<1> SUFFICES ASSUME DriverInv, WriteSuite PROVE DriverInv'
  OBVIOUS
<1> USE DEF DriverInv
<1>1. /\ step = "suite" /\ step' = "over"
      /\ UNCHANGED <<call, case, smoke, clean, completed, disk>>
  BY DEF WriteSuite, Goes, Throws, Keeps, measured
<1>2. CASE suiteFile' = suiteFile
  BY <1>1, <1>2, EndsOver
<1>3. CASE suiteFile' /\ \A i, j \in DOMAIN completed : completed[i] = completed[j]
  <2>1. call = "suite" /\ case = Cases /\ Len(completed) = Cases /\ completed[Cases] = smoke
        /\ \A k \in 1 .. Cases :
             disk[k].summary # NoSummary /\ disk[k].summary.cleanupComplete
    <3>1. call = "suite"
      BY <1>1 DEF DriverTypeOK
    <3>2. QED
      BY <1>1, <3>1 DEF CasesOver
  <2>2. completed = [k \in 1 .. Cases |-> smoke]
    <3>1. DOMAIN completed = 1 .. Cases /\ Cases \in 1 .. Cases
          /\ completed = [k \in DOMAIN completed |-> completed[k]]
      BY <2>1, CaseNumbers DEF DriverTypeOK
    <3>2. \A k \in 1 .. Cases : completed[k] = smoke
      BY <1>3, <2>1, <3>1
    <3>3. QED
      BY <3>1, <3>2
  <2>3. SuiteOfCleanTrials'
    BY <1>1, <2>1, <2>2 DEF SuiteOfCleanTrials
  <2>4. DriverTypeOK'
    BY <1>1, <1>3 DEF DriverTypeOK, Steps, WriteSuite, AfterMeasuring
  <2>5. FilesInStep' /\ RunEnded' /\ CasesOver' /\ NotCalled'
    BY <1>1 DEF FilesInStep, RunEnded, CasesOver, NotCalled, AfterMeasuring
  <2>6. SummaryIsReplayable'
    BY <1>1 DEF SummaryIsReplayable
  <2>7. QED
    BY <1>1, <2>3, <2>4, <2>5, <2>6
<1>4. QED
  BY <1>2, <1>3 DEF WriteSuite, Throws, Keeps

LEMMA FailKeeps == DriverInv /\ Fail => DriverInv'
<1> SUFFICES ASSUME DriverInv, Fail PROVE DriverInv'
  OBVIOUS
<1>1. /\ step \notin {"idle", "over"} /\ step' = "over"
      /\ UNCHANGED <<call, case, smoke, clean, completed, suiteFile>>
      /\ disk' \in {disk, [disk EXCEPT ![case] = Writing(@)]}
  BY DEF Fail, Throws, Keeps, measured
<1>2. QED
  BY <1>1, EndsOver

LEMMA StutterKeeps == DriverInv /\ UNCHANGED <<vars, driverVars>> => DriverInv'
<1> SUFFICES ASSUME DriverInv, UNCHANGED <<vars, driverVars>> PROVE DriverInv'
  OBVIOUS
<1>1. UNCHANGED <<runState, verdict, lastEventId, call, case, step, smoke, clean, evaluated,
                 disk, completed, suiteFile>>
  BY DEF vars, machineVars, driverVars, measured
<1>2. QED
  BY <1>1 DEF DriverInv, DriverTypeOK, FilesInStep, RunEnded, CasesOver, NotCalled, Stored, Told,
     SummaryIsReplayable, SuiteOfCleanTrials

-----------------------------------------------------------------------------
(* Theorems *)

\* The inductive invariant: what the files of the case hold at each step of executeLiveCase,
\* and what the cases before it left.
THEOREM DriverInvariant == DriverSpec => []DriverInv
<1>1. DriverInv /\ [DriverNext]_<<vars, driverVars>> => DriverInv'
  BY CallKeeps, TakeSmokeKeeps, MeasureKeeps, ReduceEventKeeps, AppendEventKeeps,
     WriteSnapshotKeeps, CheckReplayKeeps, WriteManifestKeeps, WriteSummaryKeeps,
     EndCaseKeeps, WriteSuiteKeeps, FailKeeps, StutterKeeps DEF DriverNext
<1>2. QED
  BY DriverInitHolds, <1>1, PTL DEF DriverSpec

\* A summary on disk is of a run whose log, snapshot and manifest are on disk and tell the
\* same, wherever executeLiveCase was cut off.
THEOREM SummariesAreReplayable == DriverSpec => []SummaryIsReplayable
<1>1. DriverInv => SummaryIsReplayable
  BY DEF DriverInv
<1>2. QED
  BY DriverInvariant, <1>1, PTL

\* runLiveEvaluationSuite records a suite only of cases that were all told and cleaned up,
\* on one smoke.
THEOREM SuitesAreOfCleanTrials == DriverSpec => []SuiteOfCleanTrials
<1>1. DriverInv => SuiteOfCleanTrials
  BY DEF DriverInv
<1>2. QED
  BY DriverInvariant, <1>1, PTL

-----------------------------------------------------------------------------
(* The driver's disposition of a candidate is the evaluator's              *)

LEMMA GateNamesDiffer ==
  /\ DOMAIN HardGateOrder = 1 .. 10
  /\ \A m, n \in 1 .. 10 : HardGateOrder[m] = HardGateOrder[n] => m = n
  /\ \A n \in 1 .. 10 : HardGateOrder[n] # DurationKey /\ HardGateOrder[n] \in Gates
  /\ \A name \in Gates : \E n \in 1 .. 10 : HardGateOrder[n] = name
<1>1. DOMAIN HardGateOrder = 1 .. 10
  BY DEF HardGateOrder
<1>2. \A m, n \in 1 .. 10 : HardGateOrder[m] = HardGateOrder[n] => m = n
  BY DEF HardGateOrder
<1>3. \A n \in 1 .. 10 : HardGateOrder[n] # DurationKey
  BY DEF HardGateOrder, DurationKey
<1>4. QED
  BY <1>1, <1>2, <1>3, GatesAreOrdered DEF Range

LEMMA StatusNames ==
  ASSUME NEW o, NEW name
  PROVE  /\ o.status # "SUCCESS" => GateStatus(name, o) = "inconclusive"
         /\ o.status = "SUCCESS" => GateStatus(name, o) \in {"passed", "failed"}
  BY DEF GateStatus

\* The parts of the evaluator's input.
LEMMA InputOrigin ==
  ASSUME NEW c, NEW o
  PROVE  /\ EvaluationInput(c, o).id = c /\ EvaluationInput(c, o).run = case
         /\ EvaluationInput(c, o).checks = <<>>
  BY DEF EvaluationInput

LEMMA InputGates ==
  ASSUME NEW c, NEW o
  PROVE  /\ DOMAIN EvaluationInput(c, o).gates = 1 .. 10
         /\ \A n \in 1 .. 10 :
              /\ EvaluationInput(c, o).gates[n].gate = HardGateOrder[n]
              /\ EvaluationInput(c, o).gates[n].status = GateStatus(HardGateOrder[n], o)
              /\ EvaluationInput(c, o).gates[n].evidence = <<<<c, HardGateOrder[n]>>>>
<1>1. EvaluationInput(c, o).gates =
        [n \in DOMAIN HardGateOrder |->
           [gate |-> HardGateOrder[n], status |-> GateStatus(HardGateOrder[n], o),
            evidence |-> <<<<c, HardGateOrder[n]>>>>]]
  BY DEF EvaluationInput
<1>2. DOMAIN EvaluationInput(c, o).gates = 1 .. 10
  BY <1>1, GateNamesDiffer
<1>3. ASSUME NEW n \in 1 .. 10
      PROVE  EvaluationInput(c, o).gates[n] =
               [gate |-> HardGateOrder[n], status |-> GateStatus(HardGateOrder[n], o),
                evidence |-> <<<<c, HardGateOrder[n]>>>>]
  BY <1>1, GateNamesDiffer
<1>4. ASSUME NEW n \in 1 .. 10
      PROVE  /\ EvaluationInput(c, o).gates[n].gate = HardGateOrder[n]
             /\ EvaluationInput(c, o).gates[n].status = GateStatus(HardGateOrder[n], o)
             /\ EvaluationInput(c, o).gates[n].evidence = <<<<c, HardGateOrder[n]>>>>
  BY <1>3
<1>5. QED
  BY <1>2, <1>4

LEMMA FunctionIsSeq ==
  ASSUME NEW S, NEW n \in Nat, NEW f \in [1 .. n -> S]
  PROVE  f \in Seq(S) /\ Len(f) = n
  OBVIOUS

LEMMA Appended ==
  ASSUME NEW S, NEW s \in Seq(S), NEW e
  PROVE  /\ DOMAIN Append(s, e) = 1 .. Len(s) + 1 /\ Append(s, e)[Len(s) + 1] = e
         /\ \A k \in 1 .. Len(s) : Append(s, e)[k] = s[k]
  OBVIOUS

LEMMA InputEvidence ==
  ASSUME NEW c, NEW o
  PROVE  /\ DOMAIN EvaluationInput(c, o).evidence = 1 .. 11
         /\ \A n \in 1 .. 10 :
              EvaluationInput(c, o).evidence[n] = StatusEvidence(c, HardGateOrder[n], o)
         /\ EvaluationInput(c, o).evidence[11] = DurationEvidence(c, o)
<1> DEFINE reports == [n \in DOMAIN HardGateOrder |-> StatusEvidence(c, HardGateOrder[n], o)]
           S == {StatusEvidence(c, HardGateOrder[n], o) : n \in 1 .. 10}
           d == DurationEvidence(c, o)
<1>1. EvaluationInput(c, o).evidence = Append(reports, d)
  BY DEF EvaluationInput
<1>2. reports = [n \in 1 .. 10 |-> StatusEvidence(c, HardGateOrder[n], o)]
  BY GateNamesDiffer
<1>3. reports \in [1 .. 10 -> S]
  BY <1>2
<1>4. \A n \in 1 .. 10 : reports[n] = StatusEvidence(c, HardGateOrder[n], o)
  BY <1>2
<1> HIDE DEF reports, S, d
<1>5. reports \in Seq(S)
  BY <1>3, FunctionIsSeq
<1>6. /\ DOMAIN Append(reports, d) = 1 .. Len(reports) + 1
      /\ Append(reports, d)[Len(reports) + 1] = d
      /\ \A k \in 1 .. Len(reports) : Append(reports, d)[k] = reports[k]
  BY <1>5, Appended
<1>7. Len(reports) = 10
  BY <1>3, FunctionIsSeq
<1>8. Len(reports) + 1 = 11
  BY <1>7
<1>9. QED
  BY <1>1, <1>4, <1>6, <1>7, <1>8 DEF d

\* Every gate cites the one piece of evidence of its status.
LEMMA InputIsComplete ==
  ASSUME NEW c, NEW o
  PROVE  Complete(EvaluationInput(c, o))
<1> DEFINE I == EvaluationInput(c, o)
<1>1. IsInjective([i \in DOMAIN I.evidence |-> I.evidence[i].id])
  <2>1. /\ DOMAIN I.evidence = 1 .. 11
        /\ \A n \in 1 .. 10 : I.evidence[n].id = <<c, HardGateOrder[n]>>
        /\ I.evidence[11].id = <<c, DurationKey>>
    <3>1. \A n \in 1 .. 10 : StatusEvidence(c, HardGateOrder[n], o).id = <<c, HardGateOrder[n]>>
      BY DEF StatusEvidence
    <3>2. DurationEvidence(c, o).id = <<c, DurationKey>>
      BY DEF DurationEvidence
    <3>3. QED
      BY <3>1, <3>2, InputEvidence
  <2> HIDE DEF I
  <2>2. \A m, n \in 1 .. 11 : I.evidence[m].id = I.evidence[n].id => m = n
    <3>1. SUFFICES ASSUME NEW m \in 1 .. 11, NEW n \in 1 .. 11,
                          I.evidence[m].id = I.evidence[n].id
                   PROVE  m = n
      OBVIOUS
    <3>2. CASE m \in 1 .. 10 /\ n \in 1 .. 10
      BY <2>1, <3>1, <3>2, GateNamesDiffer
    <3>3. CASE m = 11 /\ n \in 1 .. 10
      BY <2>1, <3>1, <3>3, GateNamesDiffer
    <3>4. CASE n = 11 /\ m \in 1 .. 10
      BY <2>1, <3>1, <3>4, GateNamesDiffer
    <3>5. QED
      BY <3>2, <3>3, <3>4
  <2>3. QED
    BY <2>1, <2>2 DEF IsInjective
<1>2. ASSUME NEW n \in 1 .. 10
      PROVE  Proves(I.gates[n].evidence, I.gates[n].status, I)
  <2> DEFINE e == StatusEvidence(c, HardGateOrder[n], o)
             refs == I.gates[n].evidence
             id == <<c, HardGateOrder[n]>>
  <2>1. refs = <<id>> /\ I.gates[n].status = GateStatus(HardGateOrder[n], o)
    BY InputGates
  <2>2. /\ e.id = id /\ e.candidate = c /\ e.run = case /\ e.attributed
        /\ e.classification = "measured" /\ e.status = GateStatus(HardGateOrder[n], o)
    BY DEF StatusEvidence
  <2>3. e \in Range(I.evidence)
    <3>1. n \in DOMAIN I.evidence /\ I.evidence[n] = e
      BY InputEvidence
    <3> HIDE DEF e, I
    <3>2. QED
      BY <3>1 DEF Range
  <2>4. I.id = c /\ I.run = case
    BY InputOrigin
  <2> HIDE DEF I, e, refs, id
  <2>5. e \in Cited(id, I)
    BY <2>2, <2>3, <2>4 DEF Cited
  <2>6. refs # <<>> /\ IsInjective(refs) /\ Range(refs) = {id}
    BY <2>1 DEF IsInjective, Range
  <2>7. Proves(refs, I.gates[n].status, I)
    BY <2>1, <2>2, <2>5, <2>6 DEF Proves
  <2>8. QED
    BY <2>7 DEF refs
<1>3. ASSUME NEW name \in Range(HardGateOrder)
      PROVE  /\ Cardinality({i \in DOMAIN I.gates : I.gates[i].gate = name}) = 1
             /\ \A g \in Range(I.gates) : g.gate = name => Proves(g.evidence, g.status, I)
  <2>1. DOMAIN I.gates = 1 .. 10 /\ \A i \in 1 .. 10 : I.gates[i].gate = HardGateOrder[i]
    BY InputGates
  <2>2. PICK n \in 1 .. 10 : HardGateOrder[n] = name
    BY <1>3, GateNamesDiffer, GatesAreOrdered
  <2> HIDE DEF I
  <2>3. {i \in DOMAIN I.gates : I.gates[i].gate = name} = {n}
    BY <2>1, <2>2, GateNamesDiffer
  <2>4. Cardinality({n}) = 1
    BY FS_Singleton
  <2>5. \A g \in Range(I.gates) : Proves(g.evidence, g.status, I)
    BY <1>2, <2>1 DEF Range
  <2>6. QED
    BY <2>3, <2>4, <2>5
<1>4. Range(I.checks) = {}
  BY InputOrigin DEF Range
<1>5. QED
  <2> HIDE DEF I
  <2>1. Complete(I)
    BY <1>1, <1>3, <1>4 DEF Complete
  <2>2. QED
    BY <2>1 DEF I

\* A gate has the status that the driver gave it.
LEMMA StatusIsReported ==
  ASSUME NEW c, NEW o, NEW n \in 1 .. 10
  PROVE  StatusOf(HardGateOrder[n], EvaluationInput(c, o)) = GateStatus(HardGateOrder[n], o)
<1> DEFINE I == EvaluationInput(c, o)
           report == CHOOSE g \in Range(I.gates) : g.gate = HardGateOrder[n]
<1>1. /\ DOMAIN I.gates = 1 .. 10
      /\ \A i \in 1 .. 10 : /\ I.gates[i].gate = HardGateOrder[i]
                            /\ I.gates[i].status = GateStatus(HardGateOrder[i], o)
  BY InputGates
<1> HIDE DEF I
<1>2. \E g \in Range(I.gates) : g.gate = HardGateOrder[n]
  BY <1>1 DEF Range
<1>3. report \in Range(I.gates) /\ report.gate = HardGateOrder[n]
  BY <1>2
<1>4. PICK i \in 1 .. 10 : report = I.gates[i]
  BY <1>1, <1>3 DEF Range
<1>5. i = n
  BY <1>1, <1>3, <1>4, GateNamesDiffer
<1>6. report.status = GateStatus(HardGateOrder[n], o)
  BY <1>1, <1>4, <1>5
<1>7. QED
  BY <1>6 DEF StatusOf, I

LEMMA EvaluatorAgrees ==
  ASSUME NEW c, NEW o
  PROVE  Disposition(EvaluationInput(c, o)) = DispositionOf(o)
<1> DEFINE I == EvaluationInput(c, o)
           notPassed == {n \in DOMAIN HardGateOrder : StatusOf(HardGateOrder[n], I) # "passed"}
           first == CHOOSE n \in notPassed : \A k \in notPassed : n <= k
           checked == {k.status : k \in Range(I.checks)}
           statuses == {GateStatus(name, o) : name \in Gates}
<1>1. /\ notPassed \in SUBSET (1 .. 10)
      /\ \A n \in 1 .. 10 : n \in notPassed <=> GateStatus(HardGateOrder[n], o) # "passed"
      /\ \A n \in 1 .. 10 : StatusOf(HardGateOrder[n], I) = GateStatus(HardGateOrder[n], o)
  BY GateNamesDiffer, StatusIsReported
<1>2. Disposition(I) = IF notPassed # {}
        THEN IF StatusOf(HardGateOrder[first], I) = "failed" THEN "rejected" ELSE "inconclusive"
        ELSE IF "failed" \in checked THEN "rejected"
        ELSE IF "inconclusive" \in checked THEN "inconclusive" ELSE "eligible"
  BY InputIsComplete DEF Disposition
<1>3. checked = {}
  BY InputOrigin DEF Range
<1>4. notPassed # {} => first \in notPassed
  <2>1. ASSUME notPassed # {}
        PROVE  \E n \in notPassed : \A k \in notPassed : n <= k
    <3>1. notPassed \in SUBSET Nat
      BY <1>1
    <3> HIDE DEF notPassed
    <3>2. QED
      BY <2>1, <3>1, LeastNatural
  <2>2. QED
    BY <2>1
<1>5. DispositionOf(o) = IF "inconclusive" \in statuses THEN "inconclusive"
                         ELSE IF "failed" \in statuses THEN "rejected" ELSE "eligible"
  BY DEF DispositionOf
<1>6. \A s : s \in statuses <=> \E n \in 1 .. 10 : s = GateStatus(HardGateOrder[n], o)
  BY GateNamesDiffer
<1> HIDE DEF I, notPassed, first, checked, statuses
<1>7. CASE o.status # "SUCCESS"
  <2>1. \A n \in 1 .. 10 : GateStatus(HardGateOrder[n], o) = "inconclusive"
    BY <1>7, StatusNames
  <2>2. 1 \in 1 .. 10
    OBVIOUS
  <2>3. notPassed # {} /\ "inconclusive" \in statuses
    BY <1>1, <1>6, <2>1, <2>2
  <2>4. StatusOf(HardGateOrder[first], I) = "inconclusive"
    BY <1>1, <1>4, <2>1, <2>3
  <2>5. QED
    BY <1>2, <1>5, <2>3, <2>4 DEF I
<1>8. CASE o.status = "SUCCESS"
  <2>1. \A n \in 1 .. 10 : GateStatus(HardGateOrder[n], o) \in {"passed", "failed"}
    BY <1>8, StatusNames
  <2>2. "inconclusive" \notin statuses
    BY <1>6, <2>1
  <2>3. CASE notPassed = {}
    <3>1. "failed" \notin statuses
      BY <1>1, <1>6, <2>3
    <3>2. QED
      BY <1>2, <1>3, <1>5, <2>2, <2>3, <3>1 DEF I
  <2>4. CASE notPassed # {}
    <3>1. first \in 1 .. 10 /\ GateStatus(HardGateOrder[first], o) = "failed"
      BY <1>1, <1>4, <2>1, <2>4
    <3>2. "failed" \in statuses /\ StatusOf(HardGateOrder[first], I) = "failed"
      BY <1>1, <1>6, <3>1
    <3>3. QED
      BY <1>2, <1>5, <2>2, <2>4, <3>2 DEF I
  <2>5. QED
    BY <2>3, <2>4
<1>9. QED
  BY <1>7, <1>8

-----------------------------------------------------------------------------
(* The evaluator's verdict is about the fastest                            *)

\* The candidate's duration is comparable.
LEMMA DurationIsComparable ==
  ASSUME NEW c, NEW o
  PROVE  /\ Comparable(DurationKey, EvaluationInput(c, o))
         /\ Value(DurationKey, EvaluationInput(c, o)) = o.duration
<1> DEFINE I == EvaluationInput(c, o)
           id == <<c, DurationKey>>
           e == DurationEvidence(c, o)
<1>1. DOMAIN I.metrics = {1} /\ I.metrics[1].key = DurationKey /\ I.metrics[1].value = o.duration
      /\ I.metrics[1].evidence = <<id>>
  BY DEF EvaluationInput
<1>2. I.id = c /\ I.run = case
  BY InputOrigin
<1>3. e.id = id /\ e.candidate = c /\ e.run = case /\ e.attributed /\ e.kind = "metric"
      /\ e.classification = "measured" /\ e.value = o.duration
  BY DEF DurationEvidence
<1>4. e \in Range(I.evidence)
  <2>1. 11 \in DOMAIN I.evidence /\ I.evidence[11] = e
    BY InputEvidence
  <2> HIDE DEF e, I
  <2>2. QED
    BY <2>1 DEF Range
<1> HIDE DEF I, id, e
<1>5. e \in Cited(id, I)
  BY <1>2, <1>3, <1>4 DEF Cited
<1>6. Range(<<id>>) = {id}
  BY DEF Range
<1>7. Supports(<<id>>, o.duration, I)
  BY <1>3, <1>5, <1>6 DEF Supports
<1>8. Metrics(DurationKey, I) = {1}
  BY <1>1 DEF Metrics
<1>9. Cardinality({1}) = 1
  BY FS_Singleton
<1>10. Comparable(DurationKey, I) /\ Value(DurationKey, I) = o.duration
  BY <1>1, <1>7, <1>8, <1>9 DEF Comparable, Value
<1>11. QED
  BY <1>10 DEF I

EligiblePlaces(inputs) == {p \in DOMAIN inputs : Disposition(inputs[p]) = "eligible"}

\* With one tie-breaker that nothing blocks: the best of the eligible places, if it is one.
LEMMA BestIsSelected ==
  ASSUME NEW inputs, inputs # <<>>, NEW tie,
         IsInjective([p \in DOMAIN inputs |-> inputs[p].id]),
         EligiblePlaces(inputs) # {},
         \A p \in EligiblePlaces(inputs) : Comparable(tie.key, inputs[p])
  PROVE  LET eligible == EligiblePlaces(inputs)
             places == IF Cardinality(eligible) = 1 THEN eligible
                                                    ELSE Best(tie, inputs, eligible)
         IN IF Cardinality(places) = 1
            THEN EvaluateRun(inputs, <<tie>>) =
                   [status |-> "selected", winner |-> inputs[CHOOSE p \in places : TRUE].id]
            ELSE EvaluateRun(inputs, <<tie>>).status = "abstained"
<1> DEFINE ties == <<tie>>
           eligible == EligiblePlaces(inputs)
           blocked(n, places) ==
             n < Len(ties) /\ \E p \in places : ~ Comparable(ties[n + 1].key, inputs[p])
           decided(n, places) == Cardinality(places) = 1 \/ n = Len(ties) \/ blocked(n, places)
           After(n, f) == IF n = 0 THEN eligible
                          ELSE IF decided(n - 1, f[n - 1]) THEN f[n - 1]
                          ELSE Best(ties[n], inputs, f[n - 1])
           left == CHOOSE f : f = [n \in 0 .. Len(ties) |-> After(n, f)]
           stop == CHOOSE n \in 0 .. Len(ties) :
                     decided(n, left[n]) /\ \A k \in 0 .. n - 1 : ~ decided(k, left[k])
           best == Best(tie, inputs, eligible)
<1>1. EvaluateRun(inputs, ties) =
        IF Cardinality(left[stop]) = 1
        THEN [status |-> "selected", winner |-> inputs[CHOOSE p \in left[stop] : TRUE].id]
        ELSE Abstained(IF stop < Len(ties) THEN "insufficient-comparison-evidence"
                                           ELSE "eligible-candidates-tied")
  BY DEF EvaluateRun, EligiblePlaces
<1>2. Len(ties) = 1 /\ ties[1] = tie /\ 0 .. Len(ties) = {0, 1}
  OBVIOUS
<1>3. decided(0, eligible) <=> Cardinality(eligible) = 1
  BY <1>2
<1>4. \A places : decided(1, places)
  BY <1>2
<1> HIDE DEF ties, eligible, blocked, decided
<1>5. left = [n \in {0, 1} |-> After(n, left)]
  <2> DEFINE g == [n \in {0, 1} |-> IF n = 0 THEN eligible
                                    ELSE IF decided(0, eligible) THEN eligible ELSE best]
  <2>1. g[0] = eligible /\ 0 # 1 /\ 1 - 1 = 0
    OBVIOUS
  <2>2. \A n \in {0, 1} : g[n] = After(n, g)
    BY <1>2, <2>1
  <2>3. g = [n \in {0, 1} |-> After(n, g)]
    BY <2>2
  <2>4. \E f : f = [n \in {0, 1} |-> After(n, f)]
    <3> HIDE DEF g, After
    <3>1. QED
      BY <2>3
  <2>5. QED
    BY <1>2, <2>4
<1>6. left[0] = eligible /\ left[1] = IF decided(0, eligible) THEN eligible ELSE best
  <2>1. 0 \in {0, 1} /\ 1 \in {0, 1} /\ 1 # 0 /\ 1 - 1 = 0
    OBVIOUS
  <2>2. left[0] = After(0, left) /\ left[1] = After(1, left)
    <3> HIDE DEF left, After
    <3>1. QED
      BY <1>5, <2>1
  <2> HIDE DEF left
  <2>3. QED
    BY <1>2, <2>1, <2>2
<1> HIDE DEF left
<1>7. CASE Cardinality(eligible) = 1
  <2>1. stop = 0
    <3>1. 0 .. 1 - 1 = {0} /\ 0 .. 0 - 1 = {}
      OBVIOUS
    <3>2. decided(0, left[0])
      BY <1>3, <1>6, <1>7
    <3>3. QED
      BY <1>2, <3>1, <3>2
  <2>2. left[stop] = eligible
    BY <1>6, <2>1
  <2> HIDE DEF stop
  <2>3. QED
    BY <1>1, <1>7, <2>2 DEF ties, eligible
<1>8. CASE Cardinality(eligible) # 1
  <2>1. stop = 1
    <3>1. 0 .. 1 - 1 = {0} /\ 0 .. 0 - 1 = {}
      OBVIOUS
    <3>2. decided(1, left[1]) /\ ~ decided(0, left[0])
      BY <1>3, <1>4, <1>6, <1>8
    <3>3. QED
      BY <1>2, <3>1, <3>2
  <2>2. left[stop] = best
    BY <1>3, <1>6, <1>8, <2>1
  <2> HIDE DEF stop, best
  <2>3. EvaluateRun(inputs, ties).status = "abstained" \/ Cardinality(best) = 1
    BY <1>1, <2>2 DEF Abstained
  <2>4. Cardinality(best) = 1 =>
          EvaluateRun(inputs, ties) =
            [status |-> "selected", winner |-> inputs[CHOOSE p \in best : TRUE].id]
    BY <1>1, <2>2
  <2>5. QED
    BY <1>8, <2>3, <2>4 DEF ties, best, eligible
<1>9. QED
  BY <1>7, <1>8

\* The fastest of the eligible, by the driver's dispositions.
Winners(r) ==
  {c \in Strategies :
     /\ DispositionOf(r[c]) = "eligible"
     /\ \A d \in Strategies :
          DispositionOf(r[d]) = "eligible" => r[c].duration <= r[d].duration}

\* The order is a bijection from places to strategies.
LEMMA PlacesAndStrategies ==
  /\ Len(Order) \in Nat /\ DOMAIN Order = 1 .. Len(Order)
  /\ \A p \in DOMAIN Order : Order[p] \in Strategies
  /\ \A c \in Strategies : \E p \in DOMAIN Order : Order[p] = c
  /\ \A p, q \in DOMAIN Order : Order[p] = Order[q] => p = q
<1>1. Len(Order) \in Nat /\ DOMAIN Order = 1 .. Len(Order)
  BY OrderNamesStrategies
<1>2. QED
  BY <1>1, OrderNamesStrategies DEF IsInjective, Range

LEMMA NothingEligible ==
  ASSUME NEW inputs, NEW ties, EligiblePlaces(inputs) = {}
  PROVE  EvaluateRun(inputs, ties).status = "abstained"
<1>1. \A reason : Abstained(reason).status = "abstained"
  BY DEF Abstained
<1>2. \/ EvaluateRun(inputs, ties) = Abstained("no-candidates")
      \/ EvaluateRun(inputs, ties) = Abstained("invalid-candidate-set")
      \/ EvaluateRun(inputs, ties) = Abstained("no-eligible-candidates")
  BY DEF EvaluateRun, EligiblePlaces
<1>3. QED
  BY <1>1, <1>2

LEMMA FastestWins ==
  ASSUME NEW r \in [Strategies -> Outcomes]
  PROVE  IF Evaluation(r).status = "selected" THEN Winners(r) = {Evaluation(r).winner}
                                              ELSE Cardinality(Winners(r)) # 1
<1> DEFINE inputs == [i \in DOMAIN Order |-> EvaluationInput(Order[i], r[Order[i]])]
           tie == [key |-> DurationKey, direction |-> "lower"]
           eligible == EligiblePlaces(inputs)
           best == Best(tie, inputs, eligible)
           Length(p) == r[Order[p]].duration
<1>1. /\ DOMAIN inputs = DOMAIN Order
      /\ \A p \in DOMAIN Order :
           /\ inputs[p].id = Order[p]
           /\ Disposition(inputs[p]) = DispositionOf(r[Order[p]])
           /\ Comparable(DurationKey, inputs[p])
           /\ Value(DurationKey, inputs[p]) = Length(p)
  BY InputOrigin, EvaluatorAgrees, DurationIsComparable
<1>2. Evaluation(r) = EvaluateRun(inputs, <<tie>>)
  BY DEF Evaluation
<1>3. tie.key = DurationKey /\ tie.direction = "lower"
  OBVIOUS
<1>4. \A p \in DOMAIN Order : Length(p) \in Int
  BY PlacesAndStrategies, DurationsAreWhole
<1> HIDE DEF inputs, tie
<1>5. eligible = {p \in DOMAIN Order : DispositionOf(r[Order[p]]) = "eligible"}
  BY <1>1 DEF EligiblePlaces
<1>6. best = {p \in eligible : \A q \in eligible : Length(p) <= Length(q)}
  BY <1>1, <1>3, <1>5 DEF Best
<1> HIDE DEF eligible, best
<1>7. Winners(r) = {Order[p] : p \in best}
  BY <1>5, <1>6, PlacesAndStrategies DEF Winners
<1>8. IsFiniteSet(best) /\ IsFiniteSet(eligible) /\ IsFiniteSet(Winners(r))
  <2>1. IsFiniteSet(DOMAIN Order)
    BY PlacesAndStrategies, FS_Interval
  <2>2. IsFiniteSet(Winners(r))
    BY StrategiesFinite, FS_Subset DEF Winners
  <2>3. QED
    BY <1>5, <1>6, <2>1, <2>2, FS_Subset
<1>9. CASE eligible = {}
  <2>1. Evaluation(r).status = "abstained"
    BY <1>2, <1>9, NothingEligible DEF eligible
  <2>2. Winners(r) = {}
    BY <1>6, <1>7, <1>9
  <2>3. QED
    BY <2>1, <2>2, FS_EmptySet
<1>10. CASE eligible # {}
  <2> DEFINE places == IF Cardinality(eligible) = 1 THEN eligible ELSE best
  <2>1. IF Cardinality(places) = 1
        THEN Evaluation(r) =
               [status |-> "selected", winner |-> inputs[CHOOSE p \in places : TRUE].id]
        ELSE Evaluation(r).status = "abstained"
    <3>1. inputs # <<>>
      BY <1>1, <1>5, <1>10
    <3>2. IsInjective([p \in DOMAIN inputs |-> inputs[p].id])
      BY <1>1, PlacesAndStrategies DEF IsInjective
    <3>3. \A p \in EligiblePlaces(inputs) : Comparable(tie.key, inputs[p])
      BY <1>1, <1>3 DEF EligiblePlaces
    <3>4. QED
      BY <1>2, <1>10, <3>1, <3>2, <3>3, BestIsSelected DEF eligible, best
  <2>2. places = best
    <3>1. ASSUME Cardinality(eligible) = 1
          PROVE  eligible = best
      <4>1. PICK p : eligible = {p}
        BY <1>8, <3>1, FS_Singleton
      <4>2. Length(p) <= Length(p)
        BY <1>4, <1>5, <4>1
      <4>3. QED
        BY <1>6, <4>1, <4>2
    <3>2. QED
      BY <3>1
  <2> HIDE DEF places
  <2>3. CASE Cardinality(best) = 1
    <3>1. PICK p : best = {p}
      BY <1>8, <2>3, FS_Singleton
    <3>2. Evaluation(r) = [status |-> "selected", winner |-> inputs[p].id]
      BY <2>1, <2>2, <2>3, <3>1
    <3>3. inputs[p].id = Order[p]
      BY <1>1, <1>5, <1>6, <3>1
    <3>4. Winners(r) = {Order[p]}
      BY <1>7, <3>1
    <3>5. QED
      BY <3>2, <3>3, <3>4
  <2>4. CASE Cardinality(best) # 1
    <3>1. Evaluation(r).status = "abstained"
      BY <2>1, <2>2, <2>4
    <3>2. ASSUME Cardinality(Winners(r)) = 1
          PROVE  FALSE
      <4>1. PICK c : Winners(r) = {c}
        BY <1>8, <3>2, FS_Singleton
      <4>2. PICK p \in best : Order[p] = c
        BY <1>7, <4>1
      <4>3. \A q \in best : q \in DOMAIN Order /\ Order[q] = c
        BY <1>5, <1>6, <1>7, <4>1
      <4>4. best = {p}
        BY <4>2, <4>3, PlacesAndStrategies
      <4>5. QED
        BY <2>4, <4>4, FS_Singleton
    <3>3. QED
      BY <3>1, <3>2
  <2>5. QED
    BY <2>3, <2>4
<1>11. QED
  BY <1>9, <1>10

\* Eligible are those that passed.
LEMMA EligibleOutcome ==
  ASSUME NEW o
  PROVE  DispositionOf(o) = "eligible" <=>
           o.status = "SUCCESS" /\ \A name \in Gates : Needs[name] \subseteq o.passed
<1> DEFINE statuses == {GateStatus(name, o) : name \in Gates}
<1>1. DispositionOf(o) = "eligible" <=>
        "inconclusive" \notin statuses /\ "failed" \notin statuses
  BY DEF DispositionOf
<1>2. PICK gate : gate \in Gates
  BY GateNamesDiffer
<1>3. QED
  BY <1>1, <1>2 DEF GateStatus

LEMMA EligibleIsPassed ==
  ASSUME NEW c
  PROVE  DispositionOf(results[c]) = "eligible" <=> Passed(c)
  BY EligibleOutcome DEF Passed

LEMMA WinnersAreFastest == Winners(results) = Fastest
  BY EligibleIsPassed DEF Winners, Fastest

-----------------------------------------------------------------------------
(* The verdict, event by event                                             *)

LEMMA VerdictInit == DriverInit => VerdictInv
<1>1. SUFFICES ASSUME DriverInit
               PROVE  VerdictInv
  OBVIOUS
<1>2. step = "idle" /\ runState = "NONE" /\ candidates = EmptyFunction
  BY <1>1 DEF DriverInit, Init
<1>3. DOMAIN candidates = {}
  BY <1>2 DEF EmptyFunction
<1>4. QED
  BY <1>2, <1>3 DEF VerdictInv, AfterMeasuring

\* A step that is neither of the measuring nor of the reducer.
LEMMA VerdictKept ==
  ASSUME VerdictInv, UNCHANGED <<vars, measured>>,
         step' \in AfterMeasuring => step \in AfterMeasuring
  PROVE  VerdictInv'
<1>1. UNCHANGED <<runState, candidates, verdict, results, settled, evaluated>>
  BY DEF vars, measured
<1>2. OfOutcomes => OfOutcomes'
  BY <1>1 DEF OfOutcomes, Fastest, Passed
<1>3. Scores' = Scores
  BY <1>1 DEF Scores, SettledAs, Rank, Place
<1>4. QED
  BY <1>1, <1>2, <1>3 DEF VerdictInv, EndOf

LEMMA DriverStepKeeps ==
  ASSUME VerdictInv,
         \/ Call \/ TakeSmoke \/ AppendEvent \/ WriteSnapshot \/ CheckReplay
         \/ WriteManifest \/ WriteSummary \/ EndCase \/ WriteSuite \/ Fail
         \/ UNCHANGED <<vars, driverVars>>
  PROVE  VerdictInv'
<1>1. UNCHANGED <<vars, measured>>
  BY DEF Call, TakeSmoke, AppendEvent, WriteSnapshot, CheckReplay, WriteManifest, WriteSummary,
         EndCase, WriteSuite, Fail, Writes, Throws, Goes, Keeps, driverVars
<1>2. step' \in AfterMeasuring => step \in AfterMeasuring
  BY DEF Call, TakeSmoke, AppendEvent, WriteSnapshot, CheckReplay, WriteManifest, WriteSummary,
         EndCase, WriteSuite, Fail, Writes, Throws, Goes, driverVars, AfterMeasuring
<1>3. QED
  BY <1>1, <1>2, VerdictKept

LEMMA MeasureJudges == Measure => VerdictInv'
<1>1. SUFFICES ASSUME Measure
               PROVE  VerdictInv'
  OBVIOUS
<1>2. /\ results' \in [Strategies -> Outcomes]
      /\ settled' = [c \in Strategies |-> DispositionOf(results'[c])]
      /\ evaluated' = Evaluation(results')
      /\ runState' = "NONE" /\ candidates' = EmptyFunction
  BY <1>1 DEF Measure
<1>3. Fastest' = Winners(results')
  <2>1. \A c : DispositionOf(results'[c]) = "eligible" <=> Passed(c)'
    <3>1. \A o : DispositionOf(o) = "eligible" <=>
                    o.status = "SUCCESS" /\ \A name \in Gates : Needs[name] \subseteq o.passed
      BY EligibleOutcome
    <3>2. \A c : Passed(c)' <=>
                    /\ results'[c].status = "SUCCESS"
                    /\ \A name \in Gates : Needs[name] \subseteq results'[c].passed
      BY DEF Passed
    <3>3. QED
      BY <3>1, <3>2
  <2>2. QED
    BY <2>1 DEF Winners, Fastest
<1>4. OfOutcomes'
  BY <1>2, <1>3, FastestWins DEF OfOutcomes
<1>5. DOMAIN candidates' = {}
  BY <1>2 DEF EmptyFunction
<1>6. QED
  BY <1>2, <1>4, <1>5 DEF VerdictInv

\* The events before the scores.
LEMMA EarlierEvent ==
  ASSUME VerdictInv, NEW e, NEW n, Reduce(e, n),
         e.type \notin {"scoring.completed", "verdict"}
  PROVE  /\ runState' \notin {"NONE", "SCORED", "SELECTED", "ABSTAINED"}
         /\ \A c \in DOMAIN candidates' : "score" \in DOMAIN candidates'[c]
<1>1. CASE e.type = "checkpoint.ready"
  BY <1>1 DEF Reduce, CheckpointReady, NewCandidate
<1>2. CASE e.type = "candidates.started"
  BY <1>2 DEF Reduce, CandidatesStarted, VerdictInv
<1>3. CASE e.type = "candidate.transitioned"
  <2>1. /\ runState' = "CANDIDATES_RUNNING"
        /\ candidates' = [candidates EXCEPT ![e.candidate] = Advanced(e)]
    BY <1>3 DEF Reduce, CandidateTransitioned
  <2>2. "score" \in DOMAIN Advanced(e)
    BY DEF Advanced, Transitioned
  <2> HIDE DEF Advanced
  <2>3. QED
    BY <2>1, <2>2 DEF VerdictInv
<1>4. CASE e.type \notin {"checkpoint.ready", "candidates.started", "candidate.transitioned"}
  <2>1. UNCHANGED candidates /\ runState' \notin {"NONE", "SCORED", "SELECTED", "ABSTAINED"}
    BY <1>4 DEF Reduce, RunReceived, SourceResolved, InventoryCompleted, SpecificationCompleted,
                CandidatesEvaluated, FalsificationCompleted, OnlyRunState
  <2>2. QED
    BY <2>1 DEF VerdictInv
<1>5. QED
  BY <1>1, <1>2, <1>3, <1>4

LEMMA ScoresStored ==
  ASSUME VerdictInv, NEW e, NEW n, Reduce(e, n), e.type = "scoring.completed"
  PROVE  /\ runState' = "SCORED"
         /\ \A c \in DOMAIN candidates' : "score" \in DOMAIN candidates'[c]
         /\ \A c \in Strategies : candidates'[c].score = Scores[c]
<1>1. /\ runState' = "SCORED"
      /\ candidates' = [c \in Strategies |-> [candidates[c] EXCEPT !.score = Scores[c]]]
      /\ DOMAIN candidates' = DOMAIN candidates
  BY DEF Reduce, ScoringCompleted
<1>2. DOMAIN candidates = Strategies
  BY <1>1
<1>3. \A c \in Strategies : "score" \in DOMAIN candidates[c]
  BY <1>2 DEF VerdictInv
<1> HIDE DEF Scores
<1>4. QED
  BY <1>1, <1>3

LEMMA VerdictStored ==
  ASSUME VerdictInv, NEW e, NEW n, Reduce(e, n), e.type = "verdict"
  PROVE  /\ runState = "SCORED" /\ UNCHANGED candidates
         /\ runState' \in {"SELECTED", "ABSTAINED"} /\ runState' = EndOf(evaluated)
         /\ runState' = "SELECTED" => verdict'.winner = evaluated.winner
<1>1. verdict' = Verdict /\ (VerdictSelected(n, n) \/ VerdictAbstained(n, n))
  BY DEF Reduce
<1>2. CASE VerdictSelected(n, n)
  <2>1. /\ runState = "SCORED" /\ UNCHANGED candidates
        /\ verdict'.kind = "selected" /\ runState' = "SELECTED"
    BY <1>2 DEF VerdictSelected, SelectedVerdicts
  <2>2. evaluated.status = "selected"
    BY <1>1, <2>1 DEF Verdict
  <2>3. QED
    BY <1>1, <2>1, <2>2 DEF Verdict, EndOf
<1>3. CASE VerdictAbstained(n, n)
  <2>1. /\ runState = "SCORED" /\ UNCHANGED candidates
        /\ verdict'.kind = "abstained" /\ runState' = "ABSTAINED"
    BY <1>3 DEF VerdictAbstained, AbstainedVerdicts
  <2>2. evaluated.status # "selected"
    BY <1>1, <2>1 DEF Verdict
  <2>3. QED
    BY <2>1, <2>2 DEF EndOf
<1>4. QED
  BY <1>1, <1>2, <1>3

LEMMA ReduceEventJudged == VerdictInv /\ ReduceEvent => VerdictInv'
<1>1. SUFFICES ASSUME VerdictInv, ReduceEvent
               PROVE  VerdictInv'
  OBVIOUS
<1> DEFINE e == Script(lastEventId + 1)
           n == lastEventId + 1
<1>2. /\ Reduce(e, n) /\ step = "reducing"
      /\ UNCHANGED <<results, settled, evaluated>>
  BY <1>1 DEF ReduceEvent, Goes, Keeps, measured
<1>3. OfOutcomes'
  <2>1. OfOutcomes
    BY <1>1, <1>2 DEF VerdictInv, AfterMeasuring
  <2>2. QED
    BY <1>2, <2>1 DEF OfOutcomes, Fastest, Passed
<1>4. Scores' = Scores
  BY <1>2 DEF Scores, SettledAs, Rank, Place
<1> HIDE DEF e, n
<1>5. CASE e.type \notin {"scoring.completed", "verdict"}
  BY <1>1, <1>2, <1>3, <1>5, EarlierEvent DEF VerdictInv
<1>6. CASE e.type = "scoring.completed"
  BY <1>1, <1>2, <1>3, <1>4, <1>6, ScoresStored DEF VerdictInv
<1>7. CASE e.type = "verdict"
  <2>1. /\ runState = "SCORED" /\ UNCHANGED candidates
        /\ runState' \in {"SELECTED", "ABSTAINED"} /\ runState' = EndOf(evaluated)
        /\ runState' = "SELECTED" => verdict'.winner = evaluated.winner
    BY <1>1, <1>2, <1>7, VerdictStored
  <2>2. QED
    BY <1>1, <1>2, <1>3, <1>4, <2>1 DEF VerdictInv, EndOf
<1>8. QED
  BY <1>5, <1>6, <1>7

THEOREM VerdictInvariant == DriverSpec => []VerdictInv
<1>1. VerdictInv /\ [DriverNext]_<<vars, driverVars>> => VerdictInv'
  BY DriverStepKeeps, MeasureJudges, ReduceEventJudged DEF DriverNext
<1>2. QED
  BY VerdictInit, <1>1, PTL DEF DriverSpec

\* The first of a ranking is the fastest.
LEMMA FastestIsFirst ==
  ASSUME OfOutcomes, NEW w, Fastest = {w}
  PROVE  Scores[w].rank = 1
<1>1. /\ w \in Strategies /\ Passed(w)
      /\ \A d \in Strategies : Passed(d) => results[w].duration <= results[d].duration
  BY DEF Fastest
<1>2. \A d \in Strategies : settled[d] = "eligible" <=> Passed(d)
  BY EligibleIsPassed DEF OfOutcomes
<1>3. \A d \in Strategies : results[d].duration \in Int /\ Place(d) \in Nat
  BY PlacesAndStrategies, DurationsAreWhole DEF OfOutcomes, Place
<1>4. ASSUME NEW d \in Strategies, Passed(d)
      PROVE  /\ ~ (results[d].duration < results[w].duration)
             /\ ~ (results[d].duration = results[w].duration /\ Place(d) < Place(w))
  <2>1. ~ (results[d].duration < results[w].duration)
    BY <1>1, <1>3, <1>4
  <2>2. results[d].duration = results[w].duration => d \in Fastest
    BY <1>1, <1>4 DEF Fastest
  <2>3. ~ (Place(w) < Place(w))
    BY <1>1, <1>3
  <2>4. QED
    BY <2>1, <2>2, <2>3
<1>5. {d \in SettledAs("eligible") :
         \/ results[d].duration < results[w].duration
         \/ results[d].duration = results[w].duration /\ Place(d) < Place(w)} = {}
  BY <1>2, <1>4 DEF SettledAs
<1>6. Rank(w) = 1
  BY <1>5, FS_EmptySet DEF Rank
<1>7. QED
  BY <1>1, <1>2, <1>6 DEF Scores

\* A winner passed every check, is ranked first and was strictly the fastest; a run abstains only
\* without one.
THEOREM TheFastestWins == DriverSpec => []VerdictIsEarned
<1>1. ASSUME VerdictInv
      PROVE  VerdictIsEarned
  <2>1. ASSUME runState = "SELECTED"
        PROVE  Fastest = {verdict.winner} /\ candidates[verdict.winner].score.rank = 1
    <3>1. OfOutcomes /\ evaluated.status = "selected" /\ verdict.winner = evaluated.winner
      BY <1>1, <2>1 DEF VerdictInv, EndOf
    <3>2. Fastest = {verdict.winner}
      BY <3>1 DEF OfOutcomes
    <3>3. verdict.winner \in Strategies
      BY <3>2 DEF Fastest
    <3>4. candidates[verdict.winner].score = Scores[verdict.winner]
      BY <1>1, <2>1, <3>3 DEF VerdictInv
    <3>5. QED
      BY <3>1, <3>2, <3>4, FastestIsFirst
  <2>2. ASSUME runState = "ABSTAINED"
        PROVE  Cardinality(Fastest) # 1
    BY <1>1, <2>2 DEF VerdictInv, EndOf, OfOutcomes
  <2>3. QED
    BY <2>1, <2>2 DEF VerdictIsEarned
<1>2. QED
  BY <1>1, VerdictInvariant, PTL

\* When the events are about to be derived, each disposition is the evaluator's own.
THEOREM DriverAndEvaluatorAgree == DriverSpec => []DispositionsAgree
<1>1. ASSUME VerdictInv
      PROVE  DispositionsAgree
  <2>1. step = "reducing" => \A c \in Strategies : settled[c] = DispositionOf(results[c])
    BY <1>1 DEF VerdictInv, OfOutcomes, AfterMeasuring
  <2>2. QED
    BY <2>1, EvaluatorAgrees DEF DispositionsAgree
<1>2. QED
  BY <1>1, VerdictInvariant, PTL

-----------------------------------------------------------------------------
(* The events, one by one                                                  *)

LEMMA PlaceOf ==
  /\ \A c \in Strategies : Place(c) \in DOMAIN Order /\ Order[Place(c)] = c
  /\ \A p \in DOMAIN Order : Place(Order[p]) = p
  BY PlacesAndStrategies DEF Place

LEMMA Quarters ==
  ASSUME NEW a \in Nat, NEW b \in 0 .. 3
  PROVE  (4 * a + b) \div 4 = a /\ (4 * a + b) % 4 = b
  OBVIOUS

\* Of the events of the candidates, the j-th of the candidate at place p.
LEMMA TransitionEvents ==
  ASSUME NEW p \in DOMAIN Order, NEW j \in 1 .. 4
  PROVE  /\ 6 + 4 * (p - 1) + j \in 7 .. EventCount - 4
         /\ Script(6 + 4 * (p - 1) + j) = CandidateEvents(Order[p])[j]
<1> DEFINE n == 6 + 4 * (p - 1) + j
           k == n - 7
<1>1. Len(Order) \in Nat /\ p \in 1 .. Len(Order)
  BY PlacesAndStrategies
<1>2. /\ n \in 7 .. EventCount - 4 /\ k \in Nat /\ ~ (n <= 6) /\ k < 4 * Len(Order)
      /\ k = 4 * (p - 1) + (j - 1)
  <2>1. EventCount - 4 = 6 + 4 * Len(Order)
    BY <1>1 DEF EventCount
  <2>2. p \in Nat /\ 1 <= p /\ p <= Len(Order) /\ j \in Nat /\ 1 <= j /\ j <= 4
    BY <1>1
  <2>3. n \in Nat /\ k \in Nat /\ 7 <= n /\ n <= 6 + 4 * Len(Order) /\ k < 4 * Len(Order)
    BY <1>1, <2>2
  <2>4. k = 4 * (p - 1) + (j - 1)
    BY <2>2
  <2>5. QED
    BY <2>1, <2>3, <2>4
<1>3. p - 1 \in Nat /\ j - 1 \in 0 .. 3
  BY <1>1
<1>4. k \div 4 = p - 1 /\ k % 4 = j - 1
  BY <1>2, <1>3, Quarters
<1>5. 1 + (p - 1) = p /\ 1 + (j - 1) = j
  BY <1>1
<1>6. Script(n) = CandidateEvents(Order[1 + (k \div 4)])[1 + (k % 4)]
  BY <1>2 DEF Script
<1> HIDE DEF k
<1>7. QED
  BY <1>2, <1>4, <1>5, <1>6

LEMMA ClosingEvents ==
  ASSUME NEW j \in 1 .. 4, NEW m, m = EventCount - 4 + j
  PROVE  Script(m) = Event(<<"candidates.evaluated", "falsification.completed",
                             "scoring.completed", "verdict">>[j])
<1>1. Len(Order) \in Nat
  BY PlacesAndStrategies
<1>2. ~ (m <= 6) /\ ~ (m - 7 < 4 * Len(Order)) /\ m - 6 - 4 * Len(Order) = j
  BY <1>1 DEF EventCount
<1>3. QED
  BY <1>2 DEF Script

LEMMA OtherEvents ==
  /\ Script(1) = Event("run.received") /\ Script(2) = Event("source.resolved")
  /\ Script(3) = Event("inventory.completed") /\ Script(4) = Event("specification.completed")
  /\ Script(5) = Event("checkpoint.ready") /\ Script(6) = Event("candidates.started")
  /\ Script(EventCount - 3) = Event("candidates.evaluated")
  /\ Script(EventCount - 2) = Event("falsification.completed")
  /\ Script(EventCount - 1) = Event("scoring.completed")
  /\ Script(EventCount) = Event("verdict")
<1>1. Len(Order) \in Nat
  BY PlacesAndStrategies
<1>2. /\ Script(1) = Event("run.received") /\ Script(2) = Event("source.resolved")
      /\ Script(3) = Event("inventory.completed") /\ Script(4) = Event("specification.completed")
      /\ Script(5) = Event("checkpoint.ready") /\ Script(6) = Event("candidates.started")
  BY DEF Script
<1>3. ASSUME NEW j \in 1 .. 4
      PROVE  Script(EventCount - 4 + j) =
               Event(<<"candidates.evaluated", "falsification.completed", "scoring.completed",
                       "verdict">>[j])
  BY ClosingEvents
<1>4. /\ EventCount - 3 = EventCount - 4 + 1 /\ EventCount - 2 = EventCount - 4 + 2
      /\ EventCount - 1 = EventCount - 4 + 3 /\ EventCount = EventCount - 4 + 4
  BY LastEvent
<1>5. QED
  BY <1>2, <1>3, <1>4

\* Every number from 1 to EventCount is one of these.
LEMMA EventNumbers ==
  ASSUME NEW n \in 1 .. EventCount
  PROVE  \/ n \in 1 .. 6 \/ n \in EventCount - 3 .. EventCount
         \/ \E p \in DOMAIN Order, j \in 1 .. 4 : n = 6 + 4 * (p - 1) + j
<1>1. Len(Order) \in Nat /\ DOMAIN Order = 1 .. Len(Order) /\ EventCount = 10 + 4 * Len(Order)
  BY PlacesAndStrategies DEF EventCount
<1>2. SUFFICES ASSUME n \in 7 .. 6 + 4 * Len(Order)
               PROVE  \E p \in DOMAIN Order, j \in 1 .. 4 : n = 6 + 4 * (p - 1) + j
  BY <1>1
<1> DEFINE q == (n - 7) \div 4
           r == (n - 7) % 4
<1>3. q \in 0 .. Len(Order) - 1 /\ r \in 0 .. 3 /\ n - 7 = 4 * q + r
  BY <1>1, <1>2
<1> HIDE DEF q, r
<1>4. q + 1 \in DOMAIN Order /\ r + 1 \in 1 .. 4 /\ n = 6 + 4 * ((q + 1) - 1) + (r + 1)
  BY <1>1, <1>2, <1>3
<1> DEFINE p == q + 1
           j == r + 1
<1>6. p \in DOMAIN Order /\ j \in 1 .. 4 /\ n = 6 + 4 * (p - 1) + j
  BY <1>4
<1> HIDE DEF p, j
<1>5. QED
  BY <1>6

LEMMA FourApart ==
  ASSUME NEW p \in Nat, NEW q \in Nat, NEW j \in 0 .. 4
  PROVE  LET k == 6 + 4 * (p - 1) + j - 6 - 4 * (q - 1) IN
           /\ k \in Int
           /\ q < p => k >= 4
           /\ q = p => k = j
           /\ q > p => k <= 0
<1>1. 6 + 4 * (p - 1) + j - 6 - 4 * (q - 1) = 4 * (p - q) + j
  OBVIOUS
<1>2. QED
  BY <1>1

LEMMA TransitionsCounted ==
  ASSUME NEW p \in DOMAIN Order, NEW j \in 0 .. 4, NEW c \in Strategies
  PROVE  TransitionsOf(c, 6 + 4 * (p - 1) + j) =
           IF Place(c) < p THEN 4 ELSE IF Place(c) = p THEN j ELSE 0
<1>1. p \in Nat /\ Place(c) \in Nat
  BY PlacesAndStrategies, PlaceOf
<1> DEFINE n == 6 + 4 * (p - 1) + j
           k == n - 6 - 4 * (Place(c) - 1)
<1>2. /\ k \in Int
      /\ Place(c) < p => k >= 4
      /\ Place(c) = p => k = j
      /\ Place(c) > p => k <= 0
  BY <1>1, FourApart
<1> HIDE DEF n
<1>3. TransitionsOf(c, n) = IF k < 0 THEN 0 ELSE IF k > 4 THEN 4 ELSE k
  BY DEF TransitionsOf
<1> HIDE DEF k
<1>4. TransitionsOf(c, n) = IF Place(c) < p THEN 4 ELSE IF Place(c) = p THEN j ELSE 0
  BY <1>1, <1>2, <1>3
<1>5. QED
  BY <1>4 DEF n

LEMMA TransitionsAround ==
  ASSUME NEW c \in Strategies
  PROVE  /\ TransitionsOf(c, 5) = 0 /\ TransitionsOf(c, 6) = 0
         /\ \A n \in EventCount - 4 .. EventCount : TransitionsOf(c, n) = 4
<1>1. Len(Order) \in Nat /\ Place(c) \in 1 .. Len(Order) /\ EventCount = 10 + 4 * Len(Order)
  BY PlacesAndStrategies, PlaceOf DEF EventCount
<1>2. TransitionsOf(c, 5) = 0 /\ TransitionsOf(c, 6) = 0
  BY <1>1 DEF TransitionsOf
<1>3. ASSUME NEW n \in EventCount - 4 .. EventCount
      PROVE  TransitionsOf(c, n) = 4
  BY <1>1 DEF TransitionsOf
<1>4. QED
  BY <1>2, <1>3

-----------------------------------------------------------------------------
(* What the machine is after n events                                      *)

LEMMA MachineIs ==
  ASSUME NEW n
  PROVE  vars = MachineAfter(n) <=>
           /\ runState = StateAfter(n)
           /\ request = IF n >= 1 THEN Request ELSE None
           /\ source = IF n >= 2 THEN case ELSE None
           /\ checkpoint = IF n >= 5 THEN case ELSE None
           /\ candidates = CandidatesAfter(n)
           /\ verdict = IF n = EventCount THEN Verdict ELSE NoVerdict
           /\ failure = "none" /\ lastEventId = n /\ processedEventKeys = [k \in 1 .. n |-> k]
           /\ retryCounts = [s \in Stages |-> 0] /\ commands = CommandsAfter(n)
  BY DEF vars, machineVars, MachineAfter

LEMMA MachineBecomes ==
  ASSUME NEW n
  PROVE  vars' = MachineAfter(n) <=>
           /\ runState' = StateAfter(n)
           /\ request' = IF n >= 1 THEN Request ELSE None
           /\ source' = IF n >= 2 THEN case ELSE None
           /\ checkpoint' = IF n >= 5 THEN case ELSE None
           /\ candidates' = CandidatesAfter(n)
           /\ verdict' = IF n = EventCount THEN Verdict ELSE NoVerdict
           /\ failure' = "none" /\ lastEventId' = n
           /\ processedEventKeys' = [k \in 1 .. n |-> k]
           /\ retryCounts' = [s \in Stages |-> 0] /\ commands' = CommandsAfter(n)
  BY DEF vars, machineVars, MachineAfter

LEMMA EnvelopeFits ==
  ASSUME NEW n \in Nat, lastEventId = n, processedEventKeys = [k \in 1 .. n |-> k]
  PROVE  /\ Admissible(n + 1, n + 1)
         /\ Apply(n + 1, n + 1) <=>
              /\ RunParses' /\ lastEventId' = n + 1
              /\ processedEventKeys' = [k \in 1 .. n + 1 |-> k]
<1>1. Admissible(n + 1, n + 1)
  <2>1. n + 1 > n /\ n + 1 <= n + MaxIdGap
    BY SchemasAdmitEvents
  <2>2. n + 1 \notin 1 .. n
    OBVIOUS
  <2>3. n + 1 \notin Range(processedEventKeys) /\ n + 1 \notin DOMAIN processedEventKeys
    BY <2>2 DEF Range
  <2>4. QED
    BY <2>1, <2>3 DEF Admissible
<1>2. [k \in DOMAIN processedEventKeys \cup {n + 1} |->
         IF k = n + 1 THEN n + 1 ELSE processedEventKeys[k]] = [k \in 1 .. n + 1 |-> k]
  <2>1. DOMAIN processedEventKeys \cup {n + 1} = 1 .. n + 1
    OBVIOUS
  <2>2. QED
    BY <2>1
<1>3. QED
  BY <1>1, <1>2 DEF Apply

LEMMA StatesAfter ==
  /\ StateAfter(0) = "NONE" /\ StateAfter(1) = "RECEIVED" /\ StateAfter(2) = "SOURCE_RESOLVED"
  /\ StateAfter(3) = "INVENTORIED" /\ StateAfter(4) = "SPECIFIED"
  /\ StateAfter(5) = "BASE_CHECKPOINT_READY"
  /\ \A n \in 6 .. EventCount - 4 : StateAfter(n) = "CANDIDATES_RUNNING"
  /\ StateAfter(EventCount - 3) = "CANDIDATES_EVALUATED" /\ StateAfter(EventCount - 2) = "FALSIFIED"
  /\ StateAfter(EventCount - 1) = "SCORED" /\ StateAfter(EventCount) = EndOf(evaluated)
<1>1. /\ StateAfter(0) = "NONE" /\ StateAfter(1) = "RECEIVED" /\ StateAfter(2) = "SOURCE_RESOLVED"
      /\ StateAfter(3) = "INVENTORIED" /\ StateAfter(4) = "SPECIFIED"
      /\ StateAfter(5) = "BASE_CHECKPOINT_READY"
  BY DEF StateAfter
<1>2. \A n \in 6 .. EventCount - 4 : ~ (n <= 5) /\ n <= EventCount - 4
  BY LastEvent
<1>3. \A n \in 6 .. EventCount - 4 : StateAfter(n) = "CANDIDATES_RUNNING"
  BY <1>2 DEF StateAfter
<1>4. ASSUME NEW j \in 1 .. 4, NEW n, n = EventCount - 4 + j
      PROVE  StateAfter(n) =
               <<"CANDIDATES_EVALUATED", "FALSIFIED", "SCORED", EndOf(evaluated)>>[j]
  <2>1. ~ (n <= 5) /\ ~ (n <= EventCount - 4) /\ n - (EventCount - 4) = j
    BY <1>4, LastEvent
  <2>2. QED
    BY <2>1 DEF StateAfter
<1>5. /\ EventCount - 3 = EventCount - 4 + 1 /\ EventCount - 2 = EventCount - 4 + 2
      /\ EventCount - 1 = EventCount - 4 + 3 /\ EventCount = EventCount - 4 + 4
  BY LastEvent
<1>6. /\ StateAfter(EventCount - 3) = "CANDIDATES_EVALUATED"
      /\ StateAfter(EventCount - 2) = "FALSIFIED" /\ StateAfter(EventCount - 1) = "SCORED"
      /\ StateAfter(EventCount) = EndOf(evaluated)
  BY <1>4, <1>5
<1>7. QED
  BY <1>1, <1>3, <1>6

LEMMA CommandsFor ==
  /\ CommandsAfter(0) = {} /\ CommandsAfter(1) = {Command("resolve-source")}
  /\ CommandsAfter(2) = {Command("inventory-source")}
  /\ CommandsAfter(3) = {Command("specify-migration")}
  /\ CommandsAfter(4) = {Command("create-base-checkpoint")} /\ CommandsAfter(5) = {}
  /\ CommandsAfter(6) = UNION {CandidateCommands(c, "PATCHING") : c \in Strategies}
  /\ \A n \in 7 .. EventCount - 4 :
       CommandsAfter(n) = CandidateCommands(Script(n).candidate, Script(n).to)
                            \cup SettlementCommands(Script(n).to, CandidatesAfter(n))
  /\ CommandsAfter(EventCount - 3) = {Command("run-final-falsifier")}
  /\ CommandsAfter(EventCount - 2) = {Command("score-candidates")}
  /\ CommandsAfter(EventCount - 1) = {Command("decide-verdict")} /\ CommandsAfter(EventCount) = {}
<1>1. /\ CommandsAfter(0) = {} /\ CommandsAfter(1) = {Command("resolve-source")}
      /\ CommandsAfter(2) = {Command("inventory-source")}
      /\ CommandsAfter(3) = {Command("specify-migration")}
      /\ CommandsAfter(4) = {Command("create-base-checkpoint")} /\ CommandsAfter(5) = {}
      /\ CommandsAfter(6) = UNION {CandidateCommands(c, "PATCHING") : c \in Strategies}
  BY DEF CommandsAfter
<1>2. \A n \in 7 .. EventCount - 4 : ~ (n <= 6) /\ n <= EventCount - 4
  BY LastEvent
<1>3. \A n \in 7 .. EventCount - 4 :
        CommandsAfter(n) = CandidateCommands(Script(n).candidate, Script(n).to)
                             \cup SettlementCommands(Script(n).to, CandidatesAfter(n))
  BY <1>2 DEF CommandsAfter
<1>4. ASSUME NEW j \in 1 .. 4, NEW n, n = EventCount - 4 + j
      PROVE  CommandsAfter(n) =
               <<{Command("run-final-falsifier")}, {Command("score-candidates")},
                 {Command("decide-verdict")}, {}>>[j]
  <2>1. ~ (n <= 6) /\ ~ (n <= EventCount - 4) /\ n - (EventCount - 4) = j
    BY <1>4, LastEvent
  <2>2. QED
    BY <2>1 DEF CommandsAfter
<1>5. /\ EventCount - 3 = EventCount - 4 + 1 /\ EventCount - 2 = EventCount - 4 + 2
      /\ EventCount - 1 = EventCount - 4 + 3 /\ EventCount = EventCount - 4 + 4
  BY LastEvent
<1>6. /\ CommandsAfter(EventCount - 3) = {Command("run-final-falsifier")}
      /\ CommandsAfter(EventCount - 2) = {Command("score-candidates")}
      /\ CommandsAfter(EventCount - 1) = {Command("decide-verdict")}
      /\ CommandsAfter(EventCount) = {}
  BY <1>4, <1>5
<1>7. QED
  BY <1>1, <1>3, <1>6

\* Each event has its action of the reducer.
LEMMA ReduceIs ==
  ASSUME NEW n
  PROVE  /\ Reduce(Event("run.received"), n) <=> request' = Request /\ RunReceived(n, n)
         /\ Reduce(Event("source.resolved"), n) <=> source' = case /\ SourceResolved(n, n)
         /\ Reduce(Event("inventory.completed"), n) <=> InventoryCompleted(n, n)
         /\ Reduce(Event("specification.completed"), n) <=> SpecificationCompleted(n, n)
         /\ Reduce(Event("checkpoint.ready"), n) <=>
              /\ checkpoint' = case /\ candidates' = [c \in Strategies |-> NewCandidate]
              /\ CheckpointReady(n, n)
         /\ Reduce(Event("candidates.started"), n) <=> CandidatesStarted(n, n)
         /\ Reduce(Event("candidates.evaluated"), n) <=> CandidatesEvaluated(n, n)
         /\ Reduce(Event("falsification.completed"), n) <=> FalsificationCompleted(n, n)
         /\ Reduce(Event("scoring.completed"), n) <=>
              /\ candidates' = [c \in Strategies |-> [candidates[c] EXCEPT !.score = Scores[c]]]
              /\ ScoringCompleted(n, n)
         /\ Reduce(Event("verdict"), n) <=>
              verdict' = Verdict /\ (VerdictSelected(n, n) \/ VerdictAbstained(n, n))
         /\ \A c, from, to : Reduce(Transition(c, from, to), n) <=>
              /\ candidates[c].state = from
              /\ candidates' = [candidates EXCEPT ![c] = Advanced(Transition(c, from, to))]
              /\ CandidateTransitioned(n, n)
<1>1. \A t : Event(t).type = t
  BY DEF Event
<1>2. \A c, from, to :
        /\ Transition(c, from, to).type = "candidate.transitioned"
        /\ Transition(c, from, to).candidate = c
        /\ Transition(c, from, to).from = from
  BY DEF Transition
<1>3. Reduce(Event("run.received"), n) <=> request' = Request /\ RunReceived(n, n)
  BY <1>1 DEF Reduce
<1>4. Reduce(Event("source.resolved"), n) <=> source' = case /\ SourceResolved(n, n)
  BY <1>1 DEF Reduce
<1>5. Reduce(Event("inventory.completed"), n) <=> InventoryCompleted(n, n)
  BY <1>1 DEF Reduce
<1>6. Reduce(Event("specification.completed"), n) <=> SpecificationCompleted(n, n)
  BY <1>1 DEF Reduce
<1>7. Reduce(Event("checkpoint.ready"), n) <=>
        /\ checkpoint' = case /\ candidates' = [c \in Strategies |-> NewCandidate]
        /\ CheckpointReady(n, n)
  BY <1>1 DEF Reduce
<1>8. Reduce(Event("candidates.started"), n) <=> CandidatesStarted(n, n)
  BY <1>1 DEF Reduce
<1>9. Reduce(Event("candidates.evaluated"), n) <=> CandidatesEvaluated(n, n)
  BY <1>1 DEF Reduce
<1>10. Reduce(Event("falsification.completed"), n) <=> FalsificationCompleted(n, n)
  BY <1>1 DEF Reduce
<1>11. Reduce(Event("scoring.completed"), n) <=>
        /\ candidates' = [c \in Strategies |-> [candidates[c] EXCEPT !.score = Scores[c]]]
        /\ ScoringCompleted(n, n)
  BY <1>1 DEF Reduce
<1>12. Reduce(Event("verdict"), n) <=>
        verdict' = Verdict /\ (VerdictSelected(n, n) \/ VerdictAbstained(n, n))
  BY <1>1 DEF Reduce
<1>13. \A c, from, to : Reduce(Transition(c, from, to), n) <=>
        /\ candidates[c].state = from
        /\ candidates' = [candidates EXCEPT ![c] = Advanced(Transition(c, from, to))]
        /\ CandidateTransitioned(n, n)
  BY <1>2 DEF Reduce
<1>14. QED
  BY <1>3, <1>4, <1>5, <1>6, <1>7, <1>8, <1>9, <1>10, <1>11, <1>12, <1>13

-----------------------------------------------------------------------------
(* The candidates after n events                                           *)

\* A settled candidate has the report that its disposition comes from.
LEMMA SettledParses ==
  ASSUME OfOutcomes, NEW c \in Strategies
  PROVE  /\ Final(c) \in TerminalCandidateStates
         /\ settled[c] = "eligible" <=> Final(c) = "ELIGIBLE"
         /\ settled[c] = "rejected" <=> Final(c) = "REJECTED"
         /\ settled[c] = "inconclusive" <=> Final(c) = "INCONCLUSIVE"
         /\ Why[Final(c)] \in CandidateFailures
         /\ GateReport(results[c]) \in GateReports /\ Len(GateReport(results[c])) = 10
         /\ Len(GateNames(GateReport(results[c]))) = 10
         /\ Range(GateNames(GateReport(results[c]))) = Gates
         /\ IsInjective(GateNames(GateReport(results[c])))
         /\ \A d : d.state = Final(c) /\ d.gates = GateReport(results[c])
                     /\ d.failure = Why[Final(c)] => CandidateParses(d)
<1> DEFINE o == results[c]
           report == GateReport(o)
           statuses == {GateStatus(name, o) : name \in Gates}
<1>1. o \in Outcomes /\ settled[c] = DispositionOf(o)
  BY DEF OfOutcomes
<1>2. /\ settled[c] = "inconclusive" <=> "inconclusive" \in statuses
      /\ settled[c] = "rejected" <=> "inconclusive" \notin statuses /\ "failed" \in statuses
      /\ settled[c] = "eligible" <=> "inconclusive" \notin statuses /\ "failed" \notin statuses
      /\ settled[c] \in {"eligible", "rejected", "inconclusive"}
  BY <1>1 DEF DispositionOf
<1>3. /\ Final(c) \in TerminalCandidateStates
      /\ settled[c] = "eligible" <=> Final(c) = "ELIGIBLE"
      /\ settled[c] = "rejected" <=> Final(c) = "REJECTED"
      /\ settled[c] = "inconclusive" <=> Final(c) = "INCONCLUSIVE"
  BY <1>2 DEF Final, TerminalCandidateStates
<1>4. /\ Final(c) = "ELIGIBLE" => Why[Final(c)] = "none"
      /\ Final(c) = "REJECTED" => Why[Final(c)] = "behavioral"
      /\ Final(c) = "INCONCLUSIVE" => Why[Final(c)] = "infrastructure"
  BY DEF Why
<1>5. Why[Final(c)] \in CandidateFailures
  BY <1>3, <1>4 DEF TerminalCandidateStates, CandidateFailures
<1>6. /\ report \in GateReports /\ DOMAIN report = 1 .. 10 /\ Len(report) = 10
      /\ \A n \in 1 .. 10 : report[n].gate = HardGateOrder[n]
                              /\ report[n].status = GateStatus(HardGateOrder[n], o)
  <2>1. report \in GateReports
    BY <1>1, SchemasAdmitEvents
  <2>2. report \in Seq(GateResult)
    BY <2>1, GateReportsAreReports
  <2>3. /\ DOMAIN report = 1 .. 10
        /\ \A n \in 1 .. 10 : report[n].gate = HardGateOrder[n]
                                /\ report[n].status = GateStatus(HardGateOrder[n], o)
    BY GateNamesDiffer DEF GateReport
  <2>4. Len(report) = 10
    BY <2>2, <2>3
  <2>5. QED
    BY <2>1, <2>3, <2>4
<1> HIDE DEF report, o
<1>7. GateNames(report) = [n \in 1 .. 10 |-> HardGateOrder[n]]
  BY <1>6 DEF GateNames
<1>8. Range(GateNames(report)) = Gates /\ IsInjective(GateNames(report))
  BY <1>7, GateNamesDiffer DEF Range, IsInjective
<1>9. Len(GateNames(report)) = 10
  <2>1. \A n \in 1 .. 10 : HardGateOrder[n] \in Gates
    BY GateNamesDiffer
  <2>2. [n \in 1 .. 10 |-> HardGateOrder[n]] \in [1 .. 10 -> Gates]
    BY <2>1
  <2>3. [n \in 1 .. 10 |-> HardGateOrder[n]] \in Seq(Gates)
    BY <2>2, FunctionIsSeq
  <2>4. QED
    BY <1>7, <2>3
<1>10. statuses = {report[n].status : n \in 1 .. 10}
  BY <1>6, GateNamesDiffer
<1>11. \A name : GateStatus(name, o) \in {"passed", "failed", "inconclusive"}
  BY DEF GateStatus
<1> HIDE DEF statuses
<1>12. ASSUME NEW d, d.state = Final(c), d.gates = report, d.failure = Why[Final(c)]
       PROVE  CandidateParses(d)
  <2>1. report # <<>>
    <3>1. Len(<<>>) = 0
      OBVIOUS
    <3>2. report = <<>> => Len(report) = 0
      BY <3>1, Zenon
    <3>3. QED
      BY <1>6, <3>2
  <2>2. DOMAIN d.gates = 1 .. 10 /\ d.gates # <<>>
    BY <1>6, <1>12, <2>1
  <2>3. Final(c) = "ELIGIBLE" => \A n \in DOMAIN d.gates : d.gates[n].status = "passed"
    BY <1>2, <1>3, <1>6, <1>10, <1>11, <1>12, <2>2
  <2>4. Final(c) = "REJECTED" => {n \in DOMAIN d.gates : d.gates[n].status = "failed"} # {}
    BY <1>2, <1>3, <1>10, <1>12, <2>2
  <2>5. StateParses(d)
    BY <1>3, <1>4, <1>12, <2>2, <2>3, <2>4 DEF StateParses
  <2>6. QED
    BY <1>8, <1>12, <2>5 DEF CandidateParses
<1>13. QED
  BY <1>3, <1>5, <1>6, <1>8, <1>12, <1>9 DEF report, o

\* What a candidate is, by the transitions it has been through.
LEMMA CandidateForms ==
  ASSUME NEW c \in Strategies, NEW n \in 5 .. EventCount
  PROVE  LET d == CandidateAfter(c, n)
             k == TransitionsOf(c, n)
         IN /\ k \in 0 .. 4
            /\ n = 5 => d.state = "QUEUED"
            /\ n # 5 => d.state = <<"PATCHING", "BUILDING", "VERIFYING", "FALSIFYING",
                                   Final(c)>>[k + 1]
            /\ n = 5 => k = 0
            /\ d.op = IF k = 0 THEN None ELSE Place(c)
            /\ d.gates = IF k = 4 THEN GateReport(results[c]) ELSE <<>>
            /\ d.failure = IF k = 4 THEN Why[Final(c)] ELSE "none"
            /\ d.score = IF n >= EventCount - 1 THEN Scores[c] ELSE None
<1>1. n \in Int /\ Place(c) \in Int
  BY PlacesAndStrategies, PlaceOf, LastEvent
<1>2. TransitionsOf(c, n) \in 0 .. 4
  BY <1>1 DEF TransitionsOf
<1>3. n = 5 => TransitionsOf(c, n) = 0
  BY TransitionsAround
<1>4. QED
  BY <1>2, <1>3 DEF CandidateAfter

LEMMA CandidateAfterParses ==
  ASSUME OfOutcomes, NEW c \in Strategies, NEW n \in 5 .. EventCount
  PROVE  CandidateParses(CandidateAfter(c, n))
<1> DEFINE d == CandidateAfter(c, n)
           k == TransitionsOf(c, n)
<1>1. /\ k \in 0 .. 4
      /\ n = 5 => d.state = "QUEUED" /\ k = 0
      /\ n # 5 => d.state = <<"PATCHING", "BUILDING", "VERIFYING", "FALSIFYING", Final(c)>>[k + 1]
      /\ d.gates = IF k = 4 THEN GateReport(results[c]) ELSE <<>>
      /\ d.failure = IF k = 4 THEN Why[Final(c)] ELSE "none"
  BY CandidateForms
<1> HIDE DEF d, k
<1>2. CASE k = 4
  <2>1. d.state = Final(c) /\ d.gates = GateReport(results[c]) /\ d.failure = Why[Final(c)]
    BY <1>1, <1>2
  <2>2. QED
    BY <2>1, SettledParses DEF d
<1>3. CASE k # 4
  <2>1. d.state \in {"QUEUED", "PATCHING", "BUILDING", "VERIFYING", "FALSIFYING"}
    BY <1>1, <1>3
  <2>2. d.gates = <<>> /\ d.failure = "none"
    BY <1>1, <1>3
  <2>3. StateParses(d)
    BY <2>1, <2>2 DEF StateParses, TerminalCandidateStates
  <2>4. GateNames(d.gates) = <<>>
    BY <2>2 DEF GateNames
  <2>5. IsInjective(GateNames(d.gates))
    BY <2>4 DEF IsInjective
  <2>6. QED
    BY <2>3, <2>5 DEF CandidateParses, d
<1>4. QED
  BY <1>2, <1>3

\* The evaluator's winner passed, so it is settled as eligible.
LEMMA WinnerIsEligible ==
  ASSUME OfOutcomes, evaluated.status = "selected"
  PROVE  evaluated.winner \in Strategies /\ settled[evaluated.winner] = "eligible"
<1>1. evaluated.winner \in Fastest
  BY DEF OfOutcomes
<1>2. evaluated.winner \in Strategies /\ Passed(evaluated.winner)
  BY <1>1 DEF Fastest
<1>3. QED
  BY <1>2, EligibleIsPassed DEF OfOutcomes

LEMMA MachineParses ==
  ASSUME OfOutcomes, case \in 1 .. Cases, NEW n \in 0 .. EventCount, vars' = MachineAfter(n)
  PROVE  RunParses'
<1>1. /\ runState' = StateAfter(n) /\ source' = IF n >= 2 THEN case ELSE None
      /\ candidates' = CandidatesAfter(n)
      /\ verdict' = IF n = EventCount THEN Verdict ELSE NoVerdict
      /\ failure' = "none"
  BY MachineBecomes
<1>2. n \in Nat /\ EventCount \in Nat /\ EventCount >= 10
  BY LastEvent
<1>3. DOMAIN candidates' = IF n < 5 THEN {} ELSE Strategies
  BY <1>1 DEF CandidatesAfter, EmptyFunction
<1>4. \A c \in DOMAIN candidates' : CandidateParses(candidates'[c])
  <2>1. CASE n < 5
    BY <1>3, <2>1
  <2>2. CASE n >= 5
    <3>1. \A c \in Strategies : candidates'[c] = CandidateAfter(c, n)
      BY <1>1, <1>2, <2>2 DEF CandidatesAfter
    <3>2. n \in 5 .. EventCount /\ DOMAIN candidates' = Strategies
      BY <1>2, <1>3, <2>2
    <3>3. QED
      BY <3>1, <3>2, CandidateAfterParses
  <2>3. QED
    BY <1>2, <2>1, <2>2
<1>5. \/ n \in {0, 1} /\ runState' \in {"NONE", "RECEIVED"}
      \/ n \in 2 .. 4 /\ runState' \in {"SOURCE_RESOLVED", "INVENTORIED", "SPECIFIED"}
      \/ n \in 5 .. EventCount - 1
           /\ runState' \in {"BASE_CHECKPOINT_READY", "CANDIDATES_RUNNING",
                             "CANDIDATES_EVALUATED", "FALSIFIED", "SCORED"}
      \/ n = EventCount /\ runState' = EndOf(evaluated)
  <2>1. \/ n \in 0 .. 5 \/ n \in 6 .. EventCount - 4 \/ n = EventCount - 3
        \/ n = EventCount - 2 \/ n = EventCount - 1 \/ n = EventCount
    BY <1>2
  <2>2. QED
    BY <1>1, <1>2, <2>1, StatesAfter
<1>6. source' # None \/ n < 2
  <2>1. case # None
    BY SchemasAdmitEvents, NoneIsNoValue
  <2>2. QED
    BY <1>1, <1>2, <2>1
<1>7. Strategies # {}
  BY SchemasAdmitEvents, RunRequestsAreRequests DEF RequestFor, RunRequest
<1>8. CASE n = EventCount
  <2>1. runState' = EndOf(evaluated) /\ verdict' = Verdict
    BY <1>1, <1>5, <1>8, <1>2
  <2>2. \A c \in Strategies : candidates'[c].state = Final(c)
    <3>1. \A c \in Strategies : candidates'[c] = CandidateAfter(c, n)
      BY <1>1, <1>2, <1>8 DEF CandidatesAfter
    <3>2. \A c \in Strategies : TransitionsOf(c, n) = 4 /\ n # 5
      BY <1>2, <1>8, TransitionsAround
    <3>3. n \in 5 .. EventCount
      BY <1>2, <1>8
    <3>4. ASSUME NEW c \in Strategies
          PROVE  CandidateAfter(c, n).state = Final(c)
      <4>1. /\ TransitionsOf(c, n) + 1 = 5
            /\ CandidateAfter(c, n).state =
                 <<"PATCHING", "BUILDING", "VERIFYING", "FALSIFYING", Final(c)>>[
                   TransitionsOf(c, n) + 1]
        BY <3>2, <3>3, CandidateForms
      <4>2. QED
        BY <4>1
    <3>5. QED
      BY <3>1, <3>4
  <2>3. CASE evaluated.status = "selected"
    <3>1. /\ runState' = "SELECTED" /\ verdict'.kind = "selected"
          /\ verdict'.winner = evaluated.winner
      BY <2>1, <2>3 DEF EndOf, Verdict
    <3>2. candidates'[evaluated.winner].state = "ELIGIBLE" /\ evaluated.winner \in Strategies
      BY <2>2, <2>3, WinnerIsEligible, SettledParses
    <3>3. DOMAIN candidates' = Strategies
      BY <1>2, <1>3, <1>8
    <3> HIDE DEF OfOutcomes
    <3>4. QED
      BY <1>1, <1>2, <1>4, <1>6, <1>7, <1>8, <3>1, <3>2, <3>3 DEF RunParses
  <2>4. CASE evaluated.status # "selected"
    <3>1. runState' = "ABSTAINED" /\ verdict'.kind = "abstained"
      BY <2>1, <2>4 DEF EndOf, Verdict
    <3>2. DOMAIN candidates' = Strategies
      BY <1>2, <1>3, <1>8
    <3>3. QED
      BY <1>1, <1>2, <1>4, <1>6, <1>7, <1>8, <3>1, <3>2 DEF RunParses
  <2>5. QED
    BY <2>3, <2>4
<1>9. CASE n # EventCount
  <2>1. verdict'.kind = "none" /\ failure' = "none"
    BY <1>1, <1>9 DEF NoVerdict
  <2>2. n < 2 => runState' \notin StatesRequiringSource
    BY <1>2, <1>5, <1>9 DEF StatesRequiringSource, RunStates
  <2>3. n < 5 => runState' \notin StatesRequiringCandidates
    BY <1>2, <1>5, <1>9 DEF StatesRequiringSource, StatesRequiringCandidates, RunStates
  <2>4. runState' \notin {"SELECTED", "ABSTAINED", "FAILED"}
    BY <1>2, <1>5, <1>9
  <2>5. n >= 5 => DOMAIN candidates' # {}
    BY <1>2, <1>3, <1>7
  <2>6. QED
    BY <1>2, <1>4, <1>6, <2>1, <2>2, <2>3, <2>4, <2>5 DEF RunParses
<1>10. QED
  BY <1>8, <1>9

-----------------------------------------------------------------------------
(* Each event applies, and makes of the machine what is expected           *)

\* What the event after the n-th changes, besides the envelope's part.
Changes(n) ==
  /\ runState' = StateAfter(n + 1) /\ commands' = CommandsAfter(n + 1)
  /\ request' = IF n = 0 THEN Request ELSE request
  /\ source' = IF n = 1 THEN case ELSE source
  /\ checkpoint' = IF n = 4 THEN case ELSE checkpoint
  /\ candidates' = CandidatesAfter(n + 1)
  /\ verdict' = IF n = EventCount - 1 THEN Verdict ELSE verdict
  /\ UNCHANGED <<failure, retryCounts>>

LEMMA Stepping ==
  ASSUME NEW n \in 0 .. EventCount - 1, vars = MachineAfter(n)
  PROVE  vars' = MachineAfter(n + 1) <=>
           /\ Changes(n) /\ lastEventId' = n + 1
           /\ processedEventKeys' = [k \in 1 .. n + 1 |-> k]
<1>1. /\ n \in Nat /\ EventCount \in Nat /\ EventCount >= 10 /\ n # EventCount
      /\ n + 1 = EventCount <=> n = EventCount - 1
  BY LastEvent
<1>2. /\ request = IF n >= 1 THEN Request ELSE None
      /\ source = IF n >= 2 THEN case ELSE None
      /\ checkpoint = IF n >= 5 THEN case ELSE None
      /\ verdict = NoVerdict /\ failure = "none" /\ retryCounts = [s \in Stages |-> 0]
  BY <1>1, MachineIs
<1>3. /\ (IF n + 1 >= 1 THEN Request ELSE None) = IF n = 0 THEN Request ELSE request
      /\ (IF n + 1 >= 2 THEN case ELSE None) = IF n = 1 THEN case ELSE source
      /\ (IF n + 1 >= 5 THEN case ELSE None) = IF n = 4 THEN case ELSE checkpoint
      /\ (IF n + 1 = EventCount THEN Verdict ELSE NoVerdict) =
           IF n = EventCount - 1 THEN Verdict ELSE verdict
  BY <1>1, <1>2
<1>4. vars' = MachineAfter(n + 1) <=>
        /\ runState' = StateAfter(n + 1)
        /\ request' = IF n + 1 >= 1 THEN Request ELSE None
        /\ source' = IF n + 1 >= 2 THEN case ELSE None
        /\ checkpoint' = IF n + 1 >= 5 THEN case ELSE None
        /\ candidates' = CandidatesAfter(n + 1)
        /\ verdict' = IF n + 1 = EventCount THEN Verdict ELSE NoVerdict
        /\ failure' = "none" /\ lastEventId' = n + 1
        /\ processedEventKeys' = [k \in 1 .. n + 1 |-> k]
        /\ retryCounts' = [s \in Stages |-> 0] /\ commands' = CommandsAfter(n + 1)
  BY MachineBecomes
<1>5. QED
  BY <1>2, <1>3, <1>4 DEF Changes

LEMMA Applying ==
  ASSUME OfOutcomes, case \in 1 .. Cases, NEW n \in 0 .. EventCount - 1, vars = MachineAfter(n)
  PROVE  /\ Admissible(n + 1, n + 1)
         /\ runState = StateAfter(n) /\ candidates = CandidatesAfter(n)
         /\ Changes(n) /\ Apply(n + 1, n + 1) <=> vars' = MachineAfter(n + 1)
<1>1. n \in Nat /\ n + 1 \in 0 .. EventCount
  BY LastEvent
<1>2. /\ lastEventId = n /\ processedEventKeys = [k \in 1 .. n |-> k]
      /\ runState = StateAfter(n) /\ candidates = CandidatesAfter(n)
  BY MachineIs
<1>3. vars' = MachineAfter(n + 1) => RunParses'
  BY <1>1, MachineParses
<1>4. /\ Admissible(n + 1, n + 1)
      /\ Apply(n + 1, n + 1) <=>
           /\ RunParses' /\ lastEventId' = n + 1
           /\ processedEventKeys' = [k \in 1 .. n + 1 |-> k]
  BY <1>1, <1>2, EnvelopeFits
<1>5. QED
  BY <1>2, <1>3, <1>4, Stepping

LEMMA RunReceivedApplies ==
  ASSUME OfOutcomes, case \in 1 .. Cases, vars = MachineAfter(0)
  PROVE  Reduce(Script(1), 1) <=> vars' = MachineAfter(1)
<1>1. 0 \in 0 .. EventCount - 1 /\ 0 + 1 = 1 /\ 0 # EventCount - 1
  BY LastEvent
<1>2. /\ Admissible(1, 1) /\ runState = "NONE" /\ candidates = CandidatesAfter(0)
      /\ Changes(0) /\ Apply(1, 1) <=> vars' = MachineAfter(1)
  BY <1>1, Applying, StatesAfter
<1>3. CandidatesAfter(1) = candidates
  BY <1>2 DEF CandidatesAfter
<1>4. Changes(0) <=>
        /\ runState' = "RECEIVED" /\ commands' = {Command("resolve-source")}
        /\ request' = Request
        /\ UNCHANGED <<source, checkpoint, candidates, verdict, failure, retryCounts>>
  BY <1>1, <1>3, StatesAfter, CommandsFor DEF Changes
<1>5. Request \in RunRequests /\ Request.mode = "live"
  BY SchemasAdmitEvents DEF Request, RequestFor
<1>6. request' = Request /\ RunReceived(1, 1) <=> Changes(0) /\ Apply(1, 1)
  BY <1>2, <1>4, <1>5 DEF RunReceived
<1>7. QED
  BY <1>2, <1>6, ReduceIs, OtherEvents

LEMMA SourceResolvedApplies ==
  ASSUME OfOutcomes, case \in 1 .. Cases, vars = MachineAfter(1)
  PROVE  Reduce(Script(2), 2) <=> vars' = MachineAfter(2)
<1>1. 1 \in 0 .. EventCount - 1 /\ 1 + 1 = 2 /\ 1 # EventCount - 1
  BY LastEvent
<1>2. /\ Admissible(2, 2) /\ runState = "RECEIVED" /\ candidates = CandidatesAfter(1)
      /\ Changes(1) /\ Apply(2, 2) <=> vars' = MachineAfter(2)
  BY <1>1, Applying, StatesAfter
<1>3. CandidatesAfter(2) = candidates
  BY <1>2 DEF CandidatesAfter
<1>4. Changes(1) <=>
        /\ runState' = "SOURCE_RESOLVED" /\ commands' = {Command("inventory-source")}
        /\ source' = case
        /\ UNCHANGED <<request, checkpoint, candidates, verdict, failure, retryCounts>>
  BY <1>1, <1>3, StatesAfter, CommandsFor DEF Changes
<1>5. request.source \in SourceRequests /\ case \in Revisions
  BY MachineIs, SchemasAdmitEvents DEF Request
<1>6. source' = case /\ SourceResolved(2, 2) <=> Changes(1) /\ Apply(2, 2)
  BY <1>2, <1>4, <1>5 DEF SourceResolved
<1>7. QED
  BY <1>2, <1>6, ReduceIs, OtherEvents

LEMMA InventoryApplies ==
  ASSUME OfOutcomes, case \in 1 .. Cases, vars = MachineAfter(2)
  PROVE  Reduce(Script(3), 3) <=> vars' = MachineAfter(3)
<1>1. 2 \in 0 .. EventCount - 1 /\ 2 + 1 = 3 /\ 2 # EventCount - 1
  BY LastEvent
<1>2. /\ Admissible(3, 3) /\ runState = "SOURCE_RESOLVED" /\ candidates = CandidatesAfter(2)
      /\ Changes(2) /\ Apply(3, 3) <=> vars' = MachineAfter(3)
  BY <1>1, Applying, StatesAfter
<1>3. CandidatesAfter(3) = candidates
  BY <1>2 DEF CandidatesAfter
<1>4. Changes(2) <=>
        /\ runState' = "INVENTORIED" /\ commands' = {Command("specify-migration")}
        /\ OnlyRunState
  BY <1>1, <1>3, StatesAfter, CommandsFor DEF Changes, OnlyRunState
<1>5. source # None
  BY MachineIs, SchemasAdmitEvents, NoneIsNoValue
<1>6. InventoryCompleted(3, 3) <=> Changes(2) /\ Apply(3, 3)
  BY <1>2, <1>4, <1>5 DEF InventoryCompleted
<1>7. QED
  BY <1>2, <1>6, ReduceIs, OtherEvents

LEMMA SpecificationApplies ==
  ASSUME OfOutcomes, case \in 1 .. Cases, vars = MachineAfter(3)
  PROVE  Reduce(Script(4), 4) <=> vars' = MachineAfter(4)
<1>1. 3 \in 0 .. EventCount - 1 /\ 3 + 1 = 4 /\ 3 # EventCount - 1
  BY LastEvent
<1>2. /\ Admissible(4, 4) /\ runState = "INVENTORIED" /\ candidates = CandidatesAfter(3)
      /\ Changes(3) /\ Apply(4, 4) <=> vars' = MachineAfter(4)
  BY <1>1, Applying, StatesAfter
<1>3. CandidatesAfter(4) = candidates
  BY <1>2 DEF CandidatesAfter
<1>4. Changes(3) <=>
        /\ runState' = "SPECIFIED" /\ commands' = {Command("create-base-checkpoint")}
        /\ OnlyRunState
  BY <1>1, <1>3, StatesAfter, CommandsFor DEF Changes, OnlyRunState
<1>5. source # None
  BY MachineIs, SchemasAdmitEvents, NoneIsNoValue
<1>6. SpecificationCompleted(4, 4) <=> Changes(3) /\ Apply(4, 4)
  BY <1>2, <1>4, <1>5 DEF SpecificationCompleted
<1>7. QED
  BY <1>2, <1>6, ReduceIs, OtherEvents

LEMMA CheckpointApplies ==
  ASSUME OfOutcomes, case \in 1 .. Cases, vars = MachineAfter(4)
  PROVE  Reduce(Script(5), 5) <=> vars' = MachineAfter(5)
<1>1. 4 \in 0 .. EventCount - 1 /\ 4 + 1 = 5 /\ 4 # EventCount - 1 /\ ~ (5 >= EventCount - 1)
  BY LastEvent
<1>2. /\ Admissible(5, 5) /\ runState = "SPECIFIED"
      /\ Changes(4) /\ Apply(5, 5) <=> vars' = MachineAfter(5)
  BY <1>1, Applying, StatesAfter
<1>3. CandidatesAfter(5) = [c \in Strategies |-> NewCandidate]
  <2>1. \A c \in Strategies : CandidateAfter(c, 5) = NewCandidate
    BY <1>1, TransitionsAround DEF CandidateAfter, NewCandidate
  <2>2. QED
    BY <2>1 DEF CandidatesAfter
<1>4. Changes(4) <=>
        /\ runState' = "BASE_CHECKPOINT_READY" /\ commands' = {} /\ checkpoint' = case
        /\ candidates' = [c \in Strategies |-> NewCandidate]
        /\ UNCHANGED <<request, source, verdict, failure, retryCounts>>
  BY <1>1, <1>3, StatesAfter, CommandsFor DEF Changes
<1>5. source # None /\ source = case /\ case \in Revisions /\ request.strategies = Strategies
  BY MachineIs, SchemasAdmitEvents, NoneIsNoValue DEF Request, RequestFor
<1>6. checkpoint' = case /\ candidates' = [c \in Strategies |-> NewCandidate]
        /\ CheckpointReady(5, 5) <=> Changes(4) /\ Apply(5, 5)
  BY <1>2, <1>4, <1>5 DEF CheckpointReady
<1>7. QED
  BY <1>2, <1>6, ReduceIs, OtherEvents

LEMMA StartApplies ==
  ASSUME OfOutcomes, case \in 1 .. Cases, vars = MachineAfter(5)
  PROVE  Reduce(Script(6), 6) <=> vars' = MachineAfter(6)
<1>1. 5 \in 0 .. EventCount - 1 /\ 5 + 1 = 6 /\ 5 # EventCount - 1 /\ ~ (6 >= EventCount - 1)
      /\ ~ (5 >= EventCount - 1) /\ 6 \in 6 .. EventCount - 4
  BY LastEvent
<1>2. /\ Admissible(6, 6) /\ runState = "BASE_CHECKPOINT_READY"
      /\ candidates = CandidatesAfter(5)
      /\ Changes(5) /\ Apply(6, 6) <=> vars' = MachineAfter(6)
  BY <1>1, Applying, StatesAfter
<1>3. /\ DOMAIN candidates = Strategies
      /\ CandidatesAfter(6) =
           [c \in DOMAIN candidates |-> [candidates[c] EXCEPT !.state = "PATCHING"]]
  <2>1. candidates = [c \in Strategies |-> CandidateAfter(c, 5)]
    BY <1>2 DEF CandidatesAfter
  <2>2. \A c \in Strategies :
          CandidateAfter(c, 6) = [CandidateAfter(c, 5) EXCEPT !.state = "PATCHING"]
    BY <1>1, TransitionsAround DEF CandidateAfter
  <2>3. CandidatesAfter(6) = [c \in Strategies |-> CandidateAfter(c, 6)]
    BY DEF CandidatesAfter
  <2>4. QED
    BY <2>1, <2>2, <2>3
<1>4. Changes(5) <=>
        /\ runState' = "CANDIDATES_RUNNING"
        /\ commands' = UNION {CandidateCommands(c, "PATCHING") : c \in Strategies}
        /\ candidates' =
             [c \in DOMAIN candidates |-> [candidates[c] EXCEPT !.state = "PATCHING"]]
        /\ UNCHANGED <<request, source, checkpoint, verdict, failure, retryCounts>>
  BY <1>1, <1>3, StatesAfter, CommandsFor DEF Changes
<1>5. checkpoint # None
  BY MachineIs, SchemasAdmitEvents, NoneIsNoValue
<1>6. CandidatesStarted(6, 6) <=> Changes(5) /\ Apply(6, 6)
  BY <1>2, <1>3, <1>4, <1>5 DEF CandidatesStarted
<1>7. QED
  BY <1>2, <1>6, ReduceIs, OtherEvents

\* The states a candidate goes through.
Path(c) == <<"PATCHING", "BUILDING", "VERIFYING", "FALSIFYING", Final(c)>>
Move(c, j) == Transition(c, Path(c)[j], Path(c)[j + 1])

Moves == 1 .. 4

LEMMA WithinTransitions ==
  ASSUME NEW n \in Int, EventCount \in Int, n >= 6, n <= EventCount - 5
  PROVE  /\ n \in 0 .. EventCount - 1 /\ n \in 6 .. EventCount - 4
         /\ n + 1 \in 7 .. EventCount - 4 /\ n + 1 \in 6 .. EventCount - 4
         /\ n \notin {0, 1, 4, EventCount - 1} /\ n # 5 /\ n + 1 # 5
         /\ ~ (n < 5) /\ ~ (n + 1 < 5)
         /\ ~ (n >= EventCount - 1) /\ ~ (n + 1 >= EventCount - 1)
  OBVIOUS

\* The numbers of a transition and of what is before it.
LEMMA TransitionNumbers ==
  ASSUME NEW p \in DOMAIN Order, NEW j \in 1 .. 4, NEW n, n = 6 + 4 * (p - 1) + (j - 1)
  PROVE  /\ n \in 0 .. EventCount - 1 /\ n \in 6 .. EventCount - 4
         /\ n + 1 = 6 + 4 * (p - 1) + j /\ n + 1 \in 7 .. EventCount - 4
         /\ n + 1 \in 6 .. EventCount - 4
         /\ n \notin {0, 1, 4, EventCount - 1} /\ n # 5 /\ n + 1 # 5
         /\ ~ (n < 5) /\ ~ (n + 1 < 5)
         /\ ~ (n >= EventCount - 1) /\ ~ (n + 1 >= EventCount - 1)
<1>1. Len(Order) \in Nat /\ p \in 1 .. Len(Order) /\ EventCount = 10 + 4 * Len(Order)
  BY PlacesAndStrategies DEF EventCount
<1>2. n \in Int /\ n >= 6 /\ n <= 5 + 4 * Len(Order)
  BY <1>1
<1>3. n + 1 = 6 + 4 * (p - 1) + j
  <2>1. \A a, b \in Int : 6 + 4 * (a - 1) + (b - 1) + 1 = 6 + 4 * (a - 1) + b
    OBVIOUS
  <2>2. p \in Int /\ j \in Int
    BY <1>1
  <2>3. QED
    BY <2>1, <2>2
<1>4. n \in Int /\ EventCount \in Int /\ n >= 6 /\ n <= EventCount - 5
  BY <1>1, <1>2
<1>5. QED
  BY <1>3, <1>4, WithinTransitions, Zenon

LEMMA TransitionIs ==
  ASSUME NEW p \in DOMAIN Order, NEW j \in 1 .. 4
  PROVE  Script(6 + 4 * (p - 1) + j) = Move(Order[p], j)
<1>1. Script(6 + 4 * (p - 1) + j) = CandidateEvents(Order[p])[j]
  BY TransitionEvents
<1>2. CandidateEvents(Order[p])[j] = Move(Order[p], j)
  BY DEF CandidateEvents, Path, Move
<1>3. QED
  BY <1>1, <1>2

\* What a transition makes of the candidates.
LEMMA CandidatesStep ==
  ASSUME NEW p \in DOMAIN Order, NEW j \in Moves, NEW n, n = 6 + 4 * (p - 1) + (j - 1),
         NEW m, m = n + 1, candidates = CandidatesAfter(n)
  PROVE  LET c == Order[p]
             e == Move(c, j)
         IN /\ DOMAIN candidates = Strategies /\ c \in Strategies
            /\ candidates[c].state = Path(c)[j]
            /\ CandidatesAfter(m) = [candidates EXCEPT ![c] = Advanced(e)]
<1> USE DEF Moves
<1> DEFINE c == Order[p]
           e == Move(c, j)
<1>1. /\ c \in Strategies /\ Place(c) = p /\ Place(c) # None
      /\ \A d \in Strategies : d # c => Place(d) # p
  BY PlacesAndStrategies, PlaceOf, SchemasAdmitEvents, NoneIsNoValue
<1>2. /\ candidates = [d \in Strategies |-> CandidateAfter(d, n)]
      /\ CandidatesAfter(m) = [d \in Strategies |-> CandidateAfter(d, m)]
  BY TransitionNumbers DEF CandidatesAfter
<1>3. ASSUME NEW d \in Strategies
      PROVE  /\ TransitionsOf(d, n) =
                  IF Place(d) < p THEN 4 ELSE IF Place(d) = p THEN j - 1 ELSE 0
             /\ TransitionsOf(d, m) =
                  IF Place(d) < p THEN 4 ELSE IF Place(d) = p THEN j ELSE 0
  <2>1. j - 1 \in 0 .. 4 /\ j \in 0 .. 4
    OBVIOUS
  <2>2. m = 6 + 4 * (p - 1) + j
    BY TransitionNumbers
  <2>3. /\ TransitionsOf(d, 6 + 4 * (p - 1) + (j - 1)) =
             IF Place(d) < p THEN 4 ELSE IF Place(d) = p THEN j - 1 ELSE 0
        /\ TransitionsOf(d, 6 + 4 * (p - 1) + j) =
             IF Place(d) < p THEN 4 ELSE IF Place(d) = p THEN j ELSE 0
    BY <2>1, TransitionsCounted
  <2>4. QED
    BY <2>2, <2>3, Zenon
<1>4. p \in Int /\ ~ (p < p)
  BY PlacesAndStrategies
<1>5. TransitionsOf(c, n) = j - 1 /\ TransitionsOf(c, m) = j
  BY <1>1, <1>3, <1>4
<1>6. \A d \in Strategies : d # c => TransitionsOf(d, m) = TransitionsOf(d, n)
  BY <1>1, <1>3
<1>7. n # 5 /\ m # 5 /\ ~ (n >= EventCount - 1) /\ ~ (m >= EventCount - 1)
  BY TransitionNumbers
<1>8. \A d \in Strategies : d # c => CandidateAfter(d, m) = CandidateAfter(d, n)
  BY <1>6, <1>7 DEF CandidateAfter
<1>9. /\ candidates[c].state = Path(c)[j]
      /\ candidates[c].op = IF j = 1 THEN None ELSE p
  <2>1. (j - 1) + 1 = j /\ (j - 1 = 0 <=> j = 1)
    OBVIOUS
  <2>2. CandidateAfter(c, n).state = Path(c)[(j - 1) + 1]
        /\ CandidateAfter(c, n).op = IF j - 1 = 0 THEN None ELSE Place(c)
    BY <1>5, <1>7 DEF CandidateAfter, Path
  <2>3. QED
    BY <1>1, <1>2, <2>1, <2>2
<1>10. CandidateAfter(c, m) =
         [state |-> Path(c)[j + 1], op |-> p,
          gates |-> IF j = 4 THEN GateReport(results[c]) ELSE <<>>, score |-> None,
          failure |-> IF j = 4 THEN Why[Final(c)] ELSE "none"]
  <2>1. j # 0
    OBVIOUS
  <2>2. QED
    BY <1>1, <1>5, <1>7, <2>1 DEF CandidateAfter, Path
<1>11. Advanced(e) =
         [state |-> Path(c)[j + 1], op |-> p,
          gates |-> IF j = 4 THEN GateReport(results[c]) ELSE <<>>, score |-> None,
          failure |-> IF j = 4 THEN Why[Final(c)] ELSE "none"]
  <2>1. e.candidate = c /\ e.from = Path(c)[j] /\ e.to = Path(c)[j + 1]
    BY DEF Move, Transition
  <2>2. Path(c)[j] = "FALSIFYING" <=> j = 4
    BY DEF Path
  <2>3. j = 4 => Path(c)[j + 1] = Final(c)
    BY DEF Path
  <2> HIDE DEF e
  <2>4. QED
    BY <1>1, <2>1, <2>2, <2>3 DEF Advanced, Transitioned
<1>12. CandidateAfter(c, m) = Advanced(e)
  BY <1>10, <1>11
<1> HIDE DEF e, c
<1>13. CandidatesAfter(m) = [candidates EXCEPT ![c] = Advanced(e)]
  BY <1>1, <1>2, <1>8, <1>12
<1>14. QED
  BY <1>1, <1>2, <1>9, <1>13 DEF e, c

LEMMA GatesCounted == Cardinality(Gates) = 10
<1> DEFINE f == [n \in 1 .. 10 |-> HardGateOrder[n]]
<1>1. f \in [1 .. 10 -> Gates]
  BY GateNamesDiffer
<1>2. f \in Bijection(1 .. 10, Gates)
  BY <1>1, GateNamesDiffer DEF Bijection, Injection, Surjection, IsInjective
<1>3. ExistsBijection(1 .. 10, Gates)
  BY <1>2 DEF ExistsBijection
<1>4. QED
  BY <1>3, FS_CountingElements

\* The payload is one the reducer accepts.
LEMMA TransitionFits ==
  ASSUME OfOutcomes, NEW p \in DOMAIN Order, NEW j \in 1 .. 4
  PROVE  LET c == Order[p]
             e == Move(c, j)
             gates == IF j = 4 THEN GateReport(results[c]) ELSE <<>>
             why == IF j = 4 THEN Why[Final(c)] ELSE "none"
         IN /\ Path(c)[j + 1] # Path(c)[j]
            /\ Path(c)[j + 1] \in CandidateTransitions[Path(c)[j]]
            /\ p \in Operations /\ gates \in GateReports /\ why \in CandidateFailures
            /\ Range(GateNames(gates)) \subseteq Gates
            /\ Path(c)[j + 1] = "ELIGIBLE" => SameSet(GateNames(gates), Gates)
            /\ Advanced(e) = Transitioned(candidates[c], Path(c)[j + 1], p, gates, why)
            /\ Advanced(e).state = Path(c)[j + 1]
<1> DEFINE c == Order[p]
           e == Move(c, j)
           gates == IF j = 4 THEN GateReport(results[c]) ELSE <<>>
           why == IF j = 4 THEN Why[Final(c)] ELSE "none"
<1>1. c \in Strategies /\ Place(c) = p /\ p \in Operations
  BY PlacesAndStrategies, PlaceOf, SchemasAdmitEvents
<1>2. Final(c) \in TerminalCandidateStates
  BY <1>1, SettledParses
<1>3. Path(c)[j + 1] # Path(c)[j] /\ Path(c)[j + 1] \in CandidateTransitions[Path(c)[j]]
  BY <1>2 DEF Path, TerminalCandidateStates, CandidateTransitions, CandidateStates
<1>4. j # 4 => Path(c)[j + 1] \notin TerminalCandidateStates
  BY DEF Path, TerminalCandidateStates
<1>5. gates \in GateReports /\ why \in CandidateFailures
  BY <1>1, SettledParses, SchemasAdmitEvents DEF CandidateFailures
<1>6. Range(GateNames(gates)) \subseteq Gates
  <2>1. CASE j = 4
    BY <1>1, <2>1, SettledParses
  <2>2. CASE j # 4
    BY <2>2 DEF GateNames, Range
  <2>3. QED
    BY <2>1, <2>2
<1>7. Path(c)[j + 1] = "ELIGIBLE" => SameSet(GateNames(gates), Gates)
  <2>1. SUFFICES ASSUME Path(c)[j + 1] = "ELIGIBLE"
                 PROVE  SameSet(GateNames(gates), Gates)
    OBVIOUS
  <2>2. gates = GateReport(results[c])
    BY <1>4, <2>1 DEF TerminalCandidateStates
  <2>3. Len(GateNames(gates)) = 10
    BY <1>1, <2>2, SettledParses
  <2>4. Cardinality(Gates) = 10
    BY GatesCounted
  <2>5. QED
    BY <1>6, <2>3, <2>4 DEF SameSet
<1>8. Advanced(e) = Transitioned(candidates[c], Path(c)[j + 1], p, gates, why)
  <2>1. e.candidate = c /\ e.from = Path(c)[j] /\ e.to = Path(c)[j + 1]
    BY DEF Move, Transition
  <2>2. Path(c)[j] = "FALSIFYING" <=> j = 4
    BY DEF Path
  <2>3. j = 4 => Path(c)[j + 1] = Final(c)
    BY DEF Path
  <2> HIDE DEF e
  <2>4. QED
    BY <1>1, <2>1, <2>2, <2>3 DEF Advanced
<1>9. Advanced(e).state = Path(c)[j + 1]
  BY <1>8 DEF Transitioned
<1>10. QED
  BY <1>1, <1>3, <1>5, <1>6, <1>7, <1>8, <1>9

LEMMA TransitionApplies ==
  ASSUME OfOutcomes, case \in 1 .. Cases, NEW p \in DOMAIN Order, NEW j \in Moves,
         NEW n, n = 6 + 4 * (p - 1) + (j - 1), NEW m, m = n + 1, vars = MachineAfter(n)
  PROVE  Reduce(Script(m), m) <=> vars' = MachineAfter(m)
<1> DEFINE c == Order[p]
           from == Path(c)[j]
           to == Path(c)[j + 1]
           e == Move(c, j)
           gates == IF j = 4 THEN GateReport(results[c]) ELSE <<>>
           why == IF j = 4 THEN Why[Final(c)] ELSE "none"
<1>1. /\ n \in 0 .. EventCount - 1 /\ n \in 6 .. EventCount - 4
      /\ m \in 6 .. EventCount - 4 /\ m \in 7 .. EventCount - 4
      /\ n \notin {0, 1, 4, EventCount - 1}
  BY TransitionNumbers DEF Moves
<1>2. /\ Admissible(m, m) /\ runState = "CANDIDATES_RUNNING"
      /\ candidates = CandidatesAfter(n)
      /\ Changes(n) /\ Apply(m, m) <=> vars' = MachineAfter(m)
  BY <1>1, Applying, StatesAfter
<1>3. /\ DOMAIN candidates = Strategies /\ c \in Strategies /\ candidates[c].state = from
      /\ CandidatesAfter(m) = [candidates EXCEPT ![c] = Advanced(e)]
  BY <1>2, CandidatesStep
<1> USE DEF Moves
<1>4. /\ to # from /\ to \in CandidateTransitions[from]
      /\ p \in Operations /\ gates \in GateReports /\ why \in CandidateFailures
      /\ Range(GateNames(gates)) \subseteq Gates
      /\ to = "ELIGIBLE" => SameSet(GateNames(gates), Gates)
      /\ Advanced(e) = Transitioned(candidates[c], to, p, gates, why)
      /\ Advanced(e).state = to
  BY TransitionFits
<1>5. /\ m = 6 + 4 * (p - 1) + j /\ Script(m) = e
      /\ e.candidate = c /\ e.to = to
  <2>1. m = 6 + 4 * (p - 1) + j
    BY TransitionNumbers
  <2>2. QED
    BY <2>1, TransitionIs DEF Move, Transition
<1> HIDE DEF e, from, to, c, gates, why
<1>6. Changes(n) <=>
        /\ commands' = CandidateCommands(c, to) \cup SettlementCommands(to, candidates')
        /\ candidates' = [candidates EXCEPT ![c] = Advanced(e)]
        /\ UNCHANGED <<runState, request, source, checkpoint, verdict, failure, retryCounts>>
  <2>1. StateAfter(m) = "CANDIDATES_RUNNING"
    BY <1>1, StatesAfter
  <2>2. CommandsAfter(m) =
          CandidateCommands(c, to) \cup SettlementCommands(to, CandidatesAfter(m))
    BY <1>1, <1>5, CommandsFor
  <2>3. /\ n # 0 /\ n # 1 /\ n # 4 /\ n # EventCount - 1
    BY <1>1
  <2>4. QED
    BY <1>2, <1>3, <2>1, <2>2, <2>3 DEF Changes
<1>7. request = Request /\ request.hardGates = Gates
  <2>1. n >= 1
    BY <1>1, LastEvent
  <2>2. request = Request
    BY <2>1, MachineIs
  <2>3. QED
    BY <2>2 DEF Request, RequestFor
<1>8. Reduce(Script(m), m) <=>
        /\ candidates[c].state = from
        /\ candidates' = [candidates EXCEPT ![c] = Advanced(e)]
        /\ CandidateTransitioned(m, m)
  BY <1>5, ReduceIs DEF e, Move, from, to
<1>9. ASSUME candidates' = [candidates EXCEPT ![c] = Advanced(e)],
             CandidateTransitioned(m, m)
      PROVE  Changes(n) /\ Apply(m, m)
  <2> PICK d \in DOMAIN candidates :
        \E to2 \in CandidateTransitions[candidates[d].state], op \in Operations \cup {None},
           gates2 \in GateReports, why2 \in CandidateFailures :
          /\ candidates' =
               [candidates EXCEPT ![d] = Transitioned(candidates[d], to2, op, gates2, why2)]
          /\ commands' = CandidateCommands(d, to2) \cup SettlementCommands(to2, candidates')
    BY <1>9 DEF CandidateTransitioned
  <2>1. PICK to2 \in CandidateTransitions[candidates[d].state], op \in Operations \cup {None},
             gates2 \in GateReports, why2 \in CandidateFailures :
          /\ candidates' =
               [candidates EXCEPT ![d] = Transitioned(candidates[d], to2, op, gates2, why2)]
          /\ commands' = CandidateCommands(d, to2) \cup SettlementCommands(to2, candidates')
    OBVIOUS
  <2>2. candidates'[c].state = to /\ to # candidates[c].state
    BY <1>3, <1>4, <1>9
  <2>3. d = c
    BY <1>3, <2>1, <2>2
  <2>4. candidates'[c].state = to2
    BY <1>3, <2>1, <2>3 DEF Transitioned
  <2>5. commands' = CandidateCommands(c, to) \cup SettlementCommands(to, candidates')
    BY <2>1, <2>2, <2>3, <2>4
  <2>6. /\ UNCHANGED <<runState, request, source, checkpoint, verdict, failure, retryCounts>>
        /\ Apply(m, m)
    BY <1>9 DEF CandidateTransitioned
  <2>7. QED
    BY <1>6, <1>9, <2>5, <2>6
<1>10. ASSUME Changes(n), Apply(m, m)
       PROVE  /\ candidates' = [candidates EXCEPT ![c] = Advanced(e)]
              /\ CandidateTransitioned(m, m)
  <2>1. /\ commands' = CandidateCommands(c, to) \cup SettlementCommands(to, candidates')
        /\ candidates' =
             [candidates EXCEPT ![c] = Transitioned(candidates[c], to, p, gates, why)]
        /\ UNCHANGED <<runState, request, source, checkpoint, verdict, failure, retryCounts>>
    BY <1>4, <1>6, <1>10
  <2>2. /\ c \in DOMAIN candidates /\ to \in CandidateTransitions[candidates[c].state]
        /\ p \in Operations \cup {None}
        /\ Range(GateNames(gates)) \subseteq request.hardGates
        /\ to = "ELIGIBLE" => SameSet(GateNames(gates), request.hardGates)
    BY <1>3, <1>4, <1>7
  <2>3. CandidateTransitioned(m, m)
    BY <1>2, <1>4, <1>10, <2>1, <2>2 DEF CandidateTransitioned
  <2>4. QED
    BY <1>6, <1>10, <2>3
<1>11. QED
  BY <1>2, <1>3, <1>8, <1>9, <1>10

LEMMA ClosingNumbers ==
  /\ \A j \in 1 .. 4 : EventCount - 5 + j \in 0 .. EventCount - 1
  /\ EventCount - 4 + 1 = EventCount - 3 /\ EventCount - 3 + 1 = EventCount - 2
  /\ EventCount - 2 + 1 = EventCount - 1 /\ EventCount - 1 + 1 = EventCount
  /\ \A k \in EventCount - 4 .. EventCount :
       /\ k \in 0 .. EventCount /\ k \notin {0, 1, 4} /\ k # 5 /\ ~ (k < 5)
       /\ k >= 1 /\ k >= 2 /\ k >= 5
  /\ \A k \in 2 .. 4 : EventCount - k # EventCount - 1
  /\ \A k \in 0 .. 4 : EventCount - k \in EventCount - 4 .. EventCount
  /\ \A k \in 1 .. 4 : EventCount - k \in 0 .. EventCount - 1
  /\ EventCount >= EventCount - 1 /\ EventCount - 1 >= EventCount - 1
  /\ \A k \in 2 .. 4 : ~ (EventCount - k >= EventCount - 1)
  /\ EventCount - 4 \in 6 .. EventCount - 4
  BY LastEvent

\* When the candidates are evaluated they are all settled; scores are then all that is added.
LEMMA SettledCandidates ==
  ASSUME NEW n \in EventCount - 4 .. EventCount
  PROVE  CandidatesAfter(n) =
           [c \in Strategies |->
              [state |-> Final(c), op |-> Place(c), gates |-> GateReport(results[c]),
               score |-> IF n >= EventCount - 1 THEN Scores[c] ELSE None,
               failure |-> Why[Final(c)]]]
<1>1. ~ (n < 5) /\ n # 5
  BY ClosingNumbers
<1>2. ASSUME NEW c \in Strategies
      PROVE  CandidateAfter(c, n) =
               [state |-> Final(c), op |-> Place(c), gates |-> GateReport(results[c]),
                score |-> IF n >= EventCount - 1 THEN Scores[c] ELSE None,
                failure |-> Why[Final(c)]]
  <2>1. TransitionsOf(c, n) = 4 /\ TransitionsOf(c, n) + 1 = 5 /\ TransitionsOf(c, n) # 0
    BY TransitionsAround
  <2>2. QED
    BY <1>1, <2>1 DEF CandidateAfter
<1>3. QED
  BY <1>1, <1>2 DEF CandidatesAfter

LEMMA EvaluatedApplies ==
  ASSUME OfOutcomes, case \in 1 .. Cases, vars = MachineAfter(EventCount - 4)
  PROVE  Reduce(Script(EventCount - 3), EventCount - 3) <=> vars' = MachineAfter(EventCount - 3)
<1> DEFINE n == EventCount - 4
           m == EventCount - 3
<1>1. /\ n \in 0 .. EventCount - 1 /\ n + 1 = m /\ n \notin {0, 1, 4, EventCount - 1}
      /\ n \in EventCount - 4 .. EventCount /\ m \in EventCount - 4 .. EventCount
      /\ ~ (n >= EventCount - 1) /\ ~ (m >= EventCount - 1)
  BY ClosingNumbers
<1>2. /\ StateAfter(n) = "CANDIDATES_RUNNING" /\ StateAfter(m) = "CANDIDATES_EVALUATED"
      /\ CommandsAfter(m) = {Command("run-final-falsifier")} /\ vars = MachineAfter(n)
  BY ClosingNumbers, StatesAfter, CommandsFor
<1>3. Reduce(Script(m), m) <=> CandidatesEvaluated(m, m)
  BY OtherEvents, ReduceIs
<1> HIDE DEF n, m
<1>4. /\ Admissible(m, m) /\ runState = "CANDIDATES_RUNNING" /\ candidates = CandidatesAfter(n)
      /\ Changes(n) /\ Apply(m, m) <=> vars' = MachineAfter(m)
  BY <1>1, <1>2, Applying
<1>5. CandidatesAfter(m) = candidates
  BY <1>1, <1>4, SettledCandidates
<1>6. Changes(n) <=>
        /\ runState' = "CANDIDATES_EVALUATED" /\ commands' = {Command("run-final-falsifier")}
        /\ OnlyRunState
  BY <1>1, <1>2, <1>5 DEF Changes, OnlyRunState
<1>7. AllTerminal(candidates)
  <2>1. \A c \in DOMAIN candidates : c \in Strategies /\ candidates[c].state = Final(c)
    BY <1>1, <1>4, SettledCandidates
  <2>2. QED
    BY <2>1, SettledParses DEF AllTerminal
<1>8. CandidatesEvaluated(m, m) <=> Changes(n) /\ Apply(m, m)
  BY <1>4, <1>6, <1>7 DEF CandidatesEvaluated
<1>9. QED
  BY <1>3, <1>4, <1>8 DEF m

LEMMA FalsifiedApplies ==
  ASSUME OfOutcomes, case \in 1 .. Cases, vars = MachineAfter(EventCount - 3)
  PROVE  Reduce(Script(EventCount - 2), EventCount - 2) <=> vars' = MachineAfter(EventCount - 2)
<1> DEFINE n == EventCount - 3
           m == EventCount - 2
<1>1. /\ n \in 0 .. EventCount - 1 /\ n + 1 = m /\ n \notin {0, 1, 4, EventCount - 1}
      /\ n \in EventCount - 4 .. EventCount /\ m \in EventCount - 4 .. EventCount
      /\ ~ (n >= EventCount - 1) /\ ~ (m >= EventCount - 1)
  BY ClosingNumbers
<1>2. /\ StateAfter(n) = "CANDIDATES_EVALUATED" /\ StateAfter(m) = "FALSIFIED"
      /\ CommandsAfter(m) = {Command("score-candidates")} /\ vars = MachineAfter(n)
  BY StatesAfter, CommandsFor
<1>3. Reduce(Script(m), m) <=> FalsificationCompleted(m, m)
  BY OtherEvents, ReduceIs
<1> HIDE DEF n, m
<1>4. /\ Admissible(m, m) /\ runState = "CANDIDATES_EVALUATED" /\ candidates = CandidatesAfter(n)
      /\ Changes(n) /\ Apply(m, m) <=> vars' = MachineAfter(m)
  BY <1>1, <1>2, Applying
<1>5. CandidatesAfter(m) = candidates
  BY <1>1, <1>4, SettledCandidates
<1>6. Changes(n) <=>
        /\ runState' = "FALSIFIED" /\ commands' = {Command("score-candidates")}
        /\ OnlyRunState
  BY <1>1, <1>2, <1>5 DEF Changes, OnlyRunState
<1>7. FalsificationCompleted(m, m) <=> Changes(n) /\ Apply(m, m)
  BY <1>4, <1>6 DEF FalsificationCompleted
<1>8. QED
  BY <1>3, <1>4, <1>7 DEF m

-----------------------------------------------------------------------------
(* Ranks and scores                                                        *)

\* The eligible candidates that are ranked before c.
Ahead(c) ==
  {d \in SettledAs("eligible") :
     \/ results[d].duration < results[c].duration
     \/ results[d].duration = results[c].duration /\ Place(d) < Place(c)}

LEMMA RanksCount ==
  ASSUME NEW c \in Strategies
  PROVE  /\ IsFiniteSet(Ahead(c)) /\ Cardinality(Ahead(c)) \in Nat
         /\ Ahead(c) \subseteq Strategies /\ Rank(c) = 1 + Cardinality(Ahead(c))
<1>1. Ahead(c) \subseteq Strategies
  BY DEF Ahead, SettledAs
<1>2. IsFiniteSet(Ahead(c)) /\ Cardinality(Ahead(c)) \in Nat
  BY <1>1, StrategiesFinite, FS_Subset, FS_CardinalityType
<1>3. Rank(c) = 1 + Cardinality(Ahead(c))
  BY DEF Rank, Ahead
<1>4. QED
  BY <1>1, <1>2, <1>3

LEMMA DurationsAndPlaces ==
  ASSUME OfOutcomes, NEW c \in Strategies
  PROVE  results[c].duration \in Int /\ Place(c) \in Nat
  BY PlaceOf, PlacesAndStrategies, DurationsAreWhole DEF OfOutcomes

LEMMA RankAhead ==
  ASSUME OfOutcomes, NEW c \in Strategies, NEW d \in Strategies, c \in Ahead(d)
  PROVE  Rank(c) < Rank(d)
<1>1. \A e \in Strategies : results[e].duration \in Int /\ Place(e) \in Nat
  BY DurationsAndPlaces
<1>2. ASSUME NEW e \in Ahead(c)
      PROVE  e \in Ahead(d) /\ e # c
  <2>1. e \in Strategies
    BY RanksCount
  <2>2. /\ results[e].duration \in Int /\ results[c].duration \in Int
        /\ results[d].duration \in Int
        /\ Place(e) \in Nat /\ Place(c) \in Nat /\ Place(d) \in Nat
    BY <1>1, <2>1
  <2>3. QED
    BY <2>2 DEF Ahead
<1>3. Ahead(c) \cup {c} \subseteq Ahead(d) /\ c \notin Ahead(c)
  BY <1>2
<1>4. Cardinality(Ahead(c) \cup {c}) = Cardinality(Ahead(c)) + 1
  BY <1>3, RanksCount, FS_AddElement
<1>5. Cardinality(Ahead(c) \cup {c}) <= Cardinality(Ahead(d))
  BY <1>3, RanksCount, FS_Subset
<1>6. QED
  BY <1>4, <1>5, RanksCount

LEMMA RanksDiffer ==
  ASSUME OfOutcomes, NEW c \in SettledAs("eligible"), NEW d \in SettledAs("eligible"), c # d
  PROVE  Rank(c) # Rank(d)
<1>1. c \in Strategies /\ d \in Strategies
  BY DEF SettledAs
<1>2. /\ results[c].duration \in Int /\ results[d].duration \in Int
      /\ Place(c) \in Nat /\ Place(d) \in Nat /\ Place(c) # Place(d)
  BY <1>1, DurationsAndPlaces, PlaceOf
<1>3. c \in Ahead(d) \/ d \in Ahead(c)
  BY <1>2 DEF Ahead
<1>4. Rank(c) \in Nat /\ Rank(d) \in Nat
  BY <1>1, RanksCount
<1>5. Rank(c) < Rank(d) \/ Rank(d) < Rank(c)
  BY <1>1, <1>3, RankAhead
<1>6. QED
  BY <1>4, <1>5

LEMMA RankFits ==
  ASSUME OfOutcomes, NEW c \in SettledAs("eligible")
  PROVE  Rank(c) \in Ranks
<1>1. c \in Strategies
  BY DEF SettledAs
<1>2. c \notin Ahead(c)
  <2>1. results[c].duration \in Int /\ Place(c) \in Nat
    BY <1>1, DurationsAndPlaces
  <2>2. QED
    BY <2>1 DEF Ahead
<1>3. Cardinality(Ahead(c) \cup {c}) = Cardinality(Ahead(c)) + 1
  BY <1>1, <1>2, RanksCount, FS_AddElement
<1>4. Ahead(c) \cup {c} \subseteq Strategies
  BY <1>1, RanksCount
<1>5. Cardinality(Ahead(c) \cup {c}) <= Cardinality(Strategies)
  BY <1>4, StrategiesFinite, FS_Subset
<1>6. Cardinality(Strategies) \in Nat
  BY StrategiesFinite, FS_CardinalityType
<1>7. Rank(c) \in 1 .. Cardinality(Strategies)
  BY <1>1, <1>3, <1>5, <1>6, RanksCount
<1>8. QED
  BY <1>7, SchemasAdmitEvents

LEMMA ScoresFit ==
  ASSUME OfOutcomes
  PROVE  /\ Scores \in ScoreLists /\ DOMAIN Scores = Strategies
         /\ EligibleRanksUnique(Scores)
         /\ \A c \in Strategies : Scores[c].eligible <=> settled[c] = "eligible"
<1>1. \A c \in Strategies : /\ Scores[c].eligible = (settled[c] = "eligible")
                            /\ Scores[c].rank = IF settled[c] = "eligible" THEN Rank(c) ELSE None
  BY DEF Scores
<1>2. \A c \in Strategies : settled[c] = "eligible" => c \in SettledAs("eligible")
  BY DEF SettledAs
<1>3. Scores \in [Strategies -> Score]
  <2>1. ASSUME NEW c \in Strategies
        PROVE  Scores[c] \in Score
    <3>1. CASE settled[c] = "eligible"
      <4>1. Scores[c] = [eligible |-> TRUE, rank |-> Rank(c)]
        BY <3>1 DEF Scores
      <4>2. Rank(c) \in Ranks
        BY <1>2, <3>1, RankFits
      <4>3. QED
        BY <4>1, <4>2 DEF Score
    <3>2. CASE settled[c] # "eligible"
      <4>1. Scores[c] = [eligible |-> FALSE, rank |-> None]
        BY <3>2 DEF Scores
      <4>2. QED
        BY <4>1 DEF Score
    <3>3. QED
      BY <3>1, <3>2
  <2>2. QED
    BY <2>1 DEF Scores
<1>4. Scores \in ScoreLists
  BY <1>3 DEF ScoreLists
<1>5. DOMAIN Scores = Strategies
  BY DEF Scores
<1>6. EligibleRanksUnique(Scores)
  <2>1. ASSUME NEW c \in Strategies, Scores[c].eligible
        PROVE  Scores[c].rank # None /\ Scores[c].rank = Rank(c) /\ c \in SettledAs("eligible")
    <3>1. settled[c] = "eligible" /\ Scores[c].rank = Rank(c) /\ c \in SettledAs("eligible")
      BY <1>1, <1>2, <2>1
    <3>2. Rank(c) \in Ranks
      BY <3>1, RankFits
    <3>3. QED
      BY <3>1, <3>2, NoneIsNoValue
  <2> HIDE DEF Scores
  <2>2. QED
    BY <1>5, <2>1, RanksDiffer DEF EligibleRanksUnique
<1>7. QED
  BY <1>1, <1>4, <1>5, <1>6

LEMMA ScoringApplies ==
  ASSUME OfOutcomes, case \in 1 .. Cases, vars = MachineAfter(EventCount - 2)
  PROVE  Reduce(Script(EventCount - 1), EventCount - 1) <=> vars' = MachineAfter(EventCount - 1)
<1> DEFINE n == EventCount - 2
           m == EventCount - 1
<1>1. /\ n \in 0 .. EventCount - 1 /\ n + 1 = m /\ n \notin {0, 1, 4, EventCount - 1}
      /\ n \in EventCount - 4 .. EventCount /\ m \in EventCount - 4 .. EventCount
      /\ ~ (n >= EventCount - 1) /\ m >= EventCount - 1
  BY ClosingNumbers
<1>2. /\ StateAfter(n) = "FALSIFIED" /\ StateAfter(m) = "SCORED"
      /\ CommandsAfter(m) = {Command("decide-verdict")} /\ vars = MachineAfter(n)
  BY StatesAfter, CommandsFor
<1> DEFINE scored == [c \in Strategies |-> [candidates[c] EXCEPT !.score = Scores[c]]]
<1>3. Reduce(Script(m), m) <=> candidates' = scored /\ ScoringCompleted(m, m)
  BY OtherEvents, ReduceIs
<1> HIDE DEF n, m
<1>4. /\ Admissible(m, m) /\ runState = "FALSIFIED" /\ candidates = CandidatesAfter(n)
      /\ Changes(n) /\ Apply(m, m) <=> vars' = MachineAfter(m)
  BY <1>1, <1>2, Applying
<1>5. /\ DOMAIN candidates = Strategies
      /\ \A c \in Strategies : candidates[c].state = Final(c)
      /\ CandidatesAfter(m) = scored
  <2>1. candidates =
          [c \in Strategies |->
             [state |-> Final(c), op |-> Place(c), gates |-> GateReport(results[c]),
              score |-> None, failure |-> Why[Final(c)]]]
    BY <1>1, <1>4, SettledCandidates
  <2>2. CandidatesAfter(m) =
          [c \in Strategies |->
             [state |-> Final(c), op |-> Place(c), gates |-> GateReport(results[c]),
              score |-> Scores[c], failure |-> Why[Final(c)]]]
    BY <1>1, SettledCandidates
  <2>3. QED
    BY <2>1, <2>2
<1> HIDE DEF scored
<1>6. Changes(n) <=>
        /\ runState' = "SCORED" /\ commands' = {Command("decide-verdict")}
        /\ candidates' = scored
        /\ UNCHANGED <<request, source, checkpoint, verdict, failure, retryCounts>>
  BY <1>1, <1>2, <1>5 DEF Changes
<1>7. ScoresMatchGateOutcomes(Scores)
  BY <1>5, ScoresFit, SettledParses DEF ScoresMatchGateOutcomes
<1>8. scored = [c \in DOMAIN candidates |-> [candidates[c] EXCEPT !.score = Scores[c]]]
  BY <1>5 DEF scored
<1>9. candidates' = scored /\ ScoringCompleted(m, m) => Changes(n) /\ Apply(m, m)
  BY <1>6 DEF ScoringCompleted
<1>10. ASSUME Changes(n), Apply(m, m)
       PROVE  candidates' = scored /\ ScoringCompleted(m, m)
  <2>1. /\ candidates' = [c \in DOMAIN candidates |-> [candidates[c] EXCEPT !.score = Scores[c]]]
        /\ Scores \in ScoreLists /\ DOMAIN Scores = DOMAIN candidates
        /\ EligibleRanksUnique(Scores) /\ ScoresMatchGateOutcomes(Scores)
    BY <1>5, <1>6, <1>7, <1>8, <1>10, ScoresFit
  <2>2. \E scores \in ScoreLists :
          /\ DOMAIN scores = DOMAIN candidates
          /\ EligibleRanksUnique(scores)
          /\ ScoresMatchGateOutcomes(scores)
          /\ candidates' =
               [c \in DOMAIN candidates |-> [candidates[c] EXCEPT !.score = scores[c]]]
    BY <2>1, Zenon
  <2>3. QED
    BY <1>4, <1>6, <1>10, <2>2 DEF ScoringCompleted
<1>11. QED
  BY <1>3, <1>4, <1>9, <1>10 DEF m

LEMMA VerdictApplies ==
  ASSUME OfOutcomes, case \in 1 .. Cases, vars = MachineAfter(EventCount - 1)
  PROVE  Reduce(Script(EventCount), EventCount) <=> vars' = MachineAfter(EventCount)
<1> DEFINE n == EventCount - 1
           m == EventCount
<1>1. /\ n \in 0 .. EventCount - 1 /\ n + 1 = m /\ n \notin {0, 1, 4} /\ n = EventCount - 1
      /\ n \in EventCount - 4 .. EventCount /\ m \in EventCount - 4 .. EventCount
      /\ n >= EventCount - 1 /\ m >= EventCount - 1
  BY ClosingNumbers
<1>2. /\ StateAfter(n) = "SCORED" /\ StateAfter(m) = EndOf(evaluated)
      /\ CommandsAfter(m) = {} /\ vars = MachineAfter(n)
  BY StatesAfter, CommandsFor
<1>3. Reduce(Script(m), m) <=>
        verdict' = Verdict /\ (VerdictSelected(m, m) \/ VerdictAbstained(m, m))
  BY OtherEvents, ReduceIs
<1> HIDE DEF n, m
<1>4. /\ Admissible(m, m) /\ runState = "SCORED" /\ candidates = CandidatesAfter(n)
      /\ Changes(n) /\ Apply(m, m) <=> vars' = MachineAfter(m)
  BY <1>1, <1>2, Applying
<1>5. /\ DOMAIN candidates = Strategies
      /\ \A c \in Strategies : candidates[c].state = Final(c)
      /\ CandidatesAfter(m) = candidates
  <2>1. candidates =
          [c \in Strategies |->
             [state |-> Final(c), op |-> Place(c), gates |-> GateReport(results[c]),
              score |-> Scores[c], failure |-> Why[Final(c)]]]
    BY <1>1, <1>4, SettledCandidates
  <2>2. CandidatesAfter(m) =
          [c \in Strategies |->
             [state |-> Final(c), op |-> Place(c), gates |-> GateReport(results[c]),
              score |-> Scores[c], failure |-> Why[Final(c)]]]
    BY <1>1, SettledCandidates
  <2>3. QED
    BY <2>1, <2>2
<1>6. Changes(n) <=>
        /\ runState' = EndOf(evaluated) /\ commands' = {} /\ verdict' = Verdict
        /\ UNCHANGED <<request, source, checkpoint, candidates, failure, retryCounts>>
  BY <1>1, <1>2, <1>5 DEF Changes
<1> DEFINE lists == [eligible |-> SettledAs("eligible"), rejected |-> SettledAs("rejected"),
                     inconclusive |-> SettledAs("inconclusive")]
<1>7. lists \in VerdictLists /\ VerdictListsMatchCandidates(lists)
  <2>1. /\ SettledAs("eligible") = InState({"ELIGIBLE"})
        /\ SettledAs("rejected") = InState({"REJECTED"})
        /\ SettledAs("inconclusive") = InState({"INCONCLUSIVE"})
    BY <1>5, SettledParses DEF SettledAs, InState
  <2>2. lists \in VerdictLists
    BY DEF VerdictLists, SettledAs
  <2>3. QED
    BY <2>1, <2>2 DEF VerdictListsMatchCandidates
<1>8. CASE evaluated.status = "selected"
  <2>1. Verdict = [kind |-> "selected", winner |-> evaluated.winner, lists |-> lists]
    BY <1>8 DEF Verdict
  <2>2. evaluated.winner \in Strategies /\ evaluated.winner \in SettledAs("eligible")
    BY <1>8, WinnerIsEligible DEF SettledAs
  <2>3. evaluated.winner \in InState({"ELIGIBLE"})
    BY <1>5, <2>2, SettledParses DEF SettledAs, InState
  <2>4. Verdict.kind = "selected" /\ EndOf(evaluated) = "SELECTED"
    BY <1>8, <2>1 DEF EndOf
  <2>5. Verdict \in SelectedVerdicts
    BY <1>7, <2>1, <2>2 DEF SelectedVerdicts
  <2>6. VerdictListsMatchCandidates(Verdict.lists) /\ Verdict.winner \in InState({"ELIGIBLE"})
    BY <1>7, <2>1, <2>3
  <2> HIDE DEF lists, Verdict
  <2>7. ~ (verdict' = Verdict /\ VerdictAbstained(m, m))
    BY <2>4 DEF VerdictAbstained, AbstainedVerdicts
  <2>8. verdict' = Verdict /\ VerdictSelected(m, m) => Changes(n) /\ Apply(m, m)
    BY <1>6, <2>4 DEF VerdictSelected
  <2>9. ASSUME Changes(n), Apply(m, m)
        PROVE  verdict' = Verdict /\ VerdictSelected(m, m)
    BY <1>4, <1>6, <2>4, <2>5, <2>6, <2>9 DEF VerdictSelected
  <2>10. QED
    BY <1>3, <1>4, <2>7, <2>8, <2>9 DEF m
<1>9. CASE evaluated.status # "selected"
  <2>1. /\ Verdict.kind = "abstained" /\ Verdict.lists = lists
        /\ Verdict \in AbstainedVerdicts /\ EndOf(evaluated) = "ABSTAINED"
    <3> DEFINE reason == IF SettledAs("eligible") = {} THEN "all-candidates-failed"
                                                      ELSE "no-trustworthy-winner"
    <3>1. Verdict = [kind |-> "abstained", lists |-> lists, reason |-> reason]
      BY <1>9 DEF Verdict
    <3>2. /\ reason \in AbstentionReasons
          /\ reason = "all-candidates-failed" => lists.eligible = {}
      BY DEF AbstentionReasons
    <3>3. EndOf(evaluated) = "ABSTAINED"
      BY <1>9 DEF EndOf
    <3> HIDE DEF lists, reason
    <3>4. QED
      BY <1>7, <3>1, <3>2, <3>3 DEF AbstainedVerdicts
  <2> HIDE DEF lists, Verdict
  <2>2. ~ (verdict' = Verdict /\ VerdictSelected(m, m))
    BY <2>1 DEF VerdictSelected, SelectedVerdicts
  <2>3. verdict' = Verdict /\ VerdictAbstained(m, m) => Changes(n) /\ Apply(m, m)
    BY <1>6, <2>1 DEF VerdictAbstained
  <2>4. ASSUME Changes(n), Apply(m, m)
        PROVE  verdict' = Verdict /\ VerdictAbstained(m, m)
    BY <1>4, <1>6, <1>7, <2>1, <2>4 DEF VerdictAbstained
  <2>5. QED
    BY <1>3, <1>4, <2>2, <2>3, <2>4 DEF m
<1>10. QED
  BY <1>8, <1>9

LEMMA EventApplies ==
  ASSUME OfOutcomes, case \in 1 .. Cases, NEW n \in 0 .. EventCount - 1, vars = MachineAfter(n)
  PROVE  Reduce(Script(n + 1), n + 1) <=> vars' = MachineAfter(n + 1)
<1>1. n + 1 \in 1 .. EventCount
  BY LastEvent
<1>2. CASE n + 1 \in 1 .. 6
  <2>1. n \in 0 .. 5 /\ EventCount \in Nat
    BY <1>2, LastEvent
  <2>2. CASE n = 0
    BY <2>2, RunReceivedApplies
  <2>3. CASE n = 1
    BY <2>3, SourceResolvedApplies
  <2>4. CASE n = 2
    BY <2>4, InventoryApplies
  <2>5. CASE n = 3
    BY <2>5, SpecificationApplies
  <2>6. CASE n = 4
    BY <2>6, CheckpointApplies
  <2>7. CASE n = 5
    BY <2>7, StartApplies
  <2>8. QED
    BY <2>1, <2>2, <2>3, <2>4, <2>5, <2>6, <2>7
<1>3. CASE n + 1 \in EventCount - 3 .. EventCount
  <2>1. \/ n = EventCount - 4 \/ n = EventCount - 3 \/ n = EventCount - 2 \/ n = EventCount - 1
    BY <1>3, LastEvent
  <2>2. CASE n = EventCount - 4
    <3>1. n + 1 = EventCount - 3
      BY <2>2, ClosingNumbers
    <3>2. QED
      BY <2>2, <3>1, EvaluatedApplies, Zenon
  <2>3. CASE n = EventCount - 3
    <3>1. n + 1 = EventCount - 2
      BY <2>3, ClosingNumbers
    <3>2. QED
      BY <2>3, <3>1, FalsifiedApplies, Zenon
  <2>4. CASE n = EventCount - 2
    <3>1. n + 1 = EventCount - 1
      BY <2>4, ClosingNumbers
    <3>2. QED
      BY <2>4, <3>1, ScoringApplies, Zenon
  <2>5. CASE n = EventCount - 1
    <3>1. n + 1 = EventCount
      BY <2>5, ClosingNumbers
    <3>2. QED
      BY <2>5, <3>1, VerdictApplies, Zenon
  <2>6. QED
    BY <2>1, <2>2, <2>3, <2>4, <2>5
<1>4. ASSUME NEW p \in DOMAIN Order, NEW j \in 1 .. 4, n + 1 = 6 + 4 * (p - 1) + j
      PROVE  Reduce(Script(n + 1), n + 1) <=> vars' = MachineAfter(n + 1)
  <2>1. n = 6 + 4 * (p - 1) + (j - 1)
    BY <1>4, PlacesAndStrategies
  <2>2. PICK m : m = n + 1
    OBVIOUS
  <2>3. j \in Moves
    BY DEF Moves
  <2>4. Reduce(Script(m), m) <=> vars' = MachineAfter(m)
    BY <2>1, <2>2, <2>3, TransitionApplies, Zenon
  <2>5. QED
    BY <2>2, <2>4
<1>5. QED
  BY <1>1, <1>2, <1>3, <1>4, EventNumbers

-----------------------------------------------------------------------------
(* The machine along the driver                                            *)

LEMMA MachineStays ==
  ASSUME UNCHANGED <<case, results, settled, evaluated>>, NEW n
  PROVE  MachineAfter(n)' = MachineAfter(n)
<1>1. Request' = Request /\ Verdict' = Verdict
  BY DEF Request, Verdict, SettledAs
<1>2. StateAfter(n)' = StateAfter(n)
  BY DEF StateAfter, EndOf
<1>3. \A c : Final(c)' = Final(c) /\ Place(c)' = Place(c) /\ Rank(c)' = Rank(c)
  BY DEF Final, Place, Rank, SettledAs
<1>4. Scores' = Scores
  BY <1>3 DEF Scores
<1>5. \A c : TransitionsOf(c, n)' = TransitionsOf(c, n)
                /\ GateReport(results[c])' = GateReport(results[c])
  BY DEF TransitionsOf, Place
<1>6. \A c : CandidateAfter(c, n)' = CandidateAfter(c, n)
  BY <1>3, <1>4, <1>5 DEF CandidateAfter
<1>7. CandidatesAfter(n)' = CandidatesAfter(n)
  BY <1>6 DEF CandidatesAfter
<1>8. \A c : CandidateEvents(c)' = CandidateEvents(c)
  BY <1>3 DEF CandidateEvents
<1>9. Script(n)' = Script(n)
  BY <1>8 DEF Script
<1>10. CommandsAfter(n)' = CommandsAfter(n)
  BY <1>7, <1>9 DEF CommandsAfter
<1>11. QED
  BY <1>1, <1>2, <1>7, <1>10 DEF MachineAfter

\* What DriverInv says of the case and of the events that are still due.
LEMMA EventsDue ==
  ASSUME DriverInv, VerdictInv, step \in AfterMeasuring
  PROVE  /\ OfOutcomes /\ case \in 1 .. Cases
         /\ step = "reducing" => lastEventId \in 0 .. EventCount - 1
<1>1. OfOutcomes /\ case \in 1 .. Cases /\ lastEventId \in Nat
  BY DEF DriverInv, DriverTypeOK, VerdictInv
<1>2. step = "reducing" => lastEventId < EventCount
  BY DEF DriverInv, FilesInStep
<1>3. QED
  BY <1>1, <1>2, LastEvent

\* The reducer applies every event the driver derives, and makes of the machine exactly what
\* is expected: the action holds of the step to MachineAfter, so that it is never refused.
THEOREM EveryEventApplies ==
  ASSUME DriverInv, VerdictInv, ScriptInv, step = "reducing"
  PROVE  Reduce(Script(lastEventId + 1), lastEventId + 1) <=>
           vars' = MachineAfter(lastEventId + 1)
<1>1. step \in AfterMeasuring
  BY DEF AfterMeasuring
<1>2. vars = MachineAfter(lastEventId)
  BY <1>1 DEF ScriptInv
<1>3. OfOutcomes /\ case \in 1 .. Cases /\ lastEventId \in 0 .. EventCount - 1
  BY <1>1, EventsDue
<1>4. QED
  BY <1>2, <1>3, EventApplies

LEMMA ScriptInit == DriverInit => ScriptInv
  BY DEF DriverInit, ScriptInv, AfterMeasuring

LEMMA ScriptKept ==
  ASSUME ScriptInv, UNCHANGED <<vars, case, measured>>,
         step' \in AfterMeasuring => step \in AfterMeasuring
  PROVE  ScriptInv'
<1>1. SUFFICES ASSUME step' \in AfterMeasuring
               PROVE  vars' = MachineAfter(lastEventId)'
  BY DEF ScriptInv, AfterMeasuring
<1>2. vars = MachineAfter(lastEventId) /\ lastEventId' = lastEventId
  BY <1>1 DEF ScriptInv, vars, machineVars
<1>3. MachineAfter(lastEventId)' = MachineAfter(lastEventId)
  BY <1>2, MachineStays DEF measured
<1>4. QED
  BY <1>2, <1>3

LEMMA ScriptStepKeeps ==
  ASSUME ScriptInv,
         \/ Call \/ TakeSmoke \/ AppendEvent \/ WriteSnapshot \/ CheckReplay
         \/ WriteManifest \/ WriteSummary \/ WriteSuite \/ Fail
         \/ UNCHANGED <<vars, driverVars>>
  PROVE  ScriptInv'
<1>1. UNCHANGED <<vars, case, measured>>
  BY DEF Call, TakeSmoke, AppendEvent, WriteSnapshot, CheckReplay, WriteManifest, WriteSummary,
         WriteSuite, Fail, Writes, Throws, Goes, Keeps, driverVars
<1>2. step' \in AfterMeasuring => step \in AfterMeasuring
  BY DEF Call, TakeSmoke, AppendEvent, WriteSnapshot, CheckReplay, WriteManifest, WriteSummary,
         WriteSuite, Fail, Writes, Throws, Goes, driverVars, AfterMeasuring
<1>3. QED
  BY <1>1, <1>2, ScriptKept

LEMMA EndCaseIsAfter == EndCase => ScriptInv'
<1>1. EndCase => step' \notin AfterMeasuring
  BY DEF EndCase, Goes, Throws, AfterMeasuring
<1>2. QED
  BY <1>1 DEF ScriptInv, AfterMeasuring

LEMMA MeasureStarts == Measure => ScriptInv'
<1>1. SUFFICES ASSUME Measure
               PROVE  vars' = MachineAfter(lastEventId)'
  BY DEF ScriptInv
<1>2. /\ runState' = "NONE" /\ request' = None /\ source' = None /\ checkpoint' = None
      /\ candidates' = EmptyFunction /\ verdict' = NoVerdict /\ failure' = "none"
      /\ lastEventId' = 0 /\ processedEventKeys' = EmptyFunction
      /\ retryCounts' = [s \in Stages |-> 0] /\ commands' = {}
  BY <1>1 DEF Measure
<1>3. EmptyFunction = [k \in 1 .. 0 |-> k]
  <2>1. 1 .. 0 = {}
    OBVIOUS
  <2>2. QED
    BY <2>1 DEF EmptyFunction
<1>4. vars' = <<"NONE", None, None, None, EmptyFunction, NoVerdict, "none",
                <<0, EmptyFunction>>, [s \in Stages |-> 0], {}>>
  BY <1>2 DEF vars, machineVars
<1>5. /\ StateAfter(0)' = "NONE" /\ CandidatesAfter(0)' = EmptyFunction
      /\ CommandsAfter(0)' = {} /\ 0 # EventCount
  BY LastEvent DEF StateAfter, CandidatesAfter, CommandsAfter
<1>6. MachineAfter(0)' = <<"NONE", None, None, None, EmptyFunction, NoVerdict, "none",
                           <<0, EmptyFunction>>, [s \in Stages |-> 0], {}>>
  BY <1>3, <1>5 DEF MachineAfter
<1>7. MachineAfter(lastEventId)' = MachineAfter(0)'
  BY <1>2
<1>8. QED
  BY <1>4, <1>6, <1>7

LEMMA ReduceEventFollows ==
  ASSUME DriverInv, VerdictInv, ScriptInv, ReduceEvent
  PROVE  ScriptInv'
<1>1. /\ step = "reducing" /\ Reduce(Script(lastEventId + 1), lastEventId + 1)
      /\ UNCHANGED <<case, results, settled, evaluated>>
  BY DEF ReduceEvent, Goes, Keeps, measured
<1>2. vars' = MachineAfter(lastEventId + 1)
  BY <1>1, EveryEventApplies
<1>3. lastEventId' = lastEventId + 1
  BY <1>2, MachineBecomes
<1>4. PICK m : m = lastEventId + 1
  OBVIOUS
<1>5. MachineAfter(m)' = MachineAfter(m)
  BY <1>1, MachineStays
<1>6. vars' = MachineAfter(lastEventId)'
  BY <1>2, <1>3, <1>4, <1>5
<1>7. QED
  BY <1>6 DEF ScriptInv

\* After its n-th event the machine is what the outcomes of the branches make of it.
THEOREM ScriptInvariant == DriverSpec => []ScriptInv
<1>1. DriverInv /\ VerdictInv /\ ScriptInv /\ [DriverNext]_<<vars, driverVars>> => ScriptInv'
  BY ScriptStepKeeps, EndCaseIsAfter, MeasureStarts, ReduceEventFollows DEF DriverNext
<1>2. QED
  BY ScriptInit, <1>1, DriverInvariant, VerdictInvariant, PTL DEF DriverSpec

-----------------------------------------------------------------------------
(* The driver uses the reducer as it may be used                           *)

\* Event n + 1 of the script is one of the reducer's events, under an envelope of its own.
LEMMA ReduceIsForward ==
  ASSUME NEW e, NEW n, Reduce(e, n)
  PROVE  Forward(n, n)
  BY DEF Reduce, Forward

\* A step of the driver is an event of the reducer, begins a run with a new machine, or leaves
\* the machine alone.
LEMMA DriverSteps ==
  ASSUME DriverInv, [DriverNext]_<<vars, driverVars>>
  PROVE  \/ \E n \in 1 .. EventCount : Forward(n, n)
         \/ Init'
         \/ UNCHANGED vars
<1>1. CASE ReduceEvent
  <2>1. step = "reducing" /\ Reduce(Script(lastEventId + 1), lastEventId + 1)
    BY <1>1 DEF ReduceEvent, Goes
  <2>2. lastEventId \in Nat /\ lastEventId < EventCount
    BY <2>1 DEF DriverInv, DriverTypeOK, FilesInStep, AfterMeasuring
  <2>3. lastEventId + 1 \in 1 .. EventCount
    BY <2>2, LastEvent
  <2>4. QED
    BY <2>1, <2>3, ReduceIsForward
<1>2. CASE Measure
  BY <1>2 DEF Measure, Init
<1>3. CASE \/ Call \/ TakeSmoke \/ AppendEvent \/ WriteSnapshot \/ CheckReplay
           \/ WriteManifest \/ WriteSummary \/ EndCase \/ WriteSuite \/ Fail
           \/ UNCHANGED <<vars, driverVars>>
  BY <1>3 DEF Call, TakeSmoke, AppendEvent, WriteSnapshot, CheckReplay, WriteManifest,
              WriteSummary, EndCase, WriteSuite, Fail, Writes, Throws
<1>4. QED
  BY <1>1, <1>2, <1>3 DEF DriverNext

\* The driver asks of the reducer nothing but events that it may be given: every step of the
\* driver is one of the reducer's, or begins a run.
THEOREM DriverIsLawful == DriverSpec => [][Next \/ Init']_vars
<1>1. DriverInv /\ [DriverNext]_<<vars, driverVars>> => [Next \/ Init']_vars
  <2> SUFFICES ASSUME DriverInv, [DriverNext]_<<vars, driverVars>>, ~ UNCHANGED vars
               PROVE  Next \/ Init'
    OBVIOUS
  <2>1. CASE \E n \in 1 .. EventCount : Forward(n, n)
    <3>1. PICK n \in 1 .. EventCount : Forward(n, n)
      BY <2>1
    <3>2. <<n, n>> \in Envelopes /\ <<n, n>>[1] = n /\ <<n, n>>[2] = n
      BY EventsAreNumbered
    <3>3. QED
      BY <3>1, <3>2 DEF Next
  <2>2. QED
    BY <2>1, DriverSteps
<1>2. QED
  BY <1>1, DriverInvariant, PTL DEF DriverSpec

\* So that all that was proved of the reducer holds of the runs the driver makes, one after
\* the other.
THEOREM RunsAreSound == DriverSpec => []RunInv
<1>1. DriverInit => RunInv
  BY RunInvInitially DEF DriverInit
<1>2. RunInv /\ [Next \/ Init']_vars => RunInv'
  <2> SUFFICES ASSUME RunInv, [Next \/ Init']_vars PROVE RunInv'
    OBVIOUS
  <2>1. CASE [Next]_vars
    <3>1. TypeOK'
      BY <2>1, TypesKept DEF RunInv
    <3>2. QED
      BY <2>1, <3>1, RunInvKept
  <2>2. Init' => RunInv'
    BY RunInvInitially, PTL
  <2>3. QED
    BY <2>1, <2>2
<1>3. QED
  BY <1>1, <1>2, DriverIsLawful, PTL DEF DriverSpec

\* The winner of a live run has passed every gate of its report, with every rival settled.
THEOREM LiveSelectionIsSound == DriverSpec => []SelectionSound
  BY RunsAreSound, SelectionFollows, PTL

\* The verdict of a live run accounts for every strategy exactly once.
THEOREM LiveVerdictsPartition == DriverSpec => []OutcomesPartition
  BY RunsAreSound, PartitionFollows, PTL

\* What the contract of a run promises holds of each run of the driver: a live run enters its
\* strategies once, settles each once, judges after the last, and selects one of the eligible;
\* then the next run begins.
THEOREM LiveRunsKeepTheContract ==
  DriverSpec =>
    Contract!Init /\ [][Contract!Next \/ (Contract!Init)']_(Contract!contractVars)
<1>1. DriverInit => Contract!Init
  BY InitMaps DEF DriverInit
<1>2. RunInv /\ RunInv' /\ DriverInv /\ [DriverNext]_<<vars, driverVars>>
        => [Contract!Next \/ (Contract!Init)']_(Contract!contractVars)
  <2> SUFFICES ASSUME RunInv, RunInv', DriverInv, [DriverNext]_<<vars, driverVars>>
               PROVE  [Contract!Next \/ (Contract!Init)']_(Contract!contractVars)
    OBVIOUS
  <2>1. CASE \E n \in 1 .. EventCount : Forward(n, n)
    <3>1. PICK n \in 1 .. EventCount : Forward(n, n)
      BY <2>1
    <3>2. [Contract!Next]_(Contract!contractVars)
      BY <3>1, StepMaps
    <3>3. QED
      BY <3>2
  <2>2. Init' => (Contract!Init)'
    BY InitMaps, PTL
  <2>3. CASE UNCHANGED vars
    BY <2>3 DEF vars, machineVars, Contract!contractVars
  <2>4. QED
    BY <2>1, <2>2, <2>3, DriverSteps
<1>3. QED
  BY <1>1, <1>2, RunsAreSound, DriverInvariant, PTL DEF DriverSpec

-----------------------------------------------------------------------------
(* The driver uses the evidence store as it may be used                    *)

\* Steps that leave the files of the observed case alone.
LEMMA NothingOnRecord ==
  ASSUME UNCHANGED disk[Observed]
  PROVE  UNCHANGED Record!contractVars
  BY DEF Record!contractVars, StoredRun, Manifest

\* What a step does to the files: nothing, or the one write it is about.
LEMMA FilesWritten ==
  ASSUME DriverInv, [DriverNext]_<<vars, driverVars>>
  PROVE  UNCHANGED disk \/ disk' = [disk EXCEPT ![case] = Writing(@)]
  BY DEF DriverNext, Call, TakeSmoke, Measure, ReduceEvent, AppendEvent, WriteSnapshot, CheckReplay,
         WriteManifest, WriteSummary, EndCase, WriteSuite, Fail, Writes, driverVars

\* The lines of a log with one more event.
LEMMA OneMoreLine ==
  ASSUME NEW n \in Nat
  PROVE  /\ Lines(n) \in Seq([id : Nat, key : Nat]) /\ Len(Lines(n)) = n
         /\ Append(Lines(n), [id |-> n + 1, key |-> n + 1]) = Lines(n + 1)
<1>1. Lines(n) \in Seq([id : Nat, key : Nat]) /\ Len(Lines(n)) = n
  BY DEF Lines
<1>2. Append(Lines(n), [id |-> n + 1, key |-> n + 1]) = Lines(n + 1)
  BY <1>1 DEF Lines
<1>3. QED
  BY <1>1, <1>2

\* The snapshot of a run that has ended, as it is stored.
LEMMA EndedRunStored ==
  ASSUME DriverInv, RunInv, step \in AfterMeasuring \ {"reducing", "appending"}
  PROVE  /\ [state |-> runState, verdict |-> verdict, source |-> Observed] \in Snapshots
         /\ [state |-> runState, verdict |-> verdict, source |-> Observed] # None
         /\ Stored # None /\ Observed # None
<1>1. runState \in Ends
  BY DEF DriverInv, RunEnded, EndOf, Ends
<1>2. verdict \in Verdicts
  BY <1>1 DEF RunInv, TypeOK, RunParses, NoVerdict, Verdicts, Ends
<1>3. Observed # None
  BY ObservedIsACase, SchemasAdmitEvents, NoneIsNoValue
<1>4. QED
  BY <1>1, <1>2, <1>3, NoneIsNoSnapshot DEF Snapshots, Stored

\* The write a step is about is a step of the contract.
LEMMA WritesOnRecord ==
  ASSUME DriverInv, RunInv, case = Observed, disk' = [disk EXCEPT ![case] = Writing(@)]
  PROVE  [Record!Next]_(Record!contractVars)
<1> DEFINE d == disk[Observed]
           n == lastEventId - 1
           e == [id |-> lastEventId, key |-> lastEventId]
<1>1. d' = Writing(d)
  BY ObservedIsACase DEF DriverInv, DriverTypeOK
<1>2. CASE step = "appending"
  <2>1. /\ d = [logged |-> n, snapshot |-> None, manifest |-> 0, summary |-> NoSummary]
        /\ lastEventId \in 1 .. EventCount
    BY <1>2 DEF DriverInv, FilesInStep
  <2>2. d' = [d EXCEPT !.logged = @ + 1]
    BY <1>1, <1>2 DEF Writing
  <2>3. n \in Nat /\ lastEventId = n + 1 /\ d'.logged = lastEventId /\ d.logged = n
    BY <2>1, <2>2, LastEvent
  <2>4. StoredRun = None /\ StoredRun' = None /\ Manifest = None /\ Manifest' = None
    BY <2>1, <2>2 DEF StoredRun, Manifest
  <2>5. Lines(lastEventId) = Append(Lines(n), e) /\ Len(Lines(n)) = n
        /\ Lines(n) \in Seq([id : Nat, key : Nat])
    BY <2>3, OneMoreLine
  <2>6. \A i \in DOMAIN Lines(n) : Lines(n)[i].key # e.key
    BY <2>3 DEF Lines
  <2>7. Record!Commit(e)
    BY <2>3, <2>4, <2>5, <2>6 DEF Record!Commit
  <2>8. e \in [id : 1 .. EventCount, key : 1 .. EventCount]
    BY <2>1
  <2>9. QED
    BY <2>7, <2>8 DEF Record!Next
<1>3. CASE step = "snapshot"
  <2>1. d = [logged |-> EventCount, snapshot |-> None, manifest |-> 0, summary |-> NoSummary]
    BY <1>3 DEF DriverInv, FilesInStep
  <2>2. d' = [d EXCEPT !.snapshot = Stored]
    BY <1>1, <1>3 DEF Writing, Stored
  <2>3. PICK s : s = [state |-> runState, verdict |-> verdict, source |-> Observed]
    OBVIOUS
  <2>4. s \in Snapshots /\ Stored # None
    BY <1>3, <2>3, EndedRunStored DEF AfterMeasuring
  <2>5. StoredRun' = s /\ Manifest = None /\ Manifest' = None
    BY <2>1, <2>2, <2>3, <2>4 DEF StoredRun, Manifest, Stored
  <2>6. Record!Store(s)
    BY <2>1, <2>2, <2>5 DEF Record!Store
  <2>7. QED
    BY <2>4, <2>6 DEF Record!Next
<1>4. CASE step = "manifest"
  <2>1. d = [logged |-> EventCount, snapshot |-> Stored, manifest |-> 0, summary |-> NoSummary]
    BY <1>4 DEF DriverInv, FilesInStep
  <2>2. d' = [d EXCEPT !.manifest = d.logged]
    BY <1>1, <1>4 DEF Writing
  <2>3. StoredRun' = StoredRun /\ Lines(d'.logged) = Lines(d.logged)
    BY <2>1, <2>2 DEF StoredRun
  <2>4. Manifest' = [log |-> Lines(EventCount), count |-> EventCount, snapshot |-> StoredRun,
                     artifacts |-> {}]
    BY <2>1, <2>2, <2>3, LastEvent DEF Manifest
  <2>5. EventCount \in Nat /\ EventCount >= 10
    BY LastEvent
  <2>6. Len(Lines(EventCount)) = EventCount
    BY <2>5, OneMoreLine
  <2>7. Lines(EventCount) # <<>>
    BY <2>5, <2>6
  <2>8. Stored # None
    BY <1>4, EndedRunStored DEF AfterMeasuring
  <2>9. StoredRun = [state |-> runState, verdict |-> verdict, source |-> Observed]
    BY <2>1, <2>8 DEF StoredRun, Stored
  <2>10. StoredRun # None /\ StoredRun.source # None
    BY <1>4, <2>9, EndedRunStored DEF AfterMeasuring
  <2>11. /\ Lines(disk[Observed].logged) = Lines(EventCount)
         /\ Lines(disk[Observed].logged)' = Lines(EventCount)
         /\ DOMAIN [h \in {} |-> None] = {}
    BY <2>1, <2>3
  <2>12. Record!Seal
    BY <2>3, <2>4, <2>6, <2>7, <2>10, <2>11 DEF Record!Seal
  <2>13. QED
    BY <2>12 DEF Record!Next
<1>5. CASE step \notin {"appending", "snapshot", "manifest"}
  <2>1. d'.logged = d.logged /\ d'.snapshot = d.snapshot /\ d'.manifest = d.manifest
    BY <1>1, <1>5 DEF Writing
  <2>2. QED
    BY <2>1 DEF Record!contractVars, StoredRun, Manifest
<1>6. QED
  BY <1>2, <1>3, <1>4, <1>5

\* What the driver writes to the files of a case, whichever one and wherever it is cut off, is a
\* behaviour of the contract that the store implements.
THEOREM DriverKeepsRecord == DriverSpec => DriverRecordSpec
<1>1. DriverInit => Record!Init
  <2>1. DriverInit => disk[Observed] = NoFiles
    BY ObservedIsACase DEF DriverInit
  <2>2. Lines(0) = <<>>
    BY DEF Lines
  <2>3. QED
    BY <2>1, <2>2 DEF Record!Init, StoredRun, Manifest, NoFiles
<1>2. DriverInv /\ RunInv /\ [DriverNext]_<<vars, driverVars>>
        => [Record!Next]_(Record!contractVars)
  <2> SUFFICES ASSUME DriverInv, RunInv, [DriverNext]_<<vars, driverVars>>
               PROVE  [Record!Next]_(Record!contractVars)
    OBVIOUS
  <2>1. CASE UNCHANGED disk[Observed]
    BY <2>1, NothingOnRecord
  <2>2. CASE disk' = [disk EXCEPT ![case] = Writing(@)] /\ case = Observed
    BY <2>2, WritesOnRecord
  <2>3. CASE disk' = [disk EXCEPT ![case] = Writing(@)] /\ case # Observed
    <3>1. UNCHANGED disk[Observed]
      BY <2>3
    <3>2. QED
      BY <3>1, NothingOnRecord
  <2>4. QED
    BY <2>1, <2>2, <2>3, FilesWritten
<1>3. QED
  BY <1>1, <1>2, DriverInvariant, RunsAreSound, PTL DEF DriverSpec, DriverRecordSpec, Record!Spec
=============================================================================
