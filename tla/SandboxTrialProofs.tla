-------------------------- MODULE SandboxTrialProofs --------------------------
(***************************************************************************)
(* Proofs about SandboxTrial, for any set of branches: TrialInv is an      *)
(* inductive invariant, and the safety properties follow from it.          *)
(***************************************************************************)
EXTENDS SandboxTrial, TLAPS

-----------------------------------------------------------------------------
(* Types *)

\* The initial state satisfies the invariant.
LEMMA TrialInvInitially == Init => TrialInv
  BY JobsDiffer, NoneIsNoValue
     DEF Init, TrialInv, TypeOK, CallsInStep, CheckpointMade, SeenEnded, BranchesKept,
         SummaryInStep, Calls, Jobs, Forked, CallStates, Phases, Images, Operating

\* A step of one call keeps the types.
LEMMA CallsKeepTypes ==
  ASSUME TrialInv, NEW j \in Jobs,
         \/ Spawned(j) \/ SpawnFails(j) \/ SeesEnd(j) \/ WaitFails(j)
         \/ Finish(j) \/ ReadFails(j) \/ Cancel(j) \/ CancelFails(j)
  PROVE  TypeOK'
<1>1. CASE Spawned(j)
  BY <1>1, NoneIsNoValue DEF Spawned, Moves, TrialInv, TypeOK, CallStates, Operating
<1>2. CASE SpawnFails(j)
  BY <1>2 DEF SpawnFails, Moves, TrialInv, TypeOK, CallStates
<1>3. CASE SeesEnd(j) \/ WaitFails(j)
  BY <1>3 DEF SeesEnd, WaitFails, Moves, TrialInv, TypeOK, CallStates
<1>4. CASE Finish(j) \/ ReadFails(j) \/ Cancel(j) \/ CancelFails(j)
  BY <1>4 DEF Finish, ReadFails, Cancel, CancelFails, Moves, TrialInv, TypeOK, CallStates
<1>5. QED
  BY <1>1, <1>2, <1>3, <1>4

\* A step of the service keeps the types.
LEMMA ServiceKeepsTypes == TrialInv /\ Service => TypeOK'
  BY DEF Service, Accept, End, TrialInv, TypeOK, Operating

\* A step of the trial keeps the types.
LEMMA TrialKeepsTypes ==
  ASSUME TrialInv,
         \/ BeginCheckpoint \/ CheckpointReady \/ CheckpointFails
         \/ BranchesSpawned \/ CommandTooLong \/ CleanUp \/ BranchesRejected
         \/ SingleShotSpawned \/ Unidentified \/ SingleShotRejected \/ Abandoned
         \/ BranchesFinished \/ Record \/ RecordFails
  PROVE  TypeOK'
<1>1. CASE BeginCheckpoint
  BY <1>1, JobsDiffer DEF BeginCheckpoint, Post, Become, TrialInv, TypeOK, CallsInStep, Calls,
     CallStates, Phases, Operating, Jobs
<1>2. CASE CheckpointReady
  BY <1>2, JobsDiffer DEF CheckpointReady, Post, Become, TrialInv, TypeOK, CallsInStep, Calls,
     CallStates, Phases, Operating, Jobs, Forked
<1>4. CASE BranchesSpawned
  BY <1>4, JobsDiffer DEF BranchesSpawned, Post, Become, TrialInv, TypeOK, CallsInStep, Calls,
     CallStates, Phases, Operating, Jobs, Forked
<1>5. CASE CleanUp
  BY <1>5, JobsDiffer DEF CleanUp, Group, Become, TrialInv, TypeOK, CallsInStep, Calls,
     CallStates, Phases, Jobs, Forked
<1>6. CASE SingleShotRejected
  BY <1>6, JobsDiffer DEF SingleShotRejected, Rejection, Become, TrialInv, TypeOK, CallsInStep,
     Calls, CallStates, Phases, Jobs, Forked
<1>7. CASE SingleShotSpawned
  BY <1>7, JobsDiffer DEF SingleShotSpawned, SpawnsSettled, SpawnsFailed, Group, Become, TrialInv,
     TypeOK, CallsInStep, Calls, CallStates, Phases, Jobs, Forked
<1>3. CASE CheckpointFails \/ CommandTooLong \/ BranchesRejected \/ Unidentified \/ Abandoned
             \/ BranchesFinished \/ Record \/ RecordFails
  BY <1>3 DEF CheckpointFails, CommandTooLong, BranchesRejected, Unidentified, Abandoned,
     BranchesFinished, Record, RecordFails, Throw, Rejection, TrialInv, TypeOK, Phases,
     CleanupComplete
<1>8. QED
  BY <1>1, <1>2, <1>3, <1>4, <1>5, <1>6, <1>7

-----------------------------------------------------------------------------
(* The calls keep in step with the phase *)

\* A step of one call leaves the phase alone, and the phase leaves it only calls that
\* are in the states it allows.
LEMMA CallsStayInStep ==
  ASSUME TrialInv, NEW j \in Jobs,
         \/ Spawned(j) \/ SpawnFails(j) \/ SeesEnd(j) \/ WaitFails(j)
         \/ Finish(j) \/ ReadFails(j) \/ Cancel(j) \/ CancelFails(j)
  PROVE  CallsInStep'
<1>1. CASE Spawned(j)
  BY <1>1, JobsDiffer DEF Spawned, Moves, TrialInv, TypeOK, CallsInStep, Calls, Spawns, Cleanups, Over,
     Settled, Finishing, Pending, CallStates, Jobs, Forked
<1>2. CASE SpawnFails(j)
  BY <1>2, JobsDiffer DEF SpawnFails, Moves, TrialInv, TypeOK, CallsInStep, Calls, Spawns, Cleanups, Over,
     Settled, Finishing, Pending, CallStates, Jobs, Forked
<1>3. CASE SeesEnd(j)
  BY <1>3, JobsDiffer DEF SeesEnd, Moves, TrialInv, TypeOK, CallsInStep, Calls, Spawns, Cleanups, Over,
     Settled, Finishing, Pending, CallStates, Jobs, Forked
<1>4. CASE WaitFails(j)
  BY <1>4, JobsDiffer DEF WaitFails, Moves, TrialInv, TypeOK, CallsInStep, Calls, Spawns, Cleanups, Over,
     Settled, Finishing, Pending, CallStates, Jobs, Forked
<1>5. CASE Finish(j) \/ ReadFails(j)
  BY <1>5, JobsDiffer DEF Finish, ReadFails, Moves, TrialInv, TypeOK, CallsInStep, Calls, Spawns, Cleanups,
     Over, Settled, Finishing, Pending, CallStates, Jobs, Forked
<1>6. CASE Cancel(j) \/ CancelFails(j)
  BY <1>6, JobsDiffer DEF Cancel, CancelFails, Moves, TrialInv, TypeOK, CallsInStep, Calls, Spawns, Cleanups,
     Over, Settled, Finishing, Pending, CallStates, Jobs, Forked
<1>7. QED
  BY <1>1, <1>2, <1>3, <1>4, <1>5, <1>6

\* A step of the trial takes the calls to where its next phase wants them.
LEMMA TrialKeepsStep ==
  ASSUME TrialInv,
         \/ BeginCheckpoint \/ CheckpointReady \/ CheckpointFails
         \/ BranchesSpawned \/ CommandTooLong \/ CleanUp \/ BranchesRejected
         \/ SingleShotSpawned \/ Unidentified \/ SingleShotRejected \/ Abandoned
         \/ BranchesFinished \/ Record \/ RecordFails
  PROVE  CallsInStep'
<1> USE JobsDiffer DEF TrialInv, TypeOK, CallsInStep, Calls, Jobs, Forked
<1>1. CASE BeginCheckpoint
  BY <1>1 DEF BeginCheckpoint, Post, Become
<1>2. CASE CheckpointReady
  BY <1>2 DEF CheckpointReady, Post, Become, Spawns
<1>3. CASE CheckpointFails
  BY <1>3 DEF CheckpointFails, Throw, Pending
<1>4. CASE BranchesSpawned
  BY <1>4 DEF BranchesSpawned, SpawnsSettled, SpawnsFailed, Group, Post, Become, Spawns
<1>5. CASE CommandTooLong
  BY <1>5 DEF CommandTooLong, SpawnsSettled, SpawnsFailed, Group, Throw, Pending, CheckpointMade
<1>6. CASE CleanUp
  BY <1>6 DEF CleanUp, Spawning, SpawnsSettled, Group, Become, Cleanups
<1>7. CASE BranchesRejected
  BY <1>7 DEF BranchesRejected, CleanedUp, Group, Throw, Pending, CheckpointMade
<1>8. CASE SingleShotSpawned
  BY <1>8 DEF SingleShotSpawned, SpawnsSettled, SpawnsFailed, Group, Become, Finishing
<1>9. CASE Unidentified
  BY <1>9 DEF Unidentified, SpawnsSettled, SpawnsFailed, Group, Throw, Pending, CheckpointMade
<1>10. CASE SingleShotRejected
  BY <1>10 DEF SingleShotRejected, CleanedUp, Group, Become, Cleanups, Over
<1>11. CASE Abandoned
  BY <1>11 DEF Abandoned, Throw, Over, Pending, CheckpointMade
<1>12. CASE BranchesFinished
  BY <1>12 DEF BranchesFinished, Settled
<1>13. CASE Record \/ RecordFails
  BY <1>13 DEF Record, RecordFails, Throw, Settled, Pending, CheckpointMade
<1>14. QED
  BY <1>1, <1>2, <1>3, <1>4, <1>5, <1>6, <1>7, <1>8, <1>9, <1>10, <1>11, <1>12, <1>13

-----------------------------------------------------------------------------
(* What a step of one call leaves as it was *)

\* The image of the checkpoint stays made: nothing is left to do for its operation, and
\* operations that have ended stay so.
LEMMA CallsKeepCheckpoint ==
  ASSUME TrialInv, NEW j \in Jobs,
         \/ Spawned(j) \/ SpawnFails(j) \/ SeesEnd(j) \/ WaitFails(j)
         \/ Finish(j) \/ ReadFails(j) \/ Cancel(j) \/ CancelFails(j)
  PROVE  CheckpointMade'
BY JobsDiffer DEF Spawned, SpawnFails, SeesEnd, WaitFails, Finish, ReadFails, Cancel, CancelFails,
   Moves, TrialInv, TypeOK, CheckpointMade, Jobs

\* A call counts its operation as ended only by SeesEnd, which checks it.
LEMMA CallsSeeEnds ==
  ASSUME TrialInv, NEW j \in Jobs,
         \/ Spawned(j) \/ SpawnFails(j) \/ SeesEnd(j) \/ WaitFails(j)
         \/ Finish(j) \/ ReadFails(j) \/ Cancel(j) \/ CancelFails(j)
  PROVE  SeenEnded'
<1>1. CASE Spawned(j)
  BY <1>1 DEF Spawned, Moves, TrialInv, TypeOK, SeenEnded, Ended
<1>2. CASE SeesEnd(j) \/ Finish(j)
  BY <1>2 DEF SeesEnd, Finish, Moves, TrialInv, TypeOK, SeenEnded, Ended
<1>3. CASE \/ SpawnFails(j) \/ WaitFails(j) \/ ReadFails(j) \/ Cancel(j) \/ CancelFails(j)
  BY <1>3 DEF SpawnFails, WaitFails, ReadFails, Cancel, CancelFails, Moves, TrialInv, TypeOK,
     SeenEnded, Ended
<1>4. QED
  BY <1>1, <1>2, <1>3

\* Replies come only to jobs whose phase is not over, so they do not change what the
\* branches and the baseline were found to be.
LEMMA CallsKeepBranches ==
  ASSUME TrialInv, NEW j \in Jobs,
         \/ Spawned(j) \/ SpawnFails(j) \/ SeesEnd(j) \/ WaitFails(j)
         \/ Finish(j) \/ ReadFails(j) \/ Cancel(j) \/ CancelFails(j)
  PROVE  BranchesKept'
<1> USE JobsDiffer DEF TrialInv, TypeOK, BranchesKept, CallsInStep, Calls, Jobs, Forked
<1>1. CASE Spawned(j)
  <2>1. phase \notin {"finish", "record", "returned"} /\ summary = None
    <3>1. phase \notin {"finish", "record", "returned", "threw"}
      BY <1>1 DEF Spawned, Moves, Finishing, Settled, Pending, CheckpointMade
    <3>2. QED
      BY <3>1 DEF SummaryInStep
  <2>2. phase \in {"single", "single-cleanup", "abandon"} => j \notin Branches
    BY <1>1 DEF Spawned, Moves, Cleanups
  <2>3. UNCHANGED <<phase, summary>> /\ \A k \in Branches : k # j => image'[k] = image[k]
    BY <1>1 DEF Spawned, Moves
  <2>4. QED
    BY <2>1, <2>2, <2>3
<1>2. CASE SpawnFails(j)
  BY <1>2 DEF SpawnFails, Moves, Finishing, Settled, BranchesIdentified
<1>3. CASE SeesEnd(j) \/ WaitFails(j)
  BY <1>3 DEF SeesEnd, WaitFails, Moves, Finishing, Settled, BranchesIdentified
<1>4. CASE \/ Finish(j) \/ ReadFails(j) \/ Cancel(j) \/ CancelFails(j)
  BY <1>4 DEF Finish, ReadFails, Cancel, CancelFails, Moves, Finishing, Settled, BranchesIdentified
<1>5. QED
  BY <1>1, <1>2, <1>3, <1>4

\* No call is pending once there is a summary.
LEMMA CallsKeepSummary ==
  ASSUME TrialInv, NEW j \in Jobs,
         \/ Spawned(j) \/ SpawnFails(j) \/ SeesEnd(j) \/ WaitFails(j)
         \/ Finish(j) \/ ReadFails(j) \/ Cancel(j) \/ CancelFails(j)
  PROVE  SummaryInStep'
BY DEF Spawned, SpawnFails, SeesEnd, WaitFails, Finish, ReadFails, Cancel, CancelFails,
   Moves, TrialInv, TypeOK, CallsInStep, Calls, Pending, SummaryInStep

-----------------------------------------------------------------------------
(* What a step of the trial leaves as it was *)

\* The checkpoint's phase is left for the branches' only with its operation successful.
LEMMA TrialKeepsCheckpoint ==
  ASSUME TrialInv,
         \/ BeginCheckpoint \/ CheckpointReady \/ CheckpointFails
         \/ BranchesSpawned \/ CommandTooLong \/ CleanUp \/ BranchesRejected
         \/ SingleShotSpawned \/ Unidentified \/ SingleShotRejected \/ Abandoned
         \/ BranchesFinished \/ Record \/ RecordFails
  PROVE  CheckpointMade'
<1> USE JobsDiffer DEF TrialInv, TypeOK, CheckpointMade, SummaryInStep, Jobs, Forked
<1>1. CASE BeginCheckpoint \/ CheckpointReady \/ CheckpointFails
  BY <1>1 DEF BeginCheckpoint, CheckpointReady, CheckpointFails, Post, Become, Throw, Operating,
     CallsInStep, Calls
<1>2. CASE BranchesSpawned
  BY <1>2 DEF BranchesSpawned, Post, Become, CallsInStep, Calls, Operating
<1>3. CASE CleanUp \/ SingleShotSpawned \/ SingleShotRejected
  BY <1>3 DEF CleanUp, SingleShotSpawned, SingleShotRejected, Spawning, Group, Become
<1>4. CASE \/ CommandTooLong \/ BranchesRejected \/ Unidentified \/ Abandoned
           \/ BranchesFinished \/ Record \/ RecordFails
  BY <1>4 DEF CommandTooLong, BranchesRejected, Unidentified, Abandoned, BranchesFinished, Record,
     RecordFails, Throw
<1>5. QED
  BY <1>1, <1>2, <1>3, <1>4

\* The trial changes no call to one that has seen its operation end.
LEMMA TrialSeesEnds ==
  ASSUME TrialInv,
         \/ BeginCheckpoint \/ CheckpointReady \/ CheckpointFails
         \/ BranchesSpawned \/ CommandTooLong \/ CleanUp \/ BranchesRejected
         \/ SingleShotSpawned \/ Unidentified \/ SingleShotRejected \/ Abandoned
         \/ BranchesFinished \/ Record \/ RecordFails
  PROVE  SeenEnded'
<1> USE JobsDiffer DEF TrialInv, TypeOK, SeenEnded, Ended, Jobs, Forked
<1>1. CASE BeginCheckpoint
  BY <1>1 DEF BeginCheckpoint, Post, Become, CallsInStep, Calls
<1>2. CASE CheckpointReady
  BY <1>2 DEF CheckpointReady, Post, Become, CallsInStep, Calls, Operating
<1>3. CASE BranchesSpawned
  BY <1>3 DEF BranchesSpawned, Post, Become, CallsInStep, Calls, Operating
<1>4. CASE CleanUp \/ SingleShotSpawned \/ SingleShotRejected
  BY <1>4 DEF CleanUp, SingleShotSpawned, SingleShotRejected, Become
<1>5. CASE \/ CheckpointFails \/ CommandTooLong \/ BranchesRejected \/ Unidentified
           \/ Abandoned \/ BranchesFinished \/ Record \/ RecordFails
  BY <1>5 DEF CheckpointFails, CommandTooLong, BranchesRejected, Unidentified, Abandoned,
     BranchesFinished, Record, RecordFails, Throw
<1>6. QED
  BY <1>1, <1>2, <1>3, <1>4, <1>5

\* A phase that relies on the images and operations is entered only when they agree.
LEMMA TrialKeepsBranches ==
  ASSUME TrialInv,
         \/ BeginCheckpoint \/ CheckpointReady \/ CheckpointFails
         \/ BranchesSpawned \/ CommandTooLong \/ CleanUp \/ BranchesRejected
         \/ SingleShotSpawned \/ Unidentified \/ SingleShotRejected \/ Abandoned
         \/ BranchesFinished \/ Record \/ RecordFails
  PROVE  BranchesKept'
<1> USE JobsDiffer DEF TrialInv, TypeOK, BranchesKept, SummaryInStep, Calls, Jobs, Forked
<1>1. CASE BeginCheckpoint \/ CheckpointReady \/ CheckpointFails
  BY <1>1 DEF BeginCheckpoint, CheckpointReady, CheckpointFails, Throw
<1>2. CASE BranchesSpawned
  BY <1>2 DEF BranchesSpawned, SpawnsSettled, SpawnsFailed, Group
<1>3. CASE CommandTooLong \/ BranchesRejected \/ Unidentified \/ Abandoned
  BY <1>3 DEF CommandTooLong, BranchesRejected, Cleaning, CleanedUp, Unidentified, Abandoned, Throw
<1>4. CASE CleanUp \/ SingleShotRejected
  BY <1>4 DEF CleanUp, Spawning, SingleShotRejected
<1>5. CASE SingleShotSpawned
  BY <1>5 DEF SingleShotSpawned, BranchesIdentified, Become, Finishing
<1>6. CASE BranchesFinished \/ Record \/ RecordFails
  BY <1>6 DEF BranchesFinished, Record, RecordFails, Throw, BranchesIdentified
<1>7. QED
  BY <1>1, <1>2, <1>3, <1>4, <1>5, <1>6

\* Only Record writes a summary, and what it writes is CleanupComplete.
LEMMA TrialKeepsSummary ==
  ASSUME TrialInv,
         \/ BeginCheckpoint \/ CheckpointReady \/ CheckpointFails
         \/ BranchesSpawned \/ CommandTooLong \/ CleanUp \/ BranchesRejected
         \/ SingleShotSpawned \/ Unidentified \/ SingleShotRejected \/ Abandoned
         \/ BranchesFinished \/ Record \/ RecordFails
  PROVE  SummaryInStep'
<1> USE DEF TrialInv, SummaryInStep
<1>1. CASE Record
  BY <1>1, NoneIsNoValue DEF Record, CleanupComplete, CallsInStep, Calls
<1>2. CASE \/ BeginCheckpoint \/ CheckpointReady \/ CheckpointFails \/ BranchesSpawned
           \/ CommandTooLong \/ CleanUp \/ BranchesRejected
  BY <1>2 DEF BeginCheckpoint, CheckpointReady, CheckpointFails, BranchesSpawned, CommandTooLong,
     CleanUp, Spawning, BranchesRejected, Throw
<1>3. CASE \/ SingleShotSpawned \/ Unidentified \/ SingleShotRejected \/ Abandoned
           \/ BranchesFinished \/ RecordFails
  BY <1>3 DEF SingleShotSpawned, Unidentified, SingleShotRejected, Abandoned, BranchesFinished,
     RecordFails, Throw
<1>4. QED
  BY <1>1, <1>2, <1>3

-----------------------------------------------------------------------------
(* The service *)

\* The service takes an operation to its end and no further, and moves none of the
\* trial's state.
LEMMA ServiceKeepsInvariant == TrialInv /\ Service => TrialInv'
<1> SUFFICES ASSUME TrialInv, NEW j \in Jobs, Accept(j) \/ End(j)
             PROVE  TrialInv'
  BY DEF Service
<1>1. TypeOK'
  BY ServiceKeepsTypes DEF Service
<1>2. UNCHANGED <<call, target, image, phase, error, summary>>
  BY DEF Accept, End
<1>3. \A k \in Jobs : Ended(k) => service'[k] = service[k]
  BY DEF Accept, End, Ended, TrialInv, TypeOK
<1>4. CallsInStep' /\ BranchesKept' /\ SummaryInStep'
  BY <1>2 DEF TrialInv, CallsInStep, BranchesKept, SummaryInStep, Calls, BranchesIdentified,
     CleanupComplete
<1>5. SeenEnded'
  <2> SUFFICES ASSUME NEW k \in Jobs, call[k] \in {"reading", "finished", "cleaned"}
               PROVE  Ended(target[k])'
    BY <1>2 DEF SeenEnded
  <2>1. target[k] \in Jobs /\ Ended(target[k])
    BY DEF TrialInv, TypeOK, SeenEnded
  <2>2. QED
    BY <2>1, <1>2, <1>3 DEF Ended
<1>6. CheckpointMade'
  <2>1. call[Checkpoint] = "finished" => target[Checkpoint] \in Jobs
    BY DEF TrialInv, TypeOK, Jobs
  <2>2. QED
    BY <2>1, <1>2, <1>3 DEF TrialInv, CheckpointMade, Ended
<1>7. QED
  BY <1>1, <1>4, <1>5, <1>6 DEF TrialInv

-----------------------------------------------------------------------------
(* The invariant and what follows from it *)

\* Every step of service and client keeps the invariant.
LEMMA TrialInvKept == TrialInv /\ [Next]_vars => TrialInv'
<1> SUFFICES ASSUME TrialInv, [Next]_vars
             PROVE  TrialInv'
  OBVIOUS
<1>1. CASE Service
  BY <1>1, ServiceKeepsInvariant
<1>2. ASSUME NEW j \in Jobs,
             \/ Spawned(j) \/ SpawnFails(j) \/ SeesEnd(j) \/ WaitFails(j)
             \/ Finish(j) \/ ReadFails(j) \/ Cancel(j) \/ CancelFails(j)
      PROVE  TrialInv'
  BY <1>2, CallsKeepTypes, CallsStayInStep, CallsKeepCheckpoint, CallsSeeEnds, CallsKeepBranches,
     CallsKeepSummary DEF TrialInv
<1>3. CASE \/ BeginCheckpoint \/ CheckpointReady \/ CheckpointFails
           \/ BranchesSpawned \/ CommandTooLong \/ CleanUp \/ BranchesRejected
           \/ SingleShotSpawned \/ Unidentified \/ SingleShotRejected \/ Abandoned
           \/ BranchesFinished \/ Record \/ RecordFails
  BY <1>3, TrialKeepsTypes, TrialKeepsStep, TrialKeepsCheckpoint, TrialSeesEnds, TrialKeepsBranches,
     TrialKeepsSummary DEF TrialInv
<1>4. CASE UNCHANGED vars
  <2>1. TypeOK' /\ CallsInStep'
    BY <1>4 DEF vars, TrialInv, TypeOK, CallsInStep, Calls
  <2>2. CheckpointMade' /\ SeenEnded'
    BY <1>4 DEF vars, TrialInv, CheckpointMade, SeenEnded, Ended
  <2>3. BranchesKept' /\ SummaryInStep'
    BY <1>4 DEF vars, TrialInv, BranchesKept, SummaryInStep, Calls, BranchesIdentified,
       CleanupComplete
  <2>4. QED
    BY <2>1, <2>2, <2>3 DEF TrialInv
<1>5. QED
  BY <1>1, <1>2, <1>3, <1>4 DEF Next, Client

\* The invariant holds of every reachable state, whatever the number of branches.
THEOREM TrialInvariant == Spec => []TrialInv
<1>1. QED
  BY TrialInvInitially, TrialInvKept, PTL DEF Spec

\* The state keeps its shape, and the client waits only for operations it was told of
\* (client.ts, spawn and waitForOperation).
THEOREM TypesHold == Spec => []TypeOK
<1>1. TrialInv => TypeOK
  BY DEF TrialInv
<1>2. QED
  BY <1>1, TrialInvariant, PTL

\* A trial summary whose cleanupComplete is true tells the truth about every operation
\* of the trial (trial.ts, finishBranch and the summary).
THEOREM CleanupIsTrue == Spec => []RecordedCleanup
<1>1. TrialInv => RecordedCleanup
  <2> SUFFICES ASSUME TrialInv, summary = TRUE, NEW j \in Jobs, target[j] # None
               PROVE  Ended(target[j])
    BY DEF RecordedCleanup
  <2>1. summary # None /\ CleanupComplete /\ Calls(Forked, Settled)
    BY NoneIsNoValue DEF TrialInv, SummaryInStep
  <2>2. CASE j \in Forked
    BY <2>1, <2>2 DEF CleanupComplete, Calls, Settled, TrialInv, SeenEnded, Jobs
  <2>3. CASE j = Checkpoint
    BY <2>1, <2>3 DEF TrialInv, CheckpointMade, Ended
  <2>4. QED
    BY <2>2, <2>3 DEF Jobs
<1>2. QED
  BY <1>1, TrialInvariant, PTL

\* A recorded trial compared branches of one image in operations of their own
\* (invariants.ts, assertBranchIdentity).
THEOREM RecordedTrialsCompare == Spec => []SiblingsCompared
<1>1. TrialInv => SiblingsCompared
  <2> SUFFICES ASSUME TrialInv, phase \in {"finish", "record", "returned"} \/ summary # None
               PROVE  /\ \A j \in Forked : image[j] = "checkpoint" /\ target[j] # None
                      /\ \A j, k \in Forked : target[j] = target[k] => j = k
                      /\ service[target[Checkpoint]] = "SUCCESS"
    BY DEF SiblingsCompared
  <2>1. Calls(Forked, Finishing) /\ BranchesIdentified
    BY DEF TrialInv, BranchesKept
  <2>2. \A j \in Forked : image[j] = "checkpoint" /\ target[j] # None
    BY <2>1 DEF BranchesIdentified, Calls, Finishing, Settled, TrialInv, TypeOK, Jobs
  <2>3. \A j, k \in Forked : target[j] = target[k] => j = k
    BY <2>1 DEF BranchesIdentified, IsInjective, Restrict
  <2>4. service[target[Checkpoint]] = "SUCCESS"
    BY DEF TrialInv, CheckpointMade
  <2>5. QED
    BY <2>2, <2>3, <2>4
<1>2. QED
  BY <1>1, TrialInvariant, PTL

\* When the trial is over none of its requests is still under way
\* (client.ts, the Promise.allSettled of spawnBranches).
THEOREM CallsAreOver == Spec => []NoCallLeftBehind
<1>1. TrialInv => NoCallLeftBehind
  BY DEF TrialInv, CallsInStep, Calls, Pending, NoCallLeftBehind
<1>2. QED
  BY <1>1, TrialInvariant, PTL

\* spawnBranches rejects without an unproven cleanup only after every operation it was
\* told of has ended (client.ts, spawnBranches).
THEOREM RejectionsCleanUp == Spec => CreationCleansUp
<1>1. TrialInv /\ [Next]_vars =>
        [Cleaning /\ ~Cleaning' /\ error' = "plain" =>
           \A j \in Group : target[j] # None => Ended(target[j])]_vars
  <2> SUFFICES ASSUME TrialInv, Next, Cleaning, ~Cleaning', error' = "plain",
                      NEW j \in Group, target[j] # None
               PROVE  Ended(target[j])
    BY DEF vars
  <2>1. BranchesRejected \/ SingleShotRejected
    BY DEF Next, Service, Client, Accept, End, Spawned, SpawnFails, SeesEnd, WaitFails, Finish,
       ReadFails, Cancel, CancelFails, Moves, BeginCheckpoint, CheckpointReady, CheckpointFails,
       BranchesSpawned, CommandTooLong, CleanUp, SingleShotSpawned, Unidentified, Abandoned,
       BranchesFinished, Record, RecordFails, Cleaning, Spawning
  <2>2. CleanedUp /\ Rejection = "plain"
    BY <2>1 DEF BranchesRejected, SingleShotRejected, Throw, Rejection
  <2>3. j \in Jobs /\ call[j] = "cleaned"
    BY <2>2 DEF CleanedUp, Rejection, Group, TrialInv, TypeOK, Jobs, Forked
  <2>4. QED
    BY <2>3 DEF TrialInv, SeenEnded
<1>2. QED
  BY <1>1, TrialInvariant, PTL DEF Spec, CreationCleansUp
=============================================================================
