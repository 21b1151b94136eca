-------------------------- MODULE RunReducerProofs --------------------------
(***************************************************************************)
(* The safety properties of RunReducerProperties for every configuration,  *)
(* every set of envelopes and every payload the constants admit.           *)
(***************************************************************************)
EXTENDS RunReducerProperties, FiniteSetTheorems, TLAPS

-----------------------------------------------------------------------------
(* The gate list of an eligible candidate *)

\* A list without repetitions that sameSet accepts covers the set: the pigeonhole
\* step that CandidateSchema's uniqueness check contributes to the reducer's.
LEMMA SameSetCovers ==
  ASSUME NEW S, IsFiniteSet(S), NEW list, NEW n \in Nat,
         DOMAIN list = 1..n, Len(list) = n,
         IsInjective(list), SameSet(list, S)
  PROVE  \A x \in S : \E i \in DOMAIN list : list[i] = x
<1> DEFINE f == [i \in 1..n |-> list[i]]
<1>1. f \in Injection(1..n, S)
  BY DEF SameSet, Range, IsInjective, Injection
<1>2. Cardinality(1..n) = n
  BY FS_Interval
<1>3. Cardinality(S) = n
  BY DEF SameSet
<1>4. f \in Surjection(1..n, S)
  BY <1>1, <1>2, <1>3, FS_Injection
<1>5. QED
  BY <1>4 DEF Surjection

-----------------------------------------------------------------------------
(* What every applied event does *)

\* Every event that changes the state is admissible and is recorded by apply, and
\* no run is ever taken back to the state before run.received.
LEMMA EventsApply ==
  ASSUME NEW id, NEW key, Forward(id, key) \/ Interrupt(id, key)
  PROVE  Admissible(id, key) /\ Apply(id, key) /\ runState' # "NONE"
<1>1. CASE Forward(id, key)
  BY <1>1 DEF Forward, RunReceived, SourceResolved, InventoryCompleted,
     SpecificationCompleted, CheckpointReady, CandidatesStarted, CandidateTransitioned,
     CandidatesEvaluated, FalsificationCompleted, ScoringCompleted, VerdictSelected,
     VerdictAbstained, RunCanceled
<1>2. ASSUME NEW stage \in FailingStages, StageFailed(id, key, stage)
      PROVE  Admissible(id, key) /\ Apply(id, key) /\ runState' # "NONE"
  BY <1>2, FailingStagesAreStages DEF StageFailed, StageStates, Stages
<1>3. CASE CancelRequested(id, key) \/ RunFailed(id, key)
  BY <1>3 DEF CancelRequested, RunFailed
<1>4. QED
  BY <1>1, <1>2, <1>3 DEF Interrupt

\* Every step of the reducer is an admissible event recorded by apply.
LEMMA StepApplies ==
  ASSUME Next
  PROVE  \E e \in Envelopes :
           Admissible(e[1], e[2]) /\ Apply(e[1], e[2]) /\ runState' # "NONE"
  BY EventsApply DEF Next

-----------------------------------------------------------------------------
(* Type correctness *)

\* apply keeps the event log well typed.
LEMMA ApplyKeepsTypes ==
  ASSUME TypeOK, NEW e \in Envelopes, Apply(e[1], e[2])
  PROVE  /\ lastEventId' \in Nat
         /\ processedEventKeys' \in [DOMAIN processedEventKeys' -> Nat]
  BY EnvelopesHavePositiveIds DEF TypeOK, Apply

\* createInitialRunMachineState is well typed.
LEMMA TypesInitially == Init => TypeOK
  BY DEF Init, TypeOK, EmptyFunction, Candidate, Commands, NoVerdict

\* The parts of the type invariant a case of Next can disturb: every action
\* leaves the rest to ApplyKeepsTypes.
RunTypeOK ==
  /\ runState \in RunStates \cup {"NONE"}
  /\ request \in RunRequests \cup {None}
  /\ (runState = "NONE") <=> (request = None)
  /\ source \in Revisions \cup {None}
  /\ checkpoint \in Revisions \cup {None}
  /\ verdict \in {NoVerdict} \cup SelectedVerdicts \cup AbstainedVerdicts
  /\ failure \in {"none", "reported"} \cup Stages
  /\ retryCounts \in [Stages -> Nat]

CandidatesTypeOK ==
  /\ DOMAIN candidates \subseteq Strategies
  /\ candidates \in [DOMAIN candidates -> Candidate]

\* CANDIDATE_TRANSITIONS leads only to candidate states.
LEMMA TransitionsAreStates ==
  \A s \in CandidateStates : CandidateTransitions[s] \subseteq CandidateStates
  BY DEF CandidateTransitions, CandidateStates

\* The four events that write to the candidates.
LEMMA CandidatesChangeOnlyHere ==
  ASSUME NEW id, NEW key, Forward(id, key) \/ Interrupt(id, key)
  PROVE  \/ UNCHANGED candidates
         \/ CheckpointReady(id, key) \/ CandidatesStarted(id, key)
         \/ CandidateTransitioned(id, key) \/ ScoringCompleted(id, key)
  BY DEF Forward, Interrupt, RunReceived, SourceResolved, InventoryCompleted,
     SpecificationCompleted, CandidatesEvaluated, FalsificationCompleted, VerdictSelected,
     VerdictAbstained, StageFailed, CancelRequested, RunCanceled, RunFailed, OnlyRunState

\* Every event keeps the types of the run's fields other than its candidates.
LEMMA RunTypeKept ==
  ASSUME TypeOK, NEW id, NEW key, Forward(id, key) \/ Interrupt(id, key)
  PROVE  RunTypeOK'
<1> USE DEF TypeOK, RunTypeOK, RunStates, OnlyRunState
<1>1. CASE RunReceived(id, key)
  BY <1>1, NoneIsNoValue, RunRequestsAreRequests DEF RunReceived
<1>2. CASE SourceResolved(id, key)
  BY <1>2 DEF SourceResolved
<1>3. CASE InventoryCompleted(id, key) \/ SpecificationCompleted(id, key)
  BY <1>3 DEF InventoryCompleted, SpecificationCompleted
<1>4. CASE CheckpointReady(id, key)
  BY <1>4 DEF CheckpointReady
<1>5. CASE CandidatesStarted(id, key) \/ CandidateTransitioned(id, key)
  BY <1>5 DEF CandidatesStarted, CandidateTransitioned
<1>6. CASE CandidatesEvaluated(id, key) \/ FalsificationCompleted(id, key)
  BY <1>6 DEF CandidatesEvaluated, FalsificationCompleted
<1>7. CASE ScoringCompleted(id, key)
  BY <1>7 DEF ScoringCompleted
<1>8. CASE VerdictSelected(id, key) \/ VerdictAbstained(id, key)
  BY <1>8 DEF VerdictSelected, VerdictAbstained
<1>9. ASSUME NEW stage \in FailingStages, StageFailed(id, key, stage)
      PROVE  RunTypeOK'
  <2>1. stage \in Stages
    BY FailingStagesAreStages
  <2>2. retryCounts' \in [Stages -> Nat]
    BY <1>9, <2>1 DEF StageFailed
  <2>3. runState \notin {"NONE"}
    BY <1>9, <2>1 DEF StageFailed, StageStates, Stages
  <2>4. QED
    BY <1>9, <2>1, <2>2, <2>3 DEF StageFailed
<1>10. CASE CancelRequested(id, key) \/ RunCanceled(id, key) \/ RunFailed(id, key)
  BY <1>10 DEF CancelRequested, RunCanceled, RunFailed, Active
<1>11. QED
  BY <1>1, <1>2, <1>3, <1>4, <1>5, <1>6, <1>7, <1>8, <1>9, <1>10 DEF Forward, Interrupt

\* Every event keeps the candidates well typed.
LEMMA CandidatesTypeKept ==
  ASSUME TypeOK, NEW id, NEW key, Forward(id, key) \/ Interrupt(id, key)
  PROVE  CandidatesTypeOK'
<1> USE DEF TypeOK, CandidatesTypeOK
<1>1. CASE UNCHANGED candidates
  BY <1>1
<1>2. CASE CheckpointReady(id, key)
  <2>1. NewCandidate \in Candidate
    BY DEF NewCandidate, Candidate, CandidateStates, CandidateFailures
  <2>2. PICK seeds \in SUBSET Strategies : candidates' = [c \in seeds |-> NewCandidate]
    BY <1>2 DEF CheckpointReady
  <2>3. QED
    BY <2>1, <2>2
<1>3. CASE CandidatesStarted(id, key)
  <2>1. \A c \in Candidate : [c EXCEPT !.state = "PATCHING"] \in Candidate
    BY DEF Candidate, CandidateStates
  <2>2. candidates' = [c \in DOMAIN candidates |-> [candidates[c] EXCEPT !.state = "PATCHING"]]
    BY <1>3 DEF CandidatesStarted
  <2>3. QED
    BY <2>1, <2>2
<1>4. CASE CandidateTransitioned(id, key)
  <2>1. PICK c \in DOMAIN candidates :
         \E to \in CandidateTransitions[candidates[c].state], op \in Operations \cup {None},
            gates \in GateReports, why \in CandidateFailures :
           candidates' = [candidates EXCEPT ![c] = Transitioned(candidates[c], to, op, gates, why)]
    BY <1>4 DEF CandidateTransitioned
  <2>2. PICK to \in CandidateTransitions[candidates[c].state], op \in Operations \cup {None},
             gates \in GateReports, why \in CandidateFailures :
           candidates' = [candidates EXCEPT ![c] = Transitioned(candidates[c], to, op, gates, why)]
    BY <2>1
  <2>3. candidates[c] \in Candidate
    OBVIOUS
  <2>4. to \in CandidateStates
    BY <2>3, TransitionsAreStates DEF Candidate
  <2>5. Transitioned(candidates[c], to, op, gates, why) \in Candidate
    BY <2>3, <2>4, GateReportsAreReports DEF Transitioned, Candidate
  <2>6. QED
    BY <2>2, <2>5
<1>5. CASE ScoringCompleted(id, key)
  <2>1. PICK scores \in ScoreLists :
         /\ DOMAIN scores = DOMAIN candidates
         /\ candidates' =
              [c \in DOMAIN candidates |-> [candidates[c] EXCEPT !.score = scores[c]]]
    BY <1>5 DEF ScoringCompleted
  <2>2. \A c \in DOMAIN candidates : scores[c] \in Score
    BY <2>1 DEF ScoreLists
  <2>3. \A c \in DOMAIN candidates : [candidates[c] EXCEPT !.score = scores[c]] \in Candidate
    BY <2>2 DEF Candidate
  <2>4. QED
    BY <2>1, <2>3
<1>6. QED
  BY <1>1, <1>2, <1>3, <1>4, <1>5, CandidatesChangeOnlyHere

\* Every event returns well-typed commands.
LEMMA CommandsTypeKept ==
  ASSUME TypeOK, NEW id, NEW key, Forward(id, key) \/ Interrupt(id, key)
  PROVE  commands' \subseteq Commands
<1> USE DEF Command, Commands
<1>1. \A c \in Strategies, state \in CandidateStates : CandidateCommands(c, state) \subseteq Commands
  <2> SUFFICES ASSUME NEW c \in Strategies, NEW state \in CandidateStates,
                      NEW command \in CandidateCommands(c, state)
               PROVE  command \in Commands
    OBVIOUS
  <2> DEFINE kind == [PATCHING |-> "patch-candidate", BUILDING |-> "build-candidate",
                      VERIFYING |-> "verify-candidate", FALSIFYING |-> "falsify-candidate"]
  <2>1. state \in DOMAIN kind /\ command = [kind |-> kind[state], candidate |-> c]
    BY DEF CandidateCommands
  <2>2. kind[state] \in {"patch-candidate", "build-candidate", "verify-candidate",
                         "falsify-candidate"}
    BY <2>1
  <2>3. QED
    BY <2>1, <2>2
<1>2. ASSUME NEW stage \in FailingStages, StageFailed(id, key, stage)
      PROVE  commands' \subseteq Commands
  <2>1. stage \in Stages /\ retryCounts[stage] + 1 \in Nat
    BY FailingStagesAreStages DEF TypeOK
  <2>2. QED
    BY <1>2, <2>1 DEF StageFailed
<1>3. CASE CandidatesStarted(id, key)
  BY <1>1, <1>3 DEF CandidatesStarted, CandidateStates, TypeOK
<1>4. CASE CandidateTransitioned(id, key)
  <2>1. PICK c \in DOMAIN candidates :
         \E to \in CandidateTransitions[candidates[c].state] :
           commands' = CandidateCommands(c, to) \cup SettlementCommands(to, candidates')
    BY <1>4 DEF CandidateTransitioned
  <2>2. PICK to \in CandidateTransitions[candidates[c].state] :
           commands' = CandidateCommands(c, to) \cup SettlementCommands(to, candidates')
    BY <2>1
  <2>3. to \in CandidateStates /\ c \in Strategies
    BY TransitionsAreStates DEF TypeOK, Candidate
  <2>4. QED
    BY <1>1, <2>2, <2>3 DEF SettlementCommands
<1>5. CASE CancelRequested(id, key)
  <2>1. CandidateOperations \subseteq Operations
    BY DEF CandidateOperations, TypeOK, Candidate
  <2>2. QED
    BY <1>5, <2>1 DEF CancelRequested
<1>6. QED
  BY <1>2, <1>3, <1>4, <1>5 DEF Forward, Interrupt, RunReceived, SourceResolved,
     InventoryCompleted, SpecificationCompleted, CheckpointReady, CandidatesEvaluated,
     FalsificationCompleted, ScoringCompleted, VerdictSelected, VerdictAbstained,
     RunCanceled, RunFailed

LEMMA TypesKept ==
  ASSUME TypeOK, [Next]_vars
  PROVE  TypeOK'
<1>1. CASE UNCHANGED vars
  BY <1>1 DEF vars, machineVars, TypeOK
<1>2. ASSUME NEW e \in Envelopes, Forward(e[1], e[2]) \/ Interrupt(e[1], e[2])
      PROVE  TypeOK'
  <2>1. Apply(e[1], e[2])
    BY <1>2, EventsApply
  <2>2. RunTypeOK' /\ CandidatesTypeOK' /\ commands' \subseteq Commands
    BY <1>2, RunTypeKept, CandidatesTypeKept, CommandsTypeKept
  <2>3. QED
    BY <2>1, <2>2, ApplyKeepsTypes DEF TypeOK, RunTypeOK, CandidatesTypeOK
<1>3. QED
  BY <1>1, <1>2 DEF Next

\* The machine state and its commands keep their types under every event.
THEOREM TypeCorrect == Spec => []TypeOK
<1>1. TypeOK /\ [Next]_vars => TypeOK'
  BY TypesKept
<1>2. QED
  BY TypesInitially, <1>1, PTL DEF Spec

-----------------------------------------------------------------------------
(* Envelopes: idempotency and ordering *)

\* What an event must pass to be applied, and what applying it enters on the record.
LEMMA EventEntered ==
  ASSUME TypeOK, Next
  PROVE  \E key \in DOMAIN processedEventKeys' \ DOMAIN processedEventKeys :
           /\ DOMAIN processedEventKeys' = DOMAIN processedEventKeys \cup {key}
           /\ processedEventKeys'[key] = lastEventId'
           /\ lastEventId' \in Nat /\ lastEventId' > lastEventId
           /\ \A k \in DOMAIN processedEventKeys :
                processedEventKeys'[k] = processedEventKeys[k]
<1>1. PICK e \in Envelopes :
        Admissible(e[1], e[2]) /\ Apply(e[1], e[2]) /\ runState' # "NONE"
  BY StepApplies
<1>2. /\ e[1] \in Nat /\ e[1] > lastEventId /\ lastEventId' = e[1]
      /\ e[2] \notin DOMAIN processedEventKeys
  BY <1>1, EnvelopesHavePositiveIds DEF Admissible, Apply
<1>3. /\ DOMAIN processedEventKeys' = DOMAIN processedEventKeys \cup {e[2]}
      /\ processedEventKeys'[e[2]] = e[1]
      /\ \A k \in DOMAIN processedEventKeys : processedEventKeys'[k] = processedEventKeys[k]
  BY <1>1, <1>2 DEF Apply
<1>4. QED
  BY <1>2, <1>3

\* No event on record lies beyond the last one: with it an ID above lastEventId is
\* above every ID on record.
LEMMA RecordKept ==
  ASSUME TypeOK, RecordInStep, [Next]_vars
  PROVE  RecordInStep'
<1>1. CASE UNCHANGED vars
  BY <1>1 DEF vars, machineVars, RecordInStep
<1>2. CASE Next
  <2>1. PICK key \in DOMAIN processedEventKeys' \ DOMAIN processedEventKeys :
          /\ DOMAIN processedEventKeys' = DOMAIN processedEventKeys \cup {key}
          /\ processedEventKeys'[key] = lastEventId'
          /\ lastEventId' \in Nat /\ lastEventId' > lastEventId
          /\ \A k \in DOMAIN processedEventKeys :
               processedEventKeys'[k] = processedEventKeys[k]
    BY <1>2, EventEntered
  <2>2. lastEventId \in Nat /\ \A k \in DOMAIN processedEventKeys : processedEventKeys[k] \in Nat
    BY DEF TypeOK
  <2>3. QED
    BY <2>1, <2>2 DEF RecordInStep
<1>3. QED
  BY <1>1, <1>2

\* Every change of the machine is one new event, under a key on no record and an ID
\* above all applied ones, and no entry of the record ever changes.
THEOREM EventsAppliedOnce == Spec => AppliedOnce
<1>1. Init => RecordInStep
  BY DEF Init, RecordInStep, EmptyFunction
<1>2. TypeOK /\ RecordInStep /\ [Next]_vars => RecordInStep'
  BY RecordKept
<1>3. TypeOK /\ RecordInStep /\ [Next]_vars =>
        [\E key \in DOMAIN processedEventKeys' \ DOMAIN processedEventKeys :
           /\ DOMAIN processedEventKeys' = DOMAIN processedEventKeys \cup {key}
           /\ processedEventKeys'[key] = lastEventId'
           /\ \A k \in DOMAIN processedEventKeys :
                /\ processedEventKeys'[k] = processedEventKeys[k]
                /\ processedEventKeys[k] < lastEventId']_vars
  <2> SUFFICES ASSUME TypeOK, RecordInStep, Next
               PROVE  \E key \in DOMAIN processedEventKeys' \ DOMAIN processedEventKeys :
                        /\ DOMAIN processedEventKeys' = DOMAIN processedEventKeys \cup {key}
                        /\ processedEventKeys'[key] = lastEventId'
                        /\ \A k \in DOMAIN processedEventKeys :
                             /\ processedEventKeys'[k] = processedEventKeys[k]
                             /\ processedEventKeys[k] < lastEventId'
    OBVIOUS
  <2>1. \A k \in DOMAIN processedEventKeys :
          processedEventKeys[k] \in Nat /\ processedEventKeys[k] <= lastEventId
    BY DEF TypeOK, RecordInStep
  <2>2. lastEventId \in Nat
    BY DEF TypeOK
  <2>3. QED
    BY <2>1, <2>2, EventEntered
<1>4. QED
  BY TypeCorrect, <1>1, <1>2, <1>3, PTL DEF Spec, AppliedOnce

-----------------------------------------------------------------------------
(* The inductive invariant, conjunct by conjunct *)

\* How a step that writes to the candidates changes them.
LEMMA CandidateWrites ==
  ASSUME TypeOK, NEW id, NEW key
  PROVE  /\ CandidatesStarted(id, key) =>
              /\ DOMAIN candidates' = DOMAIN candidates
              /\ \A c \in DOMAIN candidates :
                   /\ candidates'[c].state = "PATCHING"
                   /\ candidates'[c].gates = candidates[c].gates
                   /\ candidates'[c].score = candidates[c].score
                   /\ candidates'[c].op = candidates[c].op
         /\ ScoringCompleted(id, key) =>
              /\ DOMAIN candidates' = DOMAIN candidates
              /\ \A c \in DOMAIN candidates :
                   /\ candidates'[c].state = candidates[c].state
                   /\ candidates'[c].gates = candidates[c].gates
                   /\ candidates'[c].op = candidates[c].op
                   /\ candidates'[c].score \in Score
         /\ CandidateTransitioned(id, key) =>
              /\ DOMAIN candidates' = DOMAIN candidates
              /\ \E c \in DOMAIN candidates :
                   /\ \A d \in DOMAIN candidates \ {c} : candidates'[d] = candidates[d]
                   /\ candidates'[c].state \in CandidateTransitions[candidates[c].state]
                   /\ candidates'[c].score = None
                   /\ candidates[c].op # None => candidates'[c].op # None
                   /\ candidates'[c].state = "ELIGIBLE" =>
                        SameSet(GateNames(candidates'[c].gates), request.hardGates)
<1> USE DEF TypeOK
<1>1. ASSUME CandidatesStarted(id, key), NEW c \in DOMAIN candidates
      PROVE  /\ candidates'[c].state = "PATCHING"
             /\ candidates'[c].gates = candidates[c].gates
             /\ candidates'[c].score = candidates[c].score
             /\ candidates'[c].op = candidates[c].op
  <2>1. candidates'[c] = [candidates[c] EXCEPT !.state = "PATCHING"]
    BY <1>1 DEF CandidatesStarted
  <2>2. candidates[c] \in Candidate
    OBVIOUS
  <2>3. QED
    BY <2>1, <2>2 DEF Candidate
<1>2. ASSUME ScoringCompleted(id, key)
      PROVE  /\ DOMAIN candidates' = DOMAIN candidates
             /\ \A c \in DOMAIN candidates :
                  /\ candidates'[c].state = candidates[c].state
                  /\ candidates'[c].gates = candidates[c].gates
                  /\ candidates'[c].op = candidates[c].op
                  /\ candidates'[c].score \in Score
  <2>1. PICK scores \in ScoreLists :
         /\ DOMAIN scores = DOMAIN candidates
         /\ candidates' =
              [c \in DOMAIN candidates |-> [candidates[c] EXCEPT !.score = scores[c]]]
    BY <1>2 DEF ScoringCompleted
  <2>2. ASSUME NEW c \in DOMAIN candidates
        PROVE  /\ candidates'[c].state = candidates[c].state
               /\ candidates'[c].gates = candidates[c].gates
               /\ candidates'[c].op = candidates[c].op
               /\ candidates'[c].score \in Score
    <3>1. candidates'[c] = [candidates[c] EXCEPT !.score = scores[c]]
      BY <2>1
    <3>2. candidates[c] \in Candidate /\ scores[c] \in Score
      BY <2>1 DEF ScoreLists
    <3>3. QED
      BY <3>1, <3>2 DEF Candidate
  <2>3. QED
    BY <2>1, <2>2
<1>3. ASSUME CandidateTransitioned(id, key)
      PROVE  /\ DOMAIN candidates' = DOMAIN candidates
             /\ \E c \in DOMAIN candidates :
                  /\ \A d \in DOMAIN candidates \ {c} : candidates'[d] = candidates[d]
                  /\ candidates'[c].state \in CandidateTransitions[candidates[c].state]
                  /\ candidates'[c].score = None
                  /\ candidates[c].op # None => candidates'[c].op # None
                  /\ candidates'[c].state = "ELIGIBLE" =>
                       SameSet(GateNames(candidates'[c].gates), request.hardGates)
  <2>1. PICK c \in DOMAIN candidates :
         \E to \in CandidateTransitions[candidates[c].state], op \in Operations \cup {None},
            gates \in GateReports, why \in CandidateFailures :
           /\ to = "ELIGIBLE" => SameSet(GateNames(gates), request.hardGates)
           /\ candidates' = [candidates EXCEPT ![c] = Transitioned(candidates[c], to, op, gates, why)]
    BY <1>3 DEF CandidateTransitioned
  <2>2. PICK to \in CandidateTransitions[candidates[c].state], op \in Operations \cup {None},
             gates \in GateReports, why \in CandidateFailures :
           /\ to = "ELIGIBLE" => SameSet(GateNames(gates), request.hardGates)
           /\ candidates' = [candidates EXCEPT ![c] = Transitioned(candidates[c], to, op, gates, why)]
    BY <2>1
  <2>3. candidates'[c] = Transitioned(candidates[c], to, op, gates, why)
    BY <2>2
  <2>4. /\ candidates'[c].state = to /\ candidates'[c].gates = gates
        /\ candidates'[c].score = None
        /\ candidates'[c].op = IF op = None THEN candidates[c].op ELSE op
    BY <2>3 DEF Transitioned
  <2>5. QED
    BY <2>2, <2>4
<1>4. CandidatesStarted(id, key) => DOMAIN candidates' = DOMAIN candidates
  BY DEF CandidatesStarted
<1>5. QED
  BY <1>1, <1>2, <1>3, <1>4

\* Every event keeps the candidates as far as the run state says they are.
LEMMA CandidatesStayInStep ==
  ASSUME RunInv, NEW id, NEW key, Forward(id, key) \/ Interrupt(id, key)
  PROVE  CandidatesInStep'
<1> USE DEF RunInv, CandidatesInStep, BeforeCandidates, Judged, OnlyRunState, AllTerminal, InState
<1>1. CASE RunReceived(id, key)
  BY <1>1 DEF RunReceived
<1>2. CASE SourceResolved(id, key)
  BY <1>2 DEF SourceResolved
<1>3. CASE InventoryCompleted(id, key) \/ SpecificationCompleted(id, key)
  BY <1>3 DEF InventoryCompleted, SpecificationCompleted
<1>4. CASE CheckpointReady(id, key)
  <2>1. PICK seeds : seeds = request.strategies /\ candidates' = [c \in seeds |-> NewCandidate]
    BY <1>4 DEF CheckpointReady
  <2>2. DOMAIN candidates' = request.strategies
        /\ \A c \in DOMAIN candidates' : candidates'[c].state = "QUEUED"
    BY <2>1 DEF NewCandidate
  <2>3. QED
    BY <1>4, <2>2 DEF CheckpointReady
<1>5. CASE CandidatesStarted(id, key)
  BY <1>5, CandidateWrites DEF CandidatesStarted
<1>6. CASE CandidateTransitioned(id, key)
  BY <1>6, CandidateWrites DEF CandidateTransitioned
<1>7. CASE CandidatesEvaluated(id, key) \/ FalsificationCompleted(id, key)
  BY <1>7 DEF CandidatesEvaluated, FalsificationCompleted
<1>8. CASE ScoringCompleted(id, key)
  <2>1. AllTerminal(candidates)'
    BY <1>8, CandidateWrites DEF ScoringCompleted
  <2>2. QED
    BY <1>8, <2>1, CandidateWrites DEF ScoringCompleted
<1>9. CASE VerdictSelected(id, key) \/ VerdictAbstained(id, key)
  BY <1>9 DEF VerdictSelected, VerdictAbstained
<1>10. ASSUME NEW stage \in FailingStages, StageFailed(id, key, stage)
       PROVE  CandidatesInStep'
  BY <1>10 DEF StageFailed
<1>11. CASE CancelRequested(id, key) \/ RunCanceled(id, key) \/ RunFailed(id, key)
  BY <1>11 DEF CancelRequested, RunCanceled, RunFailed
<1>12. QED
  BY <1>1, <1>2, <1>3, <1>4, <1>5, <1>6, <1>7, <1>8, <1>9, <1>10, <1>11 DEF Forward, Interrupt

\* Only run.received writes the request, and then there are no candidates.
LEMMA RequestWrittenOnce ==
  ASSUME RunInv, NEW id, NEW key, Forward(id, key) \/ Interrupt(id, key)
  PROVE  request' = request \/ (RunReceived(id, key) /\ DOMAIN candidates' = {})
  BY DEF Forward, Interrupt, RunReceived, SourceResolved, InventoryCompleted,
     SpecificationCompleted, CheckpointReady, CandidatesStarted, CandidateTransitioned,
     CandidatesEvaluated, FalsificationCompleted, ScoringCompleted, VerdictSelected,
     VerdictAbstained, RunCanceled, StageFailed, CancelRequested, RunFailed, OnlyRunState,
     RunInv, CandidatesInStep, BeforeCandidates

\* Every event keeps the reports of the eligible candidates complete: only
\* candidate.transitioned makes one eligible, and it compares the report.
LEMMA EligibleStayReported ==
  ASSUME RunInv, NEW id, NEW key, Forward(id, key) \/ Interrupt(id, key)
  PROVE  EligibleReported'
<1> USE DEF RunInv, EligibleReported
<1>1. CASE UNCHANGED candidates
  BY <1>1, RequestWrittenOnce
<1>2. CASE CheckpointReady(id, key)
  BY <1>2 DEF CheckpointReady, NewCandidate
<1>3. CASE CandidatesStarted(id, key)
  BY <1>3, CandidateWrites
<1>4. CASE CandidateTransitioned(id, key)
  <2>1. request' = request
    BY <1>4 DEF CandidateTransitioned
  <2>2. QED
    BY <1>4, <2>1, CandidateWrites
<1>5. CASE ScoringCompleted(id, key)
  <2>1. request' = request
    BY <1>5 DEF ScoringCompleted
  <2>2. \A c \in DOMAIN candidates : GateNames(candidates'[c].gates) = GateNames(candidates[c].gates)
    BY <1>5, CandidateWrites
  <2>3. QED
    BY <1>5, <2>1, <2>2, CandidateWrites
<1>6. QED
  BY <1>1, <1>2, <1>3, <1>4, <1>5, CandidatesChangeOnlyHere

\* The scores that scoring.completed stores satisfy ScoresAgreeWithGates, and none
\* is null.
LEMMA ScoringStoresScores ==
  ASSUME RunInv, NEW id, NEW key, ScoringCompleted(id, key)
  PROVE  /\ ScoresAgreeWithGates'
         /\ \A c \in DOMAIN candidates' : candidates'[c].score # None
<1>1. PICK scores \in ScoreLists :
       /\ DOMAIN scores = DOMAIN candidates
       /\ EligibleRanksUnique(scores)
       /\ ScoresMatchGateOutcomes(scores)
       /\ candidates' =
            [c \in DOMAIN candidates |-> [candidates[c] EXCEPT !.score = scores[c]]]
  BY DEF ScoringCompleted
<1>2. \A c \in DOMAIN candidates :
        candidates'[c].score = scores[c] /\ candidates'[c].state = candidates[c].state
  <2> SUFFICES ASSUME NEW c \in DOMAIN candidates
               PROVE  /\ candidates'[c].score = scores[c]
                      /\ candidates'[c].state = candidates[c].state
    OBVIOUS
  <2>1. candidates'[c] = [candidates[c] EXCEPT !.score = scores[c]]
    BY <1>1
  <2>2. candidates[c] \in Candidate
    BY DEF RunInv, TypeOK
  <2>3. QED
    BY <2>1, <2>2 DEF Candidate
<1>3. DOMAIN candidates' = DOMAIN candidates
  BY <1>1
<1>4. \A c \in DOMAIN candidates' : candidates'[c].score # None
  BY <1>1, <1>2, <1>3, NoneIsNoValue DEF ScoreLists
<1>5. AllTerminal(candidates)'
  BY <1>2, <1>3 DEF RunInv, CandidatesInStep, Judged, ScoringCompleted, AllTerminal
<1>6. \A c \in DOMAIN candidates' :
        candidates'[c].score.eligible <=> candidates'[c].state = "ELIGIBLE"
  BY <1>1, <1>2, <1>3 DEF ScoresMatchGateOutcomes
<1>7. /\ \A c \in DOMAIN candidates' : candidates'[c].score.eligible => candidates'[c].score.rank # None
      /\ \A c, d \in DOMAIN candidates' :
           /\ candidates'[c].score.eligible /\ candidates'[d].score.eligible
           /\ candidates'[c].score.rank = candidates'[d].score.rank
           => c = d
  BY <1>1, <1>2, <1>3 DEF EligibleRanksUnique
<1>8. QED
  BY <1>4, <1>5, <1>6, <1>7 DEF ScoresAgreeWithGates, InState

\* Every event keeps scores absent before scoring.completed and complete after it.
LEMMA ScoresStayInStep ==
  ASSUME RunInv, NEW id, NEW key, Forward(id, key) \/ Interrupt(id, key)
  PROVE  ScoresInStep'
<1> USE DEF RunInv, ScoresInStep, Scored, Unscored, BeforeCandidates
<1>1. CASE UNCHANGED candidates /\ ~ScoringCompleted(id, key)
  <2>1. ScoresAgreeWithGates'
    BY <1>1 DEF ScoresAgreeWithGates, InState, AllTerminal
  <2>2. /\ runState' \in Unscored => runState \in Unscored \/ DOMAIN candidates = {}
        /\ runState' \in Scored => runState \in Scored
    <3>1. ASSUME NEW stage \in FailingStages, StageFailed(id, key, stage)
          PROVE  runState' \in {runState, "FAILED"}
      BY <3>1 DEF StageFailed
    <3>2. QED
      BY <1>1, <3>1 DEF Forward, Interrupt, RunReceived, SourceResolved,
         InventoryCompleted, SpecificationCompleted, CheckpointReady, CandidatesStarted,
         CandidateTransitioned, CandidatesEvaluated, FalsificationCompleted,
         VerdictSelected, VerdictAbstained, RunCanceled, CancelRequested, RunFailed
  <2>3. QED
    BY <1>1, <2>1, <2>2
<1>2. ASSUME \/ CheckpointReady(id, key) \/ CandidatesStarted(id, key)
             \/ CandidateTransitioned(id, key)
      PROVE  ScoresInStep'
  <2>1. \A c \in DOMAIN candidates' : candidates'[c].score = None
    <3>1. CASE CheckpointReady(id, key)
      BY <3>1 DEF CheckpointReady, NewCandidate
    <3>2. CASE CandidatesStarted(id, key)
      BY <3>2, CandidateWrites DEF CandidatesStarted
    <3>3. CASE CandidateTransitioned(id, key)
      BY <3>3, CandidateWrites DEF CandidateTransitioned
    <3>4. QED
      BY <1>2, <3>1, <3>2, <3>3
  <2>2. runState' \notin Scored
    BY <1>2 DEF CheckpointReady, CandidatesStarted, CandidateTransitioned
  <2>3. QED
    BY <2>1, <2>2 DEF ScoresAgreeWithGates
<1>3. CASE ScoringCompleted(id, key)
  BY <1>3, ScoringStoresScores DEF ScoringCompleted
<1>4. QED
  BY <1>1, <1>2, <1>3, CandidatesChangeOnlyHere

\* A verdict is of one of the two kinds.
LEMMA NoVerdictBefore ==
  ASSUME RunInv, runState \notin {"SELECTED", "ABSTAINED"}
  PROVE  verdict.kind = "none"
  BY DEF RunInv, TypeOK, RunParses, SelectedVerdicts, AbstainedVerdicts, NoVerdict

\* A stored verdict goes on agreeing with the candidates: nothing moves them after it.
LEMMA VerdictStaysInStep ==
  ASSUME RunInv, NEW id, NEW key, Forward(id, key) \/ Interrupt(id, key)
  PROVE  VerdictInStep'
<1> USE DEF RunInv, VerdictInStep, VerdictListsMatchCandidates, InState
<1>1. CASE VerdictSelected(id, key) \/ VerdictAbstained(id, key)
  BY <1>1 DEF VerdictSelected, VerdictAbstained
<1>2. CASE UNCHANGED <<verdict, candidates>>
  BY <1>2
<1>3. CASE runState \notin {"SELECTED", "ABSTAINED"} /\ UNCHANGED verdict
  BY <1>3, NoVerdictBefore DEF RunParses
<1>4. QED
  BY <1>1, <1>2, <1>3 DEF Forward, Interrupt, RunReceived, SourceResolved, InventoryCompleted,
     SpecificationCompleted, CheckpointReady, CandidatesStarted, CandidateTransitioned,
     CandidatesEvaluated, FalsificationCompleted, ScoringCompleted, RunCanceled, StageFailed,
     CancelRequested, RunFailed, OnlyRunState

\* Every event keeps the retry counts within the budget: only stage.failed writes them.
LEMMA RetriesStayInStep ==
  ASSUME RunInv, NEW id, NEW key, Forward(id, key) \/ Interrupt(id, key)
  PROVE  RetriesInStep'
<1> USE DEF RunInv, RetriesInStep, RetryBudget
<1>1. CASE RunReceived(id, key)
  <2>1. \A s \in Stages : retryCounts'[s] = 0
    BY <1>1 DEF RunReceived
  <2>2. request'.maxRetries \in Nat
    BY <1>1, RunRequestsAreRequests DEF RunReceived, RunRequest
  <2>3. failure' = "none"
    BY <1>1 DEF RunReceived, RunParses
  <2>4. QED
    BY <1>1, <2>1, <2>2, <2>3 DEF RunReceived, Stages
<1>2. ASSUME NEW stage \in FailingStages, StageFailed(id, key, stage)
      PROVE  RetriesInStep'
  <2>1. stage \in Stages /\ runState \notin {"NONE", "FAILED"}
    BY <1>2, FailingStagesAreStages DEF StageFailed, StageStates, Stages
  <2>2. request \in RunRequests /\ request.maxRetries \in Nat
    BY <2>1, RunRequestsAreRequests DEF TypeOK, RunRequest
  <2>3. failure = "none" /\ failure \notin Stages
    BY <2>1 DEF RunParses, Stages
  <2>4. \A s \in Stages : retryCounts[s] \in Nat /\ retryCounts[s] <= request.maxRetries
    BY <2>1, <2>2, <2>3 DEF TypeOK
  <2>5. retryCounts' = [retryCounts EXCEPT ![stage] = retryCounts[stage] + 1]
        /\ request' = request /\ runState' # "NONE"
    BY <1>2, <2>1 DEF StageFailed
  <2>6. \A s \in Stages : retryCounts'[s] = IF s = stage THEN retryCounts[s] + 1 ELSE retryCounts[s]
    BY <2>1, <2>5 DEF TypeOK
  <2>7. CASE retryCounts[stage] + 1 <= request.maxRetries
    <3>1. failure' = "none" /\ failure' \notin Stages
      BY <1>2, <2>3, <2>7 DEF StageFailed, WithinBudget
    <3>2. QED
      BY <2>2, <2>4, <2>5, <2>6, <2>7, <3>1
  <2>8. CASE ~(retryCounts[stage] + 1 <= request.maxRetries)
    <3>1. failure' = stage /\ runState' = "FAILED"
      BY <1>2, <2>8 DEF StageFailed, WithinBudget
    <3>2. retryCounts'[stage] = request.maxRetries + 1
      BY <2>1, <2>2, <2>4, <2>6, <2>8
    <3>3. QED
      BY <2>1, <2>2, <2>4, <2>5, <2>6, <3>1, <3>2
  <2>9. QED
    BY <2>7, <2>8
<1>3. CASE RunFailed(id, key)
  <2>1. runState # "NONE" /\ failure = "none" /\ runState' # "NONE"
    BY <1>3 DEF RunFailed, Active, RunParses, TerminalRunStates
  <2>2. \A s \in Stages : s # "none" /\ s # "reported"
    BY DEF Stages
  <2>3. UNCHANGED <<request, retryCounts>> /\ failure' = "reported"
    BY <1>3 DEF RunFailed
  <2>4. QED
    BY <2>1, <2>2, <2>3
<1>4. CASE /\ UNCHANGED <<request, failure, retryCounts>>
           /\ runState # "NONE" /\ runState' # "NONE" /\ runState # "FAILED"
  <2>1. \A s \in Stages : failure # s
    BY <1>4 DEF RunParses, Stages
  <2>2. QED
    BY <1>4, <2>1
<1>5. QED
  BY <1>1, <1>2, <1>3, <1>4 DEF Forward, Interrupt, SourceResolved, InventoryCompleted,
     SpecificationCompleted, CheckpointReady, CandidatesStarted, CandidateTransitioned,
     CandidatesEvaluated, FalsificationCompleted, ScoringCompleted, VerdictSelected,
     VerdictAbstained, RunCanceled, CancelRequested, OnlyRunState, Active, TerminalRunStates

\* The inductive invariant holds of the initial machine state.
LEMMA RunInvInitially == Init => RunInv
<1> SUFFICES ASSUME Init PROVE RunInv
  OBVIOUS
<1>1. TypeOK
  BY TypesInitially
<1>2. RunParses
  BY DEF Init, RunParses, EmptyFunction, NoVerdict, StatesRequiringSource,
     StatesRequiringCandidates, RunStates
<1>3. CandidatesInStep /\ EligibleReported /\ ScoresInStep
  BY DEF Init, CandidatesInStep, EligibleReported, ScoresInStep, ScoresAgreeWithGates,
     EmptyFunction, Judged, Scored
<1>4. VerdictInStep /\ RetriesInStep
  BY DEF Init, VerdictInStep, RetriesInStep, RetryBudget, NoVerdict
<1>5. QED
  BY <1>1, <1>2, <1>3, <1>4 DEF RunInv

\* The inductive invariant is kept by every event the reducer applies.
LEMMA RunInvKept ==
  ASSUME RunInv, TypeOK', [Next]_vars
  PROVE  RunInv'
<1>1. CASE UNCHANGED vars
  BY <1>1 DEF vars, machineVars, RunInv, RunParses, CandidatesInStep, EligibleReported,
     ScoresInStep, ScoresAgreeWithGates, VerdictInStep, VerdictListsMatchCandidates,
     RetriesInStep, RetryBudget, InState, AllTerminal
<1>2. ASSUME NEW e \in Envelopes, Forward(e[1], e[2]) \/ Interrupt(e[1], e[2])
      PROVE  RunInv'
  <2>1. RunParses'
    BY <1>2, EventsApply DEF Apply
  <2>2. CandidatesInStep' /\ EligibleReported' /\ ScoresInStep'
    BY <1>2, CandidatesStayInStep, EligibleStayReported, ScoresStayInStep
  <2>3. VerdictInStep' /\ RetriesInStep'
    BY <1>2, VerdictStaysInStep, RetriesStayInStep
  <2>4. QED
    BY <2>1, <2>2, <2>3 DEF RunInv
<1>3. QED
  BY <1>1, <1>2 DEF Next

\* The inductive invariant behind the theorems that follow.
THEOREM RunInvariant == Spec => []RunInv
<1>1. RunInv /\ TypeOK' /\ [Next]_vars => RunInv'
  BY RunInvKept
<1>2. QED
  BY RunInvInitially, TypeCorrect, <1>1, PTL DEF Spec

-----------------------------------------------------------------------------
(* What follows from the invariant *)

\* An eligible candidate has passed every configured gate: its report repeats no gate,
\* is as long as the configured set, and holds only passes.
LEMMA EligibleCoversGates ==
  ASSUME RunInv, NEW c \in DOMAIN candidates, candidates[c].state = "ELIGIBLE"
  PROVE  /\ \A g \in request.hardGates :
              \E i \in DOMAIN candidates[c].gates :
                candidates[c].gates[i] = [gate |-> g, status |-> "passed"]
         /\ \A i \in DOMAIN candidates[c].gates : candidates[c].gates[i].status = "passed"
<1> DEFINE gates == candidates[c].gates
           n == Len(gates)
<1>1. /\ gates \in Seq(GateResult) /\ n \in Nat /\ DOMAIN gates = 1..n
  BY DEF RunInv, TypeOK, Candidate
<1>2. CandidateParses(candidates[c])
  BY DEF RunInv, RunParses
<1>3. \A i \in 1..n : gates[i].status = "passed" /\ gates[i] \in GateResult
  BY <1>1, <1>2 DEF CandidateParses, StateParses
<1>4. IsFiniteSet(request.hardGates)
  <2>1. request \in RunRequests
    BY DEF RunInv, TypeOK, CandidatesInStep, BeforeCandidates
  <2>2. request.hardGates \subseteq Gates
    BY <2>1, RunRequestsAreRequests DEF RunRequest
  <2>3. QED
    BY <2>2, GatesFinite, FS_Subset
<1>5. SameSet(GateNames(gates), request.hardGates)
  BY DEF RunInv, EligibleReported
<1>6. IsInjective(GateNames(gates))
  BY <1>2 DEF CandidateParses
<1>7. GateNames(gates) = [i \in 1..n |-> gates[i].gate] /\ Len(GateNames(gates)) = n
  BY <1>1 DEF GateNames
<1>8. \A g \in request.hardGates : \E i \in 1..n : gates[i].gate = g
  <2> DEFINE names == GateNames(gates)
             required == request.hardGates
  <2>1. /\ n \in Nat /\ IsFiniteSet(required)
        /\ DOMAIN names = 1..n /\ Len(names) = n
        /\ IsInjective(names) /\ SameSet(names, required)
    BY <1>1, <1>4, <1>5, <1>6, <1>7
  <2>2. \A g \in required : \E i \in DOMAIN names : names[i] = g
    <3> HIDE DEF names, required, n
    <3> QED
      BY <2>1, SameSetCovers
  <2>3. QED
    BY <1>7, <2>2
<1>9. QED
  BY <1>1, <1>3, <1>8 DEF GateResult

LEMMA SelectionFollows == RunInv => SelectionSound
<1> SUFFICES ASSUME RunInv, verdict.kind = "selected" PROVE SelectionSound
  BY DEF SelectionSound
<1> DEFINE w == verdict.winner
<1>1. runState = "SELECTED" /\ w \in DOMAIN candidates /\ candidates[w].state = "ELIGIBLE"
  BY DEF RunInv, RunParses
<1>2. DOMAIN candidates = request.strategies /\ checkpoint = source /\ source # None
  BY <1>1 DEF RunInv, CandidatesInStep
<1>3. candidates[w].score # None /\ candidates[w].score.eligible
  BY <1>1 DEF RunInv, ScoresInStep, Scored, ScoresAgreeWithGates, InState
<1>4. AllTerminal(candidates)
  BY <1>1 DEF RunInv, CandidatesInStep, Judged
<1>5. QED
  BY <1>1, <1>2, <1>3, <1>4, EligibleCoversGates DEF SelectionSound

\* The winner of every selected run has passed every configured gate, under every
\* request, number of gates and order of events.
THEOREM SelectionIsSound == Spec => []SelectionSound
  BY RunInvariant, SelectionFollows, PTL

LEMMA PartitionFollows == RunInv => OutcomesPartition
<1> SUFFICES ASSUME RunInv, verdict.kind # "none" PROVE OutcomesPartition
  BY DEF OutcomesPartition
<1>1. runState \in {"SELECTED", "ABSTAINED"}
  BY NoVerdictBefore
<1>2. DOMAIN candidates = request.strategies /\ AllTerminal(candidates)
  BY <1>1 DEF RunInv, RunParses, CandidatesInStep, Judged, StatesRequiringCandidates,
     StatesRequiringSource, RunStates
<1>3. VerdictListsMatchCandidates(verdict.lists)
  BY DEF RunInv, VerdictInStep
<1>4. QED
  BY <1>2, <1>3 DEF OutcomesPartition, VerdictListsMatchCandidates, InState, AllTerminal,
     TerminalCandidateStates

\* Every verdict accounts for every configured strategy exactly once.
THEOREM VerdictsPartition == Spec => []OutcomesPartition
  BY RunInvariant, PartitionFollows, PTL

\* Scores and gates never disagree, in whatever way the run ends.
THEOREM ScoresAgree == Spec => []ScoresAgreeWithGates
<1>1. RunInv => ScoresAgreeWithGates
  BY DEF RunInv, ScoresInStep
<1>2. QED
  BY RunInvariant, <1>1, PTL

\* No stage is retried more often than the configuration allows.
THEOREM RetriesBounded == Spec => []RetryBudget
<1>1. RunInv => RetryBudget
  BY DEF RunInv, RetriesInStep
<1>2. QED
  BY RunInvariant, <1>1, PTL

-----------------------------------------------------------------------------
(* Steps *)

\* Operations survive every event: only candidate.transitioned writes one, and a
\* null operation keeps the old.
LEMMA StepKeepsOperations ==
  ASSUME RunInv, NEW id, NEW key, Forward(id, key) \/ Interrupt(id, key),
         NEW c \in DOMAIN candidates, candidates[c].op # None
  PROVE  c \in DOMAIN candidates' /\ candidates'[c].op # None
<1>1. CASE UNCHANGED candidates
  BY <1>1
<1>2. CASE CheckpointReady(id, key)
  BY <1>2 DEF CheckpointReady, RunInv, CandidatesInStep, BeforeCandidates
<1>3. CASE CandidatesStarted(id, key) \/ ScoringCompleted(id, key)
  BY <1>3, CandidateWrites DEF RunInv
<1>4. CASE CandidateTransitioned(id, key)
  <2>1. PICK d \in DOMAIN candidates :
          /\ \A x \in DOMAIN candidates \ {d} : candidates'[x] = candidates[x]
          /\ candidates[d].op # None => candidates'[d].op # None
    BY <1>4, CandidateWrites DEF RunInv
  <2>2. DOMAIN candidates' = DOMAIN candidates
    BY <1>4, CandidateWrites DEF RunInv
  <2>3. QED
    BY <2>1, <2>2
<1>5. QED
  BY <1>1, <1>2, <1>3, <1>4, CandidatesChangeOnlyHere

\* No recorded sandbox operation is ever forgotten.
THEOREM OperationsNeverForgotten == Spec => OperationsKept
<1>1. RunInv /\ [Next]_vars =>
        [\A c \in DOMAIN candidates :
           candidates[c].op # None => c \in DOMAIN candidates' /\ candidates'[c].op # None]_vars
  BY StepKeepsOperations DEF Next
<1>2. QED
  BY RunInvariant, <1>1, PTL DEF Spec, OperationsKept

\* A command about one candidate is not the barrier's command.
LEMMA CandidateCommandsDiffer ==
  ASSUME NEW c, NEW state
  PROVE  Command("evaluate-candidates") \notin CandidateCommands(c, state)
<1> SUFFICES ASSUME Command("evaluate-candidates") \in CandidateCommands(c, state)
             PROVE  FALSE
  OBVIOUS
<1> DEFINE kind == [PATCHING |-> "patch-candidate", BUILDING |-> "build-candidate",
                    VERIFYING |-> "verify-candidate", FALSIFYING |-> "falsify-candidate"]
<1>1. state \in DOMAIN kind
      /\ [kind |-> "evaluate-candidates"] = [kind |-> kind[state], candidate |-> c]
  BY DEF CandidateCommands, Command
<1>2. kind[state] # "evaluate-candidates"
  BY <1>1
<1>3. QED
  BY <1>1, <1>2

\* Of all events only the last settlement of candidate.transitioned asks for the
\* evaluation.
LEMMA StepIssuesBarrier ==
  ASSUME RunInv, RunInv', NEW id, NEW key, Forward(id, key) \/ Interrupt(id, key)
  PROVE  Command("evaluate-candidates") \in commands'
           <=> ~AllTerminal(candidates) /\ AllTerminal(candidates')
<1> USE DEF RunInv
<1>1. CASE CandidateTransitioned(id, key)
  <2>1. PICK c \in DOMAIN candidates :
         \E to \in CandidateTransitions[candidates[c].state], op \in Operations \cup {None},
            gates \in GateReports, why \in CandidateFailures :
           /\ candidates' = [candidates EXCEPT ![c] = Transitioned(candidates[c], to, op, gates, why)]
           /\ commands' = CandidateCommands(c, to) \cup SettlementCommands(to, candidates')
    BY <1>1 DEF CandidateTransitioned
  <2>2. PICK to \in CandidateTransitions[candidates[c].state], op \in Operations \cup {None},
             gates \in GateReports, why \in CandidateFailures :
           /\ candidates' = [candidates EXCEPT ![c] = Transitioned(candidates[c], to, op, gates, why)]
           /\ commands' = CandidateCommands(c, to) \cup SettlementCommands(to, candidates')
    BY <2>1
  <2>3. candidates'[c].state = to /\ c \in DOMAIN candidates'
    BY <2>2 DEF Transitioned, TypeOK
  <2>4. candidates[c].state \notin TerminalCandidateStates
    <3>1. candidates[c].state \in CandidateStates
      BY DEF TypeOK, Candidate
    <3>2. QED
      BY <2>2, <3>1 DEF CandidateTransitions, CandidateStates, TerminalCandidateStates
  <2>5. Command("evaluate-candidates") \in commands'
          <=> to \in TerminalCandidateStates /\ AllTerminal(candidates')
    BY <2>2, CandidateCommandsDiffer DEF SettlementCommands
  <2>6. QED
    BY <2>3, <2>4, <2>5 DEF AllTerminal
<1>2. CASE CheckpointReady(id, key)
  <2>1. AllTerminal(candidates) /\ commands' = {}
    BY <1>2 DEF CheckpointReady, CandidatesInStep, BeforeCandidates, AllTerminal
  <2>2. QED
    BY <2>1
<1>3. CASE CandidatesStarted(id, key)
  <2>1. DOMAIN candidates' # {}
    BY <1>3 DEF CandidatesStarted, RunParses, StatesRequiringCandidates, StatesRequiringSource,
       RunStates
  <2>2. \A c \in DOMAIN candidates' : candidates'[c].state = "PATCHING"
    BY <1>3, CandidateWrites
  <2>3. ~AllTerminal(candidates')
    BY <2>1, <2>2 DEF AllTerminal, TerminalCandidateStates
  <2>4. Command("evaluate-candidates") \notin commands'
    BY <1>3, CandidateCommandsDiffer DEF CandidatesStarted
  <2>5. QED
    BY <2>3, <2>4
<1>4. CASE ScoringCompleted(id, key)
  <2>1. AllTerminal(candidates)
    BY <1>4 DEF ScoringCompleted, CandidatesInStep, Judged
  <2>2. commands' = {Command("decide-verdict")}
    BY <1>4 DEF ScoringCompleted
  <2>3. QED
    BY <2>1, <2>2 DEF Command
<1>5. ASSUME UNCHANGED candidates, ~CandidateTransitioned(id, key), ~CheckpointReady(id, key),
             ~CandidatesStarted(id, key), ~ScoringCompleted(id, key)
      PROVE  Command("evaluate-candidates") \notin commands'
  BY <1>5 DEF Forward, Interrupt, Command, RunReceived, SourceResolved, InventoryCompleted,
     SpecificationCompleted, CandidatesEvaluated, FalsificationCompleted, VerdictSelected,
     VerdictAbstained, RunCanceled, StageFailed, CancelRequested, RunFailed
<1>6. QED
  BY <1>1, <1>2, <1>3, <1>4, <1>5, CandidatesChangeOnlyHere

\* The barrier: evaluate-candidates goes out with the last settlement, once.
THEOREM BarrierIssuedOnce == Spec => EvaluateIssuedOnce
<1>1. RunInv /\ RunInv' /\ [Next]_vars =>
        [lastEventId' # lastEventId =>
           (Command("evaluate-candidates") \in commands'
              <=> ~AllTerminal(candidates) /\ AllTerminal(candidates'))]_vars
  BY StepIssuesBarrier DEF Next
<1>2. QED
  BY RunInvariant, <1>1, PTL DEF Spec, EvaluateIssuedOnce

-----------------------------------------------------------------------------
(* The contract *)

Mapped == [c \in DOMAIN candidates |-> OutcomeOf(candidates[c].state)]

\* Restarting or scoring candidates changes no outcome.
LEMMA OutcomesUntouched ==
  ASSUME RunInv, NEW id, NEW key, CandidatesStarted(id, key) \/ ScoringCompleted(id, key)
  PROVE  Mapped' = Mapped
<1>1. DOMAIN candidates' = DOMAIN candidates
  BY CandidateWrites DEF RunInv
<1>2. ASSUME NEW c \in DOMAIN candidates
      PROVE  OutcomeOf(candidates'[c].state) = OutcomeOf(candidates[c].state)
  <2>1. CASE ScoringCompleted(id, key)
    BY <2>1, CandidateWrites DEF RunInv
  <2>2. CASE CandidatesStarted(id, key)
    <3>1. candidates[c].state = "QUEUED" /\ candidates'[c].state = "PATCHING"
      BY <2>2, CandidateWrites DEF RunInv, CandidatesInStep, CandidatesStarted, InState
    <3>2. QED
      BY <3>1 DEF OutcomeOf, TerminalCandidateStates
  <2>3. QED
    BY <2>1, <2>2
<1>3. QED
  BY <1>1, <1>2 DEF Mapped

\* A candidate that moves either stays open or settles, and only from open.
LEMMA TransitionSettles ==
  ASSUME RunInv, NEW id, NEW key, CandidateTransitioned(id, key)
  PROVE  \/ Mapped' = Mapped
         \/ \E c \in DOMAIN candidates :
              /\ Mapped[c] = "open"
              /\ \E o \in TerminalCandidateStates : Mapped' = [Mapped EXCEPT ![c] = o]
<1>1. PICK c \in DOMAIN candidates :
        /\ \A d \in DOMAIN candidates \ {c} : candidates'[d] = candidates[d]
        /\ candidates'[c].state \in CandidateTransitions[candidates[c].state]
  BY CandidateWrites DEF RunInv
<1>2. DOMAIN candidates' = DOMAIN candidates
  BY CandidateWrites DEF RunInv
<1> DEFINE from == candidates[c].state
           to == candidates'[c].state
<1>3. from \in CandidateStates \ TerminalCandidateStates /\ to \in CandidateStates
  <2>1. from \in CandidateStates
    BY DEF RunInv, TypeOK, Candidate
  <2>2. QED
    BY <1>1, <2>1 DEF CandidateTransitions, CandidateStates, TerminalCandidateStates
<1>4. Mapped[c] = "open"
  BY <1>3 DEF Mapped, OutcomeOf
<1>5. CASE to \in TerminalCandidateStates
  <2>1. Mapped' = [Mapped EXCEPT ![c] = to]
    BY <1>1, <1>2, <1>5 DEF Mapped, OutcomeOf
  <2>2. QED
    BY <1>4, <1>5, <2>1
<1>6. CASE to \notin TerminalCandidateStates
  <2>1. OutcomeOf(to) = "open" /\ OutcomeOf(from) = "open"
    BY <1>3, <1>6 DEF OutcomeOf
  <2>2. \A d \in DOMAIN candidates : OutcomeOf(candidates'[d].state) = OutcomeOf(candidates[d].state)
    BY <1>1, <2>1
  <2>3. Mapped' = Mapped
    BY <1>2, <2>2 DEF Mapped
  <2>4. QED
    BY <2>3
<1>7. QED
  BY <1>5, <1>6

\* Every event is a step of the contract, or changes nothing of what it speaks about.
LEMMA StepMaps ==
  ASSUME RunInv, RunInv', NEW id, NEW key, Forward(id, key) \/ Interrupt(id, key)
  PROVE  [Contract!Next]_(Contract!contractVars)
<1> DEFINE winner == IF verdict.kind = "selected" THEN verdict.winner ELSE None
<1> USE DEF Contract!Next, Contract!contractVars, PhaseOf, Mapped
<1>1. CASE RunReceived(id, key)
  BY <1>1 DEF RunReceived, Contract!Receive
<1>2. CASE \/ SourceResolved(id, key) \/ InventoryCompleted(id, key)
           \/ SpecificationCompleted(id, key) \/ FalsificationCompleted(id, key)
  BY <1>2 DEF SourceResolved, InventoryCompleted, SpecificationCompleted,
     FalsificationCompleted, OnlyRunState
<1>3. CASE CheckpointReady(id, key)
  <2>1. PICK seeds \in SUBSET Strategies : candidates' = [c \in seeds |-> NewCandidate]
    BY <1>3 DEF CheckpointReady
  <2>2. seeds # {}
    BY <1>3, <2>1 DEF CheckpointReady, RunInv, RunParses, StatesRequiringCandidates,
       StatesRequiringSource, RunStates
  <2>3. Mapped' = [c \in seeds |-> "open"]
    BY <2>1 DEF NewCandidate, OutcomeOf, TerminalCandidateStates
  <2>4. Mapped' \in {[c \in S |-> "open"] : S \in (SUBSET Strategies) \ {{}}}
    BY <2>2, <2>3
  <2>5. /\ PhaseOf(runState) = "preparing" /\ PhaseOf(runState') = "racing"
        /\ UNCHANGED verdict
    BY <1>3 DEF CheckpointReady
  <2>6. Contract!Enter
    BY <2>4, <2>5 DEF Contract!Enter
  <2>7. QED
    BY <2>6
<1>4. CASE CandidatesStarted(id, key)
  BY <1>4, OutcomesUntouched DEF CandidatesStarted
<1>5. CASE CandidateTransitioned(id, key)
  <2>1. UNCHANGED <<runState, verdict>> /\ runState = "CANDIDATES_RUNNING"
    BY <1>5 DEF CandidateTransitioned
  <2>2. CASE Mapped' = Mapped
    BY <2>1, <2>2
  <2>3. ASSUME NEW c \in DOMAIN candidates, Mapped[c] = "open",
               NEW o \in TerminalCandidateStates, Mapped' = [Mapped EXCEPT ![c] = o]
        PROVE  Contract!Settle(c)
    BY <2>1, <2>3 DEF Contract!Settle, Contract!Outcomes, TerminalCandidateStates
  <2>4. QED
    BY <1>5, <2>2, <2>3, TransitionSettles
<1>6. CASE CandidatesEvaluated(id, key)
  <2>1. \A c \in DOMAIN Mapped : Mapped[c] # "open"
    BY <1>6 DEF CandidatesEvaluated, AllTerminal, OutcomeOf, TerminalCandidateStates
  <2>2. QED
    BY <1>6, <2>1 DEF CandidatesEvaluated, OnlyRunState, Contract!Judge
<1>7. CASE ScoringCompleted(id, key)
  BY <1>7, OutcomesUntouched DEF ScoringCompleted
<1>8. CASE VerdictSelected(id, key)
  <2>1. verdict'.winner \in InState({"ELIGIBLE"}) /\ verdict'.kind = "selected"
    BY <1>8 DEF VerdictSelected, SelectedVerdicts
  <2>2. verdict'.winner \in DOMAIN Mapped /\ Mapped[verdict'.winner] = "ELIGIBLE"
    BY <2>1 DEF InState, OutcomeOf, TerminalCandidateStates
  <2>3. QED
    BY <1>8, <2>1, <2>2 DEF VerdictSelected, Contract!Decide
<1>9. CASE VerdictAbstained(id, key)
  <2>1. verdict'.kind = "abstained"
    BY <1>9 DEF VerdictAbstained, AbstainedVerdicts
  <2>2. QED
    BY <1>9, <2>1 DEF VerdictAbstained, Contract!Decide
<1>10. ASSUME NEW stage \in FailingStages, StageFailed(id, key, stage)
       PROVE  [Contract!Next]_(Contract!contractVars)
  <2>1. runState' = runState \/ runState' = "FAILED"
    BY <1>10 DEF StageFailed
  <2>2. runState \in {"RECEIVED", "SOURCE_RESOLVED", "INVENTORIED", "SPECIFIED",
                      "BASE_CHECKPOINT_READY", "CANDIDATES_RUNNING", "CANDIDATES_EVALUATED",
                      "FALSIFIED", "SCORED"}
    BY <1>10, FailingStagesAreStages DEF StageFailed, StageStates, Stages
  <2>3. UNCHANGED <<candidates, verdict>>
    BY <1>10 DEF StageFailed
  <2>4. QED
    BY <2>1, <2>2, <2>3 DEF Contract!Stop
<1>11. CASE CancelRequested(id, key) \/ RunFailed(id, key)
  BY <1>11 DEF CancelRequested, RunFailed, Active, TerminalRunStates, OnlyRunState, Contract!Stop,
     RunInv, TypeOK, RunStates
<1>12. CASE RunCanceled(id, key)
  BY <1>12 DEF RunCanceled, OnlyRunState, Contract!Stopped
<1>13. QED
  BY <1>1, <1>2, <1>3, <1>4, <1>5, <1>6, <1>7, <1>8, <1>9, <1>10, <1>11, <1>12
     DEF Forward, Interrupt

LEMMA InitMaps == Init => Contract!Init
  BY DEF Init, Contract!Init, PhaseOf, EmptyFunction, NoVerdict

\* The reducer implements RunContract.
THEOREM ImplementsContract == Spec => ContractSpec
<1>1. Init => Contract!Init
  BY InitMaps
<1>2. RunInv /\ RunInv' /\ [Next]_vars => [Contract!Next]_(Contract!contractVars)
  <2> SUFFICES ASSUME RunInv, RunInv', [Next]_vars
               PROVE  [Contract!Next]_(Contract!contractVars)
    OBVIOUS
  <2>1. CASE UNCHANGED vars
    BY <2>1 DEF vars, machineVars, Contract!contractVars
  <2>2. CASE Next
    BY <2>2, StepMaps DEF Next
  <2>3. QED
    BY <2>1, <2>2
<1>3. QED
  BY RunInvariant, <1>1, <1>2, PTL DEF Spec, ContractSpec, Contract!Spec
=============================================================================
