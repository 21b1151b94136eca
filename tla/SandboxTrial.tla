---------------------------- MODULE SandboxTrial ----------------------------
(***************************************************************************)
(* The sandbox phase of a live trial: executeLiveCase (packages/           *)
(* orchestrator) has a checkpoint made, forks one branch per strategy and  *)
(* a single-shot baseline from it, and finishes them concurrently, all     *)
(* through TokenFactorySandboxClient (packages/sandbox-runner).            *)
(*                                                                         *)
(* The client reaches the sandbox service by HTTP: a request may be lost,  *)
(* be answered too late, or be answered by an error, and a spawned         *)
(* operation goes on whether or not its ID ever reached the client.        *)
(*                                                                         *)
(* A job is one instance to spawn; its operation is named after it.  One   *)
(* status request stands for its retries, and one wait for all its polls.  *)
(* Left out: commands, policies, telemetry, and the stages before the      *)
(* checkpoint.  FAILED stands for CANCELLED too: nothing here tells them   *)
(* apart.                                                                  *)
(***************************************************************************)
EXTENDS FiniteSets, Functions

CONSTANTS
  Branches,   \* the jobs of the strategies' branches
  Checkpoint, \* the job that prepares the shared image
  SingleShot, \* the job of the baseline
  None

Forked == Branches \cup {SingleShot}
Jobs == Forked \cup {Checkpoint}

ASSUME BranchesFinite == IsFiniteSet(Branches)
ASSUME JobsDiffer == Checkpoint \notin Forked /\ SingleShot \notin Branches
ASSUME NoneIsNoValue == None \notin Jobs /\ None \notin BOOLEAN

\* Whether an operation was forked from the checkpoint's image, as its reply says.
Images == {"checkpoint", "other"}

VARIABLES
  service, \* job -> its request or operation at the service
  call,    \* job -> how far the client is with it
  target,  \* job -> the operation its reply named, or None
  image,   \* job -> the image its reply named, or None
  phase,   \* of executeLiveCase
  error,   \* what the trial or spawnBranches threw: "none", "plain", "unproven"
  summary  \* trial-summary.json: its cleanupComplete, or None

vars == <<service, call, target, image, phase, error, summary>>

Operating == {"active", "SUCCESS", "FAILED"}
Ended(j) == service[j] \in {"SUCCESS", "FAILED"}

Init ==
  /\ service = [j \in Jobs |-> "unsent"]
  /\ call = [j \in Jobs |-> "unsent"]
  /\ target = [j \in Jobs |-> None]
  /\ image = [j \in Jobs |-> None]
  /\ phase = "start"
  /\ error = "none"
  /\ summary = None

-----------------------------------------------------------------------------
(* The service *)

Accept(j) ==
  /\ service[j] = "sent"
  /\ service' = [service EXCEPT ![j] = "active"]
  /\ UNCHANGED <<call, target, image, phase, error, summary>>

End(j) ==
  /\ service[j] = "active"
  /\ \E s \in {"SUCCESS", "FAILED"} : service' = [service EXCEPT ![j] = s]
  /\ UNCHANGED <<call, target, image, phase, error, summary>>

-----------------------------------------------------------------------------
(* Calls of the client, one job at a time *)

\* The client moves on with job j and with nothing else.
Moves(j, from, to) ==
  /\ call[j] = from
  /\ call' = [call EXCEPT ![j] = to]
  /\ UNCHANGED <<service, phase, error, summary>>

\* Mutant: an operation is taken for granted before the service has accepted it.
SpawnedUnaccepted(j) ==
  /\ Moves(j, "posting", IF j = Checkpoint THEN "polling" ELSE "spawned")
  /\ target' = [target EXCEPT ![j] = j]
  /\ image' = [image EXCEPT ![j] = "checkpoint"]

\* spawn resolves.  The reply names an operation and an image; the client trusts
\* neither to be the job's own.  createCheckpoint goes on to wait at once.
Spawned(j) ==
  /\ service[j] \in Operating
  /\ Moves(j, "posting", IF j = Checkpoint THEN "polling" ELSE "spawned")
  /\ \E k \in Jobs : service[k] \in Operating /\ target' = [target EXCEPT ![j] = k]
  /\ \E i \in Images : image' = [image EXCEPT ![j] = i]

\* spawn rejects: an error status, a timeout, an unusable reply.  The service may
\* have started the operation, or may do so yet.
SpawnFails(j) == Moves(j, "posting", "unknown") /\ UNCHANGED <<target, image>>

\* waitForOperation returns when a poll reads a terminal status.
SeesEnd(j) ==
  /\ call[j] \in {"polling", "confirming"}
  /\ Ended(target[j])
  /\ Moves(j, call[j], IF call[j] = "polling" THEN "reading" ELSE "cleaned")
  /\ UNCHANGED <<target, image>>

\* It rejects at the deadline, or when a status request fails.  finishBranch then
\* cancels the operation; createCheckpoint does not.
WaitFails(j) ==
  /\ call[j] \in {"polling", "confirming"}
  /\ Moves(j, call[j],
           IF call[j] = "polling" /\ j # Checkpoint THEN "canceling" ELSE "unproven")
  /\ UNCHANGED <<target, image>>

\* The client is done with an ended operation once its events are read, and with them
\* the gate output if it succeeded.  finishBranch cancels when that fails; a failed
\* reading of the checkpoint's is one of its ways to fail below.
Finish(j) == Moves(j, "reading", "finished") /\ UNCHANGED <<target, image>>
ReadFails(j) == j # Checkpoint /\ Moves(j, "reading", "canceling") /\ UNCHANGED <<target, image>>

\* Mutant: takes an accepted cancellation for the end.
CancelProves(j) == Moves(j, "canceling", "cleaned") /\ UNCHANGED <<target, image>>

\* cancelOperation resolves: accepted, or refused because the operation has ended.
Cancel(j) == Moves(j, "canceling", "confirming") /\ UNCHANGED <<target, image>>

CancelFails(j) == Moves(j, "canceling", "unproven") /\ UNCHANGED <<target, image>>

-----------------------------------------------------------------------------
(* executeLiveCase, with spawnBranches in line *)

Become(S, state) == [j \in Jobs |-> IF j \in S THEN state ELSE call[j]]

Post(S) ==
  /\ service' = [j \in Jobs |-> IF j \in S THEN "sent" ELSE service[j]]
  /\ call' = Become(S, "posting")

Throw(kind) ==
  /\ phase' = "threw"
  /\ error' = kind
  /\ UNCHANGED <<service, call, target, image, summary>>

BeginCheckpoint ==
  /\ phase = "start"
  /\ phase' = "checkpoint"
  /\ Post({Checkpoint})
  /\ UNCHANGED <<target, image, error, summary>>

\* The checkpoint's operation succeeded, named its image, and its control run shows
\* a failing gate.
CheckpointReady ==
  /\ phase = "checkpoint"
  /\ call[Checkpoint] = "finished"
  /\ service[target[Checkpoint]] = "SUCCESS"
  /\ phase' = "branches"
  /\ Post(Branches)
  /\ UNCHANGED <<target, image, error, summary>>

CheckpointFails ==
  /\ phase = "checkpoint"
  /\ call[Checkpoint] \in {"unknown", "unproven", "finished"}
  /\ Throw("plain")

\* The jobs of the spawnBranches call under way, and its phases.
Group == IF phase \in {"branches", "branches-cleanup"} THEN Branches ELSE {SingleShot}
Spawning == phase \in {"branches", "single"}
Cleaning == phase \in {"branches-cleanup", "single-cleanup"}

\* Mutant: waits for every spawn to succeed.
SpawnsAllSucceeded == \A j \in Group : call[j] = "spawned"

\* Promise.allSettled over the spawn calls.
SpawnsSettled == \A j \in Group : call[j] \in {"spawned", "unknown"}

SpawnsFailed ==
  \E j \in Group : call[j] = "unknown" \/ (call[j] = "spawned" /\ image[j] # "checkpoint")

\* spawnBranches cancels what it has spawned before it rejects.
CleanUp ==
  /\ Spawning /\ SpawnsSettled /\ SpawnsFailed
  /\ phase' = IF phase = "branches" THEN "branches-cleanup" ELSE "single-cleanup"
  /\ call' = Become({j \in Group : call[j] = "spawned"}, "canceling")
  /\ UNCHANGED <<service, target, image, error, summary>>

Rejection == IF \E j \in Group : call[j] = "unproven" THEN "unproven" ELSE "plain"

\* Mutant: goes on with the first cleanup that fails.
CleanedUpFirst ==
  /\ Cleaning
  /\ \/ \E j \in Group : call[j] = "unproven"
     \/ \A j \in Group : call[j] \in {"unknown", "cleaned"}

CleanedUp == Cleaning /\ \A j \in Group : call[j] \in {"unknown", "cleaned", "unproven"}

BranchesRejected == phase = "branches-cleanup" /\ CleanedUp /\ Throw(Rejection)

\* Without its baseline the trial cancels the branches and ignores how that ends.
SingleShotRejected ==
  /\ phase = "single-cleanup" /\ CleanedUp
  /\ phase' = "abandon"
  /\ error' = Rejection
  /\ call' = Become(Branches, "canceling")
  /\ UNCHANGED <<service, target, image, summary>>

Abandoned ==
  /\ phase = "abandon"
  /\ \A j \in Branches : call[j] \in {"cleaned", "unproven"}
  /\ Throw(error)

BranchesSpawned ==
  /\ phase = "branches" /\ SpawnsSettled /\ ~SpawnsFailed
  /\ phase' = "single"
  /\ Post({SingleShot})
  /\ UNCHANGED <<target, image, error, summary>>

\* The baseline's command is measured after the branches have been spawned.
CommandTooLong == phase = "branches" /\ SpawnsSettled /\ ~SpawnsFailed /\ Throw("plain")

\* Mutant: does not compare the operations.
SameImage == \A j \in Forked : image[j] = "checkpoint"

\* assertBranchIdentity: one image, and operations of their own.
BranchesIdentified ==
  (\A j \in Forked : image[j] = "checkpoint") /\ IsInjective(Restrict(target, Forked))

SingleShotSpawned ==
  /\ phase = "single" /\ SpawnsSettled /\ ~SpawnsFailed
  /\ BranchesIdentified
  /\ phase' = "finish"
  /\ call' = Become(Forked, "polling")
  /\ UNCHANGED <<service, target, image, error, summary>>

Unidentified ==
  /\ phase = "single" /\ SpawnsSettled /\ ~SpawnsFailed
  /\ ~BranchesIdentified
  /\ Throw("plain")

\* All finishBranch calls have returned; none of them rejects.
BranchesFinished ==
  /\ phase = "finish"
  /\ \A j \in Forked : call[j] \in {"finished", "cleaned", "unproven"}
  /\ phase' = "record"
  /\ UNCHANGED <<service, call, target, image, error, summary>>

\* Mutant: the baseline is forgotten.
CleanupCompleteBranches == \A j \in Branches : call[j] # "unproven"

CleanupComplete == \A j \in Forked : call[j] # "unproven"

\* The summary is written first, whatever the cleanup; then its outcome counts.
Record ==
  /\ phase = "record"
  /\ summary' = CleanupComplete
  /\ phase' = IF CleanupComplete THEN "returned" ELSE "threw"
  /\ error' = IF CleanupComplete THEN "none" ELSE "unproven"
  /\ UNCHANGED <<service, call, target, image>>

\* Artifacts, events, snapshot or manifest cannot be stored.
RecordFails == phase = "record" /\ Throw("plain")

-----------------------------------------------------------------------------
Service == \E j \in Jobs : Accept(j) \/ End(j)

Client ==
  \/ \E j \in Jobs :
       \/ Spawned(j) \/ SpawnFails(j) \/ SeesEnd(j) \/ WaitFails(j)
       \/ Finish(j) \/ ReadFails(j) \/ Cancel(j) \/ CancelFails(j)
  \/ BeginCheckpoint \/ CheckpointReady \/ CheckpointFails
  \/ BranchesSpawned \/ CommandTooLong \/ CleanUp \/ BranchesRejected
  \/ SingleShotSpawned \/ Unidentified \/ SingleShotRejected \/ Abandoned
  \/ BranchesFinished \/ Record \/ RecordFails

Next == Service \/ Client

Spec == Init /\ [][Next]_vars

\* Requests time out and waits have deadlines: the client never stands still.  The
\* service owes it nothing.
FairSpec == Spec /\ WF_vars(Client)

-----------------------------------------------------------------------------
(* Properties *)

CallStates == {"unsent", "posting", "spawned", "unknown", "polling", "reading", "finished",
               "canceling", "confirming", "cleaned", "unproven"}

Phases == {"start", "checkpoint", "branches", "branches-cleanup", "single",
           "single-cleanup", "abandon", "finish", "record", "returned", "threw"}

\* The shape of the service's, the client's and the trial's state; the client only
\* ever waits for an operation whose ID it was given.
TypeOK ==
  /\ service \in [Jobs -> Operating \cup {"unsent", "sent"}]
  /\ call \in [Jobs -> CallStates]
  /\ target \in [Jobs -> Jobs \cup {None}]
  /\ image \in [Jobs -> Images \cup {None}]
  /\ phase \in Phases /\ error \in {"none", "plain", "unproven"}
  /\ summary \in BOOLEAN \cup {None}
  /\ \A j \in Jobs :
       /\ call[j] = "unsent" <=> service[j] = "unsent"
       /\ target[j] = None <=> call[j] \in {"unsent", "posting", "unknown"}
       /\ target[j] # None => service[target[j]] \in Operating

\* A summary that claims complete cleanup is true: no operation the trial was ever
\* told of, the baseline's and the checkpoint's included, is still running, although
\* waits timed out and cancellations raced with completions.
RecordedCleanup ==
  summary = TRUE => \A j \in Jobs : target[j] # None => Ended(target[j])

\* A trial that is recorded compared what it says it compared: every branch and the
\* baseline ran in an operation of its own, forked from the one checkpoint image,
\* which a successful operation had produced.
SiblingsCompared ==
  phase \in {"finish", "record", "returned"} \/ summary # None =>
    /\ \A j \in Forked : image[j] = "checkpoint" /\ target[j] # None
    /\ \A j, k \in Forked : target[j] = target[k] => j = k
    /\ service[target[Checkpoint]] = "SUCCESS"

\* spawnBranches is all or nothing towards the operations it knows: if it rejects
\* without saying that cleanup is unproven, all of them have ended, also those of
\* replies that came after the first rejection.
CreationCleansUp ==
  [][Cleaning /\ ~Cleaning' /\ error' = "plain" =>
       \A j \in Group : target[j] # None => Ended(target[j])]_vars

\* No call outlives the trial: when it has returned or thrown, no request is in
\* flight whose reply could bring an operation that nobody will finish.
NoCallLeftBehind ==
  phase \in {"returned", "threw"} =>
    \A j \in Jobs : call[j] \notin {"posting", "polling", "reading", "canceling", "confirming"}

\* However the service behaves, the sandbox phase ends.
TrialEnds == <>(phase \in {"returned", "threw"})

\* An error that does not say that cleanup is unproven leaves no known operation
\* running.
PlainErrorLeavesNothing ==
  phase = "threw" /\ error = "plain" => \A j \in Jobs : target[j] # None => Ended(target[j])

-----------------------------------------------------------------------------
(* What makes the properties above inductive: the phase of the trial says how  *)
(* far the calls of each group are.                                        *)

Spawns == {"posting", "spawned", "unknown"}
Cleanups == {"unknown", "canceling", "confirming", "cleaned", "unproven"}
Over == {"unknown", "cleaned", "unproven"}
Settled == {"finished", "cleaned", "unproven"}
Finishing == Settled \cup {"polling", "reading", "canceling", "confirming"}
Pending == {"posting", "polling", "reading", "canceling", "confirming"}

Calls(S, states) == \A j \in S : call[j] \in states

CallsInStep ==
  /\ phase = "start" => Calls(Jobs, {"unsent"})
  /\ phase = "checkpoint" => Calls(Forked, {"unsent"}) /\ call[Checkpoint] # "unsent"
  /\ phase = "branches" => Calls(Branches, Spawns) /\ Calls({SingleShot}, {"unsent"})
  /\ phase = "branches-cleanup" => Calls(Branches, Cleanups) /\ Calls({SingleShot}, {"unsent"})
  /\ phase = "single" => Calls(Branches, {"spawned"}) /\ Calls({SingleShot}, Spawns)
  /\ phase = "single-cleanup" => Calls(Branches, {"spawned"}) /\ Calls({SingleShot}, Cleanups)
  /\ phase = "abandon" => Calls(Branches, Cleanups \ {"unknown"}) /\ Calls({SingleShot}, Over)
  /\ phase = "finish" => Calls(Forked, Finishing)
  /\ phase = "record" => Calls(Forked, Settled)
  /\ phase \in {"returned", "threw"} => Calls(Jobs, CallStates \ Pending)

\* Past its phase the checkpoint has been made.
CheckpointMade ==
  phase \notin {"start", "checkpoint", "threw"} \/ summary # None =>
    call[Checkpoint] = "finished" /\ service[target[Checkpoint]] = "SUCCESS"

\* The client is done with an operation only after it has seen it end.
SeenEnded == \A j \in Jobs : call[j] \in {"reading", "finished", "cleaned"} => Ended(target[j])

\* What the branches brought to the phases in which they are finished.
BranchesKept ==
  /\ phase \in {"single", "single-cleanup", "abandon"} => \A j \in Branches : image[j] = "checkpoint"
  /\ phase \in {"finish", "record", "returned"} \/ summary # None =>
       Calls(Forked, Finishing) /\ BranchesIdentified

\* The summary is the last thing that is written.
SummaryInStep ==
  /\ phase \notin {"returned", "threw"} => summary = None
  /\ phase = "returned" => summary # None
  /\ summary # None => Calls(Forked, Settled) /\ summary = CleanupComplete

TrialInv == TypeOK /\ CallsInStep /\ CheckpointMade /\ SeenEnded /\ BranchesKept /\ SummaryInStep
=============================================================================
