----------------------------- MODULE Promotion ------------------------------
(***************************************************************************)
(* promoteLatestEvidence (packages/orchestrator/src/promotion.ts): the     *)
(* newest private suite is checked, copied into a staging directory beside *)
(* each public mirror, and swapped in by replaceDirectoriesAtomically,     *)
(* which sets the old directories aside, renames the new ones into place   *)
(* and puts the old ones back when that fails.                             *)
(*                                                                         *)
(* Each file-system call is a step; it may fail, and the process may die   *)
(* between any two.  A directory is a bundle: the evidence it was built    *)
(* from and the parts that are there.  One process promotes at a time.     *)
(* Left out: the wording of the report and the README, and the comparison  *)
(* of the two mirrors' hash lists, which are functions of one input.       *)
(***************************************************************************)
EXTENDS LiveEvidence

CONSTANTS
  Mirrors,   \* how many public mirrors there are, numbered from 1
  MaxSuites, \* bound: suites recorded
  MaxTime,   \* bound: the clock
  MaxFaults  \* bound: failed calls and crashes

ASSUME MirrorsPositive == Mirrors \in Nat \ {0}
ASSUME BoundsNat == MaxSuites \in Nat /\ MaxTime \in Nat /\ MaxFaults \in Nat

VARIABLES
  recorded,    \* private suite evidence, oldest first
  now,         \* the clock
  destination, \* mirror -> the bundle the readers see
  backup,      \* mirror -> the bundle set aside
  staging,     \* mirror -> the bundle being built
  pc,          \* of the promotion
  at,          \* the mirror its loop is at
  evidence,    \* what it promotes
  had,         \* mirror -> hadDestination
  installed,   \* mirror -> installed
  outcome,     \* of the last promotion
  before,      \* the mirrors when the last promotion began
  published,   \* whether a promotion has ever returned
  faults       \* failed calls and crashes so far

directories == <<destination, backup, staging>>
history == <<before, published, faults>>
loop == <<at, evidence, had, installed>>
vars == <<recorded, now, directories, pc, loop, outcome, history>>

Numbers == 1 .. Mirrors

\* The parts of a bundle: the replays, evaluation-suite.json, the primary trial-summary.json,
\* report.md, the cases' summaries, SHA256SUMS.
Parts == {"replay", "suite", "summary", "report", "cases", "sums"}

Absent == [of |-> None, parts |-> {}]
Whole(b) == b.of # None /\ b.parts = Parts

Init ==
  /\ recorded = <<>>
  /\ now = 0
  /\ destination = [m \in Numbers |-> Absent]
  /\ backup = [m \in Numbers |-> Absent]
  /\ staging = [m \in Numbers |-> Absent]
  /\ pc = "idle"
  /\ at = 1
  /\ evidence = None
  /\ had = [m \in Numbers |-> FALSE]
  /\ installed = [m \in Numbers |-> FALSE]
  /\ outcome = "none"
  /\ before = destination
  /\ published = FALSE
  /\ faults = 0

-----------------------------------------------------------------------------
(* Around the promotion *)

\* runLiveEvaluationSuite writes evaluation-suite.json, of runs of its own; the smoke may
\* have been reused.
RecordSuite ==
  /\ Len(recorded) < MaxSuites
  /\ \E s \in Suites \ {e.suite : e \in Members(recorded)}, smokeAt \in 0 .. now :
       /\ Fresh(smokeAt, now)
       /\ recorded' = Append(recorded, [suite |-> s, at |-> now, smokeAt |-> smokeAt])
  /\ UNCHANGED <<now, directories, pc, loop, outcome, history>>

Tick ==
  /\ now < MaxTime
  /\ now' = now + 1
  /\ UNCHANGED <<recorded, directories, pc, loop, outcome, history>>

-----------------------------------------------------------------------------
(* promoteLatestEvidence *)

Nowhere == [m \in Numbers |-> FALSE]

\* The promotion is over: its local variables are gone.
Leave(from, result) ==
  /\ pc = from
  /\ pc' = "idle"
  /\ outcome' = result
  /\ at' = 1 /\ had' = Nowhere /\ installed' = Nowhere
  /\ UNCHANGED <<recorded, now, evidence, before>>

\* Mutant: promotes the newest suite without the checks of loadSuiteEvidence.
BeginUnchecked ==
  /\ pc = "idle" /\ recorded # <<>>
  /\ pc' = "clearing"
  /\ evidence' = recorded[Len(recorded)]
  /\ before' = destination
  /\ outcome' = "running"
  /\ UNCHANGED <<recorded, now, directories, at, had, installed, published, faults>>

\* Mutant: the suites are not sorted by their time.
BeginUnsorted ==
  /\ pc = "idle" /\ recorded # <<>>
  /\ pc' = "clearing"
  /\ evidence' \in {e \in Members(recorded) : SuiteEvidenceHolds(e, now)}
  /\ before' = destination
  /\ outcome' = "running"
  /\ UNCHANGED <<recorded, now, directories, at, had, installed, published, faults>>

\* The newest suite is loaded and checked.
Begin ==
  /\ pc = "idle" /\ recorded # <<>>
  /\ SuiteEvidenceHolds(recorded[Len(recorded)], now)
  /\ pc' = "clearing"
  /\ evidence' = recorded[Len(recorded)]
  /\ before' = destination
  /\ outcome' = "running"
  /\ UNCHANGED <<recorded, now, directories, at, had, installed, published, faults>>

\* No suite, or one that does not hold.
Refuse ==
  /\ pc = "idle"
  /\ recorded # <<>> => ~ SuiteEvidenceHolds(recorded[Len(recorded)], now)
  /\ outcome' = "refused"
  /\ UNCHANGED <<recorded, now, directories, pc, loop, history>>

\* The promotion goes on within its own variables.
Promoting(from, to) ==
  /\ pc = from
  /\ pc' = to
  /\ UNCHANGED <<recorded, now, outcome, evidence, before, faults>>

\* Mutant: the loop is left one mirror too late.
NextMirrorTooFar(from, again, then) ==
  /\ Promoting(from, IF at <= Mirrors THEN again ELSE then)
  /\ at' = IF at <= Mirrors THEN at + 1 ELSE 1

\* The loop goes to the next mirror, or leaves for `then` after the last one.
NextMirror(from, again, then) ==
  /\ Promoting(from, IF at < Mirrors THEN again ELSE then)
  /\ at' = IF at < Mirrors THEN at + 1 ELSE 1

ClearStaging ==
  /\ Promoting("clearing", "building")
  /\ staging' = [staging EXCEPT ![at] = [of |-> evidence, parts |-> {}]]
  /\ UNCHANGED <<destination, backup, at, had, installed, published>>

\* buildStagingBundle copies and verifies the replays and writes the other parts; no one
\* looks at a bundle that is not yet whole, so that how far it is does not matter.
Build ==
  /\ NextMirror("building", "clearing", "preparing")
  /\ staging' = [staging EXCEPT ![at].parts = Parts]
  /\ UNCHANGED <<destination, backup, had, installed, published>>

\* The first loop of replaceDirectoriesAtomically: an old backup goes ...
DropBackup ==
  /\ Promoting("preparing", "setting aside")
  /\ backup' = [backup EXCEPT ![at] = Absent]
  /\ UNCHANGED <<destination, staging, at, had, installed, published>>

\* Mutant: the directory is removed and not kept.
NotSetAside ==
  /\ NextMirror("setting aside", "preparing", "installing")
  /\ had' = [had EXCEPT ![at] = FALSE]
  /\ destination' = [destination EXCEPT ![at] = Absent]
  /\ UNCHANGED <<backup, staging, installed, published>>

\* ... and the directory, if there is one, becomes the backup.
SetAside ==
  /\ NextMirror("setting aside", "preparing", "installing")
  /\ had' = [had EXCEPT ![at] = destination[at] # Absent]
  /\ backup' = [backup EXCEPT ![at] = destination[at]]
  /\ destination' = [destination EXCEPT ![at] = Absent]
  /\ UNCHANGED <<staging, installed, published>>

\* The second loop.
Install ==
  /\ NextMirror("installing", "installing", "dropping")
  /\ destination' = [destination EXCEPT ![at] = staging[at]]
  /\ staging' = [staging EXCEPT ![at] = Absent]
  /\ installed' = [installed EXCEPT ![at] = TRUE]
  /\ UNCHANGED <<backup, had, published>>

\* The backups are removed concurrently.
DropOld ==
  /\ Promoting("dropping", "dropping")
  /\ \E m \in Numbers :
       /\ had[m] /\ backup[m] # Absent
       /\ backup' = [backup EXCEPT ![m] = Absent]
  /\ UNCHANGED <<destination, staging, at, had, installed, published>>

\* promoteLatestEvidence returns.
Return ==
  /\ \A m \in Numbers : had[m] => backup[m] = Absent
  /\ Leave("dropping", "promoted")
  /\ published' = TRUE
  /\ UNCHANGED <<directories, faults>>

-----------------------------------------------------------------------------
(* Failures *)

Fault == faults < MaxFaults /\ faults' = faults + 1

\* The promotion rejects: whatever it has done stays.
Throw(from) ==
  /\ Leave(from, "failed") /\ Fault
  /\ UNCHANGED <<destination, staging, published>>

\* A copy, a check or a write fails while the bundle is built.
BuildFails == \E p \in {"clearing", "building"} : Throw(p) /\ UNCHANGED backup

\* The first loop is outside of the try block.
PrepareFails == \E p \in {"preparing", "setting aside"} : Throw(p) /\ UNCHANGED backup

\* Removing the old directories: Promise.all rejects, the other removals go on.
DropOldFails ==
  /\ Throw("dropping")
  /\ \E stuck \in {m \in Numbers : had[m] /\ backup[m] # Absent} :
       \E gone \in SUBSET (Numbers \ {stuck}) :
         backup' = [m \in Numbers |-> IF had[m] /\ m \in gone THEN Absent ELSE backup[m]]

\* An install fails: the catch block goes through the mirrors in reverse order.
InstallFails ==
  /\ pc = "installing" /\ Fault
  /\ pc' = "removing"
  /\ at' = Mirrors
  /\ UNCHANGED <<recorded, now, directories, evidence, had, installed, outcome, before, published>>

\* rm of an installed directory is not atomic.
RemoveInstalled ==
  /\ Promoting("removing", "removing")
  /\ installed[at] /\ destination[at] # Absent
  /\ destination' = [destination EXCEPT ![at] = IF Whole(@) THEN [@ EXCEPT !.parts = {}]
                                                          ELSE Absent]
  /\ UNCHANGED <<backup, staging, at, had, installed, published>>

Removed ==
  /\ Promoting("removing", "putting back")
  /\ installed[at] => destination[at] = Absent
  /\ UNCHANGED <<directories, at, had, installed, published>>

\* The next mirror in reverse order, or the end of the catch block.
RolledBack ==
  \/ /\ at > 1
     /\ Promoting("putting back", "removing")
     /\ at' = at - 1
     /\ UNCHANGED <<had, installed>>
  \/ at = 1 /\ Leave("putting back", "rolled back") /\ UNCHANGED faults

\* Mutant: the mirrors that had been installed are removed, and that is all.
RemovedOnly == RolledBack /\ UNCHANGED <<directories, published>>

PutBack ==
  /\ RolledBack
  /\ destination' = IF had[at] THEN [destination EXCEPT ![at] = backup[at]] ELSE destination
  /\ backup' = IF had[at] THEN [backup EXCEPT ![at] = Absent] ELSE backup
  /\ UNCHANGED <<staging, published>>

\* A failure in the catch block replaces the error that brought it there.
RollBackFails == \E p \in {"removing", "putting back"} : Throw(p) /\ UNCHANGED backup

\* The process dies; nothing is cleaned up when the next one starts.
Crash ==
  /\ pc # "idle" /\ Leave(pc, "crashed") /\ Fault
  /\ UNCHANGED <<directories, published>>

PromotionStep ==
  \/ RecordSuite \/ Tick
  \/ Begin \/ Refuse \/ ClearStaging \/ Build
  \/ DropBackup \/ SetAside \/ Install \/ DropOld \/ Return
  \/ BuildFails \/ PrepareFails \/ DropOldFails
  \/ InstallFails \/ RemoveInstalled \/ Removed \/ PutBack \/ RollBackFails
  \/ Crash

PromotionSpec == Init /\ [][PromotionStep]_vars

-----------------------------------------------------------------------------
(* Properties *)

Evidence == [suite : Suites, at : 0 .. MaxTime, smokeAt : 0 .. MaxTime]
Bundles == [of : Evidence \cup {None}, parts : SUBSET Parts]

\* None is told apart from evidence.
ASSUME NoneIsNoEvidence == None \notin Evidence

Phases ==
  {"idle", "clearing", "building", "preparing", "setting aside", "installing", "dropping",
   "removing", "putting back"}
Outcomes ==
  {"none", "running", "refused", "promoted", "rolled back", "failed", "crashed"}

\* The variables keep their types.
PromotionTypeOK ==
  /\ recorded \in Seq(Evidence) /\ Len(recorded) <= MaxSuites
  /\ now \in 0 .. MaxTime
  /\ {destination, backup, staging, before} \subseteq [Numbers -> Bundles]
  /\ pc \in Phases /\ at \in Numbers /\ outcome \in Outcomes
  /\ evidence \in Evidence \cup {None}
  /\ had \in [Numbers -> BOOLEAN] /\ installed \in [Numbers -> BOOLEAN]
  /\ published \in BOOLEAN /\ faults \in 0 .. MaxFaults

\* When promoteLatestEvidence returns, both mirrors hold the same whole bundle, and it is
\* of evidence that held when the promotion began, however the attempts before it ended.
Holds(e) ==
  e # None /\ e \in Members(recorded) /\ \E t \in e.at .. now : SuiteEvidenceHolds(e, t)

MirrorsAgree ==
  outcome = "promoted" =>
    Holds(evidence) /\ \A m \in Numbers : destination[m] = [of |-> evidence, parts |-> Parts]

\* A promotion that could not install a mirror, and reports it, has put both mirrors back
\* to what they were.
RollBackRestores == outcome = "rolled back" => destination = before

\* One failed call or one crash, at any point of any promotion, loses no public copy: once
\* a promotion has returned, each mirror has a whole bundle at its destination, as its
\* backup, or as the staging directory that is about to be installed.
OneFaultLosesNothing ==
  published /\ faults <= 1 =>
    \A m \in Numbers : Whole(destination[m]) \/ Whole(backup[m]) \/ Whole(staging[m])

\* The last mirror, which the web application serves, is never seen half there: whatever
\* fails, and wherever the process dies, its bundle is whole or absent.
LastMirrorWhole == destination[Mirrors] = Absent \/ Whole(destination[Mirrors])

\* What the test "restores both on a failed swap" says of replaceDirectoriesAtomically:
\* a promotion that fails without crashing leaves the mirrors as they were, or replaced.
FailedSwapRestores ==
  outcome = "failed" =>
    \/ destination = before
    \/ \A m \in Numbers : destination[m] = [of |-> evidence, parts |-> Parts]

-----------------------------------------------------------------------------
(* Why they hold: an inductive invariant, by the phase of the promotion.   *)

New == [of |-> evidence, parts |-> Parts]

\* Of a mirror: its bundle is built; it is as it was when the promotion began; what it was
\* is known, and kept; and it has been set aside.
Staged(m) == staging[m] = New
Untouched(m) == destination[m] = before[m]
Kept(m) == (had[m] <=> before[m] # Absent) /\ backup[m] = before[m]
Aside(m) == Kept(m) /\ destination[m] = Absent

BuildingInv ==
  pc \in {"clearing", "building"} =>
    /\ \A m \in Numbers : Untouched(m) /\ (m < at => Staged(m))
    /\ pc = "building" => staging[at].of = evidence

PreparingInv ==
  pc \in {"preparing", "setting aside"} =>
    \A m \in Numbers : Staged(m) /\ (IF m < at THEN Aside(m) ELSE Untouched(m))

InstallingInv ==
  pc = "installing" =>
    \A m \in Numbers :
      IF m < at
        THEN destination[m] = New /\ Kept(m) /\ installed[m]
        ELSE Aside(m) /\ Staged(m) /\ ~ installed[m]

DroppingInv ==
  pc = "dropping" \/ outcome = "promoted" => \A m \in Numbers : destination[m] = New

RollingBackInv ==
  pc \in {"removing", "putting back"} =>
    /\ ~ installed[Mirrors]
    /\ faults >= 1
    /\ \A m \in Numbers :
         IF m > at
           THEN Untouched(m)
           ELSE Kept(m) /\ (~ installed[m] => destination[m] = Absent)
    /\ pc = "putting back" => destination[at] = Absent

\* The promotion runs with evidence that held, and its own variables start afresh.
RunInv ==
  /\ \A e \in Members(recorded) : e.at <= now
  /\ (pc # "idle" <=> outcome = "running")
  /\ (pc # "idle" \/ outcome = "promoted" => Holds(evidence))
  /\ (pc \in {"idle", "clearing", "building", "preparing", "setting aside"} =>
        installed = Nowhere)
  /\ (pc = "idle" => at = 1)

\* What was published is whole at the destinations until the first fault, and one fault
\* leaves it there or in the backups.
PublishedInv ==
  published =>
    /\ faults = 0 =>
         \A m \in Numbers : Whole(IF pc = "idle" THEN destination[m] ELSE before[m])
    /\ faults <= 1 /\ pc \in {"idle", "clearing", "building"} =>
         \A m \in Numbers : Whole(destination[m]) \/ Whole(backup[m])
    /\ faults <= 1 /\ pc \in {"removing", "putting back"} =>
         \A m \in Numbers : Whole(before[m])

\* The last mirror, and what may be put back there.
LastMirrorInv ==
  /\ LastMirrorWhole
  /\ before[Mirrors] = Absent \/ Whole(before[Mirrors])

PromotionInv ==
  /\ PromotionTypeOK
  /\ BuildingInv /\ PreparingInv /\ InstallingInv /\ DroppingInv /\ RollingBackInv
  /\ RunInv /\ RollBackRestores /\ PublishedInv /\ LastMirrorInv
=============================================================================
