----------------------------- MODULE LiveRecord -----------------------------
(***************************************************************************)
(* The driver as a user of the evidence store: what it writes to the files *)
(* of one case, whichever one, is a behaviour that RecordContract allows.  *)
(* EvidenceStore implements the same contract, so that the store keeps     *)
(* what LiveTrial takes of it for granted: lines in order, one snapshot, a *)
(* manifest of both.  Artifacts are left out, as in LiveTrial.             *)
(***************************************************************************)
EXTENDS LiveTrial

CONSTANT Observed \* the case whose files are looked at

ASSUME ObservedIsACase == Observed \in 1 .. Cases

Ends == {"SELECTED", "ABSTAINED"}
Verdicts == SelectedVerdicts \cup AbstainedVerdicts

\* The snapshots of runs that have ended, with the source of their run.
Snapshots == [state : Ends, verdict : Verdicts, source : {Observed}]

ASSUME NoneIsNoSnapshot == None \notin Snapshots \cup [state : Ends, verdict : Verdicts]

\* The first n lines of the log.
Lines(n) == [i \in 1 .. n |-> [id |-> i, key |-> i]]

\* The snapshot with the source of its run.
StoredRun ==
  IF disk[Observed].snapshot = None THEN None
  ELSE [state |-> disk[Observed].snapshot.state, verdict |-> disk[Observed].snapshot.verdict,
        source |-> Observed]

Manifest ==
  IF disk[Observed].manifest = 0 THEN None
  ELSE [log |-> Lines(disk[Observed].manifest), count |-> disk[Observed].manifest,
        snapshot |-> StoredRun, artifacts |-> {}]

Record == INSTANCE RecordContract WITH
  Events <- [id : 1 .. EventCount, key : 1 .. EventCount],
  Snapshots <- Snapshots,
  Hashes <- {},
  Roles <- {},
  record <- Lines(disk[Observed].logged),
  run <- StoredRun,
  registered <- [h \in {} |-> None],
  sealed <- Manifest,
  vouched <- None

\* The events, the snapshot and the manifest of a case reach its files in the one order in
\* which the manifest can speak for them, however the case is cut off.
DriverRecordSpec == Record!Spec
=============================================================================
