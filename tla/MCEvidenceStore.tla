--------------------------- MODULE MCEvidenceStore ---------------------------
(***************************************************************************)
(* EvidenceStore on small instances: two events suffice for a log to       *)
(* grow past an acknowledged event, tear, and be appended to again; two    *)
(* snapshots for one to replace another between two reads.                 *)
(***************************************************************************)
EXTENDS EvidenceStore

\* A run before and after its source is resolved.
MCSnapshots == {[state |-> "RECEIVED", source |-> None],
                [state |-> "SELECTED", source |-> "fixture"]}
=============================================================================
