--------------------------- MODULE MCSandboxTrial ---------------------------
(***************************************************************************)
(* SandboxTrial on small instances: two sibling branches are enough for    *)
(* one to fail while the other is still being spawned, is spawned already, *)
(* or is told the other's operation.                                       *)
(***************************************************************************)
EXTENDS SandboxTrial

CONSTANTS b1, b2

MCBranches == {b1, b2}
=============================================================================
