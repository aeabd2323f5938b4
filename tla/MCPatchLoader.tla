--------------------------- MODULE MCPatchLoader ---------------------------
(* Instances of PatchLoader for TLC. *)
EXTENDS PatchLoader

CONSTANTS pathA, pathB, old, new, main, topic
=============================================================================
