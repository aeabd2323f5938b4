---------------------------- MODULE MCRepoWatch ----------------------------
(* Instances of RepoWatch for TLC. *)
EXTENDS RepoWatch

CONSTANTS p1, p2, c1, c2, c3
=============================================================================
