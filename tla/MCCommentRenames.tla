-------------------------- MODULE MCCommentRenames --------------------------
(* Instances of CommentRenames for TLC. *)
EXTENDS CommentRenames, TLC

CONSTANTS a, b, c, f, g, c1, c2, r1, r2

OneFile == [p \in Path |-> IF p = a THEN f ELSE None]

(* Readers and comments are interchangeable; paths are not, since git's    *)
(* renames are put in an order.                                            *)
Symmetry == Permutations(Comment) \union Permutations({r1, r2})

(* Three edits about one comment, or two about two of them. *)
FewEvents ==
  edits + Cardinality({x \in Comment : anchor[x] # None}) <= 4
=============================================================================
