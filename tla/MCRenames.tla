------------------------------ MODULE MCRenames ------------------------------
(* An instance of RenameTrace for TLC, or of CommentRenames, whose step     *)
(* Trace takes the whole of it: the one or the other, chosen in MCInit.     *)
(* The trace has a path more.                                               *)
EXTENDS RenameTrace, CommentRenames

CONSTANTS a, b, c, d, f, g, c1, r1

VARIABLE alone  \* the trace runs, and else the whole system

OneFile == [p \in Path |-> IF p = a THEN f ELSE None]

MCInit ==
  /\ TraceInit /\ Init
  /\ alone \in BOOLEAN
  /\ ~alone => requested = {}

MCNext ==
  \/ alone /\ TraceNext /\ UNCHANGED vars
  \/ ~alone /\ Next /\ tree'[d] = None /\ UNCHANGED traceVars

MCSpec ==
  /\ MCInit
  /\ [][MCNext /\ UNCHANGED alone]_<<vars, traceVars, alone>>
  /\ ~alone => Fairness
=============================================================================
