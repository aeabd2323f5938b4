--------------------------- MODULE MCStateMirror ---------------------------
(* Instances of StateMirror for TLC. *)
EXTENDS StateMirror

CONSTANTS main, topic, c1, c2, c3
=============================================================================
