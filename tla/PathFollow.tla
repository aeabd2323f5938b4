----------------------------- MODULE PathFollow -----------------------------
(* What a rename trace should compute: every requested path walks along    *)
(* the rename edges on its own, undisturbed by the other paths.            *)
EXTENDS Naturals

CONSTANTS Path, MaxEdges, NoAnswer

Edge == {e \in [oldPath: Path, newPath: Path] : e.oldPath # e.newPath}

VARIABLES
  requested,  \* the paths whose present names are asked for
  at,         \* at[p]: where requested path p is after the edges so far
  replayed,   \* the number of edges so far
  renames     \* the answer, once there is one: pairs <<original, current>>

vars == <<requested, at, replayed, renames>>

Init ==
  /\ requested \in SUBSET Path
  /\ at = [p \in requested |-> p]
  /\ replayed = 0
  /\ renames = NoAnswer

Follow(e) ==
  /\ renames = NoAnswer
  /\ replayed < MaxEdges
  /\ replayed' = replayed + 1
  /\ at' = [p \in requested |->
              IF at[p] = e.oldPath THEN e.newPath ELSE at[p]]
  /\ UNCHANGED <<requested, renames>>

Answer ==
  /\ renames = NoAnswer
  /\ renames' = {<<p, at[p]>> : p \in {q \in requested : at[q] # q}}
  /\ UNCHANGED <<requested, at, replayed>>

Next == (\E e \in Edge : Follow(e)) \/ Answer

Spec == Init /\ [][Next]_vars
=============================================================================
