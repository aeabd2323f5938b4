--------------------------- MODULE RenameBuckets ---------------------------
(* The data of traceRenamedPaths (lib/git.ts): buckets of requested paths, *)
(* keyed by the path they are at while git's rename edges are replayed.    *)
CONSTANT Path   \* repository-relative file paths

Edge == {e \in [oldPath: Path, newPath: Path] : e.oldPath # e.newPath}

(* Each requested path starts in a bucket of its own. *)
Buckets(paths) == [c \in Path |-> IF c \in paths THEN {c} ELSE {}]

(* Mutant: the bucket stays if there is one where it would go. *)
MoveBucketIfFree(slots, e) ==
  IF slots[e.oldPath] = {} \/ slots[e.newPath] # {} THEN slots
  ELSE [slots EXCEPT ![e.oldPath] = {}, ![e.newPath] = slots[e.oldPath]]

(* Mutant: the bucket is copied, and stays where it was too. *)
CopyBucket(slots, e) ==
  IF slots[e.oldPath] = {} THEN slots
  ELSE [slots EXCEPT ![e.newPath] = @ \union slots[e.oldPath]]

(* One edge moves a whole bucket, joining the bucket it meets. *)
MoveBucket(slots, e) ==
  IF slots[e.oldPath] = {} THEN slots
  ELSE [slots EXCEPT ![e.oldPath] = {},
                     ![e.newPath] = @ \union slots[e.oldPath]]

(* The requested paths that are now elsewhere, with their current paths. *)
Moved(slots) ==
  UNION {{<<p, c>> : p \in slots[c] \ {c}} : c \in Path}
=============================================================================
