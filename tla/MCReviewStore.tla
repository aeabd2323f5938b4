--------------------------- MODULE MCReviewStore ---------------------------
(* Instances of ReviewStore for TLC. *)
EXTENDS ReviewStore

CONSTANTS r1, r2, r3, main, topic, seed, pathA, hashX, note, edit

Create == [op |-> "create", filePath |-> pathA, message |-> note]
Update(id, resolved, by, text) ==
  [op |-> "update", id |-> id, message |-> None, resolved |-> resolved,
   resolvedBy |-> by, note |-> text]
AddReply(id) == [op |-> "reply", id |-> id, author |-> None, message |-> note]
Delete(id) == [op |-> "delete", id |-> id]
DeleteReply(id, reply) ==
  [op |-> "deleteReply", id |-> id, reply |-> reply]
Marks(viewed, hunks, file) ==
  [op |-> "marks", filePath |-> pathA, viewed |-> viewed,
   hunkHashes |-> hunks, fileHash |-> file]

(* Each kind of mutation, on a comment of the seed file and on a new one. *)
EveryOp ==
  {Create, Update(seed, TRUE, None, edit), Update(r1, TRUE, "agent", Blank),
   Update(seed, FALSE, None, None),
   [Update(r1, None, None, None) EXCEPT !.message = edit],
   AddReply(seed), AddReply(r1),
   [op |-> "editReply", id |-> seed, reply |-> LegacyNote, message |-> edit],
   DeleteReply(seed, LegacyNote), DeleteReply(seed, r1),
   Delete(seed), Delete(r1),
   Marks(TRUE, {hashX}, None), Marks(TRUE, None, hashX),
   Marks(FALSE, {hashX}, None)}

(* The mutations that add and remove threads and replies. *)
ThreadOp ==
  {Create, Delete(seed), Delete(r1), AddReply(seed),
   DeleteReply(seed, LegacyNote), DeleteReply(seed, r1)}

(* A file that was written before reply threads existed. *)
LegacyFile(text) ==
  [EmptyState EXCEPT !.comments[seed] =
     [filePath |-> pathA, message |-> note, resolved |-> TRUE,
      resolvedBy |-> None, resolutionNote |-> text,
      replies |-> [i \in ReplyId |-> None]]]
SeedFiles == {LegacyFile(text) : text \in {note, Empty, Blank}}

VARIABLE scenario  \* what is varied: the mutations, or the branches

(* One branch, every file there may be and every mutation; or both          *)
(* branches, around a checkout, and the mutations that add and remove.  The *)
(* branches are interchangeable: it is enough to begin on one of them.      *)
MCInit ==
  /\ Init /\ head = main
  /\ scenario \in {"mutations", "branches"}
  /\ scenario = "mutations" => disk[topic] = NoFile /\ disk[main] # NoFile
  /\ scenario = "branches" =>
       disk \in [Branch -> {LegacyFile(note), NoFile}]

MCNext ==
  /\ Next /\ UNCHANGED scenario
  /\ scenario = "mutations" => checkouts' = 0
  /\ scenario = "branches" => \A r \in Request : op'[r] \in ThreadOp \union {NoOp}

MCSpec == MCInit /\ [][MCNext]_<<vars, scenario>>
MCFairSpec == MCSpec /\ Fairness
=============================================================================
