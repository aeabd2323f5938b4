---------------------------- MODULE RenameTrace ----------------------------
(* traceRenamedPaths (lib/git.ts): one pass over git's rename edges that   *)
(* moves buckets of requested paths, keyed by current path, instead of     *)
(* walking each requested path on its own.  Its names are such that a      *)
(* module may extend CommentRenames as well.                               *)
EXTENDS RenameBuckets, Naturals

CONSTANTS
  MaxEdges, \* bound on the number of rename edges replayed
  NoAnswer  \* the answer of a trace that has not ended

VARIABLES
  requested,            \* the stranded paths asked about
  originalsByCurrent,   \* current path -> the requested paths now there
  replayed,             \* the number of edges replayed so far
  renames               \* the answer, once there is one

traceVars == <<requested, originalsByCurrent, replayed, renames>>

TraceInit ==
  /\ requested \in SUBSET Path
  /\ originalsByCurrent = Buckets(requested)
  /\ replayed = 0
  /\ renames = NoAnswer

Replay(e) ==
  /\ renames = NoAnswer
  /\ replayed < MaxEdges
  /\ replayed' = replayed + 1
  /\ originalsByCurrent' = MoveBucket(originalsByCurrent, e)
  /\ UNCHANGED <<requested, renames>>

Collect ==
  /\ renames = NoAnswer
  /\ renames' = Moved(originalsByCurrent)
  /\ UNCHANGED <<requested, originalsByCurrent, replayed>>

TraceNext == (\E e \in Edge : Replay(e)) \/ Collect

TraceSpec == TraceInit /\ [][TraceNext]_traceVars

-----------------------------------------------------------------------------
(* Every requested path sits in exactly one bucket, whatever chains of     *)
(* renames pass through other requested paths.                             *)
OneBucketEach ==
  /\ originalsByCurrent \in [Path -> SUBSET requested]
  /\ \A p \in requested : \E c \in Path :
       /\ p \in originalsByCurrent[c]
       /\ \A d \in Path : p \in originalsByCurrent[d] => d = c

(* Moving buckets answers what walking each path on its own answers. *)
Follows == INSTANCE PathFollow WITH
  at <- [p \in requested |-> CHOOSE c \in Path : p \in originalsByCurrent[c]]

FollowsEachPath == Follows!Spec
=============================================================================
