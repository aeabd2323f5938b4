----------------------------- MODULE MCWorkerPool -----------------------------
(* Instances of WorkerPool for TLC. *)
EXTENDS WorkerPool, TLC

CONSTANTS v1, v2, f1, f2, o1, o2, w1, w2

(* Workers and files are interchangeable; views are not, since they are     *)
(* notified one after the other.                                            *)
Symmetry == Permutations({w1, w2}) \union Permutations({f1, f2})

CONSTANT MaxEvents  \* bound on Events

Events == shows + pool.generation + 2 * (pool.requests + failures)
FewEvents == Events <= MaxEvents
=============================================================================
