---------------------------- MODULE AtomicStore ----------------------------
(* What lib/store.ts promises its callers, without queues, temporary files *)
(* or promise chains: the mutations of one branch take effect one at a     *)
(* time, whole, in the order they were accepted; a caller that is told of  *)
(* success is told so after its mutation took effect; a failed or a        *)
(* crashed mutation has no effect.                                         *)
EXTENDS ReviewState, Sequences

CONSTANTS Branch,   \* branches, each with a state file of its own
          OpInput,  \* the mutations that requests ask for
          SeedState \* contents a state file may start with, as served

VARIABLES
  file,  \* file[b]: the state of branch b, as a reader is served it
  line,  \* line[b]: accepted mutations [req, op] that did not yet happen
  fate   \* fate[r]: what became of request r

vars == <<file, line, fate>>

Init ==
  /\ file \in [Branch -> SeedState \union {EmptyState}]
  /\ line = [b \in Branch |-> <<>>]
  /\ fate = [r \in Request |-> "new"]

(* A bad request is answered before it is accepted. *)
Refuse(r) ==
  /\ fate[r] = "new"
  /\ fate' = [fate EXCEPT ![r] = "error"]
  /\ UNCHANGED <<file, line>>

Accept(r, o, b) ==
  /\ fate[r] = "new"
  /\ fate' = [fate EXCEPT ![r] = "waiting"]
  /\ line' = [line EXCEPT ![b] = Append(@, [req |-> r, op |-> o])]
  /\ UNCHANGED file

(* The mutation that waited longest happens, whole, or not at all. *)
Happen(b) ==
  /\ line[b] # <<>>
  /\ LET m == Head(line[b]) IN
       /\ file' = [file EXCEPT ![b] = ApplyOp(m.req, m.op, @)]
       /\ fate' = [fate EXCEPT ![m.req] =
                     IF Found(m.op, file[b]) THEN "applied" ELSE "missing"]
  /\ line' = [line EXCEPT ![b] = Tail(@)]

Fail(b) ==
  /\ line[b] # <<>>
  /\ fate' = [fate EXCEPT ![Head(line[b]).req] = "failed"]
  /\ line' = [line EXCEPT ![b] = Tail(@)]
  /\ UNCHANGED file

Answer(r) ==
  /\ fate[r] \in {"applied", "missing", "failed"}
  /\ fate' = [fate EXCEPT ![r] =
       CASE fate[r] = "applied" -> "ok"
         [] fate[r] = "missing" -> "notFound"
         [] fate[r] = "failed" -> "error"]
  /\ UNCHANGED <<file, line>>

(* Nothing accepted but unfinished happens any more, and no outstanding   *)
(* caller is answered; some requests were lost on their way in.            *)
Crash ==
  /\ line' = [b \in Branch |-> <<>>]
  /\ \E early \in SUBSET {r \in Request : fate[r] = "new"} :
       fate' = [r \in Request |->
         IF r \in early \/ fate[r] \in {"waiting", "applied", "missing",
                                       "failed"}
         THEN "lost" ELSE fate[r]]
  /\ UNCHANGED file

Next ==
  \/ \E r \in Request, o \in OpInput, b \in Branch : Accept(r, o, b)
  \/ \E b \in Branch : Happen(b) \/ Fail(b)
  \/ \E r \in Request : Refuse(r) \/ Answer(r)
  \/ Crash

Spec == Init /\ [][Next]_vars
=============================================================================
