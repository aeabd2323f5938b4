---------------------------- MODULE ReviewStore ----------------------------
(* The state-file store of the review server (lib/store.ts) under the REST *)
(* routes that call it: each request resolves the checked-out branch, then *)
(* joins that branch's promise chain, whose head alone reads the state     *)
(* file, mutates the copy in memory, writes a temporary file and renames   *)
(* it over the state file.  The server may crash and restart at any step.  *)
EXTENDS ReviewState, Sequences, Naturals, FiniteSets

CONSTANTS
  NoFile,      \* the content of a file that does not exist
  OtherVersion, \* the content of a file whose version is not 1
  Torn,        \* the content of a file whose write did not end
  Branch,      \* branches, each with a state file of its own
  OpInput,     \* the mutations that requests ask for
  SeedFile,    \* contents that a state file may have at the start
  ReadFaults,  \* TRUE: reading an existing state file may fail
  MaxCrashes,  \* bound on the number of server crashes
  MaxCheckouts \* bound on the number of branch switches

NoOp == [op |-> "none"]

Pcs == {"new", "identified", "waiting", "applied", "missing", "failed",
        "ok", "notFound", "error", "lost"}
Phases == {"idle", "mutated", "writing", "written"}

ASSUME ReviewStoreAssumption ==
  /\ OpInput \subseteq Op
  /\ SeedFile \subseteq State
  /\ NoFile \notin State /\ Torn \notin State /\ OtherVersion \notin State
  /\ ReadFaults \in BOOLEAN
  /\ MaxCrashes \in Nat /\ MaxCheckouts \in Nat

(* randomUUID() draws an id that no stored comment or reply has. *)
ASSUME FreshIdsAssumption ==
  \A f \in SeedFile, r \in Request :
    ~HasComment(f, r) /\ \A id \in CommentId : ~HasReply(f, id, r)

VARIABLES
  head,      \* the branch that is checked out
  pc,        \* pc[r]: how far request r is
  op,        \* op[r]: what r asks for
  branch,    \* branch[r]: the branch r was resolved to
  queue,     \* queue[b]: the promise chain of b's state file, head running
  phase,     \* phase[b]: what the head of the chain has done so far
  draft,     \* draft[b]: the in-memory copy, and whether its target existed
  tmp,       \* tmp[b]: the temporary file beside b's state file
  disk,      \* disk[b]: b's state file
  crashes, checkouts  \* the bounded counters

requestVars == <<pc, op, branch>>
chainVars == <<queue, phase, draft, tmp>>
boundVars == <<crashes, checkouts>>
vars == <<head, requestVars, chainVars, disk, boundVars>>

NoDraft == [state |-> EmptyState, found |-> FALSE]

Init ==
  /\ head \in Branch
  /\ pc = [r \in Request |-> "new"]
  /\ op = [r \in Request |-> NoOp]
  /\ branch = [r \in Request |-> head]
  /\ queue = [b \in Branch |-> <<>>]
  /\ phase = [b \in Branch |-> "idle"]
  /\ draft = [b \in Branch |-> NoDraft]
  /\ tmp = [b \in Branch |-> NoFile]
  /\ disk \in [Branch -> SeedFile \union {NoFile, OtherVersion}]
  /\ crashes = 0
  /\ checkouts = 0

(* readState: a missing file reads as an empty review, and so does one of   *)
(* another version, or one that cannot be read.                             *)
Served(f) ==
  IF f \in {NoFile, OtherVersion} THEN EmptyState ELSE Normalize(f)
ReadResult(f) ==
  {Served(f)} \union (IF ReadFaults THEN {EmptyState} ELSE {})

-----------------------------------------------------------------------------
(* The routes. *)

(* requireRepoIdentity: the request is bound to the checked-out branch. *)
Identify(r) ==
  /\ pc[r] = "new"
  /\ pc' = [pc EXCEPT ![r] = "identified"]
  /\ op' \in {[op EXCEPT ![r] = o] : o \in OpInput}
  /\ branch' = [branch EXCEPT ![r] = head]
  /\ UNCHANGED <<head, chainVars, disk, boundVars>>

(* A malformed body or an unanchorable line: answered before the store. *)
Refuse(r) ==
  /\ pc[r] = "identified"
  /\ pc' = [pc EXCEPT ![r] = "error"]
  /\ UNCHANGED <<head, op, branch, chainVars, disk, boundVars>>

(* Mutant: the newest mutation overtakes those that wait. *)
EnqueueFirst(r) ==
  /\ pc[r] = "identified"
  /\ pc' = [pc EXCEPT ![r] = "waiting"]
  /\ queue' = [queue EXCEPT ![branch[r]] =
                 IF phase[branch[r]] = "idle" THEN <<r>> \o @
                 ELSE <<Head(@), r>> \o Tail(@)]
  /\ UNCHANGED <<head, op, branch, phase, draft, tmp, disk, boundVars>>

(* Mutant: the branch is resolved again when the mutation is queued. *)
EnqueueOnHead(r) ==
  /\ pc[r] = "identified"
  /\ pc' = [pc EXCEPT ![r] = "waiting"]
  /\ queue' = [queue EXCEPT ![head] = Append(@, r)]
  /\ UNCHANGED <<head, op, branch, phase, draft, tmp, disk, boundVars>>

(* mutateState: append to the branch's promise chain. *)
Enqueue(r) ==
  /\ pc[r] = "identified"
  /\ pc' = [pc EXCEPT ![r] = "waiting"]
  /\ queue' = [queue EXCEPT ![branch[r]] = Append(@, r)]
  /\ UNCHANGED <<head, op, branch, phase, draft, tmp, disk, boundVars>>

(* The route continues: emit state-changed and answer, or answer 404/500. *)
Respond(r) ==
  /\ pc[r] \in {"applied", "missing", "failed"}
  /\ pc' = [pc EXCEPT ![r] = CASE pc[r] = "applied" -> "ok"
                               [] pc[r] = "missing" -> "notFound"
                               [] pc[r] = "failed" -> "error"]
  /\ UNCHANGED <<head, op, branch, chainVars, disk, boundVars>>

-----------------------------------------------------------------------------
(* The running task of a branch's chain. *)

(* readState resolves and the mutation runs on the copy, in one turn. *)
ReadAndMutate(b) ==
  /\ queue[b] # <<>>
  /\ phase[b] = "idle"
  /\ \E s \in ReadResult(disk[b]) :
       LET r == Head(queue[b]) IN
       draft' = [draft EXCEPT ![b] = [state |-> ApplyOp(r, op[r], s),
                                      found |-> Found(op[r], s)]]
  /\ phase' = [phase EXCEPT ![b] = "mutated"]
  /\ UNCHANGED <<head, requestVars, queue, tmp, disk, boundVars>>

(* writeFile to the temporary path: it is torn until the write ends. *)
BeginWrite(b) ==
  /\ phase[b] = "mutated"
  /\ tmp' = [tmp EXCEPT ![b] = Torn]
  /\ phase' = [phase EXCEPT ![b] = "writing"]
  /\ UNCHANGED <<head, requestVars, queue, draft, disk, boundVars>>

EndWrite(b) ==
  /\ phase[b] = "writing"
  /\ tmp' = [tmp EXCEPT ![b] = draft[b].state]
  /\ phase' = [phase EXCEPT ![b] = "written"]
  /\ UNCHANGED <<head, requestVars, queue, draft, disk, boundVars>>

(* The chain moves on to its next task; verdict is what the caller awaits. *)
Settle(b, verdict) ==
  /\ pc' = [pc EXCEPT ![Head(queue[b])] = verdict]
  /\ queue' = [queue EXCEPT ![b] = Tail(@)]
  /\ phase' = [phase EXCEPT ![b] = "idle"]
  /\ draft' = [draft EXCEPT ![b] = NoDraft]

(* Mutant: the write of the temporary file is not awaited. *)
RenameUnfinished(b) ==
  /\ phase[b] \in {"writing", "written"}
  /\ disk' = [disk EXCEPT ![b] = tmp[b]]
  /\ tmp' = [tmp EXCEPT ![b] = NoFile]
  /\ Settle(b, IF draft[b].found THEN "applied" ELSE "missing")
  /\ UNCHANGED <<head, op, branch, boundVars>>

(* Mutant: the task ends without the rename. *)
RenameSkipped(b) ==
  /\ phase[b] = "written"
  /\ Settle(b, IF draft[b].found THEN "applied" ELSE "missing")
  /\ UNCHANGED <<head, op, branch, tmp, disk, boundVars>>

(* rename moves the temporary file over the state file, and the task ends. *)
Rename(b) ==
  /\ phase[b] = "written"
  /\ disk' = [disk EXCEPT ![b] = tmp[b]]
  /\ tmp' = [tmp EXCEPT ![b] = NoFile]
  /\ Settle(b, IF draft[b].found THEN "applied" ELSE "missing")
  /\ UNCHANGED <<head, op, branch, boundVars>>

(* Mutant: a failed task is tried again from the start. *)
FailAndRetry(b) ==
  /\ phase[b] # "idle"
  /\ phase' = [phase EXCEPT ![b] = "idle"]
  /\ draft' = [draft EXCEPT ![b] = NoDraft]
  /\ UNCHANGED <<head, requestVars, queue, tmp, disk, boundVars>>

(* mkdir, writeFile or rename rejects: the task rejects, the chain lives. *)
Fail(b) ==
  /\ phase[b] # "idle"
  /\ Settle(b, "failed")
  /\ UNCHANGED <<head, op, branch, tmp, disk, boundVars>>

-----------------------------------------------------------------------------
(* The environment. *)

Checkout(b) ==
  /\ checkouts < MaxCheckouts
  /\ b # head
  /\ head' = b
  /\ checkouts' = checkouts + 1
  /\ UNCHANGED <<requestVars, chainVars, disk, crashes>>

(* The process dies: chains and copies are gone, files stay, and callers    *)
(* without an answer never get one.                                         *)
Crash ==
  /\ crashes < MaxCrashes
  /\ crashes' = crashes + 1
  /\ pc' = [r \in Request |->
       IF pc[r] \in {"identified", "waiting", "applied", "missing", "failed"}
       THEN "lost" ELSE pc[r]]
  /\ queue' = [b \in Branch |-> <<>>]
  /\ phase' = [b \in Branch |-> "idle"]
  /\ draft' = [b \in Branch |-> NoDraft]
  /\ UNCHANGED <<head, op, branch, tmp, disk, checkouts>>

Done == \A r \in Request : pc[r] \in {"ok", "notFound", "error", "lost"}

(* Every request is answered or lost: nothing is left to do. *)
Rest == Done /\ UNCHANGED vars

Chain(b) ==
  ReadAndMutate(b) \/ BeginWrite(b) \/ EndWrite(b) \/ Rename(b) \/ Fail(b)
Route(r) == Enqueue(r) \/ Refuse(r) \/ Respond(r)

Next ==
  \/ \E r \in Request : Identify(r) \/ Route(r)
  \/ \E b \in Branch : Chain(b) \/ Checkout(b)
  \/ Crash
  \/ Rest

(* The event loop runs every ready continuation; file operations settle. *)
Fairness ==
  /\ \A r \in Request : WF_vars(Route(r))
  /\ \A b \in Branch : WF_vars(Chain(b))

Spec == Init /\ [][Next]_vars
FairSpec == Spec /\ Fairness

-----------------------------------------------------------------------------
(* Properties. *)

(* Every variable holds a value of its type; in particular a state file is *)
(* absent or whole, never the torn content of an unfinished write.         *)
TypeOK ==
  /\ head \in Branch
  /\ pc \in [Request -> Pcs]
  /\ op \in [Request -> OpInput \union {NoOp}]
  /\ branch \in [Request -> Branch]
  /\ queue \in [Branch -> Seq(Request)]
  /\ phase \in [Branch -> Phases]
  /\ draft \in [Branch -> [state: State, found: BOOLEAN]]
  /\ tmp \in [Branch -> State \union {NoFile, Torn}]
  /\ disk \in [Branch -> State \union {NoFile, OtherVersion}]
  /\ crashes \in 0..MaxCrashes
  /\ checkouts \in 0..MaxCheckouts

(* The chains, temporary files and renames of lib/store.ts implement the   *)
(* atomic store: what a reader is served changes by one whole mutation at  *)
(* a time, in the order of the calls to mutateState, also across crashes.  *)
Pending(q, o) == [i \in DOMAIN q |-> [req |-> q[i], op |-> o[q[i]]]]

absFile == [b \in Branch |-> Served(disk[b])]
absLine == [b \in Branch |-> Pending(queue[b], op)]
absFate == [r \in Request |-> IF pc[r] = "identified" THEN "new" ELSE pc[r]]

Abs == INSTANCE AtomicStore WITH
  SeedState <- {Served(f) : f \in SeedFile},
  file <- absFile, line <- absLine, fate <- absFate

ImplementsAtomicStore == Abs!Spec

(* A mutation that took effect, whether or not its caller was told. *)
Happened(r) == pc[r] \in {"applied", "ok"}
MayHaveHappened(r) == pc[r] \in {"applied", "ok", "lost"}

(* A comment whose creation was acknowledged is served from then on, over  *)
(* other requests, failures and restarts, until a deletion of it happens.  *)
AckedCommentsSurvive ==
  \A r \in Request : pc[r] = "ok" /\ op[r].op = "create" =>
    \/ HasComment(Served(disk[branch[r]]), r)
    \/ \E d \in Request : /\ MayHaveHappened(d)
                         /\ op[d].op = "delete"
                         /\ op[d].id = r

(* A deleted comment or reply is never served again: no queued mutation    *)
(* writes back an older copy, and the conversion of legacy notes on every  *)
(* read does not bring back a note that was deleted as a reply.            *)
DeletedStaysDeleted ==
  \A d \in Request : Happened(d) =>
    LET s == Served(disk[branch[d]]) IN
    /\ op[d].op = "delete" => ~HasComment(s, op[d].id)
    /\ op[d].op = "deleteReply" => ~HasReply(s, op[d].id, op[d].reply)

(* What request r created is found only in the file of the branch that was *)
(* checked out when r was identified, and only if r did not fail.          *)
EffectsOnOwnBranch ==
  \A b \in Branch, r \in Request :
    LET s == Served(disk[b]) IN
    HasComment(s, r) \/ (\E id \in CommentId : HasReply(s, id, r)) =>
      branch[r] = b /\ MayHaveHappened(r)

(* Every request that reached the server is answered, however many other   *)
(* mutations of its file fail, unless the server crashes first.            *)
EveryRequestSettles ==
  \A r \in Request :
    pc[r] = "identified" ~> pc[r] \in {"ok", "notFound", "error", "lost"}
=============================================================================
