------------------------- MODULE ReviewStore_proofs -------------------------
(* What holds of the store for every set of requests, branches, mutations  *)
(* and seed files, and any number of crashes and checkouts.                *)
EXTENDS ReviewStore, SequenceTheorems, TLAPS

(* The mutations of ReviewState, for every id, path and text.              *)

(* No comment carries an unconverted legacy note. *)
Normalized(s) ==
  \A id \in CommentId :
    s.comments[id] # None => s.comments[id].resolutionNote = None

LEMMA UpdatedCommentType ==
  ASSUME NEW r \in Request, NEW o \in UpdateOp, NEW c \in Comment
  PROVE  /\ UpdatedComment(r, o, c) \in Comment
         /\ UpdatedComment(r, o, c).resolutionNote = c.resolutionNote
  BY ReviewStateAssumption
  DEF UpdatedComment, Resolve, Reopen, Given, UpdateOp, Comment, Reply, ReplyId,
      Author

LEMMA NormalizeCommentType ==
  ASSUME NEW c \in Comment
  PROVE  /\ NormalizeComment(c) \in Comment
         /\ NormalizeComment(c).resolutionNote = None
         /\ c.resolutionNote = None => NormalizeComment(c) = c
  BY ReviewStateAssumption
  DEF NormalizeComment, Given, Comment, Reply, ReplyId, Author

LEMMA NewCommentType ==
  ASSUME NEW o \in CreateOp
  PROVE  /\ NewComment(o) \in Comment
         /\ NewComment(o).resolutionNote = None
  BY DEF NewComment, CreateOp, Comment, Author

(* Replacing one comment keeps a state's type, and keeps it normalized if  *)
(* the new comment is.                                                     *)
LEMMA PutComment ==
  ASSUME NEW s \in State, NEW id \in CommentId,
         NEW c \in Comment \union {None}
  PROVE  LET t == [s EXCEPT !.comments[id] = c] IN
         /\ t \in State
         /\ Normalized(s) /\ (c # None => c.resolutionNote = None)
              => Normalized(t)
  BY DEF State, Normalized

(* Changing the replies of one comment does the same. *)
LEMMA PutReply ==
  ASSUME NEW c \in Comment, NEW i \in ReplyId, NEW x \in Reply \union {None}
  PROVE  /\ [c EXCEPT !.replies[i] = x] \in Comment
         /\ [c EXCEPT !.replies[i] = x].resolutionNote = c.resolutionNote
  BY DEF Comment

LEMMA SetViewedMarksType ==
  ASSUME NEW s \in State, NEW o \in MarksOp
  PROVE  /\ SetViewedMarks(o, s) \in State
         /\ SetViewedMarks(o, s).comments = s.comments
  BY ReviewStateAssumption DEF SetViewedMarks, Given, State, MarksOp

(* Converting legacy notes yields a normalized state, and changes nothing  *)
(* the second time: reading twice is reading once.                         *)
THEOREM NormalizeIdempotent ==
  ASSUME NEW s \in State
  PROVE  /\ Normalize(s) \in State
         /\ Normalized(Normalize(s))
         /\ Normalized(s) => Normalize(s) = s
<1>1. ASSUME NEW id \in CommentId
      PROVE  s.comments[id] \in Comment \union {None}
  BY DEF State
<1>2. ASSUME NEW id \in CommentId
      PROVE  /\ Normalize(s).comments[id] \in Comment \union {None}
             /\ Normalize(s).comments[id] # None
                  => Normalize(s).comments[id].resolutionNote = None
             /\ Normalized(s) => Normalize(s).comments[id] = s.comments[id]
  BY <1>1, NormalizeCommentType DEF Normalize, Normalized, State
<1>3. Normalize(s) \in State
  BY <1>2 DEF Normalize, State
<1>4. Normalized(s) => Normalize(s) = s
  BY <1>2 DEF Normalize, State
<1> QED BY <1>2, <1>3, <1>4 DEF Normalized

(* A mutation of a state of the right type leaves one, and introduces no   *)
(* legacy note: what the store writes needs no conversion.                 *)
THEOREM ApplyOpType ==
  ASSUME NEW s \in State, NEW r \in Request, NEW o \in Op
  PROVE  /\ ApplyOp(r, o, s) \in State
         /\ Normalized(s) => Normalized(ApplyOp(r, o, s))
<1> DEFINE Good(t) == t \in State /\ (Normalized(s) => Normalized(t))
<1> SUFFICES ASSUME Found(o, s) PROVE Good(ApplyOp(r, o, s))
  BY DEF ApplyOp
<1>0. ASSUME NEW id \in CommentId, HasComment(s, id)
      PROVE  s.comments[id] \in Comment
  BY <1>0 DEF HasComment, State
<1>1. CASE o \in CreateOp
  <2>1. ApplyOp(r, o, s) = [s EXCEPT !.comments[r] = NewComment(o)]
    BY <1>1 DEF CreateOp, ApplyOp
  <2> QED BY <1>1, <2>1, NewCommentType, PutComment DEF CommentId
<1>2. CASE o \in UpdateOp
  <2>1. o.id \in CommentId /\ HasComment(s, o.id)
    BY <1>2 DEF UpdateOp, Found
  <2>2. ApplyOp(r, o, s) =
          [s EXCEPT !.comments[o.id] = UpdatedComment(r, o, s.comments[o.id])]
    BY <1>2, <2>1 DEF UpdateOp, ApplyOp, State
  <2> QED BY <1>0, <1>2, <2>1, <2>2, UpdatedCommentType, PutComment
          DEF Normalized, HasComment
<1>3. CASE o \in ReplyOp
  <2> DEFINE x == [kind |-> "reply", author |-> Given(o.author, "user"),
                   message |-> o.message]
             c == s.comments[o.id]
  <2>1. o.id \in CommentId /\ HasComment(s, o.id) /\ x \in Reply
    BY <1>3 DEF ReplyOp, Found, Reply, Given, Author
  <2>2. ApplyOp(r, o, s) =
          [s EXCEPT !.comments[o.id] = [c EXCEPT !.replies[r] = x]]
    BY <1>3, <2>1 DEF ReplyOp, ApplyOp, State
  <2>3. /\ [c EXCEPT !.replies[r] = x] \in Comment
        /\ [c EXCEPT !.replies[r] = x].resolutionNote = c.resolutionNote
    BY <1>0, <2>1, PutReply DEF ReplyId
  <2> QED BY <2>1, <2>2, <2>3, PutComment DEF Normalized, HasComment
<1>4. CASE o \in EditReplyOp
  <2> DEFINE c == s.comments[o.id]
             x == [c.replies[o.reply] EXCEPT !.message = o.message]
  <2>1. /\ o.id \in CommentId /\ HasComment(s, o.id)
        /\ o.reply \in ReplyId /\ c.replies[o.reply] # None
    BY <1>4 DEF EditReplyOp, Found, HasReply
  <2>2. c \in Comment
    BY <1>0, <2>1
  <2>3. x \in Reply
    BY <1>4, <2>1, <2>2 DEF EditReplyOp, Comment, Reply
  <2>4. ApplyOp(r, o, s) =
          [s EXCEPT !.comments[o.id] = [c EXCEPT !.replies[o.reply] = x]]
    BY <1>4, <2>1, <2>2 DEF EditReplyOp, ApplyOp, State, Comment
  <2>5. /\ [c EXCEPT !.replies[o.reply] = x] \in Comment
        /\ [c EXCEPT !.replies[o.reply] = x].resolutionNote
             = c.resolutionNote
    BY <2>1, <2>2, <2>3, PutReply
  <2> HIDE DEF x
  <2> QED BY <2>1, <2>4, <2>5, PutComment DEF Normalized, HasComment
<1>5. CASE o \in DeleteReplyOp
  <2> DEFINE c == s.comments[o.id]
  <2>1. /\ o.id \in CommentId /\ HasComment(s, o.id) /\ o.reply \in ReplyId
    BY <1>5 DEF DeleteReplyOp, Found, HasReply
  <2>2. ApplyOp(r, o, s) =
          [s EXCEPT !.comments[o.id] = [c EXCEPT !.replies[o.reply] = None]]
    BY <1>5, <2>1 DEF DeleteReplyOp, ApplyOp, State
  <2>3. /\ [c EXCEPT !.replies[o.reply] = None] \in Comment
        /\ [c EXCEPT !.replies[o.reply] = None].resolutionNote
             = c.resolutionNote
    BY <1>0, <2>1, PutReply
  <2> QED BY <2>1, <2>2, <2>3, PutComment DEF Normalized, HasComment
<1>6. CASE o \in DeleteOp
  <2>1. ApplyOp(r, o, s) = [s EXCEPT !.comments[o.id] = None]
    BY <1>6 DEF DeleteOp, ApplyOp
  <2> QED BY <1>6, <2>1, PutComment DEF DeleteOp
<1>7. CASE o \in MarksOp
  <2>1. ApplyOp(r, o, s) = SetViewedMarks(o, s)
    BY <1>7 DEF MarksOp, ApplyOp
  <2> QED BY <1>7, <2>1, SetViewedMarksType DEF Normalized
<1> QED BY <1>1, <1>2, <1>3, <1>4, <1>5, <1>6, <1>7 DEF Op

-----------------------------------------------------------------------------
(* The queue, the chains and the files of the store.                       *)

(* The inductive strengthening of TypeOK: whatever waits in a chain was    *)
(* given a mutation, only the head of a chain is in progress, and a        *)
(* finished temporary file holds the mutated copy.                         *)
ChainOK ==
  /\ \A r \in Request : pc[r] # "new" => op[r] \in OpInput
  /\ \A b \in Branch : \A i \in DOMAIN queue[b] : pc[queue[b][i]] # "new"
  /\ \A b \in Branch : phase[b] # "idle" => queue[b] # <<>>
  /\ \A b \in Branch : phase[b] = "written" => tmp[b] = draft[b].state

IInv == TypeOK /\ ChainOK

LEMMA EmptyStateType == EmptyState \in State /\ Normalized(EmptyState)
  BY DEF EmptyState, State, Normalized

LEMMA ServedType ==
  ASSUME NEW f \in State \union {NoFile, OtherVersion}
  PROVE  /\ Served(f) \in State
         /\ Normalized(Served(f))
  BY EmptyStateType, NormalizeIdempotent DEF Served

LEMMA ReadResultType ==
  ASSUME NEW f \in State \union {NoFile, OtherVersion}, NEW s \in ReadResult(f)
  PROVE  s \in State /\ Normalized(s)
  BY EmptyStateType, ServedType DEF ReadResult

LEMMA NoDraftType == NoDraft \in [state: State, found: BOOLEAN]
  BY EmptyStateType DEF NoDraft

LEMMA FoundType ==
  ASSUME NEW o \in Op, NEW s
  PROVE  Found(o, s) \in BOOLEAN
  BY DEF Found, HasReply, HasComment, Op, CreateOp, UpdateOp, ReplyOp,
         EditReplyOp, DeleteReplyOp, DeleteOp, MarksOp

(* The head of a nonempty chain is a request with a mutation. *)
LEMMA HeadOfChain ==
  ASSUME IInv, NEW b \in Branch, queue[b] # <<>>
  PROVE  /\ Head(queue[b]) \in Request
         /\ pc[Head(queue[b])] # "new"
         /\ op[Head(queue[b])] \in OpInput
         /\ Tail(queue[b]) \in Seq(Request)
         /\ \A i \in DOMAIN Tail(queue[b]) :
              i + 1 \in DOMAIN queue[b] /\ Tail(queue[b])[i] = queue[b][i + 1]
<1> DEFINE q == queue[b]
<1>1. q \in Seq(Request) /\ q # <<>>
  BY DEF IInv, TypeOK
<1>2. /\ Head(q) = q[1] /\ 1 \in DOMAIN q
      /\ \A i \in DOMAIN Tail(q) : i + 1 \in DOMAIN q /\ Tail(q)[i] = q[i + 1]
  BY <1>1
<1>3. Head(q) \in Request /\ Tail(q) \in Seq(Request)
  BY <1>1, HeadTailProperties
<1> QED BY <1>2, <1>3 DEF IInv, ChainOK

LEMMA InitIInv == Init => IInv
<1> SUFFICES ASSUME Init PROVE IInv
  OBVIOUS
<1>1. TypeOK
  BY NoDraftType, ReviewStoreAssumption DEF Init, TypeOK, Pcs, Phases
<1>2. ChainOK
  BY DEF Init, ChainOK
<1> QED BY <1>1, <1>2 DEF IInv

(* Moving a chain on keeps the invariant. *)
LEMMA SettleIInv ==
  ASSUME IInv, NEW b \in Branch, queue[b] # <<>>,
         NEW verdict \in {"applied", "missing", "failed"},
         Settle(b, verdict), UNCHANGED <<head, op, branch, boundVars>>,
         tmp' \in [Branch -> State \union {NoFile, Torn}],
         disk' \in [Branch -> State \union {NoFile, OtherVersion}],
         \A c \in Branch \ {b} : tmp'[c] = tmp[c]
  PROVE  IInv'
<1>1. TypeOK'
  BY HeadOfChain, NoDraftType
  DEF IInv, TypeOK, Settle, boundVars, Pcs, Phases
<1>2. \A r \in Request : pc'[r] # "new" => pc[r] # "new"
  BY HeadOfChain DEF IInv, TypeOK, Settle
<1>3. \A r \in Request : pc[r] # "new" => pc'[r] # "new"
  BY HeadOfChain DEF IInv, TypeOK, Settle
<1>4. ASSUME NEW c \in Branch, NEW i \in DOMAIN queue'[c]
      PROVE  pc'[queue'[c][i]] # "new"
  <2>1. \A j \in DOMAIN queue[c] :
          queue[c][j] \in Request /\ pc[queue[c][j]] # "new"
    BY DEF IInv, TypeOK, ChainOK
  <2>2. CASE c = b
    <3>1. queue'[c] = Tail(queue[b])
      BY <2>2 DEF Settle, IInv, TypeOK
    <3> QED BY <1>3, <1>4, <2>1, <2>2, <3>1, HeadOfChain
  <2>3. CASE c # b
    BY <1>3, <1>4, <2>1, <2>3 DEF Settle, IInv, TypeOK
  <2> QED BY <2>2, <2>3
<1>5. ChainOK'
  BY <1>2, <1>4 DEF ChainOK, IInv, TypeOK, Settle
<1> QED BY <1>1, <1>5 DEF IInv

LEMMA NextIInv == IInv /\ [Next]_vars => IInv'
<1> SUFFICES ASSUME IInv, [Next]_vars PROVE IInv'
  OBVIOUS
<1> USE DEF requestVars, chainVars, boundVars
<1>1. ASSUME NEW r \in Request, Identify(r) PROVE IInv'
  <2>1. PICK o \in OpInput : op' = [op EXCEPT ![r] = o]
    BY <1>1 DEF Identify
  <2>2. TypeOK'
    BY <1>1, <2>1 DEF Identify, IInv, TypeOK, Pcs
  <2>3. ChainOK'
    BY <1>1, <2>1 DEF Identify, IInv, TypeOK, ChainOK
  <2> QED BY <2>2, <2>3 DEF IInv
<1>2. ASSUME NEW r \in Request, Refuse(r) \/ Respond(r) PROVE IInv'
  <2>1. /\ pc[r] # "new"
        /\ \E v \in {"ok", "notFound", "error"} : pc' = [pc EXCEPT ![r] = v]
        /\ UNCHANGED <<head, op, branch, chainVars, disk, boundVars>>
    BY <1>2 DEF Refuse, Respond
  <2>2. TypeOK'
    BY <2>1 DEF IInv, TypeOK, Pcs
  <2>3. ChainOK'
    BY <2>1 DEF IInv, TypeOK, ChainOK
  <2> QED BY <2>2, <2>3 DEF IInv
<1>3. ASSUME NEW r \in Request, Enqueue(r) PROVE IInv'
  <2> DEFINE b == branch[r]
  <2>1. b \in Branch /\ queue[b] \in Seq(Request) /\ pc[r] # "new"
    BY <1>3 DEF Enqueue, IInv, TypeOK
  <2>2. queue' = [queue EXCEPT ![b] = Append(queue[b], r)]
    BY <1>3 DEF Enqueue
  <2>3. /\ Append(queue[b], r) \in Seq(Request)
        /\ Append(queue[b], r) # <<>>
        /\ \A i \in DOMAIN Append(queue[b], r) :
             \/ i \in DOMAIN queue[b] /\ Append(queue[b], r)[i] = queue[b][i]
             \/ Append(queue[b], r)[i] = r
    BY <2>1
  <2>4. TypeOK'
    BY <1>3, <2>1, <2>2, <2>3 DEF Enqueue, IInv, TypeOK, Pcs
  <2>5. ASSUME NEW c \in Branch, NEW i \in DOMAIN queue'[c]
        PROVE  pc'[queue'[c][i]] # "new"
    <3>1. queue'[c] = IF c = b THEN Append(queue[b], r) ELSE queue[c]
      BY <2>2 DEF IInv, TypeOK
    <3>2. \A j \in DOMAIN queue[c] :
            queue[c][j] \in Request /\ pc[queue[c][j]] # "new"
      BY DEF IInv, TypeOK, ChainOK
    <3>3. \A p \in Request : pc[p] # "new" => pc'[p] # "new"
      BY <1>3 DEF Enqueue, IInv, TypeOK
    <3> QED BY <2>1, <2>3, <2>5, <3>1, <3>2, <3>3
  <2>6. ChainOK'
    BY <1>3, <2>2, <2>3, <2>5 DEF Enqueue, IInv, TypeOK, ChainOK
  <2> QED BY <2>4, <2>6 DEF IInv
<1>4. ASSUME NEW b \in Branch, ReadAndMutate(b) PROVE IInv'
  <2> DEFINE r == Head(queue[b])
  <2>1. r \in Request /\ op[r] \in OpInput /\ op[r] \in Op
    BY <1>4, HeadOfChain, ReviewStoreAssumption DEF ReadAndMutate
  <2>2. PICK s \in ReadResult(disk[b]) :
          draft' = [draft EXCEPT ![b] = [state |-> ApplyOp(r, op[r], s),
                                         found |-> Found(op[r], s)]]
    BY <1>4 DEF ReadAndMutate
  <2>3. s \in State
    BY <2>2, ReadResultType DEF IInv, TypeOK
  <2>4. [state |-> ApplyOp(r, op[r], s), found |-> Found(op[r], s)]
          \in [state: State, found: BOOLEAN]
    BY <2>1, <2>3, ApplyOpType, FoundType
  <2>5. TypeOK'
    BY <1>4, <2>2, <2>4 DEF ReadAndMutate, IInv, TypeOK, Phases
  <2>6. ChainOK'
    BY <1>4, <2>2 DEF ReadAndMutate, IInv, TypeOK, ChainOK
  <2> QED BY <2>5, <2>6 DEF IInv
<1>5. ASSUME NEW b \in Branch, BeginWrite(b) \/ EndWrite(b) PROVE IInv'
  <2>1. TypeOK'
    <3>1. /\ tmp' \in [Branch -> State \union {NoFile, Torn}]
          /\ phase' \in [Branch -> Phases]
      BY <1>5 DEF BeginWrite, EndWrite, IInv, TypeOK, Phases
    <3> QED BY <1>5, <3>1 DEF BeginWrite, EndWrite, IInv, TypeOK
  <2>2. CASE BeginWrite(b)
    <3>1. ChainOK'
      BY <2>2 DEF BeginWrite, IInv, TypeOK, ChainOK
    <3> QED BY <2>1, <3>1 DEF IInv
  <2>3. CASE EndWrite(b)
    <3>1. \A c \in Branch :
            phase'[c] = "written" => tmp'[c] = draft'[c].state
      BY <2>3 DEF EndWrite, IInv, TypeOK, ChainOK
    <3>2. ChainOK'
      BY <2>3, <3>1 DEF EndWrite, IInv, TypeOK, ChainOK
    <3> QED BY <2>1, <3>2 DEF IInv
  <2> QED BY <1>5, <2>2, <2>3
<1>6. ASSUME NEW b \in Branch, Rename(b) PROVE IInv'
  <2>1. queue[b] # <<>> /\ tmp[b] = draft[b].state /\ tmp[b] \in State
    BY <1>6 DEF Rename, IInv, TypeOK, ChainOK
  <2>2. /\ disk' \in [Branch -> State \union {NoFile, OtherVersion}]
        /\ tmp' \in [Branch -> State \union {NoFile, Torn}]
        /\ \A c \in Branch \ {b} : tmp'[c] = tmp[c]
    BY <1>6, <2>1 DEF Rename, IInv, TypeOK
  <2>3. PICK v \in {"applied", "missing", "failed"} : Settle(b, v)
    BY <1>6 DEF Rename
  <2> QED BY <1>6, <2>1, <2>2, <2>3, SettleIInv DEF Rename
<1>7. ASSUME NEW b \in Branch, Fail(b) PROVE IInv'
  <2>1. queue[b] # <<>> /\ Settle(b, "failed")
    BY <1>7 DEF Fail, IInv, ChainOK
  <2> QED BY <1>7, <2>1, SettleIInv DEF Fail, IInv, TypeOK
<1>8. ASSUME NEW b \in Branch, Checkout(b) PROVE IInv'
  <2>1. TypeOK'
    BY <1>8, ReviewStoreAssumption DEF Checkout, IInv, TypeOK
  <2>2. ChainOK'
    BY <1>8 DEF Checkout, IInv, TypeOK, ChainOK
  <2> QED BY <2>1, <2>2 DEF IInv
<1>9. ASSUME Crash PROVE IInv'
  <2>1. TypeOK'
    BY <1>9, NoDraftType, ReviewStoreAssumption
    DEF Crash, IInv, TypeOK, Pcs, Phases
  <2>2. ChainOK'
    BY <1>9 DEF Crash, IInv, TypeOK, ChainOK
  <2> QED BY <2>1, <2>2 DEF IInv
<1>10. ASSUME UNCHANGED vars PROVE IInv'
  BY <1>10 DEF vars, IInv, TypeOK, ChainOK
<1> QED BY <1>1, <1>2, <1>3, <1>4, <1>5, <1>6, <1>7, <1>8, <1>9, <1>10
        DEF Next, Route, Chain, Rest

(* TypeOK is an invariant, with or without read faults: a state file is    *)
(* never the torn content of an unfinished write.                          *)
THEOREM TypeCorrect == Spec => []TypeOK
<1>1. IInv => TypeOK
  BY DEF IInv
<1> QED BY <1>1, InitIInv, NextIInv, PTL DEF Spec
-----------------------------------------------------------------------------
(* The refinement.  While a task is in progress, its copy is the mutation  *)
(* of what a reader is served at that moment: nobody else writes the file. *)
DraftOK ==
  \A b \in Branch : phase[b] # "idle" =>
    LET r == Head(queue[b]) IN
    draft[b] = [state |-> ApplyOp(r, op[r], Served(disk[b])),
                found |-> Found(op[r], Served(disk[b]))]

LEMMA InitDraftOK == Init => DraftOK
  BY DEF Init, DraftOK

(* A step that leaves the files alone, the heads of the chains in progress *)
(* and their mutations, keeps DraftOK.                                     *)
LEMMA KeepDraftOK ==
  ASSUME IInv, DraftOK, UNCHANGED disk,
         \A b \in Branch : phase'[b] # "idle" =>
           /\ phase[b] # "idle" /\ draft'[b] = draft[b]
           /\ Head(queue'[b]) = Head(queue[b])
           /\ op'[Head(queue[b])] = op[Head(queue[b])]
  PROVE  DraftOK'
  BY DEF DraftOK

LEMMA NextDraftOK ==
  ASSUME ReadFaults = FALSE
  PROVE  IInv /\ DraftOK /\ [Next]_vars => DraftOK'
<1> SUFFICES ASSUME IInv, DraftOK, [Next]_vars PROVE DraftOK'
  OBVIOUS
<1> USE DEF requestVars, chainVars, boundVars
<1>a. ASSUME NEW b \in Branch, phase[b] # "idle"
      PROVE  /\ queue[b] \in Seq(Request) /\ queue[b] # <<>>
             /\ Head(queue[b]) \in Request /\ pc[Head(queue[b])] # "new"
  BY <1>a, HeadOfChain DEF IInv, TypeOK, ChainOK
<1>1. ASSUME NEW r \in Request, Identify(r) PROVE DraftOK'
  <2>1. \A p \in Request : p # r => op'[p] = op[p]
    BY <1>1 DEF Identify, IInv, TypeOK
  <2> QED BY <1>a, <1>1, <2>1, KeepDraftOK DEF Identify
<1>2. ASSUME NEW r \in Request, Refuse(r) \/ Respond(r) PROVE DraftOK'
  BY <1>2, KeepDraftOK DEF Refuse, Respond
<1>3. ASSUME NEW r \in Request, Enqueue(r) PROVE DraftOK'
  <2>1. ASSUME NEW b \in Branch, phase[b] # "idle"
        PROVE  Head(queue'[b]) = Head(queue[b])
    BY <1>a, <1>3, <2>1 DEF Enqueue, IInv, TypeOK
  <2> QED BY <1>3, <2>1, KeepDraftOK DEF Enqueue
<1>4. ASSUME NEW b \in Branch, ReadAndMutate(b) PROVE DraftOK'
  <2>1. ReadResult(disk[b]) = {Served(disk[b])}
    BY DEF ReadResult
  <2>2. draft'[b] = [state |-> ApplyOp(Head(queue[b]), op[Head(queue[b])],
                                       Served(disk[b])),
                     found |-> Found(op[Head(queue[b])], Served(disk[b]))]
    BY <1>4, <2>1 DEF ReadAndMutate, IInv, TypeOK
  <2>3. \A c \in Branch \ {b} :
          draft'[c] = draft[c] /\ phase'[c] = phase[c]
    BY <1>4 DEF ReadAndMutate, IInv, TypeOK
  <2> QED BY <1>4, <2>2, <2>3 DEF ReadAndMutate, DraftOK
<1>5. ASSUME NEW b \in Branch, BeginWrite(b) \/ EndWrite(b) PROVE DraftOK'
  BY <1>5, KeepDraftOK DEF BeginWrite, EndWrite, IInv, TypeOK
<1>6. ASSUME NEW b \in Branch, Rename(b) \/ Fail(b) PROVE DraftOK'
  <2>1. /\ phase'[b] = "idle" /\ op' = op
        /\ \A c \in Branch \ {b} :
             /\ phase'[c] = phase[c] /\ draft'[c] = draft[c]
             /\ queue'[c] = queue[c] /\ disk'[c] = disk[c]
    BY <1>6 DEF Rename, Fail, Settle, IInv, TypeOK
  <2> QED BY <2>1 DEF DraftOK
<1>7. ASSUME NEW b \in Branch, Checkout(b) PROVE DraftOK'
  BY <1>7, KeepDraftOK DEF Checkout
<1>8. ASSUME Crash PROVE DraftOK'
  BY <1>8 DEF Crash, DraftOK
<1>9. ASSUME UNCHANGED vars PROVE DraftOK'
  BY <1>9 DEF vars, DraftOK
<1> QED BY <1>1, <1>2, <1>3, <1>4, <1>5, <1>6, <1>7, <1>8, <1>9
        DEF Next, Route, Chain, Rest

(* How the pending mutations of a chain change with the chain. *)
LEMMA PendingAppend ==
  ASSUME NEW q \in Seq(Request), NEW r \in Request, NEW o
  PROVE  Pending(Append(q, r), o)
           = Append(Pending(q, o), [req |-> r, op |-> o[r]])
  BY DEF Pending

LEMMA PendingTail ==
  ASSUME NEW q \in Seq(Request), q # <<>>, NEW o
  PROVE  /\ Pending(q, o) # <<>>
         /\ Head(Pending(q, o)) = [req |-> Head(q), op |-> o[Head(q)]]
         /\ Pending(Tail(q), o) = Tail(Pending(q, o))
  BY DEF Pending

(* The instance of the abstract module has its own copies of the operators *)
(* of ReviewState, which are the same operators.                           *)
LEMMA SameOperators ==
  ASSUME NEW r, NEW o, NEW s
  PROVE  /\ Abs!EmptyState = EmptyState
         /\ Abs!Found(o, s) = Found(o, s)
         /\ Abs!ApplyOp(r, o, s) = ApplyOp(r, o, s)
<1>1. Abs!EmptyState = EmptyState
  BY DEF Abs!EmptyState, EmptyState, Abs!CommentId, CommentId
<1>2. Abs!Found(o, s) = Found(o, s)
  BY DEF Abs!Found, Found, Abs!HasReply, HasReply, Abs!HasComment, HasComment
<1>3. \A c : Abs!UpdatedComment(r, o, c) = UpdatedComment(r, o, c)
  BY DEF Abs!UpdatedComment, UpdatedComment, Abs!Resolve, Resolve,
         Abs!Reopen, Reopen, Abs!Given, Given
<1>4. Abs!NewComment(o) = NewComment(o)
  BY DEF Abs!NewComment, NewComment, Abs!ReplyId, ReplyId
<1>5. Abs!SetViewedMarks(o, s) = SetViewedMarks(o, s)
  BY DEF Abs!SetViewedMarks, SetViewedMarks, Abs!Given, Given
<1>6. Abs!ApplyOp(r, o, s) = ApplyOp(r, o, s)
  BY <1>2, <1>3, <1>4, <1>5
  DEF Abs!ApplyOp, ApplyOp, Abs!Given, Given
<1> QED BY <1>1, <1>2, <1>6

LEMMA InitImplements == Init => Abs!Init
<1> SUFFICES ASSUME Init PROVE Abs!Init
  OBVIOUS
<1>1. absFile \in [Branch -> {Served(f) : f \in SeedFile} \union {EmptyState}]
  BY DEF Init, absFile, Served
<1>2. absLine = [b \in Branch |-> <<>>]
  BY DEF Init, absLine, Pending
<1>3. absFate = [r \in Request |-> "new"]
  BY DEF Init, absFate
<1> QED BY <1>1, <1>2, <1>3, SameOperators DEF Abs!Init

(* A rename is the point where the mutation happens: what readers are      *)
(* served next is the mutation of what they were served before.            *)
LEMMA RenameHappens ==
  ASSUME IInv, DraftOK, NEW b \in Branch, Rename(b)
  PROVE  Abs!Happen(b)
<1> DEFINE q == queue[b]
           r == Head(q)
           s == Served(disk[b])
           t == ApplyOp(r, op[r], s)
<1>1. q \in Seq(Request) /\ q # <<>> /\ disk[b] \in State \union {NoFile, OtherVersion}
  BY DEF Rename, IInv, TypeOK, ChainOK
<1>2. r \in Request /\ op[r] \in Op
  BY <1>1, HeadOfChain, ReviewStoreAssumption
<1>3. s \in State /\ Normalized(s)
  BY <1>1, ServedType
<1>4. t \in State /\ Normalized(t)
  BY <1>2, <1>3, ApplyOpType
<1>5. tmp[b] = t /\ draft[b].found = Found(op[r], s)
  <2>1. phase[b] = "written" /\ tmp[b] = draft[b].state
    BY DEF Rename, IInv, ChainOK
  <2>2. draft[b] = [state |-> t, found |-> Found(op[r], s)]
    BY <2>1 DEF DraftOK
  <2> QED BY <2>1, <2>2
<1>6. Served(t) = t
  BY <1>4, NormalizeIdempotent, ReviewStoreAssumption DEF Served
<1> HIDE DEF t, s
<1>7. absFile' = [absFile EXCEPT ![b] = t]
  <2>1. disk' = [disk EXCEPT ![b] = t]
    BY <1>5 DEF Rename
  <2> QED BY <1>6, <2>1 DEF absFile, IInv, TypeOK
<1>8. absFate' = [absFate EXCEPT ![r] =
                    IF Found(op[r], s) THEN "applied" ELSE "missing"]
  <2>1. pc' = [pc EXCEPT ![r] = IF Found(op[r], s) THEN "applied" ELSE "missing"]
    BY <1>5 DEF Rename, Settle
  <2> QED BY <1>2, <2>1 DEF absFate, IInv, TypeOK
<1>9. absLine' = [absLine EXCEPT ![b] = Tail(absLine[b])]
  <2>1. queue' = [queue EXCEPT ![b] = Tail(q)] /\ op' = op
    BY DEF Rename, Settle
  <2> QED BY <1>1, <2>1, PendingTail DEF absLine, IInv, TypeOK
<1>10. /\ absLine[b] # <<>>
       /\ Head(absLine[b]) = [req |-> r, op |-> op[r]]
       /\ absFile[b] = s
  BY <1>1, PendingTail DEF absLine, absFile, s
<1> DEFINE m == Head(absLine[b])
<1>11. /\ m.req = r /\ Abs!ApplyOp(m.req, m.op, s) = t
       /\ Abs!Found(m.op, s) = Found(op[r], s)
  BY <1>10, SameOperators DEF t
<1> HIDE DEF m, r
<1> QED BY <1>7, <1>8, <1>9, <1>10, <1>11 DEF Abs!Happen, m

LEMMA NextImplements == IInv /\ DraftOK /\ [Next]_vars => [Abs!Next]_(Abs!vars)
<1> SUFFICES ASSUME IInv, DraftOK, [Next]_vars PROVE [Abs!Next]_(Abs!vars)
  OBVIOUS
<1> USE DEF requestVars, chainVars, boundVars
<1>1. ASSUME NEW r \in Request, Identify(r) PROVE UNCHANGED Abs!vars
  <2>1. absFile' = absFile /\ absFate' = absFate
    BY <1>1 DEF Identify, IInv, TypeOK, absFile, absFate
  <2>2. ASSUME NEW b \in Branch PROVE Pending(queue[b], op') = Pending(queue[b], op)
    <3>1. \A i \in DOMAIN queue[b] :
            queue[b][i] \in Request /\ pc[queue[b][i]] # "new"
      BY DEF IInv, TypeOK, ChainOK
    <3>2. \A p \in Request : p # r => op'[p] = op[p]
      BY <1>1 DEF Identify, IInv, TypeOK
    <3> QED BY <1>1, <3>1, <3>2 DEF Pending, Identify
  <2>3. absLine' = absLine
    BY <1>1, <2>2 DEF Identify, absLine
  <2> QED BY <2>1, <2>3 DEF Abs!vars
<1>2. ASSUME NEW r \in Request, Refuse(r) PROVE Abs!Refuse(r)
  BY <1>2 DEF Refuse, Abs!Refuse, IInv, TypeOK, absFile, absLine, absFate
<1>3. ASSUME NEW r \in Request, Respond(r) PROVE Abs!Answer(r)
  <2>1. absFile' = absFile /\ absLine' = absLine
    BY <1>3 DEF Respond, absFile, absLine
  <2>2. absFate[r] = pc[r]
    BY <1>3 DEF Respond, absFate
  <2>3. absFate' = [absFate EXCEPT ![r] = pc'[r]]
    BY <1>3 DEF Respond, absFate, IInv, TypeOK
  <2>4. pc'[r] = CASE pc[r] = "applied" -> "ok"
                   [] pc[r] = "missing" -> "notFound"
                   [] pc[r] = "failed" -> "error"
    BY <1>3 DEF Respond, IInv, TypeOK
  <2> QED BY <1>3, <2>1, <2>2, <2>3, <2>4 DEF Respond, Abs!Answer
<1>4. ASSUME NEW r \in Request, Enqueue(r)
      PROVE  Abs!Accept(r, op[r], branch[r]) /\ op[r] \in OpInput
                                              /\ branch[r] \in Branch
  <2>1. /\ op[r] \in OpInput /\ branch[r] \in Branch
        /\ queue[branch[r]] \in Seq(Request)
    BY <1>4 DEF Enqueue, IInv, TypeOK, ChainOK
  <2>2. absFate[r] = "new" /\ absFate' = [absFate EXCEPT ![r] = "waiting"]
    BY <1>4 DEF Enqueue, absFate, IInv, TypeOK
  <2>3. absLine' = [absLine EXCEPT ![branch[r]] =
                      Append(absLine[branch[r]], [req |-> r, op |-> op[r]])]
    <3>1. queue' = [queue EXCEPT ![branch[r]] = Append(queue[branch[r]], r)]
          /\ op' = op
      BY <1>4 DEF Enqueue
    <3> QED BY <2>1, <3>1, PendingAppend DEF absLine, IInv, TypeOK
  <2>4. absFile' = absFile
    BY <1>4 DEF Enqueue, absFile
  <2> QED BY <2>1, <2>2, <2>3, <2>4 DEF Abs!Accept
<1>5. ASSUME NEW b \in Branch, ReadAndMutate(b) \/ BeginWrite(b) \/ EndWrite(b)
      PROVE  UNCHANGED Abs!vars
  BY <1>5 DEF ReadAndMutate, BeginWrite, EndWrite, Abs!vars, absFile, absLine,
              absFate
<1>6. ASSUME NEW b \in Branch, Rename(b) PROVE Abs!Happen(b)
  BY <1>6, RenameHappens
<1>7. ASSUME NEW b \in Branch, Fail(b) PROVE Abs!Fail(b)
  <2>1. queue[b] \in Seq(Request) /\ queue[b] # <<>>
    BY <1>7 DEF Fail, IInv, TypeOK, ChainOK
  <2>2. /\ absLine[b] # <<>> /\ Head(absLine[b]).req = Head(queue[b])
        /\ Pending(Tail(queue[b]), op) = Tail(absLine[b])
    BY <2>1, PendingTail DEF absLine
  <2>3. absLine' = [absLine EXCEPT ![b] = Tail(absLine[b])]
    <3>1. queue' = [queue EXCEPT ![b] = Tail(queue[b])] /\ op' = op
      BY <1>7 DEF Fail, Settle
    <3> QED BY <2>2, <3>1 DEF absLine, IInv, TypeOK
  <2>4. absFate' = [absFate EXCEPT ![Head(queue[b])] = "failed"]
    BY <1>7 DEF Fail, Settle, absFate, IInv, TypeOK
  <2>5. absFile' = absFile
    BY <1>7 DEF Fail, absFile
  <2> QED BY <2>2, <2>3, <2>4, <2>5 DEF Abs!Fail
<1>8. ASSUME NEW b \in Branch, Checkout(b) PROVE UNCHANGED Abs!vars
  BY <1>8 DEF Checkout, Abs!vars, absFile, absLine, absFate
<1>9. ASSUME Crash PROVE Abs!Crash
  <2> DEFINE early == {r \in Request : pc[r] = "identified"}
  <2>1. early \in SUBSET {r \in Request : absFate[r] = "new"}
    BY DEF absFate
  <2>2. absFate' = [r \in Request |->
          IF r \in early \/ absFate[r] \in {"waiting", "applied", "missing",
                                           "failed"}
          THEN "lost" ELSE absFate[r]]
    BY <1>9 DEF Crash, absFate, IInv, TypeOK
  <2>3. absLine' = [b \in Branch |-> <<>>]
    BY <1>9 DEF Crash, absLine, Pending
  <2>4. absFile' = absFile
    BY <1>9 DEF Crash, absFile
  <2> QED BY <2>1, <2>2, <2>3, <2>4 DEF Abs!Crash
<1>10. ASSUME UNCHANGED vars PROVE UNCHANGED Abs!vars
  BY <1>10 DEF vars, Abs!vars, absFile, absLine, absFate
<1> QED BY <1>1, <1>2, <1>3, <1>4, <1>5, <1>6, <1>7, <1>8, <1>9, <1>10
        DEF Next, Route, Chain, Rest, Abs!Next

(* As long as existing state files can be read, the store implements the   *)
(* atomic store: every behaviour of its chains, temporary files, renames   *)
(* and crashes is one where whole mutations happen in the order accepted.  *)
THEOREM StoreIsAtomic ==
  ASSUME ReadFaults = FALSE
  PROVE  Spec => ImplementsAtomicStore
<1>1. IInv /\ DraftOK /\ [Next]_vars => DraftOK'
  BY NextDraftOK
<1> QED BY <1>1, InitIInv, NextIInv, InitDraftOK, InitImplements,
           NextImplements, PTL
        DEF Spec, ImplementsAtomicStore, Abs!Spec

-----------------------------------------------------------------------------
(* What becomes of the effects of a request: they are found on its own     *)
(* branch only, an acknowledged comment survives, and what was deleted     *)
(* does not come back.                                                     *)

(* How a mutation that finds its target changes the comments: it leaves     *)
(* them alone, or replaces the one named k by c.                            *)
LEMMA PutComments ==
  ASSUME NEW s \in State, NEW k \in CommentId, NEW c
  PROVE  LET t == [s EXCEPT !.comments[k] = c] IN
         \A id \in CommentId :
           t.comments[id] = IF id = k THEN c ELSE s.comments[id]
  BY DEF State

LEMMA UpdatedReplies ==
  ASSUME NEW r \in Request, NEW o \in UpdateOp, NEW c \in Comment,
         NEW i \in ReplyId, UpdatedComment(r, o, c).replies[i] # None
  PROVE  c.replies[i] # None \/ i = r
  BY DEF UpdatedComment, Resolve, Reopen, UpdateOp, Comment

(* A thread that a mutation other than a creation or a deletion leaves. *)
Edited(r, o, s, t) ==
  /\ o.id \in CommentId /\ HasComment(s, o.id)
  /\ t.comments[o.id] # None
  /\ \A id \in CommentId \ {o.id} : t.comments[id] = s.comments[id]
  /\ \A i \in ReplyId : t.comments[o.id].replies[i] # None =>
       s.comments[o.id].replies[i] # None \/ i = r

LEMMA EditEdits ==
  ASSUME NEW s \in State, NEW r \in Request, NEW o \in Op, Found(o, s),
         o.op \in {"update", "reply", "editReply", "deleteReply"}
  PROVE  LET t == ApplyOp(r, o, s) IN
         /\ Edited(r, o, s, t)
         /\ o.op = "deleteReply" => t.comments[o.id].replies[o.reply] = None
<1> DEFINE c == s.comments[o.id]
           Puts(x) == ApplyOp(r, o, s) = [s EXCEPT !.comments[o.id] = x]
<1>0. None \notin Comment /\ None \notin Reply
  BY ReviewStateAssumption
<1>a. ASSUME o.id \in CommentId, HasComment(s, o.id)
      PROVE  c \in Comment /\ c # None
  BY <1>a DEF HasComment, State
<1>b. ASSUME o.id \in CommentId, HasComment(s, o.id),
             NEW x \in Comment, Puts(x),
             \A i \in ReplyId : x.replies[i] # None =>
               c.replies[i] # None \/ i = r
      PROVE  /\ Edited(r, o, s, ApplyOp(r, o, s))
             /\ ApplyOp(r, o, s).comments[o.id] = x
  <2>1. \A id \in CommentId : ApplyOp(r, o, s).comments[id] =
          IF id = o.id THEN x ELSE s.comments[id]
    BY <1>b, PutComments
  <2> QED BY <1>0, <1>b, <2>1 DEF Edited
<1>1. CASE o \in UpdateOp
  <2> DEFINE x == UpdatedComment(r, o, c)
  <2>1. o.id \in CommentId /\ HasComment(s, o.id) /\ o.op = "update"
    BY <1>1 DEF UpdateOp, Found
  <2>2. Puts(x)
    BY <1>1, <2>1 DEF UpdateOp, ApplyOp, State
  <2>3. x \in Comment
    BY <1>1, <1>a, <2>1, UpdatedCommentType
  <2>4. \A i \in ReplyId : x.replies[i] # None => c.replies[i] # None \/ i = r
    BY <1>1, <1>a, <2>1, UpdatedReplies
  <2> HIDE DEF x
  <2> QED BY <1>b, <2>1, <2>2, <2>3, <2>4
<1>2. CASE o \in ReplyOp
  <2> DEFINE y == [kind |-> "reply", author |-> Given(o.author, "user"),
                   message |-> o.message]
             x == [c EXCEPT !.replies[r] = y]
  <2>1. /\ o.id \in CommentId /\ HasComment(s, o.id) /\ o.op = "reply"
        /\ y \in Reply
    BY <1>2 DEF ReplyOp, Found, Reply, Given, Author
  <2>2. Puts(x)
    BY <1>2, <2>1 DEF ReplyOp, ApplyOp, State
  <2>3. x \in Comment
    BY <1>a, <2>1, PutReply DEF ReplyId
  <2>4. \A i \in ReplyId : x.replies[i] # None => c.replies[i] # None \/ i = r
    BY <1>a, <2>1 DEF Comment
  <2> HIDE DEF x
  <2> QED BY <1>b, <2>1, <2>2, <2>3, <2>4
<1>3. CASE o \in EditReplyOp
  <2> DEFINE y == [c.replies[o.reply] EXCEPT !.message = o.message]
             x == [c EXCEPT !.replies[o.reply] = y]
  <2>1. /\ o.id \in CommentId /\ HasComment(s, o.id) /\ o.op = "editReply"
        /\ o.reply \in ReplyId /\ c.replies[o.reply] # None
    BY <1>3 DEF EditReplyOp, Found, HasReply
  <2>2. y \in Reply
    BY <1>3, <1>a, <2>1 DEF EditReplyOp, Comment, Reply
  <2>3. Puts(x)
    BY <1>3, <1>a, <2>1 DEF EditReplyOp, ApplyOp, State, Comment
  <2>4. x \in Comment
    BY <1>a, <2>1, <2>2, PutReply
  <2> HIDE DEF y
  <2>5. \A i \in ReplyId : x.replies[i] # None => c.replies[i] # None \/ i = r
    BY <1>a, <2>1 DEF Comment
  <2> HIDE DEF x
  <2> QED BY <1>b, <2>1, <2>3, <2>4, <2>5
<1>4. CASE o \in DeleteReplyOp
  <2> DEFINE x == [c EXCEPT !.replies[o.reply] = None]
  <2>1. /\ o.id \in CommentId /\ HasComment(s, o.id) /\ o.reply \in ReplyId
    BY <1>4 DEF DeleteReplyOp, Found, HasReply
  <2>2. Puts(x)
    BY <1>4, <2>1 DEF DeleteReplyOp, ApplyOp, State
  <2>3. x \in Comment
    BY <1>a, <2>1, PutReply
  <2>4. /\ \A i \in ReplyId :
             x.replies[i] # None => c.replies[i] # None \/ i = r
        /\ x.replies[o.reply] = None
    BY <1>a, <2>1 DEF Comment
  <2> HIDE DEF x
  <2> QED BY <1>b, <2>1, <2>2, <2>3, <2>4
<1> QED BY <1>1, <1>2, <1>3, <1>4
        DEF Op, CreateOp, UpdateOp, ReplyOp, EditReplyOp, DeleteReplyOp,
            DeleteOp, MarksOp

(* What a mutation adds is named by its request, and only a deletion takes  *)
(* away a comment: t is what the mutation o of request r leaves of s.       *)
Effects(r, o, s, t) ==
  /\ \A id \in CommentId : HasComment(t, id) => HasComment(s, id) \/ id = r
  /\ \A id \in CommentId, i \in ReplyId :
       HasReply(t, id, i) => HasReply(s, id, i) \/ i = r
  /\ \A id \in CommentId : HasComment(s, id) =>
       HasComment(t, id) \/ (o.op = "delete" /\ o.id = id)
  /\ o.op = "create" => HasComment(t, r)
  /\ o.op = "delete" =>
       o.id \in CommentId /\ HasComment(s, o.id) /\ ~HasComment(t, o.id)
  /\ o.op = "deleteReply" =>
       /\ o.id \in CommentId /\ o.reply \in ReplyId
       /\ HasReply(s, o.id, o.reply) /\ ~HasReply(t, o.id, o.reply)

LEMMA ApplyOpEffects ==
  ASSUME NEW s \in State, NEW r \in Request, NEW o \in Op, Found(o, s)
  PROVE  Effects(r, o, s, ApplyOp(r, o, s))
<1> DEFINE t == ApplyOp(r, o, s)
<1>0. None \notin Comment
  BY ReviewStateAssumption
<1>1. CASE o \in CreateOp
  <2> DEFINE c == NewComment(o)
  <2>1. /\ o.op = "create" /\ r \in CommentId
        /\ t = [s EXCEPT !.comments[r] = c]
    BY <1>1 DEF CreateOp, ApplyOp, CommentId
  <2>2. c # None /\ \A i \in ReplyId : c.replies[i] = None
    BY <1>0, <1>1, NewCommentType DEF NewComment
  <2> HIDE DEF c
  <2>3. \A id \in CommentId :
          t.comments[id] = IF id = r THEN c ELSE s.comments[id]
    BY <2>1, PutComments
  <2> QED BY <2>1, <2>2, <2>3 DEF Effects, HasComment, HasReply
<1>2. CASE o \in DeleteOp
  <2>1. /\ o.op = "delete" /\ o.id \in CommentId /\ HasComment(s, o.id)
        /\ t = [s EXCEPT !.comments[o.id] = None]
    BY <1>2 DEF DeleteOp, ApplyOp, Found
  <2>2. \A id \in CommentId :
          t.comments[id] = IF id = o.id THEN None ELSE s.comments[id]
    BY <2>1, PutComments
  <2> QED BY <2>1, <2>2 DEF Effects, HasComment, HasReply
<1>3. CASE o \in MarksOp
  <2>1. o.op = "marks" /\ t = SetViewedMarks(o, s)
    BY <1>3 DEF MarksOp, ApplyOp
  <2>2. t.comments = s.comments
    BY <1>3, <2>1, SetViewedMarksType
  <2> QED BY <2>1, <2>2 DEF Effects, HasComment, HasReply
<1>4. CASE o.op \in {"update", "reply", "editReply", "deleteReply"}
  <2>1. /\ Edited(r, o, s, t)
        /\ o.op = "deleteReply" => t.comments[o.id].replies[o.reply] = None
    BY <1>4, EditEdits
  <2>2. o.op = "deleteReply" =>
          /\ o.id \in CommentId /\ o.reply \in ReplyId
          /\ HasReply(s, o.id, o.reply)
    BY DEF Found, Op, CreateOp, UpdateOp, ReplyOp, EditReplyOp, DeleteReplyOp,
           DeleteOp, MarksOp
  <2> QED BY <1>4, <2>1, <2>2 DEF Effects, Edited, HasComment, HasReply
<1> QED BY <1>1, <1>2, <1>3, <1>4
        DEF Op, UpdateOp, ReplyOp, EditReplyOp, DeleteReplyOp

(* The legacy upgrade adds no comment, and no reply but the legacy note. *)
LEMMA NormalizeEffects ==
  ASSUME NEW s \in State, NEW id \in CommentId
  PROVE  /\ HasComment(Normalize(s), id) => HasComment(s, id)
         /\ \A i \in ReplyId : HasReply(Normalize(s), id, i) =>
              HasReply(s, id, i) \/ i = LegacyNote
<1>1. s.comments[id] \in Comment \union {None}
  BY DEF State
<1>2. Normalize(s).comments[id] =
        IF s.comments[id] = None THEN None ELSE NormalizeComment(s.comments[id])
  BY DEF Normalize, State
<1>3. ASSUME NEW c \in Comment, NEW i \in ReplyId \ {LegacyNote}
      PROVE  NormalizeComment(c).replies[i] = c.replies[i]
  BY <1>3 DEF NormalizeComment, Comment
<1> QED BY <1>1, <1>2, <1>3 DEF HasComment, HasReply
-----------------------------------------------------------------------------
(* A request is in one chain at most, that of its branch, once, and only    *)
(* while it waits.                                                          *)
LineOK ==
  \A b \in Branch : \A i \in DOMAIN queue[b] :
    /\ pc[queue[b][i]] = "waiting"
    /\ branch[queue[b][i]] = b
    /\ \A j \in DOMAIN queue[b] : queue[b][i] = queue[b][j] => i = j

LEMMA InitLineOK == Init => LineOK
  BY DEF Init, LineOK

(* A step that leaves the chains alone, or ends them, and what waits in     *)
(* them.                                                                    *)
LEMMA KeepLineOK ==
  ASSUME IInv, LineOK,
         \A b \in Branch : queue'[b] \in {queue[b], <<>>},
         \A r \in Request : pc[r] = "waiting" =>
           branch'[r] = branch[r] /\
             (pc'[r] = "waiting" \/ \A b \in Branch : queue'[b] = <<>>)
  PROVE  LineOK'
<1> SUFFICES ASSUME NEW b \in Branch, NEW i \in DOMAIN queue'[b]
             PROVE  /\ pc'[queue'[b][i]] = "waiting"
                    /\ branch'[queue'[b][i]] = b
                    /\ \A j \in DOMAIN queue'[b] :
                         queue'[b][i] = queue'[b][j] => i = j
  BY DEF LineOK
<1>1. queue'[b] = queue[b] /\ queue'[b] # <<>>
  OBVIOUS
<1>2. queue[b][i] \in Request
  BY <1>1 DEF IInv, TypeOK
<1> QED BY <1>1, <1>2 DEF LineOK

LEMMA NextLineOK == IInv /\ LineOK /\ [Next]_vars => LineOK'
<1> SUFFICES ASSUME IInv, LineOK, [Next]_vars PROVE LineOK'
  OBVIOUS
<1> USE DEF requestVars, chainVars, boundVars
<1>1. ASSUME NEW r \in Request, Identify(r) PROVE LineOK'
  BY <1>1, KeepLineOK DEF Identify, IInv, TypeOK
<1>2. ASSUME NEW r \in Request, Refuse(r) \/ Respond(r) PROVE LineOK'
  BY <1>2, KeepLineOK DEF Refuse, Respond, IInv, TypeOK
<1>3. ASSUME NEW r \in Request, Enqueue(r) PROVE LineOK'
  <2> DEFINE q == Append(queue[branch[r]], r)
  <2>1. branch[r] \in Branch /\ queue[branch[r]] \in Seq(Request)
    BY DEF IInv, TypeOK
  <2>2. /\ pc' = [pc EXCEPT ![r] = "waiting"] /\ branch' = branch
        /\ queue' = [queue EXCEPT ![branch[r]] = q]
        /\ pc[r] = "identified"
    BY <1>3 DEF Enqueue
  <2>3. \A b \in Branch : \A i \in DOMAIN queue[b] :
          queue[b][i] \in Request /\ queue[b][i] # r
    BY <2>2 DEF IInv, TypeOK, LineOK
  <2>4. ASSUME NEW b \in Branch, b # branch[r], NEW i \in DOMAIN queue'[b]
        PROVE  /\ pc'[queue'[b][i]] = "waiting"
               /\ branch'[queue'[b][i]] = b
               /\ \A j \in DOMAIN queue'[b] :
                    queue'[b][i] = queue'[b][j] => i = j
    <3>1. queue'[b] = queue[b]
      BY <2>2, <2>4 DEF IInv, TypeOK
    <3> QED BY <2>2, <2>3, <2>4, <3>1 DEF LineOK, IInv, TypeOK
  <2>5. ASSUME NEW i \in DOMAIN q
        PROVE  /\ pc'[q[i]] = "waiting" /\ branch'[q[i]] = branch[r]
               /\ \A j \in DOMAIN q : q[i] = q[j] => i = j
    <3> DEFINE o == queue[branch[r]]
    <3>1. \A j \in DOMAIN q :
            \/ j \in DOMAIN o /\ q[j] = o[j]
            \/ j \notin DOMAIN o /\ j = Len(o) + 1 /\ q[j] = r
      BY <2>1
    <3>2. \A j \in DOMAIN o :
            /\ pc'[o[j]] = "waiting" /\ branch'[o[j]] = branch[r] /\ o[j] # r
            /\ \A k \in DOMAIN o : o[j] = o[k] => j = k
      BY <2>1, <2>2, <2>3 DEF LineOK, IInv, TypeOK
    <3>3. pc'[r] = "waiting" /\ branch'[r] = branch[r]
      BY <2>2 DEF IInv, TypeOK
    <3> HIDE DEF q, o
    <3> QED BY <2>5, <3>1, <3>2, <3>3
  <2>6. queue'[branch[r]] = q
    BY <2>1, <2>2 DEF IInv, TypeOK
  <2> HIDE DEF q
  <2> QED BY <2>4, <2>5, <2>6 DEF LineOK
<1>4. ASSUME NEW b \in Branch, ReadAndMutate(b) \/ BeginWrite(b) \/ EndWrite(b)
      PROVE  LineOK'
  BY <1>4, KeepLineOK DEF ReadAndMutate, BeginWrite, EndWrite
<1>5. ASSUME NEW b \in Branch, Rename(b) \/ Fail(b) PROVE LineOK'
  <2> DEFINE q == queue[b]
             h == Head(q)
  <2>1. q # <<>> /\ q \in Seq(Request) /\ h = q[1] /\ 1 \in DOMAIN q
    BY <1>5 DEF Rename, Fail, IInv, TypeOK, ChainOK
  <2>2. PICK v : pc' = [pc EXCEPT ![h] = v]
    BY <1>5 DEF Rename, Fail, Settle
  <2>3. queue' = [queue EXCEPT ![b] = Tail(q)] /\ branch' = branch
    BY <1>5 DEF Rename, Fail, Settle
  <2>4. ASSUME NEW c \in Branch, c # b, NEW i \in DOMAIN queue'[c]
        PROVE  /\ pc'[queue'[c][i]] = "waiting"
               /\ branch'[queue'[c][i]] = c
               /\ \A j \in DOMAIN queue'[c] :
                    queue'[c][i] = queue'[c][j] => i = j
    <3>1. queue'[c] = queue[c]
      BY <2>3, <2>4 DEF IInv, TypeOK
    <3>2. queue[c][i] # h
      BY <2>1, <2>4, <3>1 DEF LineOK
    <3> QED BY <2>2, <2>3, <2>4, <3>1, <3>2 DEF LineOK, IInv, TypeOK
  <2>5. ASSUME NEW i \in DOMAIN Tail(q)
        PROVE  /\ pc'[Tail(q)[i]] = "waiting" /\ branch'[Tail(q)[i]] = b
               /\ \A j \in DOMAIN Tail(q) : Tail(q)[i] = Tail(q)[j] => i = j
    <3>1. \A j \in DOMAIN Tail(q) :
            j \in Nat /\ j + 1 \in DOMAIN q /\ Tail(q)[j] = q[j + 1] /\ j + 1 # 1
      BY <2>1
    <3>2. \A j \in DOMAIN q :
            /\ pc[q[j]] = "waiting" /\ branch[q[j]] = b /\ q[j] \in Request
            /\ \A k \in DOMAIN q : q[j] = q[k] => j = k
      BY DEF LineOK, IInv, TypeOK
    <3>3. \A j \in DOMAIN Tail(q) : Tail(q)[j] # h /\ Tail(q)[j] \in Request
      BY <2>1, <3>1, <3>2
    <3>4. \A j \in DOMAIN Tail(q) : pc'[Tail(q)[j]] = pc[Tail(q)[j]]
      BY <2>2, <3>3 DEF IInv, TypeOK
    <3> HIDE DEF q, h
    <3> QED BY <2>3, <2>5, <3>1, <3>2, <3>4
  <2>6. queue'[b] = Tail(q)
    BY <2>3 DEF IInv, TypeOK
  <2> HIDE DEF q
  <2> QED BY <2>4, <2>5, <2>6 DEF LineOK
<1>6. ASSUME NEW b \in Branch, Checkout(b) PROVE LineOK'
  BY <1>6, KeepLineOK DEF Checkout
<1>7. ASSUME Crash PROVE LineOK'
  BY <1>7, KeepLineOK DEF Crash
<1>8. ASSUME UNCHANGED vars PROVE LineOK'
  BY <1>8, KeepLineOK DEF vars
<1> QED BY <1>1, <1>2, <1>3, <1>4, <1>5, <1>6, <1>7, <1>8
        DEF Next, Route, Chain, Rest
-----------------------------------------------------------------------------
(* A comment that was created is served, or its deletion may have happened; *)
(* so it is from the time of its creation, and not only of the answer.      *)
Deleted(r) ==
  \E d \in Request : MayHaveHappened(d) /\ op[d].op = "delete" /\ op[d].id = r

CreatedSurvive ==
  \A r \in Request : Happened(r) /\ op[r].op = "create" =>
    HasComment(Served(disk[branch[r]]), r) \/ Deleted(r)

(* What a request deleted was there: if a request created it, that one has  *)
(* happened, so that it will not create it again.                           *)
TargetsHappened ==
  \A d \in Request : Happened(d) =>
    /\ op[d].op = "delete" /\ op[d].id \in Request =>
         MayHaveHappened(op[d].id)
    /\ op[d].op = "deleteReply" /\ op[d].reply \in Request =>
         MayHaveHappened(op[d].reply)

EffectsInv ==
  /\ EffectsOnOwnBranch
  /\ CreatedSurvive
  /\ DeletedStaysDeleted
  /\ TargetsHappened

LEMMA InitEffectsInv == Init => EffectsInv
<1> SUFFICES ASSUME Init PROVE EffectsInv
  OBVIOUS
<1>1. ASSUME NEW r \in Request PROVE ~Happened(r)
  BY DEF Init, Happened
<1>2. ASSUME NEW b \in Branch, NEW r \in Request
      PROVE  /\ ~HasComment(Served(disk[b]), r)
             /\ \A id \in CommentId : ~HasReply(Served(disk[b]), id, r)
  <2>1. CASE disk[b] \in {NoFile, OtherVersion}
    BY <2>1 DEF Served, EmptyState, HasComment, HasReply, CommentId
  <2>2. CASE disk[b] \in SeedFile
    <3>1. /\ disk[b] \in State /\ Served(disk[b]) = Normalize(disk[b])
          /\ r # LegacyNote /\ r \in CommentId /\ r \in ReplyId
      BY <2>2, ReviewStoreAssumption, ReviewStateAssumption
      DEF Served, CommentId, ReplyId
    <3> QED BY <2>2, <3>1, NormalizeEffects, FreshIdsAssumption
  <2> QED BY <2>1, <2>2 DEF Init
<1> QED BY <1>1, <1>2
        DEF EffectsInv, EffectsOnOwnBranch, CreatedSurvive,
            DeletedStaysDeleted, TargetsHappened

(* A step that changes nothing that is served.                              *)
LEMMA KeepEffectsInv ==
  ASSUME IInv, EffectsInv,
         \A b \in Branch : Served(disk[b])' = Served(disk[b]),
         \A r \in Request : pc[r] # "new" =>
           op'[r] = op[r] /\ branch'[r] = branch[r],
         \A r \in Request : MayHaveHappened(r) => MayHaveHappened(r)',
         \A r \in Request : Happened(r)' => Happened(r)
  PROVE  EffectsInv'
<1>1. ASSUME NEW r \in Request, MayHaveHappened(r) \/ Happened(r)
      PROVE  op'[r] = op[r] /\ branch'[r] = branch[r] /\ branch[r] \in Branch
  BY <1>1 DEF MayHaveHappened, Happened, IInv, TypeOK
<1> HIDE DEF Happened, MayHaveHappened
<1>2. EffectsOnOwnBranch'
  BY <1>1 DEF EffectsInv, EffectsOnOwnBranch
<1>3. CreatedSurvive'
  BY <1>1 DEF EffectsInv, CreatedSurvive, Deleted
<1>4. DeletedStaysDeleted'
  BY <1>1 DEF EffectsInv, DeletedStaysDeleted
<1>5. TargetsHappened'
  BY <1>1 DEF EffectsInv, TargetsHappened
<1> QED BY <1>2, <1>3, <1>4, <1>5 DEF EffectsInv

(* Where the effects come from: the mutation of the head of a chain.        *)
LEMMA RenameEffectsInv ==
  ASSUME IInv, DraftOK, LineOK, EffectsInv, NEW b \in Branch, Rename(b)
  PROVE  EffectsInv'
<1>0. PICK r : r = Head(queue[b])
  OBVIOUS
<1> DEFINE s == Served(disk[b])
           t == ApplyOp(r, op[r], s)
<1>1. /\ r \in Request /\ op[r] \in Op /\ pc[r] = "waiting" /\ branch[r] = b
      /\ s \in State /\ Normalized(s)
  <2>1. /\ queue[b] \in Seq(Request) /\ queue[b] # <<>>
        /\ disk[b] \in State \union {NoFile, OtherVersion}
    BY DEF Rename, IInv, TypeOK, ChainOK
  <2>2. 1 \in DOMAIN queue[b] /\ r = queue[b][1]
    BY <1>0, <2>1
  <2> QED BY <1>0, <2>1, <2>2, HeadOfChain, ServedType,
             ReviewStoreAssumption
          DEF LineOK
<1>2. t \in State /\ Normalized(t)
  BY <1>1, ApplyOpType
<1>3. /\ Served(disk[b])' = t
      /\ \A c \in Branch \ {b} : Served(disk[c])' = Served(disk[c])
      /\ pc' = [pc EXCEPT ![r] = IF Found(op[r], s) THEN "applied"
                                 ELSE "missing"]
      /\ op' = op /\ branch' = branch
  <2>1. /\ tmp[b] = draft[b].state
        /\ draft[b] = [state |-> t, found |-> Found(op[r], s)]
    BY <1>0 DEF Rename, IInv, ChainOK, DraftOK
  <2>2. disk' = [disk EXCEPT ![b] = t]
    BY <2>1 DEF Rename
  <2>3. Served(t) = t
    BY <1>2, NormalizeIdempotent, ReviewStoreAssumption DEF Served
  <2>4. disk'[b] = t /\ \A c \in Branch \ {b} : disk'[c] = disk[c]
    BY <2>2 DEF IInv, TypeOK
  <2> HIDE DEF t, s
  <2> QED BY <1>0, <2>1, <2>3, <2>4 DEF Rename, Settle, Served
<1>4. CASE ~Found(op[r], s)
  <2>1. t = s
    BY <1>4 DEF ApplyOp
  <2>2. pc' = [pc EXCEPT ![r] = "missing"]
    BY <1>3, <1>4
  <2> HIDE DEF t
  <2>3. \A x \in Request : /\ MayHaveHappened(x) => MayHaveHappened(x)'
                           /\ Happened(x)' => Happened(x)
    BY <1>1, <2>2 DEF MayHaveHappened, Happened, IInv, TypeOK
  <2>4. \A c \in Branch : Served(disk[c])' = Served(disk[c])
    BY <1>3, <2>1
  <2> QED BY <1>3, <2>3, <2>4, KeepEffectsInv
<1>5. CASE Found(op[r], s)
  <2>1. Effects(r, op[r], s, t)
    BY <1>1, <1>5, ApplyOpEffects
  <2>2. pc' = [pc EXCEPT ![r] = "applied"]
    BY <1>3, <1>5
  <2> HIDE DEF t, s
  <2>3. /\ ~MayHaveHappened(r) /\ MayHaveHappened(r)' /\ Happened(r)'
        /\ \A x \in Request \ {r} :
             MayHaveHappened(x)' = MayHaveHappened(x) /\ Happened(x)' = Happened(x)
    BY <1>1, <2>2 DEF MayHaveHappened, Happened, IInv, TypeOK
  <2>4. ASSUME NEW d \in Request, Happened(d)
        PROVE  op[d] \in Op /\ branch[d] \in Branch
    BY <2>4, ReviewStoreAssumption DEF Happened, IInv, TypeOK, ChainOK
  <2>5. \A x \in Request : x \in CommentId /\ x \in ReplyId
    BY DEF CommentId, ReplyId
  <2> HIDE DEF Happened, MayHaveHappened
  <2>6. EffectsOnOwnBranch'
    <3> SUFFICES ASSUME NEW c \in Branch, NEW x \in Request,
                        \/ HasComment(Served(disk[c])', x)
                        \/ \E id \in CommentId :
                             HasReply(Served(disk[c])', id, x)
                 PROVE  branch[x] = c /\ MayHaveHappened(x)'
      BY <1>3 DEF EffectsOnOwnBranch
    <3>1. CASE x = r /\ c = b
      BY <1>1, <2>3, <3>1
    <3>2. CASE x # r \/ c # b
      <4>1. \/ HasComment(Served(disk[c]), x)
            \/ \E id \in CommentId : HasReply(Served(disk[c]), id, x)
        BY <1>3, <2>1, <2>5, <3>2 DEF Effects, s
      <4> QED BY <2>3, <4>1 DEF EffectsInv, EffectsOnOwnBranch
    <3> QED BY <3>1, <3>2
  <2>7. CreatedSurvive'
    <3>1. ASSUME NEW x \in Request \ {r}, Happened(x), op[x].op = "create"
          PROVE  HasComment(Served(disk[branch[x]])', x) \/ Deleted(x)'
      <4>1. HasComment(Served(disk[branch[x]]), x) \/ Deleted(x)
        BY <3>1 DEF EffectsInv, CreatedSurvive
      <4>2. Deleted(x) => Deleted(x)'
        BY <1>3, <2>3 DEF Deleted
      <4>3. op[r].op = "delete" /\ op[r].id = x => Deleted(x)'
        BY <1>1, <1>3, <2>3 DEF Deleted
      <4> QED BY <1>3, <2>1, <2>4, <2>5, <3>1, <4>1, <4>2, <4>3
              DEF Effects, s
    <3>2. op[r].op = "create" => HasComment(Served(disk[branch[r]])', r)
      BY <1>1, <1>3, <2>1 DEF Effects
    <3> QED BY <1>3, <2>3, <3>1, <3>2 DEF CreatedSurvive
  <2>8. DeletedStaysDeleted'
    <3>1. ASSUME NEW d \in Request \ {r}, Happened(d)
          PROVE  LET u == Served(disk[branch[d]])' IN
                 /\ op[d].op = "delete" => ~HasComment(u, op[d].id)
                 /\ op[d].op = "deleteReply" =>
                      ~HasReply(u, op[d].id, op[d].reply)
      <4> DEFINE u == Served(disk[branch[d]])
      <4>1. /\ op[d].op = "delete" =>
                 op[d].id \in CommentId /\ ~HasComment(u, op[d].id)
                   /\ op[d].id # r
            /\ op[d].op = "deleteReply" =>
                 /\ op[d].id \in CommentId /\ op[d].reply \in ReplyId
                 /\ ~HasReply(u, op[d].id, op[d].reply)
                 /\ op[d].reply # r
        <5>1. /\ op[d].op = "delete" => op[d].id \in CommentId
              /\ op[d].op = "deleteReply" =>
                   op[d].id \in CommentId /\ op[d].reply \in ReplyId
          BY <2>4, <3>1 DEF Op, CreateOp, UpdateOp, ReplyOp, EditReplyOp,
                            DeleteReplyOp, DeleteOp, MarksOp
        <5>2. /\ op[d].op = "delete" => ~HasComment(u, op[d].id)
              /\ op[d].op = "deleteReply" =>
                   ~HasReply(u, op[d].id, op[d].reply)
          BY <3>1 DEF EffectsInv, DeletedStaysDeleted
        <5>3. /\ op[d].op = "delete" => op[d].id # r
              /\ op[d].op = "deleteReply" => op[d].reply # r
          BY <1>1, <2>3, <3>1 DEF EffectsInv, TargetsHappened
        <5> QED BY <5>1, <5>2, <5>3
      <4>2. CASE branch[d] = b
        BY <1>3, <2>1, <4>1, <4>2 DEF Effects, s
      <4>3. CASE branch[d] # b
        BY <1>3, <2>4, <3>1, <4>1, <4>3
      <4> QED BY <4>2, <4>3
    <3>2. /\ op[r].op = "delete" =>
               ~HasComment(Served(disk[branch[r]])', op[r].id)
          /\ op[r].op = "deleteReply" =>
               ~HasReply(Served(disk[branch[r]])', op[r].id, op[r].reply)
      BY <1>1, <1>3, <2>1 DEF Effects
    <3> QED BY <1>3, <2>3, <3>1, <3>2 DEF DeletedStaysDeleted
  <2>9. TargetsHappened'
    <3>1. /\ op[r].op = "delete" /\ op[r].id \in Request =>
               MayHaveHappened(op[r].id)
          /\ op[r].op = "deleteReply" /\ op[r].reply \in Request =>
               MayHaveHappened(op[r].reply)
      BY <2>1 DEF Effects, EffectsInv, EffectsOnOwnBranch, s
    <3>2. \A x \in Request : MayHaveHappened(x) => MayHaveHappened(x)'
      BY <2>3
    <3>3. \A d \in Request : Happened(d)' => Happened(d) \/ d = r
      BY <2>3
    <3> QED BY <1>3, <3>1, <3>2, <3>3 DEF EffectsInv, TargetsHappened
  <2> QED BY <2>6, <2>7, <2>8, <2>9 DEF EffectsInv
<1> QED BY <1>4, <1>5

LEMMA NextEffectsInv ==
  IInv /\ DraftOK /\ LineOK /\ EffectsInv /\ [Next]_vars => EffectsInv'
<1> SUFFICES ASSUME IInv, DraftOK, LineOK, EffectsInv, [Next]_vars
             PROVE  EffectsInv'
  OBVIOUS
<1> USE DEF requestVars, chainVars, boundVars
<1>1. ASSUME NEW r \in Request, Identify(r) PROVE EffectsInv'
  BY <1>1, KeepEffectsInv
  DEF Identify, Happened, MayHaveHappened, Served, IInv, TypeOK
<1>2. ASSUME NEW r \in Request, Refuse(r) \/ Enqueue(r) \/ Respond(r)
      PROVE  EffectsInv'
  BY <1>2, KeepEffectsInv
  DEF Refuse, Enqueue, Respond, Happened, MayHaveHappened, Served, IInv, TypeOK
<1>3. ASSUME NEW b \in Branch,
             ReadAndMutate(b) \/ BeginWrite(b) \/ EndWrite(b) \/ Checkout(b)
      PROVE  EffectsInv'
  BY <1>3, KeepEffectsInv
  DEF ReadAndMutate, BeginWrite, EndWrite, Checkout, Happened, MayHaveHappened,
      Served
<1>4. ASSUME NEW b \in Branch, Rename(b) PROVE EffectsInv'
  BY <1>4, RenameEffectsInv
<1>5. ASSUME NEW b \in Branch, Fail(b) PROVE EffectsInv'
  <2>1. queue[b] \in Seq(Request) /\ queue[b] # <<>>
    BY <1>5 DEF Fail, IInv, TypeOK, ChainOK
  <2>2. pc[Head(queue[b])] = "waiting"
    BY <2>1 DEF LineOK
  <2>3. pc' = [pc EXCEPT ![Head(queue[b])] = "failed"]
    BY <1>5 DEF Fail, Settle
  <2> QED BY <1>5, <2>2, <2>3, KeepEffectsInv
          DEF Fail, Happened, MayHaveHappened, Served, IInv, TypeOK
<1>6. ASSUME Crash PROVE EffectsInv'
  BY <1>6, KeepEffectsInv
  DEF Crash, Happened, MayHaveHappened, Served, IInv, TypeOK
<1>7. ASSUME UNCHANGED vars PROVE EffectsInv'
  BY <1>7, KeepEffectsInv DEF vars, Happened, MayHaveHappened, Served
<1> QED BY <1>1, <1>2, <1>3, <1>4, <1>5, <1>6, <1>7
        DEF Next, Route, Chain, Rest

LEMMA EffectsInvariant ==
  ASSUME ReadFaults = FALSE
  PROVE  Spec => []EffectsInv
<1>1. IInv /\ DraftOK /\ [Next]_vars => DraftOK'
  BY NextDraftOK
<1> QED BY <1>1, InitIInv, NextIInv, InitDraftOK, InitLineOK, NextLineOK,
           InitEffectsInv, NextEffectsInv, PTL DEF Spec

(* Nothing that a request made is found on another branch than its own, or  *)
(* was left by a request that failed.                                       *)
THEOREM OwnBranchOnly ==
  ASSUME ReadFaults = FALSE
  PROVE  Spec => []EffectsOnOwnBranch
<1>1. EffectsInv => EffectsOnOwnBranch
  BY DEF EffectsInv
<1> QED BY <1>1, EffectsInvariant, PTL

(* An acknowledged comment is served until a deletion of it happens.        *)
THEOREM CommentsSurvive ==
  ASSUME ReadFaults = FALSE
  PROVE  Spec => []AckedCommentsSurvive
<1>1. EffectsInv => AckedCommentsSurvive
  BY DEF EffectsInv, CreatedSurvive, AckedCommentsSurvive, Deleted, Happened
<1> QED BY <1>1, EffectsInvariant, PTL

(* A deleted comment or reply does not come back. *)
THEOREM DeletionsLast ==
  ASSUME ReadFaults = FALSE
  PROVE  Spec => []DeletedStaysDeleted
<1>1. EffectsInv => DeletedStaysDeleted
  BY DEF EffectsInv
<1> QED BY <1>1, EffectsInvariant, PTL
=============================================================================
