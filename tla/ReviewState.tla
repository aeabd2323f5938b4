---------------------------- MODULE ReviewState ----------------------------
(* The contents of one review-state file of Legit Review and the mutations *)
(* that lib/store.ts applies to it: comment threads, their replies and     *)
(* their resolution, and the viewed marks of hunks and files.              *)
(*                                                                         *)
(* Abstractions.  A randomUUID() is the identifier of the request that     *)
(* drew it, so a comment or reply that request r creates has identifier r. *)
(* Timestamps, line anchors and snippets are left out: no mutation reads   *)
(* them.  Lists that are only searched by id are functions from ids.       *)
CONSTANTS
  Request,      \* requests that clients may send, each at most once
  SeedComment,  \* ids of comments that are on disk before the first request
  Path,         \* repository-relative file paths
  Hash,         \* content hashes of hunks and files
  Message,      \* texts that are not blank
  None,         \* an absent optional field or record entry
  Empty,        \* the empty text
  Blank,        \* a text that is not empty, but is once it is trimmed
  LegacyNote    \* the id `legacy-note-<comment id>`, within that comment

Author == {"user", "agent"}

CommentId == Request \union SeedComment
ReplyId == Request \union {LegacyNote}

Reply == [kind: {"reply", "resolution"}, author: Author,
          message: Message \union {Blank}]

Comment == [filePath: Path, message: Message, resolved: BOOLEAN,
            resolvedBy: Author \union {None},
            resolutionNote: Message \union {None, Empty, Blank},
            replies: [ReplyId -> Reply \union {None}]]

ASSUME ReviewStateAssumption ==
  /\ None \notin Message \union Hash \union Author \union Reply \union Comment
  /\ {Empty, Blank} \intersect (Message \union {None}) = {}
  /\ Empty # Blank
  /\ LegacyNote \notin Request

State == [comments: [CommentId -> Comment \union {None}],
          viewedHunks: [Path -> SUBSET Hash],
          viewedFiles: [Path -> Hash \union {None}]]

EmptyState == [comments |-> [c \in CommentId |-> None],
               viewedHunks |-> [p \in Path |-> {}],
               viewedFiles |-> [p \in Path |-> None]]

-----------------------------------------------------------------------------
(* The mutations a request may ask for. *)

CreateOp == [op: {"create"}, filePath: Path, message: Message]
UpdateOp == {o \in [op: {"update"}, id: CommentId,
                    message: Message \union {None},
                    resolved: BOOLEAN \union {None},
                    resolvedBy: Author \union {None},
                    note: Message \union {None, Empty, Blank}] :
               o.message # None \/ o.resolved # None}
ReplyOp == [op: {"reply"}, id: CommentId, author: Author \union {None},
            message: Message]
EditReplyOp == [op: {"editReply"}, id: CommentId, reply: ReplyId,
                message: Message]
DeleteReplyOp == [op: {"deleteReply"}, id: CommentId, reply: ReplyId]
DeleteOp == [op: {"delete"}, id: CommentId]
MarksOp == {o \in [op: {"marks"}, filePath: Path, viewed: BOOLEAN,
                   hunkHashes: (SUBSET Hash) \union {None},
                   fileHash: Hash \union {None}] :
              o.viewed => o.hunkHashes # None \/ o.fileHash # None}

Op == CreateOp \union UpdateOp \union ReplyOp \union EditReplyOp
        \union DeleteReplyOp \union DeleteOp \union MarksOp

Given(value, default) == IF value = None THEN default ELSE value

(* A comment id, and a reply id in that comment, that the state holds. *)
HasComment(s, id) == s.comments[id] # None
HasReply(s, id, reply) ==
  HasComment(s, id) /\ s.comments[id].replies[reply] # None

(* What the mutation reports back: FALSE becomes a 404 answer. *)
Found(o, s) ==
  CASE o.op \in {"create", "marks"} -> TRUE
    [] o.op \in {"update", "reply", "delete"} -> HasComment(s, o.id)
    [] o.op \in {"editReply", "deleteReply"} -> HasReply(s, o.id, o.reply)

NewComment(o) ==
  [filePath |-> o.filePath, message |-> o.message, resolved |-> FALSE,
   resolvedBy |-> None, resolutionNote |-> None,
   replies |-> [i \in ReplyId |-> None]]

(* Resolving keeps the previous resolver unless one is named, and turns a  *)
(* note that is not blank into a reply of that resolver; reopening forgets *)
(* the resolver.                                                           *)
Resolve(r, o, c) ==
  LET by == Given(o.resolvedBy, Given(c.resolvedBy, "user")) IN
  [c EXCEPT !.resolved = TRUE, !.resolvedBy = by,
            !.replies[r] = IF o.note \in Message
                           THEN [kind |-> "resolution", author |-> by,
                                 message |-> o.note]
                           ELSE @]

Reopen(c) == [c EXCEPT !.resolved = FALSE, !.resolvedBy = None]

UpdatedComment(r, o, c) ==
  LET said == [c EXCEPT !.message = Given(o.message, @)] IN
  IF o.resolved = None THEN said
  ELSE IF o.resolved THEN Resolve(r, o, said) ELSE Reopen(said)

SetViewedMarks(o, s) ==
  [s EXCEPT
     !.viewedHunks[o.filePath] =
        IF o.hunkHashes = None THEN @
        ELSE IF o.viewed THEN @ \union o.hunkHashes ELSE @ \ o.hunkHashes,
     !.viewedFiles[o.filePath] =
        IF o.viewed THEN Given(o.fileHash, @) ELSE None]

(* The state that the mutation of request r leaves; a mutation whose       *)
(* target is missing leaves the state as it read it.                       *)
ApplyOp(r, o, s) ==
  IF ~Found(o, s) THEN s ELSE
  CASE o.op = "create" -> [s EXCEPT !.comments[r] = NewComment(o)]
    [] o.op = "update" ->
         [s EXCEPT !.comments[o.id] = UpdatedComment(r, o, @)]
    [] o.op = "reply" ->
         [s EXCEPT !.comments[o.id].replies[r] =
            [kind |-> "reply", author |-> Given(o.author, "user"),
             message |-> o.message]]
    [] o.op = "editReply" ->
         [s EXCEPT !.comments[o.id].replies[o.reply].message = o.message]
    [] o.op = "deleteReply" ->
         [s EXCEPT !.comments[o.id].replies[o.reply] = None]
    [] o.op = "delete" -> [s EXCEPT !.comments[o.id] = None]
    [] o.op = "marks" -> SetViewedMarks(o, s)

-----------------------------------------------------------------------------
(* Mutant: the converted note is left in place. *)
NormalizeKeepingNote(c) ==
  [c EXCEPT !.replies[LegacyNote] =
               IF c.resolutionNote \in Message \union {Blank}
               THEN [kind |-> "resolution",
                     author |-> Given(c.resolvedBy, "agent"),
                     message |-> c.resolutionNote]
               ELSE @]

(* Comments written before reply threads existed carry a free-form         *)
(* resolutionNote; every read turns it into a reply with a fixed id, also  *)
(* if it is blank, unless it is empty.                                     *)
NormalizeComment(c) ==
  [c EXCEPT !.resolutionNote = None,
            !.replies[LegacyNote] =
               IF c.resolutionNote \in Message \union {Blank}
               THEN [kind |-> "resolution",
                     author |-> Given(c.resolvedBy, "agent"),
                     message |-> c.resolutionNote]
               ELSE @]

Normalize(s) ==
  [s EXCEPT !.comments = [id \in CommentId |->
      IF s.comments[id] = None THEN None
      ELSE NormalizeComment(s.comments[id])]]
=============================================================================
