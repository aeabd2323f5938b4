--------------------------- MODULE CommentRenames ---------------------------
(* Keeping comments on the files they are about while files are renamed:   *)
(* reconcileCommentRenames (lib/commentRenames.ts), run by every read of   *)
(* the review state, against a developer who edits, stages and commits and *)
(* against other readers and writers of the same state.                    *)
(*                                                                         *)
(* A File is an identity that a rename keeps and git's rename detection    *)
(* recognises; mutateState is one atomic step, as AtomicStore allows.      *)
EXTENDS RenameBuckets, Naturals, Sequences, SequencesExt

CONSTANTS
  File,         \* files that exist at some time
  Comment,      \* comments that reviewers may write
  Reader,       \* concurrent GET /api/state and GET /api/comments requests
  BaseTree,     \* the files at the merge base
  None,         \* no file, no anchor, no mark
  PathReuse,    \* TRUE: a path may later hold a different file
  MaxEdits,     \* bound on the number of edits of the working tree
  MaxFailures   \* bound on the number of failing reconciliations

ASSUME CommentRenamesAssumption ==
  /\ IsFiniteSet(Path)
  /\ BaseTree \in [Path -> File \union {None}]
  /\ None \notin File \union Path
  /\ PathReuse \in BOOLEAN
  /\ MaxEdits \in Nat /\ MaxFailures \in Nat

VARIABLES
  head, index, tree, \* git's HEAD, its index and the working tree
  committed,  \* rename edges of mergeBase..HEAD, oldest first
  occupant,   \* occupant[p]: the last file that was at p
  anchor,     \* anchor[c]: the path stored with comment c
  about,      \* about[c]: the file that c was written on
  viewed,     \* viewed[p]: the content hash of p's viewed mark
  phase,      \* phase[r]: how far request r is
  paths,      \* paths[r]: the paths r looks at in its next step
  listed,     \* listed[r]: what the first of r's two git processes listed
  remaps,     \* remaps[r]: pairs <<old path, new path>> r found
  edits, failures \* the bounded counters

gitVars == <<head, index, tree, committed, occupant, edits>>
storeVars == <<anchor, about, viewed>>
readerVars == <<phase, paths, listed, remaps, failures>>
vars == <<gitVars, storeVars, readerVars>>

NoTree == [p \in Path |-> None]

Init ==
  /\ head = BaseTree /\ index = BaseTree /\ tree = BaseTree
  /\ committed = <<>>
  /\ occupant = BaseTree
  /\ anchor = [c \in Comment |-> None]
  /\ about = [c \in Comment |-> None]
  /\ viewed = [p \in Path |-> None]
  /\ phase = [r \in Reader |-> "idle"]
  /\ paths = [r \in Reader |-> {}]
  /\ listed = [r \in Reader |-> <<>>]
  /\ remaps = [r \in Reader |-> {}]
  /\ edits = 0
  /\ failures = 0

-----------------------------------------------------------------------------
(* The developer. *)

Edit ==
  /\ edits < MaxEdits
  /\ edits' = edits + 1
  /\ UNCHANGED <<head, index, committed, storeVars, readerVars>>

MoveFile(p, q) ==
  /\ tree[p] # None /\ tree[q] = None
  /\ PathReuse \/ occupant[q] \in {None, tree[p]}
  /\ tree' = [tree EXCEPT ![p] = None, ![q] = tree[p]]
  /\ occupant' = [occupant EXCEPT ![q] = tree[p]]
  /\ Edit

RemoveFile(p) ==
  /\ tree[p] # None
  /\ tree' = [tree EXCEPT ![p] = None]
  /\ UNCHANGED occupant
  /\ Edit

CreateFile(p, f) ==
  /\ tree[p] = None
  /\ PathReuse \/ occupant[p] = None
  /\ \A q \in Path : f \notin {occupant[q], head[q]}
  /\ tree' = [tree EXCEPT ![p] = f]
  /\ occupant' = [occupant EXCEPT ![p] = f]
  /\ Edit

Stage ==
  /\ index # tree
  /\ index' = tree
  /\ UNCHANGED <<head, tree, committed, occupant, edits, storeVars,
                 readerVars>>

(* What git lists as renames from one tree to another: a path that went    *)
(* away, paired with a path that appeared with the same file.              *)
RenamesBetween(old, new) ==
  {e \in [oldPath: Path, newPath: Path] :
     /\ old[e.oldPath] # None /\ new[e.oldPath] = None
     /\ old[e.newPath] = None /\ new[e.newPath] = old[e.oldPath]}

Commit ==
  /\ index # head
  /\ head' = index
  /\ committed' = committed \o SetToSeq(RenamesBetween(head, index))
  /\ UNCHANGED <<index, tree, occupant, edits, storeVars, readerVars>>

-----------------------------------------------------------------------------
(* Other requests that write the same state. *)

(* A comment is about the file at its path; a page that is a little stale  *)
(* may still comment on a path whose file is gone.                         *)
WriteComment(c, p) ==
  /\ anchor[c] = None
  /\ occupant[p] # None
  /\ anchor' = [anchor EXCEPT ![c] = p]
  /\ about' = [about EXCEPT ![c] = occupant[p]]
  /\ UNCHANGED <<gitVars, viewed, readerVars>>

MarkViewed(p) ==
  /\ tree[p] # None
  /\ viewed' = [viewed EXCEPT ![p] = tree[p]]
  /\ UNCHANGED <<gitVars, anchor, about, readerVars>>

-----------------------------------------------------------------------------
(* A read of the state. *)

Continue(r, step, ps, edges, ms) ==
  /\ phase' = [phase EXCEPT ![r] = step]
  /\ paths' = [paths EXCEPT ![r] = ps]
  /\ listed' = [listed EXCEPT ![r] = edges]
  /\ remaps' = [remaps EXCEPT ![r] = ms]

(* The state is served as it is stored. *)
Serve(r) == Continue(r, "idle", {}, <<>>, {})

ReadState(r) ==
  /\ phase[r] = "idle"
  /\ Continue(r, "read", {anchor[c] : c \in Comment} \ {None}, <<>>, {})
  /\ UNCHANGED <<gitVars, storeVars, failures>>

(* listStrandedCommentPaths, on the state that was read. *)
ListStranded(r) ==
  /\ phase[r] = "read"
  /\ LET stranded == {p \in paths[r] : tree[p] = None} IN
       IF stranded = {} THEN Serve(r)
       ELSE Continue(r, "stranded", stranded, <<>>, {})
  /\ UNCHANGED <<gitVars, storeVars, failures>>

Staged == SetToSeq(RenamesBetween(head, index))

(* listRenameEdges: what git lists, or nothing if the process fails. *)
Lists(edges, answer) ==
  \/ answer = edges /\ UNCHANGED failures
  \/ /\ answer = <<>> /\ failures < MaxFailures
     /\ failures' = failures + 1

(* Mutant: only the staged renames are replayed. *)
TraceStaged(ps, log, cached) ==
  Moved(FoldLeft(MoveBucket, Buckets(ps), cached))

(* traceRenamedPaths, when both processes have answered: replay the        *)
(* committed renames, then the staged ones.                                *)
TraceRenames(ps, log, cached) ==
  Moved(FoldLeft(MoveBucket, Buckets(ps), log \o cached))

(* Two git processes run at once and answer in either order, between which *)
(* the developer may stage and commit.                                     *)
ListFirst(r) ==
  /\ phase[r] = "stranded"
  /\ \/ \E log \in {committed, <<>>} :
          /\ Lists(committed, log)
          /\ Continue(r, "logged", paths[r], log, {})
     \/ \E cached \in {Staged, <<>>} :
          /\ Lists(Staged, cached)
          /\ Continue(r, "diffed", paths[r], cached, {})
  /\ UNCHANGED <<gitVars, storeVars>>

Trace(r) ==
  /\ \/ /\ phase[r] = "logged"
        /\ \E cached \in {Staged, <<>>} :
             /\ Lists(Staged, cached)
             /\ Continue(r, "traced", {}, <<>>,
                         TraceRenames(paths[r], listed[r], cached))
     \/ /\ phase[r] = "diffed"
        /\ \E log \in {committed, <<>>} :
             /\ Lists(committed, log)
             /\ Continue(r, "traced", {}, <<>>,
                         TraceRenames(paths[r], log, listed[r]))
  /\ UNCHANGED <<gitVars, storeVars>>

(* Mutant: the state is rewritten although nothing is left to remap. *)
CheckAndRewrite(r) ==
  /\ phase[r] = "traced"
  /\ Continue(r, "checked", {}, <<>>, {m \in remaps[r] : tree[m[2]] # None})
  /\ UNCHANGED <<gitVars, storeVars, failures>>

(* A target that is itself gone is not worth moving to. *)
CheckTargets(r) ==
  /\ phase[r] = "traced"
  /\ LET present == {m \in remaps[r] : tree[m[2]] # None} IN
       IF present = {} THEN Serve(r)
       ELSE Continue(r, "checked", {}, <<>>, present)
  /\ UNCHANGED <<gitVars, storeVars, failures>>

(* Mutant: the old name is deleted before its value is read. *)
DropKey(record, m) == [record EXCEPT ![m[1]] = None]

(* remapRecordKeys: a key moves unless its new name is taken, and its old  *)
(* name is always deleted.                                                 *)
MoveKey(record, m) ==
  [record EXCEPT ![m[2]] = IF @ = None THEN record[m[1]] ELSE @,
                 ![m[1]] = None]

(* Mutant: every comment goes to a found target, whatever its path. *)
RemapAnyPath(ms, p) ==
  IF p # None THEN (CHOOSE m \in ms : TRUE)[2] ELSE p

(* The path that a comment at p is stored under from now on. *)
RemapPath(ms, p) ==
  IF \E m \in ms : m[1] = p THEN (CHOOSE m \in ms : m[1] = p)[2] ELSE p

Apply(r) ==
  /\ phase[r] = "checked"
  /\ anchor' = [c \in Comment |-> RemapPath(remaps[r], anchor[c])]
  /\ \E order \in SetToSeqs(remaps[r]) :
       viewed' = FoldLeft(MoveKey, viewed, order)
  /\ Serve(r)
  /\ UNCHANGED <<gitVars, about, failures>>

(* The merge base cannot be told, git cannot be run, or the write of the   *)
(* state fails: reconcileCommentRenames catches it.                        *)
GiveUp(r) ==
  /\ phase[r] \in {"stranded", "logged", "diffed", "checked"}
  /\ failures < MaxFailures
  /\ failures' = failures + 1
  /\ Serve(r)
  /\ UNCHANGED <<gitVars, storeVars>>

Reconcile(r) ==
  ListStranded(r) \/ ListFirst(r) \/ Trace(r) \/ CheckTargets(r) \/ Apply(r)

Next ==
  \/ \E p, q \in Path : MoveFile(p, q)
  \/ \E p \in Path, f \in File : CreateFile(p, f)
  \/ \E p \in Path : RemoveFile(p) \/ MarkViewed(p)
  \/ Stage \/ Commit
  \/ \E c \in Comment, p \in Path : WriteComment(c, p)
  \/ \E r \in Reader : ReadState(r) \/ Reconcile(r) \/ GiveUp(r)

(* Clients keep reading the state, and every read runs to its end. *)
Fairness ==
  \A r \in Reader : WF_vars(ReadState(r)) /\ WF_vars(Reconcile(r))

Spec == Init /\ [][Next]_vars
FairSpec == Spec /\ Fairness

-----------------------------------------------------------------------------
(* Properties. *)

Steps ==
  {"idle", "read", "stranded", "logged", "diffed", "traced", "checked"}

(* Every variable holds a value of its type; and a read that goes on to    *)
(* rewrite the state has something to remap.                               *)
TypeOK ==
  /\ \A r \in Reader : phase[r] = "checked" => remaps[r] # {}
  /\ {head, index, tree, occupant, viewed}
       \subseteq [Path -> File \union {None}]
  /\ committed \in Seq(Edge)
  /\ anchor \in [Comment -> Path \union {None}]
  /\ about \in [Comment -> File \union {None}]
  /\ phase \in [Reader -> Steps]
  /\ paths \in [Reader -> SUBSET Path]
  /\ listed \in [Reader -> Seq(Edge)]
  /\ remaps \in [Reader -> SUBSET (Path \X Path)]
  /\ edits \in 0..MaxEdits
  /\ failures \in 0..MaxFailures

(* As long as no path is given to a second file, comments and viewed marks *)
(* are stored under a path of their own file, although they are remapped   *)
(* by stale renames, by several reads at once and in any order.            *)
KeyedByOwnFile ==
  /\ \A c \in Comment : anchor[c] # None => occupant[anchor[c]] = about[c]
  /\ \A p \in Path : viewed[p] # None => viewed[p] = occupant[p]

(* A remap never drops the last viewed mark of a file. *)
MarksSurvive ==
  [][\A f \in File : (\E p \in Path : viewed[p] = f)
                       => (\E p \in Path : viewed'[p] = f)]_vars

(* A comment whose file is gone from the working tree is never moved to a  *)
(* path of another file: "Comments on files that were deleted rather than  *)
(* renamed stay untouched".                                                *)
DeletedStayPut ==
  [][\A c \in Comment :
       /\ anchor[c] # None /\ anchor'[c] # anchor[c]
       /\ \A p \in Path : tree[p] # about[c]
       => occupant[anchor'[c]] = about[c]]_vars

(* Git has seen the file of comment c under the path of its anchor. *)
Recorded(c) ==
  \/ about[c] \in {BaseTree[anchor[c]], head[anchor[c]]}
  \/ \E i \in DOMAIN committed :
       anchor[c] \in {committed[i].oldPath, committed[i].newPath}

Followed ==
  \A c \in Comment : \A p \in Path :
    anchor[c] # None /\ Recorded(c) /\ tree[p] = about[c] => anchor[c] = p

(* Once the developer has staged everything and leaves it so, every        *)
(* comment that was made under a recorded path of a file that still exists *)
(* comes to be stored under the path the file has, for good.               *)
ThreadsFollowFiles == <>[](index = tree) => <>[]Followed
=============================================================================
