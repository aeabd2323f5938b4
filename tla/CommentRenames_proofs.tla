------------------------ MODULE CommentRenames_proofs ------------------------
(* Comments and viewed marks stay with their files, for any number of       *)
(* paths, renames, readers and comments.                                    *)
EXTENDS CommentRenames, RenameTrace, FoldTheorems

(* Replaying edges keeps what each move of a bucket keeps. *)
LEMMA FoldMoveBucket ==
  ASSUME NEW V, NEW E, NEW seq \in Seq(E), NEW base \in V,
         \A v \in V, e \in E : MoveBucket(v, e) \in V
  PROVE  FoldLeft(MoveBucket, base, seq) \in V
<1> DEFINE n == Len(seq)
           Unrolled(h) == [s \in SUBSET (1..n) |->
                             IF s = {} THEN base
                             ELSE MoveBucket(h[s \ {Max(s)}], seq[Max(s)])]
           iter == CHOOSE h : h = Unrolled(h)
           G == [i \in 1..n |-> [v \in V |-> MoveBucket(v, seq[i])]]
<1>1. FoldLeft(MoveBucket, base, seq) = iter[1..n]
  <2>1. DOMAIN seq = 1..n
    OBVIOUS
  <2> QED BY <2>1 DEF FoldLeft, MapThenFoldSet
<1>2. G \in [1..n -> [V -> V]] /\ n \in Nat
  OBVIOUS
<1>3. \A i \in 1..n : seq[i] \in E
  OBVIOUS
<1> HIDE DEF n
<1>4. \A s \in SUBSET (1..n) : s # {} =>
        Max(s) \in 1..n /\ s \ {Max(s)} \in SUBSET (1..n)
  BY <1>2, MaxOf
<1>5. \E h : h = Unrolled(h)
  <2> HIDE DEF G
  <2>1. PICK h \in [SUBSET (1..n) -> V] : IsFold(h, n, base, G)
    BY <1>2, FoldExists
  <2>2. \A s \in SUBSET (1..n) : s # {} =>
          G[Max(s)][h[s \ {Max(s)}]] = MoveBucket(h[s \ {Max(s)}], seq[Max(s)])
    BY <1>4 DEF G
  <2> QED BY <2>1, <2>2 DEF IsFold
<1>6. iter = Unrolled(iter)
  BY <1>5
<1> HIDE DEF iter
<1>7. iter[{}] \in V
  BY <1>6
<1>8. \A s \in SUBSET (1..n) :
        s # {} /\ iter[s \ {Max(s)}] \in V => iter[s] \in V
  BY <1>3, <1>4, <1>6
<1> HIDE DEF Unrolled, G
<1>9. iter[1..n] \in V
  BY <1>2, <1>7, <1>8, FoldKeeps
<1> QED BY <1>1, <1>9

(* Remapping a record keeps what each move of a key keeps. *)
LEMMA FoldMoveKey ==
  ASSUME NEW V, NEW E, NEW seq \in Seq(E), NEW base \in V,
         \A v \in V, e \in E : MoveKey(v, e) \in V
  PROVE  FoldLeft(MoveKey, base, seq) \in V
<1> DEFINE n == Len(seq)
           Unrolled(h) == [s \in SUBSET (1..n) |->
                             IF s = {} THEN base
                             ELSE MoveKey(h[s \ {Max(s)}], seq[Max(s)])]
           iter == CHOOSE h : h = Unrolled(h)
           G == [i \in 1..n |-> [v \in V |-> MoveKey(v, seq[i])]]
<1>1. FoldLeft(MoveKey, base, seq) = iter[1..n]
  <2>1. DOMAIN seq = 1..n
    OBVIOUS
  <2> QED BY <2>1 DEF FoldLeft, MapThenFoldSet
<1>2. G \in [1..n -> [V -> V]] /\ n \in Nat
  OBVIOUS
<1>3. \A i \in 1..n : seq[i] \in E
  OBVIOUS
<1> HIDE DEF n
<1>4. \A s \in SUBSET (1..n) : s # {} =>
        Max(s) \in 1..n /\ s \ {Max(s)} \in SUBSET (1..n)
  BY <1>2, MaxOf
<1>5. \E h : h = Unrolled(h)
  <2> HIDE DEF G
  <2>1. PICK h \in [SUBSET (1..n) -> V] : IsFold(h, n, base, G)
    BY <1>2, FoldExists
  <2>2. \A s \in SUBSET (1..n) : s # {} =>
          G[Max(s)][h[s \ {Max(s)}]] = MoveKey(h[s \ {Max(s)}], seq[Max(s)])
    BY <1>4 DEF G
  <2> QED BY <2>1, <2>2 DEF IsFold
<1>6. iter = Unrolled(iter)
  BY <1>5
<1> HIDE DEF iter
<1>7. iter[{}] \in V
  BY <1>6
<1>8. \A s \in SUBSET (1..n) :
        s # {} /\ iter[s \ {Max(s)}] \in V => iter[s] \in V
  BY <1>3, <1>4, <1>6
<1> HIDE DEF Unrolled, G
<1>9. iter[1..n] \in V
  BY <1>2, <1>7, <1>8, FoldKeeps
<1> QED BY <1>1, <1>9

-----------------------------------------------------------------------------
(* Types. *)

Tree == [Path -> File \union {None}]

LEMMA RenamesBetweenType ==
  ASSUME NEW old, NEW new
  PROVE  SetToSeq(RenamesBetween(old, new)) \in Seq(RenamesBetween(old, new))
<1> DEFINE S == RenamesBetween(old, new)
           All == [oldPath: Path, newPath: Path]
           pair == [m \in Path \X Path |-> [oldPath |-> m[1], newPath |-> m[2]]]
<1>1. IsFiniteSet(Path \X Path)
  BY CommentRenamesAssumption, FS_Product
<1>2. pair \in Surjection(Path \X Path, All)
  <2>1. pair \in [Path \X Path -> All]
    OBVIOUS
  <2>2. ASSUME NEW e \in All PROVE \E m \in Path \X Path : pair[m] = e
    <3>1. <<e.oldPath, e.newPath>> \in Path \X Path
      OBVIOUS
    <3>2. pair[<<e.oldPath, e.newPath>>] = e
      BY <3>1
    <3> QED BY <3>1, <3>2
  <2> QED BY <2>1, <2>2 DEF Surjection
<1> HIDE DEF pair
<1>3. IsFiniteSet(All)
  BY <1>1, <1>2, FS_Surjection
<1>4. IsFiniteSet(S)
  BY <1>3, FS_Subset DEF RenamesBetween
<1> QED BY <1>4, SetToSeqType

LEMMA RenamesAreEdges ==
  ASSUME NEW old, NEW new
  PROVE  RenamesBetween(old, new) \subseteq Edge
  BY DEF RenamesBetween, Edge

LEMMA StagedType ==
  Staged \in Seq(Edge)
  BY RenamesBetweenType, RenamesAreEdges DEF Staged

(* What git may list, and what a trace replays when the second process     *)
(* answers: what the first has listed and what this one does.              *)
Listable(E) ==
  /\ committed \in Seq(E) /\ Staged \in Seq(E)
  /\ \A r \in Reader : listed[r] \in Seq(E)

LEMMA ListableEdges == TypeOK => Listable(Edge)
  BY StagedType DEF TypeOK, Listable

LEMMA FirstListed ==
  ASSUME NEW E, Listable(E), NEW r \in Reader, ListFirst(r)
  PROVE  \E edges \in Seq(E), step \in {"logged", "diffed"} :
           Continue(r, step, paths[r], edges, {})
<1>1. <<>> \in Seq(E) /\ committed \in Seq(E) /\ Staged \in Seq(E)
  BY DEF Listable
<1> QED BY <1>1, Zenon DEF ListFirst

LEMMA BothListed ==
  ASSUME NEW E, Listable(E), NEW r \in Reader, Trace(r)
  PROVE  \E log, cached \in Seq(E) :
           Continue(r, "traced", {}, <<>>, TraceRenames(paths[r], log, cached))
<1>1. /\ <<>> \in Seq(E) /\ committed \in Seq(E) /\ Staged \in Seq(E)
      /\ listed[r] \in Seq(E)
  BY DEF Listable
<1> QED BY <1>1, Zenon DEF Trace

LEMMA ListsFails ==
  ASSUME TypeOK, NEW edges, NEW answer, Lists(edges, answer)
  PROVE  failures' \in 0..MaxFailures
  BY CommentRenamesAssumption DEF Lists, TypeOK

LEMMA TraceRenamesType ==
  ASSUME NEW ps \in SUBSET Path, NEW log \in Seq(Edge), NEW cached \in Seq(Edge)
  PROVE  TraceRenames(ps, log, cached) \in SUBSET (Path \X Path)
<1> DEFINE V == [Path -> SUBSET Path]
<1>1. Buckets(ps) \in V
  BY DEF Buckets
<1>2. \A v \in V, e \in Edge : MoveBucket(v, e) \in V
  BY DEF MoveBucket, Edge
<1> HIDE DEF V
<1>3. FoldLeft(MoveBucket, Buckets(ps), log \o cached) \in V
  <2>1. log \o cached \in Seq(Edge)
    OBVIOUS
  <2> QED BY <1>1, <1>2, <2>1, FoldMoveBucket
<1>4. \A v \in V : Moved(v) \in SUBSET (Path \X Path)
  BY DEF V, Moved
<1> QED BY <1>3, <1>4 DEF TraceRenames

LEMMA MoveKeyType ==
  ASSUME NEW v \in Tree, NEW m \in Path \X Path
  PROVE  MoveKey(v, m) \in Tree
  BY DEF MoveKey, Tree

LEMMA RemapsFinite ==
  ASSUME TypeOK, NEW r \in Reader, NEW order \in SetToSeqs(remaps[r])
  PROVE  /\ order \in Seq(remaps[r])
         /\ remaps[r] \subseteq Path \X Path
<1>1. remaps[r] \in SUBSET (Path \X Path)
  BY DEF TypeOK
<1>2. IsFiniteSet(remaps[r])
  BY <1>1, CommentRenamesAssumption, FS_Product, FS_Subset
<1> QED BY <1>1, <1>2, SetToSeqsType

LEMMA InitType == Init => TypeOK
  BY CommentRenamesAssumption DEF Init, TypeOK, Steps

LEMMA NextType == TypeOK /\ [Next]_vars => TypeOK'
<1> SUFFICES ASSUME TypeOK, [Next]_vars PROVE TypeOK'
  OBVIOUS
<1> USE CommentRenamesAssumption
<1>1. ASSUME NEW p \in Path, NEW q \in Path, MoveFile(p, q) PROVE TypeOK'
  <2>1. tree' \in Tree /\ occupant' \in Tree
    BY <1>1 DEF MoveFile, TypeOK, Tree
  <2>2. /\ UNCHANGED <<head, index, committed, storeVars, readerVars>>
        /\ edits' \in 0..MaxEdits
    BY <1>1 DEF MoveFile, Edit, TypeOK
  <2> QED BY <2>1, <2>2 DEF TypeOK, Tree, storeVars, readerVars
<1>2. ASSUME NEW p \in Path, NEW f \in File, CreateFile(p, f) PROVE TypeOK'
  BY <1>2 DEF CreateFile, Edit, TypeOK, storeVars, readerVars
<1>3. ASSUME NEW p \in Path, RemoveFile(p) PROVE TypeOK'
  BY <1>3 DEF RemoveFile, Edit, TypeOK, storeVars, readerVars
<1>4. ASSUME NEW p \in Path, MarkViewed(p) PROVE TypeOK'
  BY <1>4 DEF MarkViewed, TypeOK, gitVars, readerVars
<1>5. ASSUME Stage PROVE TypeOK'
  BY <1>5 DEF Stage, TypeOK, storeVars, readerVars
<1>6. ASSUME Commit PROVE TypeOK'
  <2>1. committed' \in Seq(Edge)
    BY <1>6, StagedType DEF Commit, Staged, TypeOK
  <2> QED BY <1>6, <2>1 DEF Commit, TypeOK, storeVars, readerVars
<1>7. ASSUME NEW c \in Comment, NEW p \in Path, WriteComment(c, p)
      PROVE  TypeOK'
  BY <1>7 DEF WriteComment, TypeOK, gitVars, readerVars
<1>8. ASSUME NEW r \in Reader, ReadState(r) PROVE TypeOK'
  BY <1>8 DEF ReadState, Continue, TypeOK, Steps, gitVars, storeVars
<1>9. ASSUME NEW r \in Reader, ListStranded(r) PROVE TypeOK'
  <2>1. PICK step \in {"idle", "stranded"}, ps \in SUBSET Path :
          Continue(r, step, ps, <<>>, {})
    BY <1>9 DEF ListStranded, Serve, TypeOK
  <2>2. UNCHANGED <<gitVars, storeVars, failures>>
    BY <1>9 DEF ListStranded
  <2>3. <<>> \in Seq(Edge)
    OBVIOUS
  <2> QED BY <2>1, <2>2, <2>3 DEF Continue, TypeOK, Steps, gitVars, storeVars
<1>10. ASSUME NEW r \in Reader, ListFirst(r) PROVE TypeOK'
  <2>1. PICK edges \in Seq(Edge), step \in {"logged", "diffed"} :
          Continue(r, step, paths[r], edges, {})
    BY <1>10, ListableEdges, FirstListed
  <2>2. failures' \in 0..MaxFailures /\ UNCHANGED <<gitVars, storeVars>>
    BY <1>10, ListsFails DEF ListFirst
  <2> QED BY <2>1, <2>2 DEF Continue, TypeOK, Steps, gitVars, storeVars
<1>15. ASSUME NEW r \in Reader, Trace(r) PROVE TypeOK'
  <2>1. PICK log, cached \in Seq(Edge) :
          Continue(r, "traced", {}, <<>>, TraceRenames(paths[r], log, cached))
    BY <1>15, ListableEdges, BothListed
  <2>2. TraceRenames(paths[r], log, cached) \in SUBSET (Path \X Path)
    BY TraceRenamesType DEF TypeOK
  <2>3. failures' \in 0..MaxFailures /\ UNCHANGED <<gitVars, storeVars>>
    BY <1>15, ListsFails DEF Trace
  <2>4. <<>> \in Seq(Edge)
    OBVIOUS
  <2> QED BY <2>1, <2>2, <2>3, <2>4
        DEF Continue, TypeOK, Steps, gitVars, storeVars
<1>11. ASSUME NEW r \in Reader, CheckTargets(r) PROVE TypeOK'
  <2>1. PICK step \in {"idle", "checked"}, ms \in SUBSET remaps[r] :
          Continue(r, step, {}, <<>>, ms) /\ (step = "checked" => ms # {})
    BY <1>11 DEF CheckTargets, Serve
  <2>2. UNCHANGED <<gitVars, storeVars, failures>>
    BY <1>11 DEF CheckTargets
  <2>3. <<>> \in Seq(Edge) /\ ms \in SUBSET (Path \X Path)
    BY DEF TypeOK
  <2> QED BY <2>1, <2>2, <2>3 DEF Continue, TypeOK, Steps, gitVars, storeVars
<1>12. ASSUME NEW r \in Reader, Apply(r) PROVE TypeOK'
  <2>1. viewed' \in Tree
    <3>1. PICK order \in SetToSeqs(remaps[r]) :
            viewed' = FoldLeft(MoveKey, viewed, order)
      BY <1>12 DEF Apply
    <3>2. viewed \in Tree
      BY DEF TypeOK, Tree
    <3>3. \A v \in Tree, m \in remaps[r] : MoveKey(v, m) \in Tree
      BY <3>1, RemapsFinite, MoveKeyType
    <3> QED BY <3>1, <3>2, <3>3, RemapsFinite, FoldMoveKey
  <2>2. \A c \in Comment :
          RemapPath(remaps[r], anchor[c]) \in Path \union {None}
    BY DEF TypeOK, RemapPath
  <2>3. anchor' \in [Comment -> Path \union {None}]
    BY <1>12, <2>2 DEF Apply
  <2> QED BY <1>12, <2>1, <2>3
        DEF Apply, Serve, Continue, TypeOK, Tree, Steps, gitVars
<1>13. ASSUME NEW r \in Reader, GiveUp(r) PROVE TypeOK'
  BY <1>13 DEF GiveUp, Serve, Continue, TypeOK, Steps, gitVars, storeVars
<1>14. ASSUME UNCHANGED vars PROVE TypeOK'
  BY <1>14 DEF vars, gitVars, storeVars, readerVars, TypeOK
<1> QED BY <1>1, <1>2, <1>3, <1>4, <1>5, <1>6, <1>7, <1>8, <1>9, <1>10, <1>11,
           <1>12, <1>13, <1>14, <1>15
        DEF Next, Reconcile

(* Every variable keeps its type; a read that goes on to rewrite the state *)
(* has something to remap.                                                 *)
THEOREM TypeCorrect == Spec => []TypeOK
  BY InitType, NextType, PTL DEF Spec

-----------------------------------------------------------------------------
(* A trace gives a path one new name, for any renames in any order, so that *)
(* what a read remaps is the record that the code makes of it, and          *)
(* RemapPath has nothing to choose.                                         *)
RemapsAreRecords ==
  \A r \in Reader : \A m, n \in remaps[r] : m[1] = n[1] => m[2] = n[2]

LEMMA TraceIsRecord ==
  ASSUME NEW ps \in SUBSET Path,
         NEW log \in Seq(Edge), NEW cached \in Seq(Edge),
         NEW m \in TraceRenames(ps, log, cached),
         NEW n \in TraceRenames(ps, log, cached), m[1] = n[1]
  PROVE  m[2] = n[2]
<1> DEFINE V == {slots \in [Path -> SUBSET Path] :
                   \A c, d \in Path : \A p \in slots[c] :
                     p \in slots[d] => c = d}
<1>1. Buckets(ps) \in V
  BY DEF Buckets
<1>2. ASSUME NEW v \in V, NEW e \in Edge PROVE MoveBucket(v, e) \in V
  <2>1. e.oldPath \in Path /\ e.newPath \in Path /\ e.oldPath # e.newPath
    BY DEF Edge
  <2>2. \A c \in Path : MoveBucket(v, e)[c] =
          IF c = e.oldPath THEN {}
          ELSE IF c = e.newPath THEN v[c] \union v[e.oldPath] ELSE v[c]
    BY <2>1 DEF MoveBucket
  <2>3. MoveBucket(v, e) \in [Path -> SUBSET Path]
    BY <2>1 DEF MoveBucket
  <2> QED BY <2>1, <2>2, <2>3
<1> HIDE DEF V
<1>3. FoldLeft(MoveBucket, Buckets(ps), log \o cached) \in V
  <2>1. log \o cached \in Seq(Edge)
    OBVIOUS
  <2> QED BY <1>1, <1>2, <2>1, FoldMoveBucket
<1>4. ASSUME NEW v \in V, NEW x \in Moved(v), NEW y \in Moved(v), x[1] = y[1]
      PROVE  x[2] = y[2]
  <2>1. x[2] \in Path /\ y[2] \in Path /\ x[1] \in v[x[2]] /\ y[1] \in v[y[2]]
    BY DEF Moved
  <2> QED BY <1>4, <2>1 DEF V
<1> QED BY <1>3, <1>4 DEF TraceRenames

(* Every request remaps by a record: one new name for each old one.        *)
THEOREM RemapsRecord == Spec => []RemapsAreRecords
<1>1. Init => RemapsAreRecords
  BY DEF Init, RemapsAreRecords
<1>2. TypeOK /\ RemapsAreRecords /\ [Next]_vars => RemapsAreRecords'
  <2> SUFFICES ASSUME TypeOK, RemapsAreRecords, [Next]_vars
               PROVE  RemapsAreRecords'
    OBVIOUS
  <2>1. ASSUME NEW r \in Reader, NEW ms, remaps' = [remaps EXCEPT ![r] = ms],
               \A m, n \in ms : m[1] = n[1] => m[2] = n[2]
        PROVE  RemapsAreRecords'
    BY <2>1 DEF TypeOK, RemapsAreRecords
  <2>2. CASE UNCHANGED remaps
    BY <2>2 DEF RemapsAreRecords
  <2>3. ASSUME NEW r \in Reader,
               \/ ReadState(r) \/ ListStranded(r) \/ ListFirst(r)
               \/ Apply(r) \/ GiveUp(r)
        PROVE  RemapsAreRecords'
    <3>1. remaps' = [remaps EXCEPT ![r] = {}]
      BY <2>3 DEF ReadState, ListStranded, ListFirst, Apply, GiveUp, Serve,
                  Continue
    <3> QED BY <2>1, <3>1
  <2>4. ASSUME NEW r \in Reader, Trace(r) PROVE RemapsAreRecords'
    <3>1. PICK log, cached \in Seq(Edge) :
            Continue(r, "traced", {}, <<>>, TraceRenames(paths[r], log, cached))
      BY <2>4, ListableEdges, BothListed
    <3>2. \A m, n \in TraceRenames(paths[r], log, cached) :
            m[1] = n[1] => m[2] = n[2]
      BY TraceIsRecord DEF TypeOK
    <3> QED BY <2>1, <3>1, <3>2 DEF Continue
  <2>5. ASSUME NEW r \in Reader, CheckTargets(r) PROVE RemapsAreRecords'
    <3>1. PICK ms \in SUBSET remaps[r] : remaps' = [remaps EXCEPT ![r] = ms]
      BY <2>5 DEF CheckTargets, Serve, Continue
    <3>2. \A m, n \in ms : m[1] = n[1] => m[2] = n[2]
      BY DEF RemapsAreRecords
    <3> QED BY <2>1, <3>1, <3>2
  <2>6. \/ UNCHANGED remaps
        \/ \E r \in Reader : ReadState(r) \/ Reconcile(r) \/ GiveUp(r)
    BY DEF Next, MoveFile, CreateFile, RemoveFile, Edit, Stage, Commit,
           MarkViewed, WriteComment, vars, readerVars
  <2> QED BY <2>2, <2>3, <2>4, <2>5, <2>6 DEF Reconcile
<1> QED BY <1>1, <1>2, TypeCorrect, PTL DEF Spec

-----------------------------------------------------------------------------
(* Comments and marks, as long as no path is given to a second file.       *)

(* Two paths of one file, now or later, by the occupants o. *)
SameFile(o, p, q) == o[p] # None /\ o[q] = o[p]

(* What makes KeyedByOwnFile inductive: whatever is recorded somewhere,    *)
(* in git's trees, in its renames and in what a read is about to apply,    *)
(* agrees with the occupants, which never change again.                    *)
OwnersAgree ==
  /\ \A p \in Path : {head[p], index[p], tree[p]} \subseteq {None, occupant[p]}
  /\ \A i \in DOMAIN committed :
       SameFile(occupant, committed[i].oldPath, committed[i].newPath)
  /\ \A r \in Reader : \A i \in DOMAIN listed[r] :
       SameFile(occupant, listed[r][i].oldPath, listed[r][i].newPath)
  /\ \A r \in Reader : \A m \in remaps[r] :
       m[1] # m[2] /\ SameFile(occupant, m[1], m[2])
  /\ \A c \in Comment : anchor[c] # None => about[c] # None

IInv == TypeOK /\ OwnersAgree /\ KeyedByOwnFile

(* A step that leaves the occupied paths to their files. *)
OccupantsStay ==
  \A p \in Path : occupant[p] # None => occupant'[p] = occupant[p]

LEMMA SameFileStays ==
  ASSUME OccupantsStay, NEW p \in Path, NEW q \in Path,
         SameFile(occupant, p, q)
  PROVE  SameFile(occupant', p, q)
  BY DEF OccupantsStay, SameFile

(* Renames between paths of one file. *)
Good == {e \in Edge : SameFile(occupant, e.oldPath, e.newPath)}

LEMMA ListableGood == IInv => Listable(Good)
<1> SUFFICES ASSUME IInv PROVE Listable(Good)
  OBVIOUS
<1>1. ASSUME NEW s \in Seq(Edge),
             \A i \in DOMAIN s : SameFile(occupant, s[i].oldPath, s[i].newPath)
      PROVE  s \in Seq(Good)
  <2>1. \A i \in DOMAIN s : s[i] \in Good
    BY <1>1 DEF Good
  <2> QED BY <2>1
<1>2. committed \in Seq(Good)
  BY <1>1 DEF IInv, TypeOK, OwnersAgree
<1>3. \A r \in Reader : listed[r] \in Seq(Good)
  BY <1>1 DEF IInv, TypeOK, OwnersAgree
<1>4. RenamesBetween(head, index) \subseteq Good
  BY DEF RenamesBetween, Edge, SameFile, IInv, OwnersAgree, Good
<1>5. Staged \in Seq(Good)
  BY <1>4, RenamesBetweenType DEF Staged
<1> QED BY <1>2, <1>3, <1>5 DEF Listable

(* A trace answers other paths of the same files. *)
LEMMA TraceRenamesSameFile ==
  ASSUME NEW ps \in SUBSET Path, NEW log \in Seq(Good), NEW cached \in Seq(Good),
         NEW m \in TraceRenames(ps, log, cached)
  PROVE  m[1] # m[2] /\ SameFile(occupant, m[1], m[2])
<1> DEFINE V == {slots \in [Path -> SUBSET Path] :
                   \A c \in Path : \A p \in slots[c] :
                     p = c \/ SameFile(occupant, p, c)}
<1>1. Buckets(ps) \in V
  BY DEF Buckets
<1>2. ASSUME NEW v \in V, NEW e \in Good PROVE MoveBucket(v, e) \in V
  <2>1. /\ v \in [Path -> SUBSET Path]
        /\ e.oldPath \in Path /\ e.newPath \in Path
        /\ SameFile(occupant, e.oldPath, e.newPath)
    BY DEF Edge, Good
  <2> DEFINE w == MoveBucket(v, e)
  <2>2. w \in [Path -> SUBSET Path]
    BY <2>1 DEF MoveBucket
  <2>3. ASSUME NEW c \in Path, NEW p \in w[c]
        PROVE  p \in v[c] \/ (c = e.newPath /\ p \in v[e.oldPath])
    BY <2>1, <2>3 DEF MoveBucket
  <2>4. ASSUME NEW c \in Path, NEW p \in w[c]
        PROVE  p = c \/ SameFile(occupant, p, c)
    BY <2>1, <2>3, <2>4 DEF SameFile
  <2> HIDE DEF w
  <2>5. w \in V
    BY <2>2, <2>4
  <2> QED BY <2>5 DEF w
<1>3. log \o cached \in Seq(Good) /\ Good \subseteq Edge
  BY DEF Good
<1> HIDE DEF V
<1>4. FoldLeft(MoveBucket, Buckets(ps), log \o cached) \in V
  BY <1>1, <1>2, <1>3, FoldMoveBucket
<1>5. \A v \in V : \A mm \in Moved(v) :
        mm[1] # mm[2] /\ SameFile(occupant, mm[1], mm[2])
  BY DEF V, Moved
<1> QED BY <1>4, <1>5 DEF TraceRenames

Marked(v) == {f \in File : \E p \in Path : v[p] = f}
Keyed(v, o) == \A p \in Path : v[p] # None => v[p] = o[p]

(* One move of a key loses no mark. *)
LEMMA MoveKeyKeeps ==
  ASSUME NEW o \in Tree, NEW v \in Tree, Keyed(v, o),
         NEW m \in Path \X Path, m[1] # m[2], SameFile(o, m[1], m[2])
  PROVE  /\ Keyed(MoveKey(v, m), o)
         /\ Marked(v) \subseteq Marked(MoveKey(v, m))
<1> DEFINE w == MoveKey(v, m)
<1>1. \A p \in Path :
        w[p] = IF p = m[1] THEN None
               ELSE IF p = m[2] /\ v[p] = None THEN v[m[1]] ELSE v[p]
  BY DEF MoveKey, Tree
<1> HIDE DEF w
<1>2. Keyed(w, o)
  BY <1>1 DEF Keyed, SameFile
<1>3. ASSUME NEW f \in File, NEW p \in Path, v[p] = f
      PROVE  \E q \in Path : w[q] = f
  <2>1. CASE p = m[1]
    <3>1. v[m[2]] \in {None, f}
      BY <1>3, <2>1, CommentRenamesAssumption DEF Keyed, SameFile
    <3>2. w[m[2]] = f
      BY <1>1, <1>3, <2>1, <3>1
    <3> QED BY <3>2
  <2>2. CASE p # m[1]
    <3>1. w[p] = f
      BY <1>1, <1>3, <2>2, CommentRenamesAssumption
    <3> QED BY <3>1
  <2> QED BY <2>1, <2>2
<1> QED BY <1>2, <1>3 DEF Marked, w

(* Nor does a whole remap, in any order. *)
LEMMA RemapKeeps ==
  ASSUME IInv, NEW r \in Reader, Apply(r)
  PROVE  Keyed(viewed', occupant) /\ Marked(viewed) \subseteq Marked(viewed')
<1> DEFINE V == {v \in Tree :
                   Keyed(v, occupant) /\ Marked(viewed) \subseteq Marked(v)}
<1>1. PICK order \in SetToSeqs(remaps[r]) :
        viewed' = FoldLeft(MoveKey, viewed, order)
  BY DEF Apply
<1>2. order \in Seq(remaps[r]) /\ remaps[r] \subseteq Path \X Path
  BY RemapsFinite DEF IInv
<1>3. viewed \in V /\ occupant \in Tree
  BY DEF IInv, TypeOK, Tree, KeyedByOwnFile, Keyed
<1>4. ASSUME NEW v \in V, NEW m \in remaps[r] PROVE MoveKey(v, m) \in V
  <2>1. m[1] # m[2] /\ SameFile(occupant, m[1], m[2])
    BY DEF IInv, OwnersAgree
  <2>2. MoveKey(v, m) \in Tree
    BY <1>2, MoveKeyType
  <2> QED BY <1>2, <1>3, <2>1, <2>2, MoveKeyKeeps
<1> HIDE DEF V
<1>5. viewed' \in V
  BY <1>1, <1>2, <1>3, <1>4, FoldMoveKey
<1> QED BY <1>5 DEF V

-----------------------------------------------------------------------------
(* The invariant. *)

LEMMA InitIInv == Init => IInv
<1> SUFFICES ASSUME Init PROVE IInv
  OBVIOUS
<1>1. TypeOK
  BY InitType
<1> QED BY <1>1 DEF Init, IInv, OwnersAgree, KeyedByOwnFile

(* An edit of the working tree: the store and the readers are as they were. *)
LEMMA EditKeeps ==
  ASSUME IInv, TypeOK', OccupantsStay, Edit,
         \A p \in Path : tree'[p] \in {None, occupant'[p]}
  PROVE  IInv'
<1>1. UNCHANGED <<head, index, committed, anchor, about, viewed, listed, remaps>>
  BY DEF Edit, storeVars, readerVars
<1>2. \A p \in Path : {head[p], index[p]} \subseteq {None, occupant'[p]}
  BY DEF IInv, OwnersAgree, OccupantsStay
<1>3. \A i \in DOMAIN committed :
        SameFile(occupant', committed[i].oldPath, committed[i].newPath)
  <2> SUFFICES ASSUME NEW i \in DOMAIN committed
               PROVE  SameFile(occupant', committed[i].oldPath,
                               committed[i].newPath)
    OBVIOUS
  <2>1. committed[i] \in Edge
    BY DEF IInv, TypeOK
  <2>2. committed[i].oldPath \in Path /\ committed[i].newPath \in Path
    BY <2>1 DEF Edge
  <2> QED BY <2>2, SameFileStays DEF IInv, OwnersAgree
<1>9. \A r \in Reader : \A i \in DOMAIN listed[r] :
        SameFile(occupant', listed[r][i].oldPath, listed[r][i].newPath)
  <2> SUFFICES ASSUME NEW r \in Reader, NEW i \in DOMAIN listed[r]
               PROVE  SameFile(occupant', listed[r][i].oldPath,
                               listed[r][i].newPath)
    OBVIOUS
  <2>1. listed[r][i] \in Edge
    BY DEF IInv, TypeOK
  <2>2. listed[r][i].oldPath \in Path /\ listed[r][i].newPath \in Path
    BY <2>1 DEF Edge
  <2> QED BY <2>2, SameFileStays DEF IInv, OwnersAgree
<1>4. \A r \in Reader : \A m \in remaps[r] :
        m[1] # m[2] /\ SameFile(occupant', m[1], m[2])
  <2> SUFFICES ASSUME NEW r \in Reader, NEW m \in remaps[r]
               PROVE  m[1] # m[2] /\ SameFile(occupant', m[1], m[2])
    OBVIOUS
  <2>1. m \in Path \X Path
    BY DEF IInv, TypeOK
  <2> QED BY <2>1, SameFileStays DEF IInv, OwnersAgree
<1>5. \A c \in Comment : anchor[c] # None => occupant'[anchor[c]] = about[c]
  <2> SUFFICES ASSUME NEW c \in Comment, anchor[c] # None
               PROVE  occupant'[anchor[c]] = about[c]
    OBVIOUS
  <2>1. /\ anchor[c] \in Path /\ about[c] # None
        /\ occupant[anchor[c]] = about[c]
    BY DEF IInv, TypeOK, OwnersAgree, KeyedByOwnFile
  <2> QED BY <2>1 DEF OccupantsStay
<1>6. \A p \in Path : viewed[p] # None => viewed[p] = occupant'[p]
  BY DEF IInv, KeyedByOwnFile, OccupantsStay
<1>7. OwnersAgree'
  BY <1>1, <1>2, <1>3, <1>4, <1>9 DEF OwnersAgree, IInv
<1>8. KeyedByOwnFile'
  BY <1>1, <1>5, <1>6 DEF KeyedByOwnFile
<1> QED BY <1>7, <1>8 DEF IInv

(* A step of a read that leaves git and the store alone. *)
LEMMA ReadKeeps ==
  ASSUME IInv, TypeOK', UNCHANGED <<gitVars, storeVars>>,
         NEW r \in Reader, NEW edges \in Seq(Good), NEW ms,
         listed' = [listed EXCEPT ![r] = edges],
         remaps' = [remaps EXCEPT ![r] = ms],
         \A m \in ms : m[1] # m[2] /\ SameFile(occupant, m[1], m[2])
  PROVE  IInv'
<1>1. OwnersAgree'
  <2>1. \A q \in Reader :
          /\ remaps'[q] = IF q = r THEN ms ELSE remaps[q]
          /\ listed'[q] = IF q = r THEN edges ELSE listed[q]
    BY DEF IInv, TypeOK
  <2>2. \A i \in DOMAIN edges :
          SameFile(occupant, edges[i].oldPath, edges[i].newPath)
    BY DEF Good
  <2> QED BY <2>1, <2>2 DEF IInv, OwnersAgree, gitVars, storeVars
<1>2. KeyedByOwnFile'
  BY DEF IInv, KeyedByOwnFile, gitVars, storeVars
<1> QED BY <1>1, <1>2 DEF IInv

LEMMA ApplyKeeps ==
  ASSUME IInv, TypeOK', NEW r \in Reader, Apply(r)
  PROVE  IInv'
<1>1. /\ UNCHANGED <<head, index, tree, committed, occupant, about>>
      /\ remaps' = [remaps EXCEPT ![r] = {}]
      /\ listed' = [listed EXCEPT ![r] = <<>>]
      /\ \A c \in Comment : anchor'[c] = RemapPath(remaps[r], anchor[c])
  BY DEF Apply, Serve, Continue, gitVars
<1>2. \A q \in Reader :
        remaps'[q] \subseteq remaps[q] /\ listed'[q] \in {listed[q], <<>>}
  BY <1>1 DEF IInv, TypeOK
<1>3. ASSUME NEW c \in Comment
      PROVE  /\ anchor'[c] # None => anchor[c] # None
             /\ anchor'[c] # None => occupant[anchor'[c]] = about[c]
  <2>1. CASE \E m \in remaps[r] : m[1] = anchor[c]
    <3>1. PICK m \in remaps[r] : m[1] = anchor[c] /\ anchor'[c] = m[2]
      BY <1>1, <2>1 DEF RemapPath
    <3>2. m \in Path \X Path /\ SameFile(occupant, m[1], m[2])
      BY DEF IInv, TypeOK, OwnersAgree
    <3>3. anchor[c] # None
      BY <3>1, <3>2, CommentRenamesAssumption
    <3> QED BY <3>1, <3>2, <3>3 DEF IInv, KeyedByOwnFile, SameFile
  <2>2. CASE ~ \E m \in remaps[r] : m[1] = anchor[c]
    <3>1. anchor'[c] = anchor[c]
      BY <1>1, <2>2 DEF RemapPath
    <3> QED BY <3>1 DEF IInv, KeyedByOwnFile
  <2> QED BY <2>1, <2>2
<1>4. OwnersAgree'
  BY <1>1, <1>2, <1>3 DEF OwnersAgree, IInv
<1>5. KeyedByOwnFile'
  BY <1>1, <1>3, RemapKeeps DEF KeyedByOwnFile, Keyed
<1> QED BY <1>4, <1>5 DEF IInv

LEMMA NextIInv ==
  ASSUME PathReuse = FALSE
  PROVE  IInv /\ [Next]_vars => IInv'
<1> SUFFICES ASSUME IInv, [Next]_vars PROVE IInv'
  OBVIOUS
<1> USE CommentRenamesAssumption
<1>0. TypeOK /\ TypeOK'
  BY NextType DEF IInv
<1>1. ASSUME NEW p \in Path, NEW q \in Path, MoveFile(p, q) PROVE IInv'
  <2>1. \A x \in Path : /\ occupant'[x] = IF x = q THEN tree[p] ELSE occupant[x]
                        /\ tree'[x] = IF x = q THEN tree[p]
                                      ELSE IF x = p THEN None ELSE tree[x]
    BY <1>0, <1>1 DEF MoveFile, TypeOK
  <2>2. OccupantsStay
    BY <1>1, <2>1 DEF MoveFile, OccupantsStay
  <2>3. \A x \in Path : tree'[x] \in {None, occupant'[x]}
    BY <2>1 DEF IInv, OwnersAgree
  <2> QED BY <1>0, <1>1, <2>2, <2>3, EditKeeps DEF MoveFile
<1>2. ASSUME NEW p \in Path, NEW f \in File, CreateFile(p, f) PROVE IInv'
  <2>1. \A x \in Path : /\ occupant'[x] = IF x = p THEN f ELSE occupant[x]
                        /\ tree'[x] = IF x = p THEN f ELSE tree[x]
    BY <1>0, <1>2 DEF CreateFile, TypeOK
  <2>2. OccupantsStay
    BY <1>2, <2>1 DEF CreateFile, OccupantsStay
  <2>3. \A x \in Path : tree'[x] \in {None, occupant'[x]}
    BY <2>1 DEF IInv, OwnersAgree
  <2> QED BY <1>0, <1>2, <2>2, <2>3, EditKeeps DEF CreateFile
<1>3. ASSUME NEW p \in Path, RemoveFile(p) PROVE IInv'
  <2>1. OccupantsStay
    BY <1>3 DEF RemoveFile, OccupantsStay
  <2>2. \A x \in Path : tree'[x] \in {None, occupant'[x]}
    BY <1>0, <1>3 DEF RemoveFile, TypeOK, IInv, OwnersAgree
  <2> QED BY <1>0, <1>3, <2>1, <2>2, EditKeeps DEF RemoveFile
<1>4. ASSUME NEW p \in Path, MarkViewed(p) PROVE IInv'
  <2>1. \A x \in Path : viewed'[x] = IF x = p THEN occupant[p] ELSE viewed[x]
    BY <1>0, <1>4 DEF MarkViewed, TypeOK, IInv, OwnersAgree
  <2>2. OwnersAgree'
    BY <1>4 DEF MarkViewed, gitVars, readerVars, IInv, OwnersAgree
  <2>3. KeyedByOwnFile'
    BY <1>4, <2>1 DEF MarkViewed, gitVars, IInv, KeyedByOwnFile
  <2> QED BY <1>0, <2>2, <2>3 DEF IInv
<1>5. ASSUME Stage PROVE IInv'
  <2>1. OwnersAgree'
    BY <1>5 DEF Stage, storeVars, readerVars, IInv, OwnersAgree
  <2>2. KeyedByOwnFile'
    BY <1>5 DEF Stage, storeVars, IInv, KeyedByOwnFile
  <2> QED BY <1>0, <2>1, <2>2 DEF IInv
<1>6. ASSUME Commit PROVE IInv'
  <2>1. /\ UNCHANGED <<index, tree, occupant, anchor, about, viewed, remaps>>
        /\ head' = index /\ committed' = committed \o Staged /\ listed' = listed
    BY <1>6 DEF Commit, storeVars, readerVars, Staged
  <2>2. \A i \in DOMAIN committed' :
          SameFile(occupant, committed'[i].oldPath, committed'[i].newPath)
    <3>1. \A s \in Seq(Good) : \A i \in DOMAIN s : s[i] \in Good
      OBVIOUS
    <3>2. committed' \in Seq(Good)
      BY <2>1, ListableGood DEF Listable
    <3>3. \A i \in DOMAIN committed' : committed'[i] \in Good
      BY <3>1, <3>2
    <3> QED BY <3>3 DEF Good
  <2>3. OwnersAgree'
    BY <2>1, <2>2 DEF IInv, OwnersAgree
  <2>4. KeyedByOwnFile'
    BY <2>1 DEF IInv, KeyedByOwnFile
  <2> QED BY <1>0, <2>3, <2>4 DEF IInv
<1>7. ASSUME NEW c \in Comment, NEW p \in Path, WriteComment(c, p)
      PROVE  IInv'
  <2>1. \A d \in Comment :
          /\ anchor'[d] = IF d = c THEN p ELSE anchor[d]
          /\ about'[d] = IF d = c THEN occupant[p] ELSE about[d]
    BY <1>0, <1>7 DEF WriteComment, TypeOK
  <2>2. OwnersAgree'
    BY <1>7, <2>1 DEF WriteComment, gitVars, readerVars, IInv, OwnersAgree
  <2>3. KeyedByOwnFile'
    BY <1>7, <2>1 DEF WriteComment, gitVars, IInv, KeyedByOwnFile
  <2> QED BY <1>0, <2>2, <2>3 DEF IInv
<1>none. <<>> \in Seq(Good)
  OBVIOUS
<1>8. ASSUME NEW r \in Reader, ReadState(r) \/ ListStranded(r) PROVE IInv'
  BY <1>0, <1>8, <1>none, ReadKeeps
  DEF ReadState, ListStranded, Serve, Continue
<1>9. ASSUME NEW r \in Reader, ListFirst(r) PROVE IInv'
  <2>1. PICK edges \in Seq(Good), step \in {"logged", "diffed"} :
          Continue(r, step, paths[r], edges, {})
    BY <1>9, ListableGood, FirstListed
  <2>2. UNCHANGED <<gitVars, storeVars>>
    BY <1>9 DEF ListFirst
  <2> QED BY <1>0, <2>1, <2>2, ReadKeeps DEF Continue
<1>14. ASSUME NEW r \in Reader, Trace(r) PROVE IInv'
  <2>1. PICK log, cached \in Seq(Good) :
          Continue(r, "traced", {}, <<>>, TraceRenames(paths[r], log, cached))
    BY <1>14, ListableGood, BothListed
  <2>2. \A m \in TraceRenames(paths[r], log, cached) :
          m[1] # m[2] /\ SameFile(occupant, m[1], m[2])
    BY <1>0, TraceRenamesSameFile DEF TypeOK
  <2>3. UNCHANGED <<gitVars, storeVars>>
    BY <1>14 DEF Trace
  <2> QED BY <1>0, <1>none, <2>1, <2>2, <2>3, ReadKeeps DEF Continue
<1>10. ASSUME NEW r \in Reader, CheckTargets(r) PROVE IInv'
  <2>1. PICK ms \in SUBSET remaps[r] :
          /\ remaps' = [remaps EXCEPT ![r] = ms]
          /\ listed' = [listed EXCEPT ![r] = <<>>]
    BY <1>10 DEF CheckTargets, Serve, Continue
  <2>2. \A m \in ms : m[1] # m[2] /\ SameFile(occupant, m[1], m[2])
    BY DEF IInv, OwnersAgree
  <2>3. UNCHANGED <<gitVars, storeVars>>
    BY <1>10 DEF CheckTargets
  <2> QED BY <1>0, <1>none, <2>1, <2>2, <2>3, ReadKeeps
<1>11. ASSUME NEW r \in Reader, Apply(r) PROVE IInv'
  BY <1>0, <1>11, ApplyKeeps
<1>12. ASSUME NEW r \in Reader, GiveUp(r) PROVE IInv'
  BY <1>0, <1>12, <1>none, ReadKeeps DEF GiveUp, Serve, Continue
<1>13. ASSUME UNCHANGED vars PROVE IInv'
  <2>1. OwnersAgree' /\ KeyedByOwnFile'
    BY <1>13 DEF vars, gitVars, storeVars, readerVars, IInv, OwnersAgree,
                 KeyedByOwnFile
  <2> QED BY <1>0, <2>1 DEF IInv
<1> QED BY <1>1, <1>2, <1>3, <1>4, <1>5, <1>6, <1>7, <1>8, <1>9, <1>10, <1>11,
           <1>12, <1>13, <1>14
        DEF Next, Reconcile

(* Comments and viewed marks are stored under a path of their own file,    *)
(* whatever stale renames are applied, by however many reads, in any order.*)
THEOREM StoredUnderOwnFile ==
  ASSUME PathReuse = FALSE
  PROVE  Spec => []KeyedByOwnFile
<1>1. IInv => KeyedByOwnFile
  BY DEF IInv
<1> QED BY <1>1, InitIInv, NextIInv, PTL DEF Spec

LEMMA StepKeepsMarks ==
  ASSUME IInv, [Next]_vars, NEW f \in File, NEW p \in Path, viewed[p] = f
  PROVE  \E q \in Path : viewed'[q] = f
<1>1. CASE UNCHANGED viewed
  BY <1>1
<1>2. ASSUME NEW x \in Path, MarkViewed(x) PROVE viewed'[p] = f
  <2>1. viewed'[p] = IF p = x THEN tree[x] ELSE viewed[p]
    BY <1>2 DEF MarkViewed, IInv, TypeOK
  <2>2. tree[x] # None => tree[x] = occupant[x]
    BY DEF IInv, OwnersAgree
  <2>3. viewed[p] = occupant[p]
    BY CommentRenamesAssumption DEF IInv, KeyedByOwnFile
  <2> QED BY <1>2, <2>1, <2>2, <2>3 DEF MarkViewed
<1>3. ASSUME NEW r \in Reader, Apply(r) PROVE \E q \in Path : viewed'[q] = f
  BY <1>3, RemapKeeps DEF Marked
<1>4. \/ UNCHANGED viewed
      \/ \E x \in Path : MarkViewed(x)
      \/ \E r \in Reader : Apply(r)
  BY DEF Next, MoveFile, CreateFile, RemoveFile, Edit, Stage, Commit,
         WriteComment, ReadState, Reconcile, ListStranded, ListFirst, Trace, CheckTargets,
         GiveUp, vars, storeVars
<1> QED BY <1>1, <1>2, <1>3, <1>4

(* No remap drops the last viewed mark of a file, though a key whose new   *)
(* name is taken is deleted, and no other write does.                      *)
THEOREM MarksKept ==
  ASSUME PathReuse = FALSE
  PROVE  Spec => MarksSurvive
<1>1. IInv /\ [Next]_vars =>
        [\A f \in File : (\E p \in Path : viewed[p] = f)
                           => (\E p \in Path : viewed'[p] = f)]_vars
  BY StepKeepsMarks
<1> QED BY <1>1, InitIInv, NextIInv, PTL DEF Spec, MarksSurvive

(* A comment whose file is gone moves at most to another path of that file. *)
THEOREM DeletedFilesKeepComments ==
  ASSUME PathReuse = FALSE
  PROVE  Spec => DeletedStayPut
<1> DEFINE Stay == \A c \in Comment :
                     /\ anchor[c] # None /\ anchor'[c] # anchor[c]
                     /\ \A p \in Path : tree[p] # about[c]
                     => occupant[anchor'[c]] = about[c]
<1>1. IInv /\ [Next]_vars => [Stay]_vars
  <2> SUFFICES ASSUME IInv, [Next]_vars, NEW c \in Comment,
                      anchor[c] # None, anchor'[c] # anchor[c]
               PROVE  occupant[anchor'[c]] = about[c]
    OBVIOUS
  <2>1. PICK r \in Reader : Apply(r)
    BY DEF Next, MoveFile, CreateFile, RemoveFile, Edit, Stage, Commit,
           MarkViewed, WriteComment, ReadState, Reconcile, ListStranded, ListFirst, Trace,
           CheckTargets, GiveUp, vars, storeVars, IInv, TypeOK
  <2>2. PICK m \in remaps[r] : m[1] = anchor[c] /\ anchor'[c] = m[2]
    BY <2>1 DEF Apply, RemapPath
  <2> QED BY <2>2 DEF IInv, OwnersAgree, KeyedByOwnFile, SameFile
<1> QED BY <1>1, InitIInv, NextIInv, PTL DEF Spec, DeletedStayPut

-----------------------------------------------------------------------------
(* The trace by itself, edge by edge: RenameTrace, and PathFollow, which it *)
(* implements.                                                              *)
InBucket(p) == CHOOSE c \in Path : p \in originalsByCurrent[c]

Partitioned == requested \in SUBSET Path /\ OneBucketEach

(* The bucket of a path is the only one that holds it. *)
LEMMA BucketOf ==
  ASSUME Partitioned, NEW p \in requested
  PROVE  /\ InBucket(p) \in Path
         /\ \A c \in Path : p \in originalsByCurrent[c] <=> c = InBucket(p)
  BY DEF Partitioned, OneBucketEach, InBucket

LEMMA InitPartitioned == TraceInit => Partitioned
  BY DEF TraceInit, Partitioned, OneBucketEach, Buckets

(* Where a bucket move leaves a requested path. *)
LEMMA MoveOne ==
  ASSUME Partitioned, NEW e \in Edge, NEW p \in requested,
         NEW c \in Path
  PROVE  p \in MoveBucket(originalsByCurrent, e)[c]
           <=> c = IF InBucket(p) = e.oldPath THEN e.newPath ELSE InBucket(p)
<1> DEFINE o == originalsByCurrent
<1>1. /\ o \in [Path -> SUBSET requested]
      /\ e.oldPath \in Path /\ e.newPath \in Path /\ e.oldPath # e.newPath
  BY DEF Partitioned, OneBucketEach, Edge
<1>2. \A d \in Path : p \in o[d] <=> d = InBucket(p)
  BY BucketOf
<1>3. MoveBucket(o, e)[c] =
        IF c = e.oldPath THEN {}
        ELSE IF c = e.newPath THEN o[c] \union o[e.oldPath] ELSE o[c]
  BY <1>1 DEF MoveBucket
<1> QED BY <1>1, <1>2, <1>3, BucketOf

LEMMA NextPartitioned == Partitioned /\ [TraceNext]_traceVars => Partitioned'
<1> SUFFICES ASSUME Partitioned, [TraceNext]_traceVars
             PROVE  Partitioned'
  OBVIOUS
<1>1. ASSUME NEW e \in Edge, Replay(e) PROVE Partitioned'
  <2>1. originalsByCurrent' \in [Path -> SUBSET requested]
    BY <1>1
    DEF Replay, MoveBucket, Partitioned, OneBucketEach,
        Edge
  <2>2. ASSUME NEW p \in requested
        PROVE  \E c \in Path :
                 /\ p \in originalsByCurrent'[c]
                 /\ \A d \in Path : p \in originalsByCurrent'[d] => d = c
    <3> DEFINE c == IF InBucket(p) = e.oldPath THEN e.newPath ELSE InBucket(p)
    <3>1. c \in Path
      BY BucketOf DEF Edge
    <3> QED BY <1>1, <3>1, MoveOne DEF Replay
  <2> QED BY <1>1, <2>1, <2>2
        DEF Replay, Partitioned, OneBucketEach
<1>2. ASSUME Collect \/ UNCHANGED traceVars PROVE Partitioned'
  BY <1>2 DEF Collect, traceVars, Partitioned, OneBucketEach
<1> QED BY <1>1, <1>2 DEF TraceNext

(* A requested path is never in two buckets and never dropped. *)
THEOREM BucketsPartition == TraceSpec => []OneBucketEach
<1>1. Partitioned => OneBucketEach
  BY DEF Partitioned
<1> QED BY <1>1, InitPartitioned, NextPartitioned, PTL DEF TraceSpec

LEMMA InitFollows == TraceInit => Follows!Init
<1> SUFFICES ASSUME TraceInit PROVE Follows!Init
  OBVIOUS
<1>1. \A p \in requested : InBucket(p) = p
  BY InitPartitioned, BucketOf DEF TraceInit, Buckets
<1> QED BY <1>1 DEF TraceInit, Follows!Init, InBucket

LEMMA NextFollows ==
  Partitioned /\ [TraceNext]_traceVars
    => [Follows!Next]_(Follows!vars)
<1> SUFFICES ASSUME Partitioned, [TraceNext]_traceVars
             PROVE  [Follows!Next]_(Follows!vars)
  OBVIOUS
<1>1. ASSUME NEW e \in Edge, Replay(e) PROVE Follows!Follow(e)
  <2>1. Partitioned'
    BY <1>1, NextPartitioned DEF TraceNext
  <2>2. requested' = requested
    BY <1>1 DEF Replay
  <2>3. ASSUME NEW p \in requested
        PROVE  (CHOOSE c \in Path : p \in originalsByCurrent'[c])
                 = IF InBucket(p) = e.oldPath THEN e.newPath ELSE InBucket(p)
    <3> DEFINE t == IF InBucket(p) = e.oldPath THEN e.newPath ELSE InBucket(p)
    <3>1. t \in Path
      BY BucketOf DEF Edge
    <3>2. \A c \in Path : p \in originalsByCurrent'[c] <=> c = t
      BY <1>1, MoveOne DEF Replay
    <3> QED BY <3>1, <3>2
  <2> QED BY <1>1, <2>2, <2>3 DEF Replay, Follows!Follow, InBucket
<1>2. ASSUME Collect PROVE Follows!Answer
  <2>1. Moved(originalsByCurrent)
          = {<<p, InBucket(p)>> : p \in {q \in requested : InBucket(q) # q}}
    <3>1. \A c \in Path : \A p \in originalsByCurrent[c] :
            p \in requested /\ c = InBucket(p)
      BY BucketOf DEF Partitioned, OneBucketEach
    <3> QED BY <3>1, BucketOf DEF Moved
  <2> DEFINE A == [p \in requested |->
                     CHOOSE c \in Path : p \in originalsByCurrent[c]]
  <2>2. \A p \in requested : A[p] = InBucket(p)
    BY DEF InBucket
  <2>3. A' = A
    BY <1>2 DEF Collect
  <2> HIDE DEF A
  <2>4. renames' = {<<p, A[p]>> : p \in {q \in requested : A[q] # q}}
    BY <1>2, <2>1, <2>2 DEF Collect
  <2> QED BY <1>2, <2>3, <2>4 DEF Collect, Follows!Answer, A
<1>3. ASSUME UNCHANGED traceVars PROVE UNCHANGED Follows!vars
  BY <1>3 DEF traceVars, Follows!vars
<1>4. Follows!Edge = Edge
  BY DEF Follows!Edge, Edge
<1> QED BY <1>1, <1>2, <1>3, <1>4 DEF TraceNext, Follows!Next

(* The one-pass trace gives every requested path the name it would have    *)
(* reached by walking its own rename chain.                                *)
THEOREM TraceFollowsEachPath == TraceSpec => FollowsEachPath
  BY InitPartitioned, NextPartitioned, InitFollows, NextFollows, PTL
  DEF TraceSpec, FollowsEachPath, Follows!Spec
=============================================================================
