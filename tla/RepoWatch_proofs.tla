-------------------------- MODULE RepoWatch_proofs --------------------------
(* The reference count of the poller is exact for any number of pages and  *)
(* connections, whatever breaks and whichever callbacks clean up.          *)
EXTENDS RepoWatch, FiniteSetTheorems, TLAPS

(* A stream that did not start yet holds nothing. *)
IInv ==
  /\ stream \in [Conn -> {"new", "identifying", "open", "closed"}]
  /\ held \in [Conn -> BOOLEAN]
  /\ created \in Nat
  /\ watcher \in Nat \union {None}
  /\ \A c \in Conn : stream[c] \in {"new", "identifying"} => ~held[c]
  /\ RefCountExact

LEMMA HoldersFinite == IsFiniteSet(Holders) /\ Cardinality(Holders) \in Nat
<1>1. Holders \subseteq Conn
  BY DEF Holders
<1> QED BY <1>1, RepoWatchAssumption, FS_Subset, FS_CardinalityType

LEMMA InitIInv == Init => IInv
<1> SUFFICES ASSUME Init PROVE IInv
  OBVIOUS
<1>1. Holders = {}
  BY DEF Init, Holders
<1> QED BY <1>1, FS_EmptySet DEF Init, IInv, RefCountExact

(* A stream that starts holds the watcher, which counts one more. *)
LEMMA StartIInv ==
  ASSUME IInv, NEW c \in Conn, Start(c)
  PROVE  IInv'
<1>1. ~held[c] /\ c \notin Holders
  BY DEF Start, IInv, Holders
<1>2. Holders' = Holders \union {c}
  BY DEF Start, IInv, Holders
<1>3. Cardinality(Holders') = Cardinality(Holders) + 1
  BY <1>1, <1>2, HoldersFinite, FS_AddElement
<1>4. refCount' = refCount + 1 /\ watcher' # None
  <2>1. CASE watcher = None
    <3>1. refCount = 0
      BY <2>1, FS_EmptySet DEF IInv, RefCountExact
    <3> QED BY <2>1, <3>1, RepoWatchAssumption DEF Start, IInv
  <2>2. CASE watcher # None
    BY <2>2 DEF Start
  <2> QED BY <2>1, <2>2
<1>5. RefCountExact'
  BY <1>2, <1>3, <1>4 DEF IInv, RefCountExact
<1>6. /\ held' \in [Conn -> BOOLEAN] /\ created' \in Nat
      /\ watcher' \in Nat \union {None}
  BY DEF Start, IInv
<1>7. \A d \in Conn : stream'[d] \in {"new", "identifying"} => ~held'[d]
  BY DEF Start, IInv
<1>8. stream' \in [Conn -> {"new", "identifying", "open", "closed"}]
  BY DEF Start, IInv
<1> QED BY <1>5, <1>6, <1>7, <1>8 DEF IInv

(* A first cleanup takes one off the count, and with the last one the      *)
(* watcher; a second cleanup of the same connection does nothing.          *)
LEMMA CleanupIInv ==
  ASSUME IInv, NEW c \in Conn, NEW caller, Cleanup(c, caller)
  PROVE  IInv'
<1>1. Holders' = Holders \ {c}
  BY DEF Cleanup, IInv, Holders
<1>2. RefCountExact'
  <2>1. CASE held[c]
    <3>1. c \in Holders /\ watcher # None
      BY <2>1 DEF Holders, IInv, RefCountExact
    <3>2. Cardinality(Holders') = Cardinality(Holders) - 1
      BY <1>1, <3>1, HoldersFinite, FS_RemoveElement
    <3>3. /\ refCount' = refCount - 1
          /\ watcher' = IF refCount - 1 <= 0 THEN None ELSE watcher
      BY <2>1, <3>1 DEF Cleanup
    <3>4. Cardinality(Holders') \in Nat
      BY <1>1, HoldersFinite, FS_RemoveElement, FS_CardinalityType
    <3>5. Holders' = {} <=> Cardinality(Holders') = 0
      BY <1>1, HoldersFinite, FS_RemoveElement, FS_EmptySet
    <3>6. refCount = Cardinality(Holders) /\ Cardinality(Holders) \in Nat
      BY HoldersFinite DEF IInv, RefCountExact
    <3>7. refCount' = Cardinality(Holders')
      BY <3>2, <3>3, <3>6
    <3>8. watcher' = None <=> Cardinality(Holders') = 0
      BY <3>1, <3>2, <3>3, <3>4, <3>6
    <3> QED BY <3>5, <3>7, <3>8 DEF RefCountExact
  <2>2. CASE ~held[c]
    <3>1. Holders' = Holders
      BY <1>1, <2>2 DEF Holders
    <3> QED BY <2>2, <3>1 DEF Cleanup, IInv, RefCountExact
  <2> QED BY <2>1, <2>2
<1>3. /\ held' \in [Conn -> BOOLEAN] /\ created' \in Nat
      /\ watcher' \in Nat \union {None}
  BY DEF Cleanup, IInv
<1>4. \A d \in Conn : stream'[d] \in {"new", "identifying"} => ~held'[d]
  BY DEF Cleanup, IInv
<1>5. stream' \in [Conn -> {"new", "identifying", "open", "closed"}]
  BY DEF Cleanup, IInv
<1> QED BY <1>2, <1>3, <1>4, <1>5 DEF IInv

LEMMA NextIInv == IInv /\ [Next]_vars => IInv'
<1> SUFFICES ASSUME IInv, [Next]_vars PROVE IInv'
  OBVIOUS
<1> USE DEF pageVars, connVars, countVars, pollVars
<1>1. ASSUME NEW p \in Page, NEW c \in Conn, Connect(p, c) PROVE IInv'
  BY <1>1 DEF Connect, IInv, RefCountExact, Holders
<1>2. ASSUME NEW c \in Conn, Start(c) PROVE IInv'
  BY <1>2, StartIInv
<1>3. ASSUME NEW c \in Conn, NEW caller, Cleanup(c, caller) PROVE IInv'
  BY <1>3, CleanupIInv
<1>4. ASSUME NEW c \in Conn, NoticeDrop(c) PROVE IInv'
  BY <1>4 DEF NoticeDrop, IInv, RefCountExact, Holders
<1>5. ASSUME NEW p \in Page, Reload(p) \/ Drop(p) PROVE IInv'
  BY <1>5 DEF Reload, Drop, IInv, RefCountExact, Holders
<1>6. ASSUME NEW w \in Watcher, StartPoll(w) \/ EndPoll(w) \/ FailPoll(w)
      PROVE  IInv'
  BY <1>6 DEF StartPoll, EndPoll, FailPoll, IInv, RefCountExact, Holders
<1>7. ASSUME Change \/ UNCHANGED vars PROVE IInv'
  BY <1>7 DEF Change, vars, IInv, RefCountExact, Holders
<1> QED BY <1>1, <1>2, <1>3, <1>4, <1>5, <1>6, <1>7 DEF Next

(* The watcher counts exactly the connections that hold it, and is there   *)
(* exactly while there are some.                                           *)
THEOREM RefCountCorrect == Spec => []RefCountExact
<1>1. IInv => RefCountExact
  BY DEF IInv
<1> QED BY <1>1, InitIInv, NextIInv, PTL DEF Spec

-----------------------------------------------------------------------------
(* Each watcher object is paid for with a stream that started, of which     *)
(* there are no more than connections; and what cleans up has started.      *)
Started == {c \in Conn : stream[c] \in {"open", "closed"}}

TypeInv ==
  /\ IInv
  /\ TypeOK
  /\ created <= Cardinality(Started)
  /\ watcher # None => watcher <= created
  /\ \A c \in Conn : cleanups[c] # {} => c \in Started

LEMMA StartedFinite ==
  /\ IsFiniteSet(Started) /\ Cardinality(Started) \in Nat
  /\ Cardinality(Conn) \in Nat /\ Cardinality(Started) <= Cardinality(Conn)
<1>1. Started \subseteq Conn
  BY DEF Started
<1> QED BY <1>1, RepoWatchAssumption, FS_Subset, FS_CardinalityType

LEMMA InitTypeInv == Init => TypeInv
<1> SUFFICES ASSUME Init PROVE TypeInv
  OBVIOUS
<1>1. Started = {}
  BY DEF Init, Started
<1>2. TypeOK
  <2>1. 0 \in 0..Cardinality(Conn) /\ 0 \in 0..MaxEdits /\ 0 \in 0..MaxFailures
    BY StartedFinite, RepoWatchAssumption
  <2> QED BY <2>1 DEF Init, TypeOK
<1>3. Cardinality(Started) = 0
  BY <1>1, FS_EmptySet
<1> QED BY <1>2, <1>3, InitIInv DEF Init, TypeInv

LEMMA StartTypeInv ==
  ASSUME TypeInv, NEW c \in Conn, Start(c), IInv'
  PROVE  TypeInv'
<1> USE DEF pageVars, pollVars
<1>1. /\ c \notin Started /\ Started' = Started \union {c}
      /\ stream[c] = "identifying"
  BY DEF Start, TypeInv, TypeOK, Started
<1>2. Cardinality(Started') = Cardinality(Started) + 1
  BY <1>1, StartedFinite, FS_AddElement
<1>3. Cardinality(Started') <= Cardinality(Conn)
  <2>1. Started' \subseteq Conn
    BY <1>1 DEF Started
  <2> QED BY <2>1, RepoWatchAssumption, FS_Subset
<1>4. /\ created \in Nat /\ created <= Cardinality(Started)
      /\ watcher # None => watcher \in Nat /\ watcher <= created
      /\ refCount \in Nat
  BY StartedFinite DEF TypeInv, TypeOK, IInv
<1>5. /\ created' \in 0..Cardinality(Conn) /\ created' <= Cardinality(Started')
      /\ watcher' \in Watcher \union {None} /\ watcher' <= created'
      /\ refCount' \in Nat
  <2>1. CASE watcher = None
    <3>1. created' = created + 1 /\ watcher' = created + 1 /\ refCount' = 1
      BY <2>1 DEF Start
    <3> QED BY <1>2, <1>3, <1>4, <3>1, StartedFinite DEF Watcher
  <2>2. CASE watcher # None
    <3>1. created' = created /\ watcher' = watcher /\ refCount' = refCount + 1
      BY <2>2 DEF Start
    <3> QED BY <1>2, <1>4, <2>2, <3>1, StartedFinite DEF TypeInv, TypeOK
  <2> QED BY <2>1, <2>2
<1>6. /\ stream' = [stream EXCEPT ![c] = "open"]
      /\ held' = [held EXCEPT ![c] = TRUE]
      /\ cleanups' \in {cleanups, [cleanups EXCEPT ![c] = {"cancel"}]}
      /\ missed' \in {missed, missed \union {c}}
      /\ UNCHANGED <<version, link, shown, dirty, lastSignature, sample, failures>>
  BY DEF Start
<1>7. TypeOK'
  BY <1>5, <1>6 DEF TypeInv, TypeOK
<1>8. \A d \in Conn : cleanups'[d] # {} => d \in Started'
  BY <1>1, <1>6 DEF TypeInv, TypeOK
<1> QED BY <1>5, <1>7, <1>8 DEF TypeInv

LEMMA CleanupTypeInv ==
  ASSUME TypeInv, NEW c \in Conn, NEW caller, Cleanup(c, caller), IInv'
  PROVE  TypeInv'
<1> USE DEF pageVars, pollVars
<1>1. /\ cleanups' = [cleanups EXCEPT ![c] = @ \ {caller}]
      /\ stream' = [stream EXCEPT ![c] = "closed"]
      /\ held' = [held EXCEPT ![c] = FALSE]
      /\ caller \in cleanups[c]
      /\ watcher' \in {watcher, None} /\ created' = created
      /\ missed' = missed
      /\ UNCHANGED <<version, link, shown, dirty, lastSignature, sample, failures>>
  BY DEF Cleanup
<1>2. Started' = Started
  BY <1>1 DEF TypeInv, TypeOK, Started
<1>3. refCount' \in Nat
  <2>1. Cardinality(Holders') \in Nat
    <3>1. Holders' \subseteq Conn
      BY DEF Holders
    <3> QED BY <3>1, RepoWatchAssumption, FS_Subset, FS_CardinalityType
  <2> QED BY <2>1 DEF IInv, RefCountExact
<1>4. TypeOK'
  BY <1>1, <1>3 DEF TypeInv, TypeOK
<1>5. \A d \in Conn : cleanups'[d] # {} => d \in Started'
  BY <1>1, <1>2 DEF TypeInv, TypeOK
<1> QED BY <1>1, <1>2, <1>4, <1>5 DEF TypeInv

LEMMA NextTypeInv == TypeInv /\ [Next]_vars => TypeInv'
<1> SUFFICES ASSUME TypeInv, [Next]_vars PROVE TypeInv'
  OBVIOUS
<1> USE DEF pageVars, connVars, countVars, pollVars
<1>a. IInv'
  BY NextIInv DEF TypeInv
<1>b. TypeOK /\ MaxEdits \in Nat /\ MaxFailures \in Nat
  BY RepoWatchAssumption DEF TypeInv
<1>1. ASSUME NEW p \in Page, NEW c \in Conn, Connect(p, c) PROVE TypeInv'
  <2>1. Started' = Started
    BY <1>1, <1>b DEF Connect, TypeOK, Started
  <2>2. TypeOK'
    BY <1>1, <1>b DEF Connect, TypeOK
  <2> QED BY <1>1, <1>a, <2>1, <2>2 DEF Connect, TypeInv
<1>2. ASSUME NEW c \in Conn, Start(c) PROVE TypeInv'
  BY <1>2, <1>a, StartTypeInv
<1>3. ASSUME NEW c \in Conn, NEW caller, Cleanup(c, caller) PROVE TypeInv'
  BY <1>3, <1>a, CleanupTypeInv
<1>4. ASSUME NEW c \in Conn, NoticeDrop(c) PROVE TypeInv'
  <2>1. Started' = Started /\ c \in Started
    BY <1>4 DEF NoticeDrop, Started
  <2>2. TypeOK'
    BY <1>4, <1>b DEF NoticeDrop, TypeOK
  <2> QED BY <1>4, <1>a, <1>b, <2>1, <2>2 DEF NoticeDrop, TypeInv, TypeOK
<1>5. ASSUME NEW p \in Page, Reload(p) \/ Drop(p) PROVE TypeInv'
  <2>1. Started' = Started
    BY <1>5 DEF Reload, Drop, Started
  <2>2. TypeOK'
    BY <1>5, <1>b DEF Reload, Drop, TypeOK
  <2> QED BY <1>5, <1>a, <2>1, <2>2 DEF Reload, Drop, TypeInv
<1>6. ASSUME NEW w \in Watcher, StartPoll(w) \/ EndPoll(w) \/ FailPoll(w)
      PROVE  TypeInv'
  <2>1. Started' = Started /\ UNCHANGED <<connVars, countVars>>
    BY <1>6 DEF StartPoll, EndPoll, FailPoll, Started
  <2>2. dirty' \in [Page -> BOOLEAN]
    BY <1>6, <1>b DEF StartPoll, EndPoll, FailPoll, Emit, TypeOK
  <2>3. /\ lastSignature' \in [Watcher -> 0..MaxEdits \union {None}]
        /\ sample' \in [Watcher -> 0..MaxEdits \union {None}]
    BY <1>6, <1>b DEF StartPoll, EndPoll, FailPoll, TypeOK
  <2>4. failures' \in 0..MaxFailures /\ UNCHANGED <<version, link, shown>>
    BY <1>6, <1>b DEF StartPoll, EndPoll, FailPoll, TypeOK
  <2>5. TypeOK'
    BY <1>b, <2>1, <2>2, <2>3, <2>4 DEF TypeOK
  <2> QED BY <1>a, <2>1, <2>5 DEF TypeInv
<1>7. ASSUME Change \/ UNCHANGED vars PROVE TypeInv'
  <2>1. Started' = Started /\ UNCHANGED <<pageVars, connVars, countVars, pollVars>>
    BY <1>7 DEF Change, vars, Started
  <2>2. version' \in 0..MaxEdits
    BY <1>7, <1>b DEF Change, vars, TypeOK
  <2>3. TypeOK'
    BY <1>b, <2>1, <2>2 DEF TypeOK
  <2> QED BY <1>a, <2>1, <2>3 DEF TypeInv
<1> QED BY <1>1, <1>2, <1>3, <1>4, <1>5, <1>6, <1>7 DEF Next

(* Every variable keeps its type, and no more watchers are created than     *)
(* there are connections.                                                   *)
THEOREM TypeCorrect == Spec => []TypeOK
<1>1. TypeInv => TypeOK
  BY DEF TypeInv
<1> QED BY <1>1, InitTypeInv, NextTypeInv, PTL DEF Spec
=============================================================================
