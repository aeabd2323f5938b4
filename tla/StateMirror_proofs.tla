------------------------- MODULE StateMirror_proofs -------------------------
(* What the page's copy of the review state never shows, for any branches,  *)
(* requests and bounds.                                                     *)
EXTENDS StateMirror, FiniteSetTheorems, TLAPS

(* Changes that the server has yet to make: each is paid for with a change, *)
(* and may still raise an age and send an event.                            *)
Changing ==
  {c \in Call : call[c] # Idle /\ call[c].kind # "get" /\ call[c].reply = None}

ChangesCounted ==
  /\ IsFiniteSet(Changing)
  /\ told + Cardinality(Changing) <= changes
  /\ \A b \in Branch :
       /\ server[b].comments + Cardinality(Changing) <= changes
       /\ server[b].marks + Cardinality(Changing) <= changes

(* Each load but the first is paid for with a checkout; and what a request  *)
(* is answered is the state of the branch it was identified on.             *)
RequestsOK ==
  /\ load + (IF moved THEN 1 ELSE 0) <= 1 + checkouts
  /\ \A c \in Call : call[c] # Idle => call[c].load <= load
  /\ \A c \in Answered : /\ call[c].branch # None
                         /\ call[c].reply.comments.of = call[c].branch

IInv == TypeOK /\ ChangesCounted /\ RequestsOK

(* A request that is not idle is a request. *)
LEMMA CallType ==
  ASSUME TypeOK, NEW c \in Call
  PROVE  /\ call[c] # Idle => call[c] \in Request
         /\ \A r \in Request : r # Idle
  BY DEF TypeOK, Request, Idle

LEMMA FreshType ==
  ASSUME TypeOK, NEW kind \in {"get", "put", "patch"}
  PROVE  /\ Fresh(kind) \in Request /\ Fresh(kind) # Idle
         /\ Fresh(kind).kind = kind /\ Fresh(kind).load = load
         /\ Fresh(kind).branch = None /\ Fresh(kind).reply = None
  BY DEF Fresh, TypeOK, Request, Idle

(* What becomes of the sets of requests when one call is replaced by x. *)
LEMMA PutCall ==
  ASSUME TypeOK, NEW c \in Call, NEW x \in Request \union {Idle},
         call' = [call EXCEPT ![c] = x]
  PROVE  /\ call' \in [Call -> Request \union {Idle}]
         /\ call'[c] = x /\ \A d \in Call \ {c} : call'[d] = call[d]
         /\ Changing' = IF x # Idle /\ x.kind # "get" /\ x.reply = None
                        THEN Changing \union {c} ELSE Changing \ {c}
         /\ Answered' = IF x # Idle /\ x.reply # None
                        THEN Answered \union {c} ELSE Answered \ {c}
<1>1. /\ call' \in [Call -> Request \union {Idle}]
      /\ call'[c] = x /\ \A d \in Call \ {c} : call'[d] = call[d]
  BY DEF TypeOK
<1>2. Changing' = IF x # Idle /\ x.kind # "get" /\ x.reply = None
                  THEN Changing \union {c} ELSE Changing \ {c}
  BY <1>1 DEF Changing
<1>3. Answered' = IF x # Idle /\ x.reply # None
                  THEN Answered \union {c} ELSE Answered \ {c}
  BY <1>1 DEF Answered
<1> QED BY <1>1, <1>2, <1>3

(* The order of the answers under way when an answer is dropped. *)
LEMMA DropType ==
  ASSUME TypeOK, NEW c \in Call, Drop(c), Answered' = Answered \ {c}
  PROVE  /\ earlier' \in [Call -> SUBSET Answered']
         /\ \A d \in Call : d \notin Answered' => earlier'[d] = {}
  BY DEF TypeOK, Drop

LEMMA Numbers ==
  ASSUME TypeOK
  PROVE  /\ told \in Nat /\ changes \in Nat /\ load \in Nat /\ checkouts \in Nat
         /\ \A b \in Branch :
              server[b].comments \in Nat /\ server[b].marks \in Nat
  BY StateMirrorAssumption DEF TypeOK

LEMMA Raised ==
  ASSUME TypeOK, NEW b \in Branch, NEW a \in Branch
  PROVE  /\ [server EXCEPT ![b].comments = @ + 1][a].marks = server[a].marks
         /\ [server EXCEPT ![b].comments = @ + 1][a].comments =
              IF a = b THEN server[a].comments + 1 ELSE server[a].comments
         /\ [server EXCEPT ![b].marks = @ + 1][a].comments = server[a].comments
         /\ [server EXCEPT ![b].marks = @ + 1][a].marks =
              IF a = b THEN server[a].marks + 1 ELSE server[a].marks
  BY DEF TypeOK

(* A step that leaves the ages alone, and no more changes or events.        *)
LEMMA CountLess ==
  ASSUME IInv, NEW S \in SUBSET Changing, Changing' = S,
         changes' = changes, told' \in Nat, told' <= told, server' = server
  PROVE  ChangesCounted'
<1>1. /\ IsFiniteSet(S) /\ Cardinality(S) \in Nat
      /\ Cardinality(Changing) \in Nat
      /\ Cardinality(S) <= Cardinality(Changing)
  BY FS_Subset, FS_CardinalityType DEF IInv, ChangesCounted
<1> QED BY <1>1 DEF IInv, ChangesCounted, TypeOK

(* A step that spends a change, on a new request or at once. *)
LEMMA CountOne ==
  ASSUME IInv, changes' = changes + 1,
         \/ /\ \E c \in Call \ Changing : Changing' = Changing \union {c}
            /\ told' = told /\ server' = server
         \/ /\ Changing' = Changing /\ told' = told + 1
            /\ server' = [server EXCEPT ![head].comments = @ + 1]
  PROVE  ChangesCounted'
<1>1. /\ IsFiniteSet(Changing) /\ Cardinality(Changing) \in Nat
      /\ \A c : c \notin Changing =>
           /\ IsFiniteSet(Changing \union {c})
           /\ Cardinality(Changing \union {c}) = Cardinality(Changing) + 1
  BY FS_AddElement, FS_CardinalityType DEF IInv, ChangesCounted
<1>2. CASE \E c \in Call \ Changing : Changing' = Changing \union {c}
                                      /\ told' = told /\ server' = server
  <2>1. PICK c \in Call \ Changing : Changing' = Changing \union {c}
    BY <1>2
  <2>2. Cardinality(Changing') = Cardinality(Changing) + 1
    BY <1>1, <2>1
  <2> QED BY <1>1, <1>2, <2>1, <2>2, Numbers DEF IInv, ChangesCounted
<1>3. CASE /\ Changing' = Changing /\ told' = told + 1
           /\ server' = [server EXCEPT ![head].comments = @ + 1]
  BY <1>1, <1>3, Numbers, Raised DEF IInv, ChangesCounted, TypeOK
<1> QED BY <1>2, <1>3

(* The server makes a change that was counted. *)
LEMMA CountServed ==
  ASSUME IInv, NEW c \in Changing, Changing' = Changing \ {c},
         changes' = changes, told' = told + 1, NEW b \in Branch,
         \/ server' = [server EXCEPT ![b].comments = @ + 1]
         \/ server' = [server EXCEPT ![b].marks = @ + 1]
  PROVE  ChangesCounted'
<1>1. /\ IsFiniteSet(Changing \ {c}) /\ Cardinality(Changing) \in Nat
      /\ Cardinality(Changing \ {c}) = Cardinality(Changing) - 1
  BY FS_RemoveElement, FS_CardinalityType DEF IInv, ChangesCounted
<1>2. \A a \in Branch :
        /\ server'[a].comments \in {server[a].comments, server[a].comments + 1}
        /\ server'[a].marks \in {server[a].marks, server[a].marks + 1}
  <2> SUFFICES ASSUME NEW a \in Branch
               PROVE  /\ server'[a].comments \in
                           {server[a].comments, server[a].comments + 1}
                      /\ server'[a].marks \in
                           {server[a].marks, server[a].marks + 1}
    OBVIOUS
  <2>1. CASE server' = [server EXCEPT ![b].comments = @ + 1]
    BY <2>1, Raised DEF IInv
  <2>2. CASE server' = [server EXCEPT ![b].marks = @ + 1]
    BY <2>2, Raised DEF IInv
  <2> QED BY <2>1, <2>2
<1>3. /\ told + Cardinality(Changing) <= changes
      /\ \A a \in Branch :
           /\ server[a].comments + Cardinality(Changing) <= changes
           /\ server[a].marks + Cardinality(Changing) <= changes
  BY DEF IInv, ChangesCounted
<1> DEFINE n == Cardinality(Changing)
<1>4. Cardinality(Changing') = n - 1 /\ n \in Nat
  BY <1>1
<1> HIDE DEF n
<1>5. \A a \in Branch :
        /\ server'[a].comments + (n - 1) <= changes
        /\ server'[a].marks + (n - 1) <= changes
  BY <1>2, <1>3, <1>4, Numbers DEF IInv, n
<1>6. told' + (n - 1) <= changes
  BY <1>3, <1>4, Numbers DEF IInv, n
<1> QED BY <1>1, <1>4, <1>5, <1>6 DEF ChangesCounted

(* A change that the server has yet to make is within the bound. *)
LEMMA Allowed ==
  ASSUME IInv, Changing # {}, NEW b \in Branch
  PROVE  /\ server[b].comments + 1 \in 0..MaxChanges
         /\ server[b].marks + 1 \in 0..MaxChanges
<1>1. /\ Cardinality(Changing) \in Nat /\ Cardinality(Changing) # 0
  BY FS_EmptySet, FS_CardinalityType DEF IInv, ChangesCounted
<1>2. /\ server[b].comments + Cardinality(Changing) <= changes
      /\ server[b].marks + Cardinality(Changing) <= changes
      /\ changes \in 0..MaxChanges
  BY DEF IInv, ChangesCounted, TypeOK
<1>3. /\ server[b].comments \in Nat /\ server[b].marks \in Nat
      /\ MaxChanges \in Nat
  BY Numbers, StateMirrorAssumption DEF IInv
<1> QED BY <1>1, <1>2, <1>3

(* What the counts say of the bounds, after a step. *)
LEMMA CountBounds ==
  ASSUME ChangesCounted', changes' \in 0..MaxChanges, told' \in Nat,
         server' \in [Branch -> [comments : Nat, marks : Nat]]
  PROVE  /\ told' \in 0..MaxChanges
         /\ server' \in [Branch -> [comments : 0..MaxChanges,
                                    marks : 0..MaxChanges]]
<1>1. Cardinality(Changing') \in Nat
  BY FS_CardinalityType DEF ChangesCounted
<1>2. \A b \in Branch : /\ server'[b].comments \in 0..MaxChanges
                        /\ server'[b].marks \in 0..MaxChanges
  <2> SUFFICES ASSUME NEW b \in Branch
               PROVE  /\ server'[b].comments \in 0..MaxChanges
                      /\ server'[b].marks \in 0..MaxChanges
    OBVIOUS
  <2>1. /\ server'[b].comments + Cardinality(Changing') <= changes'
        /\ server'[b].marks + Cardinality(Changing') <= changes'
        /\ server'[b].comments \in Nat /\ server'[b].marks \in Nat
    BY DEF ChangesCounted
  <2> QED BY <1>1, <2>1, StateMirrorAssumption
<1>3. told' \in 0..MaxChanges
  <2>1. told' + Cardinality(Changing') <= changes'
    BY DEF ChangesCounted
  <2> QED BY <1>1, <2>1, StateMirrorAssumption
<1> QED BY <1>2, <1>3

(* The part of TypeOK that is about the requests and the answers under way. *)
CallsOK ==
  /\ call \in [Call -> Request \union {Idle}]
  /\ earlier \in [Call -> SUBSET Answered]
  /\ \A c \in Call : c \notin Answered => earlier[c] = {}
  /\ late \subseteq Answered
  /\ setback \in BOOLEAN

(* A request is sent where there was none, or again in place of one that    *)
(* came to its end.                                                         *)
LEMMA SendOK ==
  ASSUME IInv, NEW c \in Call, NEW kind \in {"get", "put", "patch"},
         call' = [call EXCEPT ![c] = Fresh(kind)]
  PROVE  /\ call' \in [Call -> Request \union {Idle}]
         /\ Answered' = Answered \ {c}
         /\ Changing' = IF kind = "get" THEN Changing \ {c}
                        ELSE Changing \union {c}
         /\ \A d \in Call : call'[d] = IF d = c THEN Fresh(kind) ELSE call[d]
         /\ load' = load =>
              \A d \in Call : call'[d] # Idle => call'[d].load <= load'
<1>1. TypeOK
  BY DEF IInv
<1>2. /\ Fresh(kind) \in Request \union {Idle} /\ Fresh(kind) # Idle
      /\ Fresh(kind).kind = kind /\ Fresh(kind).load = load
      /\ Fresh(kind).reply = None
  BY <1>1, FreshType
<1> HIDE DEF Fresh
<1>3. /\ call' \in [Call -> Request \union {Idle}]
      /\ Answered' = Answered \ {c}
      /\ Changing' = IF kind = "get" THEN Changing \ {c}
                     ELSE Changing \union {c}
      /\ \A d \in Call : call'[d] = IF d = c THEN Fresh(kind) ELSE call[d]
  BY <1>1, <1>2, PutCall
<1>4. ASSUME load' = load, NEW d \in Call, call'[d] # Idle
      PROVE  call'[d].load <= load'
  BY <1>1, <1>2, <1>3, <1>4, Numbers DEF IInv, RequestsOK
<1> QED BY <1>3, <1>4

LEMMA InitIInv == Init => IInv
<1> SUFFICES ASSUME Init PROVE IInv
  OBVIOUS
<1>1. Changing = {} /\ Answered = {}
  BY DEF Init, Changing, Answered
<1>2. IsFiniteSet(Changing) /\ Cardinality(Changing) = 0
  BY <1>1, FS_EmptySet
<1>3. TypeOK
  <2>1. MaxChanges \in Nat /\ MaxCheckouts \in Nat /\ MaxFailures \in Nat
    BY StateMirrorAssumption
  <2>2. server \in [Branch -> [comments : 0..MaxChanges,
                               marks : 0..MaxChanges]]
    BY <2>1 DEF Init
  <2>3. {moved, loading} \subseteq BOOLEAN
    BY DEF Init
  <2>4. call \in [Call -> Request \union {Idle}]
    BY DEF Init
  <2>5. earlier \in [Call -> SUBSET Answered]
    BY DEF Init
  <2>6. /\ told \in 0..MaxChanges /\ load \in 1..(1 + MaxCheckouts)
        /\ changes \in 0..MaxChanges /\ checkouts \in 0..MaxCheckouts
        /\ failures \in 0..MaxFailures
    BY <2>1 DEF Init
  <2> QED BY <2>2, <2>3, <2>4, <2>5, <2>6 DEF Init, TypeOK
<1>4. ChangesCounted
  BY <1>2 DEF Init, ChangesCounted
<1>5. RequestsOK
  BY <1>1 DEF Init, RequestsOK
<1> QED BY <1>3, <1>4, <1>5 DEF IInv

LEMMA NextIInv == IInv /\ [Next]_vars => IInv'
<1> SUFFICES ASSUME IInv, [Next]_vars PROVE IInv'
  OBVIOUS
<1> USE DEF serverVars, loadVars, counters, historyVars
<1>a. TypeOK /\ CallsOK /\ ChangesCounted /\ RequestsOK
  BY DEF IInv, TypeOK, CallsOK
<1>b. /\ server \in [Branch -> [comments : Nat, marks : Nat]]
      /\ MaxChanges \in Nat /\ MaxCheckouts \in Nat /\ MaxFailures \in Nat
  BY <1>a, StateMirrorAssumption DEF TypeOK
<1>1. ASSUME NEW c \in Call, NEW kind \in {"put", "patch"}, Change(c, kind)
      PROVE  IInv'
  <2>1. /\ call[c] = Idle /\ call' = [call EXCEPT ![c] = Fresh(kind)]
        /\ c \notin Changing /\ c \notin Answered
    BY <1>1 DEF Change, Send, Changing, Answered
  <2>2. /\ Answered' = Answered /\ Changing' = Changing \union {c}
        /\ call' \in [Call -> Request \union {Idle}]
        /\ \A d \in Call : call'[d] = IF d = c THEN Fresh(kind) ELSE call[d]
        /\ \A d \in Call : call'[d] # Idle => call'[d].load <= load'
    <3>1. /\ Answered' = Answered \ {c}
          /\ Changing' = IF kind = "get" THEN Changing \ {c}
                         ELSE Changing \union {c}
          /\ call' \in [Call -> Request \union {Idle}]
          /\ \A d \in Call : call'[d] = IF d = c THEN Fresh(kind) ELSE call[d]
          /\ load' = load =>
               \A d \in Call : call'[d] # Idle => call'[d].load <= load'
      BY <2>1, SendOK
    <3>2. load' = load
      BY <1>1 DEF Change
    <3> QED BY <2>1, <3>1, <3>2
  <2>3. CallsOK'
    BY <1>1, <1>a, <2>2 DEF CallsOK, Change
  <2>4. ChangesCounted'
    BY <1>1, <2>1, <2>2, CountOne DEF Change
  <2>5. RequestsOK'
    BY <1>1, <1>a, <2>1, <2>2 DEF RequestsOK, Change
  <2>6. changes' \in 0..MaxChanges
    BY <1>1, <1>a, <1>b, Numbers DEF Change
  <2>7. TypeOK'
    BY <1>1, <1>a, <2>3, <2>6 DEF TypeOK, CallsOK, Change
  <2> QED BY <2>4, <2>5, <2>7 DEF IInv
<1>2. ASSUME NEW c \in Call, Notice(c) \/ Hydrate(c) PROVE IInv'
  <2>1. /\ call[c] = Idle /\ call' = [call EXCEPT ![c] = Fresh("get")]
        /\ c \notin Changing /\ c \notin Answered
        /\ UNCHANGED <<serverVars, load, earlier, cache, historyVars, counters>>
        /\ told' \in Nat /\ told' <= told /\ loading' \in BOOLEAN
    <3>1. /\ call[c] = Idle /\ call' = [call EXCEPT ![c] = Fresh("get")]
          /\ UNCHANGED <<serverVars, load, earlier, cache, historyVars,
                         counters>>
      BY <1>2 DEF Notice, Hydrate, Send
    <3>2. told' \in Nat /\ told' <= told
      BY <1>2, <1>a, Numbers DEF Notice, Hydrate
    <3>3. loading' \in BOOLEAN
      BY <1>2, <1>a DEF Notice, Hydrate, TypeOK
    <3>4. c \notin Changing /\ c \notin Answered
      BY <3>1 DEF Changing, Answered
    <3> QED BY <3>1, <3>2, <3>3, <3>4
  <2>2. /\ Answered' = Answered /\ Changing' = Changing
        /\ call' \in [Call -> Request \union {Idle}]
        /\ \A d \in Call : call'[d] = IF d = c THEN Fresh("get") ELSE call[d]
        /\ \A d \in Call : call'[d] # Idle => call'[d].load <= load'
    <3>1. /\ Answered' = Answered \ {c} /\ Changing' = Changing \ {c}
          /\ call' \in [Call -> Request \union {Idle}]
          /\ \A d \in Call : call'[d] = IF d = c THEN Fresh("get") ELSE call[d]
          /\ load' = load =>
               \A d \in Call : call'[d] # Idle => call'[d].load <= load'
      BY <2>1, SendOK
    <3> QED BY <2>1, <3>1
  <2>3. CallsOK'
    BY <1>a, <2>1, <2>2 DEF CallsOK
  <2>4. ChangesCounted'
    BY <2>1, <2>2, CountLess
  <2>5. RequestsOK'
    BY <1>a, <2>1, <2>2 DEF RequestsOK
  <2>6. told' \in 0..MaxChanges
    BY <1>a, <1>b, <2>1, <2>4, CountBounds DEF TypeOK
  <2>7. TypeOK'
    BY <1>a, <2>1, <2>3, <2>6 DEF TypeOK, CallsOK
  <2> QED BY <2>4, <2>5, <2>7 DEF IInv
<1>3. ASSUME NEW c \in Call, Identify(c) PROVE IInv'
  <2> DEFINE x == [call[c] EXCEPT !.branch = head]
  <2>1. /\ call[c] \in Request /\ call[c].branch = None /\ c \notin Answered
        /\ call' = [call EXCEPT ![c] = x]
    BY <1>3, <1>a, CallType DEF Identify, RequestsOK
  <2>2. /\ x \in Request /\ x # Idle /\ call[c] # Idle
        /\ x.kind = call[c].kind
        /\ x.load = call[c].load /\ x.reply = call[c].reply
    BY <1>3, <1>a, <2>1, CallType DEF Request, TypeOK, Identify
  <2> HIDE DEF x
  <2>3. /\ call' \in [Call -> Request \union {Idle}]
        /\ call'[c] = x /\ \A d \in Call \ {c} : call'[d] = call[d]
        /\ Answered' = Answered /\ Changing' = Changing
    <3>1. /\ c \in Changing <=> x.kind # "get" /\ x.reply = None
          /\ x.reply = None
      BY <2>1, <2>2 DEF Changing, Answered
    <3>2. /\ call' \in [Call -> Request \union {Idle}]
          /\ call'[c] = x /\ \A d \in Call \ {c} : call'[d] = call[d]
          /\ Changing' = IF x # Idle /\ x.kind # "get" /\ x.reply = None
                         THEN Changing \union {c} ELSE Changing \ {c}
          /\ Answered' = IF x # Idle /\ x.reply # None
                         THEN Answered \union {c} ELSE Answered \ {c}
      BY <1>a, <2>1, <2>2, PutCall
    <3> QED BY <2>1, <2>2, <3>1, <3>2
  <2>4. CallsOK'
    BY <1>3, <1>a, <2>3 DEF CallsOK, Identify
  <2>5. ChangesCounted'
    BY <1>3, <1>a, <2>3, CountLess, Numbers DEF Identify
  <2>6. RequestsOK'
    BY <1>3, <1>a, <2>1, <2>2, <2>3 DEF RequestsOK, Identify
  <2>7. TypeOK'
    BY <1>3, <1>a, <2>4 DEF TypeOK, CallsOK, Identify
  <2> QED BY <2>5, <2>6, <2>7 DEF IInv
<1>4. ASSUME NEW c \in Call, Serve(c) PROVE IInv'
  <2> DEFINE b == call[c].branch
             next == CASE call[c].kind = "get" -> server[b]
                       [] call[c].kind = "put" ->
                            [server[b] EXCEPT !.marks = @ + 1]
                       [] OTHER -> [server[b] EXCEPT !.comments = @ + 1]
             x == [call[c] EXCEPT !.reply = Snapshot(b, next)]
  <2>1. /\ call[c] \in Request /\ call[c].reply = None /\ b \in Branch
        /\ c \notin Answered
        /\ call' = [call EXCEPT ![c] = x]
        /\ server' = [server EXCEPT ![b] = next]
    BY <1>4, <1>a, CallType DEF Serve, Request, Answered
  <2>2. /\ call[c].kind = "get" => server' = server
        /\ call[c].kind = "put" =>
             server' = [server EXCEPT ![b].marks = @ + 1]
        /\ call[c].kind \notin {"get", "put"} =>
             server' = [server EXCEPT ![b].comments = @ + 1]
    BY <1>a, <2>1 DEF TypeOK
  <2>3. server' \in [Branch -> [comments : Nat, marks : Nat]]
    BY <1>b, <2>1
  <2>4. server'[b] = next
    BY <1>b, <2>1
  <2> HIDE DEF next
  <2>5. /\ told' = IF call[c].kind = "get" THEN told ELSE told + 1
        /\ earlier' = [earlier EXCEPT ![c] = Answered]
        /\ UNCHANGED <<head, moved, since, checkouts, load, loading, cache,
                       historyVars, changes, failures>>
    BY <1>4 DEF Serve
  <2>6. told' \in Nat
    BY <1>a, <2>5, Numbers
  <2> DEFINE y == Snapshot(b, next)
  <2>7. /\ x.kind = call[c].kind /\ x.load = call[c].load
        /\ x.branch = b /\ x.reply = y /\ y.comments.of = b
        /\ x \in [kind : {"get", "put", "patch"}, load : 1..(1 + MaxCheckouts),
                  branch : Branch \union {None}, reply : {y}]
    BY <2>1 DEF Request, Snapshot
  <2>8. y \in State
    <3>1. CASE call[c].kind = "get"
      <4>1. next = server[b]
        BY <3>1 DEF next
      <4> QED BY <1>a, <2>1, <4>1 DEF TypeOK, State, Part, Snapshot
    <3>2. CASE call[c].kind # "get"
      <4>1. c \in Changing
        BY <2>1, <1>4, <3>2 DEF Changing, Serve
      <4>2. next = IF call[c].kind = "put"
                   THEN [server[b] EXCEPT !.marks = @ + 1]
                   ELSE [server[b] EXCEPT !.comments = @ + 1]
        BY <3>2 DEF next
      <4>3. /\ server[b].comments + 1 \in 0..MaxChanges
            /\ server[b].marks + 1 \in 0..MaxChanges
        BY <2>1, <4>1, Allowed
      <4>4. next \in [comments : 0..MaxChanges, marks : 0..MaxChanges]
        BY <1>a, <2>1, <4>2, <4>3 DEF TypeOK
      <4> QED BY <2>1, <4>4 DEF State, Part, Snapshot
    <3> QED BY <3>1, <3>2
  <2>9. x \in Request /\ x # Idle /\ y # None
    <3>1. y # None
      BY <2>8, StateMirrorAssumption
    <3>2. x \in Request
      BY <2>7, <2>8 DEF Request
    <3>3. x # Idle
      BY <3>2 DEF Request, Idle
    <3> QED BY <3>1, <3>2, <3>3
  <2> HIDE DEF x, y
  <2>10. /\ call' \in [Call -> Request \union {Idle}]
         /\ call'[c] = x /\ \A d \in Call \ {c} : call'[d] = call[d]
         /\ Changing' = Changing \ {c} /\ Answered' = Answered \union {c}
    BY <1>a, <2>1, <2>7, <2>9, PutCall
  <2>11. CallsOK'
    BY <1>a, <2>5, <2>10 DEF CallsOK
  <2>12. ChangesCounted'
    <3>1. CASE call[c].kind = "get"
      <4>1. c \notin Changing
        BY <3>1 DEF Changing
      <4> QED BY <2>2, <2>5, <2>6, <2>10, <3>1, <4>1, CountLess
    <3>2. CASE call[c].kind # "get"
      <4>1. c \in Changing
        BY <2>1, <1>4, <3>2 DEF Changing, Serve
      <4> QED BY <2>1, <2>2, <2>5, <2>10, <3>2, <4>1, CountServed
    <3> QED BY <3>1, <3>2
  <2>13. RequestsOK'
    <3>1. b # None
      BY <2>1, StateMirrorAssumption
    <3>2. ASSUME NEW d \in Call, call'[d] # Idle PROVE call'[d].load <= load'
      <4>1. call[c] # Idle
        BY <1>4 DEF Serve
      <4> QED BY <1>a, <2>5, <2>7, <2>10, <3>2, <4>1 DEF RequestsOK
    <3>3. ASSUME NEW d \in Answered'
          PROVE  /\ call'[d].branch # None
                 /\ call'[d].reply.comments.of = call'[d].branch
      <4>1. d \in Call
        BY <3>3 DEF Answered
      <4> QED BY <1>a, <2>7, <2>10, <3>1, <3>3, <4>1 DEF RequestsOK
    <3> QED BY <1>a, <2>5, <3>2, <3>3 DEF RequestsOK
  <2>14. /\ told' \in 0..MaxChanges
         /\ server' \in [Branch -> [comments : 0..MaxChanges,
                                    marks : 0..MaxChanges]]
    BY <1>a, <2>3, <2>5, <2>6, <2>12, CountBounds DEF TypeOK
  <2>15. TypeOK'
    BY <1>a, <2>5, <2>11, <2>14 DEF TypeOK, CallsOK
  <2> QED BY <2>12, <2>13, <2>15 DEF IInv
<1>5. ASSUME NEW c \in Call,
             ReceiveState(c) \/ ReceiveMarks(c) \/ ReceiveAck(c) \/ Fail(c)
      PROVE  IInv'
  <2>1. /\ \/ call' = [call EXCEPT ![c] = Idle]
           \/ call' = [call EXCEPT ![c] = Fresh("get")]
        /\ Drop(c)
        /\ UNCHANGED <<serverVars, told, loadVars, changes>>
    BY <1>5 DEF ReceiveState, ReceiveMarks, ReceiveAck, Fail
  <2>2. PICK x \in {Idle, Fresh("get")} : call' = [call EXCEPT ![c] = x]
    BY <2>1
  <2>3. /\ x \in Request \union {Idle}
        /\ x # Idle => /\ x.kind = "get" /\ x.reply = None
                       /\ x.load = load
    <3>1. /\ Fresh("get") \in Request /\ Fresh("get").kind = "get"
          /\ Fresh("get").reply = None /\ Fresh("get").load = load
      BY <1>a, FreshType
    <3> HIDE DEF Fresh
    <3> QED BY <2>2, <3>1
  <2>4. /\ call' \in [Call -> Request \union {Idle}]
        /\ call'[c] = x /\ \A d \in Call \ {c} : call'[d] = call[d]
        /\ Changing' = Changing \ {c} /\ Answered' = Answered \ {c}
    <3>1. /\ call' \in [Call -> Request \union {Idle}]
          /\ call'[c] = x /\ \A d \in Call \ {c} : call'[d] = call[d]
          /\ Changing' = IF x # Idle /\ x.kind # "get" /\ x.reply = None
                         THEN Changing \union {c} ELSE Changing \ {c}
          /\ Answered' = IF x # Idle /\ x.reply # None
                         THEN Answered \union {c} ELSE Answered \ {c}
      BY <1>a, <2>2, <2>3, PutCall
    <3> QED BY <2>3, <3>1
  <2>5. CallsOK'
    <3>1. Leave(c) \/ TakeIn(c, TRUE) \/ TakeIn(c, FALSE)
      BY <1>5 DEF ReceiveState, ReceiveMarks, ReceiveAck, Fail
    <3>2. late' \subseteq Answered' /\ setback' \in BOOLEAN
      <4>1. late \subseteq Answered /\ earlier[c] \subseteq Answered
        BY <1>a DEF CallsOK
      <4>2. setback \in BOOLEAN
        BY <1>a DEF CallsOK
      <4>3. late' \subseteq (late \union earlier[c]) \ {c}
        BY <3>1 DEF Leave, TakeIn
      <4>4. setback' \in BOOLEAN
        BY <3>1, <4>2 DEF Leave, TakeIn
      <4> QED BY <2>4, <4>1, <4>3, <4>4
    <3> QED BY <1>a, <2>1, <2>4, <3>2, DropType DEF CallsOK
  <2>6. ChangesCounted'
    BY <1>a, <2>1, <2>4, CountLess, Numbers
  <2>7. RequestsOK'
    <3>1. ASSUME NEW d \in Call, call'[d] # Idle PROVE call'[d].load <= load'
      BY <1>a, <2>1, <2>3, <2>4, <3>1, Numbers DEF RequestsOK
    <3>2. ASSUME NEW d \in Answered'
          PROVE  /\ call'[d].branch # None
                 /\ call'[d].reply.comments.of = call'[d].branch
      <4>1. d \in Call
        BY <3>2 DEF Answered
      <4> QED BY <1>a, <2>4, <3>2, <4>1 DEF RequestsOK
    <3>3. load' + (IF moved' THEN 1 ELSE 0) <= 1 + checkouts'
      BY <1>a, <2>1 DEF RequestsOK
    <3> QED BY <3>1, <3>2, <3>3 DEF RequestsOK
  <2>8. cache' \in State \union {None}
    <3>1. CASE ReceiveState(c)
      <4>1. call[c] \in Request
        BY <3>1, <1>a, CallType DEF ReceiveState, Answered
      <4> QED BY <3>1, <4>1, <1>a DEF ReceiveState, Replace, TypeOK, Request
    <3>2. CASE ReceiveMarks(c)
      <4>1. call[c].reply \in State
        BY <3>2, <1>a, CallType DEF ReceiveMarks, Answered, Request
      <4>2. cache # None => cache \in State
        BY <1>a DEF TypeOK
      <4>3. CASE cache = None
        BY <3>2, <4>3 DEF ReceiveMarks
      <4>4. CASE cache # None
        BY <3>2, <4>1, <4>2, <4>4 DEF ReceiveMarks, ApplyMarks, State
      <4> QED BY <4>3, <4>4
    <3>3. CASE ReceiveAck(c) \/ Fail(c)
      BY <3>3, <1>a DEF ReceiveAck, Fail, TypeOK
    <3> QED BY <1>5, <3>1, <3>2, <3>3
  <2>9. failures' \in 0..MaxFailures
    <3>1. \/ failures' = failures
          \/ failures < MaxFailures /\ failures' = failures + 1
      BY <1>5 DEF ReceiveState, ReceiveMarks, ReceiveAck, Fail
    <3>2. failures \in 0..MaxFailures
      BY <1>a DEF TypeOK
    <3> QED BY <1>b, <3>1, <3>2
  <2>10. TypeOK'
    BY <1>a, <2>1, <2>5, <2>8, <2>9 DEF TypeOK, CallsOK
  <2> QED BY <2>6, <2>7, <2>10 DEF IInv
<1>6. ASSUME Agent PROVE IInv'
  <2>1. Changing' = Changing /\ Answered' = Answered
    BY <1>6 DEF Agent, Changing, Answered
  <2>2. ChangesCounted'
    BY <1>6, <2>1, CountOne DEF Agent
  <2>3. changes' \in 0..MaxChanges /\ told' \in Nat
    BY <1>6, <1>a, <1>b, Numbers DEF Agent
  <2>4. server' \in [Branch -> [comments : Nat, marks : Nat]]
    BY <1>6, <1>a, <1>b DEF Agent, TypeOK
  <2>5. /\ told' \in 0..MaxChanges
        /\ server' \in [Branch -> [comments : 0..MaxChanges,
                                   marks : 0..MaxChanges]]
    BY <2>2, <2>3, <2>4, CountBounds
  <2>6. TypeOK'
    BY <1>6, <1>a, <2>1, <2>3, <2>5 DEF TypeOK, Agent
  <2>7. RequestsOK'
    BY <1>6, <1>a, <2>1 DEF RequestsOK, Agent
  <2> QED BY <2>2, <2>6, <2>7 DEF IInv
<1>7. ASSUME (\E b \in Branch : Checkout(b)) \/ Reload PROVE IInv'
  <2>1. /\ Changing' = Changing /\ Answered' = Answered
        /\ UNCHANGED <<server, told, call, earlier, historyVars, counters>>
    BY <1>7 DEF Checkout, Reload, Changing, Answered
  <2>2. ChangesCounted'
    BY <1>a, <2>1 DEF ChangesCounted
  <2>3. /\ load' \in Nat /\ checkouts' \in 0..MaxCheckouts
        /\ load <= load' /\ moved' \in BOOLEAN
        /\ load' + (IF moved' THEN 1 ELSE 0) <= 1 + checkouts'
    <3>1. CASE Reload
      <4>1. /\ moved /\ moved' = FALSE /\ load' = load + 1
            /\ checkouts' = checkouts
        BY <3>1 DEF Reload
      <4>2. load + 1 <= 1 + checkouts
        BY <1>a, <4>1 DEF RequestsOK
      <4>3. load \in Nat /\ checkouts \in 0..MaxCheckouts
        BY <1>a, Numbers DEF TypeOK
      <4>4. load' \in Nat /\ load <= load' /\ checkouts' \in 0..MaxCheckouts
        BY <4>1, <4>3
      <4>5. load' + 0 <= 1 + checkouts'
        BY <4>1, <4>2, <4>3
      <4> QED BY <4>1, <4>4, <4>5
    <3>2. CASE \E b \in Branch : Checkout(b)
      BY <3>2, <1>a, <1>b, Numbers DEF Checkout, RequestsOK, TypeOK
    <3> QED BY <1>7, <3>1, <3>2
  <2>4. load' \in 1..(1 + MaxCheckouts)
    <3> DEFINE l == load'
               k == checkouts'
               m == IF moved' THEN 1 ELSE 0
    <3>1. load \in Nat /\ load >= 1
      BY <1>a, <1>b DEF TypeOK
    <3>2. l \in Nat /\ k \in 0..MaxCheckouts /\ m \in Nat /\ l + m <= 1 + k
          /\ load <= l
      BY <2>3
    <3> HIDE DEF l, k, m
    <3>3. l \in 1..(1 + MaxCheckouts)
      BY <1>b, <3>1, <3>2
    <3> QED BY <3>3 DEF l
  <2>5. RequestsOK'
    <3>1. \A c \in Call : call[c] # Idle => call[c].load \in Nat
      BY <1>a, CallType DEF Request
    <3>2. ASSUME NEW d \in Call, call'[d] # Idle PROVE call'[d].load <= load'
      BY <1>a, <2>1, <2>3, <3>1, <3>2, Numbers DEF RequestsOK
    <3>3. ASSUME NEW d \in Answered'
          PROVE  /\ call'[d].branch # None
                 /\ call'[d].reply.comments.of = call'[d].branch
      BY <1>a, <2>1, <3>3 DEF RequestsOK
    <3> QED BY <2>3, <3>2, <3>3 DEF RequestsOK
  <2>6. TypeOK'
    <3>1. /\ head' \in Branch /\ since' \subseteq Branch
          /\ loading' \in BOOLEAN /\ cache' \in State \union {None}
      BY <1>7, <1>a DEF Checkout, Reload, TypeOK
    <3> QED BY <1>a, <2>1, <2>3, <2>4, <3>1 DEF TypeOK
  <2> QED BY <2>2, <2>5, <2>6 DEF IInv
<1>8. CASE UNCHANGED vars
  BY <1>8 DEF vars, IInv, TypeOK, ChangesCounted, RequestsOK, Changing, Answered
<1> QED BY <1>1, <1>2, <1>3, <1>4, <1>5, <1>6, <1>7, <1>8 DEF Next, Step

(* Every variable keeps its type, for any branches, requests and bounds.    *)
THEOREM TypeCorrect == Spec => []TypeOK
<1>1. IInv => TypeOK
  BY DEF IInv
<1> QED BY <1>1, InitIInv, NextIInv, PTL DEF Spec

-----------------------------------------------------------------------------
(* What is shown is of a branch that was checked out since the load began:  *)
(* so is what a refresh of this load is identified on.                      *)
RefreshesSince ==
  /\ head \in since
  /\ \A c \in Call :
       call[c] # Idle /\ call[c].kind = "get" /\ call[c].load = load =>
         call[c].branch \in since \union {None}

SinceInv == IInv /\ RefreshesSince /\ CommentsOfShownBranch

(* A step that sends nothing new but requests not identified yet, and shows *)
(* no other comments.                                                       *)
LEMMA SinceKept ==
  ASSUME SinceInv, load' = load, head' \in since', since \subseteq since',
         \A c \in Call : \/ call'[c] = call[c]
                         \/ call'[c] = Idle
                         \/ \E kind \in {"get", "put", "patch"} :
                              call'[c] = Fresh(kind),
         cache' # None => cache # None /\ cache'.comments.of = cache.comments.of
  PROVE  RefreshesSince' /\ CommentsOfShownBranch'
<1>1. CommentsOfShownBranch'
  BY DEF SinceInv, CommentsOfShownBranch
<1>2. ASSUME NEW c \in Call, call'[c] # Idle, call'[c].kind = "get",
             call'[c].load = load
      PROVE  call'[c].branch \in since' \union {None}
  <2>1. CASE call'[c] = call[c]
    BY <1>2, <2>1 DEF SinceInv, RefreshesSince
  <2>2. CASE \E kind \in {"get", "put", "patch"} : call'[c] = Fresh(kind)
    BY <2>2 DEF Fresh
  <2> QED BY <1>2, <2>1, <2>2
<1> QED BY <1>1, <1>2 DEF RefreshesSince

LEMMA NextSince == SinceInv /\ [Next]_vars => SinceInv'
<1> SUFFICES ASSUME SinceInv, [Next]_vars
             PROVE  RefreshesSince' /\ CommentsOfShownBranch'
  BY NextIInv DEF SinceInv
<1> USE DEF serverVars, loadVars, counters, historyVars
<1>a. IInv /\ TypeOK /\ RefreshesSince /\ CommentsOfShownBranch /\ RequestsOK
  BY DEF SinceInv, IInv
<1>b. head \in since
  BY <1>a DEF RefreshesSince
<1>1. ASSUME NEW c \in Call, NEW kind \in {"get", "put", "patch"},
             Change(c, kind) \/ Notice(c) \/ Hydrate(c)
      PROVE  RefreshesSince' /\ CommentsOfShownBranch'
  <2>1. /\ \E k \in {"get", "put", "patch"} :
             call' = [call EXCEPT ![c] = Fresh(k)]
        /\ UNCHANGED <<load, head, since, cache>>
    BY <1>1 DEF Change, Notice, Hydrate, Send
  <2>2. \A d \in Call : \/ call'[d] = call[d]
                        \/ \E k \in {"get", "put", "patch"} :
                             call'[d] = Fresh(k)
    <3> HIDE DEF Fresh
    <3> QED BY <1>a, <2>1 DEF TypeOK
  <2> QED BY <1>b, <2>1, <2>2, SinceKept
<1>2. ASSUME NEW c \in Call, Identify(c) \/ Serve(c)
      PROVE  RefreshesSince' /\ CommentsOfShownBranch'
  <2>1. /\ UNCHANGED <<load, head, since, cache>>
        /\ \A d \in Call \ {c} : call'[d] = call[d]
        /\ call[c] \in Request /\ call[c] # Idle
    BY <1>2, <1>a, CallType DEF Identify, Serve, TypeOK
  <2>2. /\ call'[c].kind = call[c].kind /\ call'[c].load = call[c].load
        /\ call'[c].branch = call[c].branch \/ call'[c].branch = head
    <3>1. CASE Identify(c)
      <4>1. call' = [call EXCEPT ![c] = [call[c] EXCEPT !.branch = head]]
        BY <3>1, <1>a DEF Identify, TypeOK
      <4> QED BY <1>a, <2>1, <4>1 DEF TypeOK, Request
    <3>2. CASE Serve(c)
      <4>1. PICK y : call' = [call EXCEPT ![c] = [call[c] EXCEPT !.reply = y]]
        BY <3>2, <1>a DEF Serve, TypeOK
      <4> QED BY <1>a, <2>1, <4>1 DEF TypeOK, Request
    <3> QED BY <1>2, <3>1, <3>2
  <2>3. ASSUME NEW d \in Call, call'[d] # Idle, call'[d].kind = "get",
               call'[d].load = load
        PROVE  call'[d].branch \in since \union {None}
    BY <1>a, <1>b, <2>1, <2>2, <2>3 DEF RefreshesSince
  <2> QED BY <1>a, <2>1, <2>3 DEF RefreshesSince, CommentsOfShownBranch
<1>3. ASSUME NEW c \in Call, ReceiveState(c)
      PROVE  RefreshesSince' /\ CommentsOfShownBranch'
  <2>1. /\ call' = [call EXCEPT ![c] = Idle] /\ c \in Answered
        /\ call[c].kind = "get" /\ call[c] # Idle
        /\ UNCHANGED <<load, head, since>>
        /\ cache' = IF call[c].load = load THEN call[c].reply ELSE cache
    BY <1>3 DEF ReceiveState, Answered, Replace
  <2>2. call[c].load = load => call[c].reply.comments.of \in since
    BY <1>a, <2>1 DEF RequestsOK, RefreshesSince
  <2>3. CommentsOfShownBranch'
    BY <1>a, <2>1, <2>2 DEF CommentsOfShownBranch
  <2>4. \A d \in Call : call'[d] = call[d] \/ call'[d] = Idle
    BY <1>a, <2>1 DEF TypeOK
  <2> QED BY <1>a, <2>1, <2>3, <2>4 DEF RefreshesSince
<1>4. ASSUME NEW c \in Call, ReceiveMarks(c) \/ ReceiveAck(c) \/ Fail(c)
      PROVE  RefreshesSince' /\ CommentsOfShownBranch'
  <2>1. /\ \/ call' = [call EXCEPT ![c] = Idle]
           \/ call' = [call EXCEPT ![c] = Fresh("get")]
        /\ UNCHANGED <<load, head, since>>
        /\ \/ cache' = cache
           \/ cache # None /\ cache' = ApplyMarks(call[c].reply.marks)
    <3> HIDE DEF Fresh, ApplyMarks, Idle
    <3>1. CASE ReceiveMarks(c)
      BY <3>1 DEF ReceiveMarks
    <3>2. CASE ReceiveAck(c) \/ Fail(c)
      BY <3>2 DEF ReceiveAck, Fail
    <3> QED BY <1>4, <3>1, <3>2
  <2>2. cache' # None => cache # None /\ cache'.comments.of = cache.comments.of
    <3>1. cache # None => cache \in State
      BY <1>a DEF TypeOK
    <3> QED BY <2>1, <3>1 DEF ApplyMarks, State
  <2>3. \A d \in Call : \/ call'[d] = call[d] \/ call'[d] = Idle
                        \/ \E k \in {"get", "put", "patch"} :
                             call'[d] = Fresh(k)
    <3> HIDE DEF Fresh
    <3> QED BY <1>a, <2>1 DEF TypeOK
  <2> QED BY <1>b, <2>1, <2>2, <2>3, SinceKept
<1>5. ASSUME Agent \/ (\E b \in Branch : Checkout(b)) \/ UNCHANGED vars
      PROVE  RefreshesSince' /\ CommentsOfShownBranch'
  <2>1. /\ UNCHANGED <<load, call, cache>>
        /\ head' \in since' /\ since \subseteq since'
    BY <1>5, <1>b DEF Agent, Checkout, vars
  <2> QED BY <2>1, SinceKept
<1>6. ASSUME Reload PROVE RefreshesSince' /\ CommentsOfShownBranch'
  <2>1. /\ load' = load + 1 /\ since' = {head} /\ cache' = None
        /\ call' = call /\ head' = head
    BY <1>6 DEF Reload
  <2>2. \A c \in Call : call[c] # Idle => call[c].load # load'
    <3>1. \A c \in Call : call[c] # Idle => /\ call[c].load \in Nat
                                            /\ call[c].load <= load
      BY <1>a, CallType DEF RequestsOK, Request
    <3> QED BY <1>a, <2>1, <3>1, Numbers
  <2> QED BY <2>1, <2>2 DEF RefreshesSince, CommentsOfShownBranch
<1> QED BY <1>1, <1>2, <1>3, <1>4, <1>5, <1>6 DEF Next, Step

(* However late a refresh returns, the comments shown with a diff are not   *)
(* those of a branch that was left before the diff was loaded, whatever the *)
(* order of the answers.                                                    *)
THEOREM ShownBranch == Spec => []CommentsOfShownBranch
<1>1. Init => SinceInv
  <2>1. Init => RefreshesSince /\ CommentsOfShownBranch
    BY DEF Init, RefreshesSince, CommentsOfShownBranch
  <2> QED BY <2>1, InitIInv DEF SinceInv
<1>2. SinceInv => CommentsOfShownBranch
  BY DEF SinceInv
<1> QED BY <1>1, <1>2, NextSince, PTL DEF Spec

-----------------------------------------------------------------------------
(* Nothing that is shown or under way is ahead of the server; of two        *)
(* answers under way the one read later is no older, and none that is not   *)
(* late is older than what is shown.                                        *)
Behind(state, ages) ==
  /\ state.comments.age <= ages[state.comments.of].comments
  /\ state.marks.age <= ages[state.marks.of].marks

NotAfter(state, next) ==
  /\ NoOlder(state.comments, next.comments)
  /\ NoOlder(state.marks, next.marks)

AnswersInOrder ==
  /\ \A c \in Answered : Behind(call[c].reply, server)
  /\ cache # None => /\ Behind(cache, server)
                     /\ \A c \in Answered \ late : NotAfter(cache, call[c].reply)
  /\ \A c, d \in Answered : c = d \/ c \in earlier[d] \/ d \in earlier[c]
  /\ \A d \in Answered : \A c \in earlier[d] :
       NotAfter(call[c].reply, call[d].reply)

OrderInv == IInv /\ AnswersInOrder

LEMMA StateType ==
  ASSUME NEW s \in State
  PROVE  /\ s.comments.of \in Branch /\ s.comments.age \in Nat
         /\ s.marks.of \in Branch /\ s.marks.age \in Nat
  BY StateMirrorAssumption DEF State, Part

LEMMA AnsweredType ==
  ASSUME TypeOK
  PROVE  /\ \A c \in Answered : c \in Call /\ call[c].reply \in State
         /\ \A d \in Call : earlier[d] \subseteq Answered
         /\ cache # None => cache \in State
<1>1. ASSUME NEW c \in Answered PROVE c \in Call /\ call[c].reply \in State
  <2>1. c \in Call /\ call[c] # Idle /\ call[c].reply # None
    BY DEF Answered
  <2>2. call[c] \in Request
    BY <2>1, CallType
  <2> QED BY <2>1, <2>2 DEF Request
<1> QED BY <1>1 DEF TypeOK

(* A step that answers nothing, brings nothing and loses no change. *)
LEMMA OrderKept ==
  ASSUME OrderInv, Answered' = Answered, earlier' = earlier, late' = late,
         \A c \in Answered : call'[c].reply = call[c].reply,
         cache' = cache \/ cache' = None,
         \A b \in Branch : /\ server'[b].comments \in Nat
                           /\ server'[b].marks \in Nat
                           /\ server[b].comments <= server'[b].comments
                           /\ server[b].marks <= server'[b].marks
  PROVE  AnswersInOrder'
<1>1. TypeOK /\ AnswersInOrder
  BY DEF OrderInv, IInv
<1>2. ASSUME NEW s \in State, Behind(s, server) PROVE Behind(s, server')
  BY <1>1, <1>2, StateType, Numbers DEF Behind
<1>3. \A c \in Answered : Behind(call'[c].reply, server')
  BY <1>1, <1>2, AnsweredType DEF AnswersInOrder
<1>4. cache' # None => /\ Behind(cache', server')
                       /\ \A c \in Answered \ late :
                            NotAfter(cache', call'[c].reply)
  BY <1>1, <1>2, AnsweredType DEF AnswersInOrder
<1>5. \A d \in Answered : \A c \in earlier[d] :
        NotAfter(call'[c].reply, call'[d].reply)
  <2>1. \A d \in Answered : \A c \in earlier[d] : c \in Answered
    BY <1>1, AnsweredType
  <2> QED BY <1>1, <2>1 DEF AnswersInOrder
<1> QED BY <1>1, <1>3, <1>4, <1>5 DEF AnswersInOrder

(* What a step of the server does to the answers under way. *)
LEMMA ServeEffect ==
  ASSUME OrderInv, NEW c \in Call, Serve(c), IInv'
  PROVE  /\ c \notin Answered /\ Answered' = Answered \union {c}
         /\ call'[c].reply = Snapshot(call[c].branch, server'[call[c].branch])
         /\ \A d \in Answered : call'[d].reply = call[d].reply
         /\ \A b \in Branch : /\ server[b].comments <= server'[b].comments
                              /\ server[b].marks <= server'[b].marks
<1> DEFINE b == call[c].branch
           next == CASE call[c].kind = "get" -> server[b]
                     [] call[c].kind = "put" ->
                          [server[b] EXCEPT !.marks = @ + 1]
                     [] OTHER -> [server[b] EXCEPT !.comments = @ + 1]
           y == Snapshot(b, next)
<1>a. TypeOK /\ TypeOK'
  BY DEF OrderInv, IInv
<1>1. /\ call[c] \in Request /\ call[c].reply = None /\ b \in Branch
      /\ c \notin Answered
      /\ call' = [call EXCEPT ![c] = [call[c] EXCEPT !.reply = y]]
      /\ server' = [server EXCEPT ![b] = next]
  BY <1>a, CallType DEF Serve, Request, Answered, TypeOK
<1>2. /\ next.comments \in {server[b].comments, server[b].comments + 1}
      /\ next.marks \in {server[b].marks, server[b].marks + 1}
  <2>1. server[b] \in [comments : 0..MaxChanges, marks : 0..MaxChanges]
    BY <1>a, <1>1 DEF TypeOK
  <2>2. CASE call[c].kind = "get"
    BY <2>2
  <2>3. CASE call[c].kind = "put"
    <3>1. next = [server[b] EXCEPT !.marks = @ + 1]
      BY <2>3
    <3> QED BY <2>1, <3>1
  <2>4. CASE call[c].kind \notin {"get", "put"}
    <3>1. next = [server[b] EXCEPT !.comments = @ + 1]
      BY <2>4
    <3> QED BY <2>1, <3>1
  <2> QED BY <2>2, <2>3, <2>4
<1>3. server'[b] = next /\ \A a \in Branch \ {b} : server'[a] = server[a]
  BY <1>a, <1>1 DEF TypeOK
<1> HIDE DEF next
<1>4. call'[c].reply = y /\ \A d \in Call \ {c} : call'[d] = call[d]
  <2>1. call'[c] = [call[c] EXCEPT !.reply = y]
    BY <1>a, <1>1 DEF TypeOK
  <2> HIDE DEF y
  <2> QED BY <1>a, <1>1, <2>1 DEF TypeOK, Request
<1>5. Answered' = Answered \union {c}
  <2>1. y # None
    <3>1. server'[b] \in [comments : 0..MaxChanges, marks : 0..MaxChanges]
      BY <1>a, <1>1 DEF TypeOK
    <3>2. y \in State
      BY <1>1, <1>3, <3>1 DEF Snapshot, State, Part
    <3> QED BY <3>2, StateMirrorAssumption
  <2>2. call'[c] # Idle
    <3>1. call'[c] = [call[c] EXCEPT !.reply = y]
      BY <1>a, <1>1 DEF TypeOK
    <3> HIDE DEF y
    <3> QED BY <1>1, <3>1 DEF Request, Idle
  <2> QED BY <1>4, <2>1, <2>2 DEF Answered
<1>6. \A a \in Branch : /\ server[a].comments <= server'[a].comments
                        /\ server[a].marks <= server'[a].marks
  BY <1>a, <1>1, <1>2, <1>3, Numbers
<1>7. \A d \in Answered : call'[d].reply = call[d].reply
  BY <1>1, <1>4 DEF Answered
<1> QED BY <1>1, <1>3, <1>4, <1>5, <1>6, <1>7

LEMMA ServeOrder ==
  ASSUME OrderInv, NEW c \in Call, Serve(c), IInv'
  PROVE  AnswersInOrder'
<1> DEFINE b == call[c].branch
           y == Snapshot(b, server'[b])
<1>a. TypeOK /\ TypeOK' /\ AnswersInOrder
  BY DEF OrderInv, IInv
<1>1. /\ c \notin Answered /\ Answered' = Answered \union {c}
      /\ call'[c].reply = y
      /\ \A d \in Answered : call'[d].reply = call[d].reply
      /\ \A a \in Branch : /\ server[a].comments <= server'[a].comments
                           /\ server[a].marks <= server'[a].marks
  BY ServeEffect
<1>2. /\ b \in Branch /\ cache' = cache /\ late' = late
      /\ earlier'[c] = Answered
      /\ \A d \in Call \ {c} : earlier'[d] = earlier[d]
  BY <1>a, CallType DEF Serve, TypeOK, Request, historyVars
<1>3. \A a \in Branch : /\ server[a].comments \in Nat /\ server[a].marks \in Nat
                        /\ server'[a].comments \in Nat
                        /\ server'[a].marks \in Nat
  <2>1. \A a \in Branch :
          server'[a] \in [comments : 0..MaxChanges, marks : 0..MaxChanges]
    BY <1>a DEF TypeOK
  <2> QED BY <1>a, <2>1, Numbers
<1>4. /\ y.comments.of = b /\ y.comments.age = server'[b].comments
      /\ y.marks.of = b /\ y.marks.age = server'[b].marks
  BY DEF Snapshot
<1> HIDE DEF y
<1>5. Behind(y, server')
  BY <1>2, <1>3, <1>4 DEF Behind
<1>6. ASSUME NEW s \in State, Behind(s, server)
      PROVE  Behind(s, server') /\ NotAfter(s, y)
  BY <1>1, <1>2, <1>3, <1>4, <1>6, StateType DEF Behind, NotAfter, NoOlder
<1>7. \A d \in Answered' : Behind(call'[d].reply, server')
  BY <1>a, <1>1, <1>5, <1>6, AnsweredType DEF AnswersInOrder
<1>8. cache' # None =>
        /\ Behind(cache', server')
        /\ \A d \in Answered' \ late' : NotAfter(cache', call'[d].reply)
  BY <1>a, <1>1, <1>2, <1>6, AnsweredType DEF AnswersInOrder
<1>9. \A d, e \in Answered' : d = e \/ d \in earlier'[e] \/ e \in earlier'[d]
  BY <1>a, <1>1, <1>2, AnsweredType DEF AnswersInOrder
<1>10. ASSUME NEW d \in Answered', NEW e \in earlier'[d]
       PROVE  NotAfter(call'[e].reply, call'[d].reply)
  <2>1. CASE d = c
    BY <1>a, <1>1, <1>2, <1>6, <1>10, <2>1, AnsweredType DEF AnswersInOrder
  <2>2. CASE d # c
    <3>1. d \in Answered /\ e \in earlier[d] /\ e \in Answered
      BY <1>a, <1>1, <1>2, <1>10, <2>2, AnsweredType
    <3> QED BY <1>a, <1>1, <3>1 DEF AnswersInOrder
  <2> QED BY <2>1, <2>2
<1> QED BY <1>7, <1>8, <1>9, <1>10 DEF AnswersInOrder

(* What the end of a request does to them, and to what is shown. *)
LEMMA EndEffect ==
  ASSUME OrderInv, NEW c \in Call,
         ReceiveState(c) \/ ReceiveMarks(c) \/ ReceiveAck(c) \/ Fail(c)
  PROVE  /\ Answered' = Answered \ {c} /\ Drop(c) /\ server' = server
         /\ \A d \in Answered' : call'[d].reply = call[d].reply
         /\ \/ cache' = cache /\ late' = late \ {c}
            \/ /\ c \in Answered /\ late' = (late \union earlier[c]) \ {c}
               /\ \/ cache' = call[c].reply
                  \/ /\ cache # None
                     /\ cache' = ApplyMarks(call[c].reply.marks)
<1>a. TypeOK
  BY DEF OrderInv, IInv
<1>1. /\ \/ call' = [call EXCEPT ![c] = Idle]
         \/ call' = [call EXCEPT ![c] = Fresh("get")]
      /\ Drop(c) /\ server' = server
  <2> HIDE DEF Fresh, ApplyMarks, Idle
  <2> QED BY DEF ReceiveState, ReceiveMarks, ReceiveAck, Fail, serverVars
<1>2. \/ cache' = cache /\ late' = late \ {c}
      \/ /\ c \in Answered /\ late' = (late \union earlier[c]) \ {c}
         /\ \/ cache' = call[c].reply
            \/ /\ cache # None
               /\ cache' = ApplyMarks(call[c].reply.marks)
  <2>1. CASE ReceiveState(c)
    BY <2>1 DEF ReceiveState, Replace, TakeIn, Leave
  <2>2. CASE ReceiveMarks(c)
    BY <2>2 DEF ReceiveMarks, TakeIn, Leave
  <2>3. CASE ReceiveAck(c) \/ Fail(c)
    BY <2>3 DEF ReceiveAck, Fail, Leave
  <2> QED BY <2>1, <2>2, <2>3
<1>3. PICK x \in {Idle, Fresh("get")} : call' = [call EXCEPT ![c] = x]
  BY <1>1
<1>4. x = Idle \/ x.reply = None
  BY <1>3 DEF Fresh
<1>5. call'[c] = x /\ \A d \in Call \ {c} : call'[d] = call[d]
  BY <1>a, <1>3 DEF TypeOK
<1>6. Answered' = Answered \ {c}
  BY <1>4, <1>5 DEF Answered
<1> QED BY <1>1, <1>2, <1>5, <1>6 DEF Answered

LEMMA EndOrder ==
  ASSUME OrderInv, NEW c \in Call,
         ReceiveState(c) \/ ReceiveMarks(c) \/ ReceiveAck(c) \/ Fail(c)
  PROVE  /\ AnswersInOrder'
         /\ cache # None /\ cache' # None /\ late \subseteq Answered' =>
              NotAfter(cache, cache')
<1>a. TypeOK /\ AnswersInOrder
  BY DEF OrderInv, IInv
<1>1. /\ Answered' = Answered \ {c} /\ Drop(c) /\ server' = server
      /\ \A d \in Answered' : call'[d].reply = call[d].reply
  BY EndEffect
<1>2. \A d \in Call : /\ d # c => earlier'[d] = earlier[d] \ {c}
                      /\ earlier'[c] = {}
  BY <1>1 DEF Drop
<1>3. cache' # None =>
        /\ Behind(cache', server)
        /\ \A d \in Answered' \ late' : NotAfter(cache', call[d].reply)
        /\ cache # None /\ c \notin late => NotAfter(cache, cache')
  <2>1. CASE cache' = cache /\ late' = late \ {c}
    <3>1. cache # None => cache \in State
      BY <1>a, AnsweredType
    <3>2. Answered' \ late' \subseteq Answered \ late
      BY <1>1, <2>1
    <3> QED
      BY <1>a, <2>1, <3>1, <3>2, StateType DEF AnswersInOrder, NotAfter, NoOlder
  <2>2. CASE c \in Answered /\ late' = (late \union earlier[c]) \ {c}
    <3> DEFINE y == call[c].reply
    <3>1. /\ y \in State /\ Behind(y, server)
          /\ cache # None => cache \in State
          /\ cache # None /\ c \notin late => NotAfter(cache, y)
      BY <1>a, <2>2, AnsweredType DEF AnswersInOrder
    <3>2. ASSUME NEW d \in Answered' \ late'
          PROVE  /\ d \in Answered \ late
                 /\ NotAfter(y, call[d].reply)
      <4>1. d \in Answered \ late /\ d # c /\ d \notin earlier[c]
        BY <1>1, <2>2, <3>2
      <4>2. c \in earlier[d]
        BY <1>a, <2>2, <4>1 DEF AnswersInOrder
      <4> QED BY <1>a, <4>1, <4>2 DEF AnswersInOrder
    <3> HIDE DEF y
    <3>3. CASE cache' = y
      BY <3>1, <3>2, <3>3
    <3>4. CASE cache # None /\ cache' = ApplyMarks(y.marks)
      <4>1. cache'.comments = cache.comments /\ cache'.marks = y.marks
        BY <3>1, <3>4 DEF ApplyMarks, State
      <4>2. Behind(cache', server)
        BY <1>a, <3>1, <3>4, <4>1 DEF AnswersInOrder, Behind
      <4>3. \A d \in Answered' \ late' : NotAfter(cache', call[d].reply)
        BY <1>a, <3>2, <3>4, <4>1 DEF AnswersInOrder, NotAfter
      <4>4. c \notin late => NotAfter(cache, cache')
        BY <3>1, <3>4, <4>1, StateType DEF NotAfter, NoOlder
      <4> QED BY <4>2, <4>3, <4>4
    <3>5. \/ cache' = cache /\ late' = late \ {c}
          \/ cache' = y
          \/ cache # None /\ cache' = ApplyMarks(y.marks)
      BY EndEffect DEF y
    <3> QED BY <2>1, <3>3, <3>4, <3>5
  <2> QED BY <2>1, <2>2, EndEffect
<1>4. \A d \in Answered' : Behind(call'[d].reply, server')
  BY <1>a, <1>1 DEF AnswersInOrder
<1>5. \A d, e \in Answered' : d = e \/ d \in earlier'[e] \/ e \in earlier'[d]
  BY <1>a, <1>1, <1>2, AnsweredType DEF AnswersInOrder
<1>6. ASSUME NEW d \in Answered', NEW e \in earlier'[d]
      PROVE  NotAfter(call'[e].reply, call'[d].reply)
  <2>1. d \in Answered /\ e \in earlier[d] /\ e \in Answered'
    BY <1>a, <1>1, <1>2, <1>6, AnsweredType
  <2> QED BY <1>a, <1>1, <2>1 DEF AnswersInOrder
<1>7. AnswersInOrder'
  BY <1>1, <1>3, <1>4, <1>5, <1>6 DEF AnswersInOrder
<1>8. late \subseteq Answered' => c \notin late
  BY <1>1
<1> QED BY <1>3, <1>7, <1>8

(* Every other step leaves the answers under way as they are. *)
LEMMA QuietOrder ==
  ASSUME OrderInv,
         \/ \E c \in Call, kind \in {"put", "patch"} : Change(c, kind)
         \/ \E c \in Call : Notice(c) \/ Hydrate(c) \/ Identify(c)
         \/ Agent \/ (\E b \in Branch : Checkout(b)) \/ Reload \/ UNCHANGED vars
  PROVE  AnswersInOrder' /\ (cache' = cache \/ cache' = None)
<1> USE DEF serverVars, loadVars, counters, historyVars
<1>a. TypeOK /\ IInv
  BY DEF OrderInv, IInv
<1>1. CASE \E c \in Call : \/ \E kind \in {"put", "patch"} : Change(c, kind)
                           \/ Notice(c) \/ Hydrate(c)
  <2>1. PICK c \in Call, kind \in {"get", "put", "patch"} :
          /\ call[c] = Idle /\ call' = [call EXCEPT ![c] = Fresh(kind)]
          /\ UNCHANGED <<server, earlier, cache, late>>
    BY <1>1 DEF Change, Notice, Hydrate, Send
  <2>2. /\ Answered' = Answered \ {c} /\ c \notin Answered
        /\ \A d \in Call : call'[d] = IF d = c THEN Fresh(kind) ELSE call[d]
    BY <1>a, <2>1, SendOK DEF Answered
  <2>3. \A d \in Answered : d \in Call /\ d # c
    BY <2>2 DEF Answered
  <2>4. \A b \in Branch : /\ server'[b].comments \in Nat
                          /\ server'[b].marks \in Nat
                          /\ server[b].comments <= server'[b].comments
                          /\ server[b].marks <= server'[b].marks
    BY <1>a, <2>1, Numbers
  <2> QED BY <2>1, <2>2, <2>3, <2>4, OrderKept
<1>2. CASE \E c \in Call : Identify(c)
  <2>1. PICK c \in Call : Identify(c)
    BY <1>2
  <2>2. /\ call' = [call EXCEPT ![c] = [call[c] EXCEPT !.branch = head]]
        /\ call[c] \in Request /\ call[c].branch = None
        /\ UNCHANGED <<server, earlier, cache, late>>
    BY <1>a, <2>1, CallType DEF Identify, TypeOK
  <2>3. c \notin Answered
    BY <1>a, <2>2 DEF IInv, RequestsOK
  <2>4. /\ call'[c].reply = call[c].reply /\ call'[c] # Idle
        /\ \A d \in Call \ {c} : call'[d] = call[d]
    BY <1>a, <2>2 DEF TypeOK, Request, Idle
  <2>5. /\ Answered' = Answered
        /\ \A d \in Answered : call'[d].reply = call[d].reply
    BY <2>1, <2>3, <2>4 DEF Answered, Identify
  <2>6. \A b \in Branch : /\ server'[b].comments \in Nat
                          /\ server'[b].marks \in Nat
                          /\ server[b].comments <= server'[b].comments
                          /\ server[b].marks <= server'[b].marks
    BY <1>a, <2>2, Numbers
  <2> QED BY <2>2, <2>5, <2>6, OrderKept
<1>3. CASE Agent \/ (\E b \in Branch : Checkout(b)) \/ Reload \/ UNCHANGED vars
  <2>1. /\ UNCHANGED <<call, earlier, late>>
        /\ (cache' = cache \/ cache' = None)
        /\ \/ server' = server
           \/ server' = [server EXCEPT ![head].comments = @ + 1]
    BY <1>3 DEF Agent, Checkout, Reload, vars
  <2>2. \A b \in Branch : /\ server'[b].comments \in Nat
                          /\ server'[b].marks \in Nat
                          /\ server[b].comments <= server'[b].comments
                          /\ server[b].marks <= server'[b].marks
    <3>1. CASE server' = server
      BY <1>a, <3>1, Numbers
    <3>2. CASE server' = [server EXCEPT ![head].comments = @ + 1]
      BY <1>a, <3>2, Numbers, Raised DEF TypeOK
    <3> QED BY <2>1, <3>1, <3>2
  <2>3. Answered' = Answered
    BY <2>1 DEF Answered
  <2> QED BY <2>1, <2>2, <2>3, OrderKept
<1> QED BY <1>1, <1>2, <1>3

(* While one load is shown, a page goes back to comments or marks that it   *)
(* had seen replaced only by taking in an answer that one read later had    *)
(* overtaken, for any number of requests and in whatever order the answers  *)
(* come.                                                                    *)
THEOREM NeverBack == Spec => NeverGoesBack
<1>1. Init => OrderInv
  <2> SUFFICES ASSUME Init PROVE AnswersInOrder
    BY InitIInv DEF OrderInv
  <2>1. Answered = {}
    BY DEF Init, Answered
  <2> QED BY <2>1 DEF Init, AnswersInOrder
<1>2. ASSUME OrderInv, [Next]_vars
      PROVE  /\ OrderInv'
             /\ cache # None /\ cache' # None /\ late \subseteq Answered' =>
                  NotAfter(cache, cache')
  <2>1. IInv'
    BY <1>2, NextIInv DEF OrderInv
  <2>2. cache # None => NotAfter(cache, cache)
    BY <1>2, AnsweredType, StateType DEF NotAfter, NoOlder, OrderInv, IInv
  <2>3. CASE \E c \in Call : Serve(c)
    <3>1. cache' = cache
      BY <2>3 DEF Serve
    <3> QED BY <1>2, <2>1, <2>2, <2>3, <3>1, ServeOrder DEF OrderInv
  <2>4. CASE \E c \in Call : \/ ReceiveState(c) \/ ReceiveMarks(c)
                             \/ ReceiveAck(c) \/ Fail(c)
    BY <1>2, <2>1, <2>4, EndOrder DEF OrderInv
  <2>5. CASE \/ \E c \in Call, kind \in {"put", "patch"} : Change(c, kind)
             \/ \E c \in Call : Notice(c) \/ Hydrate(c) \/ Identify(c)
             \/ Agent \/ (\E b \in Branch : Checkout(b)) \/ Reload
             \/ UNCHANGED vars
    BY <1>2, <2>1, <2>2, <2>5, QuietOrder DEF OrderInv
  <2> QED BY <1>2, <2>3, <2>4, <2>5 DEF Next, Step
<1>3. ASSUME OrderInv, [Next]_vars
      PROVE  [cache # None /\ cache' # None /\ load' = load
                  /\ late \subseteq Answered' =>
                /\ NoOlder(cache.comments, cache'.comments)
                /\ NoOlder(cache.marks, cache'.marks)]_vars
  BY <1>2, <1>3 DEF NotAfter
<1> QED BY <1>1, <1>2, <1>3, PTL DEF Spec, NeverGoesBack
=============================================================================
