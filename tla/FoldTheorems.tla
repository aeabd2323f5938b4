---------------------------- MODULE FoldTheorems ----------------------------
(* FoldLeft of the community modules, for proofs: a property that holds at  *)
(* the start and that each step keeps holds of the result.  The operator    *)
(* that is folded cannot be a parameter of a lemma, so it is given as G,    *)
(* the function on a set V that each place of the sequence stands for.      *)
EXTENDS SequencesExt, FiniteSetTheorems, TLAPS

LessThan == {ss \in Nat \X Nat : ss[1] < ss[2]}

(* Induction over the natural numbers, for a set of them. *)
LEMMA SetInduction ==
  ASSUME NEW T, 0 \in T, \A n \in Nat : n \in T => n + 1 \in T
  PROVE  Nat \subseteq T
<1> SUFFICES ASSUME Nat \ T # {} PROVE FALSE
  OBVIOUS
<1>1. IsWellFoundedOn(LessThan, Nat)
  BY NatLessThanWellFounded DEF OpToRel, LessThan
<1> DEFINE U == Nat \ T
<1>2. \E x \in U : \A y \in U : ~(<<y, x>> \in LessThan)
  BY <1>1, WFMin, U \subseteq Nat, U # {}, Zenon
<1>3. PICK x \in U : \A y \in U : ~(<<y, x>> \in LessThan)
  BY <1>2
<1>4. x # 0 /\ x - 1 \in Nat /\ x - 1 < x /\ x = (x - 1) + 1
  BY <1>3
<1>5. x - 1 \in T
  BY <1>3, <1>4 DEF LessThan
<1> QED BY <1>3, <1>4, <1>5

(* A set of numbers up to k has a greatest element. *)
LEMMA MaxOf ==
  ASSUME NEW k \in Nat, NEW s \in SUBSET (1..k), s # {}
  PROVE  /\ Max(s) \in s
         /\ \A i \in s : i <= Max(s)
<1> DEFINE T == {n \in Nat : \A t \in SUBSET (1..n) : t # {} =>
                    \E x \in t : \A y \in t : x >= y}
<1>1. 0 \in T
  <2>1. 1..0 = {}
    OBVIOUS
  <2> QED BY <2>1
<1>2. ASSUME NEW n \in Nat, n \in T PROVE n + 1 \in T
  <2> SUFFICES ASSUME NEW t \in SUBSET (1..(n+1)), t # {}
               PROVE  \E x \in t : \A y \in t : x >= y
    OBVIOUS
  <2>1. CASE n + 1 \in t
    BY <2>1
  <2>2. CASE n + 1 \notin t
    <3>1. t \in SUBSET (1..n)
      BY <2>2
    <3> QED BY <3>1, <1>2
  <2> QED BY <2>1, <2>2
<1> HIDE DEF T
<1>3. k \in T
  BY <1>1, <1>2, SetInduction
<1>4. \E x \in s : \A y \in s : x >= y
  BY <1>3 DEF T
<1> QED BY <1>4 DEF Max

LEMMA WithoutMax ==
  ASSUME NEW k \in Nat, NEW s \in SUBSET (1..(k+1)), s # {}
  PROVE  /\ Max(s) \in 1..(k+1)
         /\ s \ {Max(s)} \in SUBSET (1..k)
         /\ k + 1 \in s => Max(s) = k + 1
<1>1. k + 1 \in Nat
  OBVIOUS
<1> DEFINE m == Max(s)
<1>2. m \in s /\ \A i \in s : i <= m
  BY <1>1, MaxOf
<1> HIDE DEF m
<1>3. m \in 1..(k+1) /\ (k + 1 \in s => m = k + 1)
  BY <1>2
<1>4. ASSUME NEW i \in s, i # m PROVE i \in 1..k
  <2>1. i \in 1..(k+1) /\ i <= m
    BY <1>2
  <2> QED BY <2>1, <1>3, <1>4
<1> QED BY <1>3, <1>4 DEF m

(* h is the fold of the steps G, which takes the places in their order. *)
IsFold(h, k, base, G) ==
  \A s \in SUBSET (1..k) :
    h[s] = IF s = {} THEN base ELSE G[Max(s)][h[s \ {Max(s)}]]

HasFold(k, base, G, V) == \E h \in [SUBSET (1..k) -> V] : IsFold(h, k, base, G)

LEMMA FoldOfNothing ==
  ASSUME NEW V, NEW base \in V, NEW G
  PROVE  HasFold(0, base, G, V)
<1> DEFINE h == [s \in SUBSET (1..0) |-> base]
<1>1. \A s \in SUBSET (1..0) : s = {}
  OBVIOUS
<1>2. h \in [SUBSET (1..0) -> V]
  OBVIOUS
<1>3. IsFold(h, 0, base, G)
  BY <1>1 DEF IsFold
<1> QED BY <1>2, <1>3 DEF HasFold

LEMMA FoldOneMore ==
  ASSUME NEW k \in Nat, NEW V, NEW base \in V, NEW G,
         \A v \in V : G[k + 1][v] \in V,
         HasFold(k, base, G, V)
  PROVE  HasFold(k + 1, base, G, V)
<1>1. PICK g \in [SUBSET (1..k) -> V] : IsFold(g, k, base, G)
  BY DEF HasFold
<1> DEFINE h == [s \in SUBSET (1..(k+1)) |->
                   IF k + 1 \in s THEN G[k + 1][g[s \ {k + 1}]] ELSE g[s]]
<1>2. \A s \in SUBSET (1..k) : s \in SUBSET (1..(k+1)) /\ h[s] = g[s]
  OBVIOUS
<1>3. ASSUME NEW s \in SUBSET (1..(k+1))
      PROVE  /\ h[s] \in V
             /\ h[s] = IF s = {} THEN base ELSE G[Max(s)][h[s \ {Max(s)}]]
  <2>1. CASE k + 1 \in s
    <3>1. Max(s) = k + 1 /\ s \ {Max(s)} \in SUBSET (1..k)
      BY <2>1, WithoutMax
    <3>2. h[s] = G[k + 1][g[s \ {k + 1}]]
      BY <2>1
    <3>3. h[s \ {k + 1}] = g[s \ {k + 1}] /\ g[s \ {k + 1}] \in V
      BY <3>1, <1>2
    <3> HIDE DEF h
    <3> QED BY <2>1, <3>1, <3>2, <3>3
  <2>2. CASE k + 1 \notin s
    <3>1. s \in SUBSET (1..k)
      BY <2>2
    <3>2. h[s] = g[s] /\ g[s] \in V
      BY <3>1, <1>2
    <3>3. s # {} => s \ {Max(s)} \in SUBSET (1..k)
      BY <3>1
    <3> HIDE DEF h
    <3> QED BY <1>1, <1>2, <3>1, <3>2, <3>3 DEF IsFold
  <2> QED BY <2>1, <2>2
<1>4. h \in [SUBSET (1..(k+1)) -> V]
  BY <1>3
<1>5. IsFold(h, k + 1, base, G)
  <2> HIDE DEF h
  <2> QED BY <1>3 DEF IsFold
<1> HIDE DEF h
<1> QED BY <1>4, <1>5 DEF HasFold

(* A step for every place of a sequence has a fold. *)
LEMMA FoldExists ==
  ASSUME NEW n \in Nat, NEW V, NEW base \in V, NEW G \in [1..n -> [V -> V]]
  PROVE  \E h \in [SUBSET (1..n) -> V] : IsFold(h, n, base, G)
<1> DEFINE T == {k \in Nat : k <= n => HasFold(k, base, G, V)}
<1>1. 0 \in T
  BY FoldOfNothing
<1>2. ASSUME NEW k \in Nat, k \in T PROVE k + 1 \in T
  <2> SUFFICES ASSUME k + 1 <= n PROVE HasFold(k + 1, base, G, V)
    OBVIOUS
  <2>1. HasFold(k, base, G, V) /\ k + 1 \in 1..n
    BY <1>2
  <2>2. \A v \in V : G[k + 1][v] \in V
    BY <2>1
  <2> QED BY <2>1, <2>2, FoldOneMore
<1> HIDE DEF T
<1>3. n \in T
  BY <1>1, <1>2, SetInduction
<1>4. HasFold(n, base, G, V)
  BY <1>3 DEF T
<1> QED BY <1>4 DEF HasFold

AllIn(iter, k, V) == \A s \in SUBSET (1..k) : iter[s] \in V

(* What every step of a fold keeps holds of its result. *)
LEMMA FoldKeeps ==
  ASSUME NEW n \in Nat, NEW V, NEW iter,
         iter[{}] \in V,
         \A s \in SUBSET (1..n) :
           s # {} /\ iter[s \ {Max(s)}] \in V => iter[s] \in V
  PROVE  iter[1..n] \in V
<1> DEFINE T == {k \in Nat : k <= n => AllIn(iter, k, V)}
<1>1. 0 \in T
  <2>1. \A s \in SUBSET (1..0) : s = {}
    OBVIOUS
  <2> QED BY <2>1 DEF AllIn
<1>2. ASSUME NEW k \in Nat, k \in T PROVE k + 1 \in T
  <2> SUFFICES ASSUME k + 1 <= n PROVE AllIn(iter, k + 1, V)
    OBVIOUS
  <2>1. AllIn(iter, k, V)
    BY <1>2
  <2>2. ASSUME NEW s \in SUBSET (1..(k+1)), s # {} PROVE iter[s] \in V
    <3>1. s \ {Max(s)} \in SUBSET (1..k)
      BY <2>2, WithoutMax
    <3>2. iter[s \ {Max(s)}] \in V
      BY <2>1, <3>1 DEF AllIn
    <3>3. s \in SUBSET (1..n)
      OBVIOUS
    <3> QED BY <2>2, <3>2, <3>3
  <2> QED BY <2>2 DEF AllIn
<1> HIDE DEF T
<1>3. n \in T
  BY <1>1, <1>2, SetInduction
<1>4. AllIn(iter, n, V)
  BY <1>3 DEF T
<1> QED BY <1>4 DEF AllIn

(* What every step of a fold keeps, and has done for its place, holds of    *)
(* the result for every place: Done relates results to places.              *)
LEMMA FoldReaches ==
  ASSUME NEW n \in Nat, NEW V, NEW Done, NEW iter,
         iter[{}] \in V,
         \A s \in SUBSET (1..n) : s # {} /\ iter[s \ {Max(s)}] \in V =>
           /\ iter[s] \in V
           /\ <<iter[s], Max(s)>> \in Done
           /\ \A i \in 1..n :
                <<iter[s \ {Max(s)}], i>> \in Done => <<iter[s], i>> \in Done
  PROVE  /\ iter[1..n] \in V
         /\ \A i \in 1..n : <<iter[1..n], i>> \in Done
<1> DEFINE path == [s \in SUBSET (1..n) |-> <<s, iter[s]>>]
           W == {r \in (SUBSET (1..n)) \X V :
                   \A i \in r[1] : <<r[2], i>> \in Done}
<1>0. \A s \in SUBSET (1..n) :
        path[s] \in W <=> iter[s] \in V /\ \A i \in s : <<iter[s], i>> \in Done
  <2> SUFFICES ASSUME NEW s \in SUBSET (1..n)
               PROVE  path[s] \in W <=>
                        iter[s] \in V /\ \A i \in s : <<iter[s], i>> \in Done
    OBVIOUS
  <2>1. path[s] = <<s, iter[s]>>
    OBVIOUS
  <2>2. \A x : <<s, x>> \in W <=> x \in V /\ \A i \in s : <<x, i>> \in Done
    OBVIOUS
  <2> QED BY <2>1, <2>2
<1> HIDE DEF path, W
<1>1. path[{}] \in W
  BY <1>0
<1>2. ASSUME NEW s \in SUBSET (1..n), s # {}, path[s \ {Max(s)}] \in W
      PROVE  path[s] \in W
  <2> DEFINE m == Max(s)
             t == s \ {m}
  <2>1. m \in s /\ t \in SUBSET (1..n)
    BY <1>2, MaxOf
  <2>2. /\ iter[t] \in V
        /\ \A i \in t : <<iter[t], i>> \in Done
    BY <1>0, <1>2, <2>1
  <2>3. /\ iter[s] \in V /\ <<iter[s], m>> \in Done
        /\ \A i \in 1..n : <<iter[t], i>> \in Done => <<iter[s], i>> \in Done
    BY <1>2, <2>2
  <2> HIDE DEF m
  <2>4. \A i \in s : <<iter[s], i>> \in Done
    BY <2>2, <2>3
  <2> QED BY <1>0, <2>3, <2>4
<1>3. path[1..n] \in W
  BY <1>1, <1>2, FoldKeeps
<1> QED BY <1>0, <1>3

(* An order of a finite set is a sequence of its elements. *)
LEMMA SetToSeqType ==
  ASSUME NEW S, IsFiniteSet(S)
  PROVE  SetToSeq(S) \in Seq(S)
<1>1. Cardinality(S) \in Nat /\ ExistsBijection(1..Cardinality(S), S)
  BY FS_CardinalityType
<1>2. \E f \in [1..Cardinality(S) -> S] : IsInjective(f)
  BY <1>1 DEF ExistsBijection, Bijection, Injection
<1>3. SetToSeq(S) \in [1..Cardinality(S) -> S]
  BY <1>2 DEF SetToSeq
<1> QED BY <1>1, <1>3

(* and every element has a place in it. *)
LEMMA SetToSeqRange ==
  ASSUME NEW S, IsFiniteSet(S), NEW e \in S
  PROVE  \E i \in 1..Len(SetToSeq(S)) : SetToSeq(S)[i] = e
<1> DEFINE n == Cardinality(S)
           f == SetToSeq(S)
<1>1. n \in Nat /\ ExistsBijection(1..n, S)
  BY FS_CardinalityType
<1>2. \E g \in [1..n -> S] : IsInjective(g)
  BY <1>1 DEF ExistsBijection, Bijection, Injection
<1>3. f \in [1..n -> S] /\ IsInjective(f)
  BY <1>2 DEF SetToSeq
<1>4. Len(f) = n
  BY <1>1, <1>3
<1> HIDE DEF f
<1>5. f \in Injection(1..n, S)
  BY <1>3 DEF Injection, IsInjective
<1>6. IsFiniteSet(1..n) /\ Cardinality(1..n) = n
  BY <1>1, FS_Interval
<1>7. f \in Surjection(1..n, S)
  BY <1>5, <1>6, FS_Injection
<1> QED BY <1>4, <1>7 DEF Surjection, f

LEMMA SetToSeqsType ==
  ASSUME NEW S, IsFiniteSet(S), NEW s \in SetToSeqs(S)
  PROVE  s \in Seq(S)
<1>1. Cardinality(S) \in Nat
  BY FS_CardinalityType
<1>2. s \in [1..Cardinality(S) -> S]
  BY DEF SetToSeqs
<1> QED BY <1>1, <1>2

-----------------------------------------------------------------------------
(* Sequences as queues. *)

(* A set of numbers has a least element. *)
LEMMA MinOf ==
  ASSUME NEW s \in SUBSET Nat, s # {}
  PROVE  /\ Min(s) \in s
         /\ \A i \in s : Min(s) <= i
<1>1. IsWellFoundedOn(LessThan, Nat)
  BY NatLessThanWellFounded DEF OpToRel, LessThan
<1>2. \E x \in s : \A y \in s : ~(<<y, x>> \in LessThan)
  BY <1>1, WFMin, Zenon
<1>3. \E x \in s : \A y \in s : x <= y
  <2>1. PICK x \in s : \A y \in s : ~(<<y, x>> \in LessThan)
    BY <1>2
  <2>2. \A y \in s : ~(y < x)
    BY <2>1 DEF LessThan
  <2>3. \A y \in s : x <= y
    BY <2>2
  <2> QED BY <2>3
<1> QED BY <1>3 DEF Min

LEMMA ConcatType ==
  ASSUME NEW S, NEW a \in Seq(S), NEW b \in Seq(S)
  PROVE  a \o b \in Seq(S) /\ Len(a \o b) = Len(a) + Len(b)
  OBVIOUS

(* From a sequence without repetitions, its one occurrence is removed. *)
LEMMA RemoveFirstKeeps ==
  ASSUME NEW S, NEW s \in Seq(S), IsInjective(s), NEW e
  PROVE  /\ RemoveFirst(s, e) \in Seq(S)
         /\ IsInjective(RemoveFirst(s, e))
         /\ ToSet(RemoveFirst(s, e)) = ToSet(s) \ {e}
<1> DEFINE I == {i \in 1..Len(s) : s[i] = e}
           k == Min(I)
           t == SubSeq(s, 1, k - 1) \o SubSeq(s, k + 1, Len(s))
<1>0. DOMAIN s = 1..Len(s) /\ Len(s) \in Nat
  OBVIOUS
<1>1. CASE I = {}
  <2>1. RemoveFirst(s, e) = s
    BY <1>1 DEF RemoveFirst
  <2>2. e \notin ToSet(s)
    BY <1>0, <1>1 DEF ToSet
  <2> QED BY <2>1, <2>2
<1>2. CASE I # {}
  <2>1. k \in I
    <3>1. I \in SUBSET Nat
      BY <1>0
    <3> HIDE DEF I
    <3> QED BY <1>2, <3>1, MinOf
  <2>2. RemoveFirst(s, e) = t
    BY <1>0, <1>2 DEF RemoveFirst, RemoveAt, SelectInSeq
  <2> HIDE DEF k
  <2>3. k \in 1..Len(s) /\ s[k] = e
    BY <2>1
  <2> DEFINE a == SubSeq(s, 1, k - 1)
             b == SubSeq(s, k + 1, Len(s))
  <2>4. /\ a \in Seq(S) /\ Len(a) = k - 1
        /\ \A i \in 1..(k - 1) : a[i] = s[i]
    BY <2>3
  <2>5. /\ b \in Seq(S) /\ Len(b) = Len(s) - k
        /\ \A i \in 1..(Len(s) - k) : b[i] = s[i + k]
    BY <2>3
  <2>6. t = a \o b
    OBVIOUS
  <2> HIDE DEF a, b, t
  <2>7. t \in Seq(S) /\ Len(t) = Len(s) - 1
    <3>1. t \in Seq(S) /\ Len(t) = Len(a) + Len(b)
      BY <2>4, <2>5, <2>6, ConcatType
    <3> QED BY <1>0, <2>3, <2>4, <2>5, <3>1
  <2>8. \A i \in 1..(Len(s) - 1) : t[i] = IF i < k THEN s[i] ELSE s[i + 1]
    <3> SUFFICES ASSUME NEW i \in 1..(Len(s) - 1)
                 PROVE  t[i] = IF i < k THEN s[i] ELSE s[i + 1]
      OBVIOUS
    <3>0. t[i] = IF i <= Len(a) THEN a[i] ELSE b[i - Len(a)]
      <4>1. i \in 1..(Len(a) + Len(b))
        BY <1>0, <2>3, <2>4, <2>5
      <4> QED BY <2>4, <2>5, <2>6, <4>1
    <3>1. CASE i < k
      <4>1. i <= Len(a) /\ i \in 1..(k - 1)
        BY <1>0, <2>3, <2>4, <3>1
      <4> QED BY <2>4, <3>0, <3>1, <4>1
    <3>2. CASE ~(i < k)
      <4>1. /\ i - (k - 1) \in 1..(Len(s) - k) /\ (i - (k - 1)) + k = i + 1
            /\ ~(i <= Len(a)) /\ i - Len(a) = i - (k - 1)
        BY <1>0, <2>3, <2>4, <3>2
      <4> QED BY <2>5, <3>0, <3>2, <4>1
    <3> QED BY <3>1, <3>2
  <2>9. DOMAIN t = 1..(Len(s) - 1)
    BY <2>7
  <2>10. IsInjective(t)
    <3> SUFFICES ASSUME NEW i \in 1..(Len(s) - 1), NEW j \in 1..(Len(s) - 1),
                        t[i] = t[j]
                 PROVE  i = j
      BY <2>9 DEF IsInjective
    <3>1. \A m, n \in 1..Len(s) : s[m] = s[n] => m = n
      BY <1>0 DEF IsInjective
    <3>2. {i, j, i + 1, j + 1} \subseteq 1..Len(s)
      BY <1>0
    <3>3. t[i] = s[IF i < k THEN i ELSE i + 1] /\ t[j] = s[IF j < k THEN j ELSE j + 1]
      BY <2>8
    <3>4. (IF i < k THEN i ELSE i + 1) = (IF j < k THEN j ELSE j + 1)
      BY <3>1, <3>2, <3>3
    <3> QED BY <2>3, <3>4
  <2>11. \A i \in 1..(Len(s) - 1) : t[i] \in ToSet(s) \ {e}
    <3> SUFFICES ASSUME NEW i \in 1..(Len(s) - 1)
                 PROVE  t[i] \in ToSet(s) \ {e}
      OBVIOUS
    <3>1. PICK j \in 1..Len(s) : t[i] = s[j] /\ j # k
      BY <1>0, <2>3, <2>8
    <3>2. s[j] # s[k]
      BY <1>0, <2>3, <3>1 DEF IsInjective
    <3> QED BY <1>0, <2>3, <3>1, <3>2 DEF ToSet
  <2>12. ASSUME NEW i \in 1..Len(s), s[i] # e
        PROVE  \E j \in 1..(Len(s) - 1) : t[j] = s[i]
    <3>1. CASE i < k
      <4>1. i \in 1..(Len(s) - 1) /\ t[i] = s[i]
        BY <2>3, <2>7, <2>8, <3>1
      <4> QED BY <4>1
    <3>2. CASE i > k
      <4>1. i - 1 \in 1..(Len(s) - 1) /\ t[i - 1] = s[i]
        BY <2>3, <2>7, <2>8, <3>2
      <4> QED BY <4>1
    <3> QED BY <2>3, <2>12, <3>1, <3>2
  <2>13. ToSet(t) = ToSet(s) \ {e}
    <3>1. ToSet(t) = {t[i] : i \in 1..(Len(s) - 1)}
      BY <2>9 DEF ToSet
    <3>2. ToSet(s) = {s[i] : i \in 1..Len(s)}
      BY <1>0 DEF ToSet
    <3>3. ToSet(t) \subseteq ToSet(s) \ {e}
      BY <2>11, <3>1
    <3>4. ToSet(s) \ {e} \subseteq ToSet(t)
      BY <2>12, <3>1, <3>2
    <3> QED BY <3>3, <3>4
  <2> QED BY <2>2, <2>7, <2>10, <2>13
<1> QED BY <1>1, <1>2

LEMMA AppendKeeps ==
  ASSUME NEW S, NEW s \in Seq(S), NEW e \in S
  PROVE  /\ Append(s, e) \in Seq(S)
         /\ ToSet(Append(s, e)) = ToSet(s) \union {e}
         /\ IsInjective(s) /\ e \notin ToSet(s) => IsInjective(Append(s, e))
<1>1. DOMAIN s = 1..Len(s) /\ DOMAIN Append(s, e) = 1..(Len(s) + 1)
  OBVIOUS
<1>2. /\ \A i \in 1..Len(s) : Append(s, e)[i] = s[i]
      /\ Append(s, e)[Len(s) + 1] = e
  OBVIOUS
<1>3. ToSet(Append(s, e)) = ToSet(s) \union {e}
  <2>1. 1..(Len(s) + 1) = (1..Len(s)) \union {Len(s) + 1}
    OBVIOUS
  <2> QED BY <1>1, <1>2, <2>1 DEF ToSet
<1>4. ASSUME IsInjective(s), e \notin ToSet(s) PROVE IsInjective(Append(s, e))
  BY <1>1, <1>2, <1>4 DEF IsInjective, ToSet
<1> QED BY <1>3, <1>4

LEMMA TailKeeps ==
  ASSUME NEW S, NEW s \in Seq(S), s # <<>>
  PROVE  /\ Head(s) \in S /\ Tail(s) \in Seq(S)
         /\ ToSet(s) = {Head(s)} \union ToSet(Tail(s))
<1>1. /\ DOMAIN s = 1..Len(s) /\ DOMAIN Tail(s) = 1..(Len(s) - 1)
      /\ Len(s) \in Nat \ {0}
  OBVIOUS
<1>2. /\ Head(s) = s[1]
      /\ \A i \in 1..(Len(s) - 1) : Tail(s)[i] = s[i + 1]
  OBVIOUS
<1>3. \A i \in 2..Len(s) : i - 1 \in 1..(Len(s) - 1) /\ Tail(s)[i - 1] = s[i]
  BY <1>1, <1>2
<1>4. 1..Len(s) = {1} \union (2..Len(s))
  BY <1>1
<1>5. ToSet(s) = {s[1]} \union {s[i] : i \in 2..Len(s)}
  BY <1>1, <1>4 DEF ToSet
<1>6. ToSet(Tail(s)) = {Tail(s)[i] : i \in 1..(Len(s) - 1)}
  BY <1>1 DEF ToSet
<1>7. {s[i] : i \in 2..Len(s)} \subseteq ToSet(Tail(s))
  BY <1>3, <1>6
<1>8. ToSet(Tail(s)) \subseteq {s[i] : i \in 2..Len(s)}
  <2>1. \A i \in 1..(Len(s) - 1) : i + 1 \in 2..Len(s)
    BY <1>1
  <2> QED BY <1>2, <1>6, <2>1
<1> QED BY <1>2, <1>5, <1>7, <1>8

LEMMA ToSetType ==
  ASSUME NEW S, NEW s \in Seq(S)
  PROVE  /\ ToSet(s) \in SUBSET S
         /\ IsFiniteSet(ToSet(s))
<1>1. DOMAIN s = 1..Len(s) /\ Len(s) \in Nat
  OBVIOUS
<1>2. s \in Surjection(1..Len(s), ToSet(s))
  BY <1>1 DEF Surjection, ToSet
<1>3. IsFiniteSet(1..Len(s))
  BY <1>1, FS_Interval
<1> QED BY <1>1, <1>2, <1>3, FS_Surjection DEF ToSet
=============================================================================
