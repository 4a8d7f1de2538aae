--------------------------- MODULE SequenceLemmas ---------------------------
(***************************************************************************)
(* Lemmas on the sequences of the service.  Its queues hold no element     *)
(* twice: what Append, Tail and RemoveAt do to the elements of such a      *)
(* sequence lets the proofs speak of elements instead of positions.  The   *)
(* lists of listeners may hold one twice: what Append, RemoveAt and the    *)
(* loop of SkippingErase do to the number of places an element has.        *)
(***************************************************************************)
EXTENDS Integers, SkippingErase, SequenceTheorems, FiniteSetTheorems, TLAPS

-----------------------------------------------------------------------------
(* Sequences of distinct elements.                                         *)

LEMMA ContainsInSet ==
    ASSUME NEW S, NEW s \in Seq(S), NEW e, Contains(s, e)
    PROVE  e \in S
  BY DEF Contains

LEMMA AppendDistinct ==
    ASSUME NEW S, NEW s \in Seq(S), NEW e \in S
    PROVE  /\ Append(s, e) \in Seq(S)
           /\ \A x : Contains(Append(s, e), x) <=> Contains(s, x) \/ x = e
           /\ IsInjective(s) /\ ~Contains(s, e) => IsInjective(Append(s, e))
  BY DEF Contains, IsInjective

LEMMA RemoveAtProperties ==
    ASSUME NEW S, NEW s \in Seq(S), NEW n \in 1..Len(s)
    PROVE  /\ RemoveAt(s, n) \in Seq(S)
           /\ Len(RemoveAt(s, n)) = Len(s) - 1
           /\ \A k \in 1..(Len(s) - 1) :
                 RemoveAt(s, n)[k] = IF k < n THEN s[k] ELSE s[k + 1]
  <1> DEFINE front == SubSeq(s, 1, n - 1)
             back == SubSeq(s, n + 1, Len(s))
  <1>1. /\ front \in Seq(S) /\ Len(front) = n - 1
        /\ \A k \in 1..(n - 1) : front[k] = s[k]
    BY SubSeqProperties
  <1>2. /\ back \in Seq(S) /\ Len(back) = Len(s) - n
        /\ \A k \in 1..(Len(s) - n) : back[k] = s[n + k]
    BY SubSeqProperties
  <1>3. RemoveAt(s, n) = front \o back
    BY DEF RemoveAt
  <1> HIDE DEF front, back
  <1>4. /\ front \o back \in Seq(S)
        /\ Len(front \o back) = Len(s) - 1
    BY <1>1, <1>2
  <1>5. ASSUME NEW k \in 1..(Len(s) - 1)
        PROVE  (front \o back)[k] = IF k < n THEN s[k] ELSE s[k + 1]
    <2>1. CASE k < n
      BY <1>1, <1>2, <2>1
    <2>2. CASE ~(k < n)
      <3>1. (front \o back)[k] = back[k - (n - 1)]
        BY <1>1, <1>2, <2>2
      <3>2. k - (n - 1) \in 1..(Len(s) - n) /\ n + (k - (n - 1)) = k + 1
        BY <2>2
      <3> QED
        BY <1>2, <2>2, <3>1, <3>2
    <2> QED
      BY <2>1, <2>2
  <1> QED
    BY <1>3, <1>4, <1>5

LEMMA RemoveAtDistinct ==
    ASSUME NEW S, NEW s \in Seq(S), NEW n \in 1..Len(s), IsInjective(s)
    PROVE  /\ \A x : Contains(RemoveAt(s, n), x) <=> Contains(s, x) /\ x # s[n]
           /\ IsInjective(RemoveAt(s, n))
  <1> DEFINE t == RemoveAt(s, n)
  <1>1. /\ t \in Seq(S) /\ Len(t) = Len(s) - 1
        /\ \A k \in 1..(Len(s) - 1) : t[k] = IF k < n THEN s[k] ELSE s[k + 1]
    BY RemoveAtProperties
  <1>0. \A j, k \in 1..Len(s) : s[j] = s[k] => j = k
    BY DEF IsInjective
  <1> HIDE DEF t
  <1>2. ASSUME NEW x, Contains(t, x)
        PROVE  Contains(s, x) /\ x # s[n]
    <2>1. PICK k \in 1..(Len(s) - 1) : t[k] = x
      BY <1>1, <1>2 DEF Contains
    <2>2. CASE k < n
      <3>1. k \in 1..Len(s) /\ s[k] = x /\ k # n
        BY <1>1, <2>1, <2>2
      <3> QED
        BY <1>0, <3>1 DEF Contains
    <2>3. CASE ~(k < n)
      <3>1. k + 1 \in 1..Len(s) /\ s[k + 1] = x /\ k + 1 # n
        BY <1>1, <2>1, <2>3
      <3> QED
        BY <1>0, <3>1 DEF Contains
    <2> QED
      BY <2>2, <2>3
  <1>3. ASSUME NEW x, Contains(s, x), x # s[n]
        PROVE  Contains(t, x)
    <2>1. PICK k \in 1..Len(s) : s[k] = x
      BY <1>3 DEF Contains
    <2>2. CASE k < n
      <3>1. k \in 1..(Len(s) - 1) /\ t[k] = x
        BY <1>1, <2>1, <2>2
      <3> QED
        BY <1>1, <3>1 DEF Contains
    <2>3. CASE k > n
      <3>1. k - 1 \in 1..(Len(s) - 1) /\ t[k - 1] = x
        BY <1>1, <2>1, <2>3
      <3> QED
        BY <1>1, <3>1 DEF Contains
    <2> QED
      BY <1>3, <2>1, <2>2, <2>3
  <1>4. IsInjective(t)
    <2> SUFFICES ASSUME NEW j \in 1..(Len(s) - 1), NEW k \in 1..(Len(s) - 1),
                        t[j] = t[k]
                 PROVE  j = k
      BY <1>1 DEF IsInjective
    <2> DEFINE at(m) == IF m < n THEN m ELSE m + 1
    <2>1. at(j) \in 1..Len(s) /\ at(k) \in 1..Len(s)
      OBVIOUS
    <2>2. s[at(j)] = s[at(k)]
      BY <1>1
    <2>3. at(j) = at(k)
      BY <1>0, <2>1, <2>2
    <2> QED
      BY <2>3
  <1> QED
    BY <1>2, <1>3, <1>4 DEF t

LEMMA TailDistinct ==
    ASSUME NEW S, NEW s \in Seq(S), s # <<>>, IsInjective(s)
    PROVE  /\ Head(s) \in S /\ Tail(s) \in Seq(S)
           /\ \A x : Contains(Tail(s), x) <=> Contains(s, x) /\ x # Head(s)
           /\ IsInjective(Tail(s))
  <1> DEFINE t == Tail(s)
  <1>0. \A j, k \in 1..Len(s) : s[j] = s[k] => j = k
    BY DEF IsInjective
  <1>1. /\ Head(s) \in S /\ Head(s) = s[1] /\ 1 \in 1..Len(s)
        /\ t \in Seq(S) /\ Len(t) = Len(s) - 1
        /\ \A k \in 1..(Len(s) - 1) : t[k] = s[k + 1]
    BY HeadTailProperties
  <1> HIDE DEF t
  <1>2. ASSUME NEW x, Contains(t, x)
        PROVE  Contains(s, x) /\ x # Head(s)
    <2>1. PICK k \in 1..(Len(s) - 1) : t[k] = x
      BY <1>1, <1>2 DEF Contains
    <2>2. k + 1 \in 1..Len(s) /\ s[k + 1] = x /\ k + 1 # 1
      BY <1>1, <2>1
    <2> QED
      BY <1>0, <1>1, <2>2 DEF Contains
  <1>3. ASSUME NEW x, Contains(s, x), x # Head(s)
        PROVE  Contains(t, x)
    <2>1. PICK k \in 1..Len(s) : s[k] = x /\ k # 1
      BY <1>1, <1>3 DEF Contains
    <2>2. k - 1 \in 1..(Len(s) - 1) /\ t[k - 1] = x
      BY <1>1, <2>1
    <2> QED
      BY <1>1, <2>2 DEF Contains
  <1>4. IsInjective(t)
    <2> SUFFICES ASSUME NEW j \in 1..(Len(s) - 1), NEW k \in 1..(Len(s) - 1),
                        t[j] = t[k]
                 PROVE  j = k
      BY <1>1 DEF IsInjective
    <2>1. s[j + 1] = s[k + 1] /\ j + 1 \in 1..Len(s) /\ k + 1 \in 1..Len(s)
      BY <1>1
    <2>2. j + 1 = k + 1
      BY <1>0, <2>1
    <2> QED
      BY <2>2
  <1> QED
    BY <1>1, <1>2, <1>3, <1>4 DEF t

-----------------------------------------------------------------------------
(* Every finite set of positions can be put in order.  (Induction on the   *)
(* length, as a least counterexample.)                                     *)

LEMMA LeastElement ==
    ASSUME NEW S \in SUBSET Nat, S # {}
    PROVE  \E n \in S : \A m \in S : n <= m
  <1>1. PICK n \in S : \A m \in S : ~ (<<m, n>> \in OpToRel(<, Nat))
    BY NatLessThanWellFounded, WFMin
  <1>2. \A m \in S : ~(m < n)
    BY <1>1 DEF OpToRel
  <1> QED
    BY <1>2

Increasing(f) == \A j, k \in DOMAIN f : j < k => f[j] < f[k]
InOrder(T) == \E f \in [1..Cardinality(T) -> T] : Increasing(f)
AllInOrder(n) == \A T \in SUBSET (1..n) : InOrder(T)

LEMMA FinitePart ==
    ASSUME NEW n \in Nat, NEW T \in SUBSET (1..n)
    PROVE  IsFiniteSet(T) /\ Cardinality(T) \in Nat
  <1>1. IsFiniteSet(1..n)
    BY FS_Interval
  <1>2. IsFiniteSet(T)
    BY <1>1, FS_Subset
  <1> QED
    BY <1>2, FS_CardinalityType

LEMMA EmptyInOrder == AllInOrder(0)
  <1> SUFFICES ASSUME NEW T \in SUBSET (1..0) PROVE InOrder(T)
    BY DEF AllInOrder
  <1>1. T = {}
    OBVIOUS
  <1>2. Cardinality(T) = 0
    BY <1>1, FS_EmptySet, Zenon
  <1> DEFINE f == [x \in 1..0 |-> x]
  <1>3. f \in [1..0 -> T] /\ Increasing(f)
    BY DEF Increasing
  <1> QED
    BY <1>2, <1>3 DEF InOrder

LEMMA OneMoreInOrder ==
    ASSUME NEW n \in Nat \ {0}, AllInOrder(n - 1)
    PROVE  AllInOrder(n)
  <1> SUFFICES ASSUME NEW T \in SUBSET (1..n) PROVE InOrder(T)
    BY DEF AllInOrder
  <1>1. CASE n \notin T
    <2>1. T \in SUBSET (1..(n - 1))
      BY <1>1
    <2> QED
      BY <2>1 DEF AllInOrder
  <1>2. CASE n \in T
    <2> DEFINE V == T \ {n}
               c == Cardinality(V)
    <2>1. V \in SUBSET (1..(n - 1))
      OBVIOUS
    <2>2. IsFiniteSet(T) /\ IsFiniteSet(V) /\ c \in Nat
      BY <2>1, FinitePart
    <2>3. Cardinality(T) = c + 1
      BY <1>2, <2>2, FS_RemoveElement, FS_CardinalityType
    <2>4. PICK f \in [1..c -> V] : Increasing(f)
      BY <2>1 DEF AllInOrder, InOrder
    <2> DEFINE g == [k \in 1..(c + 1) |-> IF k = c + 1 THEN n ELSE f[k]]
    <2> HIDE DEF c
    <2>5. g \in [1..(c + 1) -> T]
      BY <1>2, <2>2, <2>4
    <2>6. Increasing(g)
      <3> SUFFICES ASSUME NEW j \in 1..(c + 1), NEW k \in 1..(c + 1), j < k PROVE g[j] < g[k]
        BY DEF Increasing
      <3>1. j \in 1..c /\ g[j] = f[j] /\ f[j] \in V
        BY <2>2, <2>4
      <3>2. CASE k = c + 1
        <4>1. g[k] = n
          BY <2>2, <3>2
        <4>2. f[j] \in 1..(n - 1)
          BY <2>1, <3>1
        <4> QED
          BY <3>1, <4>1, <4>2
      <3>3. CASE k # c + 1
        BY <2>2, <2>4, <3>1, <3>3 DEF Increasing
      <3> QED
        BY <3>2, <3>3
    <2> QED
      BY <2>3, <2>5, <2>6 DEF InOrder
  <1> QED
    BY <1>1, <1>2

LEMMA Enumeration == \A n \in Nat : AllInOrder(n)
  <1> DEFINE Bad == {n \in Nat : ~AllInOrder(n)}
  <1>1. ASSUME Bad # {} PROVE FALSE
    <2>1. PICK n \in Bad : \A m \in Bad : n <= m
      BY <1>1, LeastElement
    <2>2. n \in Nat /\ ~AllInOrder(n)
      BY <2>1
    <2>3. n # 0
      BY <2>2, EmptyInOrder
    <2>4. n - 1 \in Nat /\ n - 1 \notin Bad
      BY <2>1, <2>2, <2>3
    <2> QED
      BY <2>2, <2>3, <2>4, OneMoreInOrder
  <1> QED
    BY <1>1

-----------------------------------------------------------------------------
(* The erasing loop.                                                       *)

\* The set the loop erases exists for every length, so the recursive function
\* of ErasedAt has the values its definition says.
Erases(n, hit, G) ==
    /\ G \subseteq 1..n
    /\ \A k \in 1..n : k \in G <=> k \in hit /\ k - 1 \notin G

LEMMA ErasesOneMore ==
    ASSUME NEW n \in Nat \ {0}, NEW hit, NEW G, Erases(n - 1, hit, G)
    PROVE  \E H : Erases(n, hit, H)
  <1> DEFINE H == IF n \in hit /\ n - 1 \notin G THEN G \cup {n} ELSE G
  <1>1. /\ G \subseteq 1..(n - 1)
        /\ \A k \in 1..(n - 1) : k \in G <=> k \in hit /\ k - 1 \notin G
    BY DEF Erases
  <1>2. H \subseteq 1..n /\ n \notin G
    BY <1>1
  <1>3. ASSUME NEW k \in 1..n PROVE k \in H <=> k \in hit /\ k - 1 \notin H
    <2>1. k - 1 # n
      OBVIOUS
    <2>2. k - 1 \in H <=> k - 1 \in G
      BY <2>1
    <2>3. CASE k = n
      BY <1>2, <2>2, <2>3
    <2>4. CASE k # n
      <3>1. k \in 1..(n - 1)
        BY <2>4
      <3>2. k \in H <=> k \in G
        BY <2>4
      <3> QED
        BY <1>1, <2>2, <3>1, <3>2
    <2> QED
      BY <2>3, <2>4
  <1> HIDE DEF H
  <1> QED
    BY <1>2, <1>3 DEF Erases

LEMMA ErasesExists ==
    ASSUME NEW n \in Nat, NEW hit
    PROVE  \E G : Erases(n, hit, G)
  <1> DEFINE Bad == {m \in Nat : ~ \E G : Erases(m, hit, G)}
  <1>1. ASSUME Bad # {} PROVE FALSE
    <2>1. PICK m \in Bad : \A k \in Bad : m <= k
      BY <1>1, LeastElement
    <2>2. m \in Nat /\ ~ \E G : Erases(m, hit, G)
      BY <2>1
    <2>3. m # 0
      <3>1. Erases(0, hit, {})
        BY DEF Erases
      <3> QED
        BY <2>2, <3>1
    <2>4. m - 1 \in Nat /\ m - 1 \notin Bad
      BY <2>1, <2>2, <2>3
    <2>5. PICK G : Erases(m - 1, hit, G)
      BY <2>4
    <2> QED
      BY <2>2, <2>3, <2>5, ErasesOneMore
  <1> QED
    BY <1>1

\* A position is erased if the condition holds there and the one before it is
\* not erased.
LEMMA ErasedFacts ==
    ASSUME NEW n \in Nat, NEW hit
    PROVE  Erases(n, hit, ErasedAt(n, hit))
  <1> DEFINE f == CHOOSE g : g = [k \in 0..n |-> k > 0 /\ k \in hit /\ ~g[k - 1]]
             G == {k \in 1..n : f[k]}
  <1>1. f = [k \in 0..n |-> k > 0 /\ k \in hit /\ ~f[k - 1]]
    <2>1. PICK H : Erases(n, hit, H)
      BY ErasesExists
    <2> DEFINE h == [k \in 0..n |-> k \in H]
    <2>2. ASSUME NEW k \in 0..n
          PROVE  (k \in H) = (k > 0 /\ k \in hit /\ ~h[k - 1])
      <3>1. CASE k = 0
        BY <2>1, <3>1 DEF Erases
      <3>2. CASE k # 0
        <4>1. k \in 1..n /\ k - 1 \in 0..n
          BY <3>2
        <4>2. h[k - 1] <=> k - 1 \in H
          BY <4>1
        <4>3. k > 0 /\ (k \in H <=> k \in hit /\ k - 1 \notin H)
          BY <2>1, <4>1 DEF Erases
        <4> HIDE DEF h
        <4>4. (k \in H) <=> (k > 0 /\ k \in hit /\ ~h[k - 1])
          BY <4>2, <4>3, Zenon
        <4> QED
          BY <4>4
      <3> QED
        BY <3>1, <3>2
    <2>3. h = [k \in 0..n |-> k > 0 /\ k \in hit /\ ~h[k - 1]]
      BY <2>2, Zenon
    <2> QED
      BY <2>3, Zenon
  <1>2. ErasedAt(n, hit) = G
    BY Zenon DEF ErasedAt
  <1> HIDE DEF f
  <1>3. ASSUME NEW k \in 1..n PROVE k \in G <=> k \in hit /\ k - 1 \notin G
    <2>0. k \in 0..n /\ k > 0
      OBVIOUS
    <2>1. f[k] = (k > 0 /\ k \in hit /\ ~f[k - 1])
      BY <1>1, <2>0, Zenon
    <2>2. k - 1 \in G <=> k - 1 # 0 /\ f[k - 1]
      OBVIOUS
    <2>3. ~f[0]
      <3>1. 0 \in 0..n /\ ~(0 > 0)
        OBVIOUS
      <3>2. f[0] = (0 > 0 /\ 0 \in hit /\ ~f[0 - 1])
        BY <1>1, <3>1, Zenon
      <3> QED
        BY <3>1, <3>2, Zenon
    <2>4. k - 1 = 0 => ~f[k - 1]
      BY <2>3, Zenon
    <2>5. k \in G <=> f[k]
      OBVIOUS
    <2> QED
      BY <2>0, <2>1, <2>2, <2>4, <2>5, Zenon
  <1>4. G \subseteq 1..n
    OBVIOUS
  <1> HIDE DEF G
  <1> QED
    BY <1>2, <1>3, <1>4 DEF Erases

\* The loop's sequence is the one it walked, without the erased positions.
LEMMA KeptFacts ==
    ASSUME NEW S, NEW s \in Seq(S), NEW gone
    PROVE  /\ Kept(s, gone) \in Seq(S)
           /\ \E f \in Bijection(DOMAIN Kept(s, gone), DOMAIN s \ gone) :
                  \A k \in DOMAIN Kept(s, gone) : Kept(s, gone)[k] = s[f[k]]
  <1> DEFINE left == DOMAIN s \ gone
             order == CHOOSE f \in [1..Cardinality(left) -> left] :
                          \A j, k \in DOMAIN f : j < k => f[j] < f[k]
             c == Cardinality(left)
  <1>1. left \in SUBSET (1..Len(s)) /\ Len(s) \in Nat
    OBVIOUS
  <1>2. c \in Nat /\ IsFiniteSet(left) /\ InOrder(left)
    BY <1>1, FinitePart, Enumeration DEF AllInOrder
  <1>3. order \in [1..c -> left] /\ Increasing(order)
    BY <1>2 DEF InOrder, Increasing
  <1>4. Kept(s, gone) = [k \in DOMAIN order |-> s[order[k]]]
    BY DEF Kept
  <1> HIDE DEF order
  <1>5. order \in Bijection(1..c, left)
    <2>1. ASSUME NEW j \in 1..c, NEW k \in 1..c, order[j] = order[k] PROVE j = k
      <3>0. order[j] \in left /\ order[k] \in left
        BY <1>3
      <3>1. order[j] \in Int /\ order[k] \in Int
        BY <1>1, <3>0
      <3>2. ~(order[j] < order[k]) /\ ~(order[k] < order[j])
        BY <2>1, <3>1
      <3>3. ~(j < k) /\ ~(k < j)
        BY <1>3, <3>2 DEF Increasing
      <3> QED
        BY <1>2, <3>3
    <2>2. order \in Injection(1..c, left)
      BY <1>3, <2>1 DEF Injection, IsInjective
    <2>3. Cardinality(1..c) = c
      BY <1>2, FS_Interval
    <2>4. order \in Surjection(1..c, left)
      BY <1>2, <2>2, <2>3, FS_Injection
    <2> QED
      BY <2>2, <2>4 DEF Bijection
  <1> HIDE DEF c
  <1>6. ASSUME NEW k \in 1..c PROVE s[order[k]] \in S
    <2>1. order[k] \in 1..Len(s)
      BY <1>1, <1>3
    <2> QED
      BY <2>1
  <1>7. Kept(s, gone) = [k \in 1..c |-> s[order[k]]]
    BY <1>3, <1>4
  <1>8. Kept(s, gone) \in [1..c -> S]
    BY <1>6, <1>7
  <1> QED
    BY <1>2, <1>5, <1>7, <1>8

-----------------------------------------------------------------------------
(* The places of some elements in a sequence.                              *)

Places(s, X) == {k \in DOMAIN s : s[k] \in X}

LEMMA PlacesType ==
    ASSUME NEW S, NEW s \in Seq(S), NEW X
    PROVE  /\ Places(s, X) \in SUBSET (1..Len(s))
           /\ IsFiniteSet(Places(s, X)) /\ Cardinality(Places(s, X)) \in Nat
  <1>1. Places(s, X) \in SUBSET (1..Len(s)) /\ Len(s) \in Nat
    BY DEF Places
  <1> QED
    BY <1>1, FinitePart

LEMMA AppendPlaces ==
    ASSUME NEW S, NEW s \in Seq(S), NEW e \in S, NEW X
    PROVE  /\ Cardinality(Places(Append(s, e), X)) =
                  Cardinality(Places(s, X)) + (IF e \in X THEN 1 ELSE 0)
           /\ Places(s, X) \subseteq Places(Append(s, e), X)
  <1>1. /\ Len(s) \in Nat /\ Append(s, e) \in Seq(S)
        /\ DOMAIN s = 1..Len(s) /\ DOMAIN Append(s, e) = 1..(Len(s) + 1)
        /\ \A k \in 1..Len(s) : Append(s, e)[k] = s[k]
        /\ Append(s, e)[Len(s) + 1] = e
    OBVIOUS
  <1>2. Places(Append(s, e), X) =
            IF e \in X THEN Places(s, X) \cup {Len(s) + 1} ELSE Places(s, X)
    BY <1>1 DEF Places
  <1>3. Len(s) + 1 \notin Places(s, X)
    BY <1>1 DEF Places
  <1>4. IsFiniteSet(Places(s, X)) /\ Cardinality(Places(s, X)) \in Nat
    BY PlacesType
  <1>5. Cardinality(Places(s, X) \cup {Len(s) + 1}) = Cardinality(Places(s, X)) + 1
    BY <1>3, <1>4, FS_AddElement
  <1> QED
    BY <1>2, <1>4, <1>5

LEMMA RemovePlaces ==
    ASSUME NEW S, NEW s \in Seq(S), NEW n \in 1..Len(s), NEW X
    PROVE  Cardinality(Places(RemoveAt(s, n), X)) =
               Cardinality(Places(s, X)) - (IF s[n] \in X THEN 1 ELSE 0)
  <1> DEFINE t == RemoveAt(s, n)
             A == Places(t, X)
             B == Places(s, X) \ {n}
             f == [k \in A |-> IF k < n THEN k ELSE k + 1]
  <1>1. /\ t \in Seq(S) /\ Len(t) = Len(s) - 1 /\ Len(s) \in Nat
        /\ DOMAIN t = 1..(Len(s) - 1) /\ DOMAIN s = 1..Len(s)
        /\ \A k \in 1..(Len(s) - 1) : t[k] = IF k < n THEN s[k] ELSE s[k + 1]
    <2>1. /\ t \in Seq(S) /\ Len(t) = Len(s) - 1
          /\ \A k \in 1..(Len(s) - 1) : t[k] = IF k < n THEN s[k] ELSE s[k + 1]
      BY RemoveAtProperties
    <2> HIDE DEF t
    <2> QED
      BY <2>1
  <1> HIDE DEF t
  <1>2. f \in [A -> B]
    <2>1. ASSUME NEW k \in A PROVE (IF k < n THEN k ELSE k + 1) \in B
      BY <1>1 DEF Places
    <2> QED
      BY <2>1
  <1>3. ASSUME NEW j \in A, NEW k \in A, f[j] = f[k] PROVE j = k
    BY <1>1, <1>3 DEF Places
  <1>4. ASSUME NEW m \in B PROVE \E k \in A : f[k] = m
    <2>1. m \in 1..Len(s) /\ s[m] \in X /\ m # n
      BY <1>1 DEF Places
    <2>2. CASE m < n
      <3>1. m \in A
        BY <1>1, <2>1, <2>2 DEF Places
      <3> QED
        BY <2>2, <3>1
    <2>3. CASE m > n
      <3>1. m - 1 \in A
        BY <1>1, <2>1, <2>3 DEF Places
      <3> QED
        BY <2>1, <2>3, <3>1
    <2> QED
      BY <2>1, <2>2, <2>3
  <1>5. f \in Bijection(A, B)
    <2>1. f \in Injection(A, B)
      BY <1>2, <1>3 DEF Injection, IsInjective
    <2>2. f \in Surjection(A, B)
      BY <1>2, <1>4 DEF Surjection
    <2> QED
      BY <2>1, <2>2 DEF Bijection
  <1>6. IsFiniteSet(A)
    BY <1>1, PlacesType
  <1> HIDE DEF f
  <1>7. Cardinality(B) = Cardinality(A)
    BY <1>5, <1>6, FS_Bijection DEF ExistsBijection
  <1>8. Cardinality(B) = IF n \in Places(s, X) THEN Cardinality(Places(s, X)) - 1
                         ELSE Cardinality(Places(s, X))
    BY PlacesType, FS_RemoveElement
  <1>9. n \in Places(s, X) <=> s[n] \in X
    BY <1>1 DEF Places
  <1> QED
    BY <1>7, <1>8, <1>9, PlacesType DEF t

LEMMA KeptPlaces ==
    ASSUME NEW S, NEW s \in Seq(S), NEW gone, NEW X
    PROVE  /\ Cardinality(Places(Kept(s, gone), X)) = Cardinality(Places(s, X) \ gone)
           /\ Places(s, X) \ gone # {} => Places(Kept(s, gone), X) # {}
  <1> DEFINE t == Kept(s, gone)
             A == Places(t, X)
             B == Places(s, X) \ gone
  <1>1. PICK f \in Bijection(DOMAIN t, DOMAIN s \ gone) : \A k \in DOMAIN t : t[k] = s[f[k]]
    BY KeptFacts
  <1>2. t \in Seq(S)
    BY KeptFacts
  <1> HIDE DEF t
  <1>3. /\ f \in [DOMAIN t -> DOMAIN s \ gone]
        /\ \A j, k \in DOMAIN t : f[j] = f[k] => j = k
        /\ \A m \in DOMAIN s \ gone : \E k \in DOMAIN t : f[k] = m
    BY DEF Bijection, Injection, Surjection, IsInjective
  <1> DEFINE g == [k \in A |-> f[k]]
  <1>4. g \in [A -> B]
    BY <1>1, <1>3 DEF Places
  <1>5. g \in Injection(A, B)
    BY <1>3, <1>4 DEF Injection, IsInjective, Places
  <1>6. ASSUME NEW m \in B PROVE \E k \in A : g[k] = m
    <2>1. PICK k \in DOMAIN t : f[k] = m
      BY <1>3 DEF Places
    <2>2. k \in A
      BY <1>1, <2>1 DEF Places
    <2> QED
      BY <2>1, <2>2
  <1>7. g \in Bijection(A, B)
    BY <1>4, <1>5, <1>6 DEF Surjection, Bijection
  <1>8. IsFiniteSet(A)
    BY <1>2, PlacesType
  <1>9. Cardinality(B) = Cardinality(A)
    BY <1>7, <1>8, FS_Bijection DEF ExistsBijection
  <1> QED
    BY <1>6, <1>9 DEF t
=============================================================================
