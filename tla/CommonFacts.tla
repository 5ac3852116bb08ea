---------------------------- MODULE CommonFacts ----------------------------
(***************************************************************************)
(* Facts that the proofs share: about natural numbers and finite sets of   *)
(* them, and about sequences whose elements have no type of their own.     *)
(* The least number principle stands for induction: a property of all      *)
(* numbers is proved from a least counterexample.                          *)
(***************************************************************************)
EXTENDS Integers, FiniteSets, Functions, Sequences, SequenceTheorems,
        FiniteSetTheorems, WellFoundedInduction, TLAPS

\* A non-empty set of natural numbers has a least element.
LEMMA LeastNat ==
    ASSUME NEW T \in SUBSET Nat, T # {}
    PROVE  \E n \in T : \A m \in T : n <= m
<1>1. IsWellFoundedOn(OpToRel(<, Nat), Nat)
  BY NatLessThanWellFounded
<1>2. PICK n \in T : \A m \in T : ~(<<m, n>> \in OpToRel(<, Nat))
  BY <1>1, WFMin, Zenon
<1>3. \A m \in T : ~(m < n)
  BY <1>2 DEF OpToRel
<1> QED
  BY <1>3

\* A finite non-empty one has a largest: of the sets without, one of the least
\* size would, less one element, have a largest still.
LEMMA LargestNat ==
    ASSUME NEW S \in SUBSET Nat, IsFiniteSet(S), S # {}
    PROVE  \E x \in S : \A y \in S : y <= x
<1> DEFINE Without(T) == T # {} /\ IsFiniteSet(T) /\ ~\E x \in T : \A y \in T : y <= x
           Sizes == {n \in Nat : \E T \in SUBSET Nat : Without(T) /\ Cardinality(T) = n}
<1>1. SUFFICES ASSUME Sizes # {} PROVE FALSE
  BY FS_CardinalityType
<1>2. PICK n \in Sizes : \A m \in Sizes : n <= m
  BY <1>1, LeastNat
<1>3. PICK T \in SUBSET Nat : Without(T) /\ Cardinality(T) = n
  BY <1>2
<1>4. PICK z \in T : TRUE
  BY <1>3
<1>5. IsFiniteSet(T \ {z}) /\ Cardinality(T \ {z}) = n - 1
  BY <1>3, <1>4, FS_RemoveElement
<1>6. n - 1 \in Nat
  BY <1>5, FS_CardinalityType
<1>7. T \ {z} # {}
  BY <1>3, <1>4
<1>8. PICK w \in T \ {z} : \A y \in T \ {z} : y <= w
  BY <1>2, <1>5, <1>6, <1>7
<1>9. (\A y \in T : y <= w) \/ (\A y \in T : y <= z)
  BY <1>8
<1> QED
  BY <1>3, <1>8, <1>9

\* Of a finite set of numbers, at most m are left when the one with exactly m
\* larger ones goes, and all below it; if there is none, there are no more than m.
LEMMA NewestLeft ==
    ASSUME NEW S \in SUBSET Nat, IsFiniteSet(S), NEW m \in Nat,
           NEW kept \in SUBSET S,
           \A t \in S, i \in kept : Cardinality({j \in S : j > t}) = m => i > t
    PROVE  Cardinality(kept) <= m
<1> DEFINE Above(t) == {j \in S : j > t}
           Few == {t \in S : Cardinality(Above(t)) <= m}
<1>1. ASSUME NEW t \in S PROVE IsFiniteSet(Above(t)) /\ Cardinality(Above(t)) \in Nat
  <2>1. Above(t) \in SUBSET S
    OBVIOUS
  <2>2. IsFiniteSet(Above(t))
    BY <2>1, FS_Subset
  <2> QED
    BY <2>2, FS_CardinalityType
<1>2. IsFiniteSet(kept) /\ Cardinality(kept) <= Cardinality(S)
  BY FS_Subset
<1>3. CASE S = {}
  <2>1. kept = {}
    BY <1>3
  <2>2. Cardinality(kept) = 0
    BY <2>1, FS_EmptySet, Zenon
  <2> QED
    BY <2>2
<1>4. CASE S # {}
  <2>1. PICK x \in S : \A y \in S : y <= x
    BY <1>4, LargestNat
  <2>2. Above(x) = {}
    <3>1. \A y \in S : ~(y > x)
      BY <2>1
    <3> QED
      BY <3>1
  <2>3. x \in Few
    BY <2>2, FS_EmptySet
  <2>4. PICK t \in Few : \A u \in Few : t <= u
    BY <2>3, LeastNat
  <2>5. CASE Cardinality(Above(t)) = m
    <3>1. kept \in SUBSET Above(t)
      BY <2>4, <2>5
    <3> QED
      BY <1>1, <2>4, <2>5, <3>1, FS_Subset
  <2>6. CASE Cardinality(Above(t)) # m
    <3>1. Cardinality(Above(t)) + 1 <= m
      BY <1>1, <2>4, <2>6
    <3> DEFINE Below == {i \in S : i < t}
    <3>2. CASE Below = {}
      <4>1. S = Above(t) \cup {t} /\ t \notin Above(t)
        <5>1. t \in S /\ t \in Nat /\ ~(t > t)
          BY <2>4
        <5>2. \A j \in S : j > t \/ j = t
          BY <3>2, <5>1
        <5> QED
          BY <5>1, <5>2
      <4>2. Cardinality(S) = Cardinality(Above(t)) + 1
        BY <1>1, <2>4, <4>1, FS_AddElement
      <4>3. Cardinality(kept) \in Nat /\ Cardinality(S) \in Nat
        BY <1>2, FS_CardinalityType
      <4> QED
        BY <1>2, <3>1, <4>2, <4>3
    <3>3. CASE Below # {}
      <4>1. IsFiniteSet(Below)
        BY FS_Subset
      <4>2. PICK u \in Below : \A y \in Below : y <= u
        BY <3>3, <4>1, LargestNat
      <4>3. Above(u) = Above(t) \cup {t} /\ t \notin Above(t)
        <5>1. t \in S /\ t \in Nat /\ ~(t > t) /\ u \in Nat /\ u < t
          BY <2>4, <4>2
        <5>2. \A j \in S : j > u <=> j > t \/ j = t
          <6>1. SUFFICES ASSUME NEW j \in S PROVE j > u <=> j > t \/ j = t
            OBVIOUS
          <6>2. j < t => j <= u
            BY <4>2
          <6> QED
            BY <5>1, <6>2
        <5> QED
          BY <5>1, <5>2
      <4>4. Cardinality(Above(u)) = Cardinality(Above(t)) + 1
        BY <1>1, <2>4, <4>3, FS_AddElement
      <4>5. u \in Few /\ u < t
        BY <3>1, <4>2, <4>4
      <4> QED
        BY <2>4, <4>5
    <3> QED
      BY <3>2, <3>3
  <2> QED
    BY <2>5, <2>6
<1> QED
  BY <1>3, <1>4

\* The sizes of the parts of a finite set add up to its own: SumFunction takes
\* one part at a time, in whichever order, and of the sets of parts it would get
\* wrong the smallest would, less the part taken first, be wrong already.
LEMMA SumOfParts ==
    ASSUME NEW S, IsFiniteSet(S), NEW f, IsFiniteSet(DOMAIN f), NEW g,
           \A x \in S : g[x] \in DOMAIN f,
           \A d \in DOMAIN f : f[d] = Cardinality({x \in S : g[x] = d})
    PROVE  SumFunction(f) = Cardinality(S)
<1> DEFINE D == DOMAIN f
           Of(u) == {x \in S : g[x] \in u}
           Pick(u) == CHOOSE d \in u : TRUE
           Step(h, u) == IF u = {} THEN 0 ELSE f[Pick(u)] + h[u \ {Pick(u)}]
           Sums(h) == h = [u \in SUBSET D |-> Step(h, u)]
           sum == CHOOSE h : Sums(h)
           size == [u \in SUBSET D |-> Cardinality(Of(u))]
<1>1. ASSUME NEW u \in SUBSET D
      PROVE  IsFiniteSet(u) /\ IsFiniteSet(Of(u)) /\ Cardinality(Of(u)) \in Nat
  <2>1. Of(u) \in SUBSET S
    OBVIOUS
  <2> QED
    BY <2>1, FS_Subset, FS_CardinalityType
<1>2. ASSUME NEW u \in SUBSET D, u # {}
      PROVE  /\ Pick(u) \in u /\ u \ {Pick(u)} \in SUBSET D
             /\ Cardinality(Of(u)) = f[Pick(u)] + Cardinality(Of(u \ {Pick(u)}))
  <2> DEFINE d == Pick(u)
             v == u \ {d}
             P == {x \in S : g[x] = d}
  <2>1. d \in u
    BY <1>2
  <2> HIDE DEF d
  <2>2. d \in D /\ v \in SUBSET D
    BY <2>1
  <2>3. Of(u) = Of(v) \cup P /\ Of(v) \cap P = {}
    BY <2>1
  <2>4. P \in SUBSET S
    OBVIOUS
  <2>5. IsFiniteSet(P) /\ IsFiniteSet(Of(v))
    BY <1>1, <2>2, <2>4, FS_Subset
  <2>6. Cardinality(P) \in Nat /\ Cardinality(Of(v)) \in Nat /\ Cardinality({}) = 0
    BY <2>5, FS_CardinalityType, FS_EmptySet
  <2>7. f[d] = Cardinality(P)
    BY <2>2
  <2> HIDE DEF P, Of, v
  <2>8. Cardinality(Of(v) \cup P) = Cardinality(Of(v)) + Cardinality(P) - Cardinality(Of(v) \cap P)
    BY <2>5, FS_Union
  <2>9. Cardinality(Of(u)) = f[d] + Cardinality(Of(v))
    <3>1. Cardinality(Of(u)) = Cardinality(Of(v)) + Cardinality(P) - Cardinality({})
      BY <2>3, <2>8, Zenon
    <3> QED
      BY <2>6, <2>7, <3>1
  <2> QED
    BY <2>1, <2>2, <2>9 DEF v, d
<1>3. Of({}) = {} /\ Of(D) = S /\ {} \in SUBSET D /\ D \in SUBSET D
  OBVIOUS
<1>4. SumFunction(f) = sum[D]
  BY DEF SumFunction, SumFunctionOnSet, FoldFunctionOnSet, MapThenFoldSet
<1>5. Cardinality({}) = 0
  BY FS_EmptySet
<1> HIDE DEF Of, D, Pick
<1>6. Sums(size)
  <2>1. ASSUME NEW u \in SUBSET D PROVE Cardinality(Of(u)) = Step(size, u)
    <3>1. CASE u = {}
      BY <1>3, <1>5, <3>1
    <3>2. CASE u # {}
      <4>1. size[u \ {Pick(u)}] = Cardinality(Of(u \ {Pick(u)}))
        BY <1>2, <3>2
      <4> HIDE DEF size
      <4> QED
        BY <1>2, <3>2, <4>1
    <3> QED
      BY <3>1, <3>2
  <2> HIDE DEF Step
  <2> QED
    BY <2>1
<1>7. Sums(sum)
  <2> HIDE DEF Sums, size
  <2> QED
    BY <1>6
<1> HIDE DEF sum
<1>8. ASSUME NEW u \in SUBSET D PROVE sum[u] = Step(sum, u)
  <2> HIDE DEF Step
  <2> QED
    BY <1>7
<1> DEFINE Wrong == {n \in Nat : \E u \in SUBSET D : Cardinality(u) = n /\ sum[u] # size[u]}
<1>9. Wrong = {}
  <2>1. SUFFICES ASSUME Wrong # {} PROVE FALSE
    OBVIOUS
  <2>2. PICK n \in Wrong : \A m \in Wrong : n <= m
    BY <2>1, LeastNat
  <2>3. PICK u \in SUBSET D : Cardinality(u) = n /\ sum[u] # size[u]
    BY <2>2
  <2>4. u # {}
    <3>1. SUFFICES ASSUME u = {} PROVE FALSE
      OBVIOUS
    <3>2. sum[u] = 0
      BY <1>8, <3>1
    <3>3. size[u] = 0
      BY <1>3, <1>5, <3>1
    <3> QED
      BY <2>3, <3>2, <3>3
  <2> DEFINE v == u \ {Pick(u)}
  <2>5. v \in SUBSET D /\ Pick(u) \in u
    BY <1>2, <2>4
  <2>6. Cardinality(v) = n - 1 /\ n - 1 \in Nat
    <3>1. IsFiniteSet(u) /\ IsFiniteSet(v)
      BY <1>1, <2>5
    <3>2. Cardinality(u \ {Pick(u)}) = Cardinality(u) - 1
      BY <2>5, <3>1, FS_RemoveElement
    <3> QED
      BY <2>3, <3>1, <3>2, FS_CardinalityType
  <2>7. sum[v] = size[v]
    <3>1. n - 1 \notin Wrong
      <4>1. n \in Nat /\ ~(n <= n - 1)
        BY <2>2
      <4> HIDE DEF Wrong
      <4> QED
        BY <2>2, <4>1
    <3> HIDE DEF v, size
    <3> QED
      BY <2>5, <2>6, <3>1
  <2>8. sum[u] = f[Pick(u)] + sum[v]
    BY <1>8, <2>4
  <2>9. size[u] = f[Pick(u)] + size[v]
    BY <1>2, <2>4, <2>5
  <2> QED
    BY <2>3, <2>7, <2>8, <2>9
<1>10. sum[D] = size[D]
  <2>1. Cardinality(D) \in Nat
    BY FS_CardinalityType DEF D
  <2> HIDE DEF size
  <2> QED
    BY <1>9, <2>1, <1>3
<1> QED
  BY <1>3, <1>4, <1>10

\* A finite set with a strict order between any two of its elements can be listed
\* in that order: each goes where the number of those before it says.
LEMMA ListedInOrder ==
    ASSUME NEW C, IsFiniteSet(C), NEW R,
           \A x \in C : <<x, x>> \notin R,
           \A x, y, z \in C : <<x, y>> \in R /\ <<y, z>> \in R => <<x, z>> \in R,
           \A x, y \in C : x # y => <<x, y>> \in R \/ <<y, x>> \in R
    PROVE  \E s \in [1 .. Cardinality(C) -> C] :
              /\ \A i, j \in 1 .. Cardinality(C) : i # j => s[i] # s[j]
              /\ \A i, j \in 1 .. Cardinality(C) : i < j => <<s[i], s[j]>> \in R
<1> DEFINE N == Cardinality(C)
           Before(x) == {y \in C : <<y, x>> \in R}
           rank == [x \in C |-> Cardinality(Before(x)) + 1]
<1>1. N \in Nat
  BY FS_CardinalityType
<1>2. ASSUME NEW x \in C
      PROVE  /\ IsFiniteSet(Before(x)) /\ Cardinality(Before(x)) \in Nat
             /\ rank[x] = Cardinality(Before(x)) + 1 /\ rank[x] \in 1 .. N
  <2>1. Before(x) \in SUBSET C /\ Before(x) # C
    OBVIOUS
  <2> HIDE DEF Before
  <2>2. /\ IsFiniteSet(Before(x)) /\ Cardinality(Before(x)) <= N
        /\ N = Cardinality(Before(x)) => C = Before(x)
    BY <2>1, FS_Subset
  <2>3. Cardinality(Before(x)) \in Nat
    BY <2>2, FS_CardinalityType
  <2>4. rank[x] = Cardinality(Before(x)) + 1
    OBVIOUS
  <2> HIDE DEF rank
  <2> QED
    BY <1>1, <2>1, <2>2, <2>3, <2>4
<1>3. ASSUME NEW x \in C, NEW y \in C, <<x, y>> \in R PROVE rank[x] < rank[y]
  <2> DEFINE U == Before(x) \cup {x}
  <2>1. U \in SUBSET Before(y) /\ x \notin Before(x)
    BY <1>3
  <2> HIDE DEF Before, rank
  <2>2. Cardinality(U) = Cardinality(Before(x)) + 1
    BY <1>2, <2>1, FS_AddElement
  <2>3. Cardinality(U) <= Cardinality(Before(y))
    BY <1>2, <2>1, FS_Subset
  <2> QED
    BY <1>2, <2>2, <2>3
<1> HIDE DEF N, Before
<1>4. rank \in [C -> 1 .. N]
  BY <1>2
<1> HIDE DEF rank
<1>5. \A x, y \in C : rank[x] = rank[y] => x = y
  <2>1. SUFFICES ASSUME NEW x \in C, NEW y \in C, rank[x] = rank[y], x # y PROVE FALSE
    OBVIOUS
  <2>2. rank[x] \in Nat /\ rank[y] \in Nat
    BY <1>2
  <2>3. rank[x] < rank[y] \/ rank[y] < rank[x]
    BY <1>3, <2>1
  <2> QED
    BY <2>1, <2>2, <2>3
<1>6. \A i \in 1 .. N : \E x \in C : rank[x] = i
  <2> DEFINE D == 1 .. N
  <2>1. IsFiniteSet(D) /\ Cardinality(D) = N
    <3>1. IsFiniteSet(1 .. N) /\ Cardinality(1 .. N) = IF 1 > N THEN 0 ELSE N - 1 + 1
      BY <1>1, FS_Interval
    <3> QED
      BY <1>1, <3>1
  <2> HIDE DEF D
  <2>2. rank \in Injection(C, D)
    BY <1>4, <1>5 DEF Injection, IsInjective, D
  <2>3. rank \in Surjection(C, D)
    BY <2>1, <2>2, FS_Injection DEF N
  <2> QED
    BY <2>3 DEF Surjection, D
<1> DEFINE s == [i \in 1 .. N |-> CHOOSE x \in C : rank[x] = i]
<1>7. ASSUME NEW i \in 1 .. N PROVE s[i] \in C /\ rank[s[i]] = i
  BY <1>6
<1>8. s \in [1 .. N -> C]
  BY <1>7
<1> HIDE DEF s
<1>9. ASSUME NEW i \in 1 .. N, NEW j \in 1 .. N, i # j PROVE s[i] # s[j]
  BY <1>7, <1>9
<1>10. ASSUME NEW i \in 1 .. N, NEW j \in 1 .. N, i < j PROVE <<s[i], s[j]>> \in R
  <2>1. s[i] # s[j] /\ s[i] \in C /\ s[j] \in C
    BY <1>1, <1>7, <1>9, <1>10
  <2>2. CASE <<s[j], s[i]>> \in R
    <3>1. j < i
      BY <1>3, <1>7, <2>1, <2>2
    <3> QED
      BY <1>1, <1>10, <3>1
  <2> QED
    BY <2>1, <2>2
<1> QED
  BY <1>8, <1>9, <1>10 DEF N

\* A sequence that grows by one keeps what it had.
LEMMA SeqAppended ==
    ASSUME NEW s, s \in Seq(Range(s)), NEW e
    PROVE  /\ Len(s) \in Nat /\ DOMAIN s = 1 .. Len(s)
           /\ Append(s, e) \in Seq(Range(Append(s, e)))
           /\ Len(Append(s, e)) = Len(s) + 1
           /\ DOMAIN Append(s, e) = DOMAIN s \cup {Len(s) + 1}
           /\ \A i \in DOMAIN s : Append(s, e)[i] = s[i]
           /\ Append(s, e)[Len(s) + 1] = e
<1> DEFINE S == Range(s) \cup {e}
           a == Append(s, e)
<1>1. s \in Seq(S) /\ e \in S
  BY SeqMonotonic, Range(s) \subseteq S
<1>2. Len(s) \in Nat /\ DOMAIN s = 1 .. Len(s)
  BY <1>1
<1>3. a \in Seq(S) /\ Len(a) = Len(s) + 1 /\ DOMAIN a = 1 .. Len(s) + 1
  BY <1>1
<1>4. /\ \A i \in DOMAIN s : a[i] = s[i]
      /\ a[Len(s) + 1] = e
  BY <1>1, <1>2
<1> HIDE DEF a
<1>5. a \in [1 .. Len(a) -> Range(a)]
  <2>1. a \in [1 .. Len(a) -> S]
    BY <1>3, LenProperties
  <2> QED
    BY <2>1 DEF Range
<1>6. a \in Seq(Range(a))
  BY <1>2, <1>3, <1>5, SeqDef
<1> QED
  BY <1>2, <1>3, <1>4, <1>6 DEF a

\* A sequence keeps its length when an element is replaced.
LEMMA SeqReplaced ==
    ASSUME NEW s, s \in Seq(Range(s)), NEW i \in DOMAIN s, NEW e
    PROVE  LET r == [s EXCEPT ![i] = e]
           IN /\ r \in Seq(Range(r))
              /\ Len(r) = Len(s) /\ DOMAIN r = DOMAIN s
              /\ r[i] = e /\ \A j \in DOMAIN s \ {i} : r[j] = s[j]
<1> DEFINE r == [s EXCEPT ![i] = e]
<1>1. Len(s) \in Nat /\ DOMAIN s = 1 .. Len(s)
  OBVIOUS
<1>2. DOMAIN r = 1 .. Len(s) /\ r = [j \in 1 .. Len(s) |-> r[j]]
  BY <1>1
<1>3. r \in [1 .. Len(s) -> Range(r)]
  BY <1>2 DEF Range
<1> HIDE DEF r
<1>4. r \in Seq(Range(r))
  BY <1>1, <1>3, SeqDef
<1>5. Len(r) = Len(s)
  BY <1>1, <1>2, <1>4
<1> QED
  BY <1>1, <1>2, <1>4, <1>5 DEF r
=============================================================================
