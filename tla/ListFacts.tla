----------------------------- MODULE ListFacts -----------------------------
(* What concatenating, prepending, removing and selecting do to a sequence,  *)
(* position by position, and the least-number principle, which stands for    *)
(* induction: the proofs about lists and queues cite them.                  *)
EXTENDS Integers, Sequences, FiniteSets, SequencesExt, FiniteSetTheorems,
        WellFoundedInduction, TLAPS

(* Concatenation. *)
LEMMA ConcatShape ==
  ASSUME NEW S, NEW a \in Seq(S), NEW b \in Seq(S)
  PROVE  /\ a \o b \in Seq(S)
         /\ Len(a \o b) = Len(a) + Len(b)
         /\ \A j \in 1..Len(a) : (a \o b)[j] = a[j]
         /\ \A j \in 1..Len(b) : (a \o b)[j + Len(a)] = b[j]
  OBVIOUS

(* What removing the event at a position leaves. *)
LEMMA RemoveAtShape ==
  ASSUME NEW S, NEW s \in Seq(S), NEW i \in 1..Len(s)
  PROVE  /\ RemoveAt(s, i) \in Seq(S)
         /\ Len(RemoveAt(s, i)) = Len(s) - 1
         /\ \A j \in 1..(Len(s) - 1) :
              RemoveAt(s, i)[j] = IF j < i THEN s[j] ELSE s[j + 1]
<1> DEFINE a == SubSeq(s, 1, i - 1)
           b == SubSeq(s, i + 1, Len(s))
<1>1. a \in Seq(S) /\ Len(a) = i - 1 /\ \A j \in 1..(i - 1) : a[j] = s[j]
  OBVIOUS
<1>2. b \in Seq(S) /\ Len(b) = Len(s) - i /\ \A j \in 1..(Len(s) - i) : b[j] = s[j + i]
  OBVIOUS
<1>3. RemoveAt(s, i) = a \o b
  BY DEF RemoveAt
<1> HIDE DEF a, b
<1>4. a \o b \in Seq(S) /\ Len(a \o b) = Len(s) - 1
  <2>1. Len(s) \in Nat /\ i \in Int
    OBVIOUS
  <2>2. a \in Seq(S) /\ b \in Seq(S)
    BY <1>1, <1>2
  <2>3. a \o b \in Seq(S) /\ Len(a \o b) = Len(a) + Len(b)
    BY <2>2, ConcatShape, Zenon
  <2>4. Len(a) + Len(b) = Len(s) - 1
    BY <1>1, <1>2, <2>1
  <2> QED BY <2>3, <2>4
<1>5. ASSUME NEW j \in 1..(Len(s) - 1)
      PROVE  (a \o b)[j] = IF j < i THEN s[j] ELSE s[j + 1]
  <2>1. CASE j < i
    BY <1>1, <1>2, <2>1, ConcatShape
  <2>2. CASE ~(j < i)
    <3>1. j - (i - 1) \in 1..(Len(s) - i)
      BY <2>2
    <3>2. (a \o b)[j] = b[j - (i - 1)]
      BY <1>1, <1>2, <2>2, <3>1, ConcatShape
    <3> QED BY <1>2, <2>2, <3>1, <3>2
  <2> QED BY <2>1, <2>2
<1> QED BY <1>3, <1>4, <1>5

(* What prepending an event gives. *)
LEMMA PrependShape ==
  ASSUME NEW S, NEW s \in Seq(S), NEW e \in S
  PROVE  /\ <<e>> \o s \in Seq(S)
         /\ Len(<<e>> \o s) = Len(s) + 1
         /\ (<<e>> \o s)[1] = e
         /\ \A j \in 2..(Len(s) + 1) : (<<e>> \o s)[j] = s[j - 1]
  OBVIOUS

(* A set of natural numbers has a least element. *)
LEMMA LeastNumber ==
  ASSUME NEW T, \A k \in T : k \in Nat, T # {}
  PROVE  \E m \in T : \A k \in T : m <= k
<1> DEFINE R == OpToRel(<, Nat)
<1>1. IsWellFoundedOn(R, Nat)
  BY NatLessThanWellFounded
<1>2. \A y, x \in Nat : y < x => <<y, x>> \in R
  BY DEF OpToRel, R
<1> HIDE DEF R
<1>3. T \subseteq Nat
  OBVIOUS
<1>4. PICK x \in T : \A y \in T : ~(<<y, x>> \in R)
  BY <1>1, <1>3, WFMin
<1>5. ASSUME NEW k \in T PROVE x <= k
  <2>1. k \in Nat /\ x \in Nat /\ <<k, x>> \notin R
    BY <1>4
  <2> QED BY <1>2, <2>1
<1> QED BY <1>5

(* The first of some positions is one of them. *)
LEMMA FirstOf ==
  ASSUME NEW T, \A k \in T : k \in Nat, T # {}
  PROVE  (CHOOSE x \in T : \A y \in T : x <= y) \in T
<1>1. \E x \in T : \A y \in T : x <= y
  BY LeastNumber
<1> QED BY <1>1

(* Among some positions each has a rank, and each rank its position. *)
LEMMA Ranks ==
  ASSUME NEW N \in Nat, NEW s, s \subseteq 1..N
  PROVE  /\ Cardinality(s) \in Nat
         /\ \A i \in s : Cardinality({j \in s : j <= i}) \in 1..Cardinality(s)
         /\ \A n \in 1..Cardinality(s) : \E i \in s : Cardinality({j \in s : j <= i}) = n
         /\ \A i, k \in s :
              Cardinality({j \in s : j <= i}) = Cardinality({j \in s : j <= k}) => i = k
<1>1. IsFiniteSet(s) /\ Cardinality(s) \in Nat
  <2>1. IsFiniteSet(1..N)
    BY FS_Interval
  <2> QED BY <2>1, FS_Subset, FS_CardinalityType
<1>2. \A i \in s : i \in Nat
  OBVIOUS
<1> DEFINE below(i) == {j \in s : j <= i}
<1>3. ASSUME NEW i \in s
      PROVE  IsFiniteSet(below(i)) /\ Cardinality(below(i)) \in 1..Cardinality(s)
  <2>1. below(i) \subseteq s /\ i \in below(i)
    BY <1>2
  <2>2. IsFiniteSet(below(i)) /\ Cardinality(below(i)) <= Cardinality(s)
    BY <1>1, <2>1, FS_Subset
  <2>3. Cardinality(below(i)) \in Nat /\ Cardinality(below(i)) # 0
    BY <2>1, <2>2, FS_CardinalityType, FS_EmptySet
  <2> QED BY <1>1, <2>2, <2>3
<1>4. ASSUME NEW i \in s, NEW j \in s, i < j
      PROVE  Cardinality(below(i)) # Cardinality(below(j))
  <2>1. below(i) \subseteq below(j) /\ j \in below(j) /\ j \notin below(i)
    <3>1. i \in Nat /\ j \in Nat /\ j <= j /\ ~(j <= i)
      BY <1>2, <1>4
    <3>2. \A k \in s : k <= i => k <= j
      BY <1>2, <1>4, <3>1
    <3> QED BY <3>1, <3>2
  <2> QED BY <1>3, <2>1, FS_Subset
<1> HIDE DEF below
<1>5. \A i, k \in s : Cardinality(below(i)) = Cardinality(below(k)) => i = k
  BY <1>2, <1>4
<1> DEFINE f == [i \in s |-> Cardinality(below(i))]
<1>6. f \in Injection(s, 1..Cardinality(s))
  <2>1. f \in [s -> 1..Cardinality(s)]
    BY <1>3
  <2> QED BY <1>5, <2>1 DEF Injection, IsInjective
<1>7. IsFiniteSet(1..Cardinality(s)) /\ Cardinality(1..Cardinality(s)) = Cardinality(s)
  BY <1>1, FS_Interval
<1>8. f \in Surjection(s, 1..Cardinality(s))
  BY <1>1, <1>6, <1>7, FS_Injection
<1>9. \A n \in 1..Cardinality(s) : \E i \in s : Cardinality(below(i)) = n
  BY <1>8 DEF Surjection
<1> QED BY <1>1, <1>3, <1>9, <1>5 DEF below

(* The last of some positions is one of them. *)
LEMMA LastOf ==
  ASSUME NEW N \in Nat, NEW T, T \subseteq 1..N, T # {}
  PROVE  Max(T) \in T /\ \A y \in T : Max(T) >= y
<1> DEFINE U == {N - k : k \in T}
<1>1. (\A u \in U : u \in Nat) /\ U # {}
  <2>1. \A k \in T : k \in 1..N /\ N - k \in Nat
    OBVIOUS
  <2>2. PICK k \in T : TRUE
    OBVIOUS
  <2>3. N - k \in U
    OBVIOUS
  <2> QED BY <2>1, <2>3
<1> HIDE DEF U
<1>2. PICK u \in U : \A v \in U : u <= v
  BY <1>1, LeastNumber
<1>3. PICK x \in T : u = N - x
  BY <1>2 DEF U
<1>4. ASSUME NEW y \in T PROVE x >= y
  <2>1. N - y \in U
    BY DEF U
  <2>2. N - x <= N - y /\ x \in Nat /\ y \in Nat
    BY <1>2, <1>3, <2>1
  <2> QED BY <2>2
<1> QED BY <1>4 DEF Max

(* What a list without repetition contains once an element is added in      *)
(* front or behind, or taken away.                                          *)
LEMMA PrependSet ==
  ASSUME NEW S, NEW s \in Seq(S), IsInjective(s), NEW e \in S, e \notin ToSet(s)
  PROVE  /\ <<e>> \o s \in Seq(S) /\ IsInjective(<<e>> \o s)
         /\ ToSet(<<e>> \o s) = ToSet(s) \union {e}
<1> DEFINE t == <<e>> \o s
<1>1. /\ t \in Seq(S) /\ Len(t) = Len(s) + 1 /\ t[1] = e
      /\ \A j \in 2..(Len(s) + 1) : t[j] = s[j - 1]
  BY PrependShape
<1>2. Len(s) \in Nat /\ DOMAIN s = 1..Len(s) /\ DOMAIN t = 1..(Len(s) + 1)
  BY <1>1
<1> HIDE DEF t
<1>3. IsInjective(t)
  <2>1. ASSUME NEW j \in 2..(Len(s) + 1) PROVE j - 1 \in DOMAIN s /\ t[j] = s[j - 1] /\ t[j] # e
    BY <1>1, <1>2 DEF ToSet
  <2> SUFFICES ASSUME NEW j \in DOMAIN t, NEW k \in DOMAIN t, t[j] = t[k] PROVE j = k
    BY DEF IsInjective
  <2>2. CASE j = 1 \/ k = 1
    <3>1. (j = 1 \/ j \in 2..(Len(s) + 1)) /\ (k = 1 \/ k \in 2..(Len(s) + 1))
      BY <1>2
    <3> QED BY <1>1, <2>1, <2>2, <3>1
  <2>3. CASE j # 1 /\ k # 1
    <3>1. j \in 2..(Len(s) + 1) /\ k \in 2..(Len(s) + 1)
      BY <1>2, <2>3
    <3>2. j - 1 = k - 1
      BY <2>1, <3>1 DEF IsInjective
    <3> QED BY <3>1, <3>2
  <2> QED BY <2>2, <2>3
<1>4. ToSet(t) = ToSet(s) \union {e}
  <2>1. \A j \in DOMAIN s : j + 1 \in 2..(Len(s) + 1) /\ (j + 1) - 1 = j
    BY <1>2
  <2>2. ToSet(s) \union {e} \subseteq ToSet(t)
    <3>1. \A j \in DOMAIN s : t[j + 1] = s[j] /\ j + 1 \in DOMAIN t
      BY <1>1, <1>2, <2>1
    <3>2. 1 \in DOMAIN t
      BY <1>2
    <3> QED BY <1>1, <3>1, <3>2 DEF ToSet
  <2>3. ToSet(t) \subseteq ToSet(s) \union {e}
    <3>1. \A j \in DOMAIN t : j = 1 \/ (j \in 2..(Len(s) + 1) /\ j - 1 \in DOMAIN s)
      BY <1>2
    <3> QED BY <1>1, <3>1 DEF ToSet
  <2> QED BY <2>2, <2>3
<1> QED BY <1>1, <1>3, <1>4 DEF t

LEMMA AppendSet ==
  ASSUME NEW S, NEW s \in Seq(S), IsInjective(s), NEW e \in S, e \notin ToSet(s)
  PROVE  /\ Append(s, e) \in Seq(S) /\ IsInjective(Append(s, e)) /\ Append(s, e) # <<>>
         /\ ToSet(Append(s, e)) = ToSet(s) \union {e}
<1> DEFINE t == Append(s, e)
<1>1. /\ t \in Seq(S) /\ Len(t) = Len(s) + 1 /\ t[Len(s) + 1] = e
      /\ \A j \in 1..Len(s) : t[j] = s[j]
  OBVIOUS
<1>2. Len(s) \in Nat /\ DOMAIN s = 1..Len(s) /\ DOMAIN t = 1..(Len(s) + 1)
  BY <1>1
<1>3. t # <<>>
  <2>1. Len(t) # 0 /\ Len(<<>>) = 0
    BY <1>1, <1>2
  <2> QED BY <2>1
<1> HIDE DEF t
<1>4. \A j \in DOMAIN t : j = Len(s) + 1 \/ j \in DOMAIN s
  BY <1>2
<1>5. DOMAIN s \subseteq DOMAIN t /\ Len(s) + 1 \in DOMAIN t
  BY <1>2
<1>6. \A j \in DOMAIN s : t[j] = s[j] /\ s[j] # e
  BY <1>1, <1>2 DEF ToSet
<1>7. IsInjective(t)
  BY <1>1, <1>4, <1>6 DEF IsInjective
<1>8. ToSet(t) = ToSet(s) \union {e}
  BY <1>1, <1>4, <1>5, <1>6 DEF ToSet
<1> QED BY <1>1, <1>3, <1>7, <1>8 DEF t

LEMMA RemoveFirstSet ==
  ASSUME NEW S, NEW s \in Seq(S), IsInjective(s), NEW e
  PROVE  /\ RemoveFirst(s, e) \in Seq(S) /\ IsInjective(RemoveFirst(s, e))
         /\ ToSet(RemoveFirst(s, e)) = ToSet(s) \ {e}
<1>1. CASE ~\E i \in 1..Len(s) : s[i] = e
  <2>1. RemoveFirst(s, e) = s /\ e \notin ToSet(s)
    BY <1>1 DEF RemoveFirst, ToSet
  <2> QED BY <2>1
<1>2. CASE \E i \in 1..Len(s) : s[i] = e
  <2> DEFINE I == {i \in 1..Len(s) : s[i] = e}
             i == Min(I)
             t == RemoveAt(s, i)
  <2>1. Len(s) \in Nat /\ DOMAIN s = 1..Len(s) /\ I # {} /\ \A k \in I : k \in Nat
    BY <1>2
  <2>2. i \in I
    BY <2>1, FirstOf DEF Min
  <2>3. RemoveFirst(s, e) = t
    BY <1>2, <2>1 DEF RemoveFirst, SelectInSeq
  <2> HIDE DEF i
  <2>4. i \in 1..Len(s) /\ s[i] = e
    BY <2>2
  <2>5. /\ t \in Seq(S) /\ Len(t) = Len(s) - 1
        /\ \A j \in 1..(Len(s) - 1) : t[j] = IF j < i THEN s[j] ELSE s[j + 1]
    BY <2>4, RemoveAtShape
  <2>6. DOMAIN t = 1..(Len(s) - 1)
    BY <2>5
  <2> DEFINE up(j) == IF j < i THEN j ELSE j + 1
  <2> HIDE DEF t, I
  <2>7. ASSUME NEW j \in DOMAIN t PROVE up(j) \in DOMAIN s /\ up(j) # i /\ t[j] = s[up(j)]
    BY <2>1, <2>4, <2>5, <2>6
  <2>8. ASSUME NEW j \in DOMAIN t, NEW k \in DOMAIN t, up(j) = up(k) PROVE j = k
    BY <2>1, <2>4, <2>6, <2>8
  <2>9. ASSUME NEW k \in DOMAIN s, k # i PROVE \E j \in DOMAIN t : up(j) = k
    <3>1. CASE k < i
      BY <2>1, <2>4, <2>6, <3>1
    <3>2. CASE ~(k < i)
      <4>1. k - 1 \in DOMAIN t /\ up(k - 1) = k
        BY <2>1, <2>4, <2>6, <2>9, <3>2
      <4> QED BY <4>1
    <3> QED BY <3>1, <3>2
  <2> HIDE DEF up
  <2>10. IsInjective(t)
    BY <2>7, <2>8 DEF IsInjective
  <2>11. ToSet(t) = ToSet(s) \ {e}
    <3>1. ToSet(t) \subseteq ToSet(s) \ {e}
      BY <2>1, <2>4, <2>7 DEF ToSet, IsInjective
    <3>2. ToSet(s) \ {e} \subseteq ToSet(t)
      BY <2>4, <2>7, <2>9 DEF ToSet
    <3> QED BY <3>1, <3>2
  <2> QED BY <2>3, <2>5, <2>10, <2>11
<1> QED BY <1>1, <1>2
=============================================================================
