------------------------ MODULE SubsequencesProofs ------------------------
(***************************************************************************)
(* What Subsequence returns, for every sequence and every set of indices;  *)
(* and the operators on sequences, index by index.                         *)
(***************************************************************************)
EXTENDS Subsequences, SequencesExt, SequenceTheorems, FiniteSetTheorems, WellFoundedInduction, TLAPS

-----------------------------------------------------------------------------
(* Subsequence: what the filters of the queues return. *)

\* Different indices of a finite set have different ranks, between 1 and its size.
LEMMA RankInjective ==
    ASSUME NEW I \in SUBSET Nat, IsFiniteSet(I)
    PROVE  /\ \A i \in I : Rank(I, i) \in 1..Cardinality(I)
           /\ \A i, j \in I : Rank(I, i) = Rank(I, j) => i = j
<1> DEFINE Below(i) == {j \in I : j <= i}
<1>0. \A i \in I : i \in Nat
    OBVIOUS
<1>1. \A i \in Nat : /\ IsFiniteSet(Below(i)) /\ Cardinality(Below(i)) \in Nat
                     /\ Cardinality(Below(i)) <= Cardinality(I)
    BY FS_Subset, FS_CardinalityType
<1>2. \A i \in I : Rank(I, i) \in 1..Cardinality(I)
    <2> SUFFICES ASSUME NEW i \in I PROVE Rank(I, i) \in 1..Cardinality(I)
        OBVIOUS
    <2>1. i \in Below(i)
        BY <1>0
    <2>2. Cardinality(Below(i)) # 0
        BY <1>1, <2>1, FS_EmptySet
    <2>3. Cardinality(I) \in Nat
        BY FS_CardinalityType
    <2>4. Rank(I, i) = Cardinality(Below(i))
        BY DEF Rank
    <2> QED
        BY <1>1, <2>2, <2>3, <2>4
<1>3. ASSUME NEW i \in I, NEW j \in I, i < j, Rank(I, i) = Rank(I, j)
      PROVE  FALSE
    <2>1. Below(i) \in SUBSET Below(j)
        <3>1. \A x \in I : x <= i => x <= j
            BY <1>0, <1>3
        <3> QED
            BY <3>1
    <2>2. Cardinality(Below(i)) = Cardinality(Below(j))
        BY <1>3 DEF Rank
    <2>3. Below(i) = Below(j)
        BY <1>1, <2>1, <2>2, FS_Subset
    <2>4. j \in Below(j) /\ j \notin Below(i)
        BY <1>0, <1>3
    <2> QED
        BY <2>3, <2>4
<1>4. \A i, j \in I : i < j \/ j < i \/ i = j
    BY <1>0
<1> QED
    BY <1>2, <1>3, <1>4

\* Every rank up to the size of the set is the rank of an index.
LEMMA RankOnto ==
    ASSUME NEW I \in SUBSET Nat, IsFiniteSet(I), NEW k \in 1..Cardinality(I)
    PROVE  \E i \in I : Rank(I, i) = k
<1> DEFINE n == Cardinality(I)
           f == [i \in I |-> Rank(I, i)]
<1>1. n \in Nat
    BY FS_CardinalityType
<1>2. IsFiniteSet(1..n) /\ Cardinality(1..n) = n
    BY <1>1, FS_Interval
<1>3. f \in Injection(I, 1..n)
    BY RankInjective DEF Injection, IsInjective
<1>4. f \in Surjection(I, 1..n)
    BY <1>2, <1>3, FS_Injection
<1> QED
    BY <1>4 DEF Surjection

\* A subsequence is a sequence of elements of the sequence, of the chosen
\* length, and it has every chosen element.
LEMMA SubsequenceElements ==
    ASSUME NEW S, NEW s \in Seq(S), NEW I \in SUBSET DOMAIN s
    PROVE  /\ Subsequence(s, I) \in Seq(S)
           /\ Len(Subsequence(s, I)) = Cardinality(I)
           /\ \A k \in DOMAIN Subsequence(s, I) : \E i \in I : Subsequence(s, I)[k] = s[i]
           /\ \A i \in I : \E k \in DOMAIN Subsequence(s, I) : Subsequence(s, I)[k] = s[i]
<1> DEFINE n == Cardinality(I)
           Pick(k) == CHOOSE i \in I : Rank(I, i) = k
<1>1. /\ DOMAIN s = 1..Len(s) /\ Len(s) \in Nat
      /\ \A i \in DOMAIN s : s[i] \in S
    BY LenProperties, ElementOfSeq
<1>2. IsFiniteSet(I) /\ I \in SUBSET Nat
    <2>1. IsFiniteSet(1..Len(s))
        BY <1>1, FS_Interval
    <2>2. I \in SUBSET (1..Len(s))
        BY <1>1
    <2>3. IsFiniteSet(I)
        BY <2>1, <2>2, FS_Subset
    <2> QED
        BY <2>2, <2>3
<1>3. n \in Nat
    BY <1>2, FS_CardinalityType
<1>4. \A k \in 1..n : Pick(k) \in I /\ Rank(I, Pick(k)) = k
    BY <1>2, RankOnto
<1>5. \A i \in I : Rank(I, i) \in 1..n /\ Pick(Rank(I, i)) = i
    BY <1>2, <1>4, RankInjective
<1> HIDE DEF Pick, n
<1>6. Subsequence(s, I) = [k \in 1..n |-> s[Pick(k)]]
    BY DEF Subsequence, Pick, n
<1>7. Subsequence(s, I) \in [1..n -> S]
    BY <1>1, <1>4, <1>6
<1>8. Subsequence(s, I) \in Seq(S) /\ Len(Subsequence(s, I)) = n
    BY <1>3, <1>7
<1> QED
    BY <1>4, <1>5, <1>6, <1>8 DEF n

\* A subsequence takes each chosen index once, and the indices in their order.
LEMMA SubsequenceOrder ==
    ASSUME NEW S, NEW s \in Seq(S), NEW I \in SUBSET DOMAIN s
    PROVE  \E f \in [1..Cardinality(I) -> I] :
               /\ \A k \in 1..Cardinality(I) : Subsequence(s, I)[k] = s[f[k]]
               /\ \A j, k \in 1..Cardinality(I) : j < k => f[j] < f[k]
               /\ \A i \in I : \E k \in 1..Cardinality(I) : f[k] = i
<1> DEFINE n == Cardinality(I)
           f == [k \in 1..n |-> CHOOSE i \in I : Rank(I, i) = k]
<1>1. IsFiniteSet(I) /\ I \in SUBSET Nat
    <2>1. DOMAIN s = 1..Len(s) /\ Len(s) \in Nat
        BY LenProperties
    <2>2. IsFiniteSet(1..Len(s))
        BY <2>1, FS_Interval
    <2>3. I \in SUBSET (1..Len(s))
        BY <2>1
    <2>4. IsFiniteSet(I)
        BY <2>2, <2>3, FS_Subset
    <2> QED
        BY <2>3, <2>4
<1>2. \A k \in 1..n : f[k] \in I /\ Rank(I, f[k]) = k
    BY <1>1, RankOnto
<1>3. ASSUME NEW i \in I, NEW j \in I, i <= j PROVE Rank(I, i) <= Rank(I, j)
    <2> DEFINE Below(x) == {y \in I : y <= x}
    <2>1. IsFiniteSet(Below(j)) /\ Below(i) \in SUBSET Below(j)
        <3>1. \A x \in I : x <= i => x <= j
            BY <1>1, <1>3
        <3>2. Below(i) \in SUBSET Below(j) /\ Below(j) \in SUBSET I
            BY <3>1
        <3> QED
            BY <1>1, <3>2, FS_Subset
    <2>2. Cardinality(Below(i)) <= Cardinality(Below(j))
        BY <2>1, FS_Subset
    <2> QED
        BY <2>2 DEF Rank
<1>4. ASSUME NEW j \in 1..n, NEW k \in 1..n, j < k PROVE f[j] < f[k]
    <2>1. f[k] <= f[j] => k <= j
        BY <1>2, <1>3
    <2>2. f[j] \in Nat /\ f[k] \in Nat
        BY <1>1, <1>2
    <2>3. n \in Nat
        BY <1>1, FS_CardinalityType
    <2> QED
        BY <1>4, <2>1, <2>2, <2>3
<1>5. f \in [1..n -> I]
    BY <1>2
<1>6. \A k \in 1..n : Subsequence(s, I)[k] = s[f[k]]
    BY DEF Subsequence
<1>7. ASSUME NEW i \in I PROVE \E k \in 1..n : f[k] = i
    <2>1. Rank(I, i) \in 1..n
        BY <1>1, RankInjective
    <2>2. f[Rank(I, i)] = i
        BY <1>1, <1>2, <2>1, RankInjective
    <2> QED
        BY <2>1, <2>2
<1> HIDE DEF f
<1> QED
    BY <1>4, <1>5, <1>6, <1>7

-----------------------------------------------------------------------------
(* Sequences, index by index. *)

LEMMA SeqFacts ==
    ASSUME NEW S, NEW s \in Seq(S)
    PROVE  Len(s) \in Nat /\ DOMAIN s = 1..Len(s) /\ \A k \in DOMAIN s : s[k] \in S
BY LenProperties, ElementOfSeq

LEMMA SeqGrows == ASSUME NEW S, NEW T, S \subseteq T PROVE Seq(S) \subseteq Seq(T)
<1> SUFFICES ASSUME NEW s \in Seq(S) PROVE s \in Seq(T)
    OBVIOUS
<1>1. Len(s) \in Nat /\ s \in [1..Len(s) -> S]
    BY LenProperties
<1>2. s \in [1..Len(s) -> T]
    BY <1>1
<1> QED
    BY <1>1, <1>2

LEMMA TailFacts ==
    ASSUME NEW S, NEW s \in Seq(S), s # <<>>
    PROVE  /\ Len(s) \in Nat \ {0} /\ 1 \in DOMAIN s /\ Head(s) = s[1]
           /\ Tail(s) \in Seq(S) /\ Len(Tail(s)) = Len(s) - 1
           /\ DOMAIN Tail(s) = 1..(Len(s) - 1)
           /\ \A k \in DOMAIN Tail(s) : k + 1 \in DOMAIN s /\ Tail(s)[k] = s[k + 1]
           /\ \A k \in DOMAIN s : k # 1 => k - 1 \in DOMAIN Tail(s)
<1>1. Len(s) \in Nat /\ Len(s) # 0 /\ DOMAIN s = 1..Len(s)
    BY EmptySeq, LenProperties
<1>2. /\ Tail(s) \in Seq(S) /\ Head(s) = s[1] /\ Len(Tail(s)) = Len(s) - 1
      /\ \A k \in 1..Len(Tail(s)) : Tail(s)[k] = s[k + 1]
    BY HeadTailProperties
<1>3. DOMAIN Tail(s) = 1..Len(Tail(s))
    BY <1>2, LenProperties
<1> QED
    BY <1>1, <1>2, <1>3

LEMMA ConcatFacts ==
    ASSUME NEW S, NEW s \in Seq(S), NEW t \in Seq(S)
    PROVE  /\ s \o t \in Seq(S) /\ Len(s \o t) = Len(s) + Len(t)
           /\ DOMAIN (s \o t) = 1..(Len(s) + Len(t))
           /\ \A k \in DOMAIN s : k \in DOMAIN (s \o t) /\ (s \o t)[k] = s[k]
           /\ \A k \in DOMAIN t : Len(s) + k \in DOMAIN (s \o t) /\ (s \o t)[Len(s) + k] = t[k]
           /\ \A k \in DOMAIN (s \o t) : k \in DOMAIN s \/ k - Len(s) \in DOMAIN t
<1>1. /\ Len(s) \in Nat /\ DOMAIN s = 1..Len(s)
      /\ Len(t) \in Nat /\ DOMAIN t = 1..Len(t)
    BY LenProperties
<1>2. /\ s \o t \in Seq(S) /\ Len(s \o t) = Len(s) + Len(t)
      /\ \A k \in 1..(Len(s) + Len(t)) : (s \o t)[k] =
             IF k <= Len(s) THEN s[k] ELSE t[k - Len(s)]
    BY ConcatProperties
<1>3. DOMAIN (s \o t) = 1..Len(s \o t)
    BY <1>2, LenProperties
<1>4. \A k \in 1..Len(t) : ~(Len(s) + k <= Len(s)) /\ (Len(s) + k) - Len(s) = k
                           /\ Len(s) + k \in 1..(Len(s) + Len(t))
    BY <1>1
<1> QED
    BY <1>1, <1>2, <1>3, <1>4

LEMMA AppendFacts ==
    ASSUME NEW S, NEW s \in Seq(S), NEW e \in S
    PROVE  /\ Append(s, e) \in Seq(S) /\ Len(Append(s, e)) = Len(s) + 1 /\ Len(s) \in Nat
           /\ DOMAIN s = 1..Len(s) /\ DOMAIN Append(s, e) = 1..(Len(s) + 1)
           /\ \A k \in DOMAIN s : k \in DOMAIN Append(s, e) /\ Append(s, e)[k] = s[k]
           /\ Append(s, e)[Len(s) + 1] = e
<1>1. Len(s) \in Nat /\ DOMAIN s = 1..Len(s)
    BY LenProperties
<1>2. /\ Append(s, e) \in Seq(S) /\ Len(Append(s, e)) = Len(s) + 1
      /\ \A k \in 1..Len(s) : Append(s, e)[k] = s[k]
      /\ Append(s, e)[Len(s) + 1] = e
    BY AppendProperties
<1>3. DOMAIN Append(s, e) = 1..Len(Append(s, e))
    BY <1>2, LenProperties
<1> QED
    BY <1>1, <1>2, <1>3

\* Nothing is left out when every index is kept.
LEMMA SubsequenceOfAll ==
    ASSUME NEW S, NEW s \in Seq(S)
    PROVE  Subsequence(s, DOMAIN s) = s
<1> DEFINE n == Len(s)
<1>1. n \in Nat /\ DOMAIN s = 1..n /\ s = [k \in 1..n |-> s[k]]
    BY LenProperties
<1>2. \A i \in 0..n : IsFiniteSet(1..i) /\ Cardinality(1..i) = i
    BY <1>1, FS_Interval
<1>3. \A i \in 1..n : Rank(DOMAIN s, i) = i
    <2> SUFFICES ASSUME NEW i \in 1..n PROVE Rank(DOMAIN s, i) = i
        OBVIOUS
    <2>1. {j \in DOMAIN s : j <= i} = 1..i
        BY <1>1
    <2>2. i \in 0..n
        BY <1>1
    <2>3. Cardinality({j \in DOMAIN s : j <= i}) = i
        BY <1>2, <2>1, <2>2
    <2> QED
        BY <2>3 DEF Rank
<1>4. Cardinality(DOMAIN s) = n
    BY <1>1, <1>2
<1>5. ASSUME NEW k \in 1..n PROVE s[CHOOSE i \in DOMAIN s : Rank(DOMAIN s, i) = k] = s[k]
    <2>1. (CHOOSE i \in DOMAIN s : Rank(DOMAIN s, i) = k) = k
        BY <1>1, <1>3
    <2> QED
        BY <2>1
<1> HIDE DEF n
<1>6. Subsequence(s, DOMAIN s) = [k \in 1..n |-> s[CHOOSE i \in DOMAIN s : Rank(DOMAIN s, i) = k]]
    BY <1>4 DEF Subsequence
<1>7. [k \in 1..n |-> s[CHOOSE i \in DOMAIN s : Rank(DOMAIN s, i) = k]] = [k \in 1..n |-> s[k]]
    BY <1>5
<1> QED
    BY <1>1, <1>6, <1>7

\* What occurs once is not doubled.
LEMMA SubsequenceInjective ==
    ASSUME NEW S, NEW s \in Seq(S), NEW I \in SUBSET DOMAIN s,
           \A i, j \in DOMAIN s : s[i] = s[j] => i = j
    PROVE  \A j, k \in DOMAIN Subsequence(s, I) : Subsequence(s, I)[j] = Subsequence(s, I)[k] => j = k
<1> DEFINE n == Cardinality(I)
           t == Subsequence(s, I)
<1>1. /\ t \in Seq(S) /\ Len(t) = n /\ n \in Nat /\ DOMAIN t = 1..n
    BY SubsequenceElements, LenProperties
<1>2. PICK f \in [1..n -> I] :
          /\ \A k \in 1..n : t[k] = s[f[k]]
          /\ \A j, k \in 1..n : j < k => f[j] < f[k]
    BY SubsequenceOrder
<1> HIDE DEF t, n
<1>3. \A k \in 1..n : f[k] \in DOMAIN s /\ f[k] \in Int
    BY <1>2, LenProperties
<1>4. ASSUME NEW j \in 1..n, NEW k \in 1..n, t[j] = t[k] PROVE j = k
    <2>1. f[j] = f[k]
        BY <1>2, <1>3, <1>4
    <2>2. ~(j < k) /\ ~(k < j)
        BY <1>2, <1>3, <2>1
    <2> QED
        BY <1>1, <2>2
<1> QED
    BY <1>1, <1>4 DEF t

\* A part of a sequence, and two parts that are put together, place by place.
LEMMA SubSeqFacts ==
    ASSUME NEW S, NEW s \in Seq(S), NEW m \in Nat \ {0}, NEW n \in Nat, m <= n + 1, n <= Len(s)
    PROVE  /\ SubSeq(s, m, n) \in Seq(S) /\ Len(SubSeq(s, m, n)) = n - m + 1
           /\ DOMAIN SubSeq(s, m, n) = 1..(n - m + 1)
           /\ \A i \in 1..(n - m + 1) : SubSeq(s, m, n)[i] = s[m + i - 1]
<1>1. Len(s) \in Nat /\ \A i \in 1..Len(s) : s[i] \in S
    BY SeqFacts
<1>2. \A i \in m..n : s[i] \in S
    BY <1>1
<1>3. /\ SubSeq(s, m, n) \in Seq(S)
      /\ Len(SubSeq(s, m, n)) = IF m <= n THEN n - m + 1 ELSE 0
      /\ \A i \in 1..(n - m + 1) : SubSeq(s, m, n)[i] = s[m + i - 1]
    BY <1>2, SubSeqProperties
<1>4. (IF m <= n THEN n - m + 1 ELSE 0) = n - m + 1
    OBVIOUS
<1>5. DOMAIN SubSeq(s, m, n) = 1..Len(SubSeq(s, m, n))
    BY <1>3, LenProperties
<1> QED
    BY <1>3, <1>4, <1>5

LEMMA ConcatParts ==
    ASSUME NEW S, NEW s \in Seq(S), NEW t \in Seq(S)
    PROVE  /\ s \o t \in Seq(S) /\ Len(s \o t) = Len(s) + Len(t)
           /\ \A k \in 1..Len(s) : (s \o t)[k] = s[k]
           /\ \A k \in 1..Len(t) : (s \o t)[Len(s) + k] = t[k]
<1>1. DOMAIN s = 1..Len(s) /\ DOMAIN t = 1..Len(t)
    BY SeqFacts
<1>2. /\ s \o t \in Seq(S) /\ Len(s \o t) = Len(s) + Len(t)
      /\ DOMAIN (s \o t) = 1..(Len(s) + Len(t))
      /\ \A k \in DOMAIN s : k \in DOMAIN (s \o t) /\ (s \o t)[k] = s[k]
      /\ \A k \in DOMAIN t : Len(s) + k \in DOMAIN (s \o t) /\ (s \o t)[Len(s) + k] = t[k]
      /\ \A k \in DOMAIN (s \o t) : k \in DOMAIN s \/ k - Len(s) \in DOMAIN t
    BY ConcatFacts
<1> QED
    BY <1>1, <1>2

-----------------------------------------------------------------------------
(* Induction, from the well-founded order of the natural numbers. *)

\* A set of natural numbers has a least element, unless it is empty.
LEMMA Least ==
    ASSUME NEW T, T \subseteq Nat, T # {}
    PROVE  \E x \in T : \A y \in T : x <= y
<1> DEFINE R == {p \in Nat \X Nat : p[1] < p[2]}
<1>1. IsWellFoundedOn(R, Nat)
    <2>1. R = OpToRel(<, Nat)
        BY DEF OpToRel
    <2> QED
        BY <2>1, NatLessThanWellFounded
<1>2. PICK x \in T : \A y \in T : ~(<<y, x>> \in R)
    <2> HIDE DEF R
    <2> QED
        BY <1>1, WFMin
<1>3. ASSUME NEW y \in T
      PROVE  x <= y
    <2>1. x \in Nat /\ y \in Nat
        OBVIOUS
    <2>2. ~(<<y, x>> \in R)
        BY <1>2
    <2>3. <<y, x>>[1] = y /\ <<y, x>>[2] = x /\ <<y, x>> \in Nat \X Nat
        BY <2>1
    <2>4. ~(y < x)
        BY <2>2, <2>3
    <2> QED
        BY <2>1, <2>4
<1> QED
    BY <1>3

\* A set that has 0, and with a number the next one, has them all.
LEMMA Induction ==
    ASSUME NEW T, 0 \in T, \A n \in Nat : n \in T => n + 1 \in T
    PROVE  \A n \in Nat : n \in T
<1> SUFFICES ASSUME NEW n \in Nat, n \notin T PROVE FALSE
    OBVIOUS
<1> DEFINE B == {m \in Nat : m \notin T}
<1>1. PICK x \in B : \A y \in B : x <= y
    <2>1. B \subseteq Nat /\ B # {}
        OBVIOUS
    <2> HIDE DEF B
    <2> QED
        BY <2>1, Least
<1>2. x \in Nat /\ x # 0 /\ x \notin T
    OBVIOUS
<1>3. x - 1 \in Nat /\ x - 1 \notin B /\ (x - 1) + 1 = x
    BY <1>1, <1>2
<1> QED
    BY <1>2, <1>3

\* A set of places that has with each one the one before it is the first so many.
LEMMA FirstPlaces ==
    ASSUME NEW n \in Nat, NEW W, W \subseteq 1..n, \A k \in W : k # 1 => k - 1 \in W
    PROVE  Cardinality(W) \in 0..n /\ W = 1..Cardinality(W)
<1> DEFINE Out == {k \in 1..(n + 1) : k \notin W}
<1>1. PICK x \in Out : \A y \in Out : x <= y
    <2>1. n + 1 \in Out /\ Out \subseteq Nat
        OBVIOUS
    <2> HIDE DEF Out
    <2> QED
        BY <2>1, Least
<1>2. x \in 1..(n + 1) /\ x \notin W
    OBVIOUS
<1>3. ASSUME NEW k \in W PROVE k < x
    <2> SUFFICES ASSUME ~(k < x) PROVE FALSE
        OBVIOUS
    <2> DEFINE Late == {j \in W : ~(j < x)}
    <2>1. PICK y \in Late : \A z \in Late : y <= z
        <3>0. k \in Late
            OBVIOUS
        <3>1. \A j \in 1..n : j \in Nat
            OBVIOUS
        <3>2. \A j \in Late : j \in 1..n
            OBVIOUS
        <3> HIDE DEF Late
        <3>3. Late \subseteq Nat /\ Late # {}
            BY <3>0, <3>1, <3>2
        <3> QED
            BY <3>3, Least
    <2>2. y \in W /\ y \in 1..n /\ ~(y < x)
        OBVIOUS
    <2>3. y # x /\ y # 1
        BY <1>2, <2>2
    <2>4. y - 1 \in W
        BY <2>2, <2>3
    <2>5. ~(y - 1 < x) /\ ~(y <= y - 1)
        BY <1>2, <2>2, <2>3
    <2> QED
        BY <2>1, <2>4, <2>5
<1>4. ASSUME NEW k \in 1..(x - 1) PROVE k \in W
    <2>1. k \in 1..(n + 1) /\ ~(x <= k)
        BY <1>2
    <2> QED
        BY <1>1, <2>1
<1>5. W = 1..(x - 1)
    <2>1. \A k \in W : k \in 1..(x - 1)
        BY <1>2, <1>3
    <2> QED
        BY <1>4, <2>1
<1>6. Cardinality(1..(x - 1)) = x - 1
    <2>1. x - 1 \in Nat /\ x - 1 - 1 + 1 = x - 1 /\ 1 \in Int /\ x - 1 \in Int
        BY <1>2
    <2>2. Cardinality(1..(x - 1)) = IF 1 > x - 1 THEN 0 ELSE x - 1 - 1 + 1
        BY <2>1, FS_Interval
    <2> QED
        BY <2>1, <2>2
<1> QED
    BY <1>2, <1>5, <1>6

-----------------------------------------------------------------------------
(* FlattenSeq, which is recursive: a function that satisfies its equation exists up
   to every length, and what satisfies the equation has the type, by induction. *)

LEMMA FlattenType ==
    ASSUME NEW S, NEW seqs \in Seq(Seq(S))
    PROVE  FlattenSeq(seqs) \in Seq(S)
<1> DEFINE n == Len(seqs)
           flatten[i \in 1..Len(seqs)] == IF i = 1 THEN seqs[i] ELSE flatten[i - 1] \o seqs[i]
           Solves(f, m) == /\ f \in [1..m -> Seq(S)]
                           /\ \A i \in 1..m : f[i] = IF i = 1 THEN seqs[i] ELSE f[i - 1] \o seqs[i]
<1>1. n \in Nat /\ \A i \in 1..n : seqs[i] \in Seq(S)
    BY LenProperties, ElementOfSeq
<1>2. CASE n = 0
    <2>1. seqs = <<>> /\ <<>> \in Seq(S)
        BY <1>2, EmptySeq
    <2> QED
        BY <1>2, <2>1 DEF FlattenSeq
<1>3. CASE n # 0
    <2>1. FlattenSeq(seqs) = flatten[n]
        BY <1>3 DEF FlattenSeq
    <2>2. flatten = CHOOSE f : f = [i \in 1..n |-> IF i = 1 THEN seqs[i] ELSE f[i - 1] \o seqs[i]]
        BY DEF flatten
    <2>3. \A m \in Nat : m <= n => \E f : Solves(f, m)
        <3> DEFINE T == {m \in Nat : m <= n => \E f : Solves(f, m)}
        <3>1. 0 \in T
            <4>1. Solves([i \in 1..0 |-> <<>>], 0)
                OBVIOUS
            <4> QED
                BY <4>1
        <3>2. ASSUME NEW m \in Nat, m \in T, m + 1 <= n
              PROVE  \E f : Solves(f, m + 1)
            <4>0. \E f : Solves(f, m)
                <5>1. m <= n
                    BY <1>1, <3>2
                <5>2. m <= n => \E f : Solves(f, m)
                    <6> HIDE DEF Solves
                    <6> QED
                        BY <3>2
                <5> HIDE DEF Solves, n
                <5> QED
                    BY <5>1, <5>2
            <4>1. PICK f : Solves(f, m)
                <5> HIDE DEF Solves
                <5> QED
                    BY <4>0
            <4> DEFINE e == IF m = 0 THEN seqs[1] ELSE f[m] \o seqs[m + 1]
                       g == [i \in 1..(m + 1) |-> IF i = m + 1 THEN e ELSE f[i]]
            <4>2. e \in Seq(S)
                <5>1. m + 1 \in 1..n
                    BY <1>1, <3>2
                <5>2. CASE m = 0
                    BY <1>1, <5>1, <5>2
                <5>3. CASE m # 0
                    <6>1. f[m] \in Seq(S) /\ seqs[m + 1] \in Seq(S)
                        BY <1>1, <4>1, <5>1, <5>3
                    <6>2. f[m] \o seqs[m + 1] \in Seq(S)
                        BY <6>1, ConcatProperties
                    <6> QED
                        BY <5>3, <6>2
                <5> QED
                    BY <5>2, <5>3
            <4>3. g \in [1..(m + 1) -> Seq(S)]
                <5> HIDE DEF e
                <5> QED
                    BY <4>1, <4>2
            <4>4. \A i \in 1..(m + 1) : g[i] = IF i = 1 THEN seqs[i] ELSE g[i - 1] \o seqs[i]
                <5> SUFFICES ASSUME NEW i \in 1..(m + 1)
                             PROVE  g[i] = IF i = 1 THEN seqs[i] ELSE g[i - 1] \o seqs[i]
                    OBVIOUS
                <5>1. CASE i = m + 1
                    BY <5>1
                <5>2. CASE i # m + 1
                    <6>1. i \in 1..m /\ g[i] = f[i]
                        BY <5>2
                    <6>2. i # 1 => i - 1 \in 1..m /\ g[i - 1] = f[i - 1]
                        BY <6>1
                    <6>3. f[i] = IF i = 1 THEN seqs[i] ELSE f[i - 1] \o seqs[i]
                        BY <4>1, <6>1
                    <6> HIDE DEF g
                    <6> QED
                        BY <6>1, <6>2, <6>3
                <5> QED
                    BY <5>1, <5>2
            <4>5. Solves(g, m + 1)
                <5> HIDE DEF g
                <5> QED
                    BY <4>3, <4>4
            <4> QED
                BY <4>5
        <3>3. \A m \in Nat : m \in T => m + 1 \in T
            <4> SUFFICES ASSUME NEW m \in Nat, m \in T PROVE m + 1 \in T
                OBVIOUS
            <4>1. m + 1 \in Nat
                OBVIOUS
            <4>2. m + 1 <= n => \E f : Solves(f, m + 1)
                <5> HIDE DEF Solves, T, n
                <5> QED
                    BY <3>2
            <4> HIDE DEF Solves, n
            <4> QED
                BY <4>1, <4>2
        <3> HIDE DEF T
        <3>4. \A m \in Nat : m \in T
            BY <3>1, <3>3, Induction
        <3> QED
            BY <3>4 DEF T
    <2>4. PICK f : Solves(f, n)
        <3>1. n <= n
            BY <1>1
        <3> HIDE DEF Solves, n
        <3> QED
            BY <1>1, <2>3, <3>1
    <2>5. f = [i \in 1..n |-> IF i = 1 THEN seqs[i] ELSE f[i - 1] \o seqs[i]]
        BY <2>4
    <2>6. flatten = [i \in 1..n |-> IF i = 1 THEN seqs[i] ELSE flatten[i - 1] \o seqs[i]]
        <3> HIDE DEF flatten
        <3> QED
            BY <2>2, <2>5
    <2> HIDE DEF flatten
    <2>7. \A m \in Nat : m + 1 \in 1..n => flatten[m + 1] \in Seq(S)
        <3> DEFINE T == {m \in Nat : m + 1 \in 1..n => flatten[m + 1] \in Seq(S)}
        <3>1. 0 \in T
            BY <1>1, <2>6
        <3>2. ASSUME NEW m \in Nat, m \in T, (m + 1) + 1 \in 1..n
              PROVE  flatten[(m + 1) + 1] \in Seq(S)
            <4>1. flatten[m + 1] \in Seq(S) /\ seqs[(m + 1) + 1] \in Seq(S)
                BY <1>1, <3>2
            <4>2. flatten[(m + 1) + 1] = flatten[m + 1] \o seqs[(m + 1) + 1]
                <5> DEFINE k == (m + 1) + 1
                <5>1. k \in 1..n /\ k # 1 /\ k - 1 = m + 1
                    BY <3>2
                <5> HIDE DEF k
                <5>2. flatten[k] = IF k = 1 THEN seqs[k] ELSE flatten[k - 1] \o seqs[k]
                    BY <2>6, <5>1
                <5>3. flatten[k] = flatten[k - 1] \o seqs[k]
                    BY <5>1, <5>2
                <5> QED
                    BY <5>1, <5>3 DEF k
            <4> QED
                BY <4>1, <4>2, ConcatProperties
        <3>3. \A m \in Nat : m \in T => m + 1 \in T
            BY <3>2
        <3> HIDE DEF T
        <3>4. \A m \in Nat : m \in T
            BY <3>1, <3>3, Induction
        <3> QED
            BY <3>4 DEF T
    <2>8. n - 1 \in Nat /\ (n - 1) + 1 \in 1..n /\ (n - 1) + 1 = n
        BY <1>1, <1>3
    <2> QED
        BY <2>1, <2>7, <2>8
<1> QED
    BY <1>2, <1>3

=============================================================================
