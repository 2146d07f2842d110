--------------------------- MODULE SelectionProofs --------------------------
(***************************************************************************)
(* What the operators of Selection return, for sequences of any length: the *)
(* facts that the proofs about TestGen and AgentJobs rest on.              *)
(***************************************************************************)
EXTENDS Selection, Integers, Functions, FiniteSetTheorems, TLAPS

\* A finite set of positions.
Positions(ks) == ks \subseteq Int /\ IsFiniteSet(ks)

LEMMA BelowFinite ==
  ASSUME NEW ks, Positions(ks), NEW i \in Int
  PROVE  /\ IsFiniteSet({k \in ks : k < i})
         /\ Rank(ks, i) \in Nat
         /\ i \in ks => Rank(ks, i) < Cardinality(ks)
<1> DEFINE below == {k \in ks : k < i}
<1>1. IsFiniteSet(ks) /\ below \in SUBSET ks
  BY DEF Positions
<1>2. IsFiniteSet(below) /\ Cardinality(below) <= Cardinality(ks)
  BY <1>1, FS_Subset
<1>3. Cardinality(below) = Cardinality(ks) => ks = below
  BY <1>1, FS_Subset
<1>4. Cardinality(below) \in Nat /\ Cardinality(ks) \in Nat
  BY <1>1, <1>2, FS_CardinalityType
<1>5. i \in ks => ks # below
  OBVIOUS
<1> QED
  BY <1>2, <1>3, <1>4, <1>5 DEF Rank

\* Ranks grow with positions.
LEMMA RankGrows ==
  ASSUME NEW ks, Positions(ks), NEW i \in ks, NEW j \in ks, i < j
  PROVE  Rank(ks, i) < Rank(ks, j)
<1> DEFINE before == {k \in ks : k < i}
           upTo == {k \in ks : k < j}
<1>1. i \in Int /\ j \in Int
  BY DEF Positions
<1>2. IsFiniteSet(before) /\ IsFiniteSet(upTo)
  BY <1>1, BelowFinite
<1>3. before \cup {i} \in SUBSET upTo
  <2>1. \A k \in ks : k \in Int
    BY DEF Positions
  <2>2. \A k \in before : k \in upTo
    BY <1>1, <2>1
  <2>3. i \in upTo
    OBVIOUS
  <2> QED
    BY <2>2, <2>3
<1>4. Cardinality(before \cup {i}) = Cardinality(before) + 1
  <2>1. i \notin before
    BY <1>1
  <2> QED
    BY <1>2, <2>1, FS_AddElement
<1>5. Cardinality(before \cup {i}) <= Cardinality(upTo)
  BY <1>2, <1>3, FS_Subset
<1>6. Cardinality(before) \in Nat /\ Cardinality(upTo) \in Nat
  BY <1>2, FS_CardinalityType
<1> QED
  BY <1>4, <1>5, <1>6 DEF Rank

LEMMA RankTells ==
  ASSUME NEW ks, Positions(ks), NEW i \in ks, NEW j \in ks, Rank(ks, i) = Rank(ks, j)
  PROVE  i = j
<1>1. i \in Int /\ j \in Int /\ Rank(ks, i) \in Nat /\ Rank(ks, j) \in Nat
  BY BelowFinite DEF Positions
<1>2. ~(i < j) /\ ~(j < i)
  BY <1>1, RankGrows
<1> QED
  BY <1>1, <1>2

\* Every rank below the size of the set is taken.
LEMMA RankOnto ==
  ASSUME NEW ks, Positions(ks), NEW n \in 0..(Cardinality(ks) - 1)
  PROVE  \E i \in ks : Rank(ks, i) = n
<1> DEFINE size == Cardinality(ks)
           ranks == 0..(size - 1)
           f == [i \in ks |-> Rank(ks, i)]
<1>1. IsFiniteSet(ks) /\ size \in Nat
  BY FS_CardinalityType DEF Positions
<1>2. IsFiniteSet(ranks) /\ Cardinality(ranks) = size
  BY <1>1, FS_Interval
<1>3. f \in [ks -> ranks]
  <2> SUFFICES ASSUME NEW i \in ks PROVE Rank(ks, i) \in ranks
    OBVIOUS
  <2>1. i \in Int
    BY DEF Positions
  <2>2. Rank(ks, i) \in Nat /\ Rank(ks, i) < size
    BY <2>1, BelowFinite
  <2> HIDE DEF size
  <2> QED
    BY <1>1, <2>2
<1>4. \A i, j \in ks : f[i] = f[j] => i = j
  BY RankTells
<1>5. f \in Injection(ks, ranks)
  BY <1>3, <1>4 DEF Injection, IsInjective
<1>6. f \in Surjection(ks, ranks)
  BY <1>2, <1>5, FS_Injection
<1> QED
  BY <1>6 DEF Surjection

\* The nth position is one of them, and n - 1 of them are before it.
LEMMA NthOf ==
  ASSUME NEW ks, Positions(ks), NEW n \in 1..Cardinality(ks)
  PROVE  Nth(ks, n) \in ks /\ Rank(ks, Nth(ks, n)) = n - 1
<1>1. Cardinality(ks) \in Nat
  BY FS_CardinalityType DEF Positions
<1>2. n - 1 \in 0..(Cardinality(ks) - 1)
  BY <1>1
<1>3. \E i \in ks : Rank(ks, i) = n - 1
  BY <1>2, RankOnto
<1> QED
  BY <1>3 DEF Nth

LEMMA NthAt ==
  ASSUME NEW ks, Positions(ks), NEW i \in ks
  PROVE  Rank(ks, i) + 1 \in 1..Cardinality(ks) /\ Nth(ks, Rank(ks, i) + 1) = i
<1>1. Cardinality(ks) \in Nat
  BY FS_CardinalityType DEF Positions
<1>2. Rank(ks, i) \in Nat /\ Rank(ks, i) < Cardinality(ks)
  BY BelowFinite DEF Positions
<1>3. Rank(ks, i) + 1 \in 1..Cardinality(ks) /\ (Rank(ks, i) + 1) - 1 = Rank(ks, i)
  BY <1>1, <1>2
<1> DEFINE m == Nth(ks, Rank(ks, i) + 1)
<1>4. m \in ks /\ Rank(ks, m) = Rank(ks, i)
  BY <1>3, NthOf
<1>5. m = i
  BY <1>4, RankTells
<1> QED
  BY <1>3, <1>5

\* Any naturals have a least one.
LEMMA Least ==
  ASSUME NEW S \in SUBSET Nat, S # {}
  PROVE  \E x \in S : \A y \in S : x <= y
<1>1. PICK i \in S : TRUE
  OBVIOUS
<1> DEFINE low == {k \in S : k <= i}
<1>2. low \in SUBSET (0..i) /\ i \in low
  <2>1. i \in Nat /\ \A k \in low : k \in Nat /\ k <= i
    BY <1>1
  <2>2. \A k \in low : k \in 0..i
    BY <2>1
  <2>3. i \in low
    BY <2>1
  <2> HIDE DEF low
  <2> QED
    BY <2>2, <2>3
<1>3. IsFiniteSet(low)
  <2>1. i \in Int /\ 0 \in Int
    BY <1>1
  <2>2. IsFiniteSet(0..i)
    BY <2>1, FS_Interval
  <2> QED
    BY <1>2, <2>2, FS_Subset
<1>4. Positions(low)
  BY <1>2, <1>3 DEF Positions
<1>5. Cardinality(low) \in Nat /\ Cardinality(low) # 0
  BY <1>2, <1>3, FS_CardinalityType, FS_EmptySet
<1>6. 0 \in 0..(Cardinality(low) - 1)
  BY <1>5
<1> HIDE DEF low
<1>7. PICK x \in low : Rank(low, x) = 0
  BY <1>4, <1>6, RankOnto
<1>8. IsFiniteSet({k \in low : k < x})
  BY <1>3, FS_Subset
<1>9. {k \in low : k < x} = {}
  BY <1>7, <1>8, FS_EmptySet DEF Rank
<1> QED
  BY <1>1, <1>9 DEF low

-----------------------------------------------------------------------------
\* What is kept: as many entries as positions, each from one of them and none
\* lost.
LEMMA KeptAtIs ==
  ASSUME NEW S, NEW s \in Seq(S), NEW ks \in SUBSET DOMAIN s
  PROVE  /\ Positions(ks)
         /\ KeptAt(s, ks) \in Seq(S)
         /\ Len(KeptAt(s, ks)) = Cardinality(ks)
         /\ \A n \in DOMAIN KeptAt(s, ks) : \E i \in ks : KeptAt(s, ks)[n] = s[i]
         /\ \A i \in ks : \E n \in DOMAIN KeptAt(s, ks) : KeptAt(s, ks)[n] = s[i]
<1>1. DOMAIN s = 1..Len(s) /\ Len(s) \in Nat
  OBVIOUS
<1>2. IsFiniteSet(1..Len(s))
  BY <1>1, FS_Interval
<1>3. IsFiniteSet(ks)
  BY <1>1, <1>2, FS_Subset
<1>4. Positions(ks)
  BY <1>1, <1>3 DEF Positions
<1>5. Cardinality(ks) \in Nat
  BY <1>3, FS_CardinalityType
<1>6. \A n \in 1..Cardinality(ks) : Nth(ks, n) \in ks
  BY <1>4, NthOf
<1>7. \A n \in 1..Cardinality(ks) : s[Nth(ks, n)] \in S
  BY <1>1, <1>6
<1>8. KeptAt(s, ks) \in [1..Cardinality(ks) -> S]
  BY <1>7 DEF KeptAt
<1>9. KeptAt(s, ks) \in Seq(S) /\ Len(KeptAt(s, ks)) = Cardinality(ks)
  BY <1>5, <1>8
<1>10. \A n \in DOMAIN KeptAt(s, ks) : \E i \in ks : KeptAt(s, ks)[n] = s[i]
  BY <1>6 DEF KeptAt
<1>11. \A i \in ks : \E n \in DOMAIN KeptAt(s, ks) : KeptAt(s, ks)[n] = s[i]
  <2> SUFFICES ASSUME NEW i \in ks
               PROVE  \E n \in DOMAIN KeptAt(s, ks) : KeptAt(s, ks)[n] = s[i]
    OBVIOUS
  <2>1. Rank(ks, i) + 1 \in 1..Cardinality(ks) /\ Nth(ks, Rank(ks, i) + 1) = i
    BY <1>4, NthAt
  <2> QED
    BY <2>1 DEF KeptAt
<1> QED
  BY <1>4, <1>9, <1>10, <1>11

\* The entries keep their order.
LEMMA KeptInOrder ==
  ASSUME NEW ks, Positions(ks), NEW m \in 1..Cardinality(ks),
         NEW n \in 1..Cardinality(ks), m < n
  PROVE  Nth(ks, m) < Nth(ks, n)
<1> DEFINE i == Nth(ks, m)
           j == Nth(ks, n)
<1>1. i \in ks /\ j \in ks /\ Rank(ks, i) = m - 1 /\ Rank(ks, j) = n - 1
  BY NthOf
<1>2. Cardinality(ks) \in Nat /\ i \in Int /\ j \in Int
  BY <1>1, FS_CardinalityType DEF Positions
<1>3. i # j
  BY <1>1, <1>2
<1>4. ~(j < i)
  <2> SUFFICES ASSUME j < i PROVE FALSE
    OBVIOUS
  <2>1. Rank(ks, j) < Rank(ks, i)
    BY <1>1, RankGrows
  <2> QED
    BY <1>1, <1>2, <2>1
<1> HIDE DEF i, j
<1>5. i < j
  BY <1>2, <1>3, <1>4
<1> QED
  BY <1>5 DEF i, j

\* A slice of n entries has at most n.
LEMMA FirstsAreFew ==
  ASSUME NEW ks, Positions(ks), NEW n \in Nat
  PROVE  /\ Firsts(ks, n) \subseteq ks
         /\ Positions(Firsts(ks, n))
         /\ Cardinality(Firsts(ks, n)) \in 0..n
<1> DEFINE few == Firsts(ks, n)
           ranks == 0..(n - 1)
           f == [i \in few |-> Rank(ks, i)]
<1>1. few \subseteq ks
  BY DEF Firsts
<1>2. IsFiniteSet(few)
  BY <1>1, FS_Subset DEF Positions
<1>3. IsFiniteSet(ranks) /\ Cardinality(ranks) = n
  BY FS_Interval
<1>4. \A i \in few : Rank(ks, i) \in ranks
  <2> SUFFICES ASSUME NEW i \in few PROVE Rank(ks, i) \in ranks
    OBVIOUS
  <2>1. i \in Int /\ Rank(ks, i) < n
    BY DEF Firsts, Positions
  <2>2. Rank(ks, i) \in Nat
    BY <2>1, BelowFinite
  <2> QED
    BY <2>1, <2>2
<1>5. \A i, j \in few : Rank(ks, i) = Rank(ks, j) => i = j
  BY <1>1, RankTells
<1>6. f \in Injection(few, ranks)
  BY <1>4, <1>5 DEF Injection, IsInjective
<1>7. Cardinality(few) <= n
  BY <1>3, <1>6, FS_Injection
<1>8. Cardinality(few) \in Nat
  BY <1>2, FS_CardinalityType
<1>9. ks \subseteq Int
  BY DEF Positions
<1> HIDE DEF few
<1>10. few \subseteq Int
  BY <1>1, <1>9
<1>11. Cardinality(few) \in 0..n
  BY <1>7, <1>8
<1>12. Positions(few)
  BY <1>2, <1>10 DEF Positions
<1> QED
  BY <1>1, <1>11, <1>12 DEF few

\* Nothing is lost when everything is kept.
LEMMA AllKept ==
  ASSUME NEW S, NEW s \in Seq(S)
  PROVE  KeptAt(s, DOMAIN s) = s
<1> DEFINE ks == DOMAIN s
<1>1. Positions(ks) /\ Len(KeptAt(s, ks)) = Cardinality(ks)
  BY KeptAtIs
<1>2. ks = 1..Len(s) /\ Len(s) \in Nat
  OBVIOUS
<1>3. Cardinality(ks) = Len(s)
  BY <1>2, FS_Interval
<1>4. \A n \in ks : Nth(ks, n) = n
  <2> SUFFICES ASSUME NEW n \in ks PROVE Nth(ks, n) = n
    OBVIOUS
  <2>1. {k \in ks : k < n} = 1..(n - 1)
    BY <1>2
  <2>2. Cardinality(1..(n - 1)) = n - 1
    BY <1>2, FS_Interval
  <2>3. Rank(ks, n) = n - 1
    BY <2>1, <2>2 DEF Rank
  <2>4. Nth(ks, Rank(ks, n) + 1) = n
    BY <1>1, NthAt
  <2>5. (n - 1) + 1 = n
    BY <1>2
  <2> QED
    BY <2>3, <2>4, <2>5
<1> HIDE DEF ks
<1>5. KeptAt(s, ks) = [n \in ks |-> s[n]]
  BY <1>2, <1>3, <1>4 DEF KeptAt
<1>6. s = [n \in ks |-> s[n]]
  BY DEF ks
<1> QED
  BY <1>5, <1>6 DEF ks

-----------------------------------------------------------------------------
\* The sum of numbers up to m is at most m for each of them.
LEMMA TotalBound ==
  ASSUME NEW m \in Nat, NEW s, NEW len \in Nat, s \in [1..len -> 0..m]
  PROVE  Total(s) \in Nat /\ Total(s) <= len * m
<1> DEFINE parts == UNION {{k} \X (1..s[k]) : k \in DOMAIN s}
           box == (1..len) \X (1..m)
<1>1. parts \in SUBSET box
  <2> SUFFICES ASSUME NEW k \in 1..len, NEW x \in {k} \X (1..s[k]) PROVE x \in box
    OBVIOUS
  <2>1. s[k] \in 0..m
    OBVIOUS
  <2>2. 1..s[k] \subseteq 1..m
    BY <2>1
  <2> QED
    BY <2>2
<1>2. /\ IsFiniteSet(1..len) /\ Cardinality(1..len) = len
      /\ IsFiniteSet(1..m) /\ Cardinality(1..m) = m
  BY FS_Interval
<1> HIDE DEF parts
<1>3. IsFiniteSet(box) /\ Cardinality(box) = len * m
  <2>1. IsFiniteSet(box) /\ Cardinality(box) = Cardinality(1..len) * Cardinality(1..m)
    BY <1>2, FS_Product
  <2> HIDE DEF box
  <2> QED
    BY <1>2, <2>1
<1>4. IsFiniteSet(parts) /\ Cardinality(parts) <= Cardinality(box)
  BY <1>1, <1>3, FS_Subset
<1>5. Cardinality(parts) \in Nat
  BY <1>4, FS_CardinalityType
<1> HIDE DEF box
<1> QED
  BY <1>3, <1>4, <1>5 DEF Total, parts

\* A strict total order on a finite set gives each rank to one element.
Ahead(S, R, x) == {y \in S : <<y, x>> \in R}
Ordered(S, R) ==
  /\ \A x \in S : <<x, x>> \notin R
  /\ \A x, y \in S : x # y => <<x, y>> \in R \/ <<y, x>> \in R
  /\ \A x, y, z \in S : <<x, y>> \in R /\ <<y, z>> \in R => <<x, z>> \in R

LEMMA OrderRanks ==
  ASSUME NEW S, NEW R, IsFiniteSet(S), Ordered(S, R)
  PROVE  /\ Cardinality(S) \in Nat
         /\ \A x \in S : Cardinality(Ahead(S, R, x)) \in 0..(Cardinality(S) - 1)
         /\ \A x, y \in S : <<x, y>> \in R =>
              Cardinality(Ahead(S, R, x)) < Cardinality(Ahead(S, R, y))
         /\ \A n \in 0..(Cardinality(S) - 1) : \E x \in S : Cardinality(Ahead(S, R, x)) = n
<1> DEFINE size == Cardinality(S)
           ranks == 0..(size - 1)
           rank(x) == Cardinality(Ahead(S, R, x))
           f == [x \in S |-> rank(x)]
<1>1. size \in Nat
  BY FS_CardinalityType
<1>2. \A x \in S : IsFiniteSet(Ahead(S, R, x)) /\ rank(x) \in Nat
  <2> SUFFICES ASSUME NEW x \in S PROVE IsFiniteSet(Ahead(S, R, x)) /\ rank(x) \in Nat
    OBVIOUS
  <2>1. Ahead(S, R, x) \in SUBSET S
    BY DEF Ahead
  <2>2. IsFiniteSet(Ahead(S, R, x))
    BY <2>1, FS_Subset
  <2> QED
    BY <2>2, FS_CardinalityType
<1>3. ASSUME NEW x \in S, NEW y \in S, <<x, y>> \in R
      PROVE  rank(x) < rank(y)
  <2> DEFINE more == Ahead(S, R, x) \cup {x}
  <2>1. x \notin Ahead(S, R, x)
    BY DEF Ahead, Ordered
  <2>2. Cardinality(more) = rank(x) + 1
    BY <1>2, <2>1, FS_AddElement
  <2>3. more \in SUBSET Ahead(S, R, y)
    BY <1>3 DEF Ahead, Ordered
  <2>4. Cardinality(more) <= rank(y)
    BY <1>2, <2>3, FS_Subset
  <2>5. rank(x) \in Nat /\ rank(y) \in Nat
    BY <1>2
  <2> HIDE DEF rank, more
  <2> QED
    BY <2>2, <2>4, <2>5
<1>4. \A x, y \in S : rank(x) = rank(y) => x = y
  <2> SUFFICES ASSUME NEW x \in S, NEW y \in S, rank(x) = rank(y), x # y PROVE FALSE
    OBVIOUS
  <2>1. rank(x) < rank(y) \/ rank(y) < rank(x)
    BY <1>3 DEF Ordered
  <2>2. rank(x) \in Nat
    BY <1>2
  <2> HIDE DEF rank
  <2> QED
    BY <2>1, <2>2
<1>5. \A x \in S : rank(x) \in ranks
  <2> SUFFICES ASSUME NEW x \in S PROVE rank(x) \in ranks
    OBVIOUS
  <2>1. Ahead(S, R, x) \in SUBSET S /\ Ahead(S, R, x) # S
    BY DEF Ahead, Ordered
  <2>2. rank(x) <= size /\ rank(x) # size
    BY <2>1, FS_Subset
  <2>3. rank(x) \in Nat
    BY <1>2
  <2> HIDE DEF rank, size
  <2> QED
    BY <1>1, <2>2, <2>3
<1>6. IsFiniteSet(ranks) /\ Cardinality(ranks) = size
  BY <1>1, FS_Interval
<1>7. f \in Injection(S, ranks)
  <2> HIDE DEF rank, ranks
  <2> QED
    BY <1>4, <1>5 DEF Injection, IsInjective
<1>8. f \in Surjection(S, ranks)
  BY <1>6, <1>7, FS_Injection
<1>9. \A n \in ranks : \E x \in S : rank(x) = n
  <2> HIDE DEF rank, ranks
  <2> QED
    BY <1>8 DEF Surjection
<1> QED
  BY <1>1, <1>3, <1>5, <1>9
=============================================================================
