---- MODULE CorpusQueryProofs ----
EXTENDS CorpusQuery, FiniteSetTheorems, SequenceTheorems, WellFoundedInduction, TLAPS

-----------------------------------------------------------------------------
\* Induction over numbers, with a set in the place of a predicate.

LEMMA LeastNumber ==
  ASSUME NEW T, T \subseteq Nat, T # {}
  PROVE  \E x \in T : \A y \in T : x <= y
<1> DEFINE R == {ss \in Nat \X Nat : ss[1] < ss[2]}
<1>1. IsWellFoundedOn(R, Nat)
  BY NatLessThanWellFounded DEF OpToRel
<1> HIDE DEF R
<1>2. PICK x \in T : \A y \in T : ~(<<y, x>> \in R)
  BY <1>1, WFMin
<1>3. \A y \in T : ~(y < x)
  BY <1>2 DEF R
<1> QED
  BY <1>3

LEMMA SetInduction ==
  ASSUME NEW T, 0 \in T, \A n \in Nat : n \in T => n + 1 \in T
  PROVE  \A n \in Nat : n \in T
<1> SUFFICES ASSUME Nat \ T # {} PROVE FALSE
  OBVIOUS
<1>1. PICK x \in Nat \ T : \A y \in Nat \ T : x <= y
  BY LeastNumber
<1>2. PICK y \in Nat : y + 1 = x
  BY <1>1
<1>3. y \in T
  BY <1>1, <1>2
<1> QED
  BY <1>1, <1>2, <1>3

\* The same up to a bound, for the values of a function.
LEMMA StepInduction ==
  ASSUME NEW S, NEW n \in Nat, NEW h, h[0] \in S, \A k \in 1 .. n : h[k - 1] \in S => h[k] \in S
  PROVE  \A k \in 0 .. n : h[k] \in S
<1> DEFINE T == {k \in Nat : k <= n => h[k] \in S}
<1>1. 0 \in T
  OBVIOUS
<1>2. ASSUME NEW k \in Nat, k \in T PROVE k + 1 \in T
  <2> SUFFICES ASSUME k + 1 <= n PROVE h[k + 1] \in S
    OBVIOUS
  <2>1. k + 1 \in 1 .. n /\ (k + 1) - 1 = k /\ h[k] \in S
    BY <1>2
  <2> QED
    BY <2>1
<1> HIDE DEF T
<1>3. \A k \in Nat : k \in T
  BY <1>1, <1>2, SetInduction
<1> QED
  BY <1>3 DEF T

\* A set of tokens has a greatest one.
LEMMA GreatestNumber ==
  ASSUME NEW S, S \subseteq Nat, S # {}, NEW n \in Nat, \A x \in S : x <= n
  PROVE  Greatest(S) \in S /\ \A y \in S : y <= Greatest(S)
<1> DEFINE T == {n - x : x \in S}
<1>1. T \subseteq Nat /\ T # {}
  OBVIOUS
<1>2. PICK least \in T : \A y \in T : least <= y
  BY <1>1, LeastNumber
<1>3. PICK x \in S : least = n - x
  BY <1>2
<1>4. ASSUME NEW y \in S PROVE y <= x
  <2>1. n - y \in T
    OBVIOUS
  <2>2. n - x <= n - y /\ x \in Nat /\ y \in Nat
    BY <1>2, <1>3, <2>1
  <2> QED
    BY <2>2
<1> QED
  BY <1>4 DEF Greatest

-----------------------------------------------------------------------------
\* Folds.  FoldLeft is a function on the sets of places of a sequence; of the
\* function that it chooses one has to show that there is one.

LEMMA PlacesUpTo ==
  ASSUME NEW k \in Nat \ {0}
  PROVE  /\ Max(1 .. k) = k 
         /\ (1 .. k) \ {k} = 1 .. (k - 1)
         /\ ~(1 .. k = {})
<1>1. k \in 1 .. k /\ \A y \in 1 .. k : k >= y
  OBVIOUS
<1>2. \A x \in 1 .. k : (\A y \in 1 .. k : x >= y) => x = k
  OBVIOUS
<1>3. Max(1 .. k) = k
  BY <1>1, <1>2 DEF Max
<1>4. (1 .. k) \ {k} = 1 .. (k - 1)
  OBVIOUS
<1>5. ~((1 .. k) = {})
  BY <1>1
<1> QED
  BY <1>3, <1>4, <1>5

\* The greatest of a set of places.
LEMMA MaxPlace ==
  ASSUME NEW n \in Nat, NEW t \in SUBSET (1 .. n), t # {}
  PROVE  Max(t) \in t /\ \A y \in t : Max(t) >= y
<1>1. \A x \in t : x \in Nat /\ x <= n
  OBVIOUS
<1>2. Greatest(t) \in t /\ \A y \in t : y <= Greatest(t)
  BY <1>1, GreatestNumber
<1>3. \E x \in t : \A y \in t : x >= y
  BY <1>1, <1>2
<1> QED
  BY <1>3 DEF Max

FoldsOf(S, base, n, g) ==
  {f \in [SUBSET (1 .. n) -> S] :
     /\ f[{}] = base
     /\ \A t \in SUBSET (1 .. n) : t # {} => f[t] = g[<<Max(t), f[t \ {Max(t)}]>>]}

LEMMA FoldExists ==
  ASSUME NEW S, NEW base \in S, NEW n \in Nat, NEW g \in [(1 .. n) \X S -> S]
  PROVE  FoldsOf(S, base, n, g) # {}
<1> DEFINE Folds(f, k) == /\ f \in [SUBSET (1 .. k) -> S]
                          /\ \A t \in SUBSET (1 .. k) :
                               f[t] = IF t = {} THEN base ELSE g[<<Max(t), f[t \ {Max(t)}]>>]
           T == {k \in Nat : k <= n => \E f : Folds(f, k)}
<1> HIDE DEF Folds
<1>1. 0 \in T
  <2> DEFINE f == [t \in SUBSET (1 .. 0) |-> base]
  <2>1. \A t \in SUBSET (1 .. 0) : t = {}
    OBVIOUS
  <2>2. Folds(f, 0)
    BY <2>1 DEF Folds
  <2> QED
    BY <2>2
<1>2. ASSUME NEW k \in Nat, k \in T PROVE k + 1 \in T
  <2> SUFFICES ASSUME k + 1 <= n PROVE \E f : Folds(f, k + 1)
    OBVIOUS
  <2>1. PICK f : Folds(f, k)
    BY <1>2
  <2> DEFINE m == k + 1
             new == [t \in SUBSET (1 .. m) |->
                       IF m \in t THEN g[<<m, f[t \ {m}]>>] ELSE f[t]]
  <2>2. m \in Nat /\ m \in 1 .. n /\ 1 .. k \subseteq 1 .. m
    OBVIOUS
  <2>3. \A t \in SUBSET (1 .. m) : m \notin t => t \in SUBSET (1 .. k)
    OBVIOUS
  <2>4. \A t \in SUBSET (1 .. m) : t \ {m} \in SUBSET (1 .. k)
    OBVIOUS
  <2>5. new \in [SUBSET (1 .. m) -> S]
    <3> SUFFICES ASSUME NEW t \in SUBSET (1 .. m)
                 PROVE  (IF m \in t THEN g[<<m, f[t \ {m}]>>] ELSE f[t]) \in S
      OBVIOUS
    <3>1. f[t \ {m}] \in S
      BY <2>1, <2>4 DEF Folds
    <3>2. m \notin t => f[t] \in S
      BY <2>1, <2>3 DEF Folds
    <3> QED
      BY <2>2, <3>1, <3>2
  <2>6. ASSUME NEW t \in SUBSET (1 .. m)
        PROVE  new[t] = IF t = {} THEN base ELSE g[<<Max(t), new[t \ {Max(t)}]>>]
    <3>1. CASE m \in t
      <4>1. Max(t) = m
        <5>1. Max(t) \in t /\ \A y \in t : Max(t) >= y
          BY <2>2, <3>1, MaxPlace
        <5>2. \A y \in t : y \in Nat /\ y <= m
          BY <2>2
        <5>3. PICK x \in Nat : x = Max(t) /\ x <= m /\ x >= m
          BY <3>1, <5>1, <5>2
        <5> QED
          BY <2>2, <5>3
      <4>2. new[t \ {m}] = f[t \ {m}]
        BY <2>2
      <4>3. new[t] = g[<<m, f[t \ {m}]>>]
        BY <3>1
      <4> QED
        BY <3>1, <4>1, <4>2, <4>3
    <3>2. CASE m \notin t
      <4>1. t \in SUBSET (1 .. k) /\ new[t] = f[t]
        BY <2>3, <3>2
      <4>2. f[t] = IF t = {} THEN base ELSE g[<<Max(t), f[t \ {Max(t)}]>>]
        BY <2>1, <4>1 DEF Folds
      <4>3. new[t \ {Max(t)}] = f[t \ {Max(t)}]
        BY <3>2
      <4> QED
        BY <4>1, <4>2, <4>3
    <3> QED
      BY <3>1, <3>2
  <2> HIDE DEF new
  <2>7. Folds(new, k + 1)
    BY <2>5, <2>6 DEF Folds
  <2> QED
    BY <2>7
<1> HIDE DEF T
<1>3. n \in T
  BY <1>1, <1>2, SetInduction
<1>4. PICK f : Folds(f, n)
  BY <1>3 DEF T
<1> QED
  BY <1>4 DEF Folds, FoldsOf

-----------------------------------------------------------------------------
\* Orders: every element of a finite, strictly ordered set has a place of its own.

LEMMA RankExists ==
  ASSUME NEW S, IsFiniteSet(S), NEW below \in [S -> SUBSET S],
         \A x \in S : x \notin below[x],
         \A x, y, z \in S : x \in below[y] /\ y \in below[z] => x \in below[z],
         \A x, y \in S : x # y => x \in below[y] \/ y \in below[x]
  PROVE  /\ Cardinality(S) \in Nat
         /\ \A i \in 1 .. Cardinality(S) : \E x \in S : Cardinality(below[x]) = i - 1
         /\ \A x \in S : \E i \in 1 .. Cardinality(S) : Cardinality(below[x]) = i - 1
         /\ \A x, z \in S : Cardinality(below[x]) = Cardinality(below[z]) => x = z
         /\ \A x, z \in S : Cardinality(below[x]) < Cardinality(below[z]) => x \in below[z]
<1> DEFINE Below(x) == below[x]
           n == Cardinality(S)
           rank == [x \in S |-> Cardinality(Below(x))]
<1>1. n \in Nat
  BY FS_CardinalityType
<1>2. ASSUME NEW x \in S, NEW T \in SUBSET S, x \notin T
      PROVE  IsFiniteSet(T) /\ Cardinality(T) \in 0 .. n - 1
  <2>1. IsFiniteSet(T) /\ Cardinality(T) <= n /\ (n = Cardinality(T) => S = T)
    BY FS_Subset
  <2>2. Cardinality(T) \in Nat
    BY <2>1, FS_CardinalityType
  <2> QED
    BY <1>1, <1>2, <2>1, <2>2
<1>3. ASSUME NEW x \in S PROVE Below(x) \in SUBSET S /\ x \notin Below(x)
  OBVIOUS
<1>4. ASSUME NEW x \in S
      PROVE  IsFiniteSet(Below(x)) /\ Cardinality(Below(x)) \in 0 .. n - 1
  <2> HIDE DEF Below, n
  <2> QED
    BY <1>2, <1>3
<1>5. ASSUME NEW x \in S, NEW z \in S, x \in below[z]
      PROVE  Cardinality(Below(x)) < Cardinality(Below(z))
  <2>1. Below(x) \in SUBSET Below(z) /\ x \in Below(z) /\ x \notin Below(x)
    BY <1>5
  <2>2. IsFiniteSet(Below(x)) /\ IsFiniteSet(Below(z))
    BY <1>4
  <2> HIDE DEF Below
  <2>3. /\ Cardinality(Below(x)) <= Cardinality(Below(z))
        /\ Cardinality(Below(z)) = Cardinality(Below(x)) => Below(z) = Below(x)
    BY <2>1, <2>2, FS_Subset
  <2>4. Cardinality(Below(x)) \in Nat /\ Cardinality(Below(z)) \in Nat
    BY <2>2, FS_CardinalityType
  <2> QED
    BY <2>1, <2>3, <2>4
<1>6. ASSUME NEW x \in S, NEW z \in S, Cardinality(Below(x)) = Cardinality(Below(z)) PROVE x = z
  <2>1. ~(Cardinality(Below(x)) < Cardinality(Below(z))) /\ ~(Cardinality(Below(z)) < Cardinality(Below(x)))
    <3> HIDE DEF Below, n
    <3> QED
      BY <1>4, <1>6
  <2> HIDE DEF Below
  <2> QED
    BY <1>5, <2>1
<1> HIDE DEF Below
<1>7. rank \in Injection(S, 0 .. n - 1)
  BY <1>4, <1>6 DEF Injection, IsInjective
<1>8. IsFiniteSet(0 .. n - 1) /\ Cardinality(0 .. n - 1) = n
  <2> HIDE DEF n
  <2>1. 0 \in Int /\ n - 1 \in Int
    BY <1>1
  <2>2. /\ IsFiniteSet(0 .. n - 1)
        /\ Cardinality(0 .. n - 1) = IF 0 > n - 1 THEN 0 ELSE (n - 1) - 0 + 1
    BY <2>1, FS_Interval
  <2> QED
    BY <1>1, <2>2
<1> HIDE DEF rank
<1>9. rank \in Surjection(S, 0 .. n - 1)
  BY <1>7, <1>8, FS_Injection DEF n
<1>10. ASSUME NEW i \in 1 .. n PROVE \E x \in S : Cardinality(Below(x)) = i - 1
  <2>1. i - 1 \in 0 .. n - 1
    BY <1>1
  <2>2. PICK x \in S : rank[x] = i - 1
    BY <1>9, <2>1 DEF Surjection
  <2> QED
    BY <2>2 DEF rank
<1>11. ASSUME NEW x \in S PROVE \E i \in 1 .. n : Cardinality(Below(x)) = i - 1
  <2> DEFINE i == Cardinality(Below(x)) + 1
  <2>1. i \in 1 .. n /\ Cardinality(Below(x)) = i - 1
    BY <1>1, <1>4
  <2> QED
    BY <2>1
<1>12. ASSUME NEW x \in S, NEW z \in S, Cardinality(Below(x)) < Cardinality(Below(z))
       PROVE  x \in Below(z)
  <2>1. Cardinality(Below(x)) \in Nat /\ Cardinality(Below(z)) \in Nat
    BY <1>1, <1>4
  <2>2. x # z /\ ~(Cardinality(Below(z)) < Cardinality(Below(x)))
    BY <1>12, <2>1
  <2> QED
    BY <1>5, <2>2 DEF Below
<1> QED
  BY <1>1, <1>6, <1>10, <1>11, <1>12 DEF Below, n

LEMMA FunctionIsSequence ==
  ASSUME NEW S, NEW n \in Nat, NEW f \in [1 .. n -> S]
  PROVE  f \in Seq(S) /\ Len(f) = n
OBVIOUS

\* Sorting the places of a sequence leaves none out.
LEMMA SortedPlacesListAll ==
  ASSUME NEW n \in Nat, NEW values \in [1 .. n -> Int]
  PROVE  /\ SortedPlaces(values) \in [1 .. n -> 1 .. n]
         /\ \A j \in 1 .. n : \E i \in 1 .. n : SortedPlaces(values)[i] = j
         /\ \A i, j \in 1 .. n :
              i < j => values[SortedPlaces(values)[i]] <= values[SortedPlaces(values)[j]]
         /\ \A i, j \in 1 .. n : SortedPlaces(values)[i] = SortedPlaces(values)[j] => i = j
<1> DEFINE D == 1 .. n
           Earlier(j, k) == values[j] < values[k] \/ (values[j] = values[k] /\ j < k)
           below == [x \in D |-> {y \in D : Earlier(y, x)}]
<1>1. IsFiniteSet(D) /\ Cardinality(D) = n
  <2>1. 1 \in Int /\ n \in Int
    OBVIOUS
  <2> QED
    BY <2>1, FS_Interval
<1>2. /\ below \in [D -> SUBSET D]
      /\ \A x \in D : x \notin below[x]
      /\ \A x, y, z \in D : x \in below[y] /\ y \in below[z] => x \in below[z]
      /\ \A x, y \in D : x # y => x \in below[y] \/ y \in below[x]
  <2>1. \A x \in D : values[x] \in Int /\ x \in Nat
    OBVIOUS
  <2>2. below \in [D -> SUBSET D]
    OBVIOUS
  <2>3. \A x, y \in D : y \in below[x] <=> Earlier(y, x)
    OBVIOUS
  <2>4. \A x \in D : ~Earlier(x, x)
    BY <2>1
  <2>5. \A x, y, z \in D : Earlier(x, y) /\ Earlier(y, z) => Earlier(x, z)
    BY <2>1
  <2>6. \A x, y \in D : x # y => Earlier(x, y) \/ Earlier(y, x)
    BY <2>1
  <2> HIDE DEF below, D, Earlier
  <2> QED
    BY <2>2, <2>3, <2>4, <2>5, <2>6
<1> HIDE DEF D
<1>3. /\ \A i \in D : \E x \in D : Cardinality(below[x]) = i - 1
      /\ \A x \in D : \E i \in D : Cardinality(below[x]) = i - 1
      /\ \A x, z \in D : Cardinality(below[x]) = Cardinality(below[z]) => x = z
      /\ \A x, z \in D : Cardinality(below[x]) < Cardinality(below[z]) => x \in below[z]
  <2> HIDE DEF below
  <2>1. /\ \A i \in 1 .. Cardinality(D) : \E x \in D : Cardinality(below[x]) = i - 1
        /\ \A x \in D : \E i \in 1 .. Cardinality(D) : Cardinality(below[x]) = i - 1
        /\ \A x, z \in D : Cardinality(below[x]) = Cardinality(below[z]) => x = z
        /\ \A x, z \in D : Cardinality(below[x]) < Cardinality(below[z]) => x \in below[z]
    <3>1. IsFiniteSet(D)
      BY <1>1
    <3> QED
      BY <1>2, <3>1, RankExists
  <2> QED
    BY <1>1, <2>1 DEF D
<1>4. SortedPlaces(values) =
        [i \in D |-> CHOOSE x \in D : Cardinality({y \in D : Earlier(y, x)}) = i - 1]
  <2>1. DOMAIN values = D
    BY DEF D
  <2> QED
    BY <1>1, <2>1 DEF SortedPlaces, Ranked, D
<1>5. /\ \A x \in D : Cardinality(below[x]) = Cardinality({y \in D : Earlier(y, x)})
      /\ \A x, y \in D : y \in below[x] => values[y] <= values[x]
  <2>1. \A x \in D : values[x] \in Int
    BY DEF D
  <2> QED
    BY <2>1
<1> HIDE DEF below, Earlier
<1>6. ASSUME NEW i \in D
      PROVE  /\ SortedPlaces(values)[i] \in D
             /\ Cardinality(below[SortedPlaces(values)[i]]) = i - 1
  <2>1. \E x \in D : Cardinality({y \in D : Earlier(y, x)}) = i - 1
    BY <1>3, <1>5
  <2>2. SortedPlaces(values)[i] = CHOOSE x \in D : Cardinality({y \in D : Earlier(y, x)}) = i - 1
    BY <1>4
  <2> QED
    BY <1>5, <2>1, <2>2
<1>7. ASSUME NEW j \in D PROVE \E i \in D : SortedPlaces(values)[i] = j
  <2>1. PICK i \in D : Cardinality(below[j]) = i - 1
    BY <1>3
  <2> QED
    BY <1>3, <1>6, <2>1
<1>8. ASSUME NEW i \in D, NEW j \in D, i < j
      PROVE  values[SortedPlaces(values)[i]] <= values[SortedPlaces(values)[j]]
  <2>1. i - 1 < j - 1
    BY <1>8 DEF D
  <2> QED
    BY <1>3, <1>5, <1>6, <2>1
<1>9. ASSUME NEW i \in D, NEW j \in D, SortedPlaces(values)[i] = SortedPlaces(values)[j]
      PROVE  i = j
  <2>1. i - 1 = j - 1
    BY <1>6, <1>9
  <2> QED
    BY <2>1 DEF D
<1> QED
  BY <1>4, <1>6, <1>7, <1>8, <1>9 DEF D

\* The rarest terms come first, and no term is left out.
LEMMA TermOrderListsAll ==
  ASSUME IsIndices(indices), NEW terms \in Seq(Terms)
  PROVE  /\ TermOrder(terms) \in [1 .. Len(terms) -> 1 .. Len(terms)]
         /\ \A j \in 1 .. Len(terms) : \E i \in 1 .. Len(terms) : TermOrder(terms)[i] = j
<1> DEFINE size == [i \in DOMAIN terms |-> Cardinality(indices[terms[i]].ids)]
<1>1. size \in [1 .. Len(terms) -> Int]
  <2> SUFFICES ASSUME NEW i \in 1 .. Len(terms) PROVE Cardinality(indices[terms[i]].ids) \in Nat
    OBVIOUS
  <2>1. terms[i] \in Terms
    OBVIOUS
  <2>2. indices[terms[i]].ids \in SUBSET Tokens
    BY <2>1 DEF IsIndices
  <2>3. IsFiniteSet(Tokens)
    <3>1. 0 \in Int /\ NumTokens - 1 \in Int
      BY CorpusShape
    <3> QED
      BY <3>1, FS_Interval DEF Tokens
  <2>4. IsFiniteSet(indices[terms[i]].ids)
    BY <2>2, <2>3, FS_Subset
  <2> QED
    BY <2>4, FS_CardinalityType
<1>2. TermOrder(terms) = SortedPlaces(size)
  BY DEF TermOrder
<1> HIDE DEF size
<1>3. PICK n \in Nat : n = Len(terms)
  OBVIOUS
<1>4. size \in [1 .. n -> Int]
  BY <1>1, <1>3
<1>5. /\ SortedPlaces(size) \in [1 .. n -> 1 .. n]
      /\ \A j \in 1 .. n : \E i \in 1 .. n : SortedPlaces(size)[i] = j
  BY <1>4, SortedPlacesListAll
<1> QED
  BY <1>2, <1>3, <1>5

-----------------------------------------------------------------------------
\* The candidates of a span are places it is found at.

IndexData == [kind : Kinds, ids : SUBSET Int, position : Int]
Ranges == [start : Int, end : Int]

LEMMA AndIsSound ==
  ASSUME NEW first \in IndexData, NEW second \in IndexData
  PROVE  /\ AndIndices(first, second) \in IndexData
         /\ \A y \in AndIndices(first, second).ids :
              /\ y - AndIndices(first, second).position + first.position \in first.ids
              /\ y - AndIndices(first, second).position + second.position \in second.ids
         /\ \/ AndIndices(first, second).ids \subseteq first.ids
            \/ AndIndices(first, second).ids \subseteq second.ids
<1> DEFINE offset == first.position - second.position
           both == AndIndices(first, second)
<1>1. offset \in Int /\ first.position \in Int /\ second.position \in Int
  BY DEF IndexData
<1>2. CASE first.kind = "List" /\ second.kind = "BitMask"
  <2>1. both = [kind |-> "List", position |-> second.position,
                ids |-> {y \in second.ids : y + offset \in first.ids}]
    BY <1>2 DEF AndIndices
  <2>2. both \in IndexData
    BY <2>1 DEF IndexData, Kinds
  <2>3. ASSUME NEW y \in both.ids
        PROVE  /\ y - both.position + first.position \in first.ids
               /\ y - both.position + second.position \in second.ids
    <3>1. y \in Int /\ y \in second.ids /\ y + offset \in first.ids /\ both.position = second.position
      BY <2>1 DEF IndexData
    <3>2. y - both.position + first.position = y + offset /\ y - both.position + second.position = y
      BY <1>1, <3>1
    <3> QED
      BY <3>1, <3>2
  <2>4. both.ids \subseteq second.ids
    BY <2>1
  <2> QED
    BY <2>2, <2>3, <2>4
<1>3. CASE ~(first.kind = "List" /\ second.kind = "BitMask")
  <2>1. both = [kind |-> second.kind, position |-> first.position,
                ids |-> {x \in first.ids : x - offset \in second.ids}]
    BY <1>3 DEF AndIndices
  <2>2. both \in IndexData
    BY <2>1 DEF IndexData, Kinds
  <2>3. ASSUME NEW y \in both.ids
        PROVE  /\ y - both.position + first.position \in first.ids
               /\ y - both.position + second.position \in second.ids
    <3>1. y \in Int /\ y \in first.ids /\ y - offset \in second.ids /\ both.position = first.position
      BY <2>1 DEF IndexData
    <3>2. y - both.position + first.position = y /\ y - both.position + second.position = y - offset
      BY <1>1, <3>1
    <3> QED
      BY <3>1, <3>2
  <2>4. both.ids \subseteq first.ids
    BY <2>1
  <2> QED
    BY <2>2, <2>3, <2>4
<1> QED
  BY <1>2, <1>3

LEMMA AndIsComplete ==
  ASSUME NEW first \in IndexData, NEW second \in IndexData, NEW t \in Int,
         t + first.position \in first.ids, t + second.position \in second.ids
  PROVE  /\ t + AndIndices(first, second).position \in AndIndices(first, second).ids
         /\ AndIndices(first, second).position \in {first.position, second.position}
<1> DEFINE offset == first.position - second.position
           both == AndIndices(first, second)
<1>1. PICK p \in Int, q \in Int : p = first.position /\ q = second.position /\ offset = p - q
  BY DEF IndexData
<1>2. CASE first.kind = "List" /\ second.kind = "BitMask"
  <2>1. both = [kind |-> "List", position |-> second.position,
                ids |-> {y \in second.ids : y + offset \in first.ids}]
    BY <1>2 DEF AndIndices
  <2>2. (t + q) + offset = t + p
    BY <1>1
  <2> QED
    BY <1>1, <2>1, <2>2
<1>3. CASE ~(first.kind = "List" /\ second.kind = "BitMask")
  <2>1. both = [kind |-> second.kind, position |-> first.position,
                ids |-> {x \in first.ids : x - offset \in second.ids}]
    BY <1>3 DEF AndIndices
  <2>2. (t + p) - offset = t + q
    BY <1>1
  <2> QED
    BY <1>1, <2>1, <2>2
<1> QED
  BY <1>2, <1>3

LEMMA AndPosition ==
  ASSUME NEW first, NEW second
  PROVE  AndIndices(first, second).position \in {first.position, second.position}
BY DEF AndIndices

\* A range that all tokens are in loses none.
LEMMA SliceIsWhole ==
  ASSUME NEW index \in [kind : Kinds, ids : SUBSET Tokens], NEW range \in Ranges,
         NEW position \in Int, Tokens \subseteq Ids(range), range.end \notin Tokens
  PROVE  Slice(index, range, position).ids = index.ids
<1>1. index.ids \subseteq Tokens
  OBVIOUS
<1>2. range.end \notin index.ids /\ index.ids \cap Ids(range) = index.ids
  BY <1>1
<1> QED
  BY <1>2 DEF Slice

LEMMA SliceIsPart ==
  ASSUME NEW index \in [kind : Kinds, ids : SUBSET Tokens], NEW range \in Ranges,
         NEW position \in Int
  PROVE  /\ Slice(index, range, position) \in IndexData
         /\ Slice(index, range, position).position = position
         /\ Slice(index, range, position).ids \subseteq index.ids
         /\ Slice(index, range, position).ids \subseteq Ids(range)
<1>1. Tokens \subseteq Int
  BY CorpusShape DEF Tokens
<1> QED
  BY <1>1 DEF Slice, IndexData

AndRuns(slices, base, seq) ==
  {h \in [0 .. Len(seq) -> IndexData] :
     /\ h[0] = base
     /\ \A k \in 1 .. Len(seq) : h[k] = AndIndices(h[k - 1], slices[seq[k]])
     /\ FoldLeft(LAMBDA data, i : AndIndices(data, slices[i]), base, seq) = h[Len(seq)]}

LEMMA AndFold ==
  ASSUME NEW m \in Nat, NEW slices \in [1 .. m -> IndexData], NEW base \in IndexData,
         NEW seq \in Seq(1 .. m)
  PROVE  AndRuns(slices, base, seq) # {}
<1>1. PICK n \in Nat : n = Len(seq) /\ DOMAIN seq = 1 .. n
  OBVIOUS
<1> DEFINE S == IndexData
           g == [ks \in (1 .. n) \X S |-> AndIndices(ks[2], slices[seq[ks[1]]])]
           IsFold(f) == f = [t \in SUBSET (1 .. n) |->
                               IF t = {} THEN base
                               ELSE AndIndices(f[t \ {Max(t)}], slices[seq[Max(t)]])]
           iter == CHOOSE f : IsFold(f)
<1>2. g \in [(1 .. n) \X S -> S]
  <2> SUFFICES ASSUME NEW k \in 1 .. n, NEW s \in S PROVE AndIndices(s, slices[seq[k]]) \in S
    OBVIOUS
  <2>1. slices[seq[k]] \in IndexData
    BY <1>1
  <2> QED
    BY <2>1, AndIsSound
<1> HIDE DEF S
<1>3. base \in S
  BY DEF S
<1>4. PICK f \in FoldsOf(S, base, n, g) : TRUE
  <2> HIDE DEF g
  <2> QED
    BY <1>2, <1>3, FoldExists
<1>5. IsFold(f)
  <2>0. /\ f \in [SUBSET (1 .. n) -> S]
        /\ f[{}] = base
        /\ \A t \in SUBSET (1 .. n) : t # {} => f[t] = g[<<Max(t), f[t \ {Max(t)}]>>]
    BY <1>4 DEF FoldsOf
  <2> SUFFICES ASSUME NEW t \in SUBSET (1 .. n), t # {}
               PROVE  f[t] = AndIndices(f[t \ {Max(t)}], slices[seq[Max(t)]])
    BY <2>0
  <2>1. Max(t) \in 1 .. n
    BY MaxPlace
  <2>2. f[t] = g[<<Max(t), f[t \ {Max(t)}]>>] /\ f[t \ {Max(t)}] \in S
    BY <2>0
  <2> QED
    BY <2>1, <2>2
<1>6. iter = [t \in SUBSET (1 .. n) |->
                IF t = {} THEN base ELSE AndIndices(iter[t \ {Max(t)}], slices[seq[Max(t)]])]
  <2>1. IsFold(iter)
    <3> HIDE DEF IsFold
    <3> QED
      BY <1>5
  <2> QED
    BY <2>1
<1>7. FoldLeft(LAMBDA data, i : AndIndices(data, slices[i]), base, seq) = iter[1 .. n]
  BY <1>1 DEF FoldLeft, MapThenFoldSet
<1> HIDE DEF iter
<1> DEFINE h == [k \in 0 .. n |-> iter[1 .. k]]
<1>8. h[0] = base
  <2>1. 1 .. 0 = {}
    OBVIOUS
  <2> QED
    BY <1>6, <2>1
<1>9. ASSUME NEW k \in 1 .. n PROVE h[k] = AndIndices(h[k - 1], slices[seq[k]])
  <2>1. k \in Nat \ {0} /\ 1 .. k \in SUBSET (1 .. n)
    OBVIOUS
  <2>2. Max(1 .. k) = k /\ (1 .. k) \ {k} = 1 .. (k - 1) /\ ~(1 .. k = {})
    BY <2>1, PlacesUpTo
  <2>3. iter[1 .. k] = AndIndices(iter[1 .. (k - 1)], slices[seq[k]])
    BY <1>6, <2>1, <2>2
  <2>4. h[k] = iter[1 .. k] /\ h[k - 1] = iter[1 .. (k - 1)]
    OBVIOUS
  <2> QED
    BY <2>3, <2>4
<1>10. h[n] = iter[1 .. n]
  OBVIOUS
<1>11. h \in [0 .. n -> IndexData]
  <2>1. \A k \in 1 .. n : h[k - 1] \in IndexData => h[k] \in IndexData
    <3> SUFFICES ASSUME NEW k \in 1 .. n, h[k - 1] \in IndexData PROVE h[k] \in IndexData
      OBVIOUS
    <3>1. slices[seq[k]] \in IndexData
      BY <1>1
    <3> HIDE DEF h
    <3> QED
      BY <1>9, <3>1, AndIsSound
  <2>2. DOMAIN h = 0 .. n /\ h = [k \in 0 .. n |-> h[k]]
    OBVIOUS
  <2> HIDE DEF h
  <2>3. \A k \in 0 .. n : h[k] \in IndexData
    BY <1>8, <2>1, StepInduction
  <2> QED
    BY <2>2, <2>3
<1> HIDE DEF h
<1> QED
  BY <1>1, <1>7, <1>8, <1>9, <1>10, <1>11 DEF AndRuns

\* Every term of a span is where a candidate of it says, and no hard break is
\* inside the span.
LEMMA SpanCandidatesAreThere ==
  ASSUME IsIndices(indices), NEW range \in Ranges, NEW terms \in Seq(Terms) \ {<<>>}
  PROVE  /\ SpanCandidates(terms, range) \in IndexData
         /\ \A y \in SpanCandidates(terms, range).ids :
              SpanAt([terms |-> terms], y - SpanCandidates(terms, range).position)
         /\ SpanCandidates(terms, range).ids \subseteq Ids(range)
         /\ SpanCandidates(terms, range).position \in 0 .. Len(terms) - 1
         /\ Tokens \subseteq Ids(range) /\ range.end \notin Tokens =>
              \A t \in Int : SpanAt([terms |-> terms], t) =>
                t + SpanCandidates(terms, range).position \in SpanCandidates(terms, range).ids
<1> DEFINE slices == [i \in DOMAIN terms |-> Slice(indices[terms[i]], range, i - 1)]
           order == TermOrder(terms)
           base == slices[Head(order)]
           all == FoldLeft(LAMBDA data, i : AndIndices(data, slices[i]), base, Tail(order))
<1>1. PICK n \in Nat \ {0} : n = Len(terms) /\ DOMAIN terms = 1 .. n
  OBVIOUS
<1>2. ASSUME NEW i \in 1 .. n
      PROVE  /\ slices[i] \in IndexData
             /\ slices[i].position = i - 1
             /\ slices[i].ids \subseteq indices[terms[i]].ids
             /\ slices[i].ids \subseteq Ids(range)
             /\ Tokens \subseteq Ids(range) /\ range.end \notin Tokens =>
                  slices[i].ids = indices[terms[i]].ids
  <2>1. terms[i] \in Terms
    BY <1>1
  <2>2. indices[terms[i]] \in [kind : Kinds, ids : SUBSET Tokens]
    BY <2>1 DEF IsIndices
  <2>3. slices[i] = Slice(indices[terms[i]], range, i - 1) /\ i - 1 \in Int
    BY <1>1
  <2> HIDE DEF slices
  <2> QED
    BY <2>2, <2>3, SliceIsPart, SliceIsWhole
<1>3. slices \in [1 .. n -> IndexData]
  BY <1>1, <1>2
<1>4. order \in [1 .. n -> 1 .. n] /\ \A j \in 1 .. n : \E i \in 1 .. n : order[i] = j
  BY <1>1, TermOrderListsAll
<1>5. SpanCandidates(terms, range) = IF n > 1 THEN FilterBreaks(all, n, range) ELSE all
  BY <1>1 DEF SpanCandidates
<1> HIDE DEF slices, order
<1>6. /\ Head(order) = order[1]
      /\ Tail(order) \in Seq(1 .. n)
      /\ Len(Tail(order)) = n - 1
      /\ \A k \in 1 .. n - 1 : Tail(order)[k] = order[k + 1]
  <2>1. order \in Seq(1 .. n) /\ Len(order) = n
    BY <1>4, FunctionIsSequence
  <2>2. order # <<>>
    BY <2>1
  <2> QED
    BY <2>1, <2>2, HeadTailProperties
<1>7. PICK h \in AndRuns(slices, base, Tail(order)) : TRUE
  <2>1. base \in IndexData
    BY <1>3, <1>4, <1>6
  <2> HIDE DEF base
  <2> QED
    BY <1>3, <1>6, <2>1, AndFold
<1>8. /\ h \in [0 .. n - 1 -> IndexData]
      /\ h[0] = slices[order[1]]
      /\ \A k \in 1 .. n - 1 : h[k] = AndIndices(h[k - 1], slices[order[k + 1]])
      /\ all = h[n - 1]
  BY <1>6, <1>7 DEF AndRuns
<1> HIDE DEF all
<1> DEFINE Covered(k) == \A y \in h[k].ids : \A j \in 1 .. k + 1 :
                           y - h[k].position + (order[j] - 1) \in slices[order[j]].ids
           T == {k \in Nat : k <= n - 1 => Covered(k)}
<1>9. Covered(0)
  <2> SUFFICES ASSUME NEW y \in h[0].ids
               PROVE  y - h[0].position + (order[1] - 1) \in slices[order[1]].ids
    OBVIOUS
  <2>1. order[1] \in 1 .. n
    BY <1>4
  <2>2. h[0].position = order[1] - 1 /\ h[0] = slices[order[1]] /\ slices[order[1]] \in IndexData
    BY <1>2, <1>8, <2>1
  <2>3. y \in Int
    BY <2>2 DEF IndexData
  <2> QED
    BY <2>1, <2>2, <2>3
<1>10. ASSUME NEW k \in Nat, k + 1 <= n - 1, Covered(k) PROVE Covered(k + 1)
  <2> SUFFICES ASSUME NEW y \in h[k + 1].ids, NEW j \in 1 .. k + 2
               PROVE  y - h[k + 1].position + (order[j] - 1) \in slices[order[j]].ids
    OBVIOUS
  <2>1. k + 1 \in 1 .. n - 1 /\ (k + 1) - 1 = k /\ (k + 1) + 1 = k + 2 /\ k + 2 \in 1 .. n
        /\ k \in 0 .. n - 1 /\ k + 1 \in 0 .. n - 1
    BY <1>10
  <2>2. h[k + 1] = AndIndices(h[k], slices[order[k + 2]])
    BY <1>8, <2>1
  <2>3. order[k + 2] \in 1 .. n
    BY <1>4, <2>1
  <2>4. h[k] \in IndexData /\ h[k + 1] \in IndexData /\ slices[order[k + 2]] \in IndexData
    BY <1>3, <1>8, <2>1, <2>3
  <2>5. /\ y - h[k + 1].position + h[k].position \in h[k].ids
        /\ y - h[k + 1].position + slices[order[k + 2]].position \in slices[order[k + 2]].ids
    BY <2>2, <2>4, AndIsSound
  <2>6. y \in Int /\ h[k].position \in Int /\ h[k + 1].position \in Int
    BY <2>4 DEF IndexData
  <2>7. CASE j = k + 2
    BY <1>2, <2>3, <2>5, <2>7
  <2>8. CASE j \in 1 .. k + 1
    <3> DEFINE z == y - h[k + 1].position + h[k].position
    <3>1. z - h[k].position + (order[j] - 1) \in slices[order[j]].ids
      BY <1>10, <2>5, <2>8
    <3>2. j \in 1 .. n
      BY <2>1, <2>8
    <3>3. order[j] \in Int
      BY <1>4, <3>2
    <3>4. z - h[k].position + (order[j] - 1) = y - h[k + 1].position + (order[j] - 1)
      BY <2>6, <3>3
    <3> QED
      BY <3>1, <3>4
  <2> QED
    BY <2>7, <2>8
<1>11. Covered(n - 1)
  <2> HIDE DEF Covered
  <2>1. 0 \in T /\ \A k \in Nat : k \in T => k + 1 \in T
    BY <1>9, <1>10
  <2> HIDE DEF T
  <2>2. n - 1 \in T
    BY <2>1, SetInduction
  <2> QED
    BY <2>2 DEF T
<1> DEFINE Spots == {t \in Int : \A i \in 1 .. n : t + (i - 1) \in slices[i].ids}
<1>12. /\ all \in IndexData /\ all.ids \subseteq Ids(range)
       /\ all.position \in 0 .. n - 1
       /\ \A t \in Spots : t + all.position \in all.ids
  <2> DEFINE S == {data \in IndexData : /\ data.ids \subseteq Ids(range)
                                        /\ data.position \in 0 .. n - 1
                                        /\ \A t \in Spots : t + data.position \in data.ids}
  <2>1. ASSUME NEW i \in 1 .. n PROVE slices[i] \in S
    <3>1. /\ slices[i] \in IndexData /\ slices[i].ids \subseteq Ids(range)
          /\ slices[i].position = i - 1 /\ i - 1 \in 0 .. n - 1
      BY <1>2
    <3> QED
      BY <3>1
  <2>2. h[0] \in S
    <3>1. order[1] \in 1 .. n
      BY <1>4
    <3>2. slices[order[1]] \in S
      BY <2>1, <3>1
    <3> QED
      BY <1>8, <3>2
  <2>3. ASSUME NEW k \in 1 .. n - 1, h[k - 1] \in S PROVE h[k] \in S
    <3>1. order[k + 1] \in 1 .. n
      <4>1. k + 1 \in 1 .. n
        OBVIOUS
      <4> QED
        BY <1>4, <4>1
    <3>2. slices[order[k + 1]] \in S
      BY <2>1, <3>1
    <3>3. h[k] = AndIndices(h[k - 1], slices[order[k + 1]])
      BY <1>8
    <3>4. /\ h[k] \in IndexData
          /\ h[k].ids \subseteq h[k - 1].ids \/ h[k].ids \subseteq slices[order[k + 1]].ids
      BY <2>3, <3>2, <3>3, AndIsSound
    <3>5. h[k].position \in {h[k - 1].position, slices[order[k + 1]].position}
      BY <3>3, AndPosition
    <3>6. ASSUME NEW t \in Spots PROVE t + h[k].position \in h[k].ids
      <4>1. t \in Int /\ h[k - 1] \in IndexData /\ slices[order[k + 1]] \in IndexData
        BY <2>3, <3>2
      <4>2. /\ t + h[k - 1].position \in h[k - 1].ids
            /\ t + slices[order[k + 1]].position \in slices[order[k + 1]].ids
        <5> HIDE DEF Spots
        <5> QED
          BY <2>3, <3>2
      <4> QED
        BY <3>3, <4>1, <4>2, AndIsComplete
    <3> HIDE DEF Spots
    <3> QED
      BY <2>3, <3>2, <3>4, <3>5, <3>6
  <2> HIDE DEF S
  <2>4. n - 1 \in Nat /\ n - 1 \in 0 .. n - 1
    OBVIOUS
  <2>5. h[n - 1] \in S
    BY <2>2, <2>3, <2>4, StepInduction
  <2> QED
    BY <1>8, <2>5 DEF S
<1> HIDE DEF Spots
<1>13. ASSUME NEW y \in all.ids, NEW i \in 1 .. n
       PROVE  y - all.position + (i - 1) \in slices[i].ids
  <2>1. PICK j \in 1 .. n : order[j] = i
    BY <1>4
  <2>2. y - h[n - 1].position + (order[j] - 1) \in slices[order[j]].ids
    BY <1>8, <1>11
  <2> QED
    BY <1>8, <2>1, <2>2
<1>14. ASSUME NEW t \in Int, \A i \in 1 .. n : t + (i - 1) \in slices[i].ids,
              \A b \in HardBreaks \cap Ids(range) : n > 1 => b \notin t .. t + n - 2
       PROVE  SpanAt([terms |-> terms], t)
  <2>1. ASSUME NEW i \in 1 .. n PROVE t + i - 1 \in indices[terms[i]].ids
    <3>1. t + (i - 1) = t + i - 1
      OBVIOUS
    <3>2. t + (i - 1) \in indices[terms[i]].ids
      BY <1>2, <1>14
    <3> QED
      BY <3>1, <3>2
  <2>2. ASSUME NEW b \in HardBreaks PROVE b \notin t .. t + n - 2
    <3> SUFFICES ASSUME b \in t .. t + n - 2 PROVE FALSE
      OBVIOUS
    <3>1. b \in Int /\ t <= b /\ b <= t + n - 2 /\ n > 1
      OBVIOUS
    <3>2. t + (1 - 1) \in slices[1].ids /\ t + (n - 1) \in slices[n].ids
      BY <1>14
    <3>3. t + (1 - 1) \in Ids(range) /\ t + (n - 1) \in Ids(range)
      BY <1>2, <3>2
    <3>4. range.start <= t /\ t + (n - 1) <= range.end - 1
      BY <3>3 DEF Ids, Ranges
    <3>5. b \in Ids(range)
      BY <3>1, <3>4 DEF Ids, Ranges
    <3> QED
      BY <1>14, <3>1, <3>5
  <2> QED
    BY <1>1, <2>1, <2>2 DEF SpanAt
<1> DEFINE Whole == Tokens \subseteq Ids(range) /\ range.end \notin Tokens
<1>17. ASSUME Whole, NEW t \in Int, SpanAt([terms |-> terms], t)
       PROVE  /\ t \in Spots /\ t \in Ids(range)
              /\ \A b \in HardBreaks : b \notin t .. t + n - 2
  <2>1. /\ \A i \in 1 .. n : t + i - 1 \in indices[terms[i]].ids
        /\ \A b \in HardBreaks : b \notin t .. t + n - 2
    BY <1>1, <1>17 DEF SpanAt
  <2>2. \A i \in 1 .. n : slices[i].ids = indices[terms[i]].ids /\ t + (i - 1) = t + i - 1
    BY <1>2, <1>17
  <2>3. \A i \in 1 .. n : t + (i - 1) \in slices[i].ids
    BY <2>1, <2>2
  <2>4. 1 \in 1 .. n /\ t + (1 - 1) = t
    OBVIOUS
  <2>5. t \in Ids(range)
    BY <1>2, <2>3, <2>4
  <2> QED
    BY <2>1, <2>3, <2>5 DEF Spots
<1>15. CASE n = 1
  <2>1. SpanCandidates(terms, range) = all
    BY <1>5, <1>15
  <2>2. ASSUME NEW y \in all.ids PROVE SpanAt([terms |-> terms], y - all.position)
    <3>1. y \in Int /\ all.position \in Int /\ y - all.position \in Int
      BY <1>12 DEF IndexData
    <3> QED
      BY <1>13, <1>14, <1>15, <3>1
  <2> HIDE DEF Whole
  <2>3. Whole => \A t \in Int : SpanAt([terms |-> terms], t) => t + all.position \in all.ids
    BY <1>12, <1>17
  <2> QED
    BY <1>1, <1>12, <2>1, <2>2, <2>3 DEF Whole
<1>16. CASE n > 1
  <2> DEFINE free == [kind |-> "BitMask", position |-> 0,
                      ids |-> {x \in Ids(range) :
                                 \A b \in HardBreaks \cap Ids(range) : b \notin x .. x + n - 2}]
             both == AndIndices(all, free)
  <2>1. SpanCandidates(terms, range) = both
    BY <1>5, <1>16 DEF FilterBreaks
  <2>2. free \in IndexData /\ free.position = 0 /\ free.ids \subseteq Ids(range)
    BY DEF IndexData, Kinds, Ids, Ranges
  <2>3. \A x \in free.ids : \A b \in HardBreaks \cap Ids(range) : b \notin x .. x + n - 2
    OBVIOUS
  <2> HIDE DEF free
  <2>4. /\ both \in IndexData
        /\ \A y \in both.ids : /\ y - both.position + all.position \in all.ids
                               /\ y - both.position + free.position \in free.ids
        /\ both.ids \subseteq all.ids \/ both.ids \subseteq free.ids
    BY <1>12, <2>2, AndIsSound
  <2> HIDE DEF both
  <2>5. ASSUME NEW y \in both.ids PROVE SpanAt([terms |-> terms], y - both.position)
    <3> DEFINE t == y - both.position
               x == t + all.position
    <3>1. y \in Int /\ both.position \in Int /\ all.position \in Int
      BY <1>12, <2>4 DEF IndexData
    <3>2. t \in Int /\ x \in all.ids /\ x - all.position = t /\ t + free.position = t
      BY <2>2, <2>4, <3>1
    <3>3. t \in free.ids
      BY <2>4, <3>2
    <3>4. \A i \in 1 .. n : t + (i - 1) \in slices[i].ids
      BY <1>13, <3>2
    <3>5. \A b \in HardBreaks \cap Ids(range) : b \notin t .. t + n - 2
      BY <2>3, <3>3
    <3> HIDE DEF t
    <3>6. SpanAt([terms |-> terms], t)
      BY <1>14, <3>2, <3>4, <3>5
    <3> QED
      BY <3>6 DEF t
  <2>6. both.position \in 0 .. n - 1
    <3>1. both.position \in {all.position, free.position}
      BY AndPosition DEF both
    <3> QED
      BY <1>12, <1>16, <2>2, <3>1
  <2>7. ASSUME Whole, NEW t \in Int, SpanAt([terms |-> terms], t)
        PROVE  t + both.position \in both.ids
    <3>1. t \in Spots /\ t \in Ids(range) /\ \A b \in HardBreaks : b \notin t .. t + n - 2
      BY <1>17, <2>7
    <3>2. t + all.position \in all.ids
      BY <1>12, <3>1
    <3>3. t + free.position \in free.ids
      <4>1. t \in free.ids
        BY <3>1 DEF free
      <4> QED
        BY <2>2, <4>1
    <3> QED
      BY <1>12, <2>2, <3>2, <3>3, AndIsComplete DEF both
  <2> HIDE DEF Whole
  <2>8. Whole => \A t \in Int : SpanAt([terms |-> terms], t) => t + both.position \in both.ids
    BY <2>7
  <2> QED
    BY <1>1, <1>12, <2>1, <2>2, <2>4, <2>5, <2>6, <2>8 DEF Whole
<1> QED
  BY <1>1, <1>15, <1>16

-----------------------------------------------------------------------------
\* The candidates of the query are candidates of its first span.

LEMMA FuzzyIsPart ==
  ASSUME NEW first \in IndexData, NEW second, NEW distance, NEW directed, NEW range
  PROVE  /\ FuzzyMatches(first, second, distance, directed, range) \in IndexData
         /\ FuzzyMatches(first, second, distance, directed, range).ids \subseteq first.ids
         /\ FuzzyMatches(first, second, distance, directed, range).position = first.position
<1> DEFINE offset == first.position - second.position
           Near(x, y) ==
             CASE second.kind = "BitMask" ->
                    NearInBitmask(x, y, offset, distance, directed, range)
               [] first.kind = "List" /\ second.kind = "List" ->
                    NearInLists(x, y, offset, distance, directed)
               [] first.kind = "BitMask" /\ second.kind = "List" ->
                    NearInSlice(x, y, offset, distance, directed, range)
           near == {x \in first.ids : \E y \in second.ids : Near(x, y)}
<1>1. FuzzyMatches(first, second, distance, directed, range) = [first EXCEPT !.ids = near]
  BY DEF FuzzyMatches
<1>2. near \subseteq first.ids
  OBVIOUS
<1> HIDE DEF near
<1> QED
  BY <1>1, <1>2 DEF IndexData

\* The candidates of the spans from the k-th on, for every k.
Chains(spans, slices, range) ==
  {c \in [1 .. Len(spans) -> IndexData] :
     /\ c[Len(spans)] = slices[Len(spans)]
     /\ \A k \in 1 .. Len(spans) - 1 :
          c[k] = FuzzyMatches(slices[k], c[k + 1], spans[k + 1].distance,
                              spans[k + 1].directed, range)
     /\ c[1] = QueryCandidates(spans, slices, range)}

LEMMA ChainOfSpans ==
  ASSUME NEW spans \in Seq(Spans) \ {<<>>}, NEW range,
         NEW slices \in [1 .. Len(spans) -> IndexData]
  PROVE  Chains(spans, slices, range) # {}
<1>1. PICK m \in Nat \ {0} : m = Len(spans)
  OBVIOUS
<1>2. PICK n \in Nat : n = m - 1
  OBVIOUS
<1> DEFINE S == IndexData
           base == slices[m]
           seq == [i \in 1 .. n |-> m - i]
           Combine(previous, k) ==
             FuzzyMatches(slices[k], previous, spans[k + 1].distance, spans[k + 1].directed, range)
           g == [ks \in (1 .. n) \X S |-> Combine(ks[2], seq[ks[1]])]
           IsFold(f) == f = [t \in SUBSET (1 .. n) |->
                               IF t = {} THEN base
                               ELSE Combine(f[t \ {Max(t)}], seq[Max(t)])]
           iter == CHOOSE f : IsFold(f)
<1>3. \A k \in 1 .. n : seq[k] \in 1 .. m /\ seq[k] = m - k
  BY <1>2
<1>4. ASSUME NEW k \in 1 .. n, NEW s
      PROVE  /\ Combine(s, seq[k]) \in S
             /\ Combine(s, seq[k]).ids \subseteq slices[seq[k]].ids
             /\ Combine(s, seq[k]).position = slices[seq[k]].position
  <2>1. slices[seq[k]] \in IndexData
    BY <1>1, <1>3
  <2> HIDE DEF seq
  <2> QED
    BY <2>1, FuzzyIsPart
<1> HIDE DEF seq, Combine
<1>5. g \in [(1 .. n) \X S -> S]
  BY <1>4
<1>6. base \in S
  BY <1>1
<1> HIDE DEF S, base
<1>7. PICK f \in FoldsOf(S, base, n, g) : TRUE
  <2> HIDE DEF g
  <2>1. FoldsOf(S, base, n, g) # {}
    BY <1>5, <1>6, FoldExists
  <2> QED
    BY <2>1
<1>8. IsFold(f)
  <2>1. /\ f \in [SUBSET (1 .. n) -> S]
        /\ f[{}] = base
        /\ \A t \in SUBSET (1 .. n) : t # {} => f[t] = g[<<Max(t), f[t \ {Max(t)}]>>]
    BY <1>7 DEF FoldsOf
  <2> SUFFICES ASSUME NEW t \in SUBSET (1 .. n), t # {}
               PROVE  f[t] = Combine(f[t \ {Max(t)}], seq[Max(t)])
    BY <2>1
  <2>2. Max(t) \in 1 .. n
    BY MaxPlace
  <2>3. f[t] = g[<<Max(t), f[t \ {Max(t)}]>>] /\ f[t \ {Max(t)}] \in S
    BY <2>1
  <2> QED
    BY <2>2, <2>3
<1>9. iter = [t \in SUBSET (1 .. n) |->
                IF t = {} THEN base ELSE Combine(iter[t \ {Max(t)}], seq[Max(t)])]
  <2>1. IsFold(iter)
    <3> HIDE DEF IsFold
    <3> QED
      BY <1>8
  <2> QED
    BY <2>1
<1>10. QueryCandidates(spans, slices, range) = iter[1 .. n]
  BY <1>1, <1>2 DEF QueryCandidates, FoldLeft, MapThenFoldSet, Combine, seq, base
<1> HIDE DEF iter
<1> DEFINE c == [k \in 1 .. m |-> iter[1 .. (m - k)]]
<1>11. c[m] = slices[m]
  <2>1. 1 .. (m - m) = {} /\ {} \in SUBSET (1 .. n) /\ m \in 1 .. m
    OBVIOUS
  <2> QED
    BY <1>9, <2>1 DEF base
<1>12. ASSUME NEW k \in 1 .. m - 1
       PROVE  c[k] = Combine(c[k + 1], k)
  <2>1. PICK j \in 1 .. n : j = m - k
    BY <1>2
  <2>2. j \in Nat \ {0} /\ 1 .. j \in SUBSET (1 .. n)
    OBVIOUS
  <2>3. Max(1 .. j) = j /\ (1 .. j) \ {j} = 1 .. (j - 1) /\ ~(1 .. j = {})
    BY <2>2, PlacesUpTo
  <2>4. iter[1 .. j] = Combine(iter[1 .. (j - 1)], seq[j])
    BY <1>9, <2>2, <2>3
  <2>5. c[k] = iter[1 .. j] /\ c[k + 1] = iter[1 .. (j - 1)] /\ seq[j] = k
    <3>1. k \in 1 .. m /\ k + 1 \in 1 .. m /\ m - k = j /\ m - (k + 1) = j - 1
      BY <2>1
    <3>2. seq[j] = m - j /\ m - j = k
      BY <1>3, <2>1
    <3> QED
      BY <3>1, <3>2
  <2> QED
    BY <2>4, <2>5
<1>13. c[1] = QueryCandidates(spans, slices, range)
  <2>1. 1 \in 1 .. m /\ m - 1 = n
    BY <1>2
  <2> QED
    BY <1>10, <2>1
<1>14. c \in [1 .. m -> IndexData]
  <2> DEFINE h == [j \in 0 .. n |-> iter[1 .. j]]
  <2>1. \A k \in 1 .. m : m - k \in 0 .. n /\ c[k] = h[m - k]
    BY <1>2
  <2>2. h[0] \in S
    <3>1. 1 .. 0 = {} /\ {} \in SUBSET (1 .. n)
      OBVIOUS
    <3> QED
      BY <1>6, <1>9, <3>1
  <2>3. ASSUME NEW j \in 1 .. n PROVE h[j] \in S
    <3>1. j \in Nat \ {0} /\ 1 .. j \in SUBSET (1 .. n)
      OBVIOUS
    <3>2. Max(1 .. j) = j /\ (1 .. j) \ {j} = 1 .. (j - 1) /\ ~(1 .. j = {})
      BY <3>1, PlacesUpTo
    <3>3. iter[1 .. j] = Combine(iter[1 .. (j - 1)], seq[j])
      BY <1>9, <3>1, <3>2
    <3>4. Combine(iter[1 .. (j - 1)], seq[j]) \in S
      BY <1>4
    <3> QED
      BY <3>3, <3>4
  <2>4. \A j \in 0 .. n : h[j] \in S
    <3>1. \A j \in 0 .. n : j = 0 \/ j \in 1 .. n
      OBVIOUS
    <3> QED
      BY <2>2, <2>3, <3>1
  <2> HIDE DEF h
  <2>5. \A k \in 1 .. m : c[k] \in IndexData
    BY <2>1, <2>4 DEF S
  <2> QED
    BY <2>5
<1> HIDE DEF c
<1> QED
  BY <1>1, <1>11, <1>12, <1>13, <1>14 DEF Chains, Combine

LEMMA CandidatesAreOfFirstSpan ==
  ASSUME NEW spans \in Seq(Spans) \ {<<>>}, NEW range,
         NEW slices \in [1 .. Len(spans) -> IndexData]
  PROVE  /\ QueryCandidates(spans, slices, range) \in IndexData
         /\ QueryCandidates(spans, slices, range).ids \subseteq slices[1].ids
         /\ QueryCandidates(spans, slices, range).position = slices[1].position
<1>1. PICK m \in Nat \ {0} : m = Len(spans)
  OBVIOUS
<1>2. PICK c \in Chains(spans, slices, range) : TRUE
  BY ChainOfSpans
<1>3. /\ c \in [1 .. m -> IndexData] /\ c[m] = slices[m]
      /\ \A k \in 1 .. m - 1 : c[k] = FuzzyMatches(slices[k], c[k + 1], spans[k + 1].distance,
                                                 spans[k + 1].directed, range)
      /\ c[1] = QueryCandidates(spans, slices, range)
  BY <1>1, <1>2 DEF Chains
<1>4. 1 \in 1 .. m /\ slices[1] \in IndexData /\ c[1] \in IndexData
  BY <1>1, <1>3
<1>5. CASE m = 1
  BY <1>3, <1>4, <1>5
<1>6. CASE m # 1
  <2>1. 1 \in 1 .. m - 1
    BY <1>6
  <2>2. c[1] = FuzzyMatches(slices[1], c[1 + 1], spans[1 + 1].distance, spans[1 + 1].directed, range)
    BY <1>3, <2>1
  <2> QED
    BY <1>3, <1>4, <2>2, FuzzyIsPart
<1> QED
  BY <1>5, <1>6

-----------------------------------------------------------------------------
\* The leaders of the spans, one after the other.

LEMMA LeadersAreInReach ==
  ASSUME NEW anchor, NEW span, NEW slice \in IndexData, NEW range
  PROVE  /\ SpanLeaders(anchor, span, slice, range) \subseteq Int
         /\ \A l \in SpanLeaders(anchor, span, slice, range) :
              /\ l + slice.position \in slice.ids
              /\ anchor \in Nat /\ span \in Spans => InReach(anchor, l, span)
<1> SUFFICES ASSUME NEW l \in SpanLeaders(anchor, span, slice, range)
             PROVE  /\ l \in Int
                    /\ l + slice.position \in slice.ids
                    /\ anchor \in Nat /\ span \in Spans => InReach(anchor, l, span)
  OBVIOUS
<1>1. PICK y \in slice.ids : l = y - slice.position
  BY DEF SpanLeaders
<1>2. y \in Int /\ slice.position \in Int
  BY DEF IndexData
<1>3. l \in Int /\ l + slice.position = y
  BY <1>1, <1>2
<1>4. l \in LeaderRange(anchor, span)
  BY DEF SpanLeaders
<1>5. ASSUME anchor \in Nat, span \in Spans PROVE InReach(anchor, l, span)
  <2>1. PICK d \in Nat : d = span.distance
    BY <1>5 DEF Spans
  <2>2. CASE span.directed
    BY <1>3, <1>4, <1>5, <2>1, <2>2 DEF LeaderRange, InReach
  <2>3. CASE ~span.directed
    <3>1. l \in Highest(anchor - d, 0) .. anchor + d
      BY <1>4, <2>1, <2>3 DEF LeaderRange
    <3>2. anchor - d <= l /\ l <= anchor + d
      BY <1>3, <1>5, <3>1 DEF Highest
    <3>3. l - anchor \in -d .. d
      BY <1>3, <1>5, <3>2
    <3> QED
      BY <2>1, <2>3, <3>3 DEF InReach
  <2> QED
    BY <2>2, <2>3
<1> QED
  BY <1>1, <1>3, <1>5

IsPath(p, token, n, spans, slices, range) ==
  /\ p \in Seq(Int) /\ Len(p) = n /\ p[1] = token
  /\ \A k \in 2 .. n : p[k] \in SpanLeaders(p[k - 1], spans[k], slices[k], range)

\* The paths of every length up to the m-th span.
PathRuns(token, m, spans, slices, range) ==
  {h \in [1 .. m -> SUBSET Seq(Int)] :
     /\ h[1] = {<<token>>}
     /\ \A k \in 2 .. m : \A q : q \in h[k] <=>
          \E p \in h[k - 1], l \in Int :
            l \in SpanLeaders(Last(p), spans[k], slices[k], range) /\ q = Append(p, l)
     /\ h[m] = Paths(token, m, spans, slices, range)}

LEMMA PathsByLength ==
  ASSUME NEW spans \in Seq(Spans) \ {<<>>}, NEW range,
         NEW slices \in [1 .. Len(spans) -> IndexData], NEW token \in Int,
         NEW m \in 1 .. Len(spans)
  PROVE  PathRuns(token, m, spans, slices, range) # {}
<1>1. m \in Nat \ {0} /\ 1 .. m \subseteq 1 .. Len(spans)
  OBVIOUS
<1>2. PICK n \in Nat : n = m - 1
  OBVIOUS
<1> DEFINE S == SUBSET Seq(Int)
           base == {<<token>>}
           seq == [i \in 1 .. n |-> i + 1]
           Extend(paths, k) ==
             UNION {{Append(p, l) : l \in SpanLeaders(Last(p), spans[k], slices[k], range)}
                      : p \in paths}
           g == [ks \in (1 .. n) \X S |-> Extend(ks[2], seq[ks[1]])]
           IsFold(f) == f = [t \in SUBSET (1 .. n) |->
                               IF t = {} THEN base
                               ELSE Extend(f[t \ {Max(t)}], seq[Max(t)])]
           iter == CHOOSE f : IsFold(f)
<1>3. \A k \in 1 .. n : seq[k] \in 1 .. m /\ seq[k] = k + 1
  BY <1>2
<1> DEFINE Leaders(p, k) == SpanLeaders(Last(p), spans[k + 1], slices[k + 1], range)
<1>4. ASSUME NEW k \in 1 .. n, NEW paths \in S, NEW q \in Extend(paths, seq[k])
      PROVE  \E p \in paths, l \in Int : l \in Leaders(p, k) /\ q = Append(p, l)
  <2>1. PICK p \in paths : \E l \in Leaders(p, k) : q = Append(p, l)
    BY <1>3
  <2>2. slices[k + 1] \in IndexData
    BY <1>1, <1>3
  <2>3. Leaders(p, k) \subseteq Int
    BY <2>2, LeadersAreInReach
  <2> QED
    BY <2>1, <2>3
<1>5. ASSUME NEW k \in 1 .. n, NEW paths \in S PROVE Extend(paths, seq[k]) \in S
  <2> HIDE DEF Extend, Leaders
  <2>1. ASSUME NEW q \in Extend(paths, seq[k]) PROVE q \in Seq(Int)
    <3>1. PICK p \in paths, l \in Int : l \in Leaders(p, k) /\ q = Append(p, l)
      BY <1>4
    <3>2. p \in Seq(Int)
      OBVIOUS
    <3> QED
      BY <3>1, <3>2
  <2> QED
    BY <2>1
<1> HIDE DEF Leaders
<1> HIDE DEF seq, Extend
<1>6. g \in [(1 .. n) \X S -> S]
  BY <1>5
<1>7. base \in S
  OBVIOUS
<1> HIDE DEF S, base
<1>8. PICK f \in FoldsOf(S, base, n, g) : TRUE
  <2> HIDE DEF g
  <2>1. FoldsOf(S, base, n, g) # {}
    BY <1>6, <1>7, FoldExists
  <2> QED
    BY <2>1
<1>9. IsFold(f)
  <2>1. /\ f \in [SUBSET (1 .. n) -> S]
        /\ f[{}] = base
        /\ \A t \in SUBSET (1 .. n) : t # {} => f[t] = g[<<Max(t), f[t \ {Max(t)}]>>]
    BY <1>8 DEF FoldsOf
  <2> SUFFICES ASSUME NEW t \in SUBSET (1 .. n), t # {}
               PROVE  f[t] = Extend(f[t \ {Max(t)}], seq[Max(t)])
    BY <2>1
  <2>2. Max(t) \in 1 .. n
    BY MaxPlace
  <2>3. f[t] = g[<<Max(t), f[t \ {Max(t)}]>>] /\ f[t \ {Max(t)}] \in S
    BY <2>1
  <2> QED
    BY <2>2, <2>3
<1>10. iter = [t \in SUBSET (1 .. n) |->
                 IF t = {} THEN base ELSE Extend(iter[t \ {Max(t)}], seq[Max(t)])]
  <2>1. IsFold(iter)
    <3> HIDE DEF IsFold
    <3> QED
      BY <1>9
  <2> QED
    BY <2>1
<1>11. Paths(token, m, spans, slices, range) = iter[1 .. n]
  BY <1>1, <1>2 DEF Paths, FoldLeft, MapThenFoldSet, Extend, seq, base
<1> HIDE DEF iter
<1> DEFINE h == [k \in 1 .. m |-> iter[1 .. (k - 1)]]
<1>12. h[1] = {<<token>>} /\ h[1] \in S
  <2>1. 1 .. (1 - 1) = {} /\ {} \in SUBSET (1 .. n) /\ 1 \in 1 .. m
    OBVIOUS
  <2>2. iter[1 .. (1 - 1)] = {<<token>>}
    BY <1>10, <2>1 DEF base
  <2> QED
    BY <1>7, <2>1, <2>2 DEF base
<1>13. ASSUME NEW k \in 1 .. n
       PROVE  h[k + 1] = Extend(h[k], seq[k])
  <2>1. k \in Nat \ {0} /\ 1 .. k \in SUBSET (1 .. n) /\ (k + 1) - 1 = k
        /\ k \in 1 .. m /\ k + 1 \in 1 .. m
    BY <1>2
  <2>2. Max(1 .. k) = k /\ (1 .. k) \ {k} = 1 .. (k - 1) /\ ~(1 .. k = {})
    BY <2>1, PlacesUpTo
  <2>3. iter[1 .. k] = Extend(iter[1 .. (k - 1)], seq[k])
    BY <1>10, <2>1, <2>2
  <2> QED
    BY <2>1, <2>3
<1>14. h[m] = Paths(token, m, spans, slices, range)
  <2>1. m \in 1 .. m /\ m - 1 = n
    BY <1>2
  <2> QED
    BY <1>11, <2>1
<1>15. DOMAIN h = 1 .. m /\ h = [k \in 1 .. m |-> h[k]]
  OBVIOUS
<1> HIDE DEF h
<1>16. \A k \in 0 .. n : h[k + 1] \in S
  <2> DEFINE up == [k \in 0 .. n |-> h[k + 1]]
  <2>1. up[0] \in S
    <3>1. up[0] = h[0 + 1] /\ 0 + 1 = 1
      OBVIOUS
    <3> HIDE DEF up
    <3> QED
      BY <1>12, <3>1
  <2>2. ASSUME NEW k \in 1 .. n, up[k - 1] \in S PROVE up[k] \in S
    <3>1. up[k - 1] = h[k] /\ up[k] = h[k + 1]
      OBVIOUS
    <3> HIDE DEF up
    <3> QED
      BY <1>5, <1>13, <2>2, <3>1
  <2>3. \A k \in 0 .. n : up[k] = h[k + 1]
    OBVIOUS
  <2> HIDE DEF up
  <2> QED
    BY <2>1, <2>2, <2>3, StepInduction
<1>17. \A k \in 1 .. m : h[k] \in S
  <2>1. \A k \in 1 .. m : k - 1 \in 0 .. n /\ (k - 1) + 1 = k
    BY <1>2
  <2> QED
    BY <1>16, <2>1
<1>18. ASSUME NEW k \in 2 .. m, NEW q
       PROVE  q \in h[k] <=>
                \E p \in h[k - 1], l \in Int :
                  l \in SpanLeaders(Last(p), spans[k], slices[k], range) /\ q = Append(p, l)
  <2>1. PICK i \in 1 .. n : i = k - 1 /\ k = i + 1 /\ k - 1 \in 1 .. m
    BY <1>2
  <2>2. h[k] = Extend(h[k - 1], seq[i]) /\ h[k - 1] \in S
    <3>1. h[i + 1] = Extend(h[i], seq[i])
      BY <1>13
    <3>2. h[k - 1] \in S
      BY <1>17, <2>1
    <3>3. h[i + 1] = h[k] /\ h[i] = h[k - 1]
      BY <2>1
    <3> QED
      BY <3>1, <3>2, <3>3
  <2>3. ASSUME q \in h[k]
        PROVE  \E p \in h[k - 1], l \in Int : l \in Leaders(p, i) /\ q = Append(p, l)
    <3> DEFINE paths == h[k - 1]
    <3>1. q \in Extend(paths, seq[i]) /\ paths \in S
      BY <2>2, <2>3
    <3> HIDE DEF paths
    <3>2. \E p \in paths, l \in Int : l \in Leaders(p, i) /\ q = Append(p, l)
      BY <1>4, <3>1
    <3> QED
      BY <3>2 DEF paths
  <2>4. ASSUME NEW p \in h[k - 1], NEW l \in Leaders(p, i), q = Append(p, l)
        PROVE  q \in h[k]
    <3>1. seq[i] = k
      BY <1>3, <2>1
    <3>2. q \in Extend(h[k - 1], seq[i])
      <4>1. l \in SpanLeaders(Last(p), spans[seq[i]], slices[seq[i]], range)
        BY <2>1, <3>1 DEF Leaders
      <4>2. q \in {Append(p, x) : x \in SpanLeaders(Last(p), spans[seq[i]], slices[seq[i]], range)}
        BY <2>4, <4>1
      <4> QED
        BY <4>2 DEF Extend
    <3> QED
      BY <2>2, <3>2
  <2>5. \A p : Leaders(p, i) = SpanLeaders(Last(p), spans[k], slices[k], range)
    BY <2>1 DEF Leaders
  <2> QED
    BY <2>3, <2>4, <2>5
<1>19. h \in [1 .. m -> SUBSET Seq(Int)]
  BY <1>15, <1>17 DEF S
<1>20. h \in PathRuns(token, m, spans, slices, range)
  BY <1>12, <1>14, <1>18, <1>19 DEF PathRuns
<1> QED
  BY <1>20

LEMMA PathsAreLeaders ==
  ASSUME NEW spans \in Seq(Spans) \ {<<>>}, NEW range,
         NEW slices \in [1 .. Len(spans) -> IndexData], NEW token \in Int,
         NEW m \in 1 .. Len(spans)
  PROVE  /\ \A p \in Paths(token, m, spans, slices, range) :
              IsPath(p, token, m, spans, slices, range)
         /\ \A p : IsPath(p, token, m, spans, slices, range) =>
              p \in Paths(token, m, spans, slices, range)
<1>1. m \in Nat \ {0} /\ 1 .. m \subseteq 1 .. Len(spans)
  OBVIOUS
<1>2. PICK h \in PathRuns(token, m, spans, slices, range) : TRUE
  <2>1. PathRuns(token, m, spans, slices, range) # {}
    BY PathsByLength
  <2> QED
    BY <2>1
<1>3. /\ h \in [1 .. m -> SUBSET Seq(Int)]
      /\ h[1] = {<<token>>}
      /\ \A k \in 2 .. m : \A q : q \in h[k] <=>
           \E p \in h[k - 1], l \in Int :
             l \in SpanLeaders(Last(p), spans[k], slices[k], range) /\ q = Append(p, l)
      /\ h[m] = Paths(token, m, spans, slices, range)
  BY <1>2 DEF PathRuns
<1> DEFINE Good(k) == \A p : p \in h[k] <=> IsPath(p, token, k, spans, slices, range)
           T == {k \in Nat : k + 1 <= m => Good(k + 1)}
<1>4. Good(1)
  <2>1. /\ <<token>> \in Seq(Int) /\ Len(<<token>>) = 1 /\ <<token>>[1] = token
        /\ 2 .. 1 = {}
    OBVIOUS
  <2>2. IsPath(<<token>>, token, 1, spans, slices, range)
    BY <2>1 DEF IsPath
  <2>3. ASSUME NEW p, IsPath(p, token, 1, spans, slices, range) PROVE p = <<token>>
    BY <2>3 DEF IsPath
  <2> QED
    BY <1>3, <2>2, <2>3
<1>5. ASSUME NEW k \in 1 .. m - 1, Good(k) PROVE Good(k + 1)
  <2>0. k + 1 \in 2 .. m /\ (k + 1) - 1 = k /\ k \in 1 .. m /\ 1 \in 1 .. k
    BY <1>1
  <2> DEFINE Leaders(p) == SpanLeaders(Last(p), spans[k + 1], slices[k + 1], range)
  <2>1. \A q : q \in h[k + 1] <=>
          \E p \in h[k], l \in Int : l \in Leaders(p) /\ q = Append(p, l)
    BY <1>3, <2>0
  <2>2. ASSUME NEW q \in h[k + 1] PROVE IsPath(q, token, k + 1, spans, slices, range)
    <3>1. PICK p \in h[k], l \in Int : l \in Leaders(p) /\ q = Append(p, l)
      <4> HIDE DEF Leaders
      <4> QED
        BY <2>1
    <3>2. IsPath(p, token, k, spans, slices, range)
      BY <1>5
    <3>3. p \in Seq(Int) /\ Len(p) = k /\ p[1] = token /\ Last(p) = p[k]
      BY <3>2 DEF IsPath, Last
    <3>4. q \in Seq(Int) /\ Len(q) = k + 1 /\ q[k + 1] = l /\ \A i \in 1 .. k : q[i] = p[i]
      BY <3>1, <3>3
    <3>5. ASSUME NEW i \in 2 .. k + 1
          PROVE  q[i] \in SpanLeaders(q[i - 1], spans[i], slices[i], range)
      <4>1. CASE i = k + 1
        <5>1. i - 1 = k /\ k \in 1 .. k
          BY <2>0, <4>1
        <5>2. q[i] = l /\ q[i - 1] = Last(p)
          BY <3>3, <3>4, <4>1, <5>1
        <5> QED
          BY <3>1, <4>1, <5>2
      <4>2. CASE i \in 2 .. k
        <5>1. i - 1 \in 1 .. k /\ i \in 1 .. k
          BY <4>2
        <5> QED
          BY <3>2, <3>4, <4>2, <5>1 DEF IsPath
      <4> QED
        BY <4>1, <4>2
    <3>6. q[1] = token
      BY <2>0, <3>3, <3>4
    <3> QED
      BY <3>4, <3>5, <3>6 DEF IsPath
  <2>3. ASSUME NEW q, IsPath(q, token, k + 1, spans, slices, range) PROVE q \in h[k + 1]
    <3> DEFINE p == SubSeq(q, 1, k)
               l == q[k + 1]
    <3>1. /\ q \in Seq(Int) /\ Len(q) = k + 1 /\ q[1] = token
          /\ \A i \in 2 .. k + 1 : q[i] \in SpanLeaders(q[i - 1], spans[i], slices[i], range)
      BY <2>3 DEF IsPath
    <3>2. p \in Seq(Int) /\ Len(p) = k /\ l \in Int /\ \A i \in 1 .. k : p[i] = q[i]
      <4>1. k + 1 \in 1 .. Len(q) /\ 1 .. k \subseteq 1 .. Len(q)
        BY <2>0, <3>1
      <4> QED
        BY <3>1, <4>1
    <3>3. q = Append(p, l)
      <4> HIDE DEF p, l
      <4>1. Append(p, l) \in Seq(Int) /\ Len(Append(p, l)) = k + 1 /\ Append(p, l)[k + 1] = l
            /\ \A i \in 1 .. k : Append(p, l)[i] = p[i]
        BY <3>2
      <4>2. \A i \in 1 .. k + 1 : Append(p, l)[i] = q[i]
        <5>1. \A i \in 1 .. k + 1 : i = k + 1 \/ i \in 1 .. k
          OBVIOUS
        <5> QED
          BY <3>2, <4>1, <5>1 DEF l
      <4> QED
        BY <3>1, <4>1, <4>2
    <3> HIDE DEF p
    <3>4. IsPath(p, token, k, spans, slices, range)
      <4>1. \A i \in 2 .. k : i \in 2 .. k + 1 /\ i \in 1 .. k /\ i - 1 \in 1 .. k
        OBVIOUS
      <4> QED
        BY <2>0, <3>1, <3>2, <4>1 DEF IsPath
    <3>5. l \in Leaders(p)
      <4>1. Last(p) = q[k]
        BY <2>0, <3>2 DEF Last
      <4>2. l \in SpanLeaders(q[(k + 1) - 1], spans[k + 1], slices[k + 1], range)
        BY <2>0, <3>1
      <4> QED
        BY <2>0, <4>1, <4>2
    <3>6. p \in h[k]
      BY <1>5, <3>4
    <3> HIDE DEF l, Leaders
    <3> QED
      BY <2>1, <3>2, <3>3, <3>5, <3>6
  <2> QED
    BY <2>2, <2>3
<1>6. Good(m)
  <2> HIDE DEF Good
  <2>1. ASSUME NEW k \in Nat, k \in T PROVE k + 1 \in T
    <3> SUFFICES ASSUME (k + 1) + 1 <= m PROVE Good((k + 1) + 1)
      OBVIOUS
    <3>1. k + 1 \in 1 .. m - 1 /\ Good(k + 1)
      BY <2>1
    <3> QED
      BY <1>5, <3>1
  <2>2. 0 \in T
    BY <1>4
  <2> HIDE DEF T
  <2>3. m - 1 \in T
    BY <1>1, <2>1, <2>2, SetInduction
  <2>4. (m - 1) + 1 = m /\ m <= m
    BY <1>1
  <2> QED
    BY <2>3, <2>4 DEF T
<1> QED
  BY <1>3, <1>6

\* Of arrangements of the same spans there is a first one.
FirstOf(U) == {p \in U : \A q \in U \ {p} : Before(p, q)}

LEMMA FirstExists ==
  ASSUME NEW n \in Nat, NEW U, U # {}, U \subseteq [1 .. n -> Nat]
  PROVE  FirstOf(U) # {}
<1> DEFINE Agree(V, k) == \A p, q \in V : \A i \in 1 .. k : p[i] = q[i]
           Lead(V) == \A p \in V : \A q \in U \ V : Before(p, q)
           Narrow(k) == {V \in SUBSET U : V # {} /\ Agree(V, k) /\ Lead(V)}
           T == {k \in Nat : k <= n => Narrow(k) # {}}
<1>1. 0 \in T
  <2>1. U \in SUBSET U /\ Agree(U, 0) /\ Lead(U)
    OBVIOUS
  <2> HIDE DEF Agree, Lead
  <2>2. U \in Narrow(0)
    BY <2>1
  <2> QED
    BY <2>2
<1> HIDE DEF Narrow
<1>2. ASSUME NEW k \in Nat, k \in T PROVE k + 1 \in T
  <2> SUFFICES ASSUME k + 1 <= n PROVE Narrow(k + 1) # {}
    OBVIOUS
  <2>1. Narrow(k) # {}
    <3>1. k <= n
      OBVIOUS
    <3> QED
      BY <1>2, <3>1
  <2>2. PICK V \in SUBSET U : V # {} /\ Agree(V, k) /\ Lead(V)
    <3> HIDE DEF Agree, Lead
    <3> QED
      BY <2>1 DEF Narrow
  <2>3. k + 1 \in 1 .. n /\ \A p \in U : p \in [1 .. n -> Nat]
    OBVIOUS
  <2> DEFINE values == {p[k + 1] : p \in V}
  <2>4. values \subseteq Nat /\ values # {}
    <3>1. \A p \in V : p[k + 1] \in Nat
      BY <2>3
    <3>2. PICK p \in V : TRUE
      BY <2>2
    <3>3. p[k + 1] \in values
      OBVIOUS
    <3> QED
      BY <3>1, <3>3
  <2>5. PICK m \in values : \A y \in values : m <= y
    <3> HIDE DEF values
    <3> QED
      BY <2>4, LeastNumber
  <2> DEFINE W == {p \in V : p[k + 1] = m}
  <2>6. W \in SUBSET U /\ W # {}
    BY <2>2, <2>5
  <2>7. Agree(W, k + 1)
    <3> SUFFICES ASSUME NEW p \in W, NEW q \in W, NEW i \in 1 .. k + 1 PROVE p[i] = q[i]
      OBVIOUS
    <3>1. CASE i = k + 1
      BY <3>1
    <3>2. CASE i \in 1 .. k
      BY <2>2, <3>2
    <3> QED
      BY <3>1, <3>2
  <2>8. Lead(W)
    <3> SUFFICES ASSUME NEW p \in W, NEW q \in U \ W PROVE Before(p, q)
      OBVIOUS
    <3>1. CASE q \notin V
      BY <2>2, <3>1
    <3>2. CASE q \in V
      <4>1. m \in Nat /\ q[k + 1] \in Nat
        BY <2>3, <2>4, <2>5
      <4>2. m <= q[k + 1] /\ q[k + 1] # m
        <5>1. q[k + 1] \in values /\ q \notin W
          BY <3>2
        <5> QED
          BY <2>5, <3>2, <5>1
      <4>3. p[k + 1] < q[k + 1]
        <5>1. \A x \in W : x[k + 1] = m
          OBVIOUS
        <5> HIDE DEF values, W
        <5>2. p[k + 1] = m
          BY <5>1
        <5>3. m < q[k + 1]
          BY <4>1, <4>2
        <5> QED
          BY <5>2, <5>3
      <4>4. \A j \in 1 .. (k + 1) - 1 : p[j] = q[j]
        BY <2>2, <3>2
      <4>5. k + 1 \in DOMAIN p
        BY <2>2, <2>3
      <4> QED
        BY <4>3, <4>4, <4>5 DEF Before
    <3> QED
      BY <3>1, <3>2
  <2> HIDE DEF W, Agree, Lead
  <2>9. W \in Narrow(k + 1)
    BY <2>6, <2>7, <2>8 DEF Narrow
  <2> QED
    BY <2>9
<1> HIDE DEF T
<1>3. n \in T
  BY <1>1, <1>2, SetInduction
<1>4. Narrow(n) # {}
  BY <1>3 DEF T
<1>5. PICK V \in SUBSET U : V # {} /\ Agree(V, n) /\ Lead(V)
  <2> HIDE DEF Agree, Lead
  <2> QED
    BY <1>4 DEF Narrow
<1>6. PICK p \in V : TRUE
  BY <1>5
<1>7. ASSUME NEW q \in U \ {p} PROVE Before(p, q)
  <2>1. CASE q \in V
    <3>1. \A i \in 1 .. n : p[i] = q[i]
      BY <1>5, <2>1
    <3>2. p \in [1 .. n -> Nat] /\ q \in [1 .. n -> Nat]
      BY <1>5
    <3>3. p = q
      BY <3>1, <3>2
    <3> QED
      BY <3>3
  <2>2. CASE q \notin V
    BY <1>5, <2>2
  <2> QED
    BY <2>1, <2>2
<1>8. p \in FirstOf(U)
  BY <1>5, <1>7 DEF FirstOf
<1> QED
  BY <1>8

-----------------------------------------------------------------------------
\* Leaders that the engine accepts are an arrangement of the spans.

Leader == [start : Nat, length : Nat \ {0}]

LEMMA LeadersOfPath ==
  ASSUME NEW spans \in Seq(Spans) \ {<<>>}, NEW p \in [1 .. Len(spans) -> Nat]
  PROVE  /\ SortedLeaders(p, spans) \in Seq(Leader)
         /\ Len(SortedLeaders(p, spans)) = Len(spans)
         /\ \A i \in 1 .. Len(spans) :
              /\ SortedPlaces(p)[i] \in 1 .. Len(spans)
              /\ SortedLeaders(p, spans)[i] =
                   [start |-> p[SortedPlaces(p)[i]],
                    length |-> Len(spans[SortedPlaces(p)[i]].terms)]
         /\ \A k \in 1 .. Len(spans) : \E i \in 1 .. Len(spans) : SortedPlaces(p)[i] = k
<1>1. PICK n \in Nat \ {0} : n = Len(spans)
  OBVIOUS
<1> DEFINE order == SortedPlaces(p)
           leaders == SortedLeaders(p, spans)
<1>2. order \in [1 .. n -> 1 .. n] /\ \A k \in 1 .. n : \E i \in 1 .. n : order[i] = k
  <2>1. p \in [1 .. n -> Int]
    BY <1>1
  <2> QED
    BY <2>1, SortedPlacesListAll
<1>3. leaders = [i \in DOMAIN order |->
                   [start |-> p[order[i]], length |-> Len(spans[order[i]].terms)]]
  BY DEF SortedLeaders, InOrder
<1> HIDE DEF order, leaders
<1>4. ASSUME NEW i \in 1 .. n
      PROVE  /\ leaders[i] = [start |-> p[order[i]], length |-> Len(spans[order[i]].terms)]
             /\ leaders[i] \in Leader
  <2>1. order[i] \in 1 .. n
    BY <1>2
  <2>2. spans[order[i]].terms \in Seq(Terms) \ {<<>>}
    <3>1. spans[order[i]] \in Spans
      BY <1>1, <2>1
    <3> QED
      BY <3>1 DEF Spans
  <2>3. Len(spans[order[i]].terms) \in Nat \ {0} /\ p[order[i]] \in Nat
    BY <1>1, <2>1, <2>2
  <2> QED
    BY <1>2, <1>3, <2>3 DEF Leader
<1>5. leaders \in [1 .. n -> Leader]
  BY <1>2, <1>3, <1>4
<1>6. leaders \in Seq(Leader) /\ Len(leaders) = n
  BY <1>5, FunctionIsSequence
<1> QED
  BY <1>1, <1>2, <1>4, <1>6 DEF order, leaders

LEMMA LeaderNumbers ==
  ASSUME NEW leaders \in Seq(Leader), NEW i \in 1 .. Len(leaders)
  PROVE  leaders[i].start \in Nat /\ leaders[i].length \in Nat \ {0}
<1>1. leaders[i] \in Leader
  OBVIOUS
<1> QED
  BY <1>1 DEF Leader

LEMMA NextLeader ==
  ASSUME NEW a \in Nat, NEW b \in Nat, NEW c \in Nat, NEW d \in Nat, NEW e \in Nat,
         a + b <= c, ~(e < c + d)
  PROVE  a + b <= e
OBVIOUS

LEMMA ApartInOrder ==
  ASSUME NEW leaders \in Seq(Leader), ~SpansOverlap(leaders)
  PROVE  \A i, j \in 1 .. Len(leaders) :
           i < j => leaders[i].start + leaders[i].length <= leaders[j].start
<1>1. PICK n \in Nat : n = Len(leaders)
  OBVIOUS
<1>2. \A i \in 1 .. n : leaders[i].start \in Nat /\ leaders[i].length \in Nat \ {0}
  BY <1>1, LeaderNumbers
<1>3. \A i \in 1 .. n - 1 : ~(leaders[i + 1].start < leaders[i].start + leaders[i].length)
  BY <1>1 DEF SpansOverlap
<1> DEFINE T == {d \in Nat : \A i \in 1 .. n :
                   i + d + 1 <= n => leaders[i].start + leaders[i].length <= leaders[i + d + 1].start}
<1>4. 0 \in T
  <2> SUFFICES ASSUME NEW i \in 1 .. n, i + 1 <= n
               PROVE  leaders[i].start + leaders[i].length <= leaders[i + 1].start
    OBVIOUS
  <2>1. i \in 1 .. n - 1 /\ i + 1 \in 1 .. n
    OBVIOUS
  <2>2. /\ leaders[i].start \in Nat /\ leaders[i].length \in Nat
        /\ leaders[i + 1].start \in Nat
    BY <1>2, <2>1
  <2>3. ~(leaders[i + 1].start < leaders[i].start + leaders[i].length)
    BY <1>3, <2>1
  <2> QED
    BY <2>2, <2>3
<1>5. ASSUME NEW d \in Nat, d \in T PROVE d + 1 \in T
  <2> SUFFICES ASSUME NEW i \in 1 .. n, i + (d + 1) + 1 <= n
               PROVE  leaders[i].start + leaders[i].length <= leaders[i + (d + 1) + 1].start
    OBVIOUS
  <2>1. PICK j \in 1 .. n - 1 : j = i + d + 1
    OBVIOUS
  <2>2. j + 1 = i + (d + 1) + 1 /\ j + 1 \in 1 .. n /\ j \in 1 .. n /\ i + d + 1 <= n
    BY <2>1
  <2>3. leaders[i].start + leaders[i].length <= leaders[j].start
    BY <1>5, <2>1, <2>2
  <2>4. /\ leaders[i].start \in Nat /\ leaders[i].length \in Nat
        /\ leaders[j].start \in Nat /\ leaders[j].length \in Nat
        /\ leaders[j + 1].start \in Nat
    BY <1>2, <2>2
  <2>5. ~(leaders[j + 1].start < leaders[j].start + leaders[j].length)
    BY <1>3
  <2>6. leaders[i].start + leaders[i].length <= leaders[j + 1].start
    BY <2>3, <2>4, <2>5, NextLeader
  <2> QED
    BY <2>2, <2>6
<1> HIDE DEF T
<1>6. \A d \in Nat : d \in T
  BY <1>4, <1>5, SetInduction
<1> SUFFICES ASSUME NEW i \in 1 .. n, NEW j \in 1 .. n, i < j
             PROVE  leaders[i].start + leaders[i].length <= leaders[j].start
  BY <1>1
<1>7. PICK d \in Nat : j = i + d + 1
  <2>1. j - i - 1 \in Nat /\ j = i + (j - i - 1) + 1
    OBVIOUS
  <2> QED
    BY <2>1
<1>8. d \in T /\ i + d + 1 <= n
  BY <1>6, <1>7
<1> QED
  BY <1>7, <1>8 DEF T

LEMMA WorkIsGreatest ==
  ASSUME NEW t \in Nat
  PROVE  /\ WorkOf(t) \in WorkStarts /\ WorkOf(t) <= t /\ WorkOf(t) \in Nat
         /\ \A w \in WorkStarts : w <= t => w <= WorkOf(t)
<1> DEFINE S == {w \in WorkStarts : w <= t}
<1>1. WorkStarts \subseteq Nat /\ 0 \in WorkStarts
  BY CorpusShape
<1>2. S \subseteq Nat /\ S # {} /\ \A w \in S : w <= t
  <2>1. 0 \in S
    BY <1>1
  <2>2. S \subseteq Nat /\ \A w \in S : w <= t
    BY <1>1
  <2> HIDE DEF S
  <2> QED
    BY <2>1, <2>2
<1>3. WorkOf(t) = Greatest(S)
  BY DEF WorkOf
<1> HIDE DEF S
<1>4. Greatest(S) \in S /\ \A w \in S : w <= Greatest(S)
  BY <1>2, GreatestNumber
<1> QED
  BY <1>1, <1>3, <1>4 DEF S

LEMMA OneWork ==
  ASSUME NEW leaders \in Seq(Leader) \ {<<>>}, ~SpansOverlap(leaders), WithinWorkBounds(leaders)
  PROVE  \A i \in 1 .. Len(leaders) : WorkOf(leaders[i].start) = WorkOf(leaders[1].start)
<1>1. PICK n \in Nat \ {0} : n = Len(leaders)
  OBVIOUS
<1> SUFFICES ASSUME NEW i \in 1 .. n, n >= 2
             PROVE  WorkOf(leaders[i].start) = WorkOf(leaders[1].start)
  BY <1>1
<1> DEFINE first == leaders[1].start
           here == leaders[i].start
           last == leaders[n].start + leaders[n].length - 1
           work == WorkOf(first)
<1>2. \A j \in 1 .. n : leaders[j].start \in Nat /\ leaders[j].length \in Nat \ {0}
  BY <1>1, LeaderNumbers
<1>3. first \in Nat /\ here \in Nat /\ last \in Nat
  <2>1. 1 \in 1 .. n /\ n \in 1 .. n
    OBVIOUS
  <2> QED
    BY <1>2, <2>1
<1>4. first <= here /\ here <= last
  <2>1. 1 \in 1 .. n /\ n \in 1 .. n
    OBVIOUS
  <2>2. 1 < i => leaders[1].start + leaders[1].length <= leaders[i].start
    BY <1>1, <2>1, ApartInOrder
  <2>3. i < n => leaders[i].start + leaders[i].length <= leaders[n].start
    BY <1>1, <2>1, ApartInOrder
  <2>4. /\ leaders[1].start \in Nat /\ leaders[1].length \in Nat \ {0}
        /\ leaders[i].start \in Nat /\ leaders[i].length \in Nat \ {0}
        /\ leaders[n].start \in Nat /\ leaders[n].length \in Nat \ {0}
    BY <1>2, <2>1
  <2>5. first <= here
    <3>1. CASE i = 1
      BY <2>4, <3>1
    <3>2. CASE 1 < i
      BY <2>2, <2>4, <3>2
    <3> QED
      BY <3>1, <3>2
  <2> DEFINE start == leaders[n].start
             length == leaders[n].length
  <2>6. start \in Nat /\ length \in Nat \ {0} /\ last = start + length - 1 /\ start <= last
    <3>1. start \in Nat /\ length \in Nat \ {0} /\ last = start + length - 1
      BY <2>4
    <3> HIDE DEF start, length, last
    <3> QED
      BY <3>1
  <2>7. here <= last
    <3>1. CASE i = n
      BY <2>6, <3>1
    <3>2. CASE i < n
      <4>1. here <= start
        BY <2>3, <2>4, <3>2
      <4>2. here \in Nat
        BY <1>3
      <4> HIDE DEF start, length, last, here
      <4> QED
        BY <1>3, <2>6, <4>1, <4>2
    <3> QED
      BY <3>1, <3>2
  <2> QED
    BY <2>5, <2>7
<1>5. \A w \in WorkStarts : w > work => last < w
  BY <1>1 DEF WithinWorkBounds, WorkOf, Last
<1> HIDE DEF first, here, last
<1>6. /\ work \in WorkStarts /\ work <= first /\ work \in Nat
      /\ \A w \in WorkStarts : w <= first => w <= work
  BY <1>3, WorkIsGreatest
<1>7. /\ WorkOf(here) \in WorkStarts /\ WorkOf(here) <= here /\ WorkOf(here) \in Nat
      /\ \A w \in WorkStarts : w <= here => w <= WorkOf(here)
  BY <1>3, WorkIsGreatest
<1> DEFINE there == WorkOf(here)
<1> HIDE DEF work, there
<1>8. there <= work
  <2>1. ~(last < there)
    BY <1>3, <1>4, <1>7 DEF there
  <2> QED
    BY <1>5, <1>6, <1>7, <2>1 DEF there
<1>9. work <= there
  BY <1>3, <1>4, <1>6, <1>7 DEF there
<1>10. work = there
  BY <1>6, <1>7, <1>8, <1>9 DEF there
<1> QED
  BY <1>10 DEF work, there, first, here

LEMMA UsableIsArrangement ==
  ASSUME IsQuery(query), NEW p \in [1 .. Len(query.spans) -> Tokens],
         \A k \in 1 .. Len(query.spans) : SpanAt(query.spans[k], p[k]),
         \A k \in 2 .. Len(query.spans) : InReach(p[k - 1], p[k], query.spans[k]),
         ~SpansOverlap(SortedLeaders(p, query.spans)),
         WithinWorkBounds(SortedLeaders(p, query.spans))
  PROVE  p \in Arrangements
<1> DEFINE spans == query.spans
           leaders == SortedLeaders(p, spans)
           order == SortedPlaces(p)
<1>1. spans \in Seq(Spans) \ {<<>>}
  BY DEF IsQuery
<1>2. PICK n \in Nat \ {0} : n = Len(spans) /\ DOMAIN spans = 1 .. n
  BY <1>1
<1>3. p \in [1 .. n -> Nat]
  BY <1>2, CorpusShape DEF Tokens
<1> HIDE DEF spans
<1>4. /\ leaders \in Seq(Leader)
      /\ Len(leaders) = n
      /\ \A i \in 1 .. n :
           /\ order[i] \in 1 .. n
           /\ leaders[i] = [start |-> p[order[i]], length |-> Len(spans[order[i]].terms)]
      /\ \A k \in 1 .. n : \E i \in 1 .. n : order[i] = k
  <2>1. p \in [1 .. Len(spans) -> Nat]
    BY <1>2, <1>3
  <2>2. /\ leaders \in Seq(Leader)
        /\ Len(leaders) = Len(spans)
        /\ \A i \in 1 .. Len(spans) :
             /\ order[i] \in 1 .. Len(spans)
             /\ leaders[i] = [start |-> p[order[i]], length |-> Len(spans[order[i]].terms)]
        /\ \A k \in 1 .. Len(spans) : \E i \in 1 .. Len(spans) : order[i] = k
    BY <1>1, <2>1, LeadersOfPath
  <2> HIDE DEF leaders, order
  <2> QED
    BY <1>2, <2>2
<1>5. ~SpansOverlap(leaders) /\ WithinWorkBounds(leaders)
  BY DEF spans
<1> HIDE DEF leaders, order
<1>6. ASSUME NEW j \in 1 .. n, NEW k \in 1 .. n, j # k
      PROVE  \/ p[j] + Len(spans[j].terms) <= p[k]
             \/ p[k] + Len(spans[k].terms) <= p[j]
  <2>1. PICK a \in 1 .. n : order[a] = j
    BY <1>4
  <2>2. PICK b \in 1 .. n : order[b] = k
    BY <1>4
  <2>3. /\ a < b => leaders[a].start + leaders[a].length <= leaders[b].start
        /\ b < a => leaders[b].start + leaders[b].length <= leaders[a].start
    BY <1>4, <1>5, ApartInOrder
  <2>4. /\ leaders[a].start = p[j] /\ leaders[a].length = Len(spans[j].terms)
        /\ leaders[b].start = p[k] /\ leaders[b].length = Len(spans[k].terms)
    <3>1. /\ leaders[a] = [start |-> p[order[a]], length |-> Len(spans[order[a]].terms)]
          /\ leaders[b] = [start |-> p[order[b]], length |-> Len(spans[order[b]].terms)]
      BY <1>4
    <3> QED
      BY <2>1, <2>2, <3>1
  <2>5. a < b \/ b < a
    BY <1>6, <2>1, <2>2
  <2> QED
    BY <2>3, <2>4, <2>5
<1>7. ASSUME NEW j \in 1 .. n PROVE WorkOf(p[j]) = WorkOf(leaders[1].start)
  <2>1. PICK a \in 1 .. n : order[a] = j
    BY <1>4
  <2>2. leaders[a].start = p[j]
    <3>1. leaders[a] = [start |-> p[order[a]], length |-> Len(spans[order[a]].terms)]
      BY <1>4
    <3> QED
      BY <2>1, <3>1
  <2>3. leaders # <<>>
    BY <1>4
  <2>4. WorkOf(leaders[a].start) = WorkOf(leaders[1].start)
    BY <1>4, <1>5, <2>3, OneWork
  <2> QED
    BY <2>2, <2>4
<1>8. /\ p \in [DOMAIN spans -> Tokens]
      /\ \A k \in DOMAIN spans : p[k] \in {t \in Tokens : SpanAt(spans[k], t)}
      /\ \A k \in 2 .. Len(spans) : InReach(p[k - 1], p[k], spans[k])
  BY <1>2 DEF spans
<1>9. \A j, k \in DOMAIN spans : WorkOf(p[j]) = WorkOf(p[k])
  BY <1>2, <1>7
<1> QED
  BY <1>2, <1>6, <1>8, <1>9 DEF Arrangements, spans

-----------------------------------------------------------------------------
\* What one candidate leads to.

QueryRange == Bounds(query)
QuerySlices == [k \in DOMAIN query.spans |-> SpanCandidates(query.spans[k].terms, QueryRange)]
Candidates == QueryCandidates(query.spans, QuerySlices, QueryRange)

Matches ==
  {l \in Seq([start : Tokens, length : Nat \ {0}]) :
     /\ Genuine(l)
     /\ \A j, k \in DOMAIN l : j < k => l[j].start < l[k].start}

LEMMA RangeOfQuery ==
  ASSUME IsQuery(query)
  PROVE  QueryRange \in Ranges
<1>1. \A a \in Int : (a \div WordSize) \in Int
  BY CorpusShape
<1>2. \A a \in Int : a * WordSize \in Int
  BY CorpusShape
<1>3. \A a \in Nat : RoundUp(a) \in Int
  <2> SUFFICES ASSUME NEW a \in Nat PROVE RoundUp(a) \in Int
    OBVIOUS
  <2>1. a + WordSize - 1 \in Int
    BY CorpusShape
  <2> QED
    BY <1>1, <1>2, <2>1 DEF RoundUp
<1>4. CASE query.author = NoAuthor
  BY <1>3, <1>4, CorpusShape DEF QueryRange, Bounds, Ranges
<1>5. CASE query.author # NoAuthor
  <2>1. query.author.from \in Nat /\ query.author.to \in Nat
    BY <1>5 DEF IsQuery
  <2>2. RoundUp(query.author.to) \in Int
    BY <1>3, <2>1
  <2>3. (query.author.from \div WordSize) * WordSize \in Int
    BY <1>1, <1>2, <2>1
  <2> QED
    BY <1>5, <2>2, <2>3 DEF QueryRange, Bounds, Ranges
<1> QED
  BY <1>4, <1>5

LEMMA SpanStartsAtToken ==
  ASSUME IsIndices(indices), NEW span \in Spans, NEW t \in Int,
         SpanAt([terms |-> span.terms], t)
  PROVE  SpanAt(span, t) /\ t \in Tokens
<1>1. span.terms \in Seq(Terms) \ {<<>>}
  BY DEF Spans
<1>2. 1 \in DOMAIN span.terms /\ span.terms[1] \in Terms
  BY <1>1
<1>3. SpanAt(span, t)
  BY DEF SpanAt
<1>4. t + 1 - 1 \in indices[span.terms[1]].ids
  BY <1>2, <1>3 DEF SpanAt
<1>5. indices[span.terms[1]].ids \subseteq Tokens
  BY <1>2 DEF IsIndices
<1>6. t + 1 - 1 = t
  OBVIOUS
<1> QED
  BY <1>3, <1>4, <1>5, <1>6

LEMMA SlicesOfQuery ==
  ASSUME IsIndices(indices), IsQuery(query)
  PROVE  /\ QuerySlices \in [1 .. Len(query.spans) -> IndexData]
         /\ \A k \in 1 .. Len(query.spans) : \A y \in QuerySlices[k].ids :
              LET t == y - QuerySlices[k].position
              IN SpanAt(query.spans[k], t) /\ t \in Tokens
         /\ \A k \in 1 .. Len(query.spans) : QuerySlices[k].ids \subseteq Ids(QueryRange)
<1>1. query.spans \in Seq(Spans) \ {<<>>}
  BY DEF IsQuery
<1>2. DOMAIN query.spans = 1 .. Len(query.spans)
  BY <1>1
<1>3. QueryRange \in Ranges
  BY RangeOfQuery
<1>4. ASSUME NEW k \in 1 .. Len(query.spans)
      PROVE  /\ QuerySlices[k] \in IndexData
             /\ \A y \in QuerySlices[k].ids :
                  /\ SpanAt(query.spans[k], y - QuerySlices[k].position)
                  /\ y - QuerySlices[k].position \in Tokens
             /\ QuerySlices[k].ids \subseteq Ids(QueryRange)
  <2>1. query.spans[k] \in Spans
    BY <1>1
  <2>2. query.spans[k].terms \in Seq(Terms) \ {<<>>}
    BY <2>1 DEF Spans
  <2>3. QuerySlices[k] = SpanCandidates(query.spans[k].terms, QueryRange)
    BY <1>2 DEF QuerySlices
  <2>4. /\ QuerySlices[k] \in IndexData
        /\ \A y \in QuerySlices[k].ids :
             SpanAt([terms |-> query.spans[k].terms], y - QuerySlices[k].position)
        /\ QuerySlices[k].ids \subseteq Ids(QueryRange)
    BY <1>3, <2>2, <2>3, SpanCandidatesAreThere
  <2>5. ASSUME NEW y \in QuerySlices[k].ids
        PROVE  y - QuerySlices[k].position \in Int
    BY <2>4 DEF IndexData
  <2> QED
    BY <2>1, <2>4, <2>5, SpanStartsAtToken
<1> QED
  BY <1>2, <1>4 DEF QuerySlices

LEMMA PathsAreSpots ==
  ASSUME IsIndices(indices), IsQuery(query), NEW id \in Candidates.ids
  PROVE  \A p \in Paths(id - Candidates.position, Len(query.spans), query.spans, QuerySlices, QueryRange) :
           /\ p \in [1 .. Len(query.spans) -> Tokens]
           /\ \A k \in 1 .. Len(query.spans) : SpanAt(query.spans[k], p[k])
           /\ \A k \in 2 .. Len(query.spans) : InReach(p[k - 1], p[k], query.spans[k])
<1> DEFINE spans == query.spans
           n == Len(spans)
           token == id - Candidates.position
<1>1. spans \in Seq(Spans) \ {<<>>} /\ n \in Nat \ {0}
  BY DEF IsQuery
<1>2. /\ QuerySlices \in [1 .. n -> IndexData]
      /\ \A k \in 1 .. n : \A y \in QuerySlices[k].ids :
           /\ SpanAt(spans[k], y - QuerySlices[k].position)
           /\ y - QuerySlices[k].position \in Tokens
  BY SlicesOfQuery
<1>3. /\ Candidates \in IndexData
      /\ Candidates.ids \subseteq QuerySlices[1].ids
      /\ Candidates.position = QuerySlices[1].position
  <2> HIDE DEF spans
  <2>1. Candidates = QueryCandidates(spans, QuerySlices, QueryRange)
    BY DEF Candidates, spans
  <2> QED
    BY <1>1, <1>2, <2>1, CandidatesAreOfFirstSpan
<1>4. SpanAt(spans[1], token) /\ token \in Tokens
  <2>1. 1 \in 1 .. n /\ id \in QuerySlices[1].ids
    BY <1>1, <1>3
  <2>2. token = id - QuerySlices[1].position
    BY <1>3
  <2> HIDE DEF n, spans, token
  <2> QED
    BY <1>2, <2>1, <2>2
<1>5. Tokens \subseteq Nat
  BY CorpusShape DEF Tokens
<1> HIDE DEF n, spans, token
<1> SUFFICES ASSUME NEW p \in Paths(token, n, spans, QuerySlices, QueryRange)
             PROVE  /\ p \in [1 .. n -> Tokens]
                    /\ \A k \in 1 .. n : SpanAt(spans[k], p[k])
                    /\ \A k \in 2 .. n : InReach(p[k - 1], p[k], spans[k])
  BY DEF n, spans, token
<1>6. IsPath(p, token, n, spans, QuerySlices, QueryRange)
  <2>1. token \in Int
    BY <1>4, <1>5
  <2> QED
    BY <1>1, <1>2, <2>1, PathsAreLeaders DEF n
<1>7. p \in Seq(Int) /\ Len(p) = n /\ p[1] = token /\ p \in [1 .. n -> Int]
  BY <1>6 DEF IsPath
<1>8. ASSUME NEW k \in 2 .. n
      PROVE  SpanAt(spans[k], p[k]) /\ p[k] \in Tokens
  <2>1. p[k] \in SpanLeaders(p[k - 1], spans[k], QuerySlices[k], QueryRange)
    BY <1>6 DEF IsPath
  <2>2. QuerySlices[k] \in IndexData /\ k \in 1 .. n
    BY <1>1, <1>2
  <2>3. p[k] + QuerySlices[k].position \in QuerySlices[k].ids /\ p[k] \in Int
    BY <2>1, <2>2, LeadersAreInReach
  <2>4. QuerySlices[k].position \in Int
    BY <2>2 DEF IndexData
  <2>5. (p[k] + QuerySlices[k].position) - QuerySlices[k].position = p[k]
    BY <2>3, <2>4
  <2>6. /\ SpanAt(spans[k], (p[k] + QuerySlices[k].position) - QuerySlices[k].position)
        /\ (p[k] + QuerySlices[k].position) - QuerySlices[k].position \in Tokens
    BY <1>2, <2>2, <2>3
  <2> QED
    BY <2>5, <2>6
<1>9. ASSUME NEW k \in 1 .. n PROVE SpanAt(spans[k], p[k]) /\ p[k] \in Tokens
  <2>1. k = 1 \/ k \in 2 .. n
    BY <1>1
  <2> QED
    BY <1>4, <1>7, <1>8, <2>1
<1>10. ASSUME NEW k \in 2 .. n PROVE InReach(p[k - 1], p[k], spans[k])
  <2>1. k - 1 \in 1 .. n /\ k \in 1 .. n
    BY <1>1
  <2>2. p[k - 1] \in Nat
    BY <1>5, <1>9, <2>1
  <2>3. spans[k] \in Spans /\ QuerySlices[k] \in IndexData
    BY <1>1, <1>2, <2>1 DEF n
  <2>4. p[k] \in SpanLeaders(p[k - 1], spans[k], QuerySlices[k], QueryRange)
    BY <1>6 DEF IsPath
  <2> QED
    BY <2>2, <2>3, <2>4, LeadersAreInReach
<1> QED
  BY <1>7, <1>9, <1>10

LEMMA UsableIsMatch ==
  ASSUME IsQuery(query), NEW p \in [1 .. Len(query.spans) -> Tokens],
         \A k \in 1 .. Len(query.spans) : SpanAt(query.spans[k], p[k]),
         \A k \in 2 .. Len(query.spans) : InReach(p[k - 1], p[k], query.spans[k]),
         ~SpansOverlap(SortedLeaders(p, query.spans)),
         WithinWorkBounds(SortedLeaders(p, query.spans))
  PROVE  SortedLeaders(p, query.spans) \in Matches
<1> DEFINE spans == query.spans
           leaders == SortedLeaders(p, spans)
           order == SortedPlaces(p)
<1>1. spans \in Seq(Spans) \ {<<>>}
  BY DEF IsQuery
<1>2. p \in [1 .. Len(spans) -> Nat]
  BY CorpusShape DEF Tokens
<1>3. p \in Arrangements
  BY UsableIsArrangement
<1>4. ~SpansOverlap(leaders)
  OBVIOUS
<1>5. Genuine(leaders)
  BY <1>3 DEF Genuine
<1> HIDE DEF spans
<1>6. /\ leaders \in Seq(Leader) /\ Len(leaders) = Len(spans)
      /\ \A i \in 1 .. Len(spans) :
           /\ order[i] \in 1 .. Len(spans)
           /\ leaders[i] = [start |-> p[order[i]], length |-> Len(spans[order[i]].terms)]
  BY <1>1, <1>2, LeadersOfPath
<1> HIDE DEF leaders, order
<1>7. PICK n \in Nat : n = Len(leaders) /\ n = Len(spans)
  BY <1>6
<1>8. ASSUME NEW i \in 1 .. n PROVE leaders[i] \in [start : Tokens, length : Nat \ {0}]
  <2>1. leaders[i].start \in Nat /\ leaders[i].length \in Nat \ {0}
    BY <1>6, <1>7, LeaderNumbers
  <2>2. leaders[i] = [start |-> p[order[i]], length |-> Len(spans[order[i]].terms)]
    BY <1>6, <1>7
  <2>3. p[order[i]] \in Tokens
    BY <1>6, <1>7 DEF spans
  <2> QED
    BY <2>1, <2>2, <2>3
<1>9. leaders \in Seq([start : Tokens, length : Nat \ {0}])
  <2>1. leaders \in [1 .. n -> [start : Tokens, length : Nat \ {0}]]
    BY <1>6, <1>7, <1>8
  <2> QED
    BY <2>1, FunctionIsSequence
<1>10. ASSUME NEW j \in 1 .. n, NEW k \in 1 .. n, j < k
       PROVE  leaders[j].start < leaders[k].start
  <2>1. leaders[j].start + leaders[j].length <= leaders[k].start
    BY <1>4, <1>6, <1>7, <1>10, ApartInOrder
  <2>2. /\ leaders[j].start \in Nat /\ leaders[j].length \in Nat \ {0}
        /\ leaders[k].start \in Nat
    BY <1>6, <1>7, LeaderNumbers
  <2> DEFINE a == leaders[j].start
             b == leaders[j].length
             c == leaders[k].start
  <2>3. a \in Nat /\ b \in Nat \ {0} /\ c \in Nat /\ a + b <= c
    BY <2>1, <2>2
  <2> HIDE DEF a, b, c
  <2>4. a < c
    BY <2>3
  <2> QED
    BY <2>4 DEF a, c
<1>11. leaders \in Matches
  <2>1. DOMAIN leaders = 1 .. n
    BY <1>6, <1>7
  <2> QED
    BY <1>5, <1>9, <1>10, <2>1 DEF Matches
<1> QED
  BY <1>11 DEF leaders, spans

PathsFrom(token) == Paths(token, Len(query.spans), query.spans, QuerySlices, QueryRange)

IsUsable(p, last) ==
  /\ ~SpansOverlap(SortedLeaders(p, query.spans))
  /\ Starts(SortedLeaders(p, query.spans)) # Starts(last)
  /\ WithinWorkBounds(SortedLeaders(p, query.spans))

\* What is found is a usable path, if there is one.
LEMMA FoundIsUsable ==
  ASSUME IsIndices(indices), IsQuery(query), NEW id \in Candidates.ids, NEW last
  PROVE  LET token == id - Candidates.position
             found == LeadersForCandidate(token, last, query.spans, QuerySlices, QueryRange)
         IN \/ found = <<>> /\ \A p \in PathsFrom(token) : ~IsUsable(p, last)
            \/ \E p \in PathsFrom(token) :
                 IsUsable(p, last) /\ found = <<SortedLeaders(p, query.spans)>>
<1> DEFINE n == Len(query.spans)
           token == id - Candidates.position
           paths == PathsFrom(token)
           usable == {p \in paths : IsUsable(p, last)}
           first == CHOOSE p \in usable : \A q \in usable \ {p} : Before(p, q)
           found == LeadersForCandidate(token, last, query.spans, QuerySlices, QueryRange)
<1>1. found = IF usable = {} THEN <<>> ELSE <<SortedLeaders(first, query.spans)>>
  BY DEF LeadersForCandidate, PathsFrom, IsUsable
<1>2. paths \subseteq [1 .. n -> Tokens]
  BY PathsAreSpots DEF PathsFrom
<1>3. n \in Nat
  BY DEF IsQuery
<1>4. ASSUME usable # {} PROVE first \in usable
  <2>1. Tokens \subseteq Nat
    BY CorpusShape DEF Tokens
  <2>2. usable \subseteq [1 .. n -> Nat]
    <3> HIDE DEF paths, n
    <3> QED
      BY <1>2, <2>1
  <2> HIDE DEF usable, n
  <2>3. FirstOf(usable) # {}
    BY <1>3, <1>4, <2>2, FirstExists
  <2>4. \E p \in usable : \A q \in usable \ {p} : Before(p, q)
    BY <2>3 DEF FirstOf
  <2> QED
    BY <2>4
<1> HIDE DEF first, found, paths
<1>5. CASE usable = {}
  <2>1. found = <<>> /\ \A p \in paths : ~IsUsable(p, last)
    BY <1>1, <1>5
  <2> QED
    BY <2>1 DEF found, paths
<1>6. CASE usable # {}
  <2>1. first \in paths /\ IsUsable(first, last) /\ found = <<SortedLeaders(first, query.spans)>>
    BY <1>1, <1>4, <1>6
  <2> QED
    BY <2>1 DEF found, paths
<1> QED
  BY <1>5, <1>6

LEMMA FoundIsMatch ==
  ASSUME IsIndices(indices), IsQuery(query), NEW id \in Candidates.ids, NEW last
  PROVE  LET found == LeadersForCandidate(id - Candidates.position, last, query.spans,
                                          QuerySlices, QueryRange)
         IN found = <<>> \/ \E l \in Matches : found = <<l>>
<1> DEFINE n == Len(query.spans)
           token == id - Candidates.position
           found == LeadersForCandidate(token, last, query.spans, QuerySlices, QueryRange)
<1>1. \/ found = <<>>
      \/ \E p \in PathsFrom(token) :
           IsUsable(p, last) /\ found = <<SortedLeaders(p, query.spans)>>
  BY FoundIsUsable
<1>2. ASSUME NEW p \in PathsFrom(token), IsUsable(p, last)
      PROVE  SortedLeaders(p, query.spans) \in Matches
  <2>1. /\ p \in [1 .. n -> Tokens]
        /\ \A k \in 1 .. n : SpanAt(query.spans[k], p[k])
        /\ \A k \in 2 .. n : InReach(p[k - 1], p[k], query.spans[k])
    BY PathsAreSpots DEF PathsFrom
  <2>2. /\ ~SpansOverlap(SortedLeaders(p, query.spans))
        /\ WithinWorkBounds(SortedLeaders(p, query.spans))
    BY <1>2 DEF IsUsable
  <2> QED
    BY <2>1, <2>2, UsableIsMatch
<1> HIDE DEF found, token
<1> QED
  BY <1>1, <1>2 DEF found, token

-----------------------------------------------------------------------------
\* A page: the matches of the candidates from a place on.

LEMMA RankedNumbers ==
  ASSUME NEW S, IsFiniteSet(S), S \subseteq Int
  PROVE  /\ Ranked(S, <) \in Seq(S)
         /\ \A x \in S : \E i \in 1 .. Len(Ranked(S, <)) : Ranked(S, <)[i] = x
         /\ \A i, j \in 1 .. Len(Ranked(S, <)) : i < j => Ranked(S, <)[i] < Ranked(S, <)[j]
<1> DEFINE below == [x \in S |-> {y \in S : y < x}]
<1>1. /\ below \in [S -> SUBSET S]
      /\ \A x \in S : x \notin below[x]
      /\ \A x, y, z \in S : x \in below[y] /\ y \in below[z] => x \in below[z]
      /\ \A x, y \in S : x # y => x \in below[y] \/ y \in below[x]
  OBVIOUS
<1>2. Ranked(S, <) = [i \in 1 .. Cardinality(S) |->
                        CHOOSE x \in S : Cardinality({y \in S : y < x}) = i - 1]
  BY DEF Ranked
<1>3. /\ \A x \in S : Cardinality(below[x]) = Cardinality({y \in S : y < x})
      /\ \A x, y \in S : y \in below[x] => y < x
  OBVIOUS
<1> HIDE DEF below
<1>4. /\ Cardinality(S) \in Nat
      /\ \A i \in 1 .. Cardinality(S) : \E x \in S : Cardinality(below[x]) = i - 1
      /\ \A x \in S : \E i \in 1 .. Cardinality(S) : Cardinality(below[x]) = i - 1
      /\ \A x, z \in S : Cardinality(below[x]) = Cardinality(below[z]) => x = z
      /\ \A x, z \in S : Cardinality(below[x]) < Cardinality(below[z]) => x \in below[z]
  BY <1>1, RankExists
<1>5. PICK n \in Nat : n = Cardinality(S)
  BY <1>4
<1> DEFINE place == Ranked(S, <)
<1>6. ASSUME NEW i \in 1 .. n
      PROVE  place[i] \in S /\ Cardinality(below[place[i]]) = i - 1
  <2>1. \E x \in S : Cardinality({y \in S : y < x}) = i - 1
    BY <1>3, <1>4, <1>5
  <2>2. place[i] = CHOOSE x \in S : Cardinality({y \in S : y < x}) = i - 1
    BY <1>2, <1>5
  <2> QED
    BY <1>3, <2>1, <2>2
<1>7. DOMAIN place = 1 .. n /\ place = [i \in 1 .. n |-> place[i]]
  BY <1>2, <1>5
<1> HIDE DEF place
<1>8. place \in [1 .. n -> S]
  BY <1>6, <1>7
<1>9. place \in Seq(S) /\ Len(place) = n
  BY <1>8, FunctionIsSequence
<1>10. ASSUME NEW x \in S PROVE \E i \in 1 .. n : place[i] = x
  <2>1. PICK i \in 1 .. n : Cardinality(below[x]) = i - 1
    BY <1>4, <1>5
  <2> QED
    BY <1>4, <1>6, <2>1
<1>11. ASSUME NEW i \in 1 .. n, NEW j \in 1 .. n, i < j PROVE place[i] < place[j]
  <2>1. i - 1 < j - 1
    BY <1>11
  <2> QED
    BY <1>3, <1>4, <1>6, <2>1
<1> QED
  BY <1>9, <1>10, <1>11 DEF place

LEMMA CandidatesAreFinite ==
  ASSUME IsIndices(indices), IsQuery(query)
  PROVE  /\ Candidates \in IndexData
         /\ IsFiniteSet(Candidates.ids)
<1> DEFINE spans == query.spans
<1>1. spans \in Seq(Spans) \ {<<>>} /\ 1 \in 1 .. Len(spans)
  BY DEF IsQuery
<1>2. /\ QuerySlices \in [1 .. Len(spans) -> IndexData]
      /\ \A k \in 1 .. Len(spans) : \A y \in QuerySlices[k].ids :
           y - QuerySlices[k].position \in Tokens
  BY SlicesOfQuery
<1> HIDE DEF spans
<1>3. /\ Candidates \in IndexData
      /\ Candidates.ids \subseteq QuerySlices[1].ids
      /\ Candidates.position = QuerySlices[1].position
  <2>1. Candidates = QueryCandidates(spans, QuerySlices, QueryRange)
    BY DEF Candidates, spans
  <2> QED
    BY <1>1, <1>2, <2>1, CandidatesAreOfFirstSpan
<1> DEFINE ids == Candidates.ids
           leader == [y \in ids |-> y - Candidates.position]
<1>4. leader \in Injection(ids, Tokens)
  <2>1. \A y \in ids : y \in Int /\ Candidates.position \in Int
    BY <1>3 DEF IndexData
  <2>2. \A y \in ids : y - Candidates.position \in Tokens
    BY <1>1, <1>2, <1>3
  <2> QED
    BY <2>1, <2>2 DEF Injection, IsInjective
<1>5. IsFiniteSet(Tokens)
  <2>1. 0 \in Int /\ NumTokens - 1 \in Int
    BY CorpusShape
  <2> QED
    BY <2>1, FS_Interval DEF Tokens
<1> HIDE DEF leader
<1>6. IsFiniteSet(ids)
  BY <1>4, <1>5, FS_Injection
<1> QED
  BY <1>3, <1>6

LEMMA IteratorListsCandidates ==
  ASSUME IsIndices(indices), IsQuery(query), NEW current \in PageData
  PROVE  MatchIterator(Candidates, QueryRange, current) \in Seq(Candidates.ids)
<1> DEFINE ids == Candidates.ids
           sorted == Ranked(ids, <)
           rest == {y \in ids : y - QueryRange.start >= current.resultId}
<1>1. IsFiniteSet(ids) /\ ids \subseteq Int
  BY CandidatesAreFinite DEF IndexData
<1>2. IsFiniteSet(rest) /\ rest \subseteq ids
  BY <1>1, FS_Subset
<1>3. sorted \in Seq(ids)
  <2> HIDE DEF ids
  <2> QED
    BY <1>1, RankedNumbers
<1>4. Ranked(rest, <) \in Seq(ids)
  <2> HIDE DEF rest, ids
  <2>1. rest \subseteq Int
    BY <1>1, <1>2
  <2>2. Ranked(rest, <) \in Seq(rest)
    BY <1>2, <2>1, RankedNumbers
  <2> QED
    BY <1>2, <2>2, SeqMonotonic
<1>5. SubSeq(sorted, current.candidateIndex + 1, Len(sorted)) \in Seq(ids)
  <2>1. current.candidateIndex + 1 \in Nat \ {0}
    BY DEF PageData
  <2> HIDE DEF sorted
  <2>2. PICK a \in Nat \ {0} : a = current.candidateIndex + 1
    BY <2>1
  <2>3. PICK b \in Nat : b = Len(sorted) /\ \A i \in 1 .. b : sorted[i] \in ids
    BY <1>3
  <2>4. a \in Int /\ b \in Int /\ \A i \in a .. b : sorted[i] \in ids
    BY <2>3
  <2>5. SubSeq(sorted, a, b) \in Seq(ids)
    <3> HIDE DEF ids
    <3> QED
      BY <2>4, SubSeqProperties
  <2> QED
    BY <2>2, <2>3, <2>5
<1> HIDE DEF rest, sorted
<1>6. MatchIterator(Candidates, QueryRange, current) =
        IF Candidates.kind = "List"
        THEN SubSeq(sorted, current.candidateIndex + 1, Len(sorted))
        ELSE Ranked(rest, <)
  BY DEF MatchIterator, rest, sorted
<1> QED
  BY <1>4, <1>5, <1>6

Answers(current, size) ==
  {a \in [matches : Seq(Matches), skipped : Nat, next : PageData \cup {NoPage}, failed : BOOLEAN] :
     /\ Len(a.matches) <= size
     /\ a.next # NoPage =>
          /\ Len(a.matches) = size
          /\ a.next.resultIndex = current.resultIndex + size
          /\ a.next.candidateIndex \in Nat \ {0}}

Previous(matches) == IF matches = <<>> THEN <<>> ELSE Last(matches)

FoundAt(id, matches) ==
  LeadersForCandidate(id - Candidates.position, Previous(matches), query.spans,
                      QuerySlices, QueryRange)

Visit(acc, id, current, size) ==
  IF acc.next # NoPage \/ acc.failed THEN acc ELSE
  LET token == id - Candidates.position
      found == FoundAt(id, acc.matches)
  IN IF token < 0 \/ PathFails(token, query.spans, QuerySlices, QueryRange)
     THEN [acc EXCEPT !.failed = TRUE]
     ELSE IF found = <<>> THEN [acc EXCEPT !.skipped = @ + 1]
     ELSE IF Len(acc.matches) < size
          THEN [acc EXCEPT !.matches = @ \o found]
          ELSE [acc EXCEPT !.next = NextPage(current, size, acc.skipped, token)]

LEMMA VisitKeepsAnswer ==
  ASSUME IsIndices(indices), IsQuery(query), NEW current \in PageData, NEW size \in Nat \ {0},
         NEW acc \in Answers(current, size), NEW id \in Candidates.ids
  PROVE  Visit(acc, id, current, size) \in Answers(current, size)
<1> DEFINE A == Answers(current, size)
           token == id - Candidates.position
           found == FoundAt(id, acc.matches)
<1>1. /\ acc \in [matches : Seq(Matches), skipped : Nat, next : PageData \cup {NoPage},
                  failed : BOOLEAN]
      /\ Len(acc.matches) <= size
      /\ acc.matches \in Seq(Matches) /\ acc.skipped \in Nat
  BY DEF Answers
<1>2. token \in Int
  BY CandidatesAreFinite DEF IndexData
<1>3. found = <<>> \/ \E l \in Matches : found = <<l>>
  BY FoundIsMatch DEF FoundAt
<1> HIDE DEF found
<1>4. CASE acc.next # NoPage \/ acc.failed
  BY <1>4 DEF Visit
<1>5. CASE acc.next = NoPage /\ ~acc.failed
  <2>1. CASE token < 0 \/ PathFails(token, query.spans, QuerySlices, QueryRange)
    <3>1. Visit(acc, id, current, size) = [acc EXCEPT !.failed = TRUE]
      BY <1>5, <2>1 DEF Visit
    <3> QED
      BY <1>1, <1>5, <3>1 DEF Answers
  <2>2. CASE ~(token < 0 \/ PathFails(token, query.spans, QuerySlices, QueryRange))
    <3>1. CASE found = <<>>
      <4>1. Visit(acc, id, current, size) = [acc EXCEPT !.skipped = @ + 1]
        BY <1>5, <2>2, <3>1 DEF Visit, found
      <4> QED
        BY <1>1, <1>5, <4>1 DEF Answers
    <3>2. CASE found # <<>> /\ Len(acc.matches) < size
      <4>1. Visit(acc, id, current, size) = [acc EXCEPT !.matches = @ \o found]
        BY <1>5, <2>2, <3>2 DEF Visit, found
      <4>2. PICK l \in Matches : found = <<l>>
        BY <1>3, <3>2
      <4> DEFINE more == acc.matches \o found
      <4>3. more \in Seq(Matches) /\ Len(more) = Len(acc.matches) + 1
        <5>1. found \in Seq(Matches) /\ Len(found) = 1
          BY <4>2
        <5>2. PICK old \in Seq(Matches) : old = acc.matches
          BY <1>1
        <5>3. /\ old \o found \in Seq(Matches)
              /\ Len(old \o found) = Len(old) + Len(found)
          BY <5>1, ConcatProperties
        <5> QED
          BY <5>1, <5>2, <5>3
      <4>4. Len(more) <= size
        BY <1>1, <3>2, <4>3
      <4> HIDE DEF more
      <4>5. Visit(acc, id, current, size) = [acc EXCEPT !.matches = more]
        BY <4>1 DEF more
      <4> QED
        BY <1>1, <1>5, <4>3, <4>4, <4>5 DEF Answers
    <3>3. CASE found # <<>> /\ ~(Len(acc.matches) < size)
      <4> DEFINE next == NextPage(current, size, acc.skipped, token)
      <4>1. Visit(acc, id, current, size) = [acc EXCEPT !.next = next]
        BY <1>5, <2>2, <3>3 DEF Visit, found
      <4>2. /\ next \in PageData
            /\ next.resultIndex = current.resultIndex + size
            /\ next.candidateIndex \in Nat \ {0}
        <5>1. /\ current.resultIndex \in Nat /\ current.candidateIndex \in Nat
              /\ token \in Nat
          BY <1>2, <2>2 DEF PageData
        <5>2. next = [resultIndex |-> current.resultIndex + size,
                      candidateIndex |-> current.candidateIndex + size + acc.skipped,
                      resultId |-> token]
          BY DEF NextPage
        <5>3. /\ current.resultIndex + size \in Nat
              /\ current.candidateIndex + size + acc.skipped \in Nat \ {0}
          BY <1>1, <5>1
        <5> HIDE DEF next, token
        <5> QED
          BY <5>1, <5>2, <5>3 DEF PageData
      <4>3. Len(acc.matches) = size
        BY <1>1, <3>3
      <4> HIDE DEF next
      <4> QED
        BY <1>1, <1>5, <4>1, <4>2, <4>3 DEF Answers
    <3> QED
      BY <3>1, <3>2, <3>3
  <2> QED
    BY <2>1, <2>2
<1> QED
  BY <1>1, <1>4, <1>5

EmptyPage == [matches |-> <<>>, skipped |-> 0, next |-> NoPage, failed |-> FALSE]

\* The page after every candidate, of pages in a set that the visits stay in.
PageRuns(S, current, size) ==
  LET seq == MatchIterator(Candidates, QueryRange, current)
  IN {h \in [0 .. Len(seq) -> S] :
        /\ h[0] = EmptyPage
        /\ \A k \in 1 .. Len(seq) : h[k] = Visit(h[k - 1], seq[k], current, size)
        /\ h[Len(seq)] = MatchPage(Candidates, query.spans, QuerySlices, QueryRange, current, size)}

LEMMA PageByCandidates ==
  ASSUME IsIndices(indices), IsQuery(query), NEW current \in PageData, NEW size,
         NEW S, EmptyPage \in S,
         \A acc \in S : \A id \in Candidates.ids : Visit(acc, id, current, size) \in S
  PROVE  PageRuns(S, current, size) # {}
<1> DEFINE seq == MatchIterator(Candidates, QueryRange, current)
           base == EmptyPage
           Op(acc, id) == Visit(acc, id, current, size)
<1>1. seq \in Seq(Candidates.ids)
  BY IteratorListsCandidates
<1>2. PICK n \in Nat : n = Len(seq) /\ DOMAIN seq = 1 .. n /\ \A k \in 1 .. n : seq[k] \in Candidates.ids
  <2> HIDE DEF seq
  <2> QED
    BY <1>1
<1> HIDE DEF seq
<1> DEFINE g == [ks \in (1 .. n) \X S |-> Op(ks[2], seq[ks[1]])]
           IsFold(f) == f = [t \in SUBSET (1 .. n) |->
                               IF t = {} THEN base
                               ELSE Op(f[t \ {Max(t)}], seq[Max(t)])]
           iter == CHOOSE f : IsFold(f)
<1>3. \A k \in 1 .. n : \A acc \in S : Op(acc, seq[k]) \in S
  BY <1>2
<1>4. base \in S
  OBVIOUS
<1>5. MatchPage(Candidates, query.spans, QuerySlices, QueryRange, current, size) = iter[1 .. n]
  BY <1>2 DEF MatchPage, FoldLeft, MapThenFoldSet, Visit, FoundAt, Previous, seq, EmptyPage
<1> HIDE DEF base, Op
<1>6. g \in [(1 .. n) \X S -> S]
  BY <1>3
<1>7. PICK f \in FoldsOf(S, base, n, g) : TRUE
  <2> HIDE DEF g
  <2>1. FoldsOf(S, base, n, g) # {}
    BY <1>4, <1>6, FoldExists
  <2> QED
    BY <2>1
<1>8. IsFold(f)
  <2>1. /\ f \in [SUBSET (1 .. n) -> S]
        /\ f[{}] = base
        /\ \A t \in SUBSET (1 .. n) : t # {} => f[t] = g[<<Max(t), f[t \ {Max(t)}]>>]
    BY <1>7 DEF FoldsOf
  <2> SUFFICES ASSUME NEW t \in SUBSET (1 .. n), t # {}
               PROVE  f[t] = Op(f[t \ {Max(t)}], seq[Max(t)])
    BY <2>1
  <2>2. Max(t) \in 1 .. n
    BY MaxPlace
  <2>3. f[t] = g[<<Max(t), f[t \ {Max(t)}]>>] /\ f[t \ {Max(t)}] \in S
    BY <2>1
  <2> QED
    BY <2>2, <2>3
<1>9. iter = [t \in SUBSET (1 .. n) |->
                IF t = {} THEN base ELSE Op(iter[t \ {Max(t)}], seq[Max(t)])]
  <2>1. IsFold(iter)
    <3> HIDE DEF IsFold
    <3> QED
      BY <1>8
  <2> QED
    BY <2>1
<1> HIDE DEF iter
<1> DEFINE h == [k \in 0 .. n |-> iter[1 .. k]]
<1>10. h[0] \in S /\ h[0] = base
  <2>1. 1 .. 0 = {} /\ {} \in SUBSET (1 .. n)
    OBVIOUS
  <2> QED
    BY <1>4, <1>9, <2>1
<1>11. ASSUME NEW k \in 1 .. n
       PROVE  h[k] = Op(h[k - 1], seq[k]) /\ (h[k - 1] \in S => h[k] \in S)
  <2>1. k \in Nat \ {0} /\ 1 .. k \in SUBSET (1 .. n)
    OBVIOUS
  <2>2. Max(1 .. k) = k /\ (1 .. k) \ {k} = 1 .. (k - 1) /\ ~(1 .. k = {})
    BY <2>1, PlacesUpTo
  <2>3. iter[1 .. k] = Op(iter[1 .. (k - 1)], seq[k])
    BY <1>9, <2>1, <2>2
  <2>4. h[k] = iter[1 .. k] /\ h[k - 1] = iter[1 .. (k - 1)]
    OBVIOUS
  <2> HIDE DEF h
  <2> QED
    BY <1>3, <2>3, <2>4
<1>12. h[n] = iter[1 .. n]
  OBVIOUS
<1>13. DOMAIN h = 0 .. n /\ h = [k \in 0 .. n |-> h[k]]
  OBVIOUS
<1> HIDE DEF h
<1>14. \A k \in 0 .. n : h[k] \in S
  BY <1>10, <1>11, StepInduction
<1>15. h \in [0 .. n -> S]
  BY <1>13, <1>14
<1>16. h \in PageRuns(S, current, size)
  BY <1>2, <1>5, <1>10, <1>11, <1>12, <1>15 DEF PageRuns, seq, base, Op
<1> QED
  BY <1>16

\* What every visit of a candidate keeps is true of the page.
LEMMA PageKeeps ==
  ASSUME IsIndices(indices), IsQuery(query), NEW current \in PageData, NEW size,
         NEW S, EmptyPage \in S,
         \A acc \in S : \A id \in Candidates.ids : Visit(acc, id, current, size) \in S
  PROVE  MatchPage(Candidates, query.spans, QuerySlices, QueryRange, current, size) \in S
<1> DEFINE seq == MatchIterator(Candidates, QueryRange, current)
<1>1. PICK h \in PageRuns(S, current, size) : TRUE
  <2>1. PageRuns(S, current, size) # {}
    BY PageByCandidates
  <2> QED
    BY <2>1
<1>2. seq \in Seq(Candidates.ids)
  BY IteratorListsCandidates
<1>3. /\ h \in [0 .. Len(seq) -> S]
      /\ h[Len(seq)] = MatchPage(Candidates, query.spans, QuerySlices, QueryRange, current, size)
  BY <1>1 DEF PageRuns
<1> HIDE DEF seq
<1>4. Len(seq) \in 0 .. Len(seq)
  BY <1>2
<1> QED
  BY <1>3, <1>4

LEMMA PageIsAnswer ==
  ASSUME IsIndices(indices), IsQuery(query), NEW current \in PageData, NEW size \in Nat \ {0}
  PROVE  MatchPage(Candidates, query.spans, QuerySlices, QueryRange, current, size)
           \in Answers(current, size)
<1> DEFINE S == Answers(current, size)
<1>1. EmptyPage \in S
  <2>1. <<>> \in Seq(Matches) /\ Len(<<>>) = 0
    OBVIOUS
  <2> QED
    BY <2>1 DEF Answers, EmptyPage
<1>2. \A acc \in S : \A id \in Candidates.ids : Visit(acc, id, current, size) \in S
  BY VisitKeepsAnswer
<1> HIDE DEF S
<1>3. MatchPage(Candidates, query.spans, QuerySlices, QueryRange, current, size) \in S
  BY <1>1, <1>2, PageKeeps
<1> QED
  BY <1>3 DEF S

LEMMA EstimateIsNumber ==
  ASSUME NEW total \in Nat, NEW current \in PageData, NEW size \in Nat \ {0},
         NEW answer \in Answers(current, size)
  PROVE  EstimatedResults(total, answer, current) \in Nat
<1>1. /\ answer.matches \in Seq(Matches) /\ current.resultIndex \in Nat
      /\ answer.next \in PageData \cup {NoPage}
      /\ answer.next # NoPage => answer.next.candidateIndex \in Nat \ {0}
  BY DEF Answers, PageData
<1>2. CASE answer.next = NoPage
  <2>1. Len(answer.matches) \in Nat
    BY <1>1
  <2> QED
    BY <1>1, <1>2, <2>1 DEF EstimatedResults
<1>3. CASE answer.next # NoPage
  <2>1. /\ answer.next.resultIndex \in Nat
        /\ answer.next.candidateIndex \in Nat \ {0}
    BY <1>1, <1>3 DEF PageData
  <2>2. PICK r \in Nat, c \in Nat \ {0} :
          r = answer.next.resultIndex /\ c = answer.next.candidateIndex
    BY <2>1
  <2>3. PICK m \in Nat : m = Highest(total - c, 0)
    BY DEF Highest
  <2>4. EstimatedResults(total, answer, current) = r + (100 * m * r + 99 * c) \div (100 * c)
    BY <1>3, <2>2, <2>3 DEF EstimatedResults
  <2>5. PICK a \in Nat, b \in Nat \ {0} : a = 100 * m * r + 99 * c /\ b = 100 * c
    <3>1. 100 * m * r \in Nat /\ 99 * c \in Nat /\ 100 * c \in Nat \ {0}
      OBVIOUS
    <3> QED
      BY <3>1
  <2>6. a \div b \in Nat
    OBVIOUS
  <2> QED
    BY <2>4, <2>5, <2>6
<1> QED
  BY <1>2, <1>3

LEMMA AnswerFits ==
  ASSUME IsIndices(indices), IsQuery(query), NEW current \in PageData, NEW size \in Nat \ {0},
         ~Answer(current, size).failed
  PROVE  /\ Answer(current, size).matches \in Seq(Matches)
         /\ Answer(current, size).next \in PageData \cup {NoPage}
         /\ Answer(current, size).next # NoPage =>
              Answer(current, size).next.resultIndex
                = current.resultIndex + Len(Answer(current, size).matches)
         /\ Answer(current, size).estimate \in Nat
<1> DEFINE a == MatchPage(Candidates, query.spans, QuerySlices, QueryRange, current, size)
           e == EstimatedResults(Cardinality(Candidates.ids), a, current)
           panic == CandidatesPanic(query.spans, QuerySlices, QueryRange)
<1>1. a \in Answers(current, size)
  BY PageIsAnswer
<1>2. e \in Nat
  <2>1. Cardinality(Candidates.ids) \in Nat
    BY CandidatesAreFinite, FS_CardinalityType
  <2> HIDE DEF a
  <2> QED
    BY <1>1, <2>1, EstimateIsNumber
<1>3. Answer(current, size) =
        IF panic THEN [failed |-> TRUE]
        ELSE [failed |-> a.failed, matches |-> a.matches, next |-> a.next, estimate |-> e]
  BY DEF Answer, Candidates, QuerySlices, QueryRange
<1> HIDE DEF a, e, panic
<1>4. ~panic
  BY <1>3
<1>5. /\ Answer(current, size).matches = a.matches
      /\ Answer(current, size).next = a.next
      /\ Answer(current, size).estimate = e
  BY <1>3, <1>4
<1>6. /\ a.matches \in Seq(Matches)
      /\ a.next \in PageData \cup {NoPage}
      /\ a.next # NoPage => a.next.resultIndex = current.resultIndex + Len(a.matches)
  BY <1>1 DEF Answers
<1> QED
  BY <1>2, <1>5, <1>6

-----------------------------------------------------------------------------
\* A query of the whole corpus with at most two spans is never an error.

LEMMA RoundUpReaches ==
  ASSUME NEW n \in Nat
  PROVE  n <= RoundUp(n) /\ RoundUp(n) \in Nat
<1>1. PICK w \in Nat \ {0} : w = WordSize
  BY CorpusShape
<1>2. PICK a \in Nat : a = n + w - 1
  BY <1>1
<1>3. PICK q \in Nat : q = a \div w /\ w * q <= a /\ a < w * q + w
  <2>1. a \div w \in Nat
    OBVIOUS
  <2>2. a = w * (a \div w) + (a % w) /\ a % w \in 0 .. w - 1
    OBVIOUS
  <2> QED
    BY <2>1, <2>2
<1>4. PICK r \in Nat : r = q * w /\ r = w * q
  OBVIOUS
<1> QED
  BY <1>1, <1>2, <1>3, <1>4 DEF RoundUp

LEMMA WholeCorpus ==
  ASSUME IsQuery(query), query.author = NoAuthor
  PROVE  /\ QueryRange.start = 0
         /\ QueryRange.end \in Nat
         /\ QueryRange.end \notin Tokens
         /\ Tokens \subseteq Ids(QueryRange)
<1>1. QueryRange = [start |-> 0, end |-> RoundUp(NumTokens)]
  BY DEF QueryRange, Bounds
<1>2. NumTokens <= RoundUp(NumTokens) /\ RoundUp(NumTokens) \in Nat /\ NumTokens \in Nat
  BY RoundUpReaches, CorpusShape
<1>3. QueryRange.start = 0 /\ QueryRange.end = RoundUp(NumTokens)
  BY <1>1
<1> QED
  BY <1>2, <1>3 DEF Tokens, Ids

LEMMA WholeCorpusDoesNotPanic ==
  ASSUME IsIndices(indices), IsQuery(query), query.author = NoAuthor
  PROVE  ~CandidatesPanic(query.spans, QuerySlices, QueryRange)
<1>1. PICK m \in Nat \ {0} : m = Len(query.spans) /\ DOMAIN query.spans = 1 .. m
  BY DEF IsQuery
<1>2. query.spans \in Seq(Spans) \ {<<>>}
  BY DEF IsQuery
<1>3. /\ QueryRange.start = 0 /\ QueryRange.end \in Nat /\ QueryRange.end \notin Tokens
  BY WholeCorpus
<1>4. ASSUME NEW k \in DOMAIN query.spans, NEW i \in DOMAIN query.spans[k].terms
      PROVE  ~SlicePanics(indices[query.spans[k].terms[i]], QueryRange)
  <2>1. query.spans[k] \in Spans
    BY <1>2
  <2>2. query.spans[k].terms \in Seq(Terms)
    BY <2>1 DEF Spans
  <2>3. query.spans[k].terms[i] \in Terms
    BY <2>2
  <2>4. indices[query.spans[k].terms[i]].ids \subseteq Tokens
    BY <2>3 DEF IsIndices
  <2> QED
    BY <1>3, <2>4 DEF SlicePanics
<1>5. ASSUME NEW k \in 1 .. Len(query.spans) - 1
      PROVE  LET rest == SubSeq(query.spans, k + 1, Len(query.spans))
                 restSlices == SubSeq(QuerySlices, k + 1, Len(query.spans))
             IN ~FuzzyPanics(QuerySlices[k], QueryCandidates(rest, restSlices, QueryRange), QueryRange)
  <2> DEFINE rest == SubSeq(query.spans, k + 1, m)
             restSlices == SubSeq(QuerySlices, k + 1, m)
             second == QueryCandidates(rest, restSlices, QueryRange)
  <2>1. QuerySlices \in [1 .. m -> IndexData] /\ k \in 1 .. m
    BY <1>1, SlicesOfQuery
  <2>2. QuerySlices \in Seq(IndexData) /\ Len(QuerySlices) = m
    BY <2>1, FunctionIsSequence
  <2>3. /\ rest \in Seq(Spans) /\ Len(rest) = m - k
        /\ restSlices \in Seq(IndexData) /\ Len(restSlices) = m - k
    <3>1. k + 1 \in 1 .. m /\ m \in 1 .. m /\ k + 1 <= m
      BY <1>1
    <3>2. m - (k + 1) + 1 = m - k
      BY <1>1
    <3> QED
      BY <1>1, <1>2, <2>2, <3>1, <3>2, SubSeqProperties
  <2>4. rest # <<>> /\ restSlices \in [1 .. Len(rest) -> IndexData]
    <3>1. m - k \in Nat \ {0}
      BY <1>1
    <3> HIDE DEF rest, restSlices
    <3> QED
      BY <2>3, <3>1
  <2>5. second \in IndexData
    <3> HIDE DEF rest, restSlices
    <3> QED
      BY <2>3, <2>4, CandidatesAreOfFirstSpan
  <2>6. QuerySlices[k] \in IndexData
    BY <2>1
  <2> HIDE DEF second
  <2>7. ASSUME NEW x \in QuerySlices[k].ids
        PROVE  LET relative == x - (QuerySlices[k].position - second.position) - QueryRange.start
               IN ~(relative >= QueryRange.end - QueryRange.start /\ relative < QueryRange.end)
    <3>1. x \in Int /\ QuerySlices[k].position \in Int /\ second.position \in Int
      BY <2>5, <2>6 DEF IndexData
    <3>2. PICK r \in Int : r = x - (QuerySlices[k].position - second.position) - QueryRange.start
      BY <1>3, <3>1
    <3>3. ~(r >= QueryRange.end - QueryRange.start /\ r < QueryRange.end)
      BY <1>3
    <3> QED
      BY <3>2, <3>3
  <2>8. ~FuzzyPanics(QuerySlices[k], second, QueryRange)
    BY <2>7 DEF FuzzyPanics
  <2> QED
    BY <1>1, <2>8 DEF second
<1> QED
  BY <1>4, <1>5 DEF CandidatesPanic

\* A candidate of a span has one of the next span in reach.
LEMMA FuzzyIsNear ==
  ASSUME NEW first \in IndexData, NEW second \in IndexData, NEW span \in Spans,
         NEW range \in Ranges,
         NEW x \in FuzzyMatches(first, second, span.distance, span.directed, range).ids
  PROVE  \E y \in second.ids : InReach(x - first.position, y - second.position, span)
<1> DEFINE d == span.distance
           directed == span.directed
           offset == first.position - second.position
           Near(a, b) ==
             CASE second.kind = "BitMask" ->
                    NearInBitmask(a, b, offset, d, directed, range)
               [] first.kind = "List" /\ second.kind = "List" ->
                    NearInLists(a, b, offset, d, directed)
               [] first.kind = "BitMask" /\ second.kind = "List" ->
                    NearInSlice(a, b, offset, d, directed, range)
           near == {a \in first.ids : \E b \in second.ids : Near(a, b)}
<1>1. FuzzyMatches(first, second, d, directed, range) = [first EXCEPT !.ids = near]
  BY DEF FuzzyMatches
<1>2. x \in near
  <2> HIDE DEF near
  <2> QED
    BY <1>1 DEF IndexData
<1>3. PICK y \in second.ids : x \in first.ids /\ Near(x, y)
  BY <1>2
<1>4. /\ d \in Nat /\ directed \in BOOLEAN /\ x \in Int /\ y \in Int
      /\ first.position \in Int /\ second.position \in Int
      /\ first.kind \in Kinds /\ second.kind \in Kinds
  BY <1>3 DEF IndexData, Spans
<1> HIDE DEF near, d, directed
<1>5. \/ NearInBitmask(x, y, offset, d, directed, range)
      \/ NearInLists(x, y, offset, d, directed)
      \/ NearInSlice(x, y, offset, d, directed, range)
  BY <1>3, <1>4 DEF Kinds
<1>6. PICK s \in Int, t \in Int : s = x - first.position /\ t = y - second.position
  BY <1>4
<1>7. /\ x - offset = s + second.position /\ y + offset = t + first.position
      /\ x = s + first.position /\ y = t + second.position /\ offset \in Int
  BY <1>4, <1>6
<1>8. t - s \in (IF directed THEN 0 ELSE -d) .. d
  <2>1. CASE NearInBitmask(x, y, offset, d, directed, range)
    <3>1. x - offset \in Smeared(y, d, directed, range)
      BY <2>1 DEF NearInBitmask
    <3>2. CASE directed
      BY <1>4, <1>6, <1>7, <3>1, <3>2 DEF Smeared, Reach
    <3>3. CASE ~directed
      <4> DEFINE right == Reach(y + d, d, TRUE) \cap Ids(range)
      <4>1. right \subseteq y .. y + d
        BY <1>4 DEF Reach
      <4>2. x - offset \in right \/ \E z \in right : x - offset = z - d
        BY <3>1, <3>3 DEF Smeared
      <4> HIDE DEF right
      <4>3. CASE x - offset \in right
        BY <1>4, <1>6, <1>7, <3>3, <4>1, <4>3
      <4>4. CASE \E z \in right : x - offset = z - d
        <5>1. PICK z \in y .. y + d : x - offset = z - d
          BY <4>1, <4>4
        <5> QED
          BY <1>4, <1>6, <1>7, <3>3, <5>1
      <4> QED
        BY <4>2, <4>3, <4>4
    <3> QED
      BY <3>2, <3>3
  <2>2. CASE x \in Reach(y + offset, d, directed)
    BY <1>4, <1>6, <1>7, <2>2 DEF Reach
  <2> QED
    BY <1>5, <2>1, <2>2 DEF NearInLists, NearInSlice
<1> QED
  BY <1>6, <1>8 DEF InReach, d, directed

LEMMA LeaderIsFound ==
  ASSUME IsIndices(indices), IsQuery(query), query.author = NoAuthor, Len(query.spans) = 2,
         NEW id \in Candidates.ids
  PROVE  LET token == id - Candidates.position
         IN /\ token \in Nat
            /\ ~LeaderFails(token, query.spans[2], QuerySlices[2], QueryRange)
<1>1. PICK spans \in Seq(Spans) \ {<<>>} : spans = query.spans /\ Len(spans) = 2
  BY DEF IsQuery
<1>2. /\ QuerySlices \in [1 .. 2 -> IndexData]
      /\ \A k \in 1 .. 2 : /\ QuerySlices[k].ids \subseteq Ids(QueryRange)
                           /\ \A y \in QuerySlices[k].ids : y - QuerySlices[k].position \in Tokens
  BY <1>1, SlicesOfQuery
<1>3. QueryRange \in Ranges /\ QueryRange.start = 0 /\ QueryRange.end \in Nat
  BY RangeOfQuery, WholeCorpus
<1>4. PICK first \in IndexData, second \in IndexData : first = QuerySlices[1] /\ second = QuerySlices[2]
  BY <1>2
<1>5. PICK span \in Spans : span = query.spans[2]
  BY <1>1
<1>6. Candidates = FuzzyMatches(first, second, span.distance, span.directed, QueryRange)
  <2>1. PICK c \in Chains(spans, QuerySlices, QueryRange) : TRUE
    <3>1. QuerySlices \in [1 .. Len(spans) -> IndexData]
      BY <1>1, <1>2
    <3>2. Chains(spans, QuerySlices, QueryRange) # {}
      BY <3>1, ChainOfSpans
    <3> QED
      BY <3>2
  <2>2. /\ c[2] = QuerySlices[2]
        /\ c[1] = FuzzyMatches(QuerySlices[1], c[1 + 1], spans[1 + 1].distance,
                               spans[1 + 1].directed, QueryRange)
        /\ c[1] = QueryCandidates(spans, QuerySlices, QueryRange)
    <3>1. PICK m \in Nat : m = 2 /\ m = Len(spans)
      BY <1>1
    <3>2. 1 \in 1 .. m - 1
      BY <3>1
    <3> QED
      BY <1>1, <3>1, <3>2 DEF Chains
  <2>3. 1 + 1 = 2
    OBVIOUS
  <2> QED
    BY <1>1, <1>4, <1>5, <2>2, <2>3 DEF Candidates
<1>7. Candidates.ids \subseteq first.ids /\ Candidates.position = first.position
  BY <1>6, FuzzyIsPart
<1> DEFINE token == id - Candidates.position
<1>8. token \in Nat
  <2>1. id - first.position \in Tokens
    BY <1>2, <1>4, <1>7
  <2> QED
    BY <1>7, <2>1, CorpusShape DEF Tokens
<1>9. PICK y \in second.ids : InReach(id - first.position, y - second.position, span)
  BY <1>3, <1>6, FuzzyIsNear
<1>10. /\ y - second.position \in Tokens /\ y \in Ids(QueryRange)
       /\ y \in Int /\ second.position \in Int
  <2>1. /\ second.ids \subseteq Ids(QueryRange)
        /\ \A z \in second.ids : z - second.position \in Tokens
    BY <1>2, <1>4
  <2> QED
    BY <2>1 DEF IndexData
<1>11. PICK s \in Nat, l \in Nat, d \in Nat, pos \in Int, end \in Nat :
         /\ s = token /\ l = y - second.position /\ d = span.distance
         /\ pos = second.position /\ end = QueryRange.end
  <2>1. y - second.position \in Nat
    BY <1>10, CorpusShape DEF Tokens
  <2>2. span.distance \in Nat
    BY DEF Spans
  <2> HIDE DEF token
  <2> QED
    BY <1>3, <1>8, <1>10, <2>1, <2>2
<1> HIDE DEF token
<1>12. l - s \in (IF span.directed THEN 0 ELSE -d) .. d
  BY <1>7, <1>9, <1>11 DEF InReach, token
<1>13. l + pos = y /\ 0 <= l + pos /\ l + pos < end
  <2>1. y \in 0 .. end - 1
    BY <1>3, <1>10, <1>11 DEF Ids
  <2>2. l + pos = y
    BY <1>10, <1>11
  <2> QED
    BY <2>1, <2>2
<1>14. l <= s + d /\ s - d <= l /\ (span.directed => s <= l)
  BY <1>11, <1>12
<1> DEFINE leaders == SpanLeaders(s, span, second, QueryRange)
           reachStart == IF span.directed THEN s ELSE Highest(s - d, 0)
<1>15. reachStart \in Nat /\ reachStart <= l
  BY <1>11, <1>14 DEF Highest
<1>16. l \in leaders
  <2>1. l \in LeaderRange(s, span)
    BY <1>11, <1>14, <1>15 DEF LeaderRange
  <2>2. y - second.position >= IF second.kind = "BitMask" THEN QueryRange.start ELSE 0
    BY <1>3, <1>11
  <2> QED
    BY <1>9, <1>11, <2>1, <2>2 DEF SpanLeaders
<1>17. /\ ~(s + d + 1 <= Highest(0 - pos, 0))
       /\ ~(Highest(end - pos, 0) <= reachStart)
       /\ ~(Lowest(s + d + 1, Highest(end - pos, 0)) <= 0)
  <2> HIDE DEF reachStart
  <2>1. PICK b \in Nat : b = reachStart
    BY <1>15
  <2>2. Highest(end - pos, 0) = end - pos
    <3>1. end - pos \in Int /\ end - pos > 0
      BY <1>13
    <3> QED
      BY <3>1 DEF Highest
  <2>3. l < end - pos /\ l < s + d + 1
    BY <1>13, <1>14
  <2>4. ~(s + d + 1 <= Highest(0 - pos, 0))
    BY <1>13, <2>3 DEF Highest
  <2>5. ~(end - pos <= b)
    BY <1>11, <1>15, <2>1, <2>3
  <2>6. ~(Lowest(s + d + 1, end - pos) <= 0)
    <3>1. PICK a \in Int, c \in Int : a = s + d + 1 /\ c = end - pos
      OBVIOUS
    <3>2. a > 0 /\ c > 0
      BY <2>3, <3>1
    <3> QED
      BY <3>1, <3>2 DEF Lowest
  <2> QED
    BY <2>1, <2>2, <2>4, <2>5, <2>6
<1> HIDE DEF reachStart
<1>18. ~LeaderFails(s, span, second, QueryRange)
  BY <1>3, <1>11, <1>16, <1>17 DEF LeaderFails, reachStart
<1> QED
  BY <1>4, <1>5, <1>8, <1>11, <1>18 DEF token

LEMMA PathsAreAnswered ==
  ASSUME IsIndices(indices), IsQuery(query), query.author = NoAuthor, Len(query.spans) <= 2,
         NEW id \in Candidates.ids
  PROVE  LET token == id - Candidates.position
         IN /\ token \in Nat
            /\ ~PathFails(token, query.spans, QuerySlices, QueryRange)
<1> DEFINE token == id - Candidates.position
<1>1. query.spans \in Seq(Spans) \ {<<>>}
  BY DEF IsQuery
<1>2. PICK m \in 1 .. 2 : m = Len(query.spans)
  <2>1. PICK n \in Nat \ {0} : n = Len(query.spans)
    BY <1>1
  <2>2. n <= 2
    BY <2>1
  <2>3. n \in 1 .. 2
    BY <2>2
  <2> QED
    BY <2>1, <2>3
<1>3. token \in Nat
  <2>1. QuerySlices \in [1 .. Len(query.spans) -> IndexData]
    BY SlicesOfQuery
  <2>2. Candidates.ids \subseteq QuerySlices[1].ids /\ Candidates.position = QuerySlices[1].position
    BY <1>1, <2>1, CandidatesAreOfFirstSpan DEF Candidates
  <2>3. 1 \in 1 .. Len(query.spans) /\ id \in QuerySlices[1].ids
    <3>1. 1 \in 1 .. m
      OBVIOUS
    <3> QED
      BY <1>2, <2>2, <3>1
  <2>4. id - QuerySlices[1].position \in Tokens
    BY <2>3, SlicesOfQuery
  <2> QED
    BY <2>2, <2>4, CorpusShape DEF Tokens
<1>4. ASSUME NEW k \in 2 .. Len(query.spans),
             NEW p \in Paths(token, k - 1, query.spans, QuerySlices, QueryRange)
      PROVE  ~LeaderFails(Last(p), query.spans[k], QuerySlices[k], QueryRange)
  <2>1. k = 2 /\ m = 2 /\ k - 1 = 1 /\ 1 \in 1 .. Len(query.spans) /\ Len(query.spans) = 2
    <3>1. k \in 2 .. m
      BY <1>2
    <3>2. k = 2 /\ m = 2 /\ 1 \in 1 .. m
      BY <3>1
    <3> QED
      BY <1>2, <3>2
  <2>2. p \in Paths(token, 1, query.spans, QuerySlices, QueryRange)
    BY <2>1
  <2>3. QuerySlices \in [1 .. Len(query.spans) -> IndexData] /\ token \in Int
    BY <1>3, SlicesOfQuery
  <2> HIDE DEF token
  <2>4. IsPath(p, token, 1, query.spans, QuerySlices, QueryRange)
    BY <1>1, <2>1, <2>2, <2>3, PathsAreLeaders
  <2>5. Last(p) = token
    BY <2>4 DEF IsPath, Last
  <2>6. ~LeaderFails(token, query.spans[2], QuerySlices[2], QueryRange)
    BY <2>1, LeaderIsFound DEF token
  <2> QED
    BY <2>1, <2>5, <2>6
<1>5. ~PathFails(token, query.spans, QuerySlices, QueryRange)
  BY <1>4 DEF PathFails
<1> QED
  BY <1>3, <1>5

LEMMA ShortQueryIsAnswered ==
  ASSUME IsIndices(indices), IsQuery(query), query.author = NoAuthor, Len(query.spans) <= 2,
         NEW current \in PageData, NEW size \in Nat \ {0}
  PROVE  ~Answer(current, size).failed
<1> DEFINE S == {a \in Answers(current, size) : a.failed = FALSE}
           a == MatchPage(Candidates, query.spans, QuerySlices, QueryRange, current, size)
           e == EstimatedResults(Cardinality(Candidates.ids), a, current)
           panic == CandidatesPanic(query.spans, QuerySlices, QueryRange)
<1>1. EmptyPage \in S
  <2>1. <<>> \in Seq(Matches) /\ Len(<<>>) = 0
    OBVIOUS
  <2> QED
    BY <2>1 DEF Answers, EmptyPage
<1>2. ASSUME NEW acc \in S, NEW id \in Candidates.ids
      PROVE  Visit(acc, id, current, size) \in S
  <2>1. Visit(acc, id, current, size) \in Answers(current, size)
    BY VisitKeepsAnswer
  <2>2. /\ id - Candidates.position \in Nat
        /\ ~PathFails(id - Candidates.position, query.spans, QuerySlices, QueryRange)
    BY PathsAreAnswered
  <2>3. acc \in [matches : Seq(Matches), skipped : Nat, next : PageData \cup {NoPage}, failed : BOOLEAN]
        /\ acc.failed = FALSE
    BY DEF Answers
  <2>4. ~(id - Candidates.position < 0)
    BY <2>2
  <2>5. Visit(acc, id, current, size).failed = acc.failed
    BY <2>2, <2>3, <2>4 DEF Visit
  <2> QED
    BY <2>1, <2>3, <2>5
<1>3. a \in S
  <2> HIDE DEF S
  <2> QED
    BY <1>1, <1>2, PageKeeps
<1>4. ~panic
  BY WholeCorpusDoesNotPanic
<1>5. Answer(current, size) =
        IF panic THEN [failed |-> TRUE]
        ELSE [failed |-> a.failed, matches |-> a.matches, next |-> a.next, estimate |-> e]
  BY DEF Answer, Candidates, QuerySlices, QueryRange
<1> HIDE DEF a, e, panic
<1>6. a.failed = FALSE
  BY <1>3
<1> QED
  BY <1>4, <1>5, <1>6

-----------------------------------------------------------------------------
\* A query of the whole corpus loses no place its first span can start at.

LEMMA WholeSlicesListAll ==
  ASSUME IsIndices(indices), IsQuery(query), query.author = NoAuthor
  PROVE  \A k \in 1 .. Len(query.spans) :
           /\ QuerySlices[k].position \in 0 .. Len(query.spans[k].terms) - 1
           /\ \A t \in Int : SpanAt(query.spans[k], t) =>
                t + QuerySlices[k].position \in QuerySlices[k].ids
<1>1. query.spans \in Seq(Spans) \ {<<>>} /\ DOMAIN query.spans = 1 .. Len(query.spans)
  BY DEF IsQuery
<1>2. /\ QueryRange \in Ranges /\ QueryRange.end \notin Tokens
      /\ Tokens \subseteq Ids(QueryRange)
  BY RangeOfQuery, WholeCorpus
<1> SUFFICES ASSUME NEW k \in 1 .. Len(query.spans)
             PROVE  /\ QuerySlices[k].position \in 0 .. Len(query.spans[k].terms) - 1
                    /\ \A t \in Int : SpanAt(query.spans[k], t) =>
                         t + QuerySlices[k].position \in QuerySlices[k].ids
  OBVIOUS
<1> DEFINE terms == query.spans[k].terms
<1>3. QuerySlices[k] = SpanCandidates(terms, QueryRange)
  BY <1>1 DEF QuerySlices
<1>4. terms \in Seq(Terms) \ {<<>>}
  <2>1. query.spans[k] \in Spans
    BY <1>1
  <2> QED
    BY <2>1 DEF Spans
<1>5. \A t : SpanAt(query.spans[k], t) => SpanAt([terms |-> terms], t)
  BY DEF SpanAt
<1> HIDE DEF terms
<1>6. /\ SpanCandidates(terms, QueryRange).position \in 0 .. Len(terms) - 1
      /\ \A t \in Int : SpanAt([terms |-> terms], t) =>
           t + SpanCandidates(terms, QueryRange).position \in SpanCandidates(terms, QueryRange).ids
  BY <1>2, <1>4, SpanCandidatesAreThere
<1> QED
  BY <1>3, <1>5, <1>6 DEF terms

LEMMA InsideReach ==
  ASSUME NEW token \in Int, NEW d \in Nat, NEW directed \in BOOLEAN, NEW z \in Int,
         token - d <= z, z <= token + d, directed => z <= token
  PROVE  z \in Reach(token, d, directed)
<1>1. CASE directed
  BY <1>1 DEF Reach
<1>2. CASE ~directed
  BY <1>2 DEF Reach
<1> QED
  BY <1>1, <1>2

\* Inside the bounds a window loses nothing, whatever the representations.
LEMMA FuzzyIsComplete ==
  ASSUME NEW first \in IndexData, NEW second \in IndexData, NEW span \in Spans,
         NEW range \in Ranges, range.start = 0, second.ids \subseteq Ids(range),
         first.position \in Nat, second.position \in 0 .. Len(span.terms) - 1,
         NEW s \in Nat, s + first.position \in first.ids,
         NEW t \in Nat, t + second.position \in second.ids,
         InReach(s, t, span), t - span.distance >= 0,
         s + Len(span.terms) <= range.end, ~CutOff(span, t, range.end)
  PROVE  s + first.position
           \in FuzzyMatches(first, second, span.distance, span.directed, range).ids
<1> DEFINE distance == span.distance
           directed == span.directed
           offset == first.position - second.position
           Near(a, b) ==
             CASE second.kind = "BitMask" ->
                    NearInBitmask(a, b, offset, distance, directed, range)
               [] first.kind = "List" /\ second.kind = "List" ->
                    NearInLists(a, b, offset, distance, directed)
               [] first.kind = "BitMask" /\ second.kind = "List" ->
                    NearInSlice(a, b, offset, distance, directed, range)
           near == {a \in first.ids : \E b \in second.ids : Near(a, b)}
<1>1. FuzzyMatches(first, second, distance, directed, range).ids = near
  <2>1. FuzzyMatches(first, second, distance, directed, range) = [first EXCEPT !.ids = near]
    BY DEF FuzzyMatches
  <2> HIDE DEF near
  <2> QED
    BY <2>1 DEF IndexData
<1>2. PICK p \in Nat, q \in Nat, d \in Nat, n \in Nat, e \in Int :
        /\ p = first.position /\ q = second.position /\ d = distance
        /\ n = Len(span.terms) /\ q <= n - 1 /\ e = range.end
  <2>1. span.distance \in Nat /\ span.terms \in Seq(Terms) /\ range.end \in Int
    BY DEF Spans, Ranges
  <2>2. PICK n \in Nat : n = Len(span.terms)
    BY <2>1
  <2>3. second.position \in Nat /\ second.position <= n - 1
    BY <2>2
  <2>4. first.position \in Nat
    OBVIOUS
  <2> HIDE DEF offset, Near, near
  <2> QED
    BY <2>1, <2>2, <2>3, <2>4
<1>3. /\ first.kind \in {"List", "BitMask"} /\ second.kind \in {"List", "BitMask"}
      /\ directed \in BOOLEAN
  BY DEF IndexData, Kinds, Spans
<1> DEFINE x == s + p
           y == t + q
<1>4. /\ x \in first.ids /\ y \in second.ids
      /\ x - offset = s + q /\ y + offset = t + p
      /\ x = s + p /\ y = t + q
  <2> HIDE DEF Near, near
  <2>1. offset = first.position - second.position /\ x = s + p /\ y = t + q
    BY <1>2
  <2>2. x \in first.ids /\ y \in second.ids
    BY <1>2
  <2> HIDE DEF offset, x, y
  <2>3. offset = p - q
    BY <1>2, <2>1
  <2>4. x - offset = s + q /\ y + offset = t + p
    <3>1. (s + p) - (p - q) = s + q /\ (t + q) + (p - q) = t + p
      OBVIOUS
    <3> QED
      BY <2>1, <2>3, <3>1
  <2> QED
    BY <2>1, <2>2, <2>4
<1>12. y \in Int /\ offset \in Int
  <2>1. first.position \in Int /\ second.position \in Int
    BY <1>2
  <2> QED
    BY <2>1
<1> HIDE DEF x, y, offset, near
<1>5. /\ s <= t + d /\ t - d <= s /\ (directed => s <= t) /\ t - d >= 0
      /\ s + n <= e
  <2>1. t - s \in (IF directed THEN 0 ELSE -d) .. d
    BY <1>2 DEF InReach
  <2>2. t - d >= 0 /\ s + n <= e
    BY <1>2
  <2>3. s <= t + d /\ t - d <= s /\ (directed => s <= t)
    <3>1. CASE directed
      <4>1. t - s \in 0 .. d
        BY <2>1, <3>1
      <4> QED
        BY <4>1
    <3>2. CASE ~directed
      <4>1. t - s \in -d .. d
        BY <2>1, <3>2
      <4> QED
        BY <3>2, <4>1
    <3> QED
      BY <3>1, <3>2
  <2> QED
    BY <2>2, <2>3
<1>6. ~directed /\ d > 1 => t + n - 1 + d < e
  <2>1. ~(~directed /\ d > 1 /\ t + n - 1 + d >= e)
    BY <1>2 DEF CutOff
  <2> HIDE DEF directed
  <2> QED
    BY <2>1
<1>7. s + q \in Ids(range) /\ t + q \in Ids(range) /\ 0 <= t + q /\ t + q <= e - 1
  <2>1. t + q \in Ids(range)
    BY <1>4
  <2>2. s + q <= e - 1 /\ 0 <= s + q
    <3>1. q <= n - 1 /\ s + n <= e
      BY <1>2, <1>5
    <3> QED
      BY <3>1
  <2>3. Ids(range) = 0 .. e - 1
    BY <1>2 DEF Ids
  <2> QED
    BY <2>1, <2>2, <2>3
<1>8. x \in Reach(y + offset, d, directed)
  <2>1. t + p - d <= s + p /\ s + p <= t + p + d /\ (directed => s + p <= t + p)
    BY <1>5
  <2>2. t + p \in Int /\ s + p \in Int
    OBVIOUS
  <2>3. s + p \in Reach(t + p, d, directed)
    BY <1>3, <2>1, <2>2, InsideReach
  <2> QED
    BY <1>4, <2>3
<1>9. CASE second.kind = "BitMask"
  <2> DEFINE w == s + q
             v == t + q
  <2>1. /\ w \in Int /\ v \in Int /\ w + d \in Int /\ v + d \in Int /\ (w + d) - d = w
        /\ v - d <= w /\ w <= v + d /\ (directed => w <= v)
    BY <1>5
  <2>2. w \in Ids(range) /\ v \in Ids(range) /\ v = y
    BY <1>4, <1>7
  <2>3. ~directed /\ w < v => w + d \in Ids(range)
    <3> SUFFICES ASSUME ~directed, w < v PROVE w + d \in Ids(range)
      OBVIOUS
    <3>1. CASE d = 1
      <4>1. w + d = v
        BY <2>1, <3>1
      <4> QED
        BY <2>2, <4>1
    <3>2. CASE d > 1
      <4>1. t + n - 1 + d < e /\ q <= n - 1
        BY <1>2, <1>6, <3>2
      <4>2. w + d <= e - 1 /\ 0 <= w + d
        BY <4>1
      <4>3. Ids(range) = 0 .. e - 1
        BY <1>2 DEF Ids
      <4> QED
        BY <2>1, <4>2, <4>3
    <3>3. d = 1 \/ d > 1
      BY <2>1
    <3> QED
      BY <3>1, <3>2, <3>3
  <2> HIDE DEF w, v
  <2>4. w \in Smeared(v, d, directed, range)
    <3>1. CASE directed
      <4>1. w \in Reach(v, d, directed)
        BY <1>3, <2>1, InsideReach
      <4> QED
        BY <3>1, <4>1 DEF Smeared
    <3>2. \A z \in Int : v <= z /\ z <= v + d => z \in Reach(v + d, d, TRUE)
      BY <2>1 DEF Reach
    <3> DEFINE right == Reach(v + d, d, TRUE) \cap Ids(range)
    <3>3. ~directed => Smeared(v, d, directed, range) = right \cup {z - d : z \in right}
      BY DEF Smeared
    <3>4. CASE ~directed /\ v <= w
      <4>1. w <= v + d
        BY <2>1
      <4>2. w \in Reach(v + d, d, TRUE)
        BY <2>1, <3>2, <3>4, <4>1
      <4>3. w \in right
        BY <2>2, <4>2
      <4>4. Smeared(v, d, directed, range) = right \cup {z - d : z \in right}
        BY <3>3, <3>4
      <4> HIDE DEF right
      <4> QED
        BY <4>3, <4>4
    <3>5. CASE ~directed /\ w < v
      <4>1. v <= w + d /\ w + d <= v + d
        <5>1. \A a, b \in Int : b - d <= a /\ a <= b => b <= a + d /\ a + d <= b + d
          OBVIOUS
        <5>2. v - d <= w /\ w <= v
          BY <2>1, <3>5
        <5> QED
          BY <2>1, <5>1, <5>2
      <4>2. w + d \in right
        BY <2>1, <2>3, <3>2, <3>5, <4>1
      <4> HIDE DEF right
      <4> QED
        BY <2>1, <3>3, <3>5, <4>2
    <3>6. v <= w \/ w < v
      BY <2>1
    <3> QED
      BY <1>3, <3>1, <3>4, <3>5, <3>6
  <2>5. NearInBitmask(x, y, offset, distance, directed, range)
    BY <1>2, <1>4, <2>2, <2>4 DEF NearInBitmask, w
  <2> QED
    BY <1>1, <1>2, <1>4, <1>9, <2>5 DEF near, x
<1>10. CASE second.kind = "List" /\ first.kind = "List"
  <2>1. NearInLists(x, y, offset, distance, directed)
    BY <1>2, <1>8 DEF NearInLists
  <2> QED
    BY <1>1, <1>2, <1>4, <1>10, <2>1 DEF near, x
<1>11. CASE second.kind = "List" /\ first.kind = "BitMask"
  <2>1. y + offset - distance >= range.start
    <3>1. range.start = 0 /\ y + offset - d = t + p - d /\ t + p - d >= 0
      BY <1>4, <1>5, <1>12
    <3> QED
      BY <1>2, <3>1
  <2>2. NearInSlice(x, y, offset, distance, directed, range)
    BY <1>2, <1>8, <2>1 DEF NearInSlice
  <2> QED
    BY <1>1, <1>2, <1>4, <1>11, <2>2 DEF near, x
<1> QED
  BY <1>3, <1>9, <1>10, <1>11

LEMMA TokenIsNumber == Tokens \subseteq Nat
BY CorpusShape DEF Tokens

\* Inside the bounds every span of an arrangement is a candidate of the spans
\* from it on, so the first one is a candidate of the query.
LEMMA AnchorIsCandidate ==
  ASSUME IsIndices(indices), IsQuery(query), query.author = NoAuthor,
         NEW p \in Arrangements, InsideBounds(p)
  PROVE  /\ Candidates.position \in Nat
         /\ p[1] \in Nat
         /\ p[1] + Candidates.position \in Candidates.ids
<1>1. PICK spans \in Seq(Spans) \ {<<>>} : spans = query.spans
  BY DEF IsQuery
<1>2. PICK m \in Nat \ {0} : m = Len(spans) /\ DOMAIN spans = 1 .. m
  OBVIOUS
<1>3. /\ p \in [1 .. m -> Tokens]
      /\ \A k \in 1 .. m : SpanAt(spans[k], p[k])
      /\ \A k \in 2 .. m : InReach(p[k - 1], p[k], spans[k])
  BY <1>1, <1>2 DEF Arrangements
<1>4. \A k \in 1 .. m : p[k] \in Nat
  BY <1>3, TokenIsNumber
<1>5. QueryRange \in Ranges /\ QueryRange.start = 0
  BY RangeOfQuery, WholeCorpus
<1>6. /\ QuerySlices \in [1 .. m -> IndexData]
      /\ \A k \in 1 .. m : QuerySlices[k].ids \subseteq Ids(QueryRange)
  BY <1>1, <1>2, SlicesOfQuery
<1>7. \A k \in 1 .. m :
        /\ QuerySlices[k].position \in 0 .. Len(spans[k].terms) - 1
        /\ p[k] + QuerySlices[k].position \in QuerySlices[k].ids
  <2> SUFFICES ASSUME NEW k \in 1 .. m
               PROVE  /\ QuerySlices[k].position \in 0 .. Len(spans[k].terms) - 1
                      /\ p[k] + QuerySlices[k].position \in QuerySlices[k].ids
    OBVIOUS
  <2>1. p[k] \in Int /\ SpanAt(spans[k], p[k])
    BY <1>3, <1>4
  <2> QED
    BY <1>1, <1>2, <2>1, WholeSlicesListAll
<1>8. ASSUME NEW k \in 2 .. m
      PROVE  /\ p[k] - spans[k].distance >= 0
             /\ p[k - 1] + Len(spans[k].terms) <= QueryRange.end
             /\ ~CutOff(spans[k], p[k], QueryRange.end)
  <2>1. Len(p) = m
    <3>1. p \in Seq(Tokens) /\ Len(p) = m
      BY <1>3, FunctionIsSequence
    <3> QED
      BY <3>1
  <2> QED
    BY <1>1, <1>5, <2>1 DEF InsideBounds, QueryRange
<1>9. PICK c \in Chains(spans, QuerySlices, QueryRange) : TRUE
  <2>1. QuerySlices \in [1 .. Len(spans) -> IndexData]
    BY <1>2, <1>6
  <2>2. Chains(spans, QuerySlices, QueryRange) # {}
    BY <2>1, ChainOfSpans
  <2> QED
    BY <2>2
<1>10. /\ c \in [1 .. m -> IndexData] /\ c[m] = QuerySlices[m]
       /\ \A k \in 1 .. m - 1 :
            c[k] = FuzzyMatches(QuerySlices[k], c[k + 1], spans[k + 1].distance,
                                spans[k + 1].directed, QueryRange)
       /\ c[1] = Candidates
  BY <1>1, <1>2, <1>9 DEF Chains, Candidates
<1>11. ASSUME NEW k \in 1 .. m
       PROVE  c[k].position = QuerySlices[k].position /\ c[k].ids \subseteq QuerySlices[k].ids
  <2>1. k = m \/ k \in 1 .. m - 1
    OBVIOUS
  <2>2. QuerySlices[k] \in IndexData
    BY <1>6
  <2> QED
    BY <1>10, <2>1, <2>2, FuzzyIsPart
<1> DEFINE There(k) == p[k] + QuerySlices[k].position \in c[k].ids
           T == {j \in Nat : j + 1 <= m => There(m - j)}
<1>12. ASSUME NEW k \in 1 .. m - 1, There(k + 1) PROVE There(k)
  <2>1. k \in 1 .. m /\ k + 1 \in 2 .. m /\ k + 1 \in 1 .. m /\ (k + 1) - 1 = k
    OBVIOUS
  <2> DEFINE first == QuerySlices[k]
             second == c[k + 1]
             span == spans[k + 1]
             s == p[k]
             t == p[k + 1]
  <2>2. first \in IndexData /\ second \in IndexData /\ span \in Spans
    BY <1>2, <1>6, <1>10, <2>1
  <2>3. second.ids \subseteq Ids(QueryRange)
    BY <1>6, <1>11, <2>1
  <2>4. first.position \in Nat /\ second.position \in 0 .. Len(span.terms) - 1
    <3>1. first.position \in 0 .. Len(spans[k].terms) - 1
      BY <1>7, <2>1
    <3>2. second.position = QuerySlices[k + 1].position
      BY <1>11, <2>1
    <3> QED
      BY <1>7, <2>1, <3>1, <3>2
  <2>5. s \in Nat /\ t \in Nat
    BY <1>4, <2>1
  <2>6. s + first.position \in first.ids /\ t + second.position \in second.ids
    BY <1>7, <1>11, <1>12, <2>1
  <2>7. InReach(s, t, span) /\ t - span.distance >= 0
        /\ s + Len(span.terms) <= QueryRange.end /\ ~CutOff(span, t, QueryRange.end)
    BY <1>3, <1>8, <2>1
  <2>8. c[k] = FuzzyMatches(first, second, span.distance, span.directed, QueryRange)
    BY <1>10
  <2> HIDE DEF first, second, span, s, t
  <2>9. s + first.position
          \in FuzzyMatches(first, second, span.distance, span.directed, QueryRange).ids
    BY <1>5, <2>2, <2>3, <2>4, <2>5, <2>6, <2>7, FuzzyIsComplete
  <2> QED
    BY <2>8, <2>9 DEF s, first
<1>13. There(1)
  <2>1. There(m)
    BY <1>7, <1>10
  <2> HIDE DEF There
  <2>2. 0 \in T
    BY <2>1
  <2>3. ASSUME NEW j \in Nat, j \in T PROVE j + 1 \in T
    <3> SUFFICES ASSUME (j + 1) + 1 <= m PROVE There(m - (j + 1))
      OBVIOUS
    <3>1. m - (j + 1) \in 1 .. m - 1 /\ (m - (j + 1)) + 1 = m - j
      OBVIOUS
    <3>2. There(m - j)
      BY <2>3
    <3> QED
      BY <1>12, <3>1, <3>2
  <2> HIDE DEF T
  <2>4. m - 1 \in T
    BY <2>2, <2>3, SetInduction
  <2>5. (m - 1) + 1 <= m /\ m - (m - 1) = 1
    OBVIOUS
  <2> QED
    BY <2>4, <2>5 DEF T
<1>14. 1 \in 1 .. m
  OBVIOUS
<1>15. Candidates.position = QuerySlices[1].position /\ QuerySlices[1].position \in Nat
  BY <1>7, <1>10, <1>11, <1>14
<1> QED
  BY <1>4, <1>10, <1>13, <1>14, <1>15

\* The engine walks along every arrangement of the spans.
LEMMA ArrangementIsPath ==
  ASSUME IsIndices(indices), IsQuery(query), query.author = NoAuthor, NEW p \in Arrangements
  PROVE  p \in Paths(p[1], Len(query.spans), query.spans, QuerySlices, QueryRange)
<1>1. PICK spans \in Seq(Spans) \ {<<>>} : spans = query.spans
  BY DEF IsQuery
<1>2. PICK m \in Nat \ {0} : m = Len(spans) /\ DOMAIN spans = 1 .. m
  OBVIOUS
<1>3. /\ p \in [1 .. m -> Tokens]
      /\ \A k \in 1 .. m : SpanAt(spans[k], p[k])
      /\ \A k \in 2 .. m : InReach(p[k - 1], p[k], spans[k])
  BY <1>1, <1>2 DEF Arrangements
<1>4. \A k \in 1 .. m : p[k] \in Nat
  BY <1>3, TokenIsNumber
<1>5. QueryRange.start = 0
  BY WholeCorpus
<1>6. /\ QuerySlices \in [1 .. m -> IndexData]
      /\ \A k \in 1 .. m : p[k] + QuerySlices[k].position \in QuerySlices[k].ids
  <2>1. \A k \in 1 .. m : p[k] \in Int /\ SpanAt(spans[k], p[k])
    BY <1>3, <1>4
  <2> QED
    BY <1>1, <1>2, <2>1, SlicesOfQuery, WholeSlicesListAll
<1>7. ASSUME NEW k \in 2 .. m
      PROVE  p[k] \in SpanLeaders(p[k - 1], spans[k], QuerySlices[k], QueryRange)
  <2>1. k \in 1 .. m /\ k - 1 \in 1 .. m
    OBVIOUS
  <2>2. PICK s \in Nat, t \in Nat : s = p[k - 1] /\ t = p[k]
    BY <1>4, <2>1
  <2>3. PICK span \in Spans, slice \in IndexData : span = spans[k] /\ slice = QuerySlices[k]
    BY <1>2, <1>6, <2>1
  <2>4. PICK d \in Nat : d = span.distance
    BY DEF Spans
  <2>5. PICK pos \in Int : pos = slice.position
    BY DEF IndexData
  <2>6. t \in LeaderRange(s, span)
    <3>1. t - s \in (IF span.directed THEN 0 ELSE -d) .. d
      BY <1>3, <2>2, <2>3, <2>4 DEF InReach
    <3>2. CASE span.directed
      <4>1. t - s \in 0 .. d
        BY <3>1, <3>2
      <4>2. t \in s .. s + d
        BY <4>1
      <4> QED
        BY <2>4, <3>2, <4>2 DEF LeaderRange
    <3>3. CASE ~span.directed
      <4>1. t - s \in -d .. d
        BY <3>1, <3>3
      <4>2. t \in Highest(s - d, 0) .. s + d
        BY <4>1 DEF Highest
      <4> QED
        BY <2>4, <3>3, <4>2 DEF LeaderRange
    <3> QED
      BY <3>2, <3>3
  <2>7. t + pos \in slice.ids /\ (t + pos) - pos = t /\ t >= 0
    BY <1>6, <2>1, <2>2, <2>3, <2>5
  <2>8. t + pos \in {z \in slice.ids : z - slice.position >= IF slice.kind = "BitMask"
                                                           THEN QueryRange.start ELSE 0}
    BY <1>5, <2>5, <2>7
  <2>9. t \in SpanLeaders(s, span, slice, QueryRange)
    BY <2>5, <2>6, <2>7, <2>8 DEF SpanLeaders
  <2> QED
    BY <2>2, <2>3, <2>9
<1>8. p \in Seq(Int) /\ Len(p) = m
  <2>1. p \in [1 .. m -> Int]
    BY <1>3, <1>4
  <2> QED
    BY <2>1, FunctionIsSequence
<1>9. IsPath(p, p[1], m, spans, QuerySlices, QueryRange)
  BY <1>7, <1>8 DEF IsPath
<1>10. m \in 1 .. Len(spans) /\ QuerySlices \in [1 .. Len(spans) -> IndexData] /\ p[1] \in Int
  <2>1. 1 \in 1 .. m
    OBVIOUS
  <2> QED
    BY <1>2, <1>4, <1>6, <2>1
<1>11. p \in Paths(p[1], m, spans, QuerySlices, QueryRange)
  BY <1>9, <1>10, PathsAreLeaders
<1> QED
  BY <1>1, <1>2, <1>11

\* A span without a hard break inside it ends before the next work starts.
LEMMA SpanEndsInWork ==
  ASSUME NEW span \in Spans, NEW t \in Nat, SpanAt(span, t),
         NEW w \in WorkStarts, w > t
  PROVE  t + Len(span.terms) - 1 < w
<1>1. PICK n \in Nat : n = Len(span.terms)
  <2>1. span.terms \in Seq(Terms)
    BY DEF Spans
  <2> QED
    BY <2>1
<1>2. w \in Nat /\ w # 0 /\ w - 1 \in HardBreaks
  <2>1. w \in Nat
    BY CorpusShape
  <2>2. w # 0
    BY <2>1
  <2> QED
    BY <2>1, <2>2, CorpusShape
<1>3. w - 1 \notin t .. t + n - 2
  BY <1>1, <1>2 DEF SpanAt
<1> QED
  BY <1>1, <1>2, <1>3

\* An arrangement of the spans passes the tests of a match.
LEMMA ArrangementIsUsable ==
  ASSUME IsQuery(query), NEW p \in Arrangements
  PROVE  /\ ~SpansOverlap(SortedLeaders(p, query.spans))
         /\ WithinWorkBounds(SortedLeaders(p, query.spans))
<1>1. PICK spans \in Seq(Spans) \ {<<>>} : spans = query.spans
  BY DEF IsQuery
<1>2. PICK n \in Nat \ {0} : n = Len(spans) /\ DOMAIN spans = 1 .. n
  OBVIOUS
<1> DEFINE leaders == SortedLeaders(p, spans)
           order == SortedPlaces(p)
<1>3. /\ p \in [1 .. n -> Tokens]
      /\ \A k \in 1 .. n : SpanAt(spans[k], p[k])
      /\ \A j, k \in 1 .. n : j # k => \/ p[j] + Len(spans[j].terms) <= p[k]
                                       \/ p[k] + Len(spans[k].terms) <= p[j]
      /\ \A j, k \in 1 .. n : WorkOf(p[j]) = WorkOf(p[k])
  <2>1. DOMAIN query.spans = 1 .. n
    BY <1>1, <1>2
  <2>2. /\ p \in [DOMAIN query.spans -> Tokens]
        /\ \A k \in DOMAIN query.spans : SpanAt(query.spans[k], p[k])
    BY DEF Arrangements
  <2>3. \A j, k \in DOMAIN query.spans : j # k =>
          \/ p[j] + Len(query.spans[j].terms) <= p[k]
          \/ p[k] + Len(query.spans[k].terms) <= p[j]
    BY DEF Arrangements
  <2>4. \A j, k \in DOMAIN query.spans : WorkOf(p[j]) = WorkOf(p[k])
    BY DEF Arrangements
  <2> QED
    BY <1>1, <2>1, <2>2, <2>3, <2>4
<1>4. p \in [1 .. n -> Nat] /\ p \in [1 .. n -> Int]
  <2>1. p \in [1 .. n -> Tokens] /\ Tokens \subseteq Nat /\ Tokens \subseteq Int
    BY <1>3, TokenIsNumber
  <2> QED
    BY <2>1
<1>5. /\ leaders \in Seq(Leader)
      /\ Len(leaders) = n
      /\ \A i \in 1 .. n :
           /\ order[i] \in 1 .. n
           /\ leaders[i] = [start |-> p[order[i]], length |-> Len(spans[order[i]].terms)]
  <2>1. p \in [1 .. Len(spans) -> Nat]
    BY <1>2, <1>4
  <2> HIDE DEF leaders, order
  <2>2. /\ leaders \in Seq(Leader)
        /\ Len(leaders) = Len(spans)
        /\ \A i \in 1 .. Len(spans) :
             /\ order[i] \in 1 .. Len(spans)
             /\ leaders[i] = [start |-> p[order[i]], length |-> Len(spans[order[i]].terms)]
    BY <2>1, LeadersOfPath DEF leaders, order
  <2> QED
    BY <1>2, <2>2
<1>6. /\ \A i, j \in 1 .. n : i < j => p[order[i]] <= p[order[j]]
      /\ \A i, j \in 1 .. n : order[i] = order[j] => i = j
  BY <1>4, SortedPlacesListAll
<1>7. ~SpansOverlap(leaders)
  <2> HIDE DEF leaders, order
  <2> SUFFICES ASSUME NEW i \in 1 .. n - 1
               PROVE  ~(leaders[i + 1].start < leaders[i].start + leaders[i].length)
    BY <1>5 DEF SpansOverlap
  <2>1. i \in 1 .. n /\ i + 1 \in 1 .. n /\ i < i + 1
    OBVIOUS
  <2>2. PICK j \in 1 .. n, k \in 1 .. n : j = order[i] /\ k = order[i + 1]
    BY <1>5, <2>1
  <2>3. j # k
    BY <1>6, <2>1, <2>2
  <2>4. PICK a \in Nat, b \in Nat, e \in Nat, f \in Nat :
          a = p[j] /\ b = p[k] /\ e = Len(spans[j].terms) /\ f = Len(spans[k].terms)
    <3>1. spans[j].terms \in Seq(Terms) /\ spans[k].terms \in Seq(Terms)
      <4>1. spans[j] \in Spans /\ spans[k] \in Spans
        BY <1>2
      <4> QED
        BY <4>1 DEF Spans
    <3>2. Len(spans[j].terms) \in Nat /\ Len(spans[k].terms) \in Nat
      BY <3>1
    <3>3. p[j] \in Nat /\ p[k] \in Nat
      BY <1>4
    <3> HIDE DEF leaders, order
    <3> QED
      BY <3>2, <3>3
  <2>5. /\ leaders[i].start = a /\ leaders[i].length = e
        /\ leaders[i + 1].start = b /\ leaders[i + 1].length = f /\ f > 0
    <3>1. leaders[i] = [start |-> a, length |-> e] /\ leaders[i + 1] = [start |-> b, length |-> f]
      BY <1>5, <2>1, <2>2, <2>4
    <3>2. leaders[i + 1].length \in Nat \ {0}
      BY <1>5, <2>1, LeaderNumbers
    <3> QED
      BY <3>1, <3>2
  <2>6. a <= b
    BY <1>6, <2>1, <2>2, <2>4
  <2>7. a + e <= b \/ b + f <= a
    BY <1>3, <2>3, <2>4
  <2>8. a + e <= b
    BY <2>5, <2>6, <2>7
  <2> QED
    BY <2>5, <2>8
<1>8. ASSUME n >= 2 PROVE WithinWorkBounds(leaders)
  <2> DEFINE first == leaders[1].start
             last == leaders[n].start
             length == leaders[n].length
             work == WorkOf(first)
  <2>1. 1 \in 1 .. n /\ n \in 1 .. n /\ 1 < n
    BY <1>8
  <2>2. /\ first \in Nat /\ leaders[1].length \in Nat \ {0}
        /\ last \in Nat /\ length \in Nat \ {0}
    <3> HIDE DEF leaders
    <3> QED
      BY <1>5, <2>1, LeaderNumbers
  <2>3. first + leaders[1].length <= last
    <3> HIDE DEF leaders
    <3> QED
      BY <1>5, <1>7, <2>1, ApartInOrder
  <2>4. PICK j \in 1 .. n, k \in 1 .. n :
          first = p[j] /\ last = p[k] /\ length = Len(spans[k].terms)
    <3> HIDE DEF leaders, order
    <3>1. /\ leaders[1] = [start |-> p[order[1]], length |-> Len(spans[order[1]].terms)]
          /\ leaders[n] = [start |-> p[order[n]], length |-> Len(spans[order[n]].terms)]
          /\ order[1] \in 1 .. n /\ order[n] \in 1 .. n
      BY <1>5, <2>1
    <3>2. /\ first = p[order[1]] /\ last = p[order[n]]
          /\ length = Len(spans[order[n]].terms)
      BY <3>1
    <3> QED
      BY <3>1, <3>2
  <2>5. leaders # <<>> /\ Last(leaders) = leaders[n] /\ Len(leaders) = n
    <3> HIDE DEF leaders
    <3> QED
      BY <1>5 DEF Last
  <2>6. WorkOf(last) = work
    BY <1>3, <2>4
  <2> HIDE DEF leaders, first, last, length, work
  <2>7. first < last
    BY <2>2, <2>3
  <2>8. work <= first /\ work \in Nat
    BY <2>2, WorkIsGreatest DEF work
  <2>9. work < last + length - 1
    BY <2>2, <2>7, <2>8
  <2>10. ASSUME NEW w \in WorkStarts, w > work PROVE last + length - 1 < w
    <3>1. w > last
      <4>1. \A x \in WorkStarts : x <= last => x <= work
        BY <2>2, <2>6, WorkIsGreatest
      <4>2. w \in Nat
        BY CorpusShape
      <4> QED
        BY <2>2, <2>8, <2>10, <4>1, <4>2
    <3>2. spans[k] \in Spans /\ SpanAt(spans[k], last)
      BY <1>2, <1>3, <2>4
    <3> QED
      BY <2>2, <2>4, <3>1, <3>2, SpanEndsInWork
  <2>11. work = Greatest({w \in WorkStarts : w <= leaders[1].start})
    BY DEF work, WorkOf, first
  <2> QED
    BY <2>5, <2>9, <2>10, <2>11 DEF WithinWorkBounds, last, length
<1>9. ASSUME ~(n >= 2) PROVE WithinWorkBounds(leaders)
  <2>1. Len(leaders) < 2
    BY <1>5, <1>9
  <2> QED
    BY <2>1 DEF WithinWorkBounds
<1> QED
  BY <1>1, <1>7, <1>8, <1>9

\* The token is the leader of a span of the match.
StartsAt(leaders, token) == \E i \in DOMAIN leaders : leaders[i].start = token

Anchored(matches, token) == \E i \in DOMAIN matches : StartsAt(matches[i], token)

\* The first leader of a path is a leader of the match.
LEMMA PathLeaderIsShown ==
  ASSUME NEW spans \in Seq(Spans) \ {<<>>}, NEW q \in [1 .. Len(spans) -> Nat]
  PROVE  StartsAt(SortedLeaders(q, spans), q[1])
<1> DEFINE leaders == SortedLeaders(q, spans)
           order == SortedPlaces(q)
<1>1. PICK n \in Nat : n = Len(spans) /\ 1 \in 1 .. n
  OBVIOUS
<1> HIDE DEF leaders, order
<1>2. /\ leaders \in Seq(Leader) /\ Len(leaders) = Len(spans)
      /\ \A i \in 1 .. Len(spans) :
           /\ order[i] \in 1 .. Len(spans)
           /\ leaders[i] = [start |-> q[order[i]], length |-> Len(spans[order[i]].terms)]
      /\ \A k \in 1 .. Len(spans) : \E i \in 1 .. Len(spans) : order[i] = k
  BY LeadersOfPath DEF leaders, order
<1>3. PICK i \in 1 .. n : order[i] = 1
  BY <1>1, <1>2
<1>4. i \in DOMAIN leaders
  BY <1>1, <1>2
<1>5. leaders[i] = [start |-> q[order[i]], length |-> Len(spans[order[i]].terms)]
  BY <1>1, <1>2
<1>6. leaders[i].start = q[1]
  BY <1>3, <1>5
<1> QED
  BY <1>4, <1>6 DEF StartsAt, leaders

\* At the candidate an arrangement starts with, a match is found that has it as
\* a leader, unless the match before it has.
LEMMA AnchorIsFound ==
  ASSUME IsIndices(indices), IsQuery(query), query.author = NoAuthor,
         NEW p \in Arrangements, NEW id \in Candidates.ids,
         id - Candidates.position = p[1], NEW last
  PROVE  LET found == LeadersForCandidate(id - Candidates.position, last, query.spans,
                                          QuerySlices, QueryRange)
         IN \/ found = <<>> /\ StartsAt(last, p[1])
            \/ \E l \in Matches : found = <<l>> /\ StartsAt(l, p[1])
<1> DEFINE token == id - Candidates.position
           found == LeadersForCandidate(token, last, query.spans, QuerySlices, QueryRange)
<1>1. /\ \/ found = <<>> /\ \A q \in PathsFrom(token) : ~IsUsable(q, last)
         \/ \E q \in PathsFrom(token) :
              IsUsable(q, last) /\ found = <<SortedLeaders(q, query.spans)>>
      /\ found = <<>> \/ \E l \in Matches : found = <<l>>
  BY FoundIsUsable, FoundIsMatch
<1>2. p \in PathsFrom(token)
  BY ArrangementIsPath DEF PathsFrom
<1>3. ~SpansOverlap(SortedLeaders(p, query.spans)) /\ WithinWorkBounds(SortedLeaders(p, query.spans))
  BY ArrangementIsUsable
<1>4. ASSUME NEW q \in PathsFrom(token) PROVE StartsAt(SortedLeaders(q, query.spans), token)
  <2>1. PICK spans \in Seq(Spans) \ {<<>>} : spans = query.spans
    BY DEF IsQuery
  <2>2. PICK n \in Nat \ {0} : n = Len(spans) /\ 1 \in 1 .. n
    OBVIOUS
  <2>3. q \in [1 .. n -> Tokens]
    BY <2>1, <2>2, PathsAreSpots DEF PathsFrom
  <2>4. q \in [1 .. n -> Nat]
    BY <2>3, TokenIsNumber
  <2>5. q[1] = token
    <3>1. QuerySlices \in [1 .. Len(spans) -> IndexData]
      BY <2>1, SlicesOfQuery
    <3>2. token \in Int
      BY CandidatesAreFinite DEF IndexData
    <3>3. q \in Paths(token, n, spans, QuerySlices, QueryRange)
      BY <2>1, <2>2 DEF PathsFrom
    <3>4. n \in 1 .. Len(spans)
      BY <2>2
    <3> HIDE DEF token
    <3>5. IsPath(q, token, n, spans, QuerySlices, QueryRange)
      BY <3>1, <3>2, <3>3, <3>4, PathsAreLeaders
    <3> QED
      BY <3>5 DEF IsPath
  <2>6. q \in [1 .. Len(spans) -> Nat]
    BY <2>2, <2>4
  <2> HIDE DEF token
  <2>7. StartsAt(SortedLeaders(q, spans), q[1])
    BY <2>6, PathLeaderIsShown
  <2> QED
    BY <2>1, <2>5, <2>7
<1> HIDE DEF found, token
<1>5. CASE found = <<>> /\ \A q \in PathsFrom(token) : ~IsUsable(q, last)
  <2>1. Starts(SortedLeaders(p, query.spans)) = Starts(last)
    BY <1>2, <1>3, <1>5 DEF IsUsable
  <2>2. PICK i \in DOMAIN SortedLeaders(p, query.spans) : SortedLeaders(p, query.spans)[i].start = token
    BY <1>2, <1>4 DEF StartsAt
  <2> DEFINE leaders == SortedLeaders(p, query.spans)
  <2> HIDE DEF leaders
  <2>3. DOMAIN Starts(leaders) = DOMAIN leaders /\ DOMAIN Starts(last) = DOMAIN last
    BY DEF Starts
  <2>4. i \in DOMAIN last
    BY <2>1, <2>2, <2>3 DEF leaders
  <2>5. Starts(leaders)[i] = leaders[i].start /\ Starts(last)[i] = last[i].start
    BY <2>2, <2>4 DEF Starts, leaders
  <2>6. StartsAt(last, token)
    BY <2>1, <2>2, <2>4, <2>5 DEF StartsAt, leaders
  <2> QED
    BY <1>5, <2>6 DEF found, token
<1>6. CASE \E q \in PathsFrom(token) : found = <<SortedLeaders(q, query.spans)>>
  <2>1. PICK q \in PathsFrom(token) : found = <<SortedLeaders(q, query.spans)>>
    BY <1>6
  <2>2. found # <<>> /\ found[1] = SortedLeaders(q, query.spans)
    BY <2>1
  <2>3. PICK l \in Matches : found = <<l>>
    BY <1>1, <2>2
  <2>4. l = SortedLeaders(q, query.spans)
    BY <2>2, <2>3
  <2>5. StartsAt(l, token)
    BY <1>4, <2>4
  <2> QED
    BY <2>3, <2>5 DEF found, token
<1> QED
  BY <1>1, <1>5, <1>6

\* The page has still to come to the candidate.
Ahead(id, current) ==
  LET seq == MatchIterator(Candidates, QueryRange, current)
  IN \E j \in DOMAIN seq : seq[j] = id

\* A bitmask resumes at a bit.
LEMMA BitsAhead ==
  ASSUME IsIndices(indices), IsQuery(query), query.author = NoAuthor,
         Candidates.kind # "List", NEW current \in PageData,
         NEW id \in Candidates.ids, id >= current.resultId
  PROVE  Ahead(id, current)
<1> DEFINE rest == {y \in Candidates.ids : y - QueryRange.start >= current.resultId}
           seq == MatchIterator(Candidates, QueryRange, current)
<1>1. IsFiniteSet(Candidates.ids) /\ Candidates.ids \subseteq Int
  BY CandidatesAreFinite DEF IndexData
<1>2. IsFiniteSet(rest) /\ rest \subseteq Int
  BY <1>1, FS_Subset
<1>3. id \in rest
  BY <1>1, WholeCorpus DEF PageData
<1>4. seq = Ranked(rest, <)
  BY DEF MatchIterator
<1> HIDE DEF rest
<1>5. seq \in Seq(rest) /\ \E i \in 1 .. Len(seq) : seq[i] = id
  <2>1. /\ Ranked(rest, <) \in Seq(rest)
        /\ \A x \in rest : \E i \in 1 .. Len(Ranked(rest, <)) : Ranked(rest, <)[i] = x
    BY <1>2, RankedNumbers
  <2> HIDE DEF seq
  <2> QED
    BY <1>3, <1>4, <2>1
<1> HIDE DEF seq
<1>6. \E i \in DOMAIN seq : seq[i] = id
  BY <1>5
<1> QED
  BY <1>6 DEF Ahead, seq

\* A list resumes at an index.
LEMMA ListFromPlace ==
  ASSUME IsIndices(indices), IsQuery(query), Candidates.kind = "List", NEW current \in PageData
  PROVE  LET sorted == Ranked(Candidates.ids, <)
             seq == MatchIterator(Candidates, QueryRange, current)
         IN /\ sorted \in Seq(Candidates.ids) /\ seq \in Seq(Candidates.ids)
            /\ \A x \in Candidates.ids : \E i \in 1 .. Len(sorted) : sorted[i] = x
            /\ \A j \in 1 .. Len(seq) : /\ current.candidateIndex + j \in 1 .. Len(sorted)
                                        /\ seq[j] = sorted[current.candidateIndex + j]
            /\ \A i \in 1 .. Len(sorted) : i > current.candidateIndex =>
                 i - current.candidateIndex \in 1 .. Len(seq)
<1> DEFINE ids == Candidates.ids
           sorted == Ranked(ids, <)
           seq == MatchIterator(Candidates, QueryRange, current)
<1>1. IsFiniteSet(ids) /\ ids \subseteq Int
  BY CandidatesAreFinite DEF IndexData
<1>2. /\ sorted \in Seq(ids)
      /\ \A x \in ids : \E i \in 1 .. Len(sorted) : sorted[i] = x
  <2> HIDE DEF ids
  <2> QED
    BY <1>1, RankedNumbers
<1>3. PICK a \in Nat, n \in Nat : a = current.candidateIndex /\ n = Len(sorted)
  <2> HIDE DEF sorted, ids
  <2> QED
    BY <1>2 DEF PageData
<1>4. seq = SubSeq(sorted, a + 1, n)
  BY <1>3 DEF MatchIterator
<1> HIDE DEF sorted, seq, ids
<1>5. /\ Len(seq) = IF a + 1 <= n THEN n - a ELSE 0
      /\ \A j \in 1 .. Len(seq) : seq[j] = sorted[a + j]
  <2>1. a + 1 \in Int /\ n \in Int /\ \A i \in a + 1 .. n : sorted[i] \in ids
    BY <1>2, <1>3
  <2>2. /\ Len(SubSeq(sorted, a + 1, n)) = IF a + 1 <= n THEN n - (a + 1) + 1 ELSE 0
        /\ \A j \in 1 .. n - (a + 1) + 1 : SubSeq(sorted, a + 1, n)[j] = sorted[(a + 1) + j - 1]
    BY <2>1, SubSeqProperties
  <2>3. \A j \in Nat : (a + 1) + j - 1 = a + j
    OBVIOUS
  <2>4. n - (a + 1) + 1 = n - a
    OBVIOUS
  <2> QED
    BY <1>4, <2>2, <2>3, <2>4
<1>6. \A j \in 1 .. Len(seq) : a + j \in 1 .. n
  BY <1>5
<1>7. \A i \in 1 .. n : i > a => i - a \in 1 .. Len(seq)
  BY <1>5
<1>8. seq \in Seq(ids)
  BY IteratorListsCandidates DEF seq, ids
<1> QED
  BY <1>2, <1>3, <1>5, <1>6, <1>7, <1>8 DEF sorted, seq, ids

\* The first page has all candidates ahead.
LEMMA FirstPageHasAll ==
  ASSUME IsIndices(indices), IsQuery(query), query.author = NoAuthor,
         NEW id \in Candidates.ids, id \in Nat
  PROVE  Ahead(id, FirstPage)
<1>1. FirstPage \in PageData /\ FirstPage.candidateIndex = 0 /\ FirstPage.resultId = 0
  BY DEF FirstPage, PageData
<1>2. CASE Candidates.kind # "List"
  BY <1>1, <1>2, BitsAhead
<1>3. CASE Candidates.kind = "List"
  <2> DEFINE sorted == Ranked(Candidates.ids, <)
             seq == MatchIterator(Candidates, QueryRange, FirstPage)
  <2>1. /\ sorted \in Seq(Candidates.ids) /\ seq \in Seq(Candidates.ids)
        /\ \A x \in Candidates.ids : \E i \in 1 .. Len(sorted) : sorted[i] = x
        /\ \A j \in 1 .. Len(seq) : seq[j] = sorted[0 + j]
        /\ \A i \in 1 .. Len(sorted) : i > 0 => i - 0 \in 1 .. Len(seq)
    BY <1>1, <1>3, ListFromPlace
  <2> HIDE DEF sorted, seq
  <2>2. PICK i \in 1 .. Len(sorted) : sorted[i] = id
    BY <2>1
  <2>3. i \in 1 .. Len(seq) /\ seq[i] = id
    <3>1. PICK n \in Nat : n = Len(sorted)
      BY <2>1
    <3>2. i > 0 /\ i - 0 = i /\ 0 + i = i
      BY <3>1
    <3> QED
      BY <2>1, <2>2, <3>2
  <2>4. \E j \in DOMAIN seq : seq[j] = id
    BY <2>1, <2>3
  <2> QED
    BY <2>4 DEF Ahead, seq
<1> QED
  BY <1>2, <1>3

\* The next page has the candidates ahead that the page has not come to.
LEMMA NextPageHasRest ==
  ASSUME IsIndices(indices), IsQuery(query), query.author = NoAuthor,
         Candidates.position \in Nat,
         NEW current \in PageData, NEW next \in PageData,
         NEW m \in Nat \ {0}, NEW j \in Nat, m <= j,
         j <= Len(MatchIterator(Candidates, QueryRange, current)),
         next.candidateIndex = current.candidateIndex + (m - 1),
         next.resultId = MatchIterator(Candidates, QueryRange, current)[m] - Candidates.position
  PROVE  Ahead(MatchIterator(Candidates, QueryRange, current)[j], next)
<1> DEFINE seq == MatchIterator(Candidates, QueryRange, current)
<1>1. seq \in Seq(Candidates.ids) /\ Candidates.ids \subseteq Int
  BY IteratorListsCandidates, CandidatesAreFinite DEF IndexData
<1>2. m \in 1 .. Len(seq) /\ j \in 1 .. Len(seq)
  <2> HIDE DEF seq
  <2>1. PICK n \in Nat : n = Len(seq)
    BY <1>1
  <2>2. j <= n
    BY <2>1 DEF seq
  <2> QED
    BY <2>1, <2>2
<1>3. CASE Candidates.kind # "List"
  <2> DEFINE rest == {y \in Candidates.ids : y - QueryRange.start >= current.resultId}
  <2>1. IsFiniteSet(rest) /\ rest \subseteq Int
    BY CandidatesAreFinite, FS_Subset DEF IndexData
  <2>2. seq = Ranked(rest, <)
    BY <1>3 DEF MatchIterator
  <2> HIDE DEF rest
  <2>3. \A i, k \in 1 .. Len(seq) : i < k => seq[i] < seq[k]
    BY <2>1, <2>2, RankedNumbers
  <2>4. seq[m] \in Candidates.ids /\ seq[j] \in Candidates.ids
    <3> HIDE DEF seq
    <3> QED
      BY <1>1, <1>2
  <2>5. next.resultId = seq[m] - Candidates.position
    OBVIOUS
  <2> HIDE DEF seq
  <2>6. PICK x \in Int, y \in Int, pos \in Nat : x = seq[m] /\ y = seq[j] /\ pos = Candidates.position
    BY <1>1, <2>4
  <2>7. x <= y
    <3>1. CASE m = j
      BY <2>6, <3>1
    <3>2. CASE m < j
      BY <1>2, <2>3, <2>6, <3>2
    <3> QED
      BY <3>1, <3>2
  <2>8. y >= x - pos
    BY <2>7
  <2>9. y \in Candidates.ids /\ y >= next.resultId
    BY <2>4, <2>5, <2>6, <2>8
  <2>10. Ahead(y, next)
    BY <1>3, <2>9, BitsAhead
  <2> QED
    BY <2>6, <2>10 DEF seq
<1>4. CASE Candidates.kind = "List"
  <2> DEFINE sorted == Ranked(Candidates.ids, <)
             more == MatchIterator(Candidates, QueryRange, next)
  <2>1. PICK a \in Nat, b \in Nat : a = current.candidateIndex /\ b = next.candidateIndex /\ b = a + (m - 1)
    BY DEF PageData
  <2>2. /\ sorted \in Seq(Candidates.ids)
        /\ \A i \in 1 .. Len(seq) : a + i \in 1 .. Len(sorted) /\ seq[i] = sorted[a + i]
    BY <1>4, <2>1, ListFromPlace
  <2>3. /\ more \in Seq(Candidates.ids)
        /\ \A i \in 1 .. Len(more) : more[i] = sorted[b + i]
        /\ \A i \in 1 .. Len(sorted) : i > b => i - b \in 1 .. Len(more)
    BY <1>4, <2>1, ListFromPlace
  <2> HIDE DEF sorted, more, seq
  <2>4. PICK i \in Nat : i = a + j /\ i > b
    <3>1. a + j \in Nat /\ b = a + (m - 1) /\ m - 1 < j
      BY <2>1
    <3>2. a + j > b
      BY <2>1, <3>1
    <3> QED
      BY <3>1, <3>2
  <2>5. i \in 1 .. Len(sorted) /\ seq[j] = sorted[i]
    BY <1>2, <2>2, <2>4
  <2>6. i - b \in 1 .. Len(more) /\ b + (i - b) = i
    BY <2>3, <2>4, <2>5
  <2>7. more[i - b] = seq[j]
    BY <2>3, <2>5, <2>6
  <2>8. \E k \in DOMAIN more : more[k] = seq[j]
    BY <2>3, <2>6, <2>7
  <2> QED
    BY <2>8 DEF Ahead, more, seq
<1> QED
  BY <1>3, <1>4

\* A match more leaves what is anchored so.
LEMMA AnchoredGrows ==
  ASSUME NEW matches \in Seq(Matches), NEW more \in Seq(Matches), NEW token,
         Anchored(matches, token) \/ Anchored(more, token)
  PROVE  Anchored(matches \o more, token)
<1>1. PICK m \in Nat, n \in Nat : m = Len(matches) /\ n = Len(more)
  OBVIOUS
<1>2. /\ Len(matches \o more) = m + n
      /\ \A i \in 1 .. m : (matches \o more)[i] = matches[i]
      /\ \A i \in 1 .. n : (matches \o more)[m + i] = more[i]
  BY <1>1
<1>3. DOMAIN (matches \o more) = 1 .. m + n
  BY <1>1, <1>2
<1> DEFINE all == matches \o more
<1> HIDE DEF all
<1>4. CASE Anchored(matches, token)
  <2>1. PICK i \in 1 .. m : StartsAt(matches[i], token)
    BY <1>1, <1>4 DEF Anchored
  <2>2. i \in DOMAIN all /\ all[i] = matches[i]
    BY <1>2, <1>3 DEF all
  <2> QED
    BY <2>1, <2>2 DEF Anchored, all
<1>5. CASE Anchored(more, token)
  <2>1. PICK i \in 1 .. n : StartsAt(more[i], token)
    BY <1>1, <1>5 DEF Anchored
  <2>2. m + i \in DOMAIN all /\ all[m + i] = more[i]
    BY <1>2, <1>3 DEF all
  <2> QED
    BY <2>1, <2>2 DEF Anchored, all
<1> QED
  BY <1>4, <1>5

\* A visit goes on, and does not pass the first token of an arrangement
\* without a match that has it, or the next page starts with its candidate.
LEMMA VisitFinds ==
  ASSUME IsIndices(indices), IsQuery(query), query.author = NoAuthor,
         NEW p \in Arrangements, NEW id \in Candidates.ids,
         id - Candidates.position = p[1],
         NEW current \in PageData, NEW size \in Nat \ {0},
         NEW acc \in Answers(current, size), acc.next = NoPage, ~acc.failed,
         NEW x \in Candidates.ids
  PROVE  LET new == Visit(acc, x, current, size)
         IN \/ new.failed
            \/ /\ new.next = NoPage
               /\ Len(new.matches) + new.skipped = Len(acc.matches) + acc.skipped + 1
               /\ Anchored(acc.matches, p[1]) => Anchored(new.matches, p[1])
               /\ x = id => Anchored(new.matches, p[1])
            \/ /\ new.next # NoPage
               /\ new.matches = acc.matches
               /\ new.next.candidateIndex
                    = current.candidateIndex + (Len(acc.matches) + acc.skipped)
               /\ new.next.resultId = x - Candidates.position
<1> DEFINE new == Visit(acc, x, current, size)
           token == x - Candidates.position
           found == FoundAt(x, acc.matches)
<1>1. /\ acc \in [matches : Seq(Matches), skipped : Nat, next : PageData \cup {NoPage},
                  failed : BOOLEAN]
      /\ Len(acc.matches) <= size
  BY DEF Answers
<1>2. PICK matches \in Seq(Matches), skipped \in Nat, n \in Nat :
        matches = acc.matches /\ skipped = acc.skipped /\ n = Len(matches) /\ n <= size
  <2>1. acc.matches \in Seq(Matches) /\ acc.skipped \in Nat /\ Len(acc.matches) \in Nat
    BY <1>1
  <2> QED
    BY <1>1, <2>1
<1>3. found = <<>> \/ \E l \in Matches : found = <<l>>
  BY FoundIsMatch DEF FoundAt
<1>4. ASSUME x = id
      PROVE  \/ found = <<>> /\ StartsAt(Previous(matches), p[1])
             \/ \E l \in Matches : found = <<l>> /\ StartsAt(l, p[1])
  BY <1>2, <1>4, AnchorIsFound DEF FoundAt
<1> HIDE DEF found
<1>5. CASE token < 0 \/ PathFails(token, query.spans, QuerySlices, QueryRange)
  <2>1. new = [acc EXCEPT !.failed = TRUE]
    BY <1>5 DEF Visit
  <2>2. new.failed
    BY <1>1, <2>1
  <2> QED
    BY <2>2
<1>6. CASE /\ ~(token < 0 \/ PathFails(token, query.spans, QuerySlices, QueryRange))
           /\ found = <<>>
  <2>1. new = [acc EXCEPT !.skipped = @ + 1]
    BY <1>6 DEF Visit, found
  <2> HIDE DEF new
  <2>2. new.next = NoPage /\ new.matches = matches /\ new.skipped = skipped + 1
    BY <1>1, <1>2, <2>1
  <2>3. ASSUME x = id PROVE Anchored(matches, p[1])
    <3>1. StartsAt(Previous(matches), p[1])
      BY <1>4, <1>6, <2>3
    <3>2. matches # <<>>
      BY <3>1 DEF Previous, StartsAt
    <3>3. n \in 1 .. n /\ Previous(matches) = matches[n] /\ n \in DOMAIN matches
      BY <1>2, <3>2 DEF Previous, Last
    <3> QED
      BY <3>1, <3>3 DEF Anchored
  <2>4. n + (skipped + 1) = n + skipped + 1
    OBVIOUS
  <2> QED
    BY <1>2, <2>2, <2>3, <2>4 DEF new
<1>7. CASE /\ ~(token < 0 \/ PathFails(token, query.spans, QuerySlices, QueryRange))
           /\ found # <<>> /\ Len(acc.matches) < size
  <2>1. new = [acc EXCEPT !.matches = @ \o found]
    BY <1>7 DEF Visit, found
  <2> HIDE DEF new
  <2>2. new.next = NoPage /\ new.matches = matches \o found /\ new.skipped = skipped
    BY <1>1, <1>2, <2>1
  <2>3. PICK l \in Matches : found = <<l>>
    BY <1>3, <1>7
  <2>4. found \in Seq(Matches) /\ Len(found) = 1 /\ found[1] = l /\ 1 \in DOMAIN found
    BY <2>3
  <2>5. Len(matches \o found) + skipped = n + skipped + 1
    <3>1. PICK more \in Seq(Matches) : more = found /\ Len(more) = 1
      BY <2>4
    <3>2. Len(matches \o more) = Len(matches) + Len(more)
      BY ConcatProperties
    <3>3. Len(matches \o found) = n + 1
      BY <1>2, <3>1, <3>2
    <3> QED
      BY <3>3
  <2>6. Anchored(matches, p[1]) => Anchored(matches \o found, p[1])
    BY <2>4, AnchoredGrows
  <2>7. ASSUME x = id PROVE Anchored(matches \o found, p[1])
    <3>1. StartsAt(l, p[1])
      BY <1>4, <1>7, <2>3, <2>4, <2>7
    <3>2. Anchored(found, p[1])
      BY <2>4, <3>1 DEF Anchored
    <3> QED
      BY <2>4, <3>2, AnchoredGrows
  <2> QED
    BY <1>2, <2>2, <2>5, <2>6, <2>7 DEF new
<1>8. CASE /\ ~(token < 0 \/ PathFails(token, query.spans, QuerySlices, QueryRange))
           /\ found # <<>> /\ ~(Len(acc.matches) < size)
  <2> DEFINE next == NextPage(current, size, acc.skipped, token)
  <2>1. new = [acc EXCEPT !.next = next]
    BY <1>8 DEF Visit, found
  <2>2. n = size
    BY <1>2, <1>8
  <2>3. next = [resultIndex |-> current.resultIndex + size,
                candidateIndex |-> current.candidateIndex + size + skipped,
                resultId |-> token]
    BY <1>2 DEF NextPage
  <2>4. new \in Answers(current, size)
    BY VisitKeepsAnswer
  <2> HIDE DEF new, next, token
  <2>5. new.next = next /\ new.matches = acc.matches
    BY <1>1, <2>1
  <2>6. next # NoPage
    <3>1. next \in PageData
      <4>1. PICK r \in Nat, c \in Nat, i \in Int :
              r = current.resultIndex /\ c = current.candidateIndex /\ i = token
        <5>1. token \in Int
          BY CandidatesAreFinite DEF IndexData, token
        <5> QED
          BY <5>1 DEF PageData
      <4>2. i \in Nat
        BY <1>8, <4>1
      <4>3. r + size \in Nat /\ c + size + skipped \in Nat
        OBVIOUS
      <4> QED
        BY <2>3, <4>1, <4>2, <4>3 DEF PageData
    <3> QED
      BY <3>1, ConstantsFit
  <2>7. next.candidateIndex = current.candidateIndex + (n + skipped)
    <3>1. PICK c \in Nat : c = current.candidateIndex
      BY DEF PageData
    <3>2. c + size + skipped = c + (n + skipped)
      BY <2>2
    <3>3. next.candidateIndex = c + size + skipped
      BY <2>3, <3>1
    <3> QED
      BY <3>1, <3>2, <3>3
  <2>8. next.resultId = token
    BY <2>3
  <2> QED
    BY <1>2, <2>5, <2>6, <2>7, <2>8 DEF new, token
<1> QED
  BY <1>5, <1>6, <1>7, <1>8

\* After k candidates the page has looked at all of them, and missed none that
\* is the candidate.
Going(a, k, seq, id, token) ==
  /\ a.next = NoPage
  /\ Len(a.matches) + a.skipped = k
  /\ \A j \in 1 .. k : seq[j] = id => Anchored(a.matches, token)

\* It is full, and the next page starts with one of them.
Stopped(a, k, current, seq, id, token) ==
  /\ a.next # NoPage
  /\ \E m \in 1 .. k :
       /\ a.next.candidateIndex = current.candidateIndex + (m - 1)
       /\ a.next.resultId = seq[m] - Candidates.position
       /\ \A j \in 1 .. m - 1 : seq[j] = id => Anchored(a.matches, token)

\* A page that has the candidate of an arrangement ahead shows a match with its
\* first token, or leaves it to the next page.
LEMMA PageReachesAnchor ==
  ASSUME IsIndices(indices), IsQuery(query), query.author = NoAuthor,
         NEW p \in Arrangements, InsideBounds(p),
         NEW current \in PageData, NEW size \in Nat \ {0},
         Ahead(p[1] + Candidates.position, current),
         NEW a, a = MatchPage(Candidates, query.spans, QuerySlices, QueryRange, current, size),
         ~a.failed
  PROVE  \/ Anchored(a.matches, p[1])
         \/ a.next # NoPage /\ Ahead(p[1] + Candidates.position, a.next)
<1> DEFINE seq == MatchIterator(Candidates, QueryRange, current)
           A == Answers(current, size)
           id == p[1] + Candidates.position
           token == p[1]
<1>1. id \in Candidates.ids /\ id - Candidates.position = token
      /\ Candidates.position \in Nat
  BY AnchorIsCandidate
<1>2. seq \in Seq(Candidates.ids)
  BY IteratorListsCandidates
<1>3. PICK h \in PageRuns(A, current, size) : TRUE
  <2>1. EmptyPage \in A
    <3>1. <<>> \in Seq(Matches) /\ Len(<<>>) = 0
      OBVIOUS
    <3> QED
      BY <3>1 DEF Answers, EmptyPage
  <2>2. \A acc \in A : \A x \in Candidates.ids : Visit(acc, x, current, size) \in A
    BY VisitKeepsAnswer
  <2> HIDE DEF A
  <2>3. PageRuns(A, current, size) # {}
    BY <2>1, <2>2, PageByCandidates
  <2> QED
    BY <2>3
<1>4. /\ h \in [0 .. Len(seq) -> A]
      /\ h[0] = EmptyPage
      /\ \A k \in 1 .. Len(seq) : h[k] = Visit(h[k - 1], seq[k], current, size)
      /\ h[Len(seq)] = a
  BY <1>3 DEF PageRuns
<1> HIDE DEF seq
<1>5. PICK n \in Nat : n = Len(seq) /\ DOMAIN seq = 1 .. n /\ \A k \in 1 .. n : seq[k] \in Candidates.ids
  BY <1>2
<1> DEFINE Fits(k) == \/ h[k].failed
                      \/ Going(h[k], k, seq, id, token)
                      \/ Stopped(h[k], k, current, seq, id, token)
           T == {k \in Nat : k <= n => Fits(k)}
<1>6. Fits(0)
  <2>1. h[0].next = NoPage /\ h[0].matches = <<>> /\ h[0].skipped = 0
    BY <1>4 DEF EmptyPage
  <2>2. Len(h[0].matches) + h[0].skipped = 0
    BY <2>1
  <2> QED
    BY <2>1, <2>2 DEF Going
<1>7. ASSUME NEW k \in Nat, k + 1 <= n, Fits(k) PROVE Fits(k + 1)
  <2>1. k + 1 \in 1 .. n /\ (k + 1) - 1 = k /\ k \in 0 .. n
    BY <1>7
  <2>2. PICK acc \in A, new \in A, x \in Candidates.ids :
          acc = h[k] /\ new = h[k + 1] /\ x = seq[k + 1] /\ new = Visit(acc, x, current, size)
    <3>1. h[k] \in A /\ h[k + 1] \in A /\ seq[k + 1] \in Candidates.ids
          /\ h[k + 1] = Visit(h[k], seq[k + 1], current, size)
      BY <1>4, <1>5, <2>1
    <3> QED
      BY <3>1
  <2> HIDE DEF id, token
  <2>3. CASE acc.failed \/ acc.next # NoPage
    <3>1. new = acc
      BY <2>2, <2>3 DEF Visit
    <3>2. CASE acc.failed
      BY <2>2, <3>1, <3>2
    <3>3. CASE ~acc.failed /\ acc.next # NoPage
      <4>1. Stopped(acc, k, current, seq, id, token)
        BY <1>7, <2>2, <3>3 DEF Going
      <4>2. Stopped(new, k + 1, current, seq, id, token)
        <5>1. \A m \in 1 .. k : m \in 1 .. k + 1
          OBVIOUS
        <5> QED
          BY <3>1, <4>1, <5>1 DEF Stopped
      <4> QED
        BY <2>2, <4>2
    <3> QED
      BY <2>3, <3>2, <3>3
  <2>4. CASE ~acc.failed /\ acc.next = NoPage
    <3>1. Going(acc, k, seq, id, token)
      BY <1>7, <2>2, <2>4 DEF Stopped
    <3>2. \/ new.failed
          \/ /\ new.next = NoPage
             /\ Len(new.matches) + new.skipped = Len(acc.matches) + acc.skipped + 1
             /\ Anchored(acc.matches, token) => Anchored(new.matches, token)
             /\ x = id => Anchored(new.matches, token)
          \/ /\ new.next # NoPage
             /\ new.matches = acc.matches
             /\ new.next.candidateIndex
                  = current.candidateIndex + (Len(acc.matches) + acc.skipped)
             /\ new.next.resultId = x - Candidates.position
      BY <1>1, <2>2, <2>4, VisitFinds DEF A, token
    <3>3. CASE new.failed
      BY <2>2, <3>3
    <3>4. CASE /\ new.next = NoPage
               /\ Len(new.matches) + new.skipped = Len(acc.matches) + acc.skipped + 1
               /\ Anchored(acc.matches, token) => Anchored(new.matches, token)
               /\ x = id => Anchored(new.matches, token)
      <4>1. Len(new.matches) + new.skipped = k + 1
        <5>1. PICK b \in Nat, c \in Nat : b = Len(acc.matches) /\ c = acc.skipped
          <6>1. acc.matches \in Seq(Matches) /\ acc.skipped \in Nat
            BY DEF A, Answers
          <6> QED
            BY <6>1
        <5>2. b + c = k
          BY <3>1, <5>1 DEF Going
        <5>3. b + c + 1 = (b + c) + 1
          OBVIOUS
        <5> QED
          BY <3>4, <5>1, <5>2, <5>3
      <4>2. ASSUME NEW j \in 1 .. k + 1, seq[j] = id PROVE Anchored(new.matches, token)
        <5>1. j = k + 1 \/ j \in 1 .. k
          OBVIOUS
        <5>2. CASE j = k + 1
          BY <2>2, <3>4, <4>2, <5>2
        <5>3. CASE j \in 1 .. k
          BY <3>1, <3>4, <4>2, <5>3 DEF Going
        <5> QED
          BY <5>1, <5>2, <5>3
      <4>3. Going(new, k + 1, seq, id, token)
        BY <3>4, <4>1, <4>2 DEF Going
      <4> QED
        BY <2>2, <4>3
    <3>5. CASE /\ new.next # NoPage
               /\ new.matches = acc.matches
               /\ new.next.candidateIndex
                    = current.candidateIndex + (Len(acc.matches) + acc.skipped)
               /\ new.next.resultId = x - Candidates.position
      <4>1. Len(acc.matches) + acc.skipped = (k + 1) - 1
        BY <2>1, <3>1 DEF Going
      <4>2. new.next.candidateIndex = current.candidateIndex + ((k + 1) - 1)
        BY <3>5, <4>1
      <4>3. \A j \in 1 .. (k + 1) - 1 : seq[j] = id => Anchored(new.matches, token)
        BY <2>1, <3>1, <3>5 DEF Going
      <4>4. k + 1 \in 1 .. k + 1
        OBVIOUS
      <4>5. new.next.resultId = seq[k + 1] - Candidates.position
        BY <2>2, <3>5
      <4>6. Stopped(new, k + 1, current, seq, id, token)
        BY <3>5, <4>2, <4>3, <4>4, <4>5 DEF Stopped
      <4> QED
        BY <2>2, <4>6
    <3> QED
      BY <3>2, <3>3, <3>4, <3>5
  <2> QED
    BY <2>3, <2>4
<1>8. Fits(n)
  <2> HIDE DEF Fits
  <2>1. 0 \in T
    BY <1>6
  <2>2. ASSUME NEW k \in Nat, k \in T PROVE k + 1 \in T
    <3> SUFFICES ASSUME k + 1 <= n PROVE Fits(k + 1)
      OBVIOUS
    <3>1. Fits(k)
      BY <2>2
    <3> QED
      BY <1>7, <3>1
  <2> HIDE DEF T
  <2>3. n \in T
    BY <2>1, <2>2, SetInduction
  <2> QED
    BY <2>3 DEF T
<1>9. Going(a, n, seq, id, token) \/ Stopped(a, n, current, seq, id, token)
  <2>1. h[n] = a
    BY <1>4, <1>5
  <2> HIDE DEF id, token
  <2> QED
    BY <1>8, <2>1
<1>10. PICK j \in 1 .. n : seq[j] = id
  BY <1>5 DEF Ahead, seq
<1> HIDE DEF id, token
<1>11. CASE Going(a, n, seq, id, token)
  BY <1>10, <1>11 DEF Going, token
<1>12. CASE Stopped(a, n, current, seq, id, token)
  <2>1. PICK m \in 1 .. n :
          /\ a.next # NoPage
          /\ a.next.candidateIndex = current.candidateIndex + (m - 1)
          /\ a.next.resultId = seq[m] - Candidates.position
          /\ \A i \in 1 .. m - 1 : seq[i] = id => Anchored(a.matches, token)
    BY <1>12 DEF Stopped
  <2>2. CASE j \in 1 .. m - 1
    BY <1>10, <2>1, <2>2 DEF token
  <2>3. CASE m <= j
    <3>1. a.next \in PageData
      <4>1. a \in Answers(current, size)
        BY PageIsAnswer
      <4>2. a.next \in PageData \cup {NoPage}
        BY <4>1 DEF Answers
      <4> QED
        BY <2>1, <4>2
    <3>2. m \in Nat \ {0} /\ j \in Nat /\ j <= Len(seq)
      BY <1>5
    <3>3. Ahead(seq[j], a.next)
      BY <1>1, <2>1, <2>3, <3>1, <3>2, NextPageHasRest DEF seq
    <3> QED
      BY <1>10, <2>1, <3>3 DEF id
  <2>4. j \in 1 .. m - 1 \/ m <= j
    OBVIOUS
  <2> QED
    BY <2>2, <2>3, <2>4
<1> QED
  BY <1>9, <1>11, <1>12

-----------------------------------------------------------------------------
\* The invariant.

LEMMA ShownAreMatches ==
  ASSUME QueryInv
  PROVE  shown \in Seq(Matches)
<1>1. /\ shown \in Seq(Seq([start : Tokens, length : Nat \ {0}]))
      /\ \A i \in DOMAIN shown : Genuine(shown[i])
      /\ \A i \in DOMAIN shown : \A j, k \in DOMAIN shown[i] :
           j < k => shown[i][j].start < shown[i][k].start
  BY DEF QueryInv, TypeOK, MatchesAreGenuine
<1>2. PICK n \in Nat : n = Len(shown)
  BY <1>1
<1>3. shown \in [1 .. n -> Seq([start : Tokens, length : Nat \ {0}])]
  BY <1>1, <1>2
<1>4. \A i \in 1 .. n : shown[i] \in Matches
  BY <1>1, <1>3 DEF Matches
<1>5. shown \in [1 .. n -> Matches]
  BY <1>3, <1>4
<1> QED
  BY <1>5, FunctionIsSequence

LEMMA InitFits ==
  ASSUME Init
  PROVE  QueryInv
<1>1. IsIndices(indices) /\ IsQuery(query) /\ NoPage \notin PageData
  BY ConstantsFit DEF Init
<1>2. page \in PageData /\ page.resultIndex = 0 /\ page # NoPage
  BY <1>1 DEF Init, FirstPage, PageData
<1>3. shown \in Seq(Seq([start : Tokens, length : Nat \ {0}])) /\ shown = <<>>
  BY DEF Init
<1>4. TypeOK
  BY <1>2, <1>3 DEF TypeOK, Init
<1>5. MatchesAreGenuine
  BY <1>3 DEF MatchesAreGenuine
<1> QED
  BY <1>1, <1>2, <1>3, <1>4, <1>5 DEF QueryInv

LEMMA SameArrangements ==
  ASSUME indices' = indices, query' = query, NEW l
  PROVE  Genuine(l) => Genuine(l)'
<1>1. \A span, t : SpanAt(span, t)' <=> SpanAt(span, t)
  BY DEF SpanAt
<1>2. \A p : p \in Arrangements => p \in Arrangements'
  BY <1>1 DEF Arrangements, InReach
<1> QED
  BY <1>2 DEF Genuine

LEMMA QueryStepKeepsInv ==
  ASSUME QueryInv, NEW size \in PageSizes, QueryCorpus(size)
  PROVE  QueryInv'
<1>1. /\ IsIndices(indices) /\ IsQuery(query) /\ TypeOK /\ MatchesAreGenuine
      /\ page \in PageData \cup {NoPage}
      /\ shown \in Seq(Seq([start : Tokens, length : Nat \ {0}]))
  BY DEF QueryInv
<1>2. /\ page # NoPage /\ page \in PageData /\ status = "more"
      /\ page.resultIndex = Len(shown)
      /\ NoPage \notin PageData
  BY <1>1, ConstantsFit DEF QueryCorpus, TypeOK
<1>3. size \in Nat \ {0}
  BY CorpusShape
<1>4. indices' = indices /\ query' = query
  BY DEF QueryCorpus
<1>5. IsIndices(indices)' /\ IsQuery(query)'
  BY <1>1, <1>4 DEF IsIndices, IsQuery
<1>6. CASE Answer(page, size).failed
  <2>1. /\ status' = "failed" /\ page' = page /\ shown' = shown /\ estimate' = estimate
    BY <1>6 DEF QueryCorpus, Receive
  <2>2. TypeOK'
    BY <1>1, <1>2, <2>1 DEF TypeOK
  <2>3. MatchesAreGenuine'
    BY <1>1, <1>4, <2>1, SameArrangements DEF MatchesAreGenuine
  <2> QED
    BY <1>1, <1>5, <2>1, <2>2, <2>3 DEF QueryInv
<1>7. CASE ~Answer(page, size).failed
  <2> DEFINE a == Answer(page, size)
  <2>1. /\ shown' = shown \o a.matches /\ page' = a.next /\ estimate' = a.estimate
        /\ status' = IF a.next = NoPage THEN "done" ELSE "more"
    BY <1>7 DEF QueryCorpus, Receive
  <2>2. /\ a.matches \in Seq(Matches)
        /\ a.next \in PageData \cup {NoPage}
        /\ a.next # NoPage => a.next.resultIndex = page.resultIndex + Len(a.matches)
        /\ a.estimate \in Nat
    BY <1>1, <1>2, <1>3, <1>7, AnswerFits
  <2> HIDE DEF a
  <2>3. shown \in Seq(Matches)
    BY ShownAreMatches
  <2>4. PICK old \in Seq(Matches), new \in Seq(Matches) : old = shown /\ new = a.matches
    BY <2>2, <2>3
  <2>5. /\ old \o new \in Seq(Matches)
        /\ Len(old \o new) = Len(old) + Len(new)
    BY ConcatProperties
  <2>6. PICK all \in Seq(Matches) : all = shown' /\ Len(all) = Len(shown) + Len(a.matches)
    BY <2>1, <2>4, <2>5
  <2>7. \A i \in DOMAIN all :
          /\ all[i] \in Seq([start : Tokens, length : Nat \ {0}])
          /\ Genuine(all[i])
          /\ \A j, k \in DOMAIN all[i] : j < k => all[i][j].start < all[i][k].start
    <3>1. \A i \in DOMAIN all : all[i] \in Matches
      BY <2>6
    <3> QED
      BY <3>1 DEF Matches
  <2>8. \A i \in DOMAIN all : \A j \in DOMAIN all[i] : all[i][j].start \in Tokens
    <3> SUFFICES ASSUME NEW i \in DOMAIN all, NEW j \in DOMAIN all[i]
                 PROVE  all[i][j].start \in Tokens
      OBVIOUS
    <3> DEFINE Leaders == [start : Tokens, length : Nat \ {0}]
    <3> HIDE DEF Leaders
    <3>1. PICK l \in Seq(Leaders) : l = all[i]
      BY <2>7 DEF Leaders
    <3>2. l[j] \in Leaders
      BY <3>1
    <3> QED
      BY <3>1, <3>2 DEF Leaders
  <2>9. TypeOK'
    <3>1. (status' = "done") <=> (page' = NoPage)
      BY <2>1
    <3>2. page' # NoPage => page'.resultIndex = Len(shown')
      BY <1>2, <2>1, <2>2, <2>6
    <3>3. status' \in {"more", "done", "failed"} /\ estimate' \in Nat
      BY <2>1, <2>2
    <3> QED
      BY <2>6, <2>7, <2>8, <3>1, <3>2, <3>3 DEF TypeOK
  <2>10. MatchesAreGenuine'
    BY <1>4, <2>6, <2>7, SameArrangements DEF MatchesAreGenuine
  <2>11. shown' \in Seq(Seq([start : Tokens, length : Nat \ {0}]))
    <3>1. Matches \subseteq Seq([start : Tokens, length : Nat \ {0}])
      BY DEF Matches
    <3> QED
      BY <2>6, <3>1, SeqMonotonic
  <2>12. page' \in PageData \cup {NoPage}
    BY <2>1, <2>2
  <2> QED
    BY <1>5, <2>9, <2>10, <2>11, <2>12 DEF QueryInv, PageData
<1> QED
  BY <1>6, <1>7

LEMMA StutterKeepsInv ==
  ASSUME QueryInv, UNCHANGED vars
  PROVE  QueryInv'
<1>1. /\ indices' = indices /\ query' = query /\ page' = page /\ shown' = shown
      /\ estimate' = estimate /\ status' = status
  BY DEF vars
<1>2. TypeOK'
  BY <1>1 DEF QueryInv, TypeOK
<1>3. MatchesAreGenuine'
  BY <1>1, SameArrangements DEF QueryInv, MatchesAreGenuine
<1> QED
  BY <1>1, <1>2, <1>3 DEF QueryInv, IsIndices, IsQuery

LEMMA QueryInvariant == Spec => []QueryInv
<1>1. Init => QueryInv
  BY InitFits
<1>2. QueryInv /\ [Next]_vars => QueryInv'
  BY QueryStepKeepsInv, StutterKeepsInv DEF Next
<1> QED
  BY <1>1, <1>2, PTL DEF Spec

\* Of every corpus and query: a match lists its spans from left to right at
\* tokens of the corpus, the estimate is a number, and the PageData of the
\* next request counts the results shown so far (query_corpus, mod.rs).
THEOREM CorpusTypeCorrect == Spec => []TypeOK
<1>1. QueryInv => TypeOK
  BY DEF QueryInv
<1> QED
  BY <1>1, QueryInvariant, PTL

\* Of every corpus and query, whichever of its indices are lists and which
\* bitmasks, however wide a word is and whatever pages are asked for: every
\* match shown is an arrangement of the spans of the query, with its terms at
\* its tokens, no hard break inside a span, neighbours in reach of each other,
\* no two spans overlapping, and all of them in one work.
THEOREM MatchesStayGenuine == Spec => []MatchesAreGenuine
<1>1. QueryInv => MatchesAreGenuine
  BY DEF QueryInv
<1> QED
  BY <1>1, QueryInvariant, PTL

\* Of every corpus whose indices are any mixture of lists and bitmasks: a
\* query of the whole corpus with at most two spans is never an error.  The
\* candidates promise a leader of the second span in reach
\* (find_fuzzy_matches), which find_span_leader then finds.
THEOREM ShortQueriesAreAnswered == Spec => []ShortQueriesSucceed
<1> DEFINE Inv == QueryInv /\ ShortQueriesSucceed
<1>1. Init => Inv
  BY InitFits DEF Init, ShortQueriesSucceed
<1>2. ASSUME Inv, [Next]_vars PROVE Inv'
  <2>1. QueryInv'
    BY <1>2, QueryStepKeepsInv, StutterKeepsInv DEF Next
  <2>2. CASE UNCHANGED vars
    BY <1>2, <2>1, <2>2 DEF ShortQueriesSucceed, vars
  <2>3. ASSUME NEW size \in PageSizes, QueryCorpus(size) PROVE ShortQueriesSucceed'
    <3>1. /\ IsIndices(indices) /\ IsQuery(query) /\ status = "more" /\ query' = query
          /\ page \in PageData /\ size \in Nat \ {0}
      BY <1>2, <2>3, CorpusShape DEF QueryInv, TypeOK, QueryCorpus
    <3>2. CASE query.author = NoAuthor /\ Len(query.spans) <= 2
      <4>1. ~Answer(page, size).failed
        BY <3>1, <3>2, ShortQueryIsAnswered
      <4>2. status' # "failed"
        BY <2>3, <4>1 DEF QueryCorpus, Receive
      <4> QED
        BY <4>2 DEF ShortQueriesSucceed
    <3>3. CASE ~(query.author = NoAuthor /\ Len(query.spans) <= 2)
      BY <3>1, <3>3 DEF ShortQueriesSucceed
    <3> QED
      BY <3>2, <3>3
  <2> QED
    BY <1>2, <2>1, <2>2, <2>3 DEF Next
<1>3. Inv => ShortQueriesSucceed
  OBVIOUS
<1> QED
  BY <1>1, <1>2, <1>3, PTL DEF Spec

\* The candidates are a function of the corpus and the query.
TermOrderOf(ind, terms) ==
  SortedPlaces([i \in DOMAIN terms |-> Cardinality(ind[terms[i]].ids)])

SpanCandidatesOf(ind, terms, range) ==
  LET slices == [i \in DOMAIN terms |-> Slice(ind[terms[i]], range, i - 1)]
      order == TermOrderOf(ind, terms)
      all == FoldLeft(LAMBDA data, i : AndIndices(data, slices[i]),
                      slices[Head(order)], Tail(order))
  IN IF Len(terms) > 1 THEN FilterBreaks(all, Len(terms), range) ELSE all

CandidatesOf(ind, q) ==
  QueryCandidates(q.spans,
    [k \in DOMAIN q.spans |-> SpanCandidatesOf(ind, q.spans[k].terms, Bounds(q))], Bounds(q))

LEMMA CandidatesAreOfQuery == Candidates = CandidatesOf(indices, query)
<1>1. \A terms, range : SpanCandidates(terms, range) = SpanCandidatesOf(indices, terms, range)
  BY DEF SpanCandidates, SpanCandidatesOf, TermOrder, TermOrderOf
<1>2. QueryRange = Bounds(query)
  BY DEF QueryRange
<1>3. QuerySlices = [k \in DOMAIN query.spans |->
                       SpanCandidatesOf(indices, query.spans[k].terms, Bounds(query))]
  BY <1>1, <1>2 DEF QuerySlices
<1> QED
  BY <1>2, <1>3 DEF Candidates, CandidatesOf

LEMMA SameCandidates ==
  ASSUME indices' = indices, query' = query
  PROVE  /\ Candidates' = Candidates
         /\ QueryRange' = QueryRange
         /\ \A p : p \in Arrangements' => p \in Arrangements
         /\ \A p : InsideBounds(p)' => InsideBounds(p)
<1>1. (Candidates = CandidatesOf(indices, query))'
  BY CandidatesAreOfQuery, PTL
<1>2. Candidates' = Candidates
  BY <1>1, CandidatesAreOfQuery
<1>3. QueryRange' = QueryRange
  BY DEF QueryRange, Bounds
<1>4. \A span, t : SpanAt(span, t)' <=> SpanAt(span, t)
  BY DEF SpanAt
<1>5. \A p : p \in Arrangements' => p \in Arrangements
  BY <1>4 DEF Arrangements, InReach
<1>6. \A p : InsideBounds(p)' => InsideBounds(p)
  BY <1>3 DEF InsideBounds, QueryRange
<1> QED
  BY <1>2, <1>3, <1>5, <1>6

\* The inductive invariant: what an arrangement starts with was shown, or the
\* next page still has its candidate ahead.
AnchorInv ==
  /\ QueryInv
  /\ status = "more" /\ query.author = NoAuthor =>
       \A p \in Arrangements :
         InsideBounds(p) => \/ Anchored(shown, p[1])
                            \/ Ahead(p[1] + Candidates.position, page)
  /\ NoAnchorLost

LEMMA InitAnchors ==
  ASSUME Init
  PROVE  AnchorInv
<1>1. QueryInv /\ status = "more" /\ page = FirstPage
  BY InitFits DEF Init
<1>2. ASSUME query.author = NoAuthor, NEW p \in Arrangements, InsideBounds(p)
      PROVE  Ahead(p[1] + Candidates.position, page)
  <2>1. IsIndices(indices) /\ IsQuery(query)
    BY <1>1 DEF QueryInv
  <2>2. /\ p[1] + Candidates.position \in Candidates.ids
        /\ p[1] + Candidates.position \in Nat
    BY <1>2, <2>1, AnchorIsCandidate
  <2> QED
    BY <1>1, <1>2, <2>1, <2>2, FirstPageHasAll
<1> QED
  BY <1>1, <1>2 DEF AnchorInv, NoAnchorLost

LEMMA QueryStepKeepsAnchors ==
  ASSUME AnchorInv, NEW size \in PageSizes, QueryCorpus(size)
  PROVE  AnchorInv'
<1>1. /\ QueryInv /\ IsIndices(indices) /\ IsQuery(query) /\ status = "more"
      /\ indices' = indices /\ query' = query
      /\ page \in PageData /\ size \in Nat \ {0}
  BY CorpusShape DEF AnchorInv, QueryInv, TypeOK, QueryCorpus
<1>2. QueryInv'
  BY <1>1, QueryStepKeepsInv
<1>3. CASE Answer(page, size).failed
  <2>1. status' = "failed"
    BY <1>3 DEF QueryCorpus, Receive
  <2> QED
    BY <1>2, <2>1 DEF AnchorInv, NoAnchorLost
<1>4. CASE ~Answer(page, size).failed
  <2> DEFINE a == MatchPage(Candidates, query.spans, QuerySlices, QueryRange, page, size)
             e == EstimatedResults(Cardinality(Candidates.ids), a, page)
             panic == CandidatesPanic(query.spans, QuerySlices, QueryRange)
  <2>1. Answer(page, size) =
          IF panic THEN [failed |-> TRUE]
          ELSE [failed |-> a.failed, matches |-> a.matches, next |-> a.next, estimate |-> e]
    BY DEF Answer, Candidates, QuerySlices, QueryRange
  <2>2. a \in Answers(page, size)
    BY <1>1, PageIsAnswer
  <2> HIDE DEF e, panic
  <2>3. ASSUME query.author = NoAuthor, NEW p \in Arrangements, InsideBounds(p),
               Ahead(p[1] + Candidates.position, page), ~a.failed
        PROVE  \/ Anchored(a.matches, p[1])
               \/ a.next # NoPage /\ Ahead(p[1] + Candidates.position, a.next)
    BY <1>1, <2>3, PageReachesAnchor
  <2> HIDE DEF a
  <2>4. ~panic /\ ~a.failed
    BY <1>4, <2>1
  <2>5. /\ shown' = shown \o a.matches /\ page' = a.next
        /\ status' = IF a.next = NoPage THEN "done" ELSE "more"
    <3>1. Answer(page, size).matches = a.matches /\ Answer(page, size).next = a.next
      BY <2>1, <2>4
    <3> QED
      BY <1>4, <3>1 DEF QueryCorpus, Receive
  <2>6. shown \in Seq(Matches) /\ a.matches \in Seq(Matches)
    BY <1>1, <2>2, ShownAreMatches DEF Answers
  <2>7. ASSUME query.author = NoAuthor, NEW p \in Arrangements, InsideBounds(p)
        PROVE  \/ Anchored(shown', p[1])
               \/ page' # NoPage /\ Ahead(p[1] + Candidates.position, page')
    <3>1. CASE Anchored(shown, p[1])
      <4>1. Anchored(shown \o a.matches, p[1])
        BY <2>6, <3>1, AnchoredGrows
      <4> QED
        BY <2>5, <4>1
    <3>2. CASE Ahead(p[1] + Candidates.position, page)
      <4>1. CASE Anchored(a.matches, p[1])
        <5>1. Anchored(shown \o a.matches, p[1])
          BY <2>6, <4>1, AnchoredGrows
        <5> QED
          BY <2>5, <5>1
      <4> QED
        BY <2>3, <2>4, <2>5, <2>7, <3>2, <4>1
    <3> QED
      BY <1>1, <2>7, <3>1, <3>2 DEF AnchorInv
  <2>8. ASSUME query'.author = NoAuthor, NEW p \in Arrangements', InsideBounds(p)'
        PROVE  \/ Anchored(shown', p[1])
               \/ page' # NoPage /\ Ahead(p[1] + Candidates.position, page)'
    <3>1. p \in Arrangements /\ InsideBounds(p) /\ query.author = NoAuthor
      BY <1>1, <2>8, SameCandidates
    <3>2. Candidates' = Candidates /\ QueryRange' = QueryRange
      BY <1>1, SameCandidates
    <3>3. \A i : Ahead(i, page') => Ahead(i, page)'
      BY <3>2 DEF Ahead
    <3> QED
      BY <2>7, <3>1, <3>2, <3>3
  <2>9. NoAnchorLost'
    BY <2>5, <2>8 DEF NoAnchorLost, Anchored, StartsAt
  <2> QED
    BY <1>2, <2>8, <2>9 DEF AnchorInv
<1> QED
  BY <1>3, <1>4

LEMMA StutterKeepsAnchors ==
  ASSUME AnchorInv, UNCHANGED vars
  PROVE  AnchorInv'
<1>1. /\ indices' = indices /\ query' = query /\ page' = page /\ shown' = shown
      /\ status' = status
  BY DEF vars
<1>2. QueryInv'
  BY StutterKeepsInv DEF AnchorInv
<1>3. /\ Candidates' = Candidates /\ QueryRange' = QueryRange
      /\ \A p : p \in Arrangements' => p \in Arrangements
      /\ \A p : InsideBounds(p)' => InsideBounds(p)
  BY <1>1, SameCandidates
<1>4. NoAnchorLost'
  BY <1>1, <1>3 DEF AnchorInv, NoAnchorLost
<1>5. \A i : Ahead(i, page) => Ahead(i, page)'
  BY <1>1, <1>3 DEF Ahead
<1>6. \A p : Anchored(shown, p[1]) => Anchored(shown, p[1])'
  BY <1>1 DEF Anchored, StartsAt
<1> QED
  BY <1>1, <1>2, <1>3, <1>4, <1>5, <1>6 DEF AnchorInv

\* Of every corpus and every query of all of it, whichever of its indices are
\* lists and which bitmasks and whatever pages are asked for: when the last
\* page was shown, every token its first span can start at, with the other
\* spans in reach inside the corpus, is a leader of some match.  The search
\* for the candidates loses none (find_fuzzy_matches), the search for the
\* leaders none (leaders_for_candidate), nor does the change of pages.
THEOREM NoAnchorIsLost == Spec => []NoAnchorLost
<1>1. Init => AnchorInv
  BY InitAnchors
<1>2. AnchorInv /\ [Next]_vars => AnchorInv'
  BY QueryStepKeepsAnchors, StutterKeepsAnchors DEF Next
<1>3. AnchorInv => NoAnchorLost
  BY DEF AnchorInv
<1> QED
  BY <1>1, <1>2, <1>3, PTL DEF Spec

-----------------------------------------------------------------------------
\* Pages and the whole list: what a candidate leads to, on whatever page.

Directed == \A k \in 2 .. Len(query.spans) : query.spans[k].directed

\* What the candidate leads to on a page of its own.
Alone(id) ==
  LeadersForCandidate(id - Candidates.position, <<>>, query.spans, QuerySlices, QueryRange)

LEMMA DirectedStartsFirst ==
  ASSUME IsIndices(indices), IsQuery(query), Directed, NEW id \in Candidates.ids,
         NEW p \in PathsFrom(id - Candidates.position)
  PROVE  /\ SortedLeaders(p, query.spans) \in Seq(Leader) \ {<<>>}
         /\ SortedLeaders(p, query.spans)[1].start = id - Candidates.position
<1> DEFINE token == id - Candidates.position
<1>1. PICK spans \in Seq(Spans) \ {<<>>} : spans = query.spans
  BY DEF IsQuery
<1>2. PICK n \in Nat \ {0} : n = Len(spans)
  BY <1>1
<1>3. /\ p \in [1 .. n -> Tokens]
      /\ \A k \in 2 .. n : InReach(p[k - 1], p[k], spans[k])
  BY <1>1, <1>2, PathsAreSpots DEF PathsFrom
<1>4. Tokens \subseteq Nat
  BY CorpusShape DEF Tokens
<1>5. \A k \in 1 .. n : p[k] \in Nat
  BY <1>3, <1>4
<1>6. p[1] = token
  <2>1. QuerySlices \in [1 .. Len(spans) -> IndexData]
    BY <1>1, SlicesOfQuery
  <2>2. token \in Int
    BY CandidatesAreFinite DEF IndexData
  <2> HIDE DEF token
  <2>3. IsPath(p, token, n, spans, QuerySlices, QueryRange)
    <3>1. p \in Paths(token, n, spans, QuerySlices, QueryRange)
      BY <1>1, <1>2 DEF PathsFrom, token
    <3>2. n \in 1 .. Len(spans)
      BY <1>2
    <3> QED
      BY <2>1, <2>2, <3>1, <3>2, PathsAreLeaders
  <2> QED
    BY <2>3 DEF IsPath
<1> HIDE DEF token
<1>7. \A k \in 1 .. n : p[1] <= p[k]
  <2> DEFINE T == {k \in Nat : k + 1 <= n => p[1] <= p[k + 1]}
  <2>1. 0 \in T
    <3>1. 1 \in 1 .. n /\ p[1] \in Nat /\ 0 + 1 = 1
      BY <1>2, <1>4, <1>5
    <3> QED
      BY <3>1
  <2>2. ASSUME NEW k \in Nat, k \in T PROVE k + 1 \in T
    <3> SUFFICES ASSUME k + 2 <= n PROVE p[1] <= p[k + 2]
      OBVIOUS
    <3>1. /\ 1 \in 1 .. n /\ k + 1 \in 1 .. n /\ k + 2 \in 1 .. n /\ k + 2 \in 2 .. n
          /\ (k + 2) - 1 = k + 1
      BY <1>2
    <3>2. PICK a \in Nat, b \in Nat, c \in Nat : a = p[1] /\ b = p[k + 1] /\ c = p[k + 2]
      BY <1>5, <3>1
    <3>3. a <= b
      BY <2>2, <3>1, <3>2
    <3>4. InReach(b, c, spans[k + 2])
      BY <1>3, <3>1, <3>2
    <3>5. spans[k + 2].directed /\ spans[k + 2].distance \in Nat
      <4>1. spans[k + 2] \in Spans
        BY <1>1, <1>2, <3>1
      <4> QED
        BY <1>1, <1>2, <3>1, <4>1 DEF Directed, Spans
    <3>6. c - b \in 0 .. spans[k + 2].distance
      BY <3>4, <3>5 DEF InReach
    <3> QED
      BY <3>2, <3>3, <3>5, <3>6
  <2> HIDE DEF T
  <2>3. \A k \in Nat : k \in T
    BY <2>1, <2>2, SetInduction
  <2> SUFFICES ASSUME NEW k \in 1 .. n PROVE p[1] <= p[k]
    OBVIOUS
  <2>4. k - 1 \in Nat /\ (k - 1) + 1 = k /\ (k - 1) + 1 <= n
    BY <1>2
  <2>5. k - 1 \in T
    BY <2>3, <2>4
  <2> QED
    BY <2>4, <2>5 DEF T
<1>8. p \in [1 .. n -> Nat] /\ p \in [1 .. n -> Int] /\ p \in [1 .. Len(spans) -> Nat]
  <2>1. DOMAIN p = 1 .. n /\ p = [k \in 1 .. n |-> p[k]]
    BY <1>3
  <2>2. \A k \in 1 .. n : p[k] \in Nat /\ p[k] \in Int
    BY <1>5
  <2>3. p \in [1 .. n -> Nat] /\ p \in [1 .. n -> Int]
    BY <2>1, <2>2
  <2> QED
    BY <1>2, <2>3
<1>9. /\ SortedLeaders(p, spans) \in Seq(Leader)
      /\ Len(SortedLeaders(p, spans)) = n
      /\ \A i \in 1 .. n :
           SortedLeaders(p, spans)[i] = [start |-> p[SortedPlaces(p)[i]],
                                         length |-> Len(spans[SortedPlaces(p)[i]].terms)]
  <2>1. p \in [1 .. Len(spans) -> Nat]
    BY <1>8
  <2>2. /\ SortedLeaders(p, spans) \in Seq(Leader)
        /\ Len(SortedLeaders(p, spans)) = Len(spans)
        /\ \A i \in 1 .. Len(spans) :
             SortedLeaders(p, spans)[i] = [start |-> p[SortedPlaces(p)[i]],
                                           length |-> Len(spans[SortedPlaces(p)[i]].terms)]
    BY <2>1, LeadersOfPath
  <2> QED
    BY <1>2, <2>2
<1>10. /\ SortedPlaces(p) \in [1 .. n -> 1 .. n]
       /\ \A j \in 1 .. n : \E i \in 1 .. n : SortedPlaces(p)[i] = j
       /\ \A i, j \in 1 .. n : i < j => p[SortedPlaces(p)[i]] <= p[SortedPlaces(p)[j]]
  BY <1>8, SortedPlacesListAll
<1>11. p[SortedPlaces(p)[1]] = token
  <2>1. 1 \in 1 .. n
    BY <1>2
  <2>2. PICK i \in 1 .. n : SortedPlaces(p)[i] = 1
    BY <1>10, <2>1
  <2>3. PICK j \in 1 .. n : SortedPlaces(p)[1] = j
    BY <1>10, <2>1
  <2>4. i = 1 \/ 1 < i
    BY <2>2
  <2>5. p[j] <= p[1]
    <3>1. CASE i = 1
      BY <1>5, <2>1, <2>2, <2>3, <3>1
    <3>2. CASE 1 < i
      BY <1>10, <2>1, <2>2, <2>3, <3>2
    <3> QED
      BY <2>4, <3>1, <3>2
  <2>6. p[1] <= p[j] /\ p[j] \in Nat /\ p[1] \in Nat
    BY <1>5, <1>7, <2>1
  <2> QED
    BY <1>6, <2>3, <2>5, <2>6
<1>12. SortedLeaders(p, spans)[1].start = token
  <2>1. 1 \in 1 .. n
    BY <1>2
  <2>2. SortedLeaders(p, spans)[1].start = p[SortedPlaces(p)[1]]
    BY <1>9, <2>1
  <2> QED
    BY <1>11, <2>2
<1>13. SortedLeaders(p, spans) # <<>>
  BY <1>2, <1>9
<1> QED
  BY <1>1, <1>9, <1>12, <1>13 DEF token

\* The match before it on the page, of an earlier candidate, makes no difference.
LEMMA PreviousMakesNoDifference ==
  ASSUME IsIndices(indices), IsQuery(query), Directed, NEW id \in Candidates.ids, NEW last,
         \/ last = <<>>
         \/ last \in Seq(Leader) \ {<<>>} /\ last[1].start # id - Candidates.position
  PROVE  LeadersForCandidate(id - Candidates.position, last, query.spans, QuerySlices, QueryRange)
           = Alone(id)
<1> DEFINE token == id - Candidates.position
           paths == PathsFrom(token)
           usable(l) == {p \in paths : IsUsable(p, l)}
           first(U) == CHOOSE p \in U : \A q \in U \ {p} : Before(p, q)
           found(l) == LeadersForCandidate(token, l, query.spans, QuerySlices, QueryRange)
<1>1. \A l : found(l) = IF usable(l) = {} THEN <<>>
                        ELSE <<SortedLeaders(first(usable(l)), query.spans)>>
  BY DEF LeadersForCandidate, PathsFrom, IsUsable
<1>2. ASSUME NEW p \in paths
      PROVE  Starts(SortedLeaders(p, query.spans)) # Starts(last)
  <2> DEFINE leaders == SortedLeaders(p, query.spans)
  <2>1. leaders \in Seq(Leader) \ {<<>>} /\ leaders[1].start = token
    BY DirectedStartsFirst
  <2> HIDE DEF leaders
  <2>2. 1 \in DOMAIN Starts(leaders) /\ Starts(leaders)[1] = token
    BY <2>1 DEF Starts
  <2>3. CASE last = <<>>
    <3>1. DOMAIN Starts(last) = {}
      BY <2>3 DEF Starts
    <3> QED
      BY <2>2, <3>1 DEF leaders
  <2>4. CASE last \in Seq(Leader) \ {<<>>} /\ last[1].start # token
    <3>1. Starts(last)[1] # token
      BY <2>4 DEF Starts
    <3> QED
      BY <2>2, <3>1 DEF leaders
  <2> QED
    BY <2>3, <2>4
<1>3. ASSUME NEW p \in paths
      PROVE  Starts(SortedLeaders(p, query.spans)) # Starts(<<>>)
  <2> DEFINE leaders == SortedLeaders(p, query.spans)
  <2>1. leaders \in Seq(Leader) \ {<<>>}
    BY DirectedStartsFirst
  <2> HIDE DEF leaders
  <2>2. 1 \in DOMAIN Starts(leaders) /\ DOMAIN Starts(<<>>) = {}
    BY <2>1 DEF Starts
  <2> QED
    BY <2>2 DEF leaders
<1>4. usable(last) = usable(<<>>)
  BY <1>2, <1>3 DEF IsUsable
<1> HIDE DEF usable, first, found
<1>5. found(last) = found(<<>>)
  BY <1>1, <1>4
<1> QED
  BY <1>5 DEF found, Alone

\* What is found alone begins at the token of the candidate.
LEMMA AloneStartsAtToken ==
  ASSUME IsIndices(indices), IsQuery(query), Directed, NEW id \in Candidates.ids
  PROVE  \/ Alone(id) = <<>>
         \/ \E l \in Matches : /\ Alone(id) = <<l>> /\ l \in Seq(Leader) \ {<<>>}
                               /\ l[1].start = id - Candidates.position
<1> DEFINE token == id - Candidates.position
<1>1. \/ Alone(id) = <<>>
      \/ \E p \in PathsFrom(token) : Alone(id) = <<SortedLeaders(p, query.spans)>>
  BY FoundIsUsable DEF Alone
<1>2. Alone(id) = <<>> \/ \E l \in Matches : Alone(id) = <<l>>
  BY FoundIsMatch DEF Alone
<1> SUFFICES ASSUME Alone(id) # <<>>
             PROVE  \E l \in Matches : /\ Alone(id) = <<l>> /\ l \in Seq(Leader) \ {<<>>}
                                       /\ l[1].start = token
  OBVIOUS
<1>3. PICK p \in PathsFrom(token) : Alone(id) = <<SortedLeaders(p, query.spans)>>
  BY <1>1
<1>4. PICK l \in Matches : Alone(id) = <<l>>
  BY <1>2
<1>5. l = SortedLeaders(p, query.spans)
  BY <1>3, <1>4
<1>6. l \in Seq(Leader) \ {<<>>} /\ l[1].start = token
  BY <1>5, DirectedStartsFirst
<1> QED
  BY <1>4, <1>6

\* The candidates in their order, which a page goes through from its place on.
Ascending(ids) == Ranked(ids, <)
Order == Ascending(Candidates.ids)

LEMMA OrderListsCandidates ==
  ASSUME IsIndices(indices), IsQuery(query)
  PROVE  /\ Order \in Seq(Candidates.ids) /\ Order \in Seq(Int)
         /\ Len(Order) <= NumTokens
         /\ \A x \in Candidates.ids : \E i \in 1 .. Len(Order) : Order[i] = x
         /\ \A i, j \in 1 .. Len(Order) : i < j => Order[i] < Order[j]
         /\ \A i \in 1 .. Len(Order) : Order[i] \in Candidates.ids /\ Order[i] \in Int
<1> DEFINE ids == Candidates.ids
<1>1. IsFiniteSet(ids) /\ ids \subseteq Int /\ Candidates.position \in Int
  BY CandidatesAreFinite DEF IndexData
<1>2. \A y \in ids : y - Candidates.position \in Tokens
  <2>1. PICK spans \in Seq(Spans) \ {<<>>} : spans = query.spans
    BY DEF IsQuery
  <2>2. /\ QuerySlices \in [1 .. Len(spans) -> IndexData]
        /\ \A k \in 1 .. Len(spans) : \A y \in QuerySlices[k].ids :
             y - QuerySlices[k].position \in Tokens
    BY <2>1, SlicesOfQuery
  <2>3. Candidates = QueryCandidates(spans, QuerySlices, QueryRange)
    BY <2>1 DEF Candidates
  <2>4. Candidates.ids \subseteq QuerySlices[1].ids /\ Candidates.position = QuerySlices[1].position
    BY <2>1, <2>2, <2>3, CandidatesAreOfFirstSpan
  <2>5. 1 \in 1 .. Len(spans)
    BY <2>1
  <2> QED
    BY <2>2, <2>4, <2>5
<1> DEFINE leader == [y \in ids |-> y - Candidates.position]
<1>3. leader \in Injection(ids, Tokens)
  BY <1>1, <1>2 DEF Injection, IsInjective
<1>4. IsFiniteSet(Tokens) /\ Cardinality(Tokens) = NumTokens
  <2>1. PICK m \in Nat \ {0} : m = NumTokens
    BY CorpusShape
  <2>2. IsFiniteSet(0 .. m - 1) /\ Cardinality(0 .. m - 1) = IF 0 > m - 1 THEN 0 ELSE m - 1 - 0 + 1
    BY FS_Interval
  <2> QED
    BY <2>1, <2>2 DEF Tokens
<1> HIDE DEF leader
<1>5. Cardinality(ids) <= NumTokens /\ Cardinality(ids) \in Nat
  BY <1>1, <1>3, <1>4, FS_Injection, FS_CardinalityType
<1> HIDE DEF ids
<1>6. Len(Ranked(ids, <)) = Cardinality(ids)
  BY <1>5 DEF Ranked
<1>7. /\ Ranked(ids, <) \in Seq(ids)
      /\ \A x \in ids : \E i \in 1 .. Len(Ranked(ids, <)) : Ranked(ids, <)[i] = x
      /\ \A i, j \in 1 .. Len(Ranked(ids, <)) : i < j => Ranked(ids, <)[i] < Ranked(ids, <)[j]
  BY <1>1, RankedNumbers
<1>8. /\ Order \in Seq(ids) /\ Len(Order) <= NumTokens
      /\ \A x \in ids : \E i \in 1 .. Len(Order) : Order[i] = x
      /\ \A i, j \in 1 .. Len(Order) : i < j => Order[i] < Order[j]
  BY <1>5, <1>6, <1>7 DEF Order, Ascending, ids
<1>9. \A i \in 1 .. Len(Order) : Order[i] \in ids /\ Order[i] \in Int
  <2>1. \A i \in 1 .. Len(Order) : Order[i] \in ids
    BY <1>8, ElementOfSeq
  <2> QED
    BY <1>1, <2>1
<1>10. Order \in Seq(Int)
  BY <1>1, <1>8, SeqMonotonic
<1> QED
  BY <1>8, <1>9, <1>10 DEF ids

\* There is one way to list numbers in ascending order.
LEMMA AscendingIsUnique ==
  ASSUME NEW s \in Seq(Int), NEW t \in Seq(Int),
         \A i, j \in 1 .. Len(s) : i < j => s[i] < s[j],
         \A i, j \in 1 .. Len(t) : i < j => t[i] < t[j],
         \A i \in 1 .. Len(s) : \E j \in 1 .. Len(t) : s[i] = t[j],
         \A j \in 1 .. Len(t) : \E i \in 1 .. Len(s) : s[i] = t[j]
  PROVE  s = t
<1>1. PICK m \in Nat, n \in Nat : m = Len(s) /\ n = Len(t)
  OBVIOUS
<1>2. /\ \A i \in 1 .. m : s[i] \in Int
      /\ \A j \in 1 .. n : t[j] \in Int
  BY <1>1
<1> DEFINE Same(k) == (k <= m <=> k <= n) /\ (k <= m => s[k] = t[k])
           T == {k \in Nat : k # 0 /\ ~Same(k)}
<1>3. T = {}
  <2> SUFFICES ASSUME T # {} PROVE FALSE
    OBVIOUS
  <2>1. PICK k \in T : \A j \in T : k <= j
    <3>1. T \subseteq Nat
      OBVIOUS
    <3> HIDE DEF T
    <3> QED
      BY <3>1, LeastNumber
  <2>2. k \in Nat \ {0} /\ ~Same(k)
    OBVIOUS
  <2>3. \A j \in Nat \ {0} : j < k => Same(j)
    BY <2>1, <2>2
  <2>4. ASSUME k <= m PROVE k <= n /\ t[k] <= s[k]
    <3>1. k \in 1 .. m
      BY <2>2, <2>4
    <3>2. PICK j \in 1 .. n : s[k] = t[j]
      BY <1>1, <3>1
    <3>3. ~(j < k)
      <4> SUFFICES ASSUME j < k PROVE FALSE
        OBVIOUS
      <4>1. s[j] = t[j] /\ j \in 1 .. m
        BY <2>2, <2>3, <2>4
      <4>2. s[j] < s[k]
        BY <1>1, <3>1, <4>1
      <4> QED
        BY <1>2, <3>1, <3>2, <4>1, <4>2
    <3>4. k <= n /\ k \in 1 .. n /\ (k = j \/ k < j)
      BY <2>2, <3>3
    <3>5. t[k] = t[j] \/ t[k] < t[j]
      BY <1>1, <3>4
    <3>6. t[k] \in Int /\ t[j] \in Int
      BY <1>2, <3>4
    <3> QED
      BY <3>2, <3>4, <3>5, <3>6
  <2>5. ASSUME k <= n PROVE k <= m /\ s[k] <= t[k]
    <3>1. k \in 1 .. n
      BY <2>2, <2>5
    <3>2. PICK i \in 1 .. m : s[i] = t[k]
      BY <1>1, <3>1
    <3>3. ~(i < k)
      <4> SUFFICES ASSUME i < k PROVE FALSE
        OBVIOUS
      <4>1. s[i] = t[i] /\ i \in 1 .. n
        BY <2>2, <2>3, <2>5
      <4>2. t[i] < t[k]
        BY <1>1, <3>1, <4>1
      <4> QED
        BY <1>2, <3>1, <3>2, <4>1, <4>2
    <3>4. k <= m /\ k \in 1 .. m /\ (k = i \/ k < i)
      BY <2>2, <3>3
    <3>5. s[k] = s[i] \/ s[k] < s[i]
      BY <1>1, <3>4
    <3> QED
      BY <1>2, <3>1, <3>2, <3>4, <3>5
  <2>6. ASSUME k <= m PROVE s[k] = t[k]
    <3>1. k \in 1 .. m /\ k \in 1 .. n
      BY <2>2, <2>4, <2>6
    <3>2. t[k] <= s[k] /\ s[k] <= t[k]
      BY <2>4, <2>5, <2>6
    <3> QED
      BY <1>2, <3>1, <3>2
  <2> QED
    BY <2>2, <2>4, <2>5, <2>6
<1>4. \A k \in Nat \ {0} : Same(k)
  BY <1>3
<1>5. m = n
  <2>1. m + 1 \in Nat \ {0} /\ n + 1 \in Nat \ {0}
    OBVIOUS
  <2>2. CASE m = 0
    <3>1. Same(n + 1) /\ (n # 0 => Same(n))
      BY <1>4, <2>1
    <3> QED
      BY <2>2, <3>1
  <2>3. CASE m # 0
    <3>1. Same(m) /\ Same(m + 1)
      BY <1>4, <2>1, <2>3
    <3> QED
      BY <3>1
  <2> QED
    BY <2>2, <2>3
<1>6. \A i \in 1 .. m : s[i] = t[i]
  BY <1>4
<1> QED
  BY <1>1, <1>5, <1>6, SeqEqual

\* The page begins at the candidate after the first c ones.
BeginsAfter(c, current) ==
  /\ c \in 0 .. Len(Order) /\ current.candidateIndex = c
  /\ \/ c = 0 /\ current.resultId = 0
     \/ c < Len(Order) /\ current.resultId = Order[c + 1] - Candidates.position

LEMMA ResumableCandidates ==
  ASSUME Resumable
  PROVE  Candidates.kind = "List" \/ (Candidates.position = 0 /\ QueryRange.start = 0)
BY DEF Resumable, Candidates, QuerySlices, QueryRange

\* A page goes through the candidates from its beginning on.
LEMMA IteratorContinues ==
  ASSUME IsIndices(indices), IsQuery(query), Resumable, NEW current \in PageData,
         NEW c \in Nat, BeginsAfter(c, current)
  PROVE  LET seq == MatchIterator(Candidates, QueryRange, current)
         IN /\ seq \in Seq(Candidates.ids) /\ Len(seq) = Len(Order) - c
            /\ \A j \in 1 .. Len(Order) - c : seq[j] = Order[c + j]
<1> DEFINE ids == Candidates.ids
           seq == MatchIterator(Candidates, QueryRange, current)
           rest == {y \in ids : y - QueryRange.start >= current.resultId}
           later == SubSeq(Order, c + 1, Len(Order))
<1>1. PICK n \in Nat : n = Len(Order) /\ c <= n /\ current.candidateIndex = c
  <2>1. Len(Order) \in Nat
    BY OrderListsCandidates
  <2> QED
    BY <2>1 DEF BeginsAfter
<1>2. /\ Order \in Seq(ids) /\ Order \in Seq(Int)
      /\ \A x \in ids : \E i \in 1 .. n : Order[i] = x
      /\ \A i, j \in 1 .. n : i < j => Order[i] < Order[j]
      /\ \A i \in 1 .. n : Order[i] \in ids /\ Order[i] \in Int
  BY <1>1, OrderListsCandidates
<1>3. seq \in Seq(ids)
  BY IteratorListsCandidates
<1>4. IsFiniteSet(ids) /\ ids \subseteq Int
  BY CandidatesAreFinite DEF IndexData
<1>5. /\ later \in Seq(ids) /\ Len(later) = n - c
      /\ \A j \in 1 .. n - c : later[j] = Order[c + j]
  <2>1. c + 1 \in Int /\ n \in Int /\ \A i \in c + 1 .. n : Order[i] \in ids
    BY <1>1, <1>2
  <2>2. /\ later \in Seq(ids)
        /\ Len(later) = IF c + 1 <= n THEN n - (c + 1) + 1 ELSE 0
        /\ \A j \in 1 .. n - (c + 1) + 1 : later[j] = Order[c + 1 + j - 1]
    <3> HIDE DEF ids
    <3> QED
      BY <1>1, <2>1, SubSeqProperties
  <2>3. n - (c + 1) + 1 = n - c /\ \A j \in 1 .. n - c : c + 1 + j - 1 = c + j
    BY <1>1
  <2> HIDE DEF later
  <2> QED
    BY <1>1, <2>2, <2>3
<1> HIDE DEF later
<1>6. seq = later
  <2>1. CASE Candidates.kind = "List"
    BY <1>1, <2>1 DEF MatchIterator, Order, Ascending, later
  <2>2. CASE Candidates.kind # "List"
    <3>1. Candidates.position = 0 /\ QueryRange.start = 0
      BY <2>2, ResumableCandidates
    <3>2. seq = Ranked(rest, <)
      BY <2>2 DEF MatchIterator
    <3>3. rest = {y \in ids : y >= current.resultId}
      BY <1>4, <3>1
    <3>4. rest \subseteq Int /\ IsFiniteSet(rest)
      BY <1>4, FS_Subset
    <3> HIDE DEF rest, seq
    <3>5. /\ seq \in Seq(rest)
          /\ \A x \in rest : \E i \in 1 .. Len(seq) : seq[i] = x
          /\ \A i, j \in 1 .. Len(seq) : i < j => seq[i] < seq[j]
      BY <3>2, <3>4, RankedNumbers
    <3>6. seq \in Seq(Int) /\ later \in Seq(Int)
      BY <1>4, <1>5, <3>4, <3>5, SeqMonotonic
    <3>7. \A i, j \in 1 .. Len(later) : i < j => later[i] < later[j]
      <4> SUFFICES ASSUME NEW i \in 1 .. n - c, NEW j \in 1 .. n - c, i < j
                   PROVE  later[i] < later[j]
        BY <1>5
      <4>1. c + i \in 1 .. n /\ c + j \in 1 .. n /\ c + i < c + j
        BY <1>1
      <4> QED
        BY <1>2, <1>5, <4>1
    <3>8. \A i \in 1 .. n : Order[i] \in rest <=> i > c
      <4> SUFFICES ASSUME NEW i \in 1 .. n PROVE Order[i] \in rest <=> i > c
        OBVIOUS
      <4>1. Order[i] \in ids /\ Order[i] \in Int
        BY <1>2
      <4>2. CASE c = 0 /\ current.resultId = 0
        <5>1. Order[i] >= 0
          <6>1. Candidates.ids \subseteq Ids(QueryRange)
            <7>1. PICK spans \in Seq(Spans) \ {<<>>} : spans = query.spans
              BY DEF IsQuery
            <7>2. /\ QuerySlices \in [1 .. Len(spans) -> IndexData]
                  /\ \A k \in 1 .. Len(spans) : QuerySlices[k].ids \subseteq Ids(QueryRange)
              BY <7>1, SlicesOfQuery
            <7>3. Candidates = QueryCandidates(spans, QuerySlices, QueryRange)
              BY <7>1 DEF Candidates
            <7>4. Candidates.ids \subseteq QuerySlices[1].ids
              BY <7>1, <7>2, <7>3, CandidatesAreOfFirstSpan
            <7>5. 1 \in 1 .. Len(spans)
              BY <7>1
            <7> QED
              BY <7>2, <7>4, <7>5
          <6>2. QueryRange \in Ranges
            BY RangeOfQuery
          <6> QED
            BY <3>1, <4>1, <6>1, <6>2 DEF Ids, Ranges
        <5> QED
          BY <3>3, <4>1, <4>2, <5>1
      <4>3. CASE c < n /\ current.resultId = Order[c + 1] - Candidates.position
        <5>1. c + 1 \in 1 .. n /\ Order[c + 1] \in Int
          BY <1>1, <1>2, <4>3
        <5>2. current.resultId = Order[c + 1]
          BY <3>1, <4>3, <5>1
        <5>3. Order[i] >= Order[c + 1] <=> i >= c + 1
          <6>1. i < c + 1 \/ i = c + 1 \/ c + 1 < i
            BY <1>1
          <6>2. i < c + 1 => Order[i] < Order[c + 1]
            BY <1>2, <5>1
          <6>3. c + 1 < i => Order[c + 1] < Order[i]
            BY <1>2, <5>1
          <6> QED
            BY <1>1, <4>1, <5>1, <6>1, <6>2, <6>3
        <5> QED
          BY <1>1, <3>3, <4>1, <5>2, <5>3
      <4> QED
        BY <1>1, <4>2, <4>3 DEF BeginsAfter
    <3>9. \A i \in 1 .. Len(seq) : \E j \in 1 .. Len(later) : seq[i] = later[j]
      <4> SUFFICES ASSUME NEW i \in 1 .. Len(seq) PROVE \E j \in 1 .. n - c : seq[i] = later[j]
        BY <1>5
      <4>1. seq[i] \in rest /\ seq[i] \in ids
        BY <3>3, <3>5
      <4>2. PICK k \in 1 .. n : Order[k] = seq[i]
        BY <1>2, <4>1
      <4>3. k > c
        BY <3>8, <4>1, <4>2
      <4>4. k - c \in 1 .. n - c /\ c + (k - c) = k
        BY <1>1, <4>3
      <4>5. later[k - c] = Order[k]
        BY <1>5, <4>4
      <4> QED
        BY <4>2, <4>4, <4>5
    <3>10. \A j \in 1 .. Len(later) : \E i \in 1 .. Len(seq) : seq[i] = later[j]
      <4> SUFFICES ASSUME NEW j \in 1 .. n - c PROVE \E i \in 1 .. Len(seq) : seq[i] = later[j]
        BY <1>5
      <4>1. c + j \in 1 .. n /\ c + j > c
        BY <1>1
      <4>2. later[j] \in rest
        BY <1>5, <3>8, <4>1
      <4> QED
        BY <3>5, <4>2
    <3> QED
      BY <3>5, <3>6, <3>7, <3>9, <3>10, AscendingIsUnique
  <2> QED
    BY <2>1, <2>2
<1> HIDE DEF seq
<1>7. /\ seq \in Seq(ids) /\ Len(seq) = Len(Order) - c
      /\ \A j \in 1 .. Len(Order) - c : seq[j] = Order[c + j]
  BY <1>1, <1>3, <1>5, <1>6
<1> QED
  BY <1>7 DEF seq

\* The whole list: the answer after every candidate, asked for as one page.
Whole == CHOOSE h : h \in PageRuns(Answers(FirstPage, NumTokens), FirstPage, NumTokens)

\* The last match is that of an earlier candidate.
EndsBefore(i, matches) ==
  matches = <<>> \/
    /\ Last(matches) \in Seq(Leader) \ {<<>>}
    /\ \E j \in 1 .. i : Last(matches)[1].start = Order[j] - Candidates.position

LEMMA EarlierMakesNoDifference ==
  ASSUME IsIndices(indices), IsQuery(query), Directed, NEW i \in Nat, i < Len(Order),
         NEW matches, EndsBefore(i, matches)
  PROVE  FoundAt(Order[i + 1], matches) = Alone(Order[i + 1])
<1> DEFINE id == Order[i + 1]
           last == Previous(matches)
<1>1. PICK n \in Nat : n = Len(Order)
  BY OrderListsCandidates
<1>2. i + 1 \in 1 .. n /\ id \in Candidates.ids /\ id \in Int /\ Candidates.position \in Int
  BY <1>1, OrderListsCandidates, CandidatesAreFinite DEF IndexData
<1>3. \/ last = <<>>
      \/ last \in Seq(Leader) \ {<<>>} /\ last[1].start # id - Candidates.position
  <2>1. CASE matches = <<>>
    BY <2>1 DEF Previous
  <2>2. CASE matches # <<>>
    <3>1. last = Last(matches)
      BY <2>2 DEF Previous
    <3>2. PICK j \in 1 .. i : last[1].start = Order[j] - Candidates.position
      BY <2>2, <3>1 DEF EndsBefore
    <3>3. j \in 1 .. n /\ j < i + 1
      BY <1>1, <1>2
    <3>4. Order[j] < id /\ Order[j] \in Int
      BY <1>1, <1>2, <3>3, OrderListsCandidates
    <3>5. last[1].start # id - Candidates.position
      BY <1>2, <3>2, <3>4
    <3> QED
      BY <2>2, <3>1, <3>5 DEF EndsBefore
  <2> QED
    BY <2>1, <2>2
<1>4. FoundAt(id, matches) = LeadersForCandidate(id - Candidates.position, last, query.spans,
                                                 QuerySlices, QueryRange)
  BY DEF FoundAt
<1> HIDE DEF id, last
<1>5. FoundAt(id, matches) = Alone(id)
  BY <1>2, <1>3, <1>4, PreviousMakesNoDifference
<1> QED
  BY <1>5 DEF id

LEMMA EndsBeforeGrows ==
  ASSUME IsIndices(indices), IsQuery(query), Directed, NEW i \in Nat, i < Len(Order),
         NEW matches \in Seq(Matches), EndsBefore(i, matches)
  PROVE  EndsBefore(i + 1, matches \o Alone(Order[i + 1]))
<1> DEFINE id == Order[i + 1]
           more == matches \o Alone(id)
<1>1. PICK n \in Nat : n = Len(Order)
  BY OrderListsCandidates
<1>2. i + 1 \in 1 .. n /\ i + 1 \in 1 .. i + 1 /\ id \in Candidates.ids /\ 1 .. i \subseteq 1 .. i + 1
  BY <1>1, OrderListsCandidates
<1> HIDE DEF id
<1>3. CASE Alone(id) = <<>>
  <2>1. more = matches
    BY <1>3, ConcatEmptySeq
  <2> HIDE DEF more
  <2>2. EndsBefore(i + 1, more)
    BY <1>2, <2>1 DEF EndsBefore
  <2> QED
    BY <2>2 DEF more, id
<1>4. CASE Alone(id) # <<>>
  <2>1. PICK l \in Matches : /\ Alone(id) = <<l>> /\ l \in Seq(Leader) \ {<<>>}
                             /\ l[1].start = id - Candidates.position
    BY <1>2, <1>4, AloneStartsAtToken
  <2>2. PICK old \in Seq(Matches), new \in Seq(Matches) : old = matches /\ new = Alone(id)
    <3>1. <<l>> \in Seq(Matches)
      OBVIOUS
    <3> QED
      BY <2>1, <3>1
  <2>3. Len(new) = 1 /\ new[1] = l
    BY <2>1, <2>2
  <2>4. PICK m \in Nat : m = Len(old)
    BY <2>2
  <2>5. /\ Len(old \o new) = m + 1
        /\ (old \o new)[m + 1] = new[m + 1 - m]
    <3>1. /\ Len(old \o new) = Len(old) + Len(new)
          /\ \A k \in 1 .. Len(old) + Len(new) :
               (old \o new)[k] = IF k <= Len(old) THEN old[k] ELSE new[k - Len(old)]
      BY ConcatProperties
    <3>2. m + 1 \in 1 .. Len(old) + Len(new) /\ ~(m + 1 <= Len(old))
      BY <2>3, <2>4
    <3> QED
      BY <2>3, <2>4, <3>1, <3>2
  <2>6. m + 1 - m = 1
    BY <2>4
  <2>7. Last(more) = l
    BY <2>2, <2>3, <2>5, <2>6 DEF Last
  <2> HIDE DEF more
  <2>8. EndsBefore(i + 1, more)
    BY <1>2, <2>1, <2>7 DEF EndsBefore, id
  <2> QED
    BY <2>8 DEF more, id
<1> QED
  BY <1>3, <1>4

\* What has failed stays failed.
LEMMA WholeAnswerDoesNotFail ==
  ASSUME IsIndices(indices), IsQuery(query), Resumable, ~WholeAnswer.failed
  PROVE  /\ Whole \in [0 .. Len(Order) -> Answers(FirstPage, NumTokens)]
         /\ Whole[0] = EmptyPage
         /\ \A k \in 1 .. Len(Order) :
              Whole[k] = Visit(Whole[k - 1], Order[k], FirstPage, NumTokens)
         /\ WholeAnswer.matches = Whole[Len(Order)].matches
         /\ \A k \in 0 .. Len(Order) : ~Whole[k].failed
         /\ ~CandidatesPanic(query.spans, QuerySlices, QueryRange)
<1> DEFINE A == Answers(FirstPage, NumTokens)
           seq == MatchIterator(Candidates, QueryRange, FirstPage)
<1>1. FirstPage \in PageData /\ NumTokens \in Nat \ {0}
  BY CorpusShape DEF FirstPage, PageData
<1>2. PICK n \in Nat : n = Len(Order)
  BY OrderListsCandidates
<1>3. BeginsAfter(0, FirstPage)
  BY <1>2 DEF BeginsAfter, FirstPage
<1>4. seq \in Seq(Candidates.ids) /\ Len(seq) = n /\ \A j \in 1 .. n : seq[j] = Order[j]
  <2>1. /\ seq \in Seq(Candidates.ids) /\ Len(seq) = Len(Order) - 0
        /\ \A j \in 1 .. Len(Order) - 0 : seq[j] = Order[0 + j]
    BY <1>1, <1>3, IteratorContinues
  <2>2. Len(Order) - 0 = n /\ \A j \in 1 .. n : 0 + j = j
    BY <1>2
  <2> QED
    BY <2>1, <2>2
<1>5. Whole \in PageRuns(A, FirstPage, NumTokens)
  <2>1. EmptyPage \in A
    <3>1. <<>> \in Seq(Matches) /\ Len(<<>>) = 0
      OBVIOUS
    <3> QED
      BY <1>1, <3>1 DEF Answers, EmptyPage
  <2>2. \A acc \in A : \A id \in Candidates.ids : Visit(acc, id, FirstPage, NumTokens) \in A
    BY <1>1, VisitKeepsAnswer
  <2> HIDE DEF A
  <2>3. PageRuns(A, FirstPage, NumTokens) # {}
    BY <1>1, <2>1, <2>2, PageByCandidates
  <2> QED
    BY <2>3 DEF Whole, A
<1> HIDE DEF A
<1>6. /\ Whole \in [0 .. n -> A] /\ Whole[0] = EmptyPage
      /\ \A k \in 1 .. n : Whole[k] = Visit(Whole[k - 1], Order[k], FirstPage, NumTokens)
      /\ Whole[n] = MatchPage(Candidates, query.spans, QuerySlices, QueryRange, FirstPage, NumTokens)
  <2> HIDE DEF seq
  <2>1. /\ Whole \in [0 .. Len(seq) -> A] /\ Whole[0] = EmptyPage
        /\ \A k \in 1 .. Len(seq) : Whole[k] = Visit(Whole[k - 1], seq[k], FirstPage, NumTokens)
        /\ Whole[Len(seq)] = MatchPage(Candidates, query.spans, QuerySlices, QueryRange,
                                       FirstPage, NumTokens)
    BY <1>5 DEF PageRuns, seq
  <2> QED
    BY <1>4, <2>1
<1>7. /\ ~CandidatesPanic(query.spans, QuerySlices, QueryRange)
      /\ ~Whole[n].failed /\ WholeAnswer.matches = Whole[n].matches
  <2> DEFINE page1 == MatchPage(Candidates, query.spans, QuerySlices, QueryRange, FirstPage, NumTokens)
             e == EstimatedResults(Cardinality(Candidates.ids), page1, FirstPage)
             panic == CandidatesPanic(query.spans, QuerySlices, QueryRange)
  <2>1. WholeAnswer =
          IF panic THEN [failed |-> TRUE]
          ELSE [failed |-> page1.failed, matches |-> page1.matches, next |-> page1.next,
                estimate |-> e]
    BY DEF WholeAnswer, Answer, Candidates, QuerySlices, QueryRange
  <2> HIDE DEF page1, e, panic
  <2>2. ~panic
    BY <2>1
  <2>3. ~page1.failed /\ WholeAnswer.matches = page1.matches
    BY <2>1, <2>2
  <2>4. Whole[n] = page1
    BY <1>6 DEF page1
  <2> QED
    BY <2>2, <2>3, <2>4 DEF panic
<1>8. ASSUME NEW k \in 0 .. n PROVE ~Whole[k].failed
  <2> SUFFICES ASSUME Whole[k].failed PROVE FALSE
    OBVIOUS
  <2> DEFINE T == {d \in Nat : k + d <= n => Whole[k + d].failed}
  <2>1. 0 \in T
    <3>1. k + 0 = k
      OBVIOUS
    <3> QED
      BY <3>1
  <2>2. ASSUME NEW d \in Nat, d \in T PROVE d + 1 \in T
    <3> SUFFICES ASSUME k + (d + 1) <= n PROVE Whole[k + (d + 1)].failed
      OBVIOUS
    <3>1. k + (d + 1) \in 1 .. n /\ (k + (d + 1)) - 1 = k + d /\ k + d <= n
      BY <1>2
    <3>2. Whole[k + d].failed
      BY <2>2, <3>1
    <3>3. Whole[k + (d + 1)] = Visit(Whole[k + d], Order[k + (d + 1)], FirstPage, NumTokens)
      BY <1>6, <3>1
    <3>4. Whole[k + (d + 1)] = Whole[k + d]
      BY <3>2, <3>3 DEF Visit
    <3> QED
      BY <3>2, <3>4
  <2> HIDE DEF T
  <2>3. \A d \in Nat : d \in T
    BY <2>1, <2>2, SetInduction
  <2>4. n - k \in Nat /\ k + (n - k) = n /\ k + (n - k) <= n
    BY <1>2
  <2>5. n - k \in T
    BY <2>3, <2>4
  <2>6. Whole[n].failed
    BY <2>4, <2>5 DEF T
  <2> QED
    BY <1>7, <2>6
<1> QED
  BY <1>2, <1>6, <1>7, <1>8 DEF A

\* Every candidate adds to the whole list what it leads to alone.
LEMMA WholeListGrows ==
  ASSUME IsIndices(indices), IsQuery(query), Resumable, Directed, ~WholeAnswer.failed,
         NEW k \in 0 .. Len(Order)
  PROVE  /\ Whole[k].matches \in Seq(Matches)
         /\ EndsBefore(k, Whole[k].matches)
         /\ k < Len(Order) =>
              /\ Order[k + 1] - Candidates.position >= 0
              /\ ~PathFails(Order[k + 1] - Candidates.position, query.spans, QuerySlices, QueryRange)
              /\ Whole[k + 1].matches = Whole[k].matches \o Alone(Order[k + 1])
<1>1. PICK n \in Nat : n = Len(Order) /\ n <= NumTokens /\ NumTokens \in Nat
  BY OrderListsCandidates, CorpusShape
<1> DEFINE A == Answers(FirstPage, NumTokens)
<1>2. /\ Whole \in [0 .. n -> A] /\ Whole[0] = EmptyPage
      /\ \A i \in 1 .. n : Whole[i] = Visit(Whole[i - 1], Order[i], FirstPage, NumTokens)
      /\ \A i \in 0 .. n : ~Whole[i].failed
  BY <1>1, WholeAnswerDoesNotFail
<1>3. \A i \in 0 .. n : Whole[i].matches \in Seq(Matches)
  BY <1>2 DEF Answers
<1>4. \A i \in 0 .. n : Whole[i] \in [matches : Seq(Matches), skipped : Nat,
                                     next : PageData \cup {NoPage}, failed : BOOLEAN]
  BY <1>2 DEF Answers
<1> HIDE DEF A
<1> DEFINE Fine(i) == /\ Whole[i].next = NoPage
                      /\ Len(Whole[i].matches) <= i
                      /\ EndsBefore(i, Whole[i].matches)
           Step(i) == /\ Order[i + 1] - Candidates.position >= 0
                      /\ ~PathFails(Order[i + 1] - Candidates.position, query.spans,
                                    QuerySlices, QueryRange)
                      /\ Whole[i + 1].matches = Whole[i].matches \o Alone(Order[i + 1])
                      /\ Whole[i + 1].next = NoPage
<1>5. ASSUME NEW i \in 0 .. n - 1, Fine(i) PROVE Step(i) /\ Fine(i + 1)
  <2> DEFINE id == Order[i + 1]
             token == id - Candidates.position
             acc == Whole[i]
             found == Alone(id)
  <2>1. /\ i \in Nat /\ i < n /\ i \in 0 .. n /\ i + 1 \in 0 .. n /\ i + 1 \in 1 .. n
        /\ (i + 1) - 1 = i
    BY <1>1
  <2>2. /\ id \in Candidates.ids /\ token \in Int
    BY <1>1, <2>1, OrderListsCandidates, CandidatesAreFinite DEF IndexData
  <2>3. Whole[i + 1] = Visit(acc, id, FirstPage, NumTokens)
    BY <1>2, <2>1
  <2>4. /\ acc \in [matches : Seq(Matches), skipped : Nat, next : PageData \cup {NoPage},
                    failed : BOOLEAN]
        /\ acc.matches \in Seq(Matches) /\ ~acc.failed /\ ~Whole[i + 1].failed
    BY <1>2, <1>3, <1>4, <2>1
  <2>5. acc.next = NoPage /\ Len(acc.matches) <= i /\ EndsBefore(i, acc.matches)
    BY <1>5
  <2>6. FoundAt(id, acc.matches) = found
    BY <1>1, <2>1, <2>5, EarlierMakesNoDifference
  <2>7. found = <<>> \/ \E l \in Matches : found = <<l>>
    BY <2>2, AloneStartsAtToken
  <2>8. EndsBefore(i + 1, acc.matches \o found)
    BY <1>1, <2>1, <2>4, <2>5, EndsBeforeGrows
  <2>9. Len(acc.matches) < NumTokens
    BY <1>1, <2>1, <2>4, <2>5
  <2> HIDE DEF found, acc
  <2>10. ~(token < 0 \/ PathFails(token, query.spans, QuerySlices, QueryRange))
    <3> SUFFICES ASSUME token < 0 \/ PathFails(token, query.spans, QuerySlices, QueryRange)
                 PROVE  FALSE
      OBVIOUS
    <3>1. Whole[i + 1] = [acc EXCEPT !.failed = TRUE]
      BY <2>3, <2>4, <2>5 DEF Visit
    <3> QED
      BY <2>4, <3>1
  <2>11. /\ Whole[i + 1].matches = acc.matches \o found
         /\ Whole[i + 1].next = NoPage
    <3>1. CASE found = <<>>
      <4>1. Whole[i + 1] = [acc EXCEPT !.skipped = @ + 1]
        BY <2>3, <2>4, <2>5, <2>6, <2>10, <3>1 DEF Visit
      <4>2. acc.matches \o found = acc.matches
        BY <2>4, <3>1, ConcatEmptySeq
      <4> QED
        BY <2>4, <2>5, <4>1, <4>2
    <3>2. CASE found # <<>>
      <4>1. Whole[i + 1] = [acc EXCEPT !.matches = @ \o found]
        BY <2>3, <2>4, <2>5, <2>6, <2>9, <2>10, <3>2 DEF Visit
      <4> QED
        BY <2>4, <2>5, <4>1
    <3> QED
      BY <3>1, <3>2
  <2>12. Len(acc.matches \o found) <= i + 1
    <3>1. found \in Seq(Matches) /\ Len(found) <= 1
      <4>1. <<>> \in Seq(Matches) /\ Len(<<>>) <= 1
        OBVIOUS
      <4>2. ASSUME NEW l \in Matches, found = <<l>>
            PROVE  found \in Seq(Matches) /\ Len(found) <= 1
        <5>1. <<l>> \in Seq(Matches) /\ Len(<<l>>) = 1
          OBVIOUS
        <5> QED
          BY <4>2, <5>1
      <4> QED
        BY <2>7, <4>1, <4>2
    <3>2. PICK old \in Seq(Matches), new \in Seq(Matches) : old = acc.matches /\ new = found
      BY <2>4, <3>1
    <3>3. Len(old \o new) = Len(old) + Len(new)
      BY ConcatProperties
    <3> QED
      BY <2>1, <2>5, <3>1, <3>2, <3>3
  <2>13. token >= 0
    BY <2>2, <2>10
  <2> QED
    BY <2>8, <2>10, <2>11, <2>12, <2>13 DEF found, acc
<1>6. \A i \in 0 .. n : Fine(i)
  <2> DEFINE T == {i \in Nat : i <= n => Fine(i)}
  <2>1. 0 \in T
    <3>1. Fine(0)
      BY <1>2 DEF EmptyPage, EndsBefore
    <3> QED
      BY <3>1
  <2>2. ASSUME NEW i \in Nat, i \in T PROVE i + 1 \in T
    <3> SUFFICES ASSUME i + 1 <= n PROVE Fine(i + 1)
      OBVIOUS
    <3>1. i \in 0 .. n - 1 /\ i <= n
      BY <1>1
    <3>2. Fine(i)
      BY <2>2, <3>1
    <3> QED
      BY <1>5, <3>1, <3>2
  <2> HIDE DEF T, Fine
  <2>3. \A i \in Nat : i \in T
    BY <2>1, <2>2, SetInduction
  <2> QED
    BY <2>3 DEF T
<1>7. k < n => Step(k)
  <2>1. k < n => k \in 0 .. n - 1
    BY <1>1
  <2> HIDE DEF Fine, Step
  <2> QED
    BY <1>1, <1>5, <1>6, <2>1
<1> QED
  BY <1>1, <1>3, <1>6, <1>7

\* A page shows what the whole list shows from the candidate it begins at, up
\* to where the next page begins.
LEMMA PageContinues ==
  ASSUME IsIndices(indices), IsQuery(query), Resumable, Directed, ~WholeAnswer.failed,
         NEW current \in PageData, NEW size \in Nat \ {0}, NEW c \in Nat,
         BeginsAfter(c, current)
  PROVE  LET a == MatchPage(Candidates, query.spans, QuerySlices, QueryRange, current, size)
         IN /\ ~a.failed
            /\ a.next = NoPage => Whole[Len(Order)].matches = Whole[c].matches \o a.matches
            /\ a.next # NoPage =>
                 /\ BeginsAfter(a.next.candidateIndex, a.next)
                 /\ Whole[a.next.candidateIndex].matches = Whole[c].matches \o a.matches
<1> DEFINE A == Answers(current, size)
           a == MatchPage(Candidates, query.spans, QuerySlices, QueryRange, current, size)
           seq == MatchIterator(Candidates, QueryRange, current)
<1>1. PICK n \in Nat : n = Len(Order) /\ c <= n /\ current.candidateIndex = c
  <2>1. Len(Order) \in Nat
    BY OrderListsCandidates
  <2> QED
    BY <2>1 DEF BeginsAfter
<1>2. PICK r \in Nat : r = n - c
  <2>1. c \in Nat /\ n \in Nat /\ c <= n
    BY <1>1
  <2>2. n - c \in Nat
    BY <2>1
  <2> QED
    BY <2>2
<1>3. seq \in Seq(Candidates.ids) /\ Len(seq) = r /\ \A j \in 1 .. r : seq[j] = Order[c + j]
  BY <1>1, <1>2, IteratorContinues
<1>4. PICK h : /\ h \in [0 .. r -> A] /\ h[0] = EmptyPage /\ h[r] = a
               /\ \A k \in 1 .. r : h[k] = Visit(h[k - 1], Order[c + k], current, size)
  <2>1. EmptyPage \in A
    <3>1. <<>> \in Seq(Matches) /\ Len(<<>>) = 0
      OBVIOUS
    <3> QED
      BY <3>1 DEF Answers, EmptyPage
  <2>2. \A acc \in A : \A id \in Candidates.ids : Visit(acc, id, current, size) \in A
    BY VisitKeepsAnswer
  <2> HIDE DEF A
  <2>3. PICK h \in PageRuns(A, current, size) : TRUE
    <3>1. PageRuns(A, current, size) # {}
      BY <2>1, <2>2, PageByCandidates
    <3> QED
      BY <3>1
  <2> HIDE DEF seq, a
  <2>4. /\ h \in [0 .. Len(seq) -> A] /\ h[0] = EmptyPage /\ h[Len(seq)] = a
        /\ \A k \in 1 .. Len(seq) : h[k] = Visit(h[k - 1], seq[k], current, size)
    BY <2>3 DEF PageRuns, seq, a
  <2> QED
    BY <1>3, <2>4
<1> HIDE DEF seq, a
<1>5. \A k \in 0 .. r : /\ h[k] \in [matches : Seq(Matches), skipped : Nat,
                                    next : PageData \cup {NoPage}, failed : BOOLEAN]
                        /\ h[k].matches \in Seq(Matches) /\ h[k].skipped \in Nat
                        /\ Len(h[k].matches) <= size
  BY <1>4 DEF Answers
<1> HIDE DEF A
<1>6. \A k \in 0 .. n :
        /\ Whole[k].matches \in Seq(Matches)
        /\ EndsBefore(k, Whole[k].matches)
        /\ k < n =>
             /\ Order[k + 1] - Candidates.position >= 0
             /\ ~PathFails(Order[k + 1] - Candidates.position, query.spans, QuerySlices, QueryRange)
             /\ Whole[k + 1].matches = Whole[k].matches \o Alone(Order[k + 1])
  BY <1>1, WholeListGrows
<1> DEFINE Continues(k) == /\ h[k].next = NoPage
                           /\ Whole[c + k].matches = Whole[c].matches \o h[k].matches
                           /\ Len(h[k].matches) + h[k].skipped = k
           Ended(k) == /\ h[k].next # NoPage
                       /\ BeginsAfter(h[k].next.candidateIndex, h[k].next)
                       /\ Whole[h[k].next.candidateIndex].matches = Whole[c].matches \o h[k].matches
           Fine(k) == ~h[k].failed /\ (Continues(k) \/ Ended(k))
<1>7. c \in 0 .. n
  <2>1. c \in Int /\ 0 <= c /\ c <= n
    BY <1>1
  <2> QED
    BY <2>1
<1>8. Fine(0)
  <2>1. Whole[c].matches \in Seq(Matches) /\ c + 0 = c
    <3>1. Whole[c].matches \in Seq(Matches)
      BY <1>6, <1>7
    <3> QED
      BY <3>1
  <2>2. h[0].matches = <<>> /\ h[0].skipped = 0 /\ h[0].next = NoPage /\ ~h[0].failed
    BY <1>4 DEF EmptyPage
  <2>3. Whole[c].matches \o <<>> = Whole[c].matches
    BY <2>1, ConcatEmptySeq
  <2>4. Len(<<>>) + 0 = 0
    OBVIOUS
  <2> QED
    BY <2>1, <2>2, <2>3, <2>4
<1>9. ASSUME NEW k \in 0 .. r - 1, Fine(k) PROVE Fine(k + 1)
  <2> DEFINE id == Order[c + k + 1]
             token == id - Candidates.position
             acc == h[k]
             found == Alone(id)
  <2>1. /\ k \in Nat /\ k \in 0 .. r /\ k + 1 \in 1 .. r /\ k + 1 \in 0 .. r /\ (k + 1) - 1 = k
        /\ c + k \in Nat /\ c + k \in 0 .. n /\ c + k < n /\ c + k + 1 \in 1 .. n
        /\ c + (k + 1) = c + k + 1
    BY <1>1, <1>2
  <2>2. h[k + 1] = Visit(acc, id, current, size)
    BY <1>4, <2>1
  <2>3. CASE Ended(k)
    <3>1. h[k + 1] = h[k]
      BY <2>2, <2>3 DEF Visit
    <3> QED
      BY <1>9, <2>3, <3>1
  <2>4. CASE Continues(k)
    <3>1. /\ id \in Candidates.ids /\ token \in Int
      BY <1>1, <2>1, OrderListsCandidates, CandidatesAreFinite DEF IndexData
    <3>2. /\ acc \in [matches : Seq(Matches), skipped : Nat, next : PageData \cup {NoPage},
                      failed : BOOLEAN]
          /\ acc.matches \in Seq(Matches) /\ acc.skipped \in Nat /\ Len(acc.matches) <= size
          /\ ~acc.failed /\ acc.next = NoPage
      BY <1>5, <1>9, <2>1, <2>4
    <3>3. /\ Whole[c].matches \in Seq(Matches)
          /\ Whole[c + k].matches = Whole[c].matches \o acc.matches
          /\ EndsBefore(c + k, Whole[c + k].matches)
          /\ token >= 0
          /\ ~PathFails(token, query.spans, QuerySlices, QueryRange)
          /\ Whole[c + k + 1].matches = Whole[c + k].matches \o found
      BY <1>6, <1>7, <2>1, <2>4
    <3>4. EndsBefore(c + k, acc.matches)
      <4>1. CASE acc.matches = <<>>
        BY <4>1 DEF EndsBefore
      <4>2. CASE acc.matches # <<>>
        <5>1. PICK s \in Seq(Matches), t \in Seq(Matches) : s = Whole[c].matches /\ t = acc.matches
          BY <3>2, <3>3
        <5>2. PICK x \in Nat, y \in Nat \ {0} : x = Len(s) /\ y = Len(t)
          BY <4>2, <5>1
        <5>3. /\ s \o t \in Seq(Matches) /\ Len(s \o t) = x + y
              /\ (s \o t)[x + y] = t[y]
          <6>1. /\ s \o t \in Seq(Matches) /\ Len(s \o t) = Len(s) + Len(t)
                /\ \A i \in 1 .. Len(s) + Len(t) :
                     (s \o t)[i] = IF i <= Len(s) THEN s[i] ELSE t[i - Len(s)]
            BY ConcatProperties
          <6>2. x + y \in 1 .. Len(s) + Len(t) /\ ~(x + y <= Len(s)) /\ (x + y) - Len(s) = y
            BY <5>2
          <6> QED
            BY <5>2, <6>1, <6>2
        <5>4. Last(s \o t) = Last(t)
          BY <5>2, <5>3 DEF Last
        <5>5. s \o t # <<>>
          <6>1. Len(s \o t) # 0
            BY <5>2, <5>3
          <6> QED
            BY <6>1
        <5>6. EndsBefore(c + k, s \o t)
          BY <3>3, <5>1
        <5> HIDE DEF acc
        <5> QED
          BY <5>1, <5>4, <5>5, <5>6 DEF EndsBefore
      <4> QED
        BY <4>1, <4>2
    <3>5. FoundAt(id, acc.matches) = found
      BY <1>1, <2>1, <3>4, EarlierMakesNoDifference
    <3>6. found = <<>> \/ \E l \in Matches : found = <<l>>
      BY <3>1, AloneStartsAtToken
    <3>7. Len(acc.matches) + acc.skipped = k
      BY <2>4
    <3> HIDE DEF found, acc, token
    <3>8. ~(acc.next # NoPage \/ acc.failed)
          /\ ~(token < 0 \/ PathFails(token, query.spans, QuerySlices, QueryRange))
      BY <3>1, <3>2, <3>3
    <3>9. CASE found = <<>>
      <4>1. h[k + 1] = [acc EXCEPT !.skipped = @ + 1]
        BY <2>2, <3>5, <3>8, <3>9 DEF Visit, token
      <4>2. /\ h[k + 1].matches = acc.matches /\ h[k + 1].skipped = acc.skipped + 1
            /\ h[k + 1].next = NoPage /\ ~h[k + 1].failed
        BY <3>2, <4>1
      <4>3. Whole[c + k + 1].matches = Whole[c].matches \o acc.matches
        <5>1. Whole[c + k].matches \in Seq(Matches)
          BY <1>6, <2>1
        <5>2. Whole[c + k].matches \o <<>> = Whole[c + k].matches
          BY <5>1, ConcatEmptySeq
        <5> QED
          BY <3>3, <3>9, <5>2
      <4>4. Len(acc.matches) + (acc.skipped + 1) = k + 1
        <5>1. PICK x \in Nat, y \in Nat : x = Len(acc.matches) /\ y = acc.skipped
          BY <3>2
        <5> QED
          BY <2>1, <3>7, <5>1
      <4>5. Continues(k + 1)
        BY <2>1, <4>2, <4>3, <4>4
      <4> QED
        BY <4>2, <4>5
    <3>10. CASE found # <<>> /\ Len(acc.matches) < size
      <4>1. h[k + 1] = [acc EXCEPT !.matches = @ \o found]
        BY <2>2, <3>5, <3>8, <3>10 DEF Visit, token
      <4>2. /\ h[k + 1].matches = acc.matches \o found /\ h[k + 1].skipped = acc.skipped
            /\ h[k + 1].next = NoPage /\ ~h[k + 1].failed
        BY <3>2, <4>1
      <4>3. found \in Seq(Matches) /\ Len(found) = 1
        <5>1. PICK l \in Matches : found = <<l>>
          BY <3>6, <3>10
        <5>2. <<l>> \in Seq(Matches) /\ Len(<<l>>) = 1
          OBVIOUS
        <5> QED
          BY <5>1, <5>2
      <4>4. PICK s \in Seq(Matches), t \in Seq(Matches), u \in Seq(Matches) :
              s = Whole[c].matches /\ t = acc.matches /\ u = found
        BY <3>2, <3>3, <4>3
      <4>5. (s \o t) \o u = s \o (t \o u)
        BY ConcatAssociative
      <4>6. Whole[c + k + 1].matches = Whole[c].matches \o (acc.matches \o found)
        BY <3>3, <4>4, <4>5
      <4>7. Len(acc.matches \o found) + acc.skipped = k + 1
        <5>1. Len(t \o u) = Len(t) + Len(u)
          BY ConcatProperties
        <5>2. PICK x \in Nat, y \in Nat : x = Len(acc.matches) /\ y = acc.skipped
          BY <3>2
        <5>3. Len(acc.matches \o found) = x + 1
          BY <4>3, <4>4, <5>1, <5>2
        <5>4. x + y = k
          BY <3>7, <5>2
        <5>5. x + 1 + y = k + 1
          BY <2>1, <5>4
        <5> QED
          BY <5>2, <5>3, <5>5
      <4>8. Continues(k + 1)
        BY <2>1, <4>2, <4>6, <4>7
      <4> QED
        BY <4>2, <4>8
    <3>11. CASE found # <<>> /\ ~(Len(acc.matches) < size)
      <4> DEFINE after == NextPage(current, size, acc.skipped, token)
      <4>1. h[k + 1] = [acc EXCEPT !.next = after]
        BY <2>2, <3>5, <3>8, <3>11 DEF Visit, token
      <4>2. /\ after.candidateIndex = current.candidateIndex + size + acc.skipped
            /\ after.resultId = token
        BY DEF NextPage
      <4> HIDE DEF after
      <4>3. /\ h[k + 1].matches = acc.matches /\ h[k + 1].next = after /\ ~h[k + 1].failed
        BY <3>2, <4>1
      <4>4. after.candidateIndex = c + k
        <5>1. PICK x \in Nat, y \in Nat : x = Len(acc.matches) /\ y = acc.skipped
          BY <3>2
        <5>2. x = size
          BY <3>2, <3>11, <5>1
        <5> QED
          BY <1>1, <2>1, <3>7, <4>2, <5>1, <5>2
      <4>5. BeginsAfter(c + k, after)
        BY <1>1, <2>1, <4>2, <4>4 DEF BeginsAfter, token
      <4>6. h[k + 1].next # NoPage
        <5>1. h[k + 1].next \in PageData
          <6>1. after \in PageData
            <7>1. current.resultIndex \in Nat /\ current.candidateIndex \in Nat
              BY DEF PageData
            <7>2. token \in Nat
              BY <3>1, <3>3 DEF token
            <7>3. /\ current.resultIndex + size \in Nat
                  /\ current.candidateIndex + size + acc.skipped \in Nat
              BY <3>2, <7>1
            <7> QED
              BY <7>2, <7>3 DEF after, NextPage, PageData
          <6> QED
            BY <4>3, <6>1
        <5> QED
          BY <5>1, ConstantsFit
      <4>7. Ended(k + 1)
        BY <3>3, <4>3, <4>4, <4>5, <4>6
      <4> QED
        BY <4>3, <4>7
    <3> QED
      BY <3>9, <3>10, <3>11
  <2> QED
    BY <1>9, <2>3, <2>4
<1>10. Fine(r)
  <2> DEFINE T == {k \in Nat : k <= r => Fine(k)}
  <2> HIDE DEF Fine
  <2>1. 0 \in T
    BY <1>8
  <2>2. ASSUME NEW k \in Nat, k \in T PROVE k + 1 \in T
    <3> SUFFICES ASSUME k + 1 <= r PROVE Fine(k + 1)
      OBVIOUS
    <3>1. k \in 0 .. r - 1 /\ k <= r
      BY <1>2
    <3>2. Fine(k)
      BY <2>2, <3>1
    <3> QED
      BY <1>9, <3>1, <3>2
  <2> HIDE DEF T
  <2>3. \A k \in Nat : k \in T
    BY <2>1, <2>2, SetInduction
  <2> QED
    BY <2>3 DEF T
<1>11. c + r = n
  BY <1>1, <1>2
<1>12. /\ ~a.failed
       /\ a.next = NoPage => Whole[Len(Order)].matches = Whole[c].matches \o a.matches
       /\ a.next # NoPage =>
            /\ BeginsAfter(a.next.candidateIndex, a.next)
            /\ Whole[a.next.candidateIndex].matches = Whole[c].matches \o a.matches
  BY <1>1, <1>4, <1>10, <1>11
<1> QED
  BY <1>12 DEF a

LEMMA SpanCandidatesAreOfIndices ==
  \A terms, range : SpanCandidates(terms, range) = SpanCandidatesOf(indices, terms, range)
BY DEF SpanCandidates, SpanCandidatesOf, TermOrder, TermOrderOf

AnswerOfCandidates ==
  LET answer == MatchPage(Candidates, query.spans, QuerySlices, QueryRange, FirstPage, NumTokens)
  IN IF CandidatesPanic(query.spans, QuerySlices, QueryRange) THEN [failed |-> TRUE]
     ELSE [failed |-> answer.failed, matches |-> answer.matches, next |-> answer.next,
           estimate |-> EstimatedResults(Cardinality(Candidates.ids), answer, FirstPage)]

LEMMA WholeAnswerIsOfCandidates == WholeAnswer = AnswerOfCandidates
BY DEF WholeAnswer, Answer, AnswerOfCandidates, Candidates, QuerySlices, QueryRange

\* The candidates and the whole list are functions of the corpus and the query.
LEMMA SameWhole ==
  ASSUME indices' = indices, query' = query
  PROVE  /\ Order' = Order
         /\ Whole' = Whole
         /\ Resumable' = Resumable
         /\ WholeAnswer' = WholeAnswer
         /\ Directed' = Directed
         /\ \A c, current : BeginsAfter(c, current)' = BeginsAfter(c, current)
<1>1. Candidates' = Candidates /\ QueryRange' = QueryRange
  BY SameCandidates
<1>2. \A terms, range : SpanCandidates(terms, range)' = SpanCandidates(terms, range)
  <2>1. (\A terms, range : SpanCandidates(terms, range) = SpanCandidatesOf(indices, terms, range))'
    BY SpanCandidatesAreOfIndices, PTL
  <2> QED
    BY <2>1, SpanCandidatesAreOfIndices
<1>3. QuerySlices' = QuerySlices
  BY <1>1, <1>2 DEF QuerySlices
<1>4. Order' = Order
  BY <1>1 DEF Order
<1>5. \A acc, id, current, size :
        Visit(acc, id, current, size)' = Visit(acc, id, current, size)
  BY <1>1, <1>3 DEF Visit, FoundAt
<1>6. ASSUME NEW S, NEW current, NEW size
      PROVE  PageRuns(S, current, size)' = PageRuns(S, current, size)
  BY <1>1, <1>3, <1>5 DEF PageRuns
<1>7. Answers(FirstPage, NumTokens)' = Answers(FirstPage, NumTokens)
  <2>1. Matches' = Matches
    <3>1. \A l : Genuine(l)' = Genuine(l)
      <4>1. Arrangements' = Arrangements
        <5>1. \A span, t : SpanAt(span, t)' <=> SpanAt(span, t)
          BY DEF SpanAt
        <5> QED
          BY <5>1 DEF Arrangements, InReach
      <4> QED
        BY <4>1 DEF Genuine
    <3> QED
      BY <3>1 DEF Matches
  <2> QED
    BY <2>1 DEF Answers
<1>8. Whole' = Whole
  BY <1>6, <1>7 DEF Whole
<1>9. Resumable' = Resumable
  BY <1>1, <1>3 DEF Resumable, Candidates, QuerySlices, QueryRange
<1>10. WholeAnswer' = WholeAnswer
  <2>1. (WholeAnswer = AnswerOfCandidates)'
    BY WholeAnswerIsOfCandidates, PTL
  <2>2. AnswerOfCandidates' = AnswerOfCandidates
    <3>1. CandidatesPanic(query.spans, QuerySlices, QueryRange)'
            <=> CandidatesPanic(query.spans, QuerySlices, QueryRange)
      BY <1>1, <1>3 DEF CandidatesPanic
    <3> QED
      BY <1>1, <1>3, <3>1 DEF AnswerOfCandidates
  <2> QED
    BY <2>1, <2>2, WholeAnswerIsOfCandidates
<1>11. Directed' = Directed
  BY DEF Directed
<1>12. \A c, current : BeginsAfter(c, current)' = BeginsAfter(c, current)
  BY <1>1, <1>4 DEF BeginsAfter
<1> QED
  BY <1>4, <1>8, <1>9, <1>10, <1>11, <1>12

\* The inductive invariant: what was shown is the whole list up to the
\* candidate that the next page begins at.
TileInv ==
  /\ QueryInv
  /\ Resumable /\ Directed /\ ~WholeAnswer.failed =>
       /\ status = "more" =>
            /\ BeginsAfter(page.candidateIndex, page)
            /\ shown = Whole[page.candidateIndex].matches
       /\ status = "done" => shown = Whole[Len(Order)].matches

LEMMA InitTiles ==
  ASSUME Init
  PROVE  TileInv
<1>1. QueryInv /\ status = "more" /\ page = FirstPage /\ shown = <<>>
  BY InitFits DEF Init
<1>2. IsIndices(indices) /\ IsQuery(query)
  BY <1>1 DEF QueryInv
<1>3. Len(Order) \in Nat
  BY <1>2, OrderListsCandidates
<1>4. page.candidateIndex = 0 /\ page.resultId = 0
  BY <1>1 DEF FirstPage
<1>5. BeginsAfter(0, page)
  BY <1>3, <1>4 DEF BeginsAfter
<1>6. ASSUME Resumable, ~WholeAnswer.failed PROVE Whole[0].matches = <<>>
  BY <1>2, <1>6, WholeAnswerDoesNotFail DEF EmptyPage
<1> QED
  BY <1>1, <1>4, <1>5, <1>6 DEF TileInv

LEMMA QueryStepKeepsTiles ==
  ASSUME TileInv, NEW size \in PageSizes, QueryCorpus(size)
  PROVE  TileInv'
<1>1. /\ QueryInv /\ IsIndices(indices) /\ IsQuery(query) /\ status = "more"
      /\ indices' = indices /\ query' = query
      /\ page \in PageData /\ size \in Nat \ {0}
  BY CorpusShape DEF TileInv, QueryInv, TypeOK, QueryCorpus
<1>2. QueryInv'
  BY <1>1, QueryStepKeepsInv
<1>3. /\ Order' = Order /\ Whole' = Whole /\ Resumable' = Resumable
      /\ WholeAnswer' = WholeAnswer /\ Directed' = Directed
      /\ \A c, current : BeginsAfter(c, current)' = BeginsAfter(c, current)
  BY <1>1, SameWhole
<1> SUFFICES ASSUME Resumable, Directed, ~WholeAnswer.failed
             PROVE  /\ status' = "more" =>
                         /\ BeginsAfter(page'.candidateIndex, page')
                         /\ shown' = Whole[page'.candidateIndex].matches
                    /\ status' = "done" => shown' = Whole[Len(Order)].matches
  BY <1>2, <1>3 DEF TileInv
<1> DEFINE a == MatchPage(Candidates, query.spans, QuerySlices, QueryRange, page, size)
           e == EstimatedResults(Cardinality(Candidates.ids), a, page)
           panic == CandidatesPanic(query.spans, QuerySlices, QueryRange)
<1>4. Answer(page, size) =
        IF panic THEN [failed |-> TRUE]
        ELSE [failed |-> a.failed, matches |-> a.matches, next |-> a.next, estimate |-> e]
  BY DEF Answer, Candidates, QuerySlices, QueryRange
<1>5. ~panic
  BY <1>1, WholeAnswerDoesNotFail
<1>6. BeginsAfter(page.candidateIndex, page) /\ shown = Whole[page.candidateIndex].matches
  BY <1>1 DEF TileInv
<1>7. page.candidateIndex \in Nat
  BY <1>1 DEF PageData
<1>8. /\ ~a.failed
      /\ a.next = NoPage => Whole[Len(Order)].matches = Whole[page.candidateIndex].matches \o a.matches
      /\ a.next # NoPage =>
           /\ BeginsAfter(a.next.candidateIndex, a.next)
           /\ Whole[a.next.candidateIndex].matches
                = Whole[page.candidateIndex].matches \o a.matches
  BY <1>1, <1>6, <1>7, PageContinues
<1> HIDE DEF a, e, panic
<1>9. /\ shown' = shown \o a.matches /\ page' = a.next
      /\ status' = IF a.next = NoPage THEN "done" ELSE "more"
  <2>1. ~Answer(page, size).failed
    BY <1>4, <1>5, <1>8
  <2>2. Answer(page, size).matches = a.matches /\ Answer(page, size).next = a.next
    BY <1>4, <1>5
  <2> QED
    BY <2>1, <2>2 DEF QueryCorpus, Receive
<1> QED
  BY <1>6, <1>8, <1>9

LEMMA StutterKeepsTiles ==
  ASSUME TileInv, UNCHANGED vars
  PROVE  TileInv'
<1>1. /\ indices' = indices /\ query' = query /\ page' = page /\ shown' = shown
      /\ status' = status
  BY DEF vars
<1>2. QueryInv'
  BY StutterKeepsInv DEF TileInv
<1>3. /\ Order' = Order /\ Whole' = Whole /\ Resumable' = Resumable
      /\ WholeAnswer' = WholeAnswer /\ Directed' = Directed
      /\ \A c, current : BeginsAfter(c, current)' = BeginsAfter(c, current)
  BY <1>1, SameWhole
<1> QED
  BY <1>1, <1>2, <1>3 DEF TileInv

\* The whole list up to a candidate is a beginning of all of it.
LEMMA WholeListBegins ==
  ASSUME IsIndices(indices), IsQuery(query), Resumable, Directed, ~WholeAnswer.failed,
         NEW c \in 0 .. Len(Order)
  PROVE  IsPrefix(Whole[c].matches, WholeAnswer.matches)
<1>1. PICK n \in Nat : n = Len(Order)
  BY OrderListsCandidates
<1>2. \A k \in 0 .. n : /\ Whole[k].matches \in Seq(Matches)
                        /\ k < n => Whole[k + 1].matches = Whole[k].matches \o Alone(Order[k + 1])
  BY <1>1, WholeListGrows
<1>3. \A k \in 1 .. n : Alone(Order[k]) \in Seq(Matches)
  <2> SUFFICES ASSUME NEW k \in 1 .. n PROVE Alone(Order[k]) \in Seq(Matches)
    OBVIOUS
  <2>1. Order[k] \in Candidates.ids
    BY <1>1, OrderListsCandidates
  <2>2. CASE Alone(Order[k]) = <<>>
    BY <2>2
  <2>3. CASE Alone(Order[k]) # <<>>
    <3>1. PICK l \in Matches : Alone(Order[k]) = <<l>>
      BY <2>1, <2>3, AloneStartsAtToken
    <3>2. <<l>> \in Seq(Matches)
      OBVIOUS
    <3> QED
      BY <3>1, <3>2
  <2> QED
    BY <2>2, <2>3
<1>4. PICK first \in Seq(Matches) : first = Whole[c].matches
  BY <1>1, <1>2
<1> DEFINE Begins(s) == s \in Seq(Matches) /\ Len(first) <= Len(s) /\ \A i \in 1 .. Len(first) : s[i] = first[i]
           T == {d \in Nat : c + d <= n => Begins(Whole[c + d].matches)}
<1>5. 0 \in T
  <2>1. c + 0 = c
    BY <1>1
  <2> QED
    BY <1>4, <2>1
<1>6. ASSUME NEW d \in Nat, d \in T PROVE d + 1 \in T
  <2> SUFFICES ASSUME c + (d + 1) <= n PROVE Begins(Whole[c + (d + 1)].matches)
    OBVIOUS
  <2>1. /\ c + d \in 0 .. n /\ c + d < n /\ c + d <= n /\ c + d + 1 \in 1 .. n
        /\ c + (d + 1) = c + d + 1
    BY <1>1
  <2>2. Begins(Whole[c + d].matches)
    BY <1>6, <2>1
  <2>3. PICK s \in Seq(Matches), t \in Seq(Matches) :
          s = Whole[c + d].matches /\ t = Alone(Order[c + d + 1])
    BY <1>2, <1>3, <2>1
  <2>4. Whole[c + (d + 1)].matches = s \o t
    BY <1>2, <2>1, <2>3
  <2>5. /\ s \o t \in Seq(Matches) /\ Len(s \o t) = Len(s) + Len(t)
        /\ \A i \in 1 .. Len(s) + Len(t) :
             (s \o t)[i] = IF i <= Len(s) THEN s[i] ELSE t[i - Len(s)]
    BY ConcatProperties
  <2>6. PICK x \in Nat, y \in Nat, z \in Nat : x = Len(first) /\ y = Len(s) /\ z = Len(t)
    OBVIOUS
  <2>7. x <= y /\ x <= y + z /\ \A i \in 1 .. x : s[i] = first[i] /\ i \in 1 .. y + z /\ i <= y
    <3>1. x <= y /\ \A i \in 1 .. x : s[i] = first[i]
      BY <2>2, <2>3, <2>6
    <3>2. x <= y + z /\ \A i \in 1 .. x : i \in 1 .. y + z /\ i <= y
      BY <3>1
    <3> QED
      BY <3>1, <3>2
  <2>8. Begins(s \o t)
    BY <2>5, <2>6, <2>7
  <2> QED
    BY <2>4, <2>8
<1> HIDE DEF T
<1>7. \A d \in Nat : d \in T
  BY <1>5, <1>6, SetInduction
<1>8. n - c \in Nat /\ c + (n - c) = n /\ c + (n - c) <= n
  BY <1>1
<1>9. Begins(Whole[n].matches)
  <2>1. n - c \in T
    BY <1>7, <1>8
  <2> QED
    BY <1>8, <2>1 DEF T
<1>10. PICK all \in Seq(Matches) : all = WholeAnswer.matches /\ Begins(all)
  <2>1. WholeAnswer.matches = Whole[n].matches
    BY <1>1, WholeAnswerDoesNotFail
  <2> QED
    BY <1>9, <2>1
<1>11. SubSeq(first, 1, Len(first)) = SubSeq(all, 1, Len(first))
  <2>1. PICK x \in Nat : x = Len(first)
    OBVIOUS
  <2>2. \A i \in 1 .. x : first[i] \in Matches /\ all[i] = first[i]
    BY <1>10, <2>1
  <2>3. /\ SubSeq(first, 1, x) \in Seq(Matches)
        /\ Len(SubSeq(first, 1, x)) = IF 1 <= x THEN x - 1 + 1 ELSE 0
        /\ \A i \in 1 .. x - 1 + 1 : SubSeq(first, 1, x)[i] = first[1 + i - 1]
    BY <2>2, SubSeqProperties
  <2>4. /\ SubSeq(all, 1, x) \in Seq(Matches)
        /\ Len(SubSeq(all, 1, x)) = IF 1 <= x THEN x - 1 + 1 ELSE 0
        /\ \A i \in 1 .. x - 1 + 1 : SubSeq(all, 1, x)[i] = all[1 + i - 1]
    BY <2>2, SubSeqProperties
  <2>5. x - 1 + 1 = x /\ (IF 1 <= x THEN x - 1 + 1 ELSE 0) = x /\ \A i \in 1 .. x : 1 + i - 1 = i
    OBVIOUS
  <2>6. \A i \in 1 .. x : SubSeq(first, 1, x)[i] = SubSeq(all, 1, x)[i]
    BY <2>2, <2>3, <2>4, <2>5
  <2>7. SubSeq(first, 1, x) = SubSeq(all, 1, x)
    BY <2>3, <2>4, <2>5, <2>6, SeqEqual
  <2> QED
    BY <2>1, <2>7
<1> QED
  BY <1>4, <1>10, <1>11 DEF IsPrefix

\* Of every corpus and every query whose spans follow one another, whatever
\* pages are asked for: where PageData can find its place again (a list, or a
\* bitmask of leaders), the pages put together are the beginning of the list
\* of all results, and after the last page they are all of it.  MatchIterator
\* goes on at the candidate that get_match_page stopped at, and the skipped
\* candidates between two pages are counted.
THEOREM ResumedPagesTile == Spec => []ResumablePagesTile
<1>1. Init => TileInv
  BY InitTiles
<1>2. TileInv /\ [Next]_vars => TileInv'
  BY QueryStepKeepsTiles, StutterKeepsTiles DEF Next
<1>3. TileInv => ResumablePagesTile
  <2> SUFFICES ASSUME TileInv, Resumable, Directed, ~WholeAnswer.failed, status # "failed"
               PROVE  /\ IsPrefix(shown, WholeAnswer.matches)
                      /\ status = "done" => Len(shown) = Len(WholeAnswer.matches)
    BY DEF ResumablePagesTile, PagesTile, Directed
  <2>1. IsIndices(indices) /\ IsQuery(query) /\ status \in {"more", "done"}
    BY DEF TileInv, QueryInv, TypeOK
  <2>2. CASE status = "more"
    <3>1. page.candidateIndex \in 0 .. Len(Order) /\ shown = Whole[page.candidateIndex].matches
      BY <2>2 DEF TileInv, BeginsAfter
    <3> QED
      BY <2>1, <2>2, <3>1, WholeListBegins
  <2>3. CASE status = "done"
    <3>1. Len(Order) \in 0 .. Len(Order)
      BY <2>1, OrderListsCandidates
    <3>2. shown = Whole[Len(Order)].matches /\ WholeAnswer.matches = Whole[Len(Order)].matches
      BY <2>1, <2>3, WholeAnswerDoesNotFail DEF TileInv
    <3>3. IsPrefix(shown, WholeAnswer.matches)
      BY <2>1, <3>1, <3>2, WholeListBegins
    <3> QED
      BY <3>2, <3>3
  <2> QED
    BY <2>1, <2>2, <2>3
<1> QED
  BY <1>1, <1>2, <1>3, PTL DEF Spec

=============================================================================
