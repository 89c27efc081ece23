-------------------------- MODULE MacronPageProofs --------------------------
(***************************************************************************)
(* Theorems about the macronizer and its page, for any texts, analyses and *)
(* answers of a tagger.  The algorithms of Macronizer are folds, so most   *)
(* lemmas say what a fold computes.                                        *)
(***************************************************************************)
EXTENDS MacronPage, FiniteSetTheorems, SequenceTheorems, WellFoundedInduction, TLAPS

LEMMA LeastNumber ==
  ASSUME NEW T, T \subseteq Nat, T # {}
  PROVE  \E x \in T : \A y \in T : x <= y
<1> DEFINE R == {ss \in Nat \X Nat : ss[1] < ss[2]}
<1>1. IsWellFoundedOn(R, Nat)
  BY NatLessThanWellFounded DEF OpToRel
<1> HIDE DEF R
<1>2. PICK x \in T : \A y \in T : ~(<<y, x>> \in R)
  BY <1>1, WFMin
<1>3. \A y \in T : ~(y < x)
  BY <1>2 DEF R
<1> QED
  BY <1>3

LEMMA SetInduction ==
  ASSUME NEW T, 0 \in T, \A n \in Nat : n \in T => n + 1 \in T
  PROVE  \A n \in Nat : n \in T
<1> SUFFICES ASSUME Nat \ T # {} PROVE FALSE
  OBVIOUS
<1>1. PICK x \in Nat \ T : \A y \in Nat \ T : x <= y
  BY LeastNumber
<1>2. PICK y \in Nat : y + 1 = x
  BY <1>1
<1>3. y \in T
  BY <1>1, <1>2
<1> QED
  BY <1>1, <1>2, <1>3

LEMMA FunctionIsSeq ==
  ASSUME NEW S, NEW n \in Nat, NEW s \in [1 .. n -> S]
  PROVE  s \in Seq(S)
OBVIOUS

\* The same up to a bound, for the values of a function.
LEMMA StepInduction ==
  ASSUME NEW S, NEW n \in Nat, NEW h, h[0] \in S, \A k \in 1 .. n : h[k - 1] \in S => h[k] \in S
  PROVE  \A k \in 0 .. n : h[k] \in S
<1> DEFINE T == {k \in Nat : k <= n => h[k] \in S}
<1>1. 0 \in T
  OBVIOUS
<1>2. ASSUME NEW k \in Nat, k \in T PROVE k + 1 \in T
  <2> SUFFICES ASSUME k + 1 <= n PROVE h[k + 1] \in S
    OBVIOUS
  <2>1. k + 1 \in 1 .. n /\ (k + 1) - 1 = k /\ h[k] \in S
    BY <1>2
  <2> QED
    BY <2>1
<1> HIDE DEF T
<1>3. \A k \in Nat : k \in T
  BY <1>1, <1>2, SetInduction
<1> QED
  BY <1>3 DEF T

\* Numbers up to a bound have a greatest one.
LEMMA GreatestNumber ==
  ASSUME NEW S, S \subseteq Nat, S # {}, NEW n \in Nat, \A x \in S : x <= n
  PROVE  \E x \in S : \A y \in S : x >= y
<1> DEFINE T == {n - x : x \in S}
<1>1. T \subseteq Nat /\ T # {}
  OBVIOUS
<1>2. PICK least \in T : \A y \in T : least <= y
  BY <1>1, LeastNumber
<1>3. PICK x \in S : least = n - x
  BY <1>2
<1>4. ASSUME NEW y \in S PROVE y <= x
  <2>1. n - y \in T
    OBVIOUS
  <2>2. n - x <= n - y /\ x \in Nat /\ y \in Nat
    BY <1>2, <1>3, <2>1
  <2> QED
    BY <2>2
<1> QED
  BY <1>4

\* Folds.  FoldLeft is a function on the sets of places of a sequence; of the
\* function that it chooses one has to show that there is one.

LEMMA PlacesUpTo ==
  ASSUME NEW k \in Nat \ {0}
  PROVE  /\ Max(1 .. k) = k 
         /\ (1 .. k) \ {k} = 1 .. (k - 1)
         /\ ~(1 .. k = {})
<1>1. k \in 1 .. k /\ \A y \in 1 .. k : k >= y
  OBVIOUS
<1>2. \A x \in 1 .. k : (\A y \in 1 .. k : x >= y) => x = k
  OBVIOUS
<1>3. Max(1 .. k) = k
  BY <1>1, <1>2 DEF Max
<1>4. (1 .. k) \ {k} = 1 .. (k - 1)
  OBVIOUS
<1>5. ~(1 .. k = {})
  BY <1>1
<1> QED
  BY <1>3, <1>4, <1>5

\* The greatest of a set of places.
LEMMA MaxPlace ==
  ASSUME NEW n \in Nat, NEW t \in SUBSET (1 .. n), t # {}
  PROVE  Max(t) \in t /\ \A y \in t : Max(t) >= y
<1>1. \A x \in t : x \in Nat /\ x <= n
  OBVIOUS
<1>2. \E x \in t : \A y \in t : x >= y
  BY <1>1, GreatestNumber
<1> QED
  BY <1>2 DEF Max

FoldsOf(S, base, n, g) ==
  {f \in [SUBSET (1 .. n) -> S] :
     /\ f[{}] = base
     /\ \A t \in SUBSET (1 .. n) : t # {} => f[t] = g[<<Max(t), f[t \ {Max(t)}]>>]}

LEMMA FoldExists ==
  ASSUME NEW S, NEW base \in S, NEW n \in Nat, NEW g \in [(1 .. n) \X S -> S]
  PROVE  FoldsOf(S, base, n, g) # {}
<1> DEFINE Folds(f, k) == /\ f \in [SUBSET (1 .. k) -> S]
                          /\ \A t \in SUBSET (1 .. k) :
                               f[t] = IF t = {} THEN base ELSE g[<<Max(t), f[t \ {Max(t)}]>>]
           T == {k \in Nat : k <= n => \E f : Folds(f, k)}
<1> HIDE DEF Folds
<1>1. 0 \in T
  <2> DEFINE f == [t \in SUBSET (1 .. 0) |-> base]
  <2>1. \A t \in SUBSET (1 .. 0) : t = {}
    OBVIOUS
  <2>2. Folds(f, 0)
    BY <2>1 DEF Folds
  <2> QED
    BY <2>2
<1>2. ASSUME NEW k \in Nat, k \in T PROVE k + 1 \in T
  <2> SUFFICES ASSUME k + 1 <= n PROVE \E f : Folds(f, k + 1)
    OBVIOUS
  <2>1. PICK f : Folds(f, k)
    BY <1>2
  <2> DEFINE m == k + 1
             new == [t \in SUBSET (1 .. m) |->
                       IF m \in t THEN g[<<m, f[t \ {m}]>>] ELSE f[t]]
  <2>2. m \in Nat /\ m \in 1 .. n /\ 1 .. k \subseteq 1 .. m
    OBVIOUS
  <2>3. \A t \in SUBSET (1 .. m) : m \notin t => t \in SUBSET (1 .. k)
    OBVIOUS
  <2>4. \A t \in SUBSET (1 .. m) : t \ {m} \in SUBSET (1 .. k)
    OBVIOUS
  <2>5. new \in [SUBSET (1 .. m) -> S]
    <3> SUFFICES ASSUME NEW t \in SUBSET (1 .. m)
                 PROVE  (IF m \in t THEN g[<<m, f[t \ {m}]>>] ELSE f[t]) \in S
      OBVIOUS
    <3>1. f[t \ {m}] \in S
      BY <2>1, <2>4 DEF Folds
    <3>2. m \notin t => f[t] \in S
      BY <2>1, <2>3 DEF Folds
    <3> QED
      BY <2>2, <3>1, <3>2
  <2>6. ASSUME NEW t \in SUBSET (1 .. m)
        PROVE  new[t] = IF t = {} THEN base ELSE g[<<Max(t), new[t \ {Max(t)}]>>]
    <3>1. CASE m \in t
      <4>1. Max(t) = m
        <5>1. Max(t) \in t /\ \A y \in t : Max(t) >= y
          BY <2>2, <3>1, MaxPlace
        <5>2. \A y \in t : y \in Nat /\ y <= m
          BY <2>2
        <5>3. PICK x \in Nat : x = Max(t) /\ x <= m /\ x >= m
          BY <3>1, <5>1, <5>2
        <5> QED
          BY <2>2, <5>3
      <4>2. new[t \ {m}] = f[t \ {m}]
        BY <2>2
      <4>3. new[t] = g[<<m, f[t \ {m}]>>]
        BY <3>1
      <4> QED
        BY <3>1, <4>1, <4>2, <4>3
    <3>2. CASE m \notin t
      <4>1. t \in SUBSET (1 .. k) /\ new[t] = f[t]
        BY <2>3, <3>2
      <4>2. f[t] = IF t = {} THEN base ELSE g[<<Max(t), f[t \ {Max(t)}]>>]
        BY <2>1, <4>1 DEF Folds
      <4>3. new[t \ {Max(t)}] = f[t \ {Max(t)}]
        BY <3>2
      <4> QED
        BY <4>1, <4>2, <4>3
    <3> QED
      BY <3>1, <3>2
  <2> HIDE DEF new
  <2>7. Folds(new, k + 1)
    BY <2>5, <2>6 DEF Folds
  <2> QED
    BY <2>7
<1> HIDE DEF T
<1>3. n \in T
  BY <1>1, <1>2, SetInduction
<1>4. PICK f : Folds(f, n)
  BY <1>3 DEF T
<1> QED
  BY <1>4 DEF Folds, FoldsOf

\* The values of a fold along its sequence: a filter, and every element once.
IsKeeping(h, S, s, set, n) ==
  /\ h \in [0 .. n -> Seq(S)] /\ h[0] = <<>>
  /\ \A k \in 1 .. n : h[k] = IF s[k] \in set THEN Append(h[k - 1], s[k]) ELSE h[k - 1]

LEMMA KeptRuns ==
  ASSUME NEW S, NEW s \in Seq(S), NEW set, NEW n \in Nat, Len(s) = n
  PROVE  \E h : IsKeeping(h, S, s, set, n) /\ Kept(s, set) = h[n]
<1>1. DOMAIN s = 1 .. n
  OBVIOUS
<1> DEFINE Q == Seq(S)
           Op(q, k) == IF s[k] \in set THEN Append(q, s[k]) ELSE q
           g == [kq \in (1 .. n) \X Q |-> Op(kq[2], kq[1])]
           IsFold(f) == f = [t \in SUBSET (1 .. n) |->
                               IF t = {} THEN <<>> ELSE Op(f[t \ {Max(t)}], Max(t))]
           fold == CHOOSE f : IsFold(f)
<1>2. <<>> \in Q /\ \A q \in Q, k \in 1 .. n : Op(q, k) \in Q
  BY <1>1
<1>3. g \in [(1 .. n) \X Q -> Q] /\ \A q \in Q, k \in 1 .. n : g[<<k, q>>] = Op(q, k)
  BY <1>2
<1>4. Kept(s, set) = fold[1 .. n]
  BY <1>1 DEF Kept, FoldLeft, MapThenFoldSet
<1> HIDE DEF Q, g, Op
<1>5. PICK f \in FoldsOf(Q, <<>>, n, g) : TRUE
  <2>1. <<>> \in Q /\ g \in [(1 .. n) \X Q -> Q]
    BY <1>2, <1>3
  <2>2. FoldsOf(Q, <<>>, n, g) # {}
    BY <2>1, FoldExists
  <2> QED
    BY <2>2
<1>6. IsFold(f)
  <2>1. /\ f \in [SUBSET (1 .. n) -> Q] /\ f[{}] = <<>>
        /\ \A t \in SUBSET (1 .. n) :
             t # {} => f[t] = g[<<Max(t), f[t \ {Max(t)}]>>]
    BY <1>5 DEF FoldsOf
  <2> SUFFICES ASSUME NEW t \in SUBSET (1 .. n), t # {}
               PROVE  f[t] = Op(f[t \ {Max(t)}], Max(t))
    BY <2>1
  <2>2. Max(t) \in 1 .. n
    BY MaxPlace
  <2> QED
    BY <1>3, <2>1, <2>2
<1>7. IsFold(fold)
  <2> HIDE DEF IsFold
  <2> QED
    BY <1>6
<1> DEFINE h == [k \in 0 .. n |-> fold[1 .. k]]
<1>8. h[0] = <<>> /\ \A k \in 1 .. n : h[k] = Op(h[k - 1], k)
  <2> HIDE DEF fold
  <2>1. 1 .. 0 = {}
    OBVIOUS
  <2>2. h[0] = <<>>
    BY <1>7, <2>1
  <2> SUFFICES ASSUME NEW k \in 1 .. n PROVE h[k] = Op(h[k - 1], k)
    BY <2>2
  <2>3. k \in Nat \ {0} /\ 1 .. k \in SUBSET (1 .. n)
    OBVIOUS
  <2>4. Max(1 .. k) = k /\ (1 .. k) \ {k} = 1 .. (k - 1) /\ ~(1 .. k = {})
    BY <2>3, PlacesUpTo
  <2>5. fold[1 .. k] = Op(fold[1 .. (k - 1)], k)
    BY <1>7, <2>3, <2>4
  <2> QED
    BY <2>5
<1>9. \A k \in 0 .. n : h[k] \in Q
  <2> HIDE DEF h
  <2> QED
    BY <1>2, <1>8, StepInduction
<1>10. h \in [0 .. n -> Q] /\ h[n] = fold[1 .. n]
  <2>1. DOMAIN h = 0 .. n /\ h = [k \in 0 .. n |-> h[k]] /\ h[n] = fold[1 .. n]
    OBVIOUS
  <2> HIDE DEF h
  <2> QED
    BY <1>9, <2>1
<1> HIDE DEF h, fold
<1> QED
  BY <1>4, <1>8, <1>10 DEF Q, Op, IsKeeping

IsCollecting(h, S, s, n) ==
  /\ h \in [0 .. n -> Seq(S)] /\ h[0] = <<>>
  /\ \A k \in 1 .. n :
       h[k] = IF s[k] \in ToSet(h[k - 1]) THEN h[k - 1] ELSE Append(h[k - 1], s[k])

LEMMA DistinctRuns ==
  ASSUME NEW S, NEW s \in Seq(S), NEW n \in Nat, Len(s) = n
  PROVE  \E h : IsCollecting(h, S, s, n) /\ Distinct(s) = h[n]
<1>1. DOMAIN s = 1 .. n
  OBVIOUS
<1> DEFINE Q == Seq(S)
           Op(q, k) == IF s[k] \in ToSet(q) THEN q ELSE Append(q, s[k])
           g == [kq \in (1 .. n) \X Q |-> Op(kq[2], kq[1])]
           IsFold(f) == f = [t \in SUBSET (1 .. n) |->
                               IF t = {} THEN <<>> ELSE Op(f[t \ {Max(t)}], Max(t))]
           fold == CHOOSE f : IsFold(f)
<1>2. <<>> \in Q /\ \A q \in Q, k \in 1 .. n : Op(q, k) \in Q
  BY <1>1
<1>3. g \in [(1 .. n) \X Q -> Q] /\ \A q \in Q, k \in 1 .. n : g[<<k, q>>] = Op(q, k)
  BY <1>2
<1>4. Distinct(s) = fold[1 .. n]
  BY <1>1 DEF Distinct, FoldLeft, MapThenFoldSet
<1> HIDE DEF Q, g, Op
<1>5. PICK f \in FoldsOf(Q, <<>>, n, g) : TRUE
  <2>1. <<>> \in Q /\ g \in [(1 .. n) \X Q -> Q]
    BY <1>2, <1>3
  <2>2. FoldsOf(Q, <<>>, n, g) # {}
    BY <2>1, FoldExists
  <2> QED
    BY <2>2
<1>6. IsFold(f)
  <2>1. /\ f \in [SUBSET (1 .. n) -> Q] /\ f[{}] = <<>>
        /\ \A t \in SUBSET (1 .. n) :
             t # {} => f[t] = g[<<Max(t), f[t \ {Max(t)}]>>]
    BY <1>5 DEF FoldsOf
  <2> SUFFICES ASSUME NEW t \in SUBSET (1 .. n), t # {}
               PROVE  f[t] = Op(f[t \ {Max(t)}], Max(t))
    BY <2>1
  <2>2. Max(t) \in 1 .. n
    BY MaxPlace
  <2> QED
    BY <1>3, <2>1, <2>2
<1>7. IsFold(fold)
  <2> HIDE DEF IsFold
  <2> QED
    BY <1>6
<1> DEFINE h == [k \in 0 .. n |-> fold[1 .. k]]
<1>8. h[0] = <<>> /\ \A k \in 1 .. n : h[k] = Op(h[k - 1], k)
  <2> HIDE DEF fold
  <2>1. 1 .. 0 = {}
    OBVIOUS
  <2>2. h[0] = <<>>
    BY <1>7, <2>1
  <2> SUFFICES ASSUME NEW k \in 1 .. n PROVE h[k] = Op(h[k - 1], k)
    BY <2>2
  <2>3. k \in Nat \ {0} /\ 1 .. k \in SUBSET (1 .. n)
    OBVIOUS
  <2>4. Max(1 .. k) = k /\ (1 .. k) \ {k} = 1 .. (k - 1) /\ ~(1 .. k = {})
    BY <2>3, PlacesUpTo
  <2>5. fold[1 .. k] = Op(fold[1 .. (k - 1)], k)
    BY <1>7, <2>3, <2>4
  <2> QED
    BY <2>5
<1>9. \A k \in 0 .. n : h[k] \in Q
  <2> HIDE DEF h
  <2> QED
    BY <1>2, <1>8, StepInduction
<1>10. h \in [0 .. n -> Q] /\ h[n] = fold[1 .. n]
  <2>1. DOMAIN h = 0 .. n /\ h = [k \in 0 .. n |-> h[k]] /\ h[n] = fold[1 .. n]
    OBVIOUS
  <2> HIDE DEF h
  <2> QED
    BY <1>9, <2>1
<1> HIDE DEF h, fold
<1> QED
  BY <1>4, <1>8, <1>10 DEF Q, Op, IsCollecting

LEMMA LengthRuns ==
  ASSUME NEW text \in Seq(TokenType)
  PROVE  \E h \in [0 .. Len(text) -> Nat] : h[Len(text)] = LengthOf(text)
<1>1. PICK n \in Nat : n = Len(text) /\ DOMAIN text = 1 .. n
  OBVIOUS
<1> DEFINE Q == Nat
           Op(q, k) == q + Len(text[k].text) + Len(text[k].marks)
           g == [kq \in (1 .. n) \X Q |-> Op(kq[2], kq[1])]
           IsFold(f) == f = [t \in SUBSET (1 .. n) |->
                               IF t = {} THEN 0 ELSE Op(f[t \ {Max(t)}], Max(t))]
           fold == CHOOSE f : IsFold(f)
<1>2. 0 \in Q /\ \A q \in Q, k \in 1 .. n : Op(q, k) \in Q
  <2> SUFFICES ASSUME NEW q \in Nat, NEW k \in 1 .. n PROVE Op(q, k) \in Nat
    OBVIOUS
  <2>1. text[k] \in TokenType
    BY <1>1
  <2>2. Len(text[k].text) \in Nat /\ Len(text[k].marks) \in Nat
    BY <2>1 DEF TokenType
  <2>3. PICK a \in Nat, b \in Nat : a = Len(text[k].text) /\ b = Len(text[k].marks)
    BY <2>2
  <2>4. q + a + b \in Nat
    OBVIOUS
  <2>5. Op(q, k) = q + a + b
    BY <2>3
  <2> QED
    BY <2>4, <2>5
<1>3. g \in [(1 .. n) \X Q -> Q] /\ \A q \in Q, k \in 1 .. n : g[<<k, q>>] = Op(q, k)
  BY <1>2
<1>4. LengthOf(text) = fold[1 .. n]
  BY <1>1 DEF LengthOf, FoldLeft, MapThenFoldSet
<1> HIDE DEF Q, g, Op
<1>5. PICK f \in FoldsOf(Q, 0, n, g) : TRUE
  <2>1. 0 \in Q /\ g \in [(1 .. n) \X Q -> Q]
    BY <1>2, <1>3
  <2>2. FoldsOf(Q, 0, n, g) # {}
    BY <2>1, FoldExists
  <2> QED
    BY <2>2
<1>6. IsFold(f)
  <2>1. /\ f \in [SUBSET (1 .. n) -> Q] /\ f[{}] = 0
        /\ \A t \in SUBSET (1 .. n) :
             t # {} => f[t] = g[<<Max(t), f[t \ {Max(t)}]>>]
    BY <1>5 DEF FoldsOf
  <2> SUFFICES ASSUME NEW t \in SUBSET (1 .. n), t # {}
               PROVE  f[t] = Op(f[t \ {Max(t)}], Max(t))
    BY <2>1
  <2>2. Max(t) \in 1 .. n
    BY MaxPlace
  <2> QED
    BY <1>3, <2>1, <2>2
<1>7. IsFold(fold)
  <2> HIDE DEF IsFold
  <2> QED
    BY <1>6
<1> DEFINE h == [k \in 0 .. n |-> fold[1 .. k]]
<1>8. h[0] = 0 /\ \A k \in 1 .. n : h[k] = Op(h[k - 1], k)
  <2> HIDE DEF fold
  <2>1. 1 .. 0 = {}
    OBVIOUS
  <2>2. h[0] = 0
    BY <1>7, <2>1
  <2> SUFFICES ASSUME NEW k \in 1 .. n PROVE h[k] = Op(h[k - 1], k)
    BY <2>2
  <2>3. k \in Nat \ {0} /\ 1 .. k \in SUBSET (1 .. n)
    OBVIOUS
  <2>4. Max(1 .. k) = k /\ (1 .. k) \ {k} = 1 .. (k - 1) /\ ~(1 .. k = {})
    BY <2>3, PlacesUpTo
  <2>5. fold[1 .. k] = Op(fold[1 .. (k - 1)], k)
    BY <1>7, <2>3, <2>4
  <2> QED
    BY <2>5
<1>9. \A k \in 0 .. n : h[k] \in Q
  <2> HIDE DEF h
  <2> QED
    BY <1>2, <1>8, StepInduction
<1>10. h \in [0 .. n -> Q] /\ h[n] = fold[1 .. n]
  <2>1. DOMAIN h = 0 .. n /\ h = [k \in 0 .. n |-> h[k]] /\ h[n] = fold[1 .. n]
    OBVIOUS
  <2> HIDE DEF h
  <2> QED
    BY <1>9, <2>1
<1> HIDE DEF h, fold
<1> QED
  BY <1>1, <1>4, <1>10 DEF Q

\* Sentences have words.
Sentences(W) == Seq(Seq(W) \ {<<>>})
AddToLast(q, word) == [q EXCEPT ![Len(q)] = Append(@, word)]

LEMMA SentencesGrow ==
  ASSUME NEW W, NEW q \in Sentences(W), NEW word \in W
  PROVE  Append(q, <<word>>) \in Sentences(W) /\ (q # <<>> => AddToLast(q, word) \in Sentences(W))
<1>1. <<word>> \in Seq(W) \ {<<>>}
  OBVIOUS
<1>2. ASSUME q # <<>> PROVE AddToLast(q, word) \in Sentences(W)
  <2>1. PICK n \in Nat : n = Len(q) /\ n > 0 /\ DOMAIN q = 1 .. n
    BY <1>2 DEF Sentences
  <2>2. q[n] \in Seq(W) \ {<<>>}
    BY <2>1 DEF Sentences
  <2>3. Append(q[n], word) \in Seq(W) \ {<<>>}
    BY <2>2
  <2> QED
    BY <2>1, <2>3 DEF Sentences, AddToLast
<1> QED
  BY <1>1, <1>2 DEF Sentences

IsSegmenting(h, W, words, n) ==
  /\ h \in [0 .. n -> Sentences(W)] /\ h[0] = <<>>
  /\ \A k \in 1 .. n :
       \/ h[k] = Append(h[k - 1], <<words[k]>>)
       \/ h[k - 1] # <<>> /\ h[k] = AddToLast(h[k - 1], words[k])

LEMMA SegmentRuns ==
  ASSUME NEW W, NEW words \in Seq(W), NEW n \in Nat, Len(words) = n
  PROVE  \E h : IsSegmenting(h, W, words, n) /\ SentenceSegment(words) = h[n]
<1>1. DOMAIN words = 1 .. n
  OBVIOUS
<1> DEFINE Q == Sentences(W)
           Op(q, k) == IF q = <<>> \/ ToSet(Last(Last(q))) \cap {".", "?", "!"} # {}
                       THEN Append(q, <<words[k]>>) ELSE AddToLast(q, words[k])
           g == [kq \in (1 .. n) \X Q |-> Op(kq[2], kq[1])]
           IsFold(f) == f = [t \in SUBSET (1 .. n) |->
                               IF t = {} THEN <<>> ELSE Op(f[t \ {Max(t)}], Max(t))]
           fold == CHOOSE f : IsFold(f)
<1>2. <<>> \in Q /\ \A q \in Q, k \in 1 .. n : Op(q, k) \in Q
  <2>1. <<>> \in Q
    BY DEF Sentences
  <2> SUFFICES ASSUME NEW q \in Sentences(W), NEW k \in 1 .. n PROVE Op(q, k) \in Sentences(W)
    BY <2>1
  <2>2. words[k] \in W
    BY <1>1
  <2> QED
    BY <2>2, SentencesGrow
<1>3. g \in [(1 .. n) \X Q -> Q] /\ \A q \in Q, k \in 1 .. n : g[<<k, q>>] = Op(q, k)
  BY <1>2
<1>4. SentenceSegment(words) = fold[1 .. n]
  BY <1>1 DEF SentenceSegment, FoldLeft, MapThenFoldSet, AddToLast
<1> HIDE DEF Q, g, Op
<1>5. PICK f \in FoldsOf(Q, <<>>, n, g) : TRUE
  <2>1. <<>> \in Q /\ g \in [(1 .. n) \X Q -> Q]
    BY <1>2, <1>3
  <2>2. FoldsOf(Q, <<>>, n, g) # {}
    BY <2>1, FoldExists
  <2> QED
    BY <2>2
<1>6. IsFold(f)
  <2>1. /\ f \in [SUBSET (1 .. n) -> Q] /\ f[{}] = <<>>
        /\ \A t \in SUBSET (1 .. n) :
             t # {} => f[t] = g[<<Max(t), f[t \ {Max(t)}]>>]
    BY <1>5 DEF FoldsOf
  <2> SUFFICES ASSUME NEW t \in SUBSET (1 .. n), t # {}
               PROVE  f[t] = Op(f[t \ {Max(t)}], Max(t))
    BY <2>1
  <2>2. Max(t) \in 1 .. n
    BY MaxPlace
  <2> QED
    BY <1>3, <2>1, <2>2
<1>7. IsFold(fold)
  <2> HIDE DEF IsFold
  <2> QED
    BY <1>6
<1> DEFINE h == [k \in 0 .. n |-> fold[1 .. k]]
<1>8. h[0] = <<>> /\ \A k \in 1 .. n : h[k] = Op(h[k - 1], k)
  <2> HIDE DEF fold
  <2>1. 1 .. 0 = {}
    OBVIOUS
  <2>2. h[0] = <<>>
    BY <1>7, <2>1
  <2> SUFFICES ASSUME NEW k \in 1 .. n PROVE h[k] = Op(h[k - 1], k)
    BY <2>2
  <2>3. k \in Nat \ {0} /\ 1 .. k \in SUBSET (1 .. n)
    OBVIOUS
  <2>4. Max(1 .. k) = k /\ (1 .. k) \ {k} = 1 .. (k - 1) /\ ~(1 .. k = {})
    BY <2>3, PlacesUpTo
  <2>5. fold[1 .. k] = Op(fold[1 .. (k - 1)], k)
    BY <1>7, <2>3, <2>4
  <2> QED
    BY <2>5
<1>9. \A k \in 0 .. n : h[k] \in Q
  <2> HIDE DEF h
  <2> QED
    BY <1>2, <1>8, StepInduction
<1>10. h \in [0 .. n -> Q] /\ h[n] = fold[1 .. n]
  <2>1. DOMAIN h = 0 .. n /\ h = [k \in 0 .. n |-> h[k]] /\ h[n] = fold[1 .. n]
    OBVIOUS
  <2> HIDE DEF h
  <2> QED
    BY <1>9, <2>1
<1> HIDE DEF h, fold
<1> QED
  BY <1>4, <1>8, <1>10 DEF Q, Op, IsSegmenting

LEMMA AppendAdds ==
  ASSUME NEW S, NEW q \in Seq(S), NEW x \in S
  PROVE  /\ Append(q, x) \in Seq(S)
         /\ ToSet(Append(q, x)) = ToSet(q) \cup {x}
         /\ IsInjective(q) /\ x \notin ToSet(q) => IsInjective(Append(q, x))
<1> DEFINE new == Append(q, x)
<1>1. PICK n \in Nat : n = Len(q) /\ DOMAIN q = 1 .. n
  OBVIOUS
<1>2. /\ new \in Seq(S) /\ DOMAIN new = 1 .. n + 1 /\ new[n + 1] = x
      /\ \A i \in 1 .. n : new[i] = q[i]
  BY <1>1
<1> HIDE DEF new
<1>3. \A i \in 1 .. n + 1 : i \in 1 .. n \/ i = n + 1
  BY <1>1
<1>4. ToSet(new) = ToSet(q) \cup {x}
  <2>1. ToSet(new) \subseteq ToSet(q) \cup {x}
    BY <1>1, <1>2, <1>3 DEF ToSet
  <2>2. 1 .. n \subseteq 1 .. n + 1 /\ n + 1 \in 1 .. n + 1
    BY <1>1
  <2>3. ToSet(q) \cup {x} \subseteq ToSet(new)
    BY <1>1, <1>2, <2>2 DEF ToSet
  <2> QED
    BY <2>1, <2>3
<1>5. ASSUME IsInjective(q), x \notin ToSet(q) PROVE IsInjective(new)
  <2>1. ASSUME NEW i \in 1 .. n + 1, NEW j \in 1 .. n + 1, new[i] = new[j] PROVE i = j
    <3>1. \A k \in 1 .. n : q[k] # x
      BY <1>1, <1>5 DEF ToSet
    <3> QED
      BY <1>1, <1>2, <1>3, <1>5, <2>1, <3>1 DEF IsInjective
  <2> QED
    BY <1>2, <2>1 DEF IsInjective
<1> QED
  BY <1>2, <1>4, <1>5 DEF new

\* A filter keeps what is in the set, and nothing becomes double.
LEMMA KeptIs ==
  ASSUME NEW S, NEW s \in Seq(S), NEW set
  PROVE  /\ Kept(s, set) \in Seq(S)
         /\ ToSet(Kept(s, set)) = ToSet(s) \cap set
         /\ IsInjective(s) => IsInjective(Kept(s, set))
<1>1. PICK n \in Nat : n = Len(s) /\ DOMAIN s = 1 .. n
  OBVIOUS
<1>2. PICK h : IsKeeping(h, S, s, set, n) /\ Kept(s, set) = h[n]
  BY <1>1, KeptRuns
<1> DEFINE First(k) == {s[j] : j \in 1 .. k}
           T == {k \in Nat : k <= n => /\ ToSet(h[k]) = First(k) \cap set
                                       /\ IsInjective(s) => IsInjective(h[k])}
<1>3. 0 \in T
  BY <1>2 DEF ToSet, IsInjective, IsKeeping
<1>4. ASSUME NEW k \in Nat, k \in T PROVE k + 1 \in T
  <2> SUFFICES ASSUME k + 1 <= n
               PROVE  /\ ToSet(h[k + 1]) = First(k + 1) \cap set
                      /\ IsInjective(s) => IsInjective(h[k + 1])
    OBVIOUS
  <2>1. k + 1 \in 1 .. n /\ (k + 1) - 1 = k /\ k \in 0 .. n /\ k <= n
    BY <1>1
  <2>2. /\ ToSet(h[k]) = First(k) \cap set
        /\ IsInjective(s) => IsInjective(h[k])
    BY <1>4, <2>1
  <2>8. h[k] \in Seq(S) /\ s[k + 1] \in S
    BY <1>1, <1>2, <2>1 DEF IsKeeping
  <2>3. First(k + 1) = First(k) \cup {s[k + 1]}
    <3>1. \A j : j \in 1 .. k + 1 <=> j \in 1 .. k \/ j = k + 1
      BY <2>1
    <3> QED
      BY <3>1
  <2>4. h[k + 1] = IF s[k + 1] \in set THEN Append(h[k], s[k + 1]) ELSE h[k]
    BY <1>2, <2>1 DEF IsKeeping
  <2>5. IsInjective(s) => s[k + 1] \notin First(k)
    <3>1. \A j \in 1 .. k : j \in 1 .. n /\ j # k + 1
      BY <2>1
    <3> QED
      BY <1>1, <2>1, <3>1 DEF IsInjective
  <2> HIDE DEF First
  <2>6. CASE s[k + 1] \in set
    <3>1. h[k + 1] = Append(h[k], s[k + 1])
      BY <2>4, <2>6
    <3> QED
      BY <2>2, <2>3, <2>5, <2>6, <2>8, <3>1, AppendAdds
  <2>7. CASE s[k + 1] \notin set
    BY <2>2, <2>3, <2>4, <2>7
  <2> QED
    BY <2>6, <2>7
<1> HIDE DEF T
<1>5. n \in T
  BY <1>3, <1>4, SetInduction
<1>6. First(n) = ToSet(s)
  BY <1>1 DEF ToSet
<1> QED
  BY <1>2, <1>5, <1>6 DEF T, IsKeeping

\* Every element once.
LEMMA DistinctIs ==
  ASSUME NEW S, NEW s \in Seq(S)
  PROVE  /\ Distinct(s) \in Seq(S) /\ IsInjective(Distinct(s))
         /\ ToSet(Distinct(s)) = ToSet(s)
<1>1. PICK n \in Nat : n = Len(s) /\ DOMAIN s = 1 .. n
  OBVIOUS
<1>2. PICK h : IsCollecting(h, S, s, n) /\ Distinct(s) = h[n]
  BY <1>1, DistinctRuns
<1> DEFINE First(k) == {s[j] : j \in 1 .. k}
           T == {k \in Nat : k <= n => ToSet(h[k]) = First(k) /\ IsInjective(h[k])}
<1>3. 0 \in T
  BY <1>2 DEF ToSet, IsInjective, IsCollecting
<1>4. ASSUME NEW k \in Nat, k \in T PROVE k + 1 \in T
  <2> SUFFICES ASSUME k + 1 <= n
               PROVE  ToSet(h[k + 1]) = First(k + 1) /\ IsInjective(h[k + 1])
    OBVIOUS
  <2>1. k + 1 \in 1 .. n /\ (k + 1) - 1 = k /\ k \in 0 .. n /\ k <= n
    BY <1>1
  <2>2. /\ ToSet(h[k]) = First(k) /\ IsInjective(h[k])
    BY <1>4, <2>1
  <2>8. h[k] \in Seq(S) /\ s[k + 1] \in S
    BY <1>1, <1>2, <2>1 DEF IsCollecting
  <2>3. First(k + 1) = First(k) \cup {s[k + 1]}
    <3>1. \A j : j \in 1 .. k + 1 <=> j \in 1 .. k \/ j = k + 1
      BY <2>1
    <3> QED
      BY <3>1
  <2>4. h[k + 1] = IF s[k + 1] \in ToSet(h[k]) THEN h[k] ELSE Append(h[k], s[k + 1])
    BY <1>2, <2>1 DEF IsCollecting
  <2> HIDE DEF First
  <2>5. CASE s[k + 1] \in ToSet(h[k])
    BY <2>2, <2>3, <2>4, <2>5
  <2>6. CASE s[k + 1] \notin ToSet(h[k])
    <3>1. h[k + 1] = Append(h[k], s[k + 1])
      BY <2>4, <2>6
    <3>2. /\ ToSet(h[k + 1]) = ToSet(h[k]) \cup {s[k + 1]}
          /\ IsInjective(h[k + 1])
      BY <2>2, <2>6, <2>8, <3>1, AppendAdds
    <3> QED
      BY <2>2, <2>3, <3>2
  <2> QED
    BY <2>5, <2>6
<1> HIDE DEF T
<1>5. n \in T
  BY <1>3, <1>4, SetInduction
<1>6. First(n) = ToSet(s)
  BY <1>1 DEF ToSet
<1>7. h[n] \in Seq(S) /\ h[n] = Distinct(s)
  BY <1>2 DEF IsCollecting
<1>8. ToSet(h[n]) = First(n) /\ IsInjective(h[n])
  BY <1>5 DEF T
<1> QED
  BY <1>6, <1>7, <1>8, Zenon

\* The values of FlattenSeq along its sequence.
IsJoining(h, W, s, n) ==
  /\ h \in [0 .. n -> Seq(W)] /\ h[0] = <<>>
  /\ \A k \in 1 .. n : h[k] = h[k - 1] \o s[k]

LEMMA JoinExists ==
  ASSUME NEW W, NEW s \in Seq(Seq(W)), NEW n \in Nat, Len(s) = n
  PROVE  \E h : IsJoining(h, W, s, n)
<1> DEFINE T == {k \in Nat : k <= n => \E h : IsJoining(h, W, s, k)}
<1>1. 0 \in T
  <2> DEFINE h == [k \in 0 .. 0 |-> <<>>]
  <2>1. IsJoining(h, W, s, 0)
    BY DEF IsJoining
  <2> QED
    BY <2>1
<1>2. ASSUME NEW k \in Nat, k \in T PROVE k + 1 \in T
  <2> SUFFICES ASSUME k + 1 <= n PROVE \E h : IsJoining(h, W, s, k + 1)
    OBVIOUS
  <2>1. PICK h : IsJoining(h, W, s, k)
    BY <1>2
  <2> DEFINE new == [i \in 0 .. k + 1 |-> IF i = k + 1 THEN h[k] \o s[k + 1] ELSE h[i]]
  <2>2. h[k] \in Seq(W) /\ s[k + 1] \in Seq(W) /\ h[k] \o s[k + 1] \in Seq(W)
    BY <2>1 DEF IsJoining
  <2>3. \A i \in 0 .. k + 1 : i # k + 1 => i \in 0 .. k
    OBVIOUS
  <2>4. new \in [0 .. k + 1 -> Seq(W)]
    BY <2>1, <2>2, <2>3 DEF IsJoining
  <2>5. new[0] = <<>>
    BY <2>1 DEF IsJoining
  <2>6. ASSUME NEW i \in 1 .. k + 1 PROVE new[i] = new[i - 1] \o s[i]
    <3>1. new[i - 1] = h[i - 1]
      OBVIOUS
    <3>2. CASE i = k + 1
      <4>1. k \in 0 .. k + 1 /\ k + 1 \in 0 .. k + 1 /\ k # k + 1 /\ i - 1 = k
        BY <3>2
      <4>2. new[k + 1] = h[k] \o s[k + 1] /\ new[k] = h[k]
        BY <4>1
      <4> HIDE DEF new
      <4> QED
        BY <3>2, <4>1, <4>2
    <3>3. CASE i # k + 1
      <4>1. i \in 1 .. k /\ new[i] = h[i]
        BY <3>3
      <4> QED
        BY <2>1, <3>1, <4>1 DEF IsJoining
    <3> QED
      BY <3>2, <3>3
  <2> HIDE DEF new
  <2>7. IsJoining(new, W, s, k + 1)
    BY <2>4, <2>5, <2>6 DEF IsJoining
  <2> QED
    BY <2>7
<1> HIDE DEF T
<1>3. n \in T
  BY <1>1, <1>2, SetInduction
<1> QED
  BY <1>3 DEF T

LEMMA FlattenRuns ==
  ASSUME NEW W, NEW s \in Seq(Seq(W)), NEW n \in Nat, Len(s) = n
  PROVE  \E h : IsJoining(h, W, s, n) /\ FlattenSeq(s) = h[n]
<1>1. PICK joined : IsJoining(joined, W, s, n)
  BY JoinExists
<1>2. CASE n = 0
  <2>1. FlattenSeq(s) = <<>> /\ joined[n] = <<>>
    BY <1>1, <1>2 DEF FlattenSeq, IsJoining
  <2> QED
    BY <1>1, <2>1
<1>3. CASE n # 0
  <2> DEFINE IsFlatten(f) == f = [i \in 1 .. n |-> IF i = 1 THEN s[i] ELSE f[i - 1] \o s[i]]
             flatten == CHOOSE f : IsFlatten(f)
             f == [i \in 1 .. n |-> joined[i]]
  <2>1. FlattenSeq(s) = flatten[n]
    BY <1>3 DEF FlattenSeq
  <2>2. IsFlatten(f)
    <3> SUFFICES ASSUME NEW i \in 1 .. n
                 PROVE  joined[i] = IF i = 1 THEN s[i] ELSE f[i - 1] \o s[i]
      OBVIOUS
    <3>1. joined[i] = joined[i - 1] \o s[i] /\ joined[0] = <<>>
      BY <1>1 DEF IsJoining
    <3>4. s[i] \in Seq(W)
      OBVIOUS
    <3>2. i # 1 => f[i - 1] = joined[i - 1]
      OBVIOUS
    <3>3. <<>> \o s[i] = s[i]
      BY <3>4
    <3>5. CASE i = 1
      <4>1. joined[i - 1] = <<>>
        BY <3>1, <3>5
      <4> QED
        BY <3>1, <3>3, <3>5, <4>1
    <3>6. CASE i # 1
      BY <3>1, <3>2, <3>6
    <3> QED
      BY <3>5, <3>6
  <2>3. IsFlatten(flatten)
    <3> HIDE DEF IsFlatten, f
    <3> QED
      BY <2>2
  <2> DEFINE h == [k \in 0 .. n |-> IF k = 0 THEN <<>> ELSE flatten[k]]
  <2> HIDE DEF flatten
  <2>4. ASSUME NEW k \in 1 .. n PROVE h[k] = h[k - 1] \o s[k]
    <3>1. flatten[k] = IF k = 1 THEN s[k] ELSE flatten[k - 1] \o s[k]
      BY <2>3
    <3>2. s[k] \in Seq(W)
      OBVIOUS
    <3>3. <<>> \o s[k] = s[k]
      BY <3>2
    <3>4. h[k] = flatten[k] /\ (k = 1 => h[k - 1] = <<>>) /\ (k # 1 => h[k - 1] = flatten[k - 1])
      OBVIOUS
    <3> QED
      BY <3>1, <3>3, <3>4
  <2>5. h[0] = <<>> /\ h[n] = flatten[n] /\ DOMAIN h = 0 .. n /\ h = [k \in 0 .. n |-> h[k]]
    BY <1>3
  <2> HIDE DEF h
  <2>6. \A k \in 1 .. n : h[k - 1] \in Seq(W) => h[k] \in Seq(W)
    <3> SUFFICES ASSUME NEW k \in 1 .. n, h[k - 1] \in Seq(W) PROVE h[k] \in Seq(W)
      OBVIOUS
    <3>1. s[k] \in Seq(W)
      OBVIOUS
    <3>2. h[k - 1] \o s[k] \in Seq(W)
      BY <3>1
    <3> QED
      BY <2>4, <3>2
  <2>7. h[0] \in Seq(W)
    BY <2>5
  <2>8. \A k \in 0 .. n : h[k] \in Seq(W)
    BY <2>6, <2>7, StepInduction
  <2>9. IsJoining(h, W, s, n)
    BY <2>4, <2>5, <2>8 DEF IsJoining
  <2> QED
    BY <2>1, <2>5, <2>9
<1> QED
  BY <1>2, <1>3

\* What is joined so far depends on what came so far.
LEMMA JoinedSoFar ==
  ASSUME NEW W, NEW s, NEW t, NEW n \in Nat, NEW m \in Nat, NEW h, NEW g,
         IsJoining(h, W, s, n), IsJoining(g, W, t, m), m <= n, \A k \in 1 .. m : s[k] = t[k]
  PROVE  \A k \in 0 .. m : h[k] = g[k]
<1> DEFINE T == {k \in Nat : k <= m => h[k] = g[k]}
<1>1. 0 \in T
  BY DEF IsJoining
<1>2. ASSUME NEW k \in Nat, k \in T PROVE k + 1 \in T
  <2> SUFFICES ASSUME k + 1 <= m PROVE h[k + 1] = g[k + 1]
    OBVIOUS
  <2>1. k + 1 \in 1 .. m /\ k + 1 \in 1 .. n /\ (k + 1) - 1 = k /\ h[k] = g[k]
    BY <1>2
  <2>2. h[k + 1] = h[k] \o s[k + 1] /\ g[k + 1] = g[k] \o t[k + 1]
    BY <2>1 DEF IsJoining
  <2> QED
    BY <2>1, <2>2
<1> HIDE DEF T
<1>3. \A k \in Nat : k \in T
  BY <1>1, <1>2, SetInduction
<1> QED
  BY <1>3 DEF T

LEMMA FlattenBeginning ==
  ASSUME NEW W, NEW s \in Seq(Seq(W)), NEW n \in Nat, Len(s) = n, NEW h, IsJoining(h, W, s, n),
         NEW k \in 0 .. n
  PROVE  FlattenSeq(SubSeq(s, 1, k)) = h[k]
<1> DEFINE t == SubSeq(s, 1, k)
<1>1. t \in Seq(Seq(W)) /\ Len(t) = k /\ k \in Nat /\ k <= n /\ \A i \in 1 .. k : s[i] = t[i]
  OBVIOUS
<1> HIDE DEF t
<1>2. PICK g : IsJoining(g, W, t, k) /\ FlattenSeq(t) = g[k]
  BY <1>1, FlattenRuns
<1>3. \A i \in 0 .. k : h[i] = g[i]
  <2> PICK m \in Nat : m = k
    BY <1>1
  <2>1. IsJoining(g, W, t, m) /\ m <= n /\ \A i \in 1 .. m : s[i] = t[i]
    BY <1>1, <1>2
  <2>2. \A i \in 0 .. m : h[i] = g[i]
    BY <2>1, JoinedSoFar
  <2> QED
    BY <2>2
<1>4. k \in 0 .. k
  BY <1>1
<1> QED
  BY <1>2, <1>3, <1>4 DEF t

LEMMA FlattenAppend ==
  ASSUME NEW W, NEW s \in Seq(Seq(W)), NEW x \in Seq(W)
  PROVE  /\ FlattenSeq(s) \in Seq(W)
         /\ FlattenSeq(Append(s, x)) = FlattenSeq(s) \o x
<1> DEFINE t == Append(s, x)
<1>1. PICK n \in Nat : n = Len(s)
  OBVIOUS
<1>2. t \in Seq(Seq(W)) /\ Len(t) = n + 1 /\ t[n + 1] = x /\ \A k \in 1 .. n : t[k] = s[k]
  BY <1>1
<1> HIDE DEF t
<1>3. PICK g : IsJoining(g, W, s, n) /\ FlattenSeq(s) = g[n]
  BY <1>1, FlattenRuns
<1>4. PICK h : IsJoining(h, W, t, n + 1) /\ FlattenSeq(t) = h[n + 1]
  BY <1>2, FlattenRuns
<1>5. \A k \in 0 .. n : h[k] = g[k]
  BY <1>2, <1>3, <1>4, JoinedSoFar
<1>6. g[n] \in Seq(W)
  BY <1>3 DEF IsJoining
<1>7. h[n + 1] = h[n] \o t[n + 1]
  <2>1. n + 1 \in 1 .. n + 1 /\ (n + 1) - 1 = n
    OBVIOUS
  <2>2. h[n + 1] = h[(n + 1) - 1] \o t[n + 1]
    BY <1>4, <2>1 DEF IsJoining
  <2> QED
    BY <2>1, <2>2
<1>8. n \in 0 .. n
  OBVIOUS
<1> QED
  BY <1>2, <1>3, <1>4, <1>5, <1>6, <1>7, <1>8 DEF t

Word == Seq(STRING)
Splits(token) == token.isWord /\ NlpEnclitic(token) # <<>>

\* What is typed has words, whose analyses and enclitics are words too.
LEMMA TypedTokens ==
  ASSUME ConstantsFit, NEW text \in Typed, NEW i \in DOMAIN text
  PROVE  /\ text \in Seq(TokenType) /\ text[i] \in TokenType
         /\ text[i].text \in Word /\ text[i].isWord \in BOOLEAN /\ text[i].text # <<"error">>
         /\ text[i].isWord => /\ text[i].text \in DOMAIN Analyses
                              /\ Analyses[text[i].text] \in Seq(Analysis)
<1>1. text \in Seq(TokenType)
  BY DEF ConstantsFit
<1>2. text[i] \in TokenType
  BY <1>1
<1>3. text[i].text \in Word /\ text[i].isWord \in BOOLEAN
  BY <1>2 DEF TokenType, Word
<1>4. /\ text[i].text # <<"error">>
      /\ text[i].isWord => text[i].text \in DOMAIN Analyses
  BY DEF ConstantsFit
<1>5. \A word \in DOMAIN Analyses : Analyses[word] \in Seq(Analysis)
  BY DEF ConstantsFit
<1> QED
  BY <1>1, <1>2, <1>3, <1>4, <1>5

LEMMA EncliticFits ==
  ASSUME ConstantsFit, NEW text \in Typed, NEW i \in DOMAIN text, text[i].isWord
  PROVE  /\ NlpEnclitic(text[i]) \in Word
         /\ Len(NlpEnclitic(text[i])) <= Len(text[i].text)
<1> DEFINE word == text[i].text
           crunched == Analyses[word]
<1>1. word \in Word /\ word \in DOMAIN Analyses /\ crunched \in Seq(Analysis)
  BY TypedTokens
<1>2. \A k \in DOMAIN crunched : crunched[k].enclitic \in Word
  <2> SUFFICES ASSUME NEW k \in DOMAIN crunched PROVE crunched[k].enclitic \in Word
    OBVIOUS
  <2>1. crunched[k] \in Analysis
    BY <1>1
  <2> QED
    BY <2>1 DEF Analysis, Word
<1>3. \A k \in DOMAIN crunched : Len(crunched[k].enclitic) <= Len(word)
  BY <1>1 DEF ConstantsFit
<1>4. <<>> \in Word /\ Len(<<>>) <= Len(word)
  BY <1>1 DEF Word
<1>5. crunched # <<>> => 1 \in DOMAIN crunched
  BY <1>1
<1> QED
  BY <1>2, <1>3, <1>4, <1>5 DEF NlpEnclitic

\* A word is asked for as one or, with an enclitic, as two parts.
LEMMA PartsOfToken ==
  ASSUME ConstantsFit, NEW text \in Typed, NEW i \in DOMAIN text
  PROVE  LET token == text[i]
             parts == PartsOf(token)
             enclitic == NlpEnclitic(token)
             base == Len(token.text) - Len(enclitic)
         IN /\ parts \in Seq(Word)
            /\ ~ Splits(token) => Len(parts) = 1 /\ parts[1] = token.text
            /\ Splits(token) => /\ base \in 0 .. Len(token.text) /\ Len(parts) = 2
                                /\ parts[1] = SubSeq(token.text, 1, base)
                                /\ parts[2] = SubSeq(token.text, base + 1, Len(token.text))
<1> DEFINE token == text[i]
           parts == PartsOf(token)
           enclitic == NlpEnclitic(token)
           base == Len(token.text) - Len(enclitic)
<1>1. token.text \in Word /\ token.isWord \in BOOLEAN
  BY TypedTokens
<1>2. CASE ~ Splits(token)
  <2>1. parts = <<token.text>>
    BY <1>1, <1>2 DEF PartsOf, Splits
  <2>2. parts \in Seq(Word) /\ Len(parts) = 1 /\ parts[1] = token.text
    BY <1>1, <2>1
  <2> QED
    BY <1>2, <2>2
<1>3. CASE Splits(token)
  <2>1. enclitic \in Word /\ Len(enclitic) <= Len(token.text)
    BY <1>3, EncliticFits DEF Splits
  <2>2. base \in 0 .. Len(token.text)
    <3>1. PICK n \in Nat, m \in Nat : n = Len(token.text) /\ m = Len(enclitic) /\ m <= n
      BY <1>1, <2>1 DEF Word
    <3>2. n - m \in 0 .. n
      BY <3>1
    <3> QED
      BY <3>1, <3>2
  <2> DEFINE first == SubSeq(token.text, 1, base)
             second == SubSeq(token.text, base + 1, Len(token.text))
  <2>3. parts = <<first, second>>
    BY <1>1, <1>3 DEF PartsOf, Splits
  <2>4. first \in Word /\ second \in Word
    <3> HIDE DEF base
    <3>1. PICK n \in Nat : n = Len(token.text) /\ token.text \in Seq(STRING) /\ base \in 0 .. n
      BY <1>1, <2>2 DEF Word
    <3> QED
      BY <3>1 DEF Word
  <2> HIDE DEF first, second
  <2>5. parts \in Seq(Word) /\ Len(parts) = 2 /\ parts[1] = first /\ parts[2] = second
    BY <2>3, <2>4
  <2> QED
    BY <1>3, <2>2, <2>5 DEF first, second
<1> QED
  BY <1>2, <1>3

Parts(text) == [i \in DOMAIN text |-> PartsOf(text[i])]
SplitBefore(text, k) == {j \in 1 .. k : Splits(text[j])}

\* The words of a text are those of its tokens, one after the other.
LEMMA WordsOfText ==
  ASSUME ConstantsFit, NEW text \in Typed, NEW n \in Nat, Len(text) = n
  PROVE  /\ Parts(text) \in Seq(Seq(Word)) /\ Len(Parts(text)) = n
         /\ \E h : /\ IsJoining(h, Word, Parts(text), n) /\ WordsOf(text) = h[n]
                   /\ \A k \in 0 .. n : WordsOf(SubSeq(text, 1, k)) = h[k]
<1>1. text \in Seq(TokenType) /\ DOMAIN text = 1 .. n
  BY DEF ConstantsFit
<1>2. Parts(text) \in [1 .. n -> Seq(Word)]
  BY <1>1, PartsOfToken DEF Parts
<1>3. Parts(text) \in Seq(Seq(Word)) /\ Len(Parts(text)) = n
  <2> HIDE DEF Parts
  <2>1. Parts(text) \in Seq(Seq(Word))
    BY <1>2, FunctionIsSeq
  <2> QED
    BY <1>2, <2>1
<1>4. PICK h : IsJoining(h, Word, Parts(text), n)
  BY <1>3, JoinExists
<1>5. ASSUME NEW k \in 0 .. n PROVE WordsOf(SubSeq(text, 1, k)) = h[k]
  <2> DEFINE t == SubSeq(text, 1, k)
  <2>1. DOMAIN t = 1 .. k /\ \A i \in 1 .. k : t[i] = text[i]
    BY <1>1
  <2>2. SubSeq(Parts(text), 1, k) = [i \in 1 .. k |-> Parts(text)[i]]
    BY <1>3
  <2>3. \A i \in 1 .. k : Parts(text)[i] = PartsOf(t[i])
    BY <1>1, <2>1 DEF Parts
  <2>4. [i \in DOMAIN t |-> PartsOf(t[i])] = SubSeq(Parts(text), 1, k)
    BY <2>1, <2>2, <2>3
  <2>5. FlattenSeq(SubSeq(Parts(text), 1, k)) = h[k]
    BY <1>3, <1>4, FlattenBeginning
  <2> QED
    BY <2>4, <2>5 DEF WordsOf
<1>6. SubSeq(text, 1, n) = text /\ n \in 0 .. n
  BY <1>1
<1> QED
  BY <1>3, <1>4, <1>5, <1>6

LEMMA SplitsAreCounted ==
  ASSUME NEW text, NEW k \in Nat
  PROVE  /\ IsFiniteSet(SplitBefore(text, k)) /\ Cardinality(SplitBefore(text, k)) \in Nat
         /\ Cardinality(SplitBefore(text, k + 1)) =
              Cardinality(SplitBefore(text, k)) + (IF Splits(text[k + 1]) THEN 1 ELSE 0)
<1>1. IsFiniteSet(1 .. k) /\ SplitBefore(text, k) \subseteq 1 .. k
  BY FS_Interval DEF SplitBefore
<1>2. IsFiniteSet(SplitBefore(text, k))
  BY <1>1, FS_Subset
<1>3. \A j : j \in 1 .. k + 1 <=> j \in 1 .. k \/ j = k + 1
  OBVIOUS
<1>4. k + 1 \notin 1 .. k
  OBVIOUS
<1>5. CASE Splits(text[k + 1])
  <2>1. SplitBefore(text, k + 1) = SplitBefore(text, k) \cup {k + 1}
    BY <1>3, <1>5 DEF SplitBefore
  <2>2. k + 1 \notin SplitBefore(text, k)
    BY <1>4 DEF SplitBefore
  <2>3. Cardinality(SplitBefore(text, k) \cup {k + 1}) = Cardinality(SplitBefore(text, k)) + 1
    BY <1>2, <2>2, FS_AddElement
  <2> QED
    BY <1>2, <1>5, <2>1, <2>3, FS_CardinalityType
<1>6. CASE ~ Splits(text[k + 1])
  <2>1. SplitBefore(text, k + 1) = SplitBefore(text, k)
    BY <1>3, <1>6 DEF SplitBefore
  <2>2. Cardinality(SplitBefore(text, k)) \in Nat
    BY <1>2, FS_CardinalityType
  <2> QED
    BY <1>2, <1>6, <2>1, <2>2
<1> QED
  BY <1>5, <1>6

\* The first word of a token comes after those of the tokens before it, and
\* as many more as have an enclitic.
LEMMA PlaceIs ==
  ASSUME ConstantsFit, NEW text \in Typed, NEW i \in DOMAIN text
  PROVE  LET place == Place(text, i)
             words == WordsOf(text)
             parts == PartsOf(text[i])
         IN /\ words \in Seq(Word)
            /\ place = i + Cardinality(SplitBefore(text, i - 1))
            /\ place \in Nat /\ place >= 1
            /\ \A k \in 1 .. Len(parts) :
                 place + k - 1 <= Len(words) /\ words[place + k - 1] = parts[k]
<1>1. PICK n \in Nat : n = Len(text) /\ DOMAIN text = 1 .. n
  BY DEF ConstantsFit
<1>2. PICK h : /\ IsJoining(h, Word, Parts(text), n) /\ WordsOf(text) = h[n]
               /\ \A k \in 0 .. n : WordsOf(SubSeq(text, 1, k)) = h[k]
  BY <1>1, WordsOfText
<1>3. /\ h \in [0 .. n -> Seq(Word)] /\ h[0] = <<>>
      /\ \A k \in 1 .. n : h[k] = h[k - 1] \o PartsOf(text[k])
  BY <1>1, <1>2 DEF IsJoining, Parts
<1> DEFINE T == {k \in Nat : k <= n => Len(h[k]) = k + Cardinality(SplitBefore(text, k))}
<1>4. 0 \in T
  <2>1. SplitBefore(text, 0) = {} /\ Len(h[0]) = 0
    BY <1>3 DEF SplitBefore
  <2>2. Cardinality(SplitBefore(text, 0)) = 0
    BY <2>1, FS_EmptySet
  <2> QED
    BY <2>1, <2>2
<1>5. ASSUME NEW k \in Nat, k \in T PROVE k + 1 \in T
  <2> SUFFICES ASSUME k + 1 <= n
               PROVE  Len(h[k + 1]) = (k + 1) + Cardinality(SplitBefore(text, k + 1))
    OBVIOUS
  <2>1. k + 1 \in 1 .. n /\ (k + 1) - 1 = k /\ k \in 0 .. n
    OBVIOUS
  <2>2. Len(h[k]) = k + Cardinality(SplitBefore(text, k)) /\ h[k] \in Seq(Word)
    BY <1>3, <1>5, <2>1
  <2> DEFINE parts == PartsOf(text[k + 1])
  <2>3. parts \in Seq(Word) /\ Len(parts) = IF Splits(text[k + 1]) THEN 2 ELSE 1
    BY <1>1, <2>1, PartsOfToken
  <2>4. h[k + 1] = h[k] \o parts
    BY <1>3, <2>1
  <2> HIDE DEF parts
  <2>5. Len(h[k] \o parts) = Len(h[k]) + Len(parts)
    <3>1. \A q, r \in Seq(Word) : Len(q \o r) = Len(q) + Len(r)
      OBVIOUS
    <3> QED
      BY <2>2, <2>3, <3>1
  <2>6. PICK c \in Nat : c = Cardinality(SplitBefore(text, k))
    BY SplitsAreCounted
  <2>7. Cardinality(SplitBefore(text, k + 1)) = c + (IF Splits(text[k + 1]) THEN 1 ELSE 0)
    BY <2>6, SplitsAreCounted
  <2>8. Len(h[k + 1]) = k + c + (IF Splits(text[k + 1]) THEN 2 ELSE 1)
    BY <2>2, <2>3, <2>4, <2>5, <2>6
  <2> QED
    BY <2>7, <2>8
<1> HIDE DEF T
<1>6. \A k \in Nat : k \in T
  BY <1>4, <1>5, SetInduction
<1>7. \A k \in 0 .. n : Len(h[k]) = k + Cardinality(SplitBefore(text, k)) /\ h[k] \in Seq(Word)
  BY <1>3, <1>6 DEF T
\* What is joined stays.
<1> DEFINE Stays(k) == Len(h[i]) <= Len(h[k]) /\ \A j \in 1 .. Len(h[i]) : h[k][j] = h[i][j]
           U == {k \in Nat : i <= k /\ k <= n => Stays(k)}
<1>8. 0 \in U
  BY <1>1
<1>9. ASSUME NEW k \in Nat, k \in U PROVE k + 1 \in U
  <2> SUFFICES ASSUME i <= k + 1, k + 1 <= n PROVE Stays(k + 1)
    OBVIOUS
  <2>1. CASE i = k + 1
    BY <1>1, <1>7, <2>1
  <2>2. CASE i # k + 1
    <3>1. i <= k /\ k + 1 \in 1 .. n /\ k \in 0 .. n /\ i \in 0 .. n /\ (k + 1) - 1 = k
      BY <1>1, <2>2
    <3>2. Stays(k)
      BY <1>9, <3>1
    <3> DEFINE parts == PartsOf(text[k + 1])
    <3>3. parts \in Seq(Word) /\ h[k + 1] = h[k] \o parts
      BY <1>1, <1>3, <3>1, PartsOfToken
    <3>4. h[k] \in Seq(Word) /\ h[i] \in Seq(Word)
      BY <1>7, <3>1
    <3> HIDE DEF parts
    <3>5. Len(h[k + 1]) >= Len(h[k]) /\ \A j \in 1 .. Len(h[k]) : h[k + 1][j] = h[k][j]
      BY <3>3, <3>4
    <3>6. Len(h[i]) \in Nat /\ Len(h[k]) \in Nat /\ Len(h[k + 1]) \in Nat
      BY <3>3, <3>4
    <3> QED
      BY <3>2, <3>5, <3>6
  <2> QED
    BY <2>1, <2>2
<1> HIDE DEF U
<1>10. Stays(n)
  <2>1. n \in U /\ i <= n
    BY <1>1, <1>8, <1>9, SetInduction
  <2> QED
    BY <2>1 DEF U
<1> DEFINE place == Place(text, i)
           words == WordsOf(text)
           parts == PartsOf(text[i])
           before == Cardinality(SplitBefore(text, i - 1))
<1>11. i - 1 \in 0 .. n /\ i \in 1 .. n /\ n \in 0 .. n /\ i \in 0 .. n /\ i - 1 \in Nat /\ i \in Nat
  BY <1>1
<1>12. before \in Nat
  BY <1>11, SplitsAreCounted
<1>13. place = 1 + Len(h[i - 1]) /\ Len(h[i - 1]) = (i - 1) + before /\ words = h[n]
  BY <1>2, <1>7, <1>11 DEF Place
<1>14. h[i] = h[i - 1] \o parts /\ parts \in Seq(Word) /\ h[i - 1] \in Seq(Word) /\ h[n] \in Seq(Word)
  BY <1>3, <1>7, <1>11, PartsOfToken
<1> HIDE DEF place, words, parts, before
<1>15. place = i + before /\ place \in Nat /\ place >= 1
  BY <1>11, <1>12, <1>13
<1>16. ASSUME NEW k \in 1 .. Len(parts)
       PROVE  place + k - 1 <= Len(words) /\ words[place + k - 1] = parts[k]
  <2>1. PICK m \in Nat, l \in Nat : m = Len(h[i - 1]) /\ l = Len(parts)
    BY <1>14
  <2>2. Len(h[i]) = m + l /\ k \in 1 .. l /\ h[i][m + k] = parts[k]
    BY <1>14, <2>1
  <2>3. place + k - 1 = m + k /\ m + k \in 1 .. Len(h[i])
    BY <1>13, <2>1, <2>2
  <2>4. Len(h[i]) <= Len(h[n]) /\ h[n][m + k] = h[i][m + k]
    BY <1>10, <2>3
  <2>5. Len(h[n]) \in Nat
    BY <1>14
  <2> QED
    BY <1>13, <2>2, <2>3, <2>4, <2>5
<1> QED
  BY <1>13, <1>14, <1>15, <1>16 DEF place, words, parts, before

LEMMA SentencesHaveWords ==
  ASSUME NEW W, NEW words \in Seq(W)
  PROVE  FlattenSeq(SentenceSegment(words)) = words
<1>1. PICK n \in Nat : n = Len(words) /\ DOMAIN words = 1 .. n
  OBVIOUS
<1>2. PICK h : IsSegmenting(h, W, words, n) /\ SentenceSegment(words) = h[n]
  BY <1>1, SegmentRuns
<1> DEFINE T == {k \in Nat : k <= n => FlattenSeq(h[k]) = SubSeq(words, 1, k)}
<1>3. 0 \in T
  <2>1. FlattenSeq(<<>>) = <<>>
    BY DEF FlattenSeq
  <2>2. SubSeq(words, 1, 0) = <<>> /\ h[0] = <<>>
    BY <1>1, <1>2 DEF IsSegmenting
  <2> QED
    BY <2>1, <2>2
<1>4. ASSUME NEW k \in Nat, k \in T PROVE k + 1 \in T
  <2> SUFFICES ASSUME k + 1 <= n
               PROVE  FlattenSeq(h[k + 1]) = SubSeq(words, 1, k + 1)
    OBVIOUS
  <2> DEFINE word == words[k + 1]
             q == h[k]
  <2>1. k + 1 \in 1 .. n /\ (k + 1) - 1 = k /\ k \in 0 .. n
    OBVIOUS
  <2>2. word \in W /\ SubSeq(words, 1, k) \in Seq(W)
        /\ SubSeq(words, 1, k + 1) = Append(SubSeq(words, 1, k), word)
    BY <1>1, <2>1
  <2>3. FlattenSeq(q) = SubSeq(words, 1, k) /\ q \in Sentences(W)
    BY <1>2, <1>4, <2>1 DEF IsSegmenting
  <2>4. \/ h[k + 1] = Append(q, <<word>>)
        \/ q # <<>> /\ h[k + 1] = AddToLast(q, word)
    BY <1>2, <2>1 DEF IsSegmenting
  <2> HIDE DEF q, word
  <2>5. CASE h[k + 1] = Append(q, <<word>>)
    <3>1. q \in Seq(Seq(W)) /\ <<word>> \in Seq(W)
      BY <2>2, <2>3 DEF Sentences
    <3>2. FlattenSeq(Append(q, <<word>>)) = FlattenSeq(q) \o <<word>>
      BY <3>1, FlattenAppend
    <3>3. \A s \in Seq(W) : s \o <<word>> = Append(s, word)
      BY <2>2
    <3> QED
      BY <2>2, <2>3, <2>5, <3>2, <3>3
  <2>6. CASE q # <<>> /\ h[k + 1] = AddToLast(q, word)
    <3>1. PICK m \in Nat : m = Len(q) /\ m > 0 /\ DOMAIN q = 1 .. m
      BY <2>3, <2>6 DEF Sentences
    <3> DEFINE front == SubSeq(q, 1, m - 1)
               last == q[m]
    <3>2. front \in Seq(Seq(W)) /\ last \in Seq(W) /\ Append(last, word) \in Seq(W)
      BY <2>2, <2>3, <3>1 DEF Sentences
    <3>3. q = Append(front, last) /\ AddToLast(q, word) = Append(front, Append(last, word))
      BY <2>3, <3>1 DEF AddToLast, Sentences
    <3> HIDE DEF front, last
    <3>4. /\ FlattenSeq(q) = FlattenSeq(front) \o last
          /\ FlattenSeq(h[k + 1]) = FlattenSeq(front) \o Append(last, word)
          /\ FlattenSeq(front) \in Seq(W)
      BY <2>6, <3>2, <3>3, FlattenAppend
    <3>5. \A r, s \in Seq(W) : r \o Append(s, word) = Append(r \o s, word)
      BY <2>2
    <3> QED
      BY <2>2, <2>3, <3>2, <3>4, <3>5
  <2> QED
    BY <2>4, <2>5, <2>6
<1> HIDE DEF T
<1>5. n \in T
  BY <1>3, <1>4, SetInduction
<1>6. SubSeq(words, 1, n) = words
  BY <1>1
<1> QED
  BY <1>2, <1>5, <1>6 DEF T

\* A tagger that answers for every word answers for the words of the text.
LEMMA AnswersForWords ==
  ASSUME ConstantsFit, NEW text \in Typed, NEW tags \in Answers(text),
         tags # NoAnswer, Len(tags) = Len(WordsOf(text)), text # <<>>
  PROVE  LET words == WordsOf(text)
         IN DOMAIN tags = 1 .. Len(words) /\ \A k \in 1 .. Len(words) : tags[k].text = words[k]
<1> DEFINE words == WordsOf(text)
<1>1. words \in Seq(Word) /\ Len(words) \in Nat /\ DOMAIN words = 1 .. Len(words)
  <2>1. PICK n \in Nat : n = Len(text) /\ text \in Seq(TokenType)
    BY DEF ConstantsFit
  <2>2. PICK h : IsJoining(h, Word, Parts(text), n) /\ words = h[n]
    BY <2>1, WordsOfText
  <2>3. words \in Seq(Word)
    BY <2>1, <2>2 DEF IsJoining
  <2> QED
    BY <2>3
<1>2. Len(words) >= 1
  <2>1. 1 \in DOMAIN text
    BY DEF ConstantsFit
  <2>2. LET place == Place(text, 1)
        IN place \in Nat /\ place >= 1
           /\ \A k \in 1 .. Len(PartsOf(text[1])) : place + k - 1 <= Len(words)
    BY <2>1, PlaceIs
  <2>3. 1 \in 1 .. Len(PartsOf(text[1]))
    <3>1. PICK p \in {1, 2} : p = Len(PartsOf(text[1]))
      BY <2>1, PartsOfToken
    <3>2. 1 \in 1 .. p
      OBVIOUS
    <3> QED
      BY <3>1, <3>2
  <2> QED
    BY <1>1, <2>2, <2>3
<1>3. FlattenSeq(SentenceSegment(words)) = words
  BY <1>1, SentencesHaveWords
<1>4. PICK t \in Taggings : tags = TagsOf(words, t) \/ tags = Front(TagsOf(words, t))
  BY <1>3 DEF Answers
<1> HIDE DEF words
<1> DEFINE all == TagsOf(words, t)
<1>5. DOMAIN all = 1 .. Len(words) /\ \A k \in 1 .. Len(words) : all[k].text = words[k]
  BY <1>1 DEF TagsOf
<1>6. Len(all) = Len(words)
  BY <1>1, <1>5 DEF TagsOf
<1>7. Len(Front(all)) # Len(words)
  <2>1. Front(all) = SubSeq(all, 1, Len(words) - 1)
    BY <1>6 DEF Front
  <2> HIDE DEF all
  <2>2. SubSeq(all, 1, Len(words) - 1) = [k \in 1 .. Len(words) - 1 |-> all[1 + k - 1]]
    BY <1>1, <1>2
  <2>3. Len([k \in 1 .. Len(words) - 1 |-> all[1 + k - 1]]) = Len(words) - 1
    BY <1>1, <1>2
  <2>4. \A m \in Nat : m - 1 # m
    OBVIOUS
  <2> QED
    BY <1>1, <2>1, <2>2, <2>3, <2>4
<1> QED
  BY <1>4, <1>5, <1>7 DEF words

\* A word ends on another when its letters are the other's last ones.
LEMMA SuffixIs ==
  ASSUME NEW W, NEW s \in Seq(W), NEW t \in Seq(W), Len(s) <= Len(t)
  PROVE  IsSuffix(s, t) <=> SubSeq(t, (Len(t) - Len(s)) + 1, Len(t)) = s
<1>1. PICK n \in Nat, m \in Nat : n = Len(s) /\ m = Len(t) /\ DOMAIN s = 1 .. n /\ DOMAIN t = 1 .. m
  OBVIOUS
<1> DEFINE rs == Reverse(s)
           rt == Reverse(t)
<1>2. rs = [i \in 1 .. n |-> s[(n - i) + 1]] /\ rt = [i \in 1 .. m |-> t[(m - i) + 1]]
  BY <1>1 DEF Reverse
<1>3. Len(rs) = n /\ Len(rt) = m /\ rs \in Seq(W) /\ rt \in Seq(W)
  <2>1. \A i \in 1 .. n : (n - i) + 1 \in 1 .. n
    OBVIOUS
  <2>2. \A i \in 1 .. m : (m - i) + 1 \in 1 .. m
    OBVIOUS
  <2>3. rs \in [1 .. n -> W] /\ rt \in [1 .. m -> W]
    BY <1>1, <1>2, <2>1, <2>2
  <2> HIDE DEF rs, rt
  <2>4. rs \in Seq(W) /\ rt \in Seq(W)
    BY <2>3, FunctionIsSeq
  <2> QED
    BY <2>3, <2>4
<1> HIDE DEF rs, rt
<1>4. SubSeq(rs, 1, n) = rs /\ SubSeq(rt, 1, n) = [i \in 1 .. n |-> rt[i]]
  BY <1>1, <1>3
<1>5. IsSuffix(s, t) <=> \A i \in 1 .. n : s[(n - i) + 1] = t[(m - i) + 1]
  <2>1. IsSuffix(s, t) <=> rs = [i \in 1 .. n |-> rt[i]]
    BY <1>1, <1>3, <1>4 DEF IsSuffix, IsPrefix, rs, rt
  <2>2. \A i \in 1 .. n : i \in 1 .. m
    BY <1>1
  <2>3. rs = [i \in 1 .. n |-> rt[i]] <=> \A i \in 1 .. n : rs[i] = rt[i]
    BY <1>2
  <2>4. \A i \in 1 .. n : rs[i] = s[(n - i) + 1] /\ rt[i] = t[(m - i) + 1]
    BY <1>2, <2>2
  <2> QED
    BY <2>1, <2>3, <2>4
<1>6. SubSeq(t, (m - n) + 1, m) = [j \in 1 .. n |-> t[(m - n) + j]]
  <2>1. (m - n) + 1 >= 1 /\ m - ((m - n) + 1) + 1 = n
    BY <1>1
  <2>2. \A j \in 1 .. n : ((m - n) + 1) + j - 1 = (m - n) + j
    BY <1>1
  <2> QED
    BY <1>1, <2>1, <2>2
<1>7. SubSeq(t, (m - n) + 1, m) = s <=> \A j \in 1 .. n : s[j] = t[(m - n) + j]
  <2>1. s = [j \in 1 .. n |-> s[j]]
    BY <1>1
  <2> QED
    BY <1>6, <2>1
<1>8. (\A i \in 1 .. n : s[(n - i) + 1] = t[(m - i) + 1]) <=> \A j \in 1 .. n : s[j] = t[(m - n) + j]
  <2>1. \A i \in 1 .. n : (n - i) + 1 \in 1 .. n /\ (m - n) + ((n - i) + 1) = (m - i) + 1
    BY <1>1
  <2>2. \A j \in 1 .. n : /\ (n - j) + 1 \in 1 .. n
                          /\ (n - ((n - j) + 1)) + 1 = j
                          /\ (m - ((n - j) + 1)) + 1 = (m - n) + j
    BY <1>1
  <2>3. ASSUME \A j \in 1 .. n : s[j] = t[(m - n) + j], NEW i \in 1 .. n
        PROVE  s[(n - i) + 1] = t[(m - i) + 1]
    BY <2>1, <2>3
  <2>4. ASSUME \A i \in 1 .. n : s[(n - i) + 1] = t[(m - i) + 1], NEW j \in 1 .. n
        PROVE  s[j] = t[(m - n) + j]
    BY <2>2, <2>4
  <2> QED
    BY <2>3, <2>4
<1> QED
  BY <1>1, <1>5, <1>7, <1>8

\* The tags of a text that is answered word by word fit its tokens, but for an
\* enclitic that is written in another way.
LEMMA TagsFitWellWritten ==
  ASSUME ConstantsFit, NEW text \in Typed, NEW i \in DOMAIN text, text[i].isWord,
         NEW tags, NEW l \in Nat, Len(tags) = l, l = Len(WordsOf(text)),
         \A k \in 1 .. l : tags[k].text = WordsOf(text)[k]
  PROVE  TagsFit(text[i], Place(text, i), tags) <=> WellWritten(text[i])
<1> DEFINE token == text[i]
           parts == PartsOf(token)
           enclitic == NlpEnclitic(token)
           place == Place(text, i)
           base == Len(token.text) - Len(enclitic)
<1>1. /\ place \in Nat /\ place >= 1
      /\ \A k \in 1 .. Len(parts) :
           place + k - 1 <= l /\ WordsOf(text)[place + k - 1] = parts[k]
  BY PlaceIs
<1>2. /\ token.text \in Word /\ enclitic \in Word /\ Len(enclitic) <= Len(token.text)
      /\ parts \in Seq(Word)
  BY TypedTokens, EncliticFits, PartsOfToken
<1>3. /\ ~ Splits(token) => Len(parts) = 1 /\ parts[1] = token.text
      /\ Splits(token) => /\ base \in 0 .. Len(token.text) /\ Len(parts) = 2
                          /\ parts[1] = SubSeq(token.text, 1, base)
                          /\ parts[2] = SubSeq(token.text, base + 1, Len(token.text))
  BY PartsOfToken
<1>4. Splits(token) <=> enclitic # <<>>
  BY DEF Splits
<1>5. WellWritten(token) <=> SubSeq(token.text, base + 1, Len(token.text)) = enclitic
  <2>1. IsSuffix(enclitic, token.text) <=> SubSeq(token.text, base + 1, Len(token.text)) = enclitic
    BY <1>2, SuffixIs DEF Word
  <2> QED
    BY <2>1 DEF WellWritten
<1>6. PICK n \in Nat : n = Len(token.text) /\ token.text \in Seq(STRING)
  BY <1>2 DEF Word
<1>7. ASSUME NEW b \in 0 .. n PROVE IsPrefix(SubSeq(token.text, 1, b), token.text)
  <2> DEFINE begin == SubSeq(token.text, 1, b)
  <2>1. begin \in Seq(STRING) /\ Len(begin) = b /\ \A j \in 1 .. b : begin[j] = token.text[j]
    BY <1>6, <1>7
  <2>2. SubSeq(begin, 1, b) = begin
    BY <1>6, <2>1
  <2> QED
    BY <1>6, <2>1, <2>2 DEF IsPrefix
<1>8. SubSeq(token.text, 1, n) = token.text
  BY <1>6
<1> HIDE DEF parts, place, enclitic, base
<1>9. place + 1 - 1 = place /\ place + 2 - 1 = place + 1
  BY <1>1
<1>10. PICK p \in {1, 2} : p = Len(parts)
  BY <1>3
<1>11. place <= l /\ place \in 1 .. l /\ tags[place].text = parts[1]
  <2>1. 1 \in 1 .. p
    OBVIOUS
  <2>2. place + 1 - 1 <= l /\ WordsOf(text)[place + 1 - 1] = parts[1]
    BY <1>1, <1>10, <2>1
  <2>3. place <= l /\ place \in 1 .. l /\ WordsOf(text)[place] = parts[1]
    BY <1>1, <1>9, <2>2
  <2> QED
    BY <2>3
<1>12. CASE Splits(token)
  <2>0. Len(parts) = 2
    BY <1>3, <1>12
  <2>1. 2 \in 1 .. Len(parts)
    BY <2>0
  <2>2. place + 2 - 1 <= l /\ WordsOf(text)[place + 2 - 1] = parts[2]
    BY <1>1, <2>1
  <2>3. place < l /\ place + 1 \in 1 .. l /\ WordsOf(text)[place + 1] = parts[2]
    BY <1>1, <1>9, <2>2
  <2>4. tags[place + 1].text = parts[2]
    BY <2>3
  <2>5. IsPrefix(tags[place].text, token.text)
    BY <1>3, <1>6, <1>7, <1>11, <1>12
  <2> QED
    BY <1>3, <1>4, <1>5, <1>11, <1>12, <2>3, <2>4, <2>5 DEF TagsFit, enclitic, place
<1>13. CASE ~ Splits(token)
  <2>1. IsPrefix(tags[place].text, token.text)
    <3>1. IsPrefix(SubSeq(token.text, 1, n), token.text)
      BY <1>6, <1>7
    <3> QED
      BY <1>3, <1>8, <1>11, <1>13, <3>1
  <2>2. WellWritten(token)
    <3>1. enclitic = <<>> /\ Len(enclitic) = 0
      BY <1>4, <1>13
    <3>2. SubSeq(token.text, n + 1, n) = <<>>
      BY <1>6
    <3>3. base + 1 = n + 1
      BY <1>6, <3>1 DEF base
    <3> QED
      BY <1>5, <1>6, <3>1, <3>2, <3>3
  <2> QED
    BY <1>4, <1>11, <1>13, <2>1, <2>2 DEF TagsFit, enclitic, place
<1> QED
  BY <1>12, <1>13

-----------------------------------------------------------------------------
\* The options of a word.

\* The analyses with a form.
OfForm(crunched, form) == {r \in ToSet(crunched) : r.longs = form}

\* The readings of analyses by lemma are those of the analyses.
LEMMA ByLemmaHasReadings ==
  ASSUME NEW crunched \in Seq(Analysis)
  PROVE  LET sorted == SortByLemma(crunched)
         IN UNION {{[lemma |-> o.lemma, data |-> morph] : morph \in ToSet(o.morph)} :
                     o \in ToSet(sorted)}
            = {[lemma |-> r.lemma, data |-> r.data] : r \in ToSet(crunched)}
<1> DEFINE lemmas == [k \in DOMAIN crunched |-> crunched[k].lemma]
           distinct == Distinct(lemmas)
           Own(lemma) == Kept(crunched, {r \in ToSet(crunched) : r.lemma = lemma})
           Morph(lemma) == [k \in DOMAIN Own(lemma) |-> Own(lemma)[k].data]
           sorted == SortByLemma(crunched)
           left == UNION {{[lemma |-> o.lemma, data |-> morph] : morph \in ToSet(o.morph)} :
                           o \in ToSet(sorted)}
           right == {[lemma |-> r.lemma, data |-> r.data] : r \in ToSet(crunched)}
<1>1. PICK n \in Nat : n = Len(crunched) /\ DOMAIN crunched = 1 .. n
  OBVIOUS
<1>2. lemmas \in Seq(Seq(STRING))
  <2>1. \A k \in 1 .. n : crunched[k].lemma \in Seq(STRING)
    <3> SUFFICES ASSUME NEW k \in 1 .. n PROVE crunched[k].lemma \in Seq(STRING)
      OBVIOUS
    <3>1. crunched[k] \in Analysis
      BY <1>1
    <3> QED
      BY <3>1 DEF Analysis
  <2>2. lemmas \in [1 .. n -> Seq(STRING)]
    BY <1>1, <2>1
  <2> HIDE DEF lemmas
  <2> QED
    BY <2>2, FunctionIsSeq
<1>3. ToSet(distinct) = ToSet(lemmas)
  BY <1>2, DistinctIs
<1>4. \A lemma : ToSet(Own(lemma)) = {r \in ToSet(crunched) : r.lemma = lemma}
  <2> SUFFICES ASSUME NEW lemma
               PROVE  ToSet(Own(lemma)) = {r \in ToSet(crunched) : r.lemma = lemma}
    OBVIOUS
  <2> DEFINE own == {r \in ToSet(crunched) : r.lemma = lemma}
  <2>1. own \subseteq ToSet(crunched)
    OBVIOUS
  <2> HIDE DEF own
  <2>2. ToSet(Kept(crunched, own)) = ToSet(crunched) \cap own
    BY KeptIs
  <2> QED
    BY <2>1, <2>2 DEF own
<1>5. \A lemma : ToSet(Morph(lemma)) = {r.data : r \in {q \in ToSet(crunched) : q.lemma = lemma}}
  <2> SUFFICES ASSUME NEW lemma
               PROVE  ToSet(Morph(lemma)) = {r.data : r \in ToSet(Own(lemma))}
    BY <1>4
  <2> HIDE DEF Own
  <2> QED
    BY DEF ToSet
<1>6. sorted = [k \in DOMAIN distinct |-> [lemma |-> distinct[k], morph |-> Morph(distinct[k])]]
  BY DEF SortByLemma
<1> HIDE DEF Own, Morph, sorted, distinct
<1>7. ToSet(sorted) = {[lemma |-> lemma, morph |-> Morph(lemma)] : lemma \in ToSet(distinct)}
  BY <1>6 DEF ToSet
<1>8. ToSet(lemmas) = {r.lemma : r \in ToSet(crunched)}
  BY DEF ToSet
<1> HIDE DEF lemmas
<1>9. ASSUME NEW x \in left PROVE x \in right
  <2>0. PICK o \in ToSet(sorted) :
          \E morph \in ToSet(o.morph) : x = [lemma |-> o.lemma, data |-> morph]
    OBVIOUS
  <2>1. PICK morph \in ToSet(o.morph) : x = [lemma |-> o.lemma, data |-> morph]
    BY <2>0
  <2>2. PICK lemma \in ToSet(distinct) : o = [lemma |-> lemma, morph |-> Morph(lemma)]
    BY <1>7
  <2>3. morph \in ToSet(Morph(lemma)) /\ o.lemma = lemma
    BY <2>1, <2>2
  <2>4. PICK r \in ToSet(crunched) : r.lemma = lemma /\ morph = r.data
    BY <1>5, <2>3
  <2> QED
    BY <2>1, <2>3, <2>4
<1>10. ASSUME NEW x \in right PROVE x \in left
  <2>1. PICK r \in ToSet(crunched) : x = [lemma |-> r.lemma, data |-> r.data]
    OBVIOUS
  <2> DEFINE o == [lemma |-> r.lemma, morph |-> Morph(r.lemma)]
  <2>2. o \in ToSet(sorted)
    BY <1>3, <1>7, <1>8
  <2>3. r.data \in ToSet(Morph(r.lemma))
    BY <1>5
  <2>4. r.data \in ToSet(o.morph) /\ x = [lemma |-> o.lemma, data |-> r.data]
    BY <2>1, <2>3
  <2> HIDE DEF o
  <2>5. x \in {[lemma |-> o.lemma, data |-> morph] : morph \in ToSet(o.morph)}
    BY <2>4
  <2> QED
    BY <2>2, <2>5, Zenon
<1> QED
  BY <1>9, <1>10 DEF sorted

\* The options before any is left out: one for every form, which has the readings
\* of the analyses with that form.
LEMMA ByFormHasForms ==
  ASSUME NEW crunched \in Seq(Analysis)
  PROVE  LET all == SortCrunchResults(crunched)
         IN /\ all \in Seq(ToSet(all)) /\ IsInjective(all)
            /\ {o.form : o \in ToSet(all)} = {r.longs : r \in ToSet(crunched)}
            /\ \A o, p \in ToSet(all) : o.form = p.form => o = p
            /\ \A o \in ToSet(all) :
                 /\ o.form \in SUBSET Nat
                 /\ Readings(o) =
                      {[lemma |-> r.lemma, data |-> r.data] : r \in OfForm(crunched, o.form)}
<1> DEFINE longs == [k \in DOMAIN crunched |-> crunched[k].longs]
           forms == Distinct(longs)
           Own(form) == Kept(crunched, {r \in ToSet(crunched) : r.longs = form})
           all == SortCrunchResults(crunched)
<1>1. PICK n \in Nat : n = Len(crunched) /\ DOMAIN crunched = 1 .. n
  OBVIOUS
<1>2. longs \in Seq(SUBSET Nat)
  <2>1. \A k \in 1 .. n : crunched[k].longs \in SUBSET Nat
    <3> SUFFICES ASSUME NEW k \in 1 .. n PROVE crunched[k].longs \in SUBSET Nat
      OBVIOUS
    <3>1. crunched[k] \in Analysis
      BY <1>1
    <3> QED
      BY <3>1 DEF Analysis
  <2>2. longs \in [1 .. n -> SUBSET Nat]
    BY <1>1, <2>1
  <2> HIDE DEF longs
  <2> QED
    BY <2>2, FunctionIsSeq
<1>3. /\ forms \in Seq(SUBSET Nat) /\ IsInjective(forms)
      /\ ToSet(forms) = ToSet(longs)
  BY <1>2, DistinctIs
<1>4. all = [k \in DOMAIN forms |->
               [form |-> forms[k], options |-> SortByLemma(Own(forms[k]))]]
  BY DEF SortCrunchResults
<1>5. ToSet(longs) = {r.longs : r \in ToSet(crunched)}
  BY DEF ToSet
<1>6. ASSUME NEW form
      PROVE  Own(form) \in Seq(Analysis) /\ ToSet(Own(form)) = OfForm(crunched, form)
  <2>1. OfForm(crunched, form) \subseteq ToSet(crunched)
    BY DEF OfForm
  <2>2. Own(form) = Kept(crunched, OfForm(crunched, form))
    BY DEF OfForm
  <2>3. /\ Kept(crunched, OfForm(crunched, form)) \in Seq(Analysis)
        /\ ToSet(Kept(crunched, OfForm(crunched, form))) =
             ToSet(crunched) \cap OfForm(crunched, form)
    BY KeptIs
  <2> HIDE DEF Own
  <2> QED
    BY <2>1, <2>2, <2>3
<1> HIDE DEF forms, longs, all, Own
<1>7. PICK m \in Nat : DOMAIN forms = 1 .. m
  BY <1>3
<1>8. DOMAIN all = 1 .. m /\ \A k \in 1 .. m : all[k].form = forms[k] /\ forms[k] \in SUBSET Nat
  BY <1>3, <1>4, <1>7
<1>9. all \in Seq(ToSet(all))
  <2>1. all \in [1 .. m -> ToSet(all)]
    BY <1>4, <1>8 DEF ToSet
  <2> QED
    BY <2>1, FunctionIsSeq
<1>10. \A j, k \in 1 .. m : all[j].form = all[k].form => j = k
  BY <1>3, <1>7, <1>8 DEF IsInjective
<1>11. IsInjective(all) /\ \A o, p \in ToSet(all) : o.form = p.form => o = p
  BY <1>8, <1>10 DEF IsInjective, ToSet
<1>12. {o.form : o \in ToSet(all)} = {r.longs : r \in ToSet(crunched)}
  <2>1. {o.form : o \in ToSet(all)} = {all[k].form : k \in 1 .. m}
    BY <1>8 DEF ToSet
  <2>2. {all[k].form : k \in 1 .. m} = ToSet(forms)
    BY <1>7, <1>8 DEF ToSet
  <2> QED
    BY <1>3, <1>5, <2>1, <2>2
<1>13. ASSUME NEW o \in ToSet(all)
       PROVE  /\ o.form \in SUBSET Nat
              /\ Readings(o) =
                   {[lemma |-> r.lemma, data |-> r.data] : r \in OfForm(crunched, o.form)}
  <2>1. PICK k \in 1 .. m : o = all[k]
    BY <1>8 DEF ToSet
  <2>2. o = [form |-> forms[k], options |-> SortByLemma(Own(forms[k]))]
    BY <1>4, <1>7, <2>1
  <2>3. o.form = forms[k] /\ o.options = SortByLemma(Own(o.form))
    BY <2>2
  <2>4. UNION {{[lemma |-> p.lemma, data |-> morph] : morph \in ToSet(p.morph)} :
                 p \in ToSet(SortByLemma(Own(o.form)))}
        = {[lemma |-> r.lemma, data |-> r.data] : r \in ToSet(Own(o.form))}
    BY <1>6, ByLemmaHasReadings
  <2> QED
    BY <1>6, <1>8, <2>3, <2>4 DEF Readings
<1> QED
  BY <1>9, <1>11, <1>12, <1>13 DEF all

\* The marks of a word are finitely many, so that vowels can be counted.
LEMMA MarksAreFinite ==
  ASSUME NEW token \in TokenType, NEW mark, NEW form
  PROVE  /\ Cardinality(form \cap Marked(token, mark)) \in Nat
         /\ Cardinality(form \cap Marked(token, mark))
              <= Cardinality(Marked(token, mark))
         /\ Cardinality(Marked(token, mark)) \in Nat
<1> DEFINE marks == token.marks
           S == {k \in DOMAIN marks : marks[k].mark = mark}
           T == Marked(token, mark)
           f == [k \in S |-> marks[k].at]
<1>1. PICK n \in Nat : DOMAIN marks = 1 .. n
  BY DEF TokenType
<1>2. IsFiniteSet(S)
  <2>1. IsFiniteSet(1 .. n)
    BY FS_Interval
  <2> QED
    BY <1>1, <2>1, FS_Subset
<1>3. T = {marks[k].at : k \in S}
  BY DEF Marked, ToSet
<1> HIDE DEF T
<1>4. f \in Surjection(S, T)
  BY <1>3 DEF Surjection
<1> HIDE DEF S, f
<1>5. IsFiniteSet(T)
  BY <1>2, <1>4, FS_Surjection
<1>6. /\ Cardinality(T) \in Nat /\ IsFiniteSet(form \cap T)
      /\ Cardinality(form \cap T) <= Cardinality(T)
  BY <1>5, FS_CardinalityType, FS_Subset
<1>7. Cardinality(form \cap T) \in Nat
  BY <1>6, FS_CardinalityType
<1> QED
  BY <1>6, <1>7 DEF T

\* What is offered for a word.
Possible(token) ==
  {f \in {a.longs : a \in ToSet(Analyses[token.text])} : f \cap Marked(token, "short") = {}}
Agreed(token, f) == Cardinality(f \cap Marked(token, "long"))

LEMMA OptionsAre ==
  ASSUME ConstantsFit, NEW text \in Typed, NEW i \in DOMAIN text, text[i].isWord
  PROVE  LET token == text[i]
             offered_ == OptionsByForm(token)
             all == SortCrunchResults(Analyses[token.text])
         IN /\ offered_ \in Seq(ToSet(all))
            /\ \A j, k \in DOMAIN offered_ : offered_[j].form = offered_[k].form => j = k
            /\ {o.form : o \in ToSet(offered_)} =
                 {f \in Possible(token) : \A g \in Possible(token) : Agreed(token, g) <= Agreed(token, f)}
<1> DEFINE token == text[i]
           crunched == Analyses[token.text]
           all == SortCrunchResults(crunched)
           S == ToSet(all)
           Matches(o) == VowelsMatches(o.form, Marked(token, "long"), Marked(token, "short"))
           R == {o \in S : Matches(o) # -1}
           raw == Kept(all, R)
           most == Max({0} \cup {Matches(o) : o \in ToSet(raw)})
           best == {o \in ToSet(raw) : Matches(o) = most}
           offered == Kept(raw, best)
<1>1. token \in TokenType /\ crunched \in Seq(Analysis)
  BY TypedTokens
<1>2. /\ all \in Seq(S) /\ IsInjective(all)
      /\ {o.form : o \in S} = {r.longs : r \in ToSet(crunched)}
      /\ \A o, p \in S : o.form = p.form => o = p
  BY <1>1, ByFormHasForms
<1>3. OptionsByForm(token) = offered
  BY DEF OptionsByForm
<1>4. \A o \in S : /\ Matches(o) # -1 <=> o.form \cap Marked(token, "short") = {}
                   /\ Matches(o) # -1 => /\ Matches(o) = Agreed(token, o.form) /\ Matches(o) \in Nat
                                         /\ Matches(o) <= Cardinality(Marked(token, "long"))
  <2> SUFFICES ASSUME NEW o \in S
               PROVE  /\ Matches(o) # -1 <=> o.form \cap Marked(token, "short") = {}
                      /\ Matches(o) # -1 =>
                           /\ Matches(o) = Agreed(token, o.form) /\ Matches(o) \in Nat
                           /\ Matches(o) <= Cardinality(Marked(token, "long"))
    BY Zenon
  <2>1. /\ Agreed(token, o.form) \in Nat
        /\ Agreed(token, o.form) <= Cardinality(Marked(token, "long"))
    BY <1>1, MarksAreFinite DEF Agreed
  <2>2. Matches(o) = IF o.form \cap Marked(token, "short") # {} THEN -1
                     ELSE Agreed(token, o.form)
    BY DEF VowelsMatches, Agreed
  <2>3. Agreed(token, o.form) # -1
    BY <2>1
  <2> HIDE DEF Matches
  <2> QED
    BY <2>1, <2>2, <2>3
<1> DEFINE bound == Cardinality(Marked(token, "long"))
<1>5. bound \in Nat
  BY <1>1, MarksAreFinite
<1>6. raw \in Seq(S) /\ ToSet(raw) = R /\ IsInjective(raw)
  <2>1. R \subseteq S
    OBVIOUS
  <2> HIDE DEF R, S, all
  <2>2. ToSet(all) \cap R = R
    BY <2>1 DEF S
  <2> QED
    BY <1>2, <2>2, KeptIs
<1>7. offered \in Seq(S) /\ ToSet(offered) = best /\ IsInjective(offered)
  <2> HIDE DEF raw, S
  <2>1. best \subseteq ToSet(raw)
    OBVIOUS
  <2> HIDE DEF best
  <2>2. ToSet(raw) \cap best = best
    BY <2>1
  <2>3. raw \in Seq(S) /\ IsInjective(raw)
    BY <1>6
  <2> QED
    BY <2>2, <2>3, KeptIs
<1> HIDE DEF Matches, raw, all, S, offered, bound
<1>8. R = {o \in S : o.form \cap Marked(token, "short") = {}}
  BY <1>4
<1>9. Possible(token) = {o.form : o \in R}
  <2>1. Possible(token) = {f \in {o.form : o \in S} : f \cap Marked(token, "short") = {}}
    BY <1>2 DEF Possible
  <2> HIDE DEF R
  <2> QED
    BY <1>8, <2>1
<1> DEFINE M == {0} \cup {Matches(o) : o \in R}
<1>10. most \in M /\ \A y \in M : most >= y
  <2>1. M \subseteq Nat /\ M # {} /\ \A y \in M : y <= bound
    BY <1>4, <1>5 DEF bound
  <2>2. most = Max(M)
    BY <1>6
  <2> HIDE DEF M, most
  <2>3. \E x \in M : \A y \in M : x >= y
    BY <1>5, <2>1, GreatestNumber
  <2> QED
    BY <2>2, <2>3 DEF Max
<1>11. \A o \in R : Matches(o) = Agreed(token, o.form) /\ Matches(o) \in Nat
  BY <1>4
<1> HIDE DEF most, R
<1>12. best = {o \in R : \A p \in R : Agreed(token, p.form) <= Agreed(token, o.form)}
  <2>1. best = {o \in R : Matches(o) = most}
    BY <1>6
  <2>2. ASSUME NEW o \in R, Matches(o) = most, NEW p \in R
        PROVE  Agreed(token, p.form) <= Agreed(token, o.form)
    BY <1>10, <1>11, <2>2
  <2>3. ASSUME NEW o \in R, \A p \in R : Agreed(token, p.form) <= Agreed(token, o.form)
        PROVE  Matches(o) = most
    <3>1. most >= Matches(o) /\ Matches(o) \in Nat /\ most \in Nat
      BY <1>10, <1>11
    <3>2. most <= Matches(o)
      <4>1. CASE most = 0
        BY <3>1, <4>1
      <4>2. CASE most # 0
        <5>1. PICK p \in R : most = Matches(p)
          BY <1>10, <4>2
        <5> QED
          BY <1>11, <2>3, <5>1
      <4> QED
        BY <4>1, <4>2
    <3> QED
      BY <3>1, <3>2
  <2> HIDE DEF best
  <2> QED
    BY <2>1, <2>2, <2>3
<1>13. {o.form : o \in best} =
         {f \in Possible(token) : \A g \in Possible(token) : Agreed(token, g) <= Agreed(token, f)}
  <2> HIDE DEF best
  <2> QED
    BY <1>9, <1>12
<1>14. \A j, k \in DOMAIN offered : offered[j].form = offered[k].form => j = k
  <2>1. \A j \in DOMAIN offered : offered[j] \in S
    BY <1>7
  <2> QED
    BY <1>2, <1>7, <2>1 DEF IsInjective
<1> QED
  BY <1>3, <1>7, <1>13, <1>14 DEF S, all

\* A suggestion is one of the options, and compares with the tag.
LEMMA MatchIsReading ==
  ASSUME NEW n \in Nat, NEW offered, DOMAIN offered = 1 .. n, NEW tag,
         FindBestMatch(offered, tag) # 0
  PROVE  /\ FindBestMatch(offered, tag) \in 1 .. n
         /\ \E r \in Readings(offered[FindBestMatch(offered, tag)]) :
              CompareGrammaticalData(ConvertUpos(tag.morph), r.data) # Unrelated
<1> DEFINE inflection == ConvertUpos(tag.morph)
           byLemma == {k \in DOMAIN offered : \E r \in Readings(offered[k]) :
                         r.lemma[1] = tag.lemma
                         /\ CompareGrammaticalData(inflection, r.data) # Unrelated}
           byData == {k \in DOMAIN offered : \E r \in Readings(offered[k]) :
                        CompareGrammaticalData(inflection, r.data) = 0}
           best == FindBestMatch(offered, tag)
<1>1. \/ byLemma # {} /\ best = Min(byLemma)
      \/ byData # {} /\ best = Min(byData)
  BY DEF FindBestMatch
<1>2. \A S \in SUBSET (1 .. n) : S # {} => Min(S) \in S
  <2> SUFFICES ASSUME NEW S \in SUBSET (1 .. n), S # {} PROVE Min(S) \in S
    OBVIOUS
  <2>1. \E x \in S : \A y \in S : x <= y
    <3>1. S \subseteq Nat
      OBVIOUS
    <3> QED
      BY <3>1, LeastNumber
  <2> QED
    BY <2>1 DEF Min
<1>3. byLemma \subseteq 1 .. n /\ byData \subseteq 1 .. n
  OBVIOUS
<1>4. best \in byLemma \/ best \in byData
  BY <1>1, <1>2, <1>3
<1> HIDE DEF best, inflection
<1>5. 0 # Unrelated
  BY DEF Unrelated
<1> QED
  BY <1>4, <1>5 DEF best, inflection

\* The abbreviations of the fields, in any order.
LEMMA ArraySays ==
  ASSUME NEW data
  PROVE  Said(WordInflectionDataToArray(data)) =
           UNION {ToMorpheus(f, data[f]) : f \in Fields}
<1> DEFINE order == <<"tense", "mood", "voice", "person", "gender", "case", "degree", "number">>
           words == [k \in DOMAIN order |-> ToMorpheus(order[k], data[order[k]])]
<1>1. DOMAIN order = 1 .. 8
  OBVIOUS
<1>2. {order[k] : k \in 1 .. 8} = Fields
  <2>1. Fields = {"case", "gender", "number", "person", "voice", "mood", "tense", "degree"}
    BY DEF Fields, Abbreviations
  <2>2. /\ order[1] = "tense" /\ order[2] = "mood" /\ order[3] = "voice" /\ order[4] = "person"
        /\ order[5] = "gender" /\ order[6] = "case" /\ order[7] = "degree" /\ order[8] = "number"
    OBVIOUS
  <2>3. 1 .. 8 = {1, 2, 3, 4, 5, 6, 7, 8}
    OBVIOUS
  <2> HIDE DEF order
  <2> QED
    BY <2>1, <2>2, <2>3
<1> HIDE DEF order
<1>3. words \in Seq(ToSet(words)) /\ ToSet(words) = {ToMorpheus(f, data[f]) : f \in Fields}
  <2>1. words \in [1 .. 8 -> ToSet(words)]
    BY <1>1 DEF ToSet
  <2>2. ToSet(words) = {ToMorpheus(f, data[f]) : f \in {order[k] : k \in 1 .. 8}}
    BY <1>1 DEF ToSet
  <2>3. words \in Seq(ToSet(words))
    <3> HIDE DEF words
    <3> QED
      BY <2>1, FunctionIsSeq
  <2> QED
    BY <1>2, <2>2, <2>3
<1>4. WordInflectionDataToArray(data) = Kept(words, ToSet(words) \ {{}})
  BY DEF WordInflectionDataToArray, order
<1> HIDE DEF words
<1>5. ToSet(WordInflectionDataToArray(data)) = ToSet(words) \ {{}}
  <2>1. ToSet(Kept(words, ToSet(words) \ {{}})) =
          ToSet(words) \cap (ToSet(words) \ {{}})
    BY <1>3, KeptIs
  <2> QED
    BY <1>4, <2>1
<1>6. UNION (ToSet(words) \ {{}}) = UNION ToSet(words)
  OBVIOUS
<1> QED
  BY <1>3, <1>5, <1>6 DEF Said

LEMMA LenIs ==
  ASSUME NEW n \in Nat, NEW s, DOMAIN s = 1 .. n, s = [k \in 1 .. n |-> s[k]]
  PROVE  Len(s) = n
OBVIOUS

Abbreviated(data) == UNION {ToMorpheus(f, data[f]) : f \in Fields}
ShownReadings(option) ==
  UNION {{<<o.lemma, Said(morph)>> : morph \in ToSet(o.morph)} :
           o \in ToSet(option.options)}

\* What is answered of an option has its form and its readings.
LEMMA ConvertedReadings ==
  ASSUME NEW offered, NEW k \in DOMAIN offered
  PROVE  LET converted == ConvertOptionsForForm(offered)
         IN /\ DOMAIN converted = DOMAIN offered /\ converted[k].form = offered[k].form
            /\ ShownReadings(converted[k]) =
                 {<<r.lemma, Abbreviated(r.data)>> : r \in Readings(offered[k])}
<1> DEFINE Convert(o) == [lemma |-> o.lemma,
                          morph |-> [n \in DOMAIN o.morph |->
                                       WordInflectionDataToArray(o.morph[n])]]
           converted == ConvertOptionsForForm(offered)
           own == offered[k].options
           left == ShownReadings(converted[k])
           right == {<<r.lemma, Abbreviated(r.data)>> : r \in Readings(offered[k])}
<1>1. converted = [j \in DOMAIN offered |->
                     [form |-> offered[j].form,
                      options |-> [n \in DOMAIN offered[j].options |-> Convert(offered[j].options[n])]]]
  BY DEF ConvertOptionsForForm
<1>2. converted[k] = [form |-> offered[k].form, options |-> [n \in DOMAIN own |-> Convert(own[n])]]
  BY <1>1
<1>3. ToSet(converted[k].options) = {Convert(o) : o \in ToSet(own)}
  BY <1>2 DEF ToSet
<1>4. ASSUME NEW o
      PROVE  /\ Convert(o).lemma = o.lemma
             /\ ToSet(Convert(o).morph) =
                  {WordInflectionDataToArray(d) : d \in ToSet(o.morph)}
  BY DEF ToSet
<1>5. DOMAIN converted = DOMAIN offered /\ converted[k].form = offered[k].form
  BY <1>1, <1>2
<1>6. \A d : Said(WordInflectionDataToArray(d)) = Abbreviated(d)
  BY ArraySays DEF Abbreviated
<1> HIDE DEF converted, Convert
<1>7. left = UNION {{<<o.lemma, Said(morph)>> : morph \in ToSet(o.morph)} :
                      o \in {Convert(p) : p \in ToSet(own)}}
  BY <1>3 DEF ShownReadings
<1>8. ASSUME NEW x \in left PROVE x \in right
  <2>1. PICK p \in ToSet(own) :
          \E morph \in ToSet(Convert(p).morph) : x = <<Convert(p).lemma, Said(morph)>>
    BY <1>7
  <2>2. PICK morph \in ToSet(Convert(p).morph) : x = <<Convert(p).lemma, Said(morph)>>
    BY <2>1
  <2>3. PICK d \in ToSet(p.morph) : morph = WordInflectionDataToArray(d)
    BY <1>4
  <2>4. x = <<p.lemma, Abbreviated(d)>>
    BY <1>4, <1>6, <2>2, <2>3
  <2> DEFINE r == [lemma |-> p.lemma, data |-> d]
  <2>5. r \in Readings(offered[k])
    <3>1. r \in {[lemma |-> p.lemma, data |-> morph_] : morph_ \in ToSet(p.morph)}
      OBVIOUS
    <3>2. p \in ToSet(offered[k].options)
      OBVIOUS
    <3> HIDE DEF r
    <3> QED
      BY <3>1, <3>2, Zenon DEF Readings
  <2>6. r.lemma = p.lemma /\ r.data = d
    OBVIOUS
  <2> HIDE DEF r
  <2> QED
    BY <2>4, <2>5, <2>6
<1>9. ASSUME NEW x \in right PROVE x \in left
  <2>1. PICK r \in Readings(offered[k]) : x = <<r.lemma, Abbreviated(r.data)>>
    OBVIOUS
  <2>2. PICK p \in ToSet(own) :
          \E d \in ToSet(p.morph) : r = [lemma |-> p.lemma, data |-> d]
    BY <2>1 DEF Readings
  <2>3. PICK d \in ToSet(p.morph) : r = [lemma |-> p.lemma, data |-> d]
    BY <2>2
  <2>4. r.lemma = p.lemma /\ r.data = d
    BY <2>3
  <2>5. WordInflectionDataToArray(d) \in ToSet(Convert(p).morph)
    BY <1>4
  <2>6. x = <<Convert(p).lemma, Said(WordInflectionDataToArray(d))>>
    BY <1>4, <1>6, <2>1, <2>4
  <2>7. x \in {<<Convert(p).lemma, Said(morph)>> : morph \in ToSet(Convert(p).morph)}
    BY <2>5, <2>6
  <2>8. Convert(p) \in {Convert(q) : q \in ToSet(own)}
    OBVIOUS
  <2> QED
    BY <1>7, <2>7, <2>8
<1>10. left = right
  <2> HIDE DEF left, right
  <2> QED
    BY <1>8, <1>9
<1> QED
  BY <1>5, <1>10 DEF converted

\* What is answered of a word: its forms are the options, its suggestion is one
\* of them, and its readings are those of the analyses.
LEMMA ShownWord ==
  ASSUME ConstantsFit, NEW text \in Typed, NEW i \in DOMAIN text, text[i].isWord, NEW tag
  PROVE  LET token == text[i]
             w == MacronizedWord(token, tag)
             forms == FormsOf(w)
         IN /\ w.word = token.text
            /\ forms \in Seq(SUBSET Nat) /\ DOMAIN forms = DOMAIN w.options
            /\ Len(w.options) = Len(forms)
            /\ ToSet(forms) =
                 {f \in Possible(token) : \A g \in Possible(token) : Agreed(token, g) <= Agreed(token, f)}
            /\ IsInjective(forms)
            /\ w.suggested # 0 =>
                 /\ w.suggested \in DOMAIN w.options
                 /\ \E a \in ToSet(Analyses[token.text]) :
                      /\ a.longs = w.options[w.suggested].form
                      /\ CompareGrammaticalData(ConvertUpos(tag.morph), a.data)
                           # Unrelated
            /\ \A option \in ToSet(w.options) :
                 ShownReadings(option) =
                   {<<a.lemma, Abbreviated(a.data)>> : a \in OfForm(Analyses[token.text], option.form)}
<1> DEFINE token == text[i]
           crunched == Analyses[token.text]
           offered == OptionsByForm(token)
           all == SortCrunchResults(crunched)
           converted == ConvertOptionsForForm(offered)
           w == MacronizedWord(token, tag)
           forms == FormsOf(w)
<1>1. token \in TokenType /\ crunched \in Seq(Analysis)
  BY TypedTokens
<1>2. w = [word |-> token.text, options |-> converted,
           suggested |-> IF Len(offered) <= 1 THEN 0 ELSE FindBestMatch(offered, tag)]
  BY DEF MacronizedWord
<1>3. /\ offered \in Seq(ToSet(all))
      /\ \A j, k \in DOMAIN offered : offered[j].form = offered[k].form => j = k
      /\ {o.form : o \in ToSet(offered)} =
           {f \in Possible(token) : \A g \in Possible(token) : Agreed(token, g) <= Agreed(token, f)}
  BY OptionsAre
<1>4. \A o \in ToSet(all) :
        /\ o.form \in SUBSET Nat
        /\ Readings(o) = {[lemma |-> r.lemma, data |-> r.data] : r \in OfForm(crunched, o.form)}
  BY <1>1, ByFormHasForms
<1>5. /\ w.word = token.text /\ w.options = converted
      /\ w.suggested = IF Len(offered) <= 1 THEN 0 ELSE FindBestMatch(offered, tag)
  BY <1>2
<1> HIDE DEF w, offered, all, crunched
<1>6. PICK n \in Nat : Len(offered) = n /\ DOMAIN offered = 1 .. n
  BY <1>3
<1>7. \A k \in 1 .. n : offered[k] \in ToSet(all)
  BY <1>3, <1>6
<1>8. DOMAIN converted = 1 .. n
  BY <1>6 DEF ConvertOptionsForForm
<1>9. \A k \in 1 .. n : /\ converted[k].form = offered[k].form
                        /\ ShownReadings(converted[k]) =
                             {<<r.lemma, Abbreviated(r.data)>> : r \in Readings(offered[k])}
  BY <1>6, ConvertedReadings
<1>10. forms = [k \in 1 .. n |-> offered[k].form]
  BY <1>5, <1>8, <1>9 DEF FormsOf
<1>11. Len(converted) = n
  BY <1>8, LenIs
<1> HIDE DEF converted, forms
<1>12. forms \in Seq(SUBSET Nat) /\ DOMAIN forms = 1 .. n /\ Len(forms) = n
  <2>1. forms \in [1 .. n -> SUBSET Nat]
    BY <1>4, <1>7, <1>10
  <2>2. forms \in Seq(SUBSET Nat)
    BY <2>1, FunctionIsSeq
  <2> QED
    BY <2>1, <2>2
<1>13. ToSet(forms) = {o.form : o \in ToSet(offered)}
  BY <1>6, <1>10 DEF ToSet
<1>14. IsInjective(forms)
  BY <1>3, <1>6, <1>10 DEF IsInjective
<1>15. ASSUME w.suggested # 0
       PROVE  /\ w.suggested \in 1 .. n
              /\ \E a \in ToSet(crunched) :
                   /\ a.longs = w.options[w.suggested].form
                   /\ CompareGrammaticalData(ConvertUpos(tag.morph), a.data)
                        # Unrelated
  <2> DEFINE s == w.suggested
             Fits(data) == CompareGrammaticalData(ConvertUpos(tag.morph), data)
                             # Unrelated
  <2>1. s = FindBestMatch(offered, tag) /\ s # 0
    BY <1>5, <1>15
  <2>2. s \in 1 .. n /\ \E r \in Readings(offered[s]) : Fits(r.data)
    BY <1>6, <2>1, MatchIsReading
  <2>3. PICK r \in Readings(offered[s]) : Fits(r.data)
    BY <2>2
  <2> HIDE DEF Fits, s
  <2>4. PICK a \in OfForm(crunched, offered[s].form) : r = [lemma |-> a.lemma, data |-> a.data]
    BY <1>4, <1>7, <2>2
  <2>5. r.data = a.data
    BY <2>4
  <2>6. a \in ToSet(crunched) /\ a.longs = w.options[s].form
    BY <1>5, <1>9, <2>2 DEF OfForm
  <2>7. Fits(a.data)
    BY <2>3, <2>5
  <2> QED
    BY <2>2, <2>6, <2>7 DEF Fits, s
<1>16. ASSUME NEW option \in ToSet(w.options)
       PROVE  ShownReadings(option) =
                {<<a.lemma, Abbreviated(a.data)>> : a \in OfForm(crunched, option.form)}
  <2>1. PICK k \in 1 .. n : option = converted[k]
    BY <1>5, <1>8 DEF ToSet
  <2> DEFINE own == OfForm(crunched, option.form)
  <2>2. Readings(offered[k]) = {[lemma |-> r.lemma, data |-> r.data] : r \in own}
    BY <1>4, <1>7, <1>9, <2>1
  <2>3. ShownReadings(option) = {<<r.lemma, Abbreviated(r.data)>> : r \in Readings(offered[k])}
    BY <1>9, <2>1
  <2> HIDE DEF own
  <2>4. {<<r.lemma, Abbreviated(r.data)>> : r \in {[lemma |-> a.lemma, data |-> a.data] : a \in own}}
        = {<<a.lemma, Abbreviated(a.data)>> : a \in own}
    <3> DEFINE Read(a) == [lemma |-> a.lemma, data |-> a.data]
               Shown(a) == <<a.lemma, Abbreviated(a.data)>>
    <3>1. \A a : Shown(Read(a)) = Shown(a)
      <4> TAKE a
      <4>1. Read(a).lemma = a.lemma /\ Read(a).data = a.data
        OBVIOUS
      <4> HIDE DEF Read
      <4> QED
        BY <4>1
    <3> HIDE DEF Read, Shown
    <3>2. {Shown(r) : r \in {Read(a) : a \in own}} = {Shown(a) : a \in own}
      BY <3>1
    <3> QED
      BY <3>2 DEF Read, Shown
  <2> QED
    BY <2>2, <2>3, <2>4 DEF own
<1> QED
  BY <1>3, <1>5, <1>8, <1>11, <1>12, <1>13, <1>14, <1>15, <1>16 DEF w, forms, crunched

-----------------------------------------------------------------------------
\* The answer to a text, and the words that are shown of it.

\* A text is answered if it is short enough for the page, and so for the server.
Sendable == {t \in Typed : t # <<>> /\ LengthOf(t) < PageMaxLength}

\* The error is told apart from every answer, by its word.
LEMMA AnswerIs ==
  ASSUME ConstantsFit, NEW text \in Sendable, NEW tags
  PROVE  LET result == MacronizeInput(text, tags)
             unfit == \E i \in DOMAIN text :
                        text[i].isWord /\ ~ TagsFit(text[i], Place(text, i), tags)
         IN /\ result = Failed <=> (tags = NoAnswer \/ unfit)
            /\ result # Failed =>
                 /\ DOMAIN result = DOMAIN text
                 /\ \A i \in DOMAIN text :
                      result[i] = IF text[i].isWord
                                  THEN MacronizedWord(text[i], tags[Place(text, i)])
                                  ELSE Plain(text[i])
<1> DEFINE result == MacronizeInput(text, tags)
           unfit == \E i \in DOMAIN text :
                      text[i].isWord /\ ~ TagsFit(text[i], Place(text, i), tags)
           Shown(i) == IF text[i].isWord THEN MacronizedWord(text[i], tags[Place(text, i)])
                       ELSE Plain(text[i])
           whole == [i \in DOMAIN text |-> Shown(i)]
<1>1. text \in Typed /\ text # <<>> /\ LengthOf(text) < PageMaxLength
  BY DEF Sendable
<1>2. text \in Seq(TokenType) /\ PageMaxLength \in Nat /\ InputMaxLength \in Nat
      /\ PageMaxLength <= InputMaxLength
  BY <1>1 DEF ConstantsFit
<1>3. ~ (LengthOf(text) > InputMaxLength)
  <2>1. PICK h \in [0 .. Len(text) -> Nat] : h[Len(text)] = LengthOf(text)
    BY <1>2, LengthRuns
  <2>2. Len(text) \in 0 .. Len(text)
    BY <1>2
  <2>3. LengthOf(text) \in Nat
    BY <2>1, <2>2
  <2> QED
    BY <1>1, <1>2, <2>3
<1>4. result = IF tags = NoAnswer \/ unfit THEN Failed ELSE whole
  BY <1>3 DEF MacronizeInput, AttachGuesses
<1>5. 1 \in DOMAIN text
  BY <1>1, <1>2
<1>6. text[1].text # <<"error">>
  BY <1>1, <1>5, TypedTokens
<1>7. Shown(1).word = text[1].text
  BY DEF MacronizedWord, Plain
<1>8. Failed[1].word = <<"error">>
  BY DEF Failed, Plain
<1> HIDE DEF Shown, unfit
<1>9. whole # Failed
  <2>1. whole[1] = Shown(1)
    BY <1>5
  <2> HIDE DEF whole
  <2> QED
    BY <1>6, <1>7, <1>8, <2>1
<1>10. /\ result = Failed <=> (tags = NoAnswer \/ unfit)
       /\ result # Failed => result = whole
  <2> HIDE DEF whole, result
  <2> QED
    BY <1>4, <1>9
<1> QED
  BY <1>10 DEF unfit, Shown

\* No word of the error has a form.
LEMMA ErrorHasNoForms ==
  /\ DOMAIN Failed = {1} /\ Failed[1].options = <<>> /\ Failed[1].suggested = 0
BY DEF Failed, Plain

\* A word that is shown: its options are forms, its suggestion is one of them,
\* and its readings are those of the analyses.
WordFits(word) ==
  /\ FormsOf(word) \in Seq(SUBSET Nat) /\ Len(FormsOf(word)) = Len(word.options)
  /\ word.suggested # 0 => word.suggested \in DOMAIN FormsOf(word)
  /\ \A option \in ToSet(word.options) :
       ShownReadings(option) =
         {<<a.lemma, Abbreviated(a.data)>> : a \in OfForm(Analyses[word.word], option.form)}

\* Its forms are the best ones of those that keep the marks of its token.
MarksFit(word, token) ==
  token.isWord =>
    /\ ToSet(FormsOf(word)) =
         {f \in Possible(token) : \A g \in Possible(token) : Agreed(token, g) <= Agreed(token, f)}
    /\ IsInjective(FormsOf(word))

\* Its suggestion compares with the tag.
TagFits(word, tag) ==
  word.suggested # 0 =>
    \E a \in ToSet(Analyses[word.word]) :
      /\ a.longs = word.options[word.suggested].form
      /\ CompareGrammaticalData(ConvertUpos(tag.morph), a.data) # Unrelated

\* A result fits its text and tags.
Fitting(result, text, tags) ==
  /\ \A i \in DOMAIN result : WordFits(result[i])
  /\ result # Failed => \A i \in DOMAIN result :
       /\ MarksFit(result[i], text[i])
       /\ TagFits(result[i], tags[i + Cardinality(SplitBefore(text, i - 1))])
  /\ (tags # NoAnswer /\ Len(tags) = Len(WordsOf(text)))
       => (result = Failed <=> \E i \in DOMAIN text : ~ WellWritten(text[i]))

LEMMA NothingFits ==
  ASSUME NEW word, word.options = <<>>, word.suggested = 0
  PROVE  WordFits(word)
<1>1. FormsOf(word) = <<>>
  BY DEF FormsOf
<1>2. ToSet(<<>>) = {}
  BY DEF ToSet
<1> QED
  BY <1>1, <1>2 DEF WordFits

\* The words of an answer, one by one.
LEMMA AnsweredWord ==
  ASSUME ConstantsFit, NEW text \in Sendable, NEW tags, NEW result,
         result = MacronizeInput(text, tags), result # Failed, NEW i \in DOMAIN result
  PROVE  /\ WordFits(result[i]) /\ MarksFit(result[i], text[i])
         /\ TagFits(result[i], tags[i + Cardinality(SplitBefore(text, i - 1))])
<1>1. text \in Typed
  BY DEF Sendable
<1>2. i \in DOMAIN text
      /\ result[i] = IF text[i].isWord
                     THEN MacronizedWord(text[i], tags[Place(text, i)])
                     ELSE Plain(text[i])
  BY AnswerIs
<1>3. text[i].isWord \in BOOLEAN
  BY <1>1, <1>2, TypedTokens
<1>4. CASE ~ text[i].isWord
  <2>1. result[i].options = <<>> /\ result[i].suggested = 0
    BY <1>2, <1>4 DEF Plain
  <2> QED
    BY <1>4, <2>1, NothingFits DEF MarksFit, TagFits
<1>5. CASE text[i].isWord
  <2> DEFINE token == text[i]
             tag == tags[Place(text, i)]
             w == MacronizedWord(token, tag)
             forms == FormsOf(w)
  <2>1. result[i] = w
    BY <1>2, <1>5
  <2>2. Place(text, i) = i + Cardinality(SplitBefore(text, i - 1))
    BY <1>1, <1>2, PlaceIs
  <2>3. /\ w.word = token.text
        /\ forms \in Seq(SUBSET Nat) /\ DOMAIN forms = DOMAIN w.options
        /\ Len(w.options) = Len(forms)
        /\ ToSet(forms) =
             {f \in Possible(token) : \A g \in Possible(token) : Agreed(token, g) <= Agreed(token, f)}
        /\ IsInjective(forms)
        /\ w.suggested # 0 =>
             /\ w.suggested \in DOMAIN w.options
             /\ \E a \in ToSet(Analyses[token.text]) :
                  /\ a.longs = w.options[w.suggested].form
                  /\ CompareGrammaticalData(ConvertUpos(tag.morph), a.data)
                       # Unrelated
        /\ \A option \in ToSet(w.options) :
             ShownReadings(option) =
               {<<a.lemma, Abbreviated(a.data)>> : a \in OfForm(Analyses[token.text], option.form)}
    BY <1>1, <1>2, <1>5, ShownWord
  <2> HIDE DEF w
  <2>4. WordFits(w) /\ MarksFit(w, token) /\ TagFits(w, tag)
    BY <2>3 DEF WordFits, MarksFit, TagFits
  <2> QED
    BY <2>1, <2>2, <2>4
<1> QED
  BY <1>3, <1>4, <1>5

LEMMA AnswersFit ==
  ASSUME ConstantsFit, NEW text \in Sendable, NEW tags \in Answers(text)
  PROVE  Fitting(MacronizeInput(text, tags), text, tags)
<1> DEFINE result == MacronizeInput(text, tags)
<1>1. text \in Typed /\ text # <<>>
  BY DEF Sendable
<1>2. CASE result = Failed
  <2>1. \A i \in DOMAIN result : result[i].options = <<>> /\ result[i].suggested = 0
    BY <1>2, ErrorHasNoForms
  <2> HIDE DEF result
  <2>2. \A i \in DOMAIN result : WordFits(result[i])
    BY <2>1, NothingFits
  <2>4. ASSUME tags # NoAnswer, Len(tags) = Len(WordsOf(text))
        PROVE  \E i \in DOMAIN text : ~ WellWritten(text[i])
    <3>1. PICK i \in DOMAIN text :
            text[i].isWord /\ ~ TagsFit(text[i], Place(text, i), tags)
      BY <1>2, <2>4, AnswerIs DEF result
    <3> DEFINE words == WordsOf(text)
    <3>2. words \in Seq(Word)
      BY <1>1, <3>1, PlaceIs
    <3>3. PICK l \in Nat : l = Len(words)
      BY <3>2
    <3>4. \A k \in 1 .. l : tags[k].text = words[k]
      BY <1>1, <2>4, <3>3, AnswersForWords
    <3>5. TagsFit(text[i], Place(text, i), tags) <=> WellWritten(text[i])
      BY <1>1, <2>4, <3>1, <3>3, <3>4, TagsFitWellWritten
    <3> QED
      BY <3>1, <3>5
  <2> QED
    BY <1>2, <2>2, <2>4 DEF Fitting, result
<1>3. CASE result # Failed
  <2>1. \A i \in DOMAIN text :
          text[i].isWord => TagsFit(text[i], Place(text, i), tags)
    BY <1>3, AnswerIs
  <2>2. ASSUME tags # NoAnswer, Len(tags) = Len(WordsOf(text)), NEW i \in DOMAIN text
        PROVE  WellWritten(text[i])
    <3> DEFINE words == WordsOf(text)
    <3>1. CASE text[i].isWord
      <4>1. words \in Seq(Word)
        BY <1>1, <2>2, PlaceIs
      <4>2. PICK l \in Nat : l = Len(words)
        BY <4>1
      <4>3. \A k \in 1 .. l : tags[k].text = words[k]
        BY <1>1, <2>2, <4>2, AnswersForWords
      <4>4. TagsFit(text[i], Place(text, i), tags) <=> WellWritten(text[i])
        BY <1>1, <2>2, <3>1, <4>2, <4>3, TagsFitWellWritten
      <4> QED
        BY <2>1, <3>1, <4>4
    <3> QED
      BY <3>1 DEF WellWritten
  <2>3. result = MacronizeInput(text, tags)
    OBVIOUS
  <2> HIDE DEF result
  <2>4. \A i \in DOMAIN result :
          /\ WordFits(result[i]) /\ MarksFit(result[i], text[i])
          /\ TagFits(result[i], tags[i + Cardinality(SplitBefore(text, i - 1))])
    BY <1>3, <2>3, AnsweredWord
  <2> QED
    BY <1>3, <2>2, <2>3, <2>4 DEF Fitting
<1> QED
  BY <1>2, <1>3

-----------------------------------------------------------------------------
\* The page.

\* What is shown is the answer to a text that was sent, or nothing.
AnswerShown ==
  \/ answered = [text |-> <<>>, tags |-> NoAnswer] /\ shown = <<>> /\ cells = <<>>
  \/ \E text \in Sendable : \E tags \in Answers(text) :
       answered = [text |-> text, tags |-> tags] /\ shown = MacronizeInput(text, tags)

CellTypes ==
  /\ cells \in [DOMAIN cells -> [options : Seq(SUBSET Nat), idx : Nat, resolved : BOOLEAN]]
  /\ \A i \in DOMAIN cells : cells[i].idx \in 1 .. Len(cells[i].options)
CellsFollow ==
  /\ DOMAIN cells \subseteq DOMAIN shown /\ reused \in BOOLEAN
  /\ ~ reused => \A i \in DOMAIN cells : cells[i].options = FormsOf(shown[i])

MacronInv ==
  /\ rawInput \in Typed \cup {<<>>} /\ sending \subseteq Sendable
  /\ requestsLeft \in 0 .. MaxRequests
  /\ AnswerShown /\ CellTypes /\ CellsFollow

LEMMA InitMacron == ConstantsFit /\ Init => MacronInv
<1> SUFFICES ASSUME ConstantsFit, Init PROVE MacronInv
  OBVIOUS
<1>1. rawInput = <<>> /\ sending = {} /\ requestsLeft = MaxRequests /\ MaxRequests \in Nat
  BY DEF Init, ConstantsFit
<1>2. AnswerShown /\ cells = <<>> /\ shown = <<>> /\ reused = FALSE
  BY DEF Init, AnswerShown
<1>3. CellTypes /\ CellsFollow
  <2>1. DOMAIN cells = {} /\ cells = [i \in {} |-> cells[i]]
    BY <1>2
  <2>2. \A S : cells \in [DOMAIN cells -> S]
    BY <2>1
  <2> QED
    BY <1>2, <2>1, <2>2 DEF CellTypes, CellsFollow
<1> QED
  BY <1>1, <1>2, <1>3 DEF MacronInv

\* A new component shows one of the forms of its word.
LEMMA NewCellFits ==
  ASSUME NEW word, WordFits(word), IsAmbiguous(word)
  PROVE  /\ NewCell(word) \in [options : Seq(SUBSET Nat), idx : Nat, resolved : BOOLEAN]
         /\ NewCell(word).options = FormsOf(word)
         /\ NewCell(word).idx \in 1 .. Len(NewCell(word).options)
<1> DEFINE forms == FormsOf(word)
           first == GetIdx(word)
<1>1. forms \in Seq(SUBSET Nat) /\ Len(forms) > 1
  BY DEF WordFits, IsAmbiguous
<1>2. word.suggested # 0 => word.suggested \in DOMAIN forms
  BY DEF WordFits
<1> HIDE DEF forms
<1>3. PICK n \in Nat : Len(forms) = n /\ DOMAIN forms = 1 .. n
  BY <1>1
<1>4. first \in 1 .. n
  BY <1>1, <1>2, <1>3 DEF GetIdx
<1>5. NewCell(word) = [options |-> forms, idx |-> first, resolved |-> FALSE]
  BY DEF NewCell, forms
<1> HIDE DEF first
<1> QED
  BY <1>1, <1>3, <1>4, <1>5 DEF forms

\* An answer keeps the components of its ambiguous words, or makes new ones.
LEMMA AnswerFits ==
  ASSUME ConstantsFit, MacronInv, NEW text \in sending, NEW tags \in Answers(text),
         Answer(text, tags)
  PROVE  MacronInv'
<1> DEFINE result == MacronizeInput(text, tags)
           kept == KeptCells(result)
           ambiguous == {j \in DOMAIN result : IsAmbiguous(result[j])}
<1>1. text \in Sendable
  BY DEF MacronInv
<1>2. /\ sending' = {} /\ rawInput' = rawInput /\ requestsLeft' = requestsLeft
      /\ answered' = [text |-> text, tags |-> tags] /\ shown' = result
      /\ cells' = CellsOf(result, kept) /\ reused' = (kept # {})
  BY DEF Answer, SetProcessed
<1>3. \A i \in DOMAIN result : WordFits(result[i])
  BY <1>1, AnswersFit DEF Fitting
<1>4. AnswerShown'
  BY <1>1, <1>2 DEF AnswerShown
<1>5. cells' = [i \in ambiguous |-> IF i \in kept THEN cells[i] ELSE NewCell(result[i])]
  BY <1>2 DEF CellsOf
<1>6. kept \subseteq DOMAIN cells
  BY DEF KeptCells
<1> HIDE DEF result, kept
<1>7. /\ cells \in [DOMAIN cells -> [options : Seq(SUBSET Nat), idx : Nat, resolved : BOOLEAN]]
      /\ \A i \in DOMAIN cells : cells[i].idx \in 1 .. Len(cells[i].options)
  BY DEF MacronInv, CellTypes
<1>8. \A i \in ambiguous :
        /\ NewCell(result[i]) \in [options : Seq(SUBSET Nat), idx : Nat, resolved : BOOLEAN]
        /\ NewCell(result[i]).options = FormsOf(result[i])
        /\ NewCell(result[i]).idx \in 1 .. Len(NewCell(result[i]).options)
  BY <1>3, NewCellFits
<1>9. ambiguous \subseteq DOMAIN result
  OBVIOUS
<1> HIDE DEF ambiguous
<1>10. \A i \in ambiguous :
         /\ cells'[i] \in [options : Seq(SUBSET Nat), idx : Nat, resolved : BOOLEAN]
         /\ cells'[i].idx \in 1 .. Len(cells'[i].options)
  <2> SUFFICES ASSUME NEW i \in ambiguous
               PROVE  /\ cells'[i] \in [options : Seq(SUBSET Nat), idx : Nat, resolved : BOOLEAN]
                      /\ cells'[i].idx \in 1 .. Len(cells'[i].options)
    OBVIOUS
  <2>1. CASE i \in kept
    <3>1. cells'[i] = cells[i] /\ i \in DOMAIN cells
      BY <1>5, <1>6, <2>1
    <3> QED
      BY <1>7, <3>1
  <2>2. CASE i \notin kept
    <3>1. cells'[i] = NewCell(result[i])
      BY <1>5, <2>2
    <3> QED
      BY <1>8, <3>1
  <2> QED
    BY <2>1, <2>2
<1>11. DOMAIN cells' = ambiguous /\ cells' = [i \in ambiguous |-> cells'[i]]
  BY <1>5
<1>12. CellTypes'
  <2>1. cells' \in [ambiguous -> [options : Seq(SUBSET Nat), idx : Nat, resolved : BOOLEAN]]
    BY <1>10, <1>11
  <2> QED
    BY <1>10, <1>11, <2>1 DEF CellTypes
<1>13. CellsFollow'
  <2>1. ASSUME ~ reused', NEW i \in ambiguous PROVE cells'[i].options = FormsOf(result[i])
    <3>1. i \notin kept
      BY <1>2, <2>1
    <3>2. cells'[i] = NewCell(result[i])
      BY <1>5, <3>1
    <3> QED
      BY <1>8, <3>2
  <2>2. reused' \in BOOLEAN
    BY <1>2
  <2>3. (\A i \in DOMAIN cells : cells[i].options = FormsOf(shown[i]))'
        <=> \A i \in DOMAIN cells' : cells'[i].options = FormsOf(shown'[i])
    OBVIOUS
  <2> QED
    BY <1>2, <1>9, <1>11, <2>1, <2>2 DEF CellsFollow
<1> QED
  BY <1>2, <1>4, <1>12, <1>13 DEF MacronInv

\* A click shows the next form of a component, after the last one the first.
LEMMA ClickFits ==
  ASSUME MacronInv, NEW i \in DOMAIN cells, NEW altKey \in BOOLEAN, NEW ctrlKey \in BOOLEAN,
         ClickWord(i, altKey, ctrlKey)
  PROVE  MacronInv'
<1> DEFINE Cell == [options : Seq(SUBSET Nat), idx : Nat, resolved : BOOLEAN]
<1>1. UNCHANGED <<rawInput, sending, answered, shown, reused, requestsLeft>>
  BY DEF ClickWord
<1>2. /\ cells \in [DOMAIN cells -> Cell]
      /\ \A j \in DOMAIN cells : cells[j].idx \in 1 .. Len(cells[j].options)
  BY DEF MacronInv, CellTypes
<1>3. PICK n \in Nat : n = Len(cells[i].options)
  BY <1>2
<1>4. cells[i].idx \in 1 .. n
  BY <1>2, <1>3
<1>5. PICK next \in 1 .. n : next = (cells[i].idx % n) + 1
  BY <1>4
<1>6. \/ cells' = cells
      \/ cells' = [cells EXCEPT ![i].resolved = ~ @]
      \/ cells' = [cells EXCEPT ![i].idx = next]
  BY <1>3, <1>5 DEF ClickWord
<1>7. /\ cells' \in [DOMAIN cells -> Cell] /\ DOMAIN cells' = DOMAIN cells
      /\ \A j \in DOMAIN cells : cells'[j].options = cells[j].options
      /\ \A j \in DOMAIN cells : cells'[j].idx \in 1 .. Len(cells'[j].options)
  <2>1. CASE cells' = cells
    BY <1>2, <2>1
  <2>2. CASE cells' = [cells EXCEPT ![i].resolved = ~ @]
    BY <1>2, <2>2
  <2>3. CASE cells' = [cells EXCEPT ![i].idx = next]
    <3>1. cells[i] \in Cell
      BY <1>2
    <3> DEFINE cell == [cells[i] EXCEPT !.idx = next]
    <3>2. cell \in Cell /\ cell.options = cells[i].options /\ cell.idx = next
      BY <1>5, <3>1
    <3>3. cells' = [cells EXCEPT ![i] = cell]
      BY <2>3
    <3> HIDE DEF cell, Cell
    <3>4. /\ cells' \in [DOMAIN cells -> Cell] /\ DOMAIN cells' = DOMAIN cells
          /\ \A j \in DOMAIN cells : cells'[j] = IF j = i THEN cell ELSE cells[j]
      BY <1>2, <3>2, <3>3
    <3>5. next \in 1 .. Len(cells[i].options)
      BY <1>3, <1>5
    <3> QED
      BY <1>2, <3>2, <3>4, <3>5
  <2> QED
    BY <1>6, <2>1, <2>2, <2>3
<1>8. AnswerShown'
  <2>1. CASE answered = [text |-> <<>>, tags |-> NoAnswer] /\ shown = <<>> /\ cells = <<>>
    BY <2>1
  <2>2. CASE \E text \in Sendable : \E tags \in Answers(text) :
               answered = [text |-> text, tags |-> tags] /\ shown = MacronizeInput(text, tags)
    BY <1>1, <2>2 DEF AnswerShown
  <2> QED
    BY <2>1, <2>2 DEF MacronInv, AnswerShown
<1>9. CellTypes'
  BY <1>7 DEF CellTypes
<1>10. CellsFollow'
  BY <1>1, <1>7 DEF MacronInv, CellsFollow
<1> QED
  BY <1>1, <1>8, <1>9, <1>10 DEF MacronInv

LEMMA NextMacron == ConstantsFit /\ MacronInv /\ [Next]_vars => MacronInv'
<1> SUFFICES ASSUME ConstantsFit, MacronInv, [Next]_vars PROVE MacronInv'
  OBVIOUS
<1>1. ASSUME UNCHANGED <<answered, shown, cells, reused>>
      PROVE  AnswerShown' /\ CellTypes' /\ CellsFollow'
  BY <1>1 DEF MacronInv, AnswerShown, CellTypes, CellsFollow
<1>2. ASSUME NEW text \in Typed, SetRawInput(text) PROVE MacronInv'
  BY <1>1, <1>2 DEF SetRawInput, MacronInv
<1>3. CASE HandleClick
  <2>1. rawInput \in Sendable
    BY <1>3 DEF HandleClick, MacronInv, Sendable
  <2>2. requestsLeft' \in 0 .. MaxRequests
    BY <1>3 DEF HandleClick, MacronInv, ConstantsFit
  <2>3. AnswerShown' /\ CellTypes' /\ CellsFollow'
    BY <1>1, <1>3 DEF HandleClick
  <2>4. rawInput' = rawInput /\ sending' = {rawInput}
    BY <1>3 DEF HandleClick
  <2> QED
    BY <2>1, <2>2, <2>3, <2>4 DEF MacronInv
<1>4. ASSUME NEW text \in sending, NEW tags \in Answers(text), Answer(text, tags)
      PROVE  MacronInv'
  BY <1>4, AnswerFits
<1>5. ASSUME NEW i \in DOMAIN cells, NEW altKey \in BOOLEAN, NEW ctrlKey \in BOOLEAN,
             ClickWord(i, altKey, ctrlKey)
      PROVE  MacronInv'
  BY <1>5, ClickFits
<1>6. CASE SetDictWord
  BY <1>1, <1>6 DEF SetDictWord, MacronInv
<1>7. CASE UNCHANGED vars
  BY <1>1, <1>7 DEF vars, MacronInv
<1> QED
  BY <1>2, <1>3, <1>4, <1>5, <1>6, <1>7 DEF Next

\* What is promised of the words that are shown.
LEMMA MacronHolds ==
  ASSUME ConstantsFit, MacronInv
  PROVE  TypeOK /\ MacronsFit
<1>1. TypeOK
  BY DEF MacronInv, TypeOK, CellsFollow, Sendable
<1>2. ShownIsAnOption
  <2>1. \A i \in DOMAIN cells : cells[i].idx \in DOMAIN cells[i].options
    <3> SUFFICES ASSUME NEW i \in DOMAIN cells PROVE cells[i].idx \in DOMAIN cells[i].options
      OBVIOUS
    <3>1. cells[i].options \in Seq(SUBSET Nat) /\ cells[i].idx \in 1 .. Len(cells[i].options)
      BY DEF MacronInv, CellTypes
    <3> QED
      BY <3>1
  <2> QED
    BY <2>1 DEF MacronInv, CellsFollow, ShownIsAnOption
<1>3. CASE answered = [text |-> <<>>, tags |-> NoAnswer] /\ shown = <<>> /\ cells = <<>>
  BY <1>1, <1>2, <1>3 DEF MacronsFit, AnswersUnlessEncliticDiffers,
     Complete, OptionsKeepMarks, AllReadingsShown, SuggestionsFit
<1>4. ASSUME NEW text \in Sendable, NEW tags \in Answers(text),
             answered = [text |-> text, tags |-> tags], shown = MacronizeInput(text, tags)
      PROVE  MacronsFit
  <2>1. Fitting(shown, text, tags) /\ answered.text = text /\ answered.tags = tags
    BY <1>4, AnswersFit
  <2>2. AnswersUnlessEncliticDiffers
    BY <2>1 DEF Fitting, AnswersUnlessEncliticDiffers, Complete
  <2>3. OptionsKeepMarks
    BY <2>1 DEF Fitting, MarksFit, OptionsKeepMarks, Possible, Agreed
  <2>4. AllReadingsShown
    BY <2>1 DEF Fitting, WordFits, AllReadingsShown, ShownReadings, Abbreviated, OfForm
  <2>5. SuggestionsFit
    <3> SUFFICES ASSUME shown # Failed, NEW i \in DOMAIN shown, shown[i].suggested # 0
                 PROVE  LET form == shown[i].options[shown[i].suggested].form
                            before == {j \in 1 .. i - 1 :
                                         answered.text[j].isWord
                                         /\ NlpEnclitic(answered.text[j]) # <<>>}
                            tag == answered.tags[i + Cardinality(before)]
                        IN \E a \in ToSet(Analyses[shown[i].word]) :
                             a.longs = form
                             /\ CompareGrammaticalData(ConvertUpos(tag.morph), a.data)
                                  # Unrelated
      BY DEF SuggestionsFit
    <3>1. SplitBefore(text, i - 1) =
            {j \in 1 .. i - 1 : text[j].isWord /\ NlpEnclitic(text[j]) # <<>>}
      BY DEF SplitBefore, Splits
    <3>2. TagFits(shown[i], tags[i + Cardinality(SplitBefore(text, i - 1))])
      BY <2>1 DEF Fitting
    <3> QED
      BY <2>1, <3>1, <3>2 DEF TagFits
  <2> QED
    BY <1>2, <2>2, <2>3, <2>4, <2>5 DEF MacronsFit
<1> QED
  BY <1>1, <1>3, <1>4 DEF MacronInv, AnswerShown

\* The page sends what was typed, has no more components than the result has
\* words, and asks no more often than it may.
THEOREM MacronTypeCorrect ==
  ASSUME ConstantsFit
  PROVE  Spec => []TypeOK
<1>1. MacronInv => TypeOK
  BY MacronHolds
<1>2. Init => MacronInv
  BY InitMacron
<1>3. MacronInv /\ [Next]_vars => MacronInv'
  BY NextMacron
<1> QED
  BY <1>1, <1>2, <1>3, PTL DEF Spec

\* A text is answered unless an enclitic is written otherwise than Morceus gives
\* it; its words get all the best forms that keep their marks, with all readings,
\* a suggestion by their own tag, and are shown in one of their forms.
THEOREM MacronsAlwaysFit ==
  ASSUME ConstantsFit
  PROVE  Spec => []MacronsFit
<1>1. MacronInv => MacronsFit
  BY MacronHolds
<1>2. Init => MacronInv
  BY InitMacron
<1>3. MacronInv /\ [Next]_vars => MacronInv'
  BY NextMacron
<1> QED
  BY <1>1, <1>2, <1>3, PTL DEF Spec

=============================================================================
