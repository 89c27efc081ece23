---------------------------- MODULE PackedIndex ----------------------------
(***************************************************************************)
(* The arithmetic under the corpus: bitmasks as words, lists that are      *)
(* merged with two pointers, slices by binary search, and numbers packed   *)
(* into bytes (bitmask_utils.rs, index_data.rs, packing.ts).  CorpusQuery   *)
(* uses the same operations on sets of tokens; here they are as the code   *)
(* computes them, and are compared with those sets.                        *)
(*                                                                         *)
(* A word is the set of its bits that are one: "&" is \cap, "|" is \cup.   *)
(***************************************************************************)
EXTENDS Integers, Sequences, FiniteSets, SequencesExt

CONSTANTS
  WordBits,     \* 64 in the code
  ByteBits,     \* 8 in the code
  MaxWindow,    \* 15 in the code
  Starts,       \* starts of slices, multiples of WordBits
  NumWords,     \* the words of a slice
  Seconds,      \* sets of places in a slice, for the second index
  Offsets,      \* differences of position
  Sparse,       \* how many tokens a list may have
  PackedBound   \* packed numbers are below it

VARIABLE operands   \* what the operations are applied to

NoData == [kind |-> "none"]
Init == operands = NoData

Bits == 0 .. WordBits - 1
Size == NumWords * WordBits
Sorted(ids) == SelectSeq([k \in 1 .. Max(Starts) + 2 * Size |-> k - 1], LAMBDA x : x \in ids)
Words(ids, start) == [w \in 1 .. NumWords |-> {b \in Bits : start + (w - 1) * WordBits + b \in ids}]
IdsOf(words, start) ==
  UNION {{start + (w - 1) * WordBits + b : b \in words[w]} : w \in DOMAIN words}

-----------------------------------------------------------------------------
\* Bitmasks.

Shl(word, k) == {b + k : b \in word} \cap Bits
Shr(word, k) == {b - k : b \in word} \cap Bits

\* Mutant: the word that was just smeared is carried into the next one.
OrWithSelfOffsetSmeared(data, offset) ==
  LET up == offset > 0
      k == IF up THEN offset ELSE -offset
      Main(word) == IF up THEN Shl(word, k) ELSE Shr(word, k)
      Carry(word) == IF up THEN Shr(word, WordBits - k) ELSE Shl(word, WordBits - k)
      order == IF up THEN data ELSE Reverse(data)
      smeared == FoldLeft(LAMBDA s, word :
                   LET new == word \cup Main(word) \cup Carry(s.last)
                   IN [done |-> Append(s.done, new), last |-> new],
                 [done |-> <<>>, last |-> {}], order).done
  IN IF up THEN smeared ELSE Reverse(smeared)

\* bitmask_or_with_self_offset_in_place: in place, from one end to the other,
\* carrying each word as it was.
OrWithSelfOffset(data, offset) ==
  LET up == offset > 0
      k == IF up THEN offset ELSE -offset
      Main(word) == IF up THEN Shl(word, k) ELSE Shr(word, k)
      Carry(word) == IF up THEN Shr(word, WordBits - k) ELSE Shl(word, WordBits - k)
      order == IF up THEN data ELSE Reverse(data)
      smeared == FoldLeft(LAMBDA s, word :
                   [done |-> Append(s.done, word \cup Main(word) \cup Carry(s.last)), last |-> word],
                 [done |-> <<>>, last |-> {}], order).done
  IN IF up THEN smeared ELSE Reverse(smeared)

\* The mask of "second" moved by an offset, word by word.
Moved(second, offset) ==
  [w \in DOMAIN second |->
    IF offset >= 0
    THEN Shl(second[w], offset)
         \cup (IF w = 1 THEN {} ELSE Shr(second[w - 1], WordBits - offset))
    ELSE Shr(second[w], -offset)
         \cup (IF w = Len(second) THEN {} ELSE Shl(second[w + 1], WordBits + offset))]

AndWithBitmasks(first, second, offset) ==
  [w \in DOMAIN first |-> first[w] \cap Moved(second, offset)[w]]
OrWithBitmasks(first, second, offset) ==
  [w \in DOMAIN first |-> first[w] \cup Moved(second, offset)[w]]

\* next_one_bit: -1 is None.
RECURSIVE NextOneBit(_, _)
NextOneBit(bitmask, start) ==
  LET w == start \div WordBits
      ones == IF w < Len(bitmask) THEN {b \in bitmask[w + 1] : b >= start % WordBits} ELSE {}
  IN IF w >= Len(bitmask) THEN -1
     ELSE IF ones # {} THEN w * WordBits + Min(ones)
     ELSE NextOneBit(bitmask, (w + 1) * WordBits)

\* Smearing by r and then by at most as much again, until the window.
RECURSIVE SmearFrom(_, _, _, _)
SmearFrom(data, r, window, sign) ==
  IF r >= window THEN data
  ELSE LET step == IF window - r < r THEN window - r ELSE r
       IN SmearFrom(OrWithSelfOffset(data, step * sign), r + step, window, sign)

SmearBitmask(original, window, direction) ==
  LET sign == IF direction = "Left" THEN -1 ELSE 1
      smeared == SmearFrom(OrWithSelfOffset(original, sign), 1, window, sign)
  IN IF direction = "Both" THEN OrWithSelfOffset(smeared, -window) ELSE smeared

-----------------------------------------------------------------------------
\* Lists and bitmasks. A list is sorted and has no number twice.

HasBit(words, bit) == bit % WordBits \in words[bit \div WordBits + 1]

\* apply_and_with_bitmask_and_array: what falls outside of the bitmask is cut
\* from both ends; the results are relative to the bitmask.
AndWithBitmaskAndArray(bitmask, indices, offset, start) ==
  LET end == Len(bitmask) * WordBits + start
      inside == SelectSeq(indices, LAMBDA x : x + offset >= start /\ x + offset < end)
      moved == [k \in DOMAIN inside |-> inside[k] + offset]
  IN SelectSeq(moved, LAMBDA x : HasBit(bitmask, x - start))

\* apply_or_with_bitmask_and_array: beyond the end is an error.
OrFails(bitmask, list, offset, start) ==
  list # <<>> /\ Last(list) + offset >= Len(bitmask) * WordBits + start

OrWithBitmaskAndArray(bitmask, list, offset, start) ==
  FoldLeft(LAMBDA words, x :
    LET bit == x + offset - start
    IN IF bit < 0 THEN words
       ELSE [words EXCEPT ![bit \div WordBits + 1] = @ \cup {bit % WordBits}],
    bitmask, list)

\* Two pointers: both are behind the last entries that were looked at.
RECURSIVE AndFrom(_, _, _, _, _)
AndFrom(first, second, offset, i, j) ==
  IF i > Len(first) \/ j > Len(second) THEN <<>>
  ELSE LET x == first[i]
           y == second[j] + offset
       IN IF x < y THEN AndFrom(first, second, offset, i + 1, j)
          ELSE IF x > y THEN AndFrom(first, second, offset, i, j + 1)
          ELSE <<x>> \o AndFrom(first, second, offset, i + 1, j + 1)

AndWithArrays(first, second, offset) == AndFrom(first, second, offset, 1, 1)

\* apply_or_with_arrays: what the offset makes negative is left out.
NonNegative(x) == IF x >= 0 THEN <<x>> ELSE <<>>

RECURSIVE OrFrom(_, _, _, _, _)
OrFrom(first, second, offset, i, j) ==
  LET y == second[j] + offset
  IN IF j > Len(second) THEN SubSeq(first, i, Len(first))
     ELSE IF i > Len(first) THEN NonNegative(y) \o OrFrom(first, second, offset, i, j + 1)
     ELSE IF first[i] <= y
     THEN <<first[i]>> \o OrFrom(first, second, offset, i + 1, IF first[i] = y THEN j + 1 ELSE j)
     ELSE NonNegative(y) \o OrFrom(first, second, offset, i, j + 1)

OrWithArrays(first, second, offset) == OrFrom(first, second, offset, 1, 1)

LeftFuzz(distance, direction) == IF direction = "Right" THEN 0 ELSE distance
RightFuzz(distance, direction) == IF direction = "Left" THEN 0 ELSE distance

\* find_fuzzy_matches_with_arrays: an entry in the window of y leaves y there
\* for the next entry.
RECURSIVE FuzzyFrom(_, _, _, _, _, _)
FuzzyFrom(first, second, left, right, i, j) ==
  IF i > Len(first) \/ j > Len(second) THEN <<>>
  ELSE IF first[i] < second[j] - left THEN FuzzyFrom(first, second, left, right, i + 1, j)
  ELSE IF first[i] > second[j] + right THEN FuzzyFrom(first, second, left, right, i, j + 1)
  ELSE <<first[i]>> \o FuzzyFrom(first, second, left, right, i + 1, j)

FuzzyWithArrays(first, second, offset, distance, direction) ==
  FuzzyFrom(first, [k \in DOMAIN second |-> second[k] + offset],
            LeftFuzz(distance, direction), RightFuzz(distance, direction), 1, 1)

FuzzyWithBitmasks(first, second, offset, distance, direction) ==
  AndWithBitmasks(first, SmearBitmask(second, distance, direction), offset)

\* find_fuzzy_matches_with_array_and_bitmask: the bound adds the start of the
\* slice again, so a relative index may be beyond the words, which panics.
Relative(x, offset, start) == x + offset - start
Looked(bitmask, x, offset, start) ==
  Relative(x, offset, start) >= 0 /\ Relative(x, offset, start) < Len(bitmask) * WordBits + start

FuzzyPanics(array, bitmask, offset, start) ==
  \E x \in ToSet(array) :
    Looked(bitmask, x, offset, start) /\ Relative(x, offset, start) >= Len(bitmask) * WordBits

FuzzyWithArrayAndBitmask(array, bitmask, offset, distance, direction, start) ==
  LET smeared == SmearBitmask(bitmask, distance, direction)
  IN SelectSeq(array, LAMBDA x :
       Looked(bitmask, x, offset, start) /\ HasBit(smeared, Relative(x, offset, start)))

\* find_fuzzy_matches_with_bitmask_and_array: a start below zero is compared
\* as an unsigned number, so that entry is skipped.
FuzzyWithBitmaskAndArray(bitmask, array, offset, distance, direction, start) ==
  LET final == Len(bitmask) * WordBits - 1
      From(x) == Relative(x, offset, start) - LeftFuzz(distance, direction)
      To(x) == Relative(x, offset, start) + RightFuzz(distance, direction)
      used == {x \in ToSet(array) : To(x) >= 0 /\ From(x) >= 0 /\ From(x) <= final}
      bits == UNION {From(x) .. Min({To(x), final}) : x \in used}
  IN [w \in DOMAIN bitmask |-> {b \in bitmask[w] : (w - 1) * WordBits + b \in bits}]

\* binary_search of a list: where the number is, or where it would be put.
SearchIndex(list, x) == Cardinality({k \in DOMAIN list : list[k] < x})

\* IndexSlice::from, of a list; an end that is in the list costs an entry.
SliceList(list, start, end) ==
  LET from == SearchIndex(list, start)
      at == SearchIndex(list, end)
      to == IF end \in ToSet(list) THEN at - 1 ELSE at
  IN IF to < from THEN <<"panic">> ELSE SubSeq(list, from + 1, to)

SliceBitmask(words, start, end) ==
  SubSeq(words, start \div WordBits + 1, Min({end \div WordBits, Len(words)}))

\* MatchIterator over a bitmask: every bit from one on.
RECURSIVE MatchesFrom(_, _)
MatchesFrom(bitmask, i) ==
  LET v == NextOneBit(bitmask, i)
  IN IF v = -1 THEN <<>> ELSE <<v>> \o MatchesFrom(bitmask, v + 1)

-----------------------------------------------------------------------------
\* Packed numbers: a header with the bits of a number and the unused bits at
\* the end, then the numbers, the highest bit first.

BitsPerNumber(upperBound) ==
  IF upperBound = 1 THEN 1 ELSE CHOOSE b \in 0 .. 31 : 2 ^ b >= upperBound /\ 2 ^ (b - 1) < upperBound

Bit(n, i) == (n \div (2 ^ i)) % 2
ToBits(n, bits) == [i \in 1 .. bits |-> Bit(n, bits - i)]
FromBits(data, from, bits) ==
  FoldLeft(LAMBDA n, i : 2 * n + data[from + i], 0, [i \in 1 .. bits |-> i])

PackSortedNats(numbers) ==
  IF numbers = <<>> THEN [unused |-> 0, bits |-> 0, data |-> <<>>]
  ELSE LET bits == BitsPerNumber(Last(numbers) + 1)
           total == Len(numbers) * bits
           bytes == (total + ByteBits - 1) \div ByteBits
           unused == bytes * ByteBits - total
       IN [unused |-> unused, bits |-> bits,
           data |-> FlattenSeq([k \in DOMAIN numbers |-> ToBits(numbers[k], bits)])
                    \o [i \in 1 .. unused |-> 0]]

NumElements(packed) ==
  IF packed.bits = 0 THEN 0 ELSE (Len(packed.data) - packed.unused) \div packed.bits

Get(packed, index) == FromBits(packed.data, index * packed.bits, packed.bits)

UnpackIntegers(packed) == [k \in 1 .. NumElements(packed) |-> Get(packed, k - 1)]

RECURSIVE HasValueBetween(_, _, _, _, _)
HasValueBetween(packed, lowTarget, highTarget, low, high) ==
  LET mid == (low + high) \div 2
      value == Get(packed, mid)
  IN IF low > high THEN FALSE
     ELSE IF value < lowTarget THEN HasValueBetween(packed, lowTarget, highTarget, mid + 1, high)
     ELSE IF value > highTarget THEN HasValueBetween(packed, lowTarget, highTarget, low, mid - 1)
     ELSE TRUE

HasValueInRange(packed, lowTarget, highTarget) ==
  HasValueBetween(packed, lowTarget, highTarget, 0, NumElements(packed) - 1)

-----------------------------------------------------------------------------
\* Indices of one range, each a bitmask or a list, and numbers to pack.

Places == 0 .. Size - 1
At(places, start) == {start + p : p \in places}

Mask == \E places \in SUBSET Places : operands' = [kind |-> "mask", first |-> places]
Pair ==
  \E start \in Starts, first \in {s \in SUBSET Places : Cardinality(s) <= Sparse}, second \in Seconds :
    operands' = [kind |-> "pair", start |-> start, first |-> At(first, start),
                 second |-> At(second, start)]
Numbers ==
  \E numbers \in SUBSET (0 .. PackedBound - 1) : operands' = [kind |-> "numbers", numbers |-> numbers]

Next == operands = NoData /\ (Mask \/ Pair \/ Numbers)

Spec == Init /\ [][Next]_operands

TypeOK == operands.kind \in {"none", "mask", "pair", "numbers"}

Ids(start) == start .. start + Size - 1
Directions == {"Left", "Right", "Both"}
Reach(y, distance, direction) ==
  y - LeftFuzz(distance, direction) .. y + RightFuzz(distance, direction)

\* The one case in which a window is not smeared as promised: to both sides it
\* is smeared to the right first, which the end of the slice cuts off, and then
\* moved back, so that a gap is left of a bit near the end (bitmask_utils.rs:249).
CutOff(y, distance, direction, slice) == direction = "Both" /\ y + distance \notin slice

\* A smeared bitmask has a bit only in reach of a bit of the mask, and all of
\* [i - window, i], [i, i + window] or [i - window, i + window] that is in the
\* mask (bitmask_utils.rs:217-221), but for the left of a bit whose window is
\* cut off; and the iterator finds every bit from a place on.
MasksFit(places) ==
  LET words == Words(places, 0)
  IN /\ \A distance \in 1 .. MaxWindow, direction \in Directions :
          LET smeared == IdsOf(SmearBitmask(words, distance, direction), 0)
          IN /\ \A z \in smeared : \E y \in places : z \in Reach(y, distance, direction)
             /\ \A y \in places :
                  /\ (IF direction = "Left" THEN {y} ELSE y .. y + distance) \cap Places \subseteq smeared
                  /\ CutOff(y, distance, direction, Places)
                       \/ Reach(y, distance, direction) \cap Places \subseteq smeared
     /\ \A i \in 0 .. Size : MatchesFrom(words, i) = Sorted({y \in places : y >= i})

\* The four combinations of "and", and those of "or", are the intersection
\* and the union of the two indices, moved by the offset.
AndsAndOrsFit(first, second, start, offset) ==
  LET f == Words(first, start)
      s == Words(second, start)
      both == {x \in first : x - offset \in second}
      moved == {y + offset : y \in second}
      either == first \cup (moved \cap Ids(start))
  IN /\ IdsOf(AndWithBitmasks(f, s, offset), start) = both
     /\ AndWithBitmaskAndArray(f, Sorted(second), offset, start) = Sorted(both)
     /\ AndWithArrays(Sorted(first), Sorted(second), offset) = Sorted(both)
     /\ IdsOf(OrWithBitmasks(f, s, offset), start) = either
     /\ OrWithArrays(Sorted(first), Sorted(second), offset)
          = Sorted(first \cup {x \in moved : x >= 0})
     /\ ~ OrFails(f, Sorted(second), offset, start) =>
          IdsOf(OrWithBitmaskAndArray(f, Sorted(second), offset, start), start) = either

\* The fuzzy matches are the entries of the first index in reach of one of the
\* second that the offset has moved (index_data.rs:390-561). Two lists find
\* exactly these. A bitmask finds no others, and misses an entry only if each
\* one of the second in its reach is one of these: its window is cut off, the
\* entry is out of the slice before it is moved, or, for a list against a
\* bitmask, its reach begins before the slice (the comparison at :568).
FuzzyFits(first, second, start, offset, distance, direction) ==
  LET f == Words(first, start)
      s == Words(second, start)
      slice == Ids(start)
      Near(x, y) == x \in Reach(y + offset, distance, direction)
      Fits(found, Missed(_, _)) ==
        /\ found \subseteq first
        /\ \A x \in found : \E y \in second : Near(x, y)
        /\ \A x \in first, y \in second : Near(x, y) => x \in found \/ Missed(x, y)
      Never(x, y) == FALSE
      SmearMisses(x, y) == CutOff(y, distance, direction, slice) \/ x - offset \notin slice
      BeginsBefore(x, y) == y + offset - LeftFuzz(distance, direction) < start
      lists == FuzzyWithArrays(Sorted(first), Sorted(second), offset, distance, direction)
      ofMask == FuzzyWithArrayAndBitmask(Sorted(first), s, -offset, distance, direction, start)
  IN /\ Fits(ToSet(lists), Never) /\ lists = Sorted(ToSet(lists))
     /\ Fits(IdsOf(FuzzyWithBitmasks(f, s, offset, distance, direction), start), SmearMisses)
     /\ ~ FuzzyPanics(Sorted(first), s, -offset, start) =>
          Fits(ToSet(ofMask), SmearMisses) /\ ofMask = Sorted(ToSet(ofMask))
     /\ Fits(IdsOf(FuzzyWithBitmaskAndArray(f, Sorted(second), offset, distance, direction, start), start),
             BeginsBefore)

\* A slice holds the entries of its range, unless its end is in the list.
SlicesFit(first, start) ==
  LET whole == [w \in 1 .. start \div WordBits |-> {}] \o Words(first, start)
  IN \A end \in {start + w * WordBits : w \in 1 .. NumWords} :
       LET inside == {x \in first : start <= x /\ x < end}
       IN /\ end \notin first => SliceList(Sorted(first), start, end) = Sorted(inside)
          /\ SliceBitmask(whole, start, end)
               = [w \in 1 .. (end - start) \div WordBits |-> Words(inside, start)[w]]

\* Packed numbers come out as they went in, one by one and all together, and
\* a range is found exactly when one of them is in it.
PackedFit(numbers) ==
  LET packed == PackSortedNats(Sorted(numbers))
  IN /\ Len(packed.data) % ByteBits = 0
     /\ UnpackIntegers(packed) = Sorted(numbers)
     /\ \A low, high \in 0 .. PackedBound :
          low <= high => (HasValueInRange(packed, low, high) <=> \E n \in numbers : low <= n /\ n <= high)

\* The words, lists and bytes compute what is meant by them, but for what the
\* smeared bitmasks and the fuzzy matches are said above to miss.
WordsFit ==
  CASE operands.kind = "mask" -> MasksFit(operands.first)
    [] operands.kind = "numbers" -> PackedFit(operands.numbers)
    [] operands.kind = "pair" ->
         /\ \A offset \in Offsets :
              /\ AndsAndOrsFit(operands.first, operands.second, operands.start, offset)
              /\ \A distance \in {1, MaxWindow}, direction \in Directions :
                   FuzzyFits(operands.first, operands.second, operands.start, offset, distance, direction)
         /\ SlicesFit(operands.first, operands.start)
    [] OTHER -> TRUE
=============================================================================
