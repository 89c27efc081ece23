---------------------------- MODULE Inflections ----------------------------
(***************************************************************************)
(* Grammatical data of Morceus: how the abbreviations of a stem or table   *)
(* file are read, how two data are compared and merged, and the number     *)
(* that carries them to the Rust port, which merges the numbers.           *)
(*                                                                         *)
(* A value is its number in the enums of types.ts, a field the set of its  *)
(* values.  Order and repetition in a field's array are left out.          *)
(***************************************************************************)
EXTENDS Integers, Sequences, FiniteSets, FiniteSetsExt

\* WordInflectionData: the abbreviation of each value, in the order of the enums.
Abbreviations ==
  [case   |-> <<"nom", "acc", "dat", "gen", "abl", "voc", "loc">>,
   gender |-> <<"masc", "fem", "neut", "adverbial">>,
   number |-> <<"sg", "pl">>,
   person |-> <<"1st", "2nd", "3rd">>,
   voice  |-> <<"act", "pass">>,
   mood   |-> <<"ind", "imperat", "subj", "part", "gerundive", "inf", "supine">>,
   tense  |-> <<"pres", "imperf", "perf", "futperf", "fut", "plup">>,
   degree |-> <<"positive", "comp", "superl">>]
Fields == DOMAIN Abbreviations
Repeated == {"case", "gender"}
Nothing == [f \in Fields |-> {}]
InternalTags == {"comp_only", "no_fut", "no_fut_part"}
SemanticTags == {"early", "rare"}

-----------------------------------------------------------------------------
(* toInflectionData: one abbreviation after another.                       *)

\* Abbreviations of several values, and those that may only come first.
Joint == [x \in {"abl/dat", "dat/abl", "nom/acc", "nom/voc", "nom/voc/acc",
                 "masc/neut", "masc/fem", "masc/fem/neut"} |->
  CASE x \in {"abl/dat", "dat/abl"} -> <<"case", {3, 5}>>
    [] x = "nom/acc" -> <<"case", {1, 2}>>
    [] x = "nom/voc" -> <<"case", {1, 6}>>
    [] x = "nom/voc/acc" -> <<"case", {1, 2, 6}>>
    [] x = "masc/neut" -> <<"gender", {1, 3}>>
    [] x = "masc/fem" -> <<"gender", {1, 2}>>
    [] OTHER -> <<"gender", {1, 2, 3}>>]
UpdateCodes == {"nom", "acc", "abl", "dat", "voc", "nom/voc", "masc", "fem", "neut"}
UnreadCodes == {"loc", "positive"}

\* What an abbreviation says: <<field, values>>, or <<>> for a tag.
Meaning(code) ==
  IF code \in DOMAIN Joint THEN Joint[code]
  ELSE IF code \in SemanticTags \cup InternalTags THEN <<>>
  ELSE LET f == CHOOSE g \in Fields : \E v \in DOMAIN Abbreviations[g] : Abbreviations[g][v] = code
       IN <<f, {CHOOSE v \in DOMAIN Abbreviations[f] : Abbreviations[f][v] = code}>>

EmptyContext == [data |-> Nothing, tags |-> {}, internal |-> {}]
Throws == [EmptyContext EXCEPT !.tags = {"throws"}]
Incompatible == [EmptyContext EXCEPT !.tags = {"null"}]

\* The context after one more abbreviation; assertEqual and the last else throw.
ReadCode(context, code) ==
  IF code \in UnreadCodes THEN Throws
  ELSE IF code \in SemanticTags THEN [context EXCEPT !.tags = @ \cup {code}]
  ELSE IF code \in InternalTags THEN [context EXCEPT !.internal = @ \cup {code}]
  ELSE LET f == Meaning(code)[1]
       IN IF code \notin UpdateCodes /\ context.data[f] # {} THEN Throws
          ELSE [context EXCEPT !.data[f] = @ \cup Meaning(code)[2]]

ToInflectionData(context, codes) ==
  LET after[n \in 0 .. Len(codes)] ==
        IF n = 0 THEN context
        ELSE IF after[n - 1] = Throws THEN Throws ELSE ReadCode(after[n - 1], codes[n])
  IN after[Len(codes)]

-----------------------------------------------------------------------------
(* Comparing and merging, in TypeScript.                                   *)

Unrelated == 2

CompareField(first, second) ==
  IF first \subseteq second THEN (IF second \subseteq first THEN 0 ELSE -1)
  ELSE IF second \subseteq first THEN 1 ELSE Unrelated

CompareGrammaticalData(first, second) ==
  LET comparisons == {CompareField(first[f], second[f]) : f \in Fields}
  IN IF Unrelated \in comparisons \/ {1, -1} \subseteq comparisons THEN Unrelated
     ELSE IF comparisons = {0} THEN 0
     ELSE IF -1 \in comparisons THEN -1 ELSE 1

\* mergeCompatible; the values two fields share.
MergeCompatible(first, second) ==
  IF first = {} THEN second ELSE IF second = {} THEN first ELSE first \cap second
Clashes(first, second) == first # {} /\ second # {} /\ first \cap second = {}

\* mergeInflectionData answers null.  mergeCompatibleDegree answers undefined
\* where the others answer null: two degrees that differ merge to none.
NotMergeable(template, modifier) ==
  \E f \in Fields \ {"degree"} : Clashes(template[f], modifier[f])
MergeInflectionData(template, modifier) ==
  [f \in Fields |-> MergeCompatible(template[f], modifier[f])]

\* expandSingleEnding, the stem left out.
ExpandSingleEnding(context, end) ==
  IF NotMergeable(end.data, context.data) THEN Incompatible
  ELSE [data |-> MergeInflectionData(end.data, context.data), tags |-> end.tags \cup context.tags,
        internal |-> end.internal \cup context.internal]

Future == 5
Participle == 4
Positive == {1}
AnyGender == {1, 2, 3}

\* mergeIfCompatible: a regular stem and an ending that admits it.
MergeIfCompatible(first, end) ==
  LET internal == first.internal \cup end.internal
      default == [Nothing EXCEPT !.degree = Positive, !.gender = AnyGender]
      narrowed == [f \in Fields |->
        IF f \in Repeated /\ first.data[f] # {} THEN first.data[f] ELSE end.data[f]]
      isFuture == end.data.tense = {Future}
  IN IF \/ "comp_only" \in internal
        \/ \E f \in Fields :
             ~ (first.data[f] \subseteq (IF end.data[f] = {} THEN default[f] ELSE end.data[f]))
        \/ "no_fut" \in internal /\ isFuture
        \/ "no_fut_part" \in internal /\ isFuture /\ end.data.mood = {Participle}
     THEN Incompatible
     ELSE [data |-> narrowed, tags |-> first.tags \cup end.tags, internal |-> internal]

-----------------------------------------------------------------------------
(* The packed number, and what the Rust port does with it.                 *)

ShiftOf == [number |-> 0, person |-> 2, voice |-> 4, degree |-> 6, tense |-> 8,
            mood |-> 11, case |-> 16, gender |-> 24]
BitsOf == [number |-> 2, person |-> 2, voice |-> 2, degree |-> 2, tense |-> 3,
           mood |-> 3, case |-> 8, gender |-> 8]

SumOver(S, op(_)) == MapThenSumSet(op, S)
The(values) == IF values = {} THEN 0 ELSE CHOOSE v \in values : TRUE
BitSet(values) == SumOver(values, LAMBDA v : 2 ^ v)

\* packWordInflectionData; it throws if a single field has two values.
Packable(data) == \A f \in Fields \ Repeated : Cardinality(data[f]) <= 1
PackWordInflectionData(data) ==
  SumOver(Fields, LAMBDA f :
    (2 ^ ShiftOf[f]) * (IF f \in Repeated THEN BitSet(data[f]) ELSE The(data[f])))

ExtractField(packed, f) == (packed \div 2 ^ ShiftOf[f]) % 2 ^ BitsOf[f]
BitsSetIn(byte) == {i \in 0 .. 7 : (byte \div 2 ^ i) % 2 = 1}

UnpackWordInflectionData(packed) ==
  [f \in Fields |->
    LET value == ExtractField(packed, f)
    IN IF f \in Repeated THEN BitsSetIn(value) ELSE IF value = 0 THEN {} ELSE {value}]

\* expand_inflection_data, which drops what is no value of the enums.
ExpandInflectionData(packed) ==
  [f \in Fields |->
    LET value == ExtractField(packed, f)
    IN (IF f \in Repeated THEN BitsSetIn(value) ELSE {value}) \cap DOMAIN Abbreviations[f]]

\* merge_single_field and merge_bitset_field.
NoMerge == -1
MergeField(template, modifier, f) ==
  LET t == ExtractField(template, f)
      s == ExtractField(modifier, f)
  IN IF t = 0 THEN s
     ELSE IF s = 0 THEN t
     ELSE IF f \notin Repeated THEN (IF t = s THEN t ELSE NoMerge)
     ELSE IF BitsSetIn(t) \cap BitsSetIn(s) = {} THEN NoMerge
     ELSE BitSet(BitsSetIn(t) \cap BitsSetIn(s))

\* merge_inflection_data
MergePacked(template, modifier) ==
  IF \E f \in Fields : MergeField(template, modifier, f) = NoMerge THEN NoMerge
  ELSE SumOver(Fields, LAMBDA f : (2 ^ ShiftOf[f]) * MergeField(template, modifier, f))

\* The context as saveTablesForRust writes it.
Packed(context) == [context EXCEPT !.data = PackWordInflectionData(@)]
PackedIncompatible == Packed(Incompatible)

\* merged_context_for_irregs
MergedContextForIrregs(first, end) ==
  LET data == MergePacked(first.data, end.data)
  IN IF data = NoMerge THEN PackedIncompatible
     ELSE [data |-> data, tags |-> first.tags \cup end.tags,
           internal |-> first.internal \cup end.internal]

\* merge_context_for_regulars: subsets as equal bits of the stem and of both.
MergeContextForRegulars(first, end) ==
  LET internal == first.internal \cup end.internal
      Of(f) == ExtractField(first.data, f)
      Against(f) == ExtractField(end.data, f)
      Bits(f) == BitsSetIn(Of(f))
      Fits(f) ==
        CASE f = "case" -> Bits(f) \subseteq BitsSetIn(Against(f))
          [] f = "gender" -> Against(f) = 0 \/ Bits(f) \subseteq BitsSetIn(Against(f))
          [] f = "degree" -> Of(f) \in {0, Against(f)} \/ (Of(f) = 1 /\ Against(f) = 0)
          [] OTHER -> Of(f) \in {0, Against(f)}
      isFuture == Against("tense") = Future
  IN IF \/ "comp_only" \in internal
        \/ \E f \in Fields : ~ Fits(f)
        \/ "no_fut" \in internal /\ isFuture
        \/ "no_fut_part" \in internal /\ isFuture /\ Against("mood") = Participle
     THEN PackedIncompatible
     ELSE [data |-> SumOver(Fields, LAMBDA f :
                      (2 ^ ShiftOf[f]) *
                        (IF f \in Repeated /\ Of(f) # 0 THEN Of(f) ELSE Against(f))),
           tags |-> first.tags \cup end.tags, internal |-> internal]

=============================================================================
