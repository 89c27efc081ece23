--------------------------- MODULE MorceusTables ---------------------------
(***************************************************************************)
(* The tables that Morceus looks words up in: stems, irregular forms and   *)
(* endings by their spelling, and the same by number for the Rust port.    *)
(*                                                                         *)
(* A spelling is a sequence of letters; a form also has marks of vowel     *)
(* length and of its parts, which no key has.                              *)
(***************************************************************************)
EXTENDS Inflections, Spellings

CONSTANTS
  Lemmata,    \* sequence of [lemma, isVerb, stems, irregularForms]
  Templates,  \* sequence of [name, endings], each ending [ending, context]
  Alphabet    \* the small letters, in the order of localeCompare

Marks == {"_", "^", "-", "+"}
NoEnding == <<"*">>

\* normalizeKey, and the key of an ending.
NormalizeKey(s) == SelectSeq(s, LAMBDA c : c \notin Marks)
CleanEnding(s) == SelectSeq(s, LAMBDA c : c \notin {"_", "^"})

-----------------------------------------------------------------------------
(* Stems and irregular forms.                                              *)

\* One entry: a stem, or a form that no ending is added to.
StemEntry(l, k) ==
  LET stem == Lemmata[l].stems[k]
  IN [id |-> <<l, k>>, isStem |-> TRUE, text |-> stem.stem, code |-> stem.code,
      inflection |-> stem.inflection, context |-> stem.context,
      lemma |-> Lemmata[l].lemma, isVerb |-> Lemmata[l].isVerb]

IrregularEntry(l, k) ==
  LET form == Lemmata[l].irregularForms[k]
  IN [id |-> <<l, k>>, isStem |-> FALSE, text |-> form.form, code |-> form.code,
      inflection |-> "", context |-> form.context,
      lemma |-> Lemmata[l].lemma, isVerb |-> Lemmata[l].isVerb]

EntriesOf(l) ==
  [k \in 1 .. Len(Lemmata[l].stems) |-> StemEntry(l, k)] \o
  [k \in 1 .. Len(Lemmata[l].irregularForms) |-> IrregularEntry(l, k)]

AllEntries == FlattenSeq([l \in 1 .. Len(Lemmata) |-> EntriesOf(l)])

\* makeStemsMap
StemMap ==
  [key \in {NormalizeKey(e.text) : e \in ToSet(AllEntries)} |->
    SelectSeq(AllEntries, LAMBDA e : NormalizeKey(e.text) = key)]

-----------------------------------------------------------------------------
(* Endings.                                                                *)

TemplateIndex(name) == CHOOSE i \in 1 .. Len(Templates) : Templates[i].name = name

\* makeEndIndex and makeEndsMap: the tables that have an ending.
EndsMap ==
  [key \in {CleanEnding(e.ending) : e \in UNION {ToSet(t.endings) : t \in ToSet(Templates)}} |->
    {i \in 1 .. Len(Templates) :
       \E e \in ToSet(Templates[i].endings) : CleanEnding(e.ending) = key}]

\* inflectionLookup: the endings of a table with that spelling.
InflectionLookup(i, key) ==
  SelectSeq(Templates[i].endings, LAMBDA e : CleanEnding(e.ending) = key)

-----------------------------------------------------------------------------
(* What a stem and an ending make together.                                *)

FormOf(entry, end) == entry.text \o (IF end.ending = NoEnding THEN <<>> ELSE end.ending)

\* A stem without a code comes from a table of irregular stems.
Merge(entry, end) ==
  IF entry.code = "none" THEN ExpandSingleEnding(entry.context, end)
  ELSE MergeIfCompatible(entry.context, end)

\* merge_stem_and_ending
MergeStemAndEnding(entry, end) ==
  IF entry.code = "none" THEN MergedContextForIrregs(entry.context, end)
  ELSE MergeContextForRegulars(entry.context, end)

\* The forms of the lexicon, each from its stem: [lemma, form, context].
StemForms(entry) ==
  {[lemma |-> entry.lemma, form |-> FormOf(entry, e), context |-> Merge(entry, e.context)] :
     e \in ToSet(Templates[TemplateIndex(entry.inflection)].endings)}
Forms ==
  UNION {IF e.isStem THEN StemForms(e)
         ELSE {[lemma |-> e.lemma, form |-> e.text, context |-> e.context]} : e \in ToSet(AllEntries)}

-----------------------------------------------------------------------------
(* saveTablesForRust: stems and forms are sorted and then named by number. *)

RECURSIVE IsBefore(_, _)
IsBefore(s, t) ==
  IF t = <<>> THEN FALSE
  ELSE IF s = <<>> THEN TRUE
  ELSE IF s[1] = t[1] THEN IsBefore(Tail(s), Tail(t))
  ELSE SelectInSeq(Alphabet, LAMBDA c : c = s[1]) < SelectInSeq(Alphabet, LAMBDA c : c = t[1])

NormalizeSortKey(s) == NormalizeKey(LowerCase(s))

\* A stable sort, as sort() is.
Sorted(entries) ==
  LET Precedes(i, j) ==
        LET a == NormalizeSortKey(entries[i].text)
            b == NormalizeSortKey(entries[j].text)
        IN IF a = b THEN i < j ELSE IsBefore(a, b)
      order == SortSeq([i \in 1 .. Len(entries) |-> i], Precedes)
  IN [i \in 1 .. Len(entries) |-> entries[order[i]]]

PackedEntry(e) == [e EXCEPT !.context = Packed(@)]
AllStems == Sorted(SelectSeq(AllEntries, LAMBDA e : e.isStem))
AllIrregs == Sorted(SelectSeq(AllEntries, LAMBDA e : ~ e.isStem))

IndexIn(entries, entry) == CHOOSE i \in 1 .. Len(entries) : entries[i].id = entry.id

\* A value of stem_map; an index counts from 0 there.
StemMapValue(stems, irregs, entry) ==
  [index |-> IndexIn(IF entry.isStem THEN stems ELSE irregs, entry), isStem |-> entry.isStem,
   lemma |-> entry.lemma, isVerb |-> entry.isVerb]

\* Mutant: the numbers are those of the order before sorting.
SaveTablesUnsorted(stemMap) ==
  LET stems == SelectSeq(AllEntries, LAMBDA e : e.isStem)
      irregs == SelectSeq(AllEntries, LAMBDA e : ~ e.isStem)
  IN [allStems |-> Sorted(stems), allIrregs |-> Sorted(irregs),
      stemMap |-> [key \in DOMAIN stemMap |->
        [i \in DOMAIN stemMap[key] |-> StemMapValue(stems, irregs, stemMap[key][i])]]]

SaveTablesForRust(stemMap) ==
  [allStems |-> AllStems, allIrregs |-> AllIrregs,
   stemMap |-> [key \in DOMAIN stemMap |->
     [i \in DOMAIN stemMap[key] |-> StemMapValue(AllStems, AllIrregs, stemMap[key][i])]]]

\* makeTables, and the tables of the port.
MakeTables == [stemMap |-> StemMap, endsMap |-> EndsMap, saved |-> SaveTablesForRust(StemMap)]

PackedLookup(i, key) ==
  LET ends == InflectionLookup(i, key)
  IN [k \in 1 .. Len(ends) |-> [ends[k] EXCEPT !.context = Packed(@)]]

=============================================================================
