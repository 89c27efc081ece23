---------------------------- MODULE Completions ----------------------------
(***************************************************************************)
(* The completer of the Rust port: the lemmata that have a form which      *)
(* begins with some letters, or which is the word.  Stems, irregular forms *)
(* and endings are sorted, and what fits is found by bisection: the stems  *)
(* that begin with the prefix, and the stems that are a part of it and     *)
(* have an ending that goes on with the rest.                              *)
(***************************************************************************)
EXTENDS MorceusTables

CONSTANTS
  Texts,   \* the prefixes and words that are asked
  Limits   \* values of result_limit

VARIABLES
  lists,   \* the sorted lists and the addenda, <<>> before they are made
  request, \* [text, exact, limit, relaxIandJ, relaxUandV]
  answer   \* [failed, results]

completionVars == <<lists, request, answer>>

Requests == [text : Texts, exact : BOOLEAN, limit : Limits,
             relaxIandJ : BOOLEAN, relaxUandV : BOOLEAN]
NoRequest == [text |-> <<>>, exact |-> FALSE, limit |-> 0, relaxIandJ |-> FALSE, relaxUandV |-> FALSE]
NoAnswer == [failed |-> FALSE, results |-> <<>>]

-----------------------------------------------------------------------------
(* The lists.                                                              *)

Key(s) == NormalizeSortKey(s)
LemmaOf(entry) == entry.id[1]

\* make_addenda: the endings of a table in the order of their keys.
EndsOf(i) ==
  LET ends == Templates[i].endings
      Precedes(j, k) ==
        IF Key(ends[j].ending) = Key(ends[k].ending) THEN j < k
        ELSE IsBefore(Key(ends[j].ending), Key(ends[k].ending))
      order == SortSeq([k \in 1 .. Len(ends) |-> k], Precedes)
  IN [k \in 1 .. Len(ends) |->
       [ending |-> ends[order[k]].ending, context |-> Packed(ends[order[k]].context)]]

MakeAddenda ==
  [stems |-> [i \in 1 .. Len(AllStems) |-> PackedEntry(AllStems[i])],
   irregs |-> [i \in 1 .. Len(AllIrregs) |-> PackedEntry(AllIrregs[i])],
   ends |-> [i \in 1 .. Len(Templates) |-> EndsOf(i)]]

StemKeys == [i \in DOMAIN lists.stems |-> Key(lists.stems[i].text)]
IrregKeys == [i \in DOMAIN lists.irregs |-> Key(lists.irregs[i].text)]

-----------------------------------------------------------------------------
(* Ranges: from the first place to before the last, <<>> if nothing fits.  *)

\* partition_point: the first place where it no longer holds.
RECURSIVE Bisect(_, _, _)
Bisect(holds, from, to) ==
  IF from = to THEN from
  ELSE LET middle == (from + to) \div 2
       IN IF holds[middle] THEN Bisect(holds, middle + 1, to) ELSE Bisect(holds, from, middle)

PartitionPoint(holds, from) == Bisect(holds, from, Len(holds) + 1)

\* find_ranges_of and find_ranges_of_borrowed
FindRangesOf(target, exact, keys) ==
  LET Fits(key) == IF exact THEN key = target ELSE IsPrefix(target, key)
      start == PartitionPoint([i \in DOMAIN keys |-> IsBefore(keys[i], target)], 1)
  IN IF target = <<>> \/ start \notin DOMAIN keys THEN <<>>
     ELSE IF ~ Fits(keys[start]) THEN <<>>
     ELSE <<start, PartitionPoint([i \in DOMAIN keys |-> Fits(keys[i])], start)>>

IsIn(i, range) == range # <<>> /\ range[1] <= i /\ i < range[2]

\* Mutant: partial ranges are of stems that begin with a part of the prefix.
ComputeRangesLoosely(prefix, exact) ==
  LET parts == [i \in 1 .. Max({0, Len(prefix) - 1}) |->
                 [range |-> FindRangesOf(SubSeq(prefix, 1, i), exact, StemKeys),
                  unmatched |-> SubSeq(prefix, i + 1, Len(prefix))]]
  IN [stems |-> FindRangesOf(prefix, exact, StemKeys),
      irregs |-> FindRangesOf(prefix, exact, IrregKeys),
      partial |-> SelectSeq(parts, LAMBDA p : p.range # <<>>)]

\* compute_ranges_for: partial ranges are of stems that are a part of the prefix.
ComputeRangesFor(prefix, exact) ==
  LET parts == [i \in 1 .. Max({0, Len(prefix) - 1}) |->
                 [range |-> FindRangesOf(SubSeq(prefix, 1, i), TRUE, StemKeys),
                  unmatched |-> SubSeq(prefix, i + 1, Len(prefix))]]
  IN [stems |-> FindRangesOf(prefix, exact, StemKeys),
      irregs |-> FindRangesOf(prefix, exact, IrregKeys),
      partial |-> SelectSeq(parts, LAMBDA p : p.range # <<>>)]

-----------------------------------------------------------------------------
(* Lemmata.                                                                *)

LemmataIn(range, entries) ==
  IF range = <<>> THEN <<>>
  ELSE [k \in 1 .. range[2] - range[1] |-> LemmaOf(entries[range[1] + k - 1])]

\* lemma_ids_for_ranges
LemmaIdsForRanges(ranges) ==
  LemmataIn(ranges.irregs, lists.irregs) \o LemmataIn(ranges.stems, lists.stems) \o
  FlattenSeq([k \in DOMAIN ranges.partial |-> LemmataIn(ranges.partial[k].range, lists.stems)])

\* filter_lemma_irregs
FilterLemmaIrregs(lemma, ranges) ==
  {i \in DOMAIN lists.irregs : LemmaOf(lists.irregs[i]) = lemma /\ IsIn(i, ranges.irregs)}

\* filter_lemma_stems: [stem, unmatched], with the first range that has the stem.
FilterLemmaStems(lemma, ranges) ==
  UNION {LET partial == {k \in DOMAIN ranges.partial : IsIn(i, ranges.partial[k].range)}
         IN IF IsIn(i, ranges.stems) THEN {[stem |-> i, unmatched |-> <<>>]}
            ELSE IF partial = {} THEN {}
            ELSE {[stem |-> i, unmatched |-> ranges.partial[Min(partial)].unmatched]} :
           i \in {j \in DOMAIN lists.stems : LemmaOf(lists.stems[j]) = lemma}}

\* find_ends_for
FindEndsFor(unmatched, entry, exact) ==
  LET ends == lists.ends[TemplateIndex(entry.inflection)]
      target == IF unmatched = <<>> THEN NoEnding ELSE unmatched
      range == FindRangesOf(target, exact, [k \in DOMAIN ends |-> Key(ends[k].ending)])
  IN {ends[k] : k \in {j \in DOMAIN ends : (~ exact /\ unmatched = <<>>) \/ IsIn(j, range)}}

\* stem_id_to_result, and expand with iterate_matches.
MatchesOfStem(found, exact) ==
  LET entry == lists.stems[found.stem]
  IN {[form |-> FormOf(entry, e), context |-> MergeStemAndEnding(entry, e.context)] :
        e \in FindEndsFor(found.unmatched, entry, exact)}

\* lemma_id_to_result and all_matches.
LemmaIdToResult(lemma, ranges, exact) ==
  [lemma |-> lemma,
   matches |->
     {[form |-> lists.irregs[i].text, context |-> lists.irregs[i].context] :
        i \in FilterLemmaIrregs(lemma, ranges)} \cup
     {m \in UNION {MatchesOfStem(found, exact) : found \in FilterLemmaStems(lemma, ranges)} :
        m.context # PackedIncompatible}]

\* completions_for_prefix_base: each lemma once, if it has a match at all
\* (validated_lemma_result), up to the limit.
CompletionsForPrefixBase(ranges, exact, limit) ==
  LET AddLemma(results, lemma) ==
        IF Len(results) >= limit \/ \E r \in ToSet(results) : r.lemma = lemma THEN results
        ELSE LET result == LemmaIdToResult(lemma, ranges, exact)
             IN IF result.matches = {} THEN results ELSE Append(results, result)
  IN FoldLeft(AddLemma, <<>>, LemmaIdsForRanges(ranges))

\* completions_or_matches_for: spellings share the limit.
Variants(r) == <<r.text>> \o AlternatesWithIorU(r.text, r.relaxIandJ, r.relaxUandV)
CompletionsOrMatchesFor(r) ==
  LET AddVariant(results, variant) ==
        results \o CompletionsForPrefixBase(ComputeRangesFor(Key(variant), r.exact), r.exact,
                                            Max({0, r.limit - Len(results)}))
  IN IF Key(r.text) = <<>> THEN [NoAnswer EXCEPT !.failed = TRUE]
     ELSE [NoAnswer EXCEPT !.results = FoldLeft(AddVariant, <<>>, Variants(r))]

-----------------------------------------------------------------------------

TypeOK ==
  /\ request \in Requests \cup {NoRequest}
  /\ Len(answer.results) <= request.limit

Init == lists = <<>> /\ request = NoRequest /\ answer = NoAnswer

New ==
  /\ lists = <<>>
  /\ lists' = MakeAddenda
  /\ UNCHANGED <<request, answer>>

\* completions_with_options and analyses_with_options
Complete ==
  /\ lists # <<>> /\ request = NoRequest
  /\ \E r \in Requests :
       /\ request' = r
       /\ answer' = CompletionsOrMatchesFor(r)
  /\ UNCHANGED lists

Next == New \/ Complete
Spec == Init /\ [][Next]_completionVars

-----------------------------------------------------------------------------
\* The forms of a lemma that begin with a prefix, or are the word.
FormsLike(lemma, variant) ==
  {[form |-> f.form, context |-> Packed(f.context)] : f \in {g \in Forms :
     /\ g.lemma = Lemmata[lemma].lemma /\ g.context # Incompatible
     /\ IF request.exact THEN Key(g.form) = Key(variant) ELSE IsPrefix(Key(variant), Key(g.form))}}

\* The completer answers with the lemmata that have such a form, each with all
\* its forms of that kind, and leaves out none but for the limit.  Only a text
\* without letters is refused.
CompletionsAreTheForms ==
  request # NoRequest =>
    LET variants == ToSet(Variants(request))
        expected == UNION {{[lemma |-> l, matches |-> FormsLike(l, v)] :
                              l \in {k \in 1 .. Len(Lemmata) : FormsLike(k, v) # {}}} : v \in variants}
    IN /\ answer.failed <=> Key(request.text) = <<>>
       /\ ~ answer.failed =>
            /\ ToSet(answer.results) \subseteq expected
            /\ Cardinality(expected) <= request.limit => ToSet(answer.results) = expected
            /\ Cardinality(expected) > request.limit => Len(answer.results) = request.limit

=============================================================================
