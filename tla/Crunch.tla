------------------------------ MODULE Crunch -------------------------------
(***************************************************************************)
(* Morceus' analysis of a word: the cruncher in TypeScript and its port to *)
(* Rust.  A word is split into a stem and an ending in every way, in every *)
(* case and spelling that the options allow, and what is found is          *)
(* consolidated.  The port works on the saved tables and does not          *)
(* consolidate.                                                            *)
(***************************************************************************)
EXTENDS MorceusTables

CONSTANTS
  Words,     \* the words that are asked
  Options    \* records [relaxCase, relaxIandJ, relaxUandV, handleEnclitics]

VARIABLES
  tables,    \* CruncherTables, <<>> before they are made
  word,      \* the word, <<>> before the first question
  options,
  analyses,  \* what crunchWord answers
  ported     \* what crunch_word answers in Rust

vars == <<tables, word, options, analyses, ported>>

Enclitics == <<<<"q", "u", "e">>, <<"n", "e">>, <<"v", "e">>>>

-----------------------------------------------------------------------------
(* One spelling.                                                           *)

Result(entry, form, context) ==
  [lemma |-> entry.lemma, isVerb |-> entry.isVerb, form |-> form, context |-> context,
   enclitic |-> <<>>, relaxedCase |-> FALSE]

EndsFor(key) == IF key \in DOMAIN tables.endsMap THEN tables.endsMap[key] ELSE {}
Observed(rawEnd) == IF rawEnd = <<>> THEN NoEnding ELSE rawEnd

\* What a stem or form gives with an ending, null results included; results
\* are those of the stem with each of the endings.
OptionsForEnd(rawEnd, entry, results) ==
  IF ~ entry.isStem
  THEN IF Observed(rawEnd) = NoEnding THEN <<Result(entry, entry.text, entry.context)>> ELSE <<>>
  ELSE IF TemplateIndex(entry.inflection) \in EndsFor(Observed(rawEnd)) THEN results ELSE <<>>

CrunchOptionsForEnd(rawEnd, candidates) ==
  LET Merged(entry) ==
        LET ends == InflectionLookup(TemplateIndex(entry.inflection), Observed(rawEnd))
        IN [k \in DOMAIN ends |->
             Result(entry, FormOf(entry, ends[k]), Merge(entry, ends[k].context))]
      all == FlattenSeq([i \in DOMAIN candidates |->
               OptionsForEnd(rawEnd, candidates[i], Merged(candidates[i]))])
  IN SelectSeq(all, LAMBDA r : r.context # Incompatible)

\* crunch_options_for_end
AtStemMapValue(value) ==
  PackedEntry((IF value.isStem THEN tables.saved.allStems ELSE tables.saved.allIrregs)[value.index])

PortedOptionsForEnd(rawEnd, candidates) ==
  LET Merged(entry) ==
        LET ends == PackedLookup(TemplateIndex(entry.inflection), Observed(rawEnd))
        IN [k \in DOMAIN ends |->
             Result(entry, FormOf(entry, ends[k]), MergeStemAndEnding(entry, ends[k].context))]
      entries == [i \in DOMAIN candidates |-> AtStemMapValue(candidates[i])]
      all == FlattenSeq([i \in DOMAIN entries |->
               OptionsForEnd(rawEnd, entries[i], Merged(entries[i]))])
  IN SelectSeq(all, LAMBDA r : r.context # PackedIncompatible)

\* What the rest of a word gives after a stem, in either language.
EndsAfter == [stem \in DOMAIN tables.stemMap, rawEnd \in Seq(STRING) |->
               CrunchOptionsForEnd(rawEnd, tables.stemMap[stem])]
PortedEndsAfter == [stem \in DOMAIN tables.saved.stemMap, rawEnd \in Seq(STRING) |->
                     PortedOptionsForEnd(rawEnd, tables.saved.stemMap[stem])]

\* crunchExactMatch and crunch_exact_match: every prefix that is a stem, and
\* what is after it with and without an enclitic.
WithEnclitic(results, enclitic) ==
  [r \in DOMAIN results |-> [results[r] EXCEPT !.enclitic = enclitic]]
Without(fullEnd, enclitic) == SubSeq(fullEnd, 1, Len(fullEnd) - Len(enclitic))

CrunchSplit(stem, fullEnd, o, endsAfter) ==
  LET fits == SelectSeq(Enclitics, LAMBDA e : o.handleEnclitics /\ IsSuffix(e, fullEnd))
  IN endsAfter[stem, fullEnd] \o
     FlattenSeq([k \in DOMAIN fits |->
       WithEnclitic(endsAfter[stem, Without(fullEnd, fits[k])], fits[k])])

CrunchExactMatch(text, o, stems, endsAfter) ==
  LET splits == SelectSeq([i \in 1 .. Len(text) + 1 |-> i - 1],
                          LAMBDA i : SubSeq(text, 1, i) \in stems)
  IN FlattenSeq([k \in DOMAIN splits |->
       CrunchSplit(SubSeq(text, 1, splits[k]), SubSeq(text, splits[k] + 1, Len(text)), o, endsAfter)])

-----------------------------------------------------------------------------
(* Other spellings of the word.                                            *)

Relaxed(results) == [r \in DOMAIN results |-> [results[r] EXCEPT !.relaxedCase = TRUE]]

OtherCase(c) == IF ToUpper(c) = c THEN ToLower(c) ELSE ToUpper(c)

\* crunchAndMaybeRelaxCase and crunch_and_maybe_relax_case
CrunchAndMaybeRelaxCase(text, o, stems, endsAfter) ==
  LET body == LowerCase(Tail(text))
      first == text[1]
      heads == <<<<OtherCase(first)>>>> \o (IF first = "V" THEN <<<<"u">>>> ELSE <<>>)
      relaxed == (IF first = "V" THEN <<<<"U">>>> ELSE <<>>) \o
                 (IF o.relaxCase THEN heads ELSE <<>>)
  IN CrunchExactMatch(<<first>> \o body, o, stems, endsAfter) \o
     FlattenSeq([k \in 1 .. Len(relaxed) |->
       Relaxed(CrunchExactMatch(relaxed[k] \o body, o, stems, endsAfter))])

\* crunchWord without consolidation, and crunch_word.
CrunchSpellings(text, o, stems, endsAfter) ==
  LET spellings == <<text>> \o AlternatesWithIorU(text, o.relaxIandJ, o.relaxUandV)
  IN FlattenSeq([k \in 1 .. Len(spellings) |->
       CrunchAndMaybeRelaxCase(spellings[k], o, stems, endsAfter)])

AllAnalyses(text, o) == CrunchSpellings(text, o, DOMAIN tables.stemMap, EndsAfter)
PortedAnalyses(text, o) == 
  CrunchSpellings(text, o, DOMAIN tables.saved.stemMap, PortedEndsAfter)

-----------------------------------------------------------------------------
(* Consolidation.                                                          *)

Compare(r, s) == CompareGrammaticalData(r.context.data, s.context.data)

\* Mutant: a result that contains others is dropped like one of them.
ConsolidateOneDropping(consolidated, r) ==
  IF \E i \in DOMAIN consolidated : Compare(r, consolidated[i]) # Unrelated THEN consolidated
  ELSE Append(consolidated, r)

\* One pass: a result replaces those that it contains, and is dropped if one
\* contains it.
ConsolidateOne(consolidated, r) ==
  LET related == {i \in DOMAIN consolidated : Compare(r, consolidated[i]) # Unrelated}
  IN IF related = {} THEN Append(consolidated, r)
     ELSE [i \in DOMAIN consolidated |->
            IF i \in related /\ Compare(r, consolidated[i]) = 1 THEN r ELSE consolidated[i]]

RECURSIVE MergeSubsets(_)
MergeSubsets(original) ==
  LET consolidated == FoldLeft(ConsolidateOne, <<>>, original)
  IN IF Len(consolidated) = Len(original) THEN consolidated ELSE MergeSubsets(consolidated)

\* Results that differ in one field only, if its values may be joined.
ConsolidateByCategory(cluster, f, consolidable) ==
  LET IsCandidate(r) == r.context.data[f] \subseteq consolidable
      Join(groups, r) ==
        LET same == {i \in DOMAIN groups :
              [groups[i].context.data EXCEPT ![f] = {}] = [r.context.data EXCEPT ![f] = {}]}
        IN IF same = {} THEN Append(groups, r)
           ELSE LET first == Min(same)
                IN [groups EXCEPT ![first].context.data[f] = @ \cup r.context.data[f]]
  IN SelectSeq(cluster, LAMBDA r : ~ IsCandidate(r)) \o
     FoldLeft(Join, <<>>, SelectSeq(cluster, IsCandidate))

Cases == {3, 5}  \* dative and ablative

ConsolidateResultCluster(cluster) ==
  ConsolidateByCategory(
    ConsolidateByCategory(MergeSubsets(cluster), "case", Cases), "gender", AnyGender)

\* By lemma, form and tags.
ClusterKey(r) == <<r.lemma, r.form, r.context.tags>>

ConsolidateCrunchResults(results) ==
  LET AddKey(keys, r) ==
        IF ClusterKey(r) \in ToSet(keys) THEN keys ELSE Append(keys, ClusterKey(r))
      keys == FoldLeft(AddKey, <<>>, results)
  IN FlattenSeq([k \in DOMAIN keys |->
       ConsolidateResultCluster(SelectSeq(results, LAMBDA r : ClusterKey(r) = keys[k]))])

-----------------------------------------------------------------------------

TypeOK ==
  /\ word \in {<<>>} \cup Words
  /\ word = <<>> => analyses = <<>> /\ ported = <<>>

Init ==
  /\ tables = <<>>
  /\ word = <<>> /\ analyses = <<>> /\ ported = <<>>
  /\ options = CHOOSE o \in Options : TRUE

LoadTables ==
  /\ tables = <<>>
  /\ tables' = MakeTables
  /\ UNCHANGED <<word, options, analyses, ported>>

CrunchWord ==
  /\ tables # <<>> /\ word = <<>>
  /\ \E w \in Words, o \in Options :
       /\ word' = w /\ options' = o
       /\ analyses' = ConsolidateCrunchResults(AllAnalyses(w, o))
       /\ ported' = PortedAnalyses(w, o)
  /\ UNCHANGED tables

Next == LoadTables \/ CrunchWord
Spec == Init /\ [][Next]_vars

-----------------------------------------------------------------------------
\* How i, j, u, v and case are ignored.
Plain(c) == IF ToLower(c) = "j" THEN "i" ELSE IF ToLower(c) = "v" THEN "u" ELSE ToLower(c)
SamePlain(s, t) == [i \in DOMAIN s |-> Plain(s[i])] = [i \in DOMAIN t |-> Plain(t[i])]

\* The consonants j and v of a spelling, which stand next to a vowel.
Devoiced(s) ==
  [i \in DOMAIN s |-> CASE s[i] = "j" -> "i" [] s[i] = "v" -> "u"
                        [] s[i] = "J" -> "I" [] s[i] = "V" -> "U" [] OTHER -> s[i]]
ConsonantsAreConsonants(s) ==
  \A i \in DOMAIN s : Plain(s[i]) # ToLower(s[i]) =>
    \E j \in {i - 1, i + 1} \cap DOMAIN s : ToLower(Devoiced(s)[j]) \in Vowels

\* A spelling answers the word that is asked.
Answers(s, w) ==
  LET asked == <<w[1]>> \o LowerCase(Tail(w))
      Agrees(t) ==
        IF options.relaxCase
        THEN Len(t) = Len(asked) /\ ToLower(t[1]) = ToLower(asked[1]) /\ Tail(t) = Tail(asked)
        ELSE t = asked
  IN \/ Agrees(s)
     \/ options.relaxIandJ /\ options.relaxUandV /\ ConsonantsAreConsonants(s) /\ Agrees(Devoiced(s))

\* Every analysis is a form of the lexicon that reads like the word, and every
\* form that the options let the word stand for is found, with its enclitic.
AnalysesAreForms ==
  word # <<>> =>
    LET raw == ToSet(AllAnalyses(word, options))
        tails == {<<>>} \cup (IF options.handleEnclitics THEN ToSet(Enclitics) ELSE {})
    IN /\ \A r \in raw :
            /\ SamePlain(NormalizeKey(r.form) \o r.enclitic, word)
            /\ [lemma |-> r.lemma, form |-> r.form, context |-> r.context] \in Forms
       /\ \A f \in {g \in Forms : g.context # Incompatible}, tail \in tails :
            Answers(NormalizeKey(f.form) \o tail, word) =>
              \E r \in raw : /\ r.lemma = f.lemma /\ r.form = f.form
                             /\ r.context = f.context /\ r.enclitic = tail

\* The port finds what TypeScript finds before it consolidates.
PortFindsTheSame ==
  LET raw == AllAnalyses(word, options)
      PackedResult(r) == [r EXCEPT !.context = Packed(@)]
  IN word # <<>> => ToSet(ported) = {PackedResult(r) : r \in ToSet(raw)}

IsReadingOf(e, d) == \A f \in Fields : e[f] \subseteq d[f]

\* Consolidation loses no reading and no exact match, and it makes none up:
\* a case and a gender that it shows together were found together.
ConsolidationKeepsReadings ==
  word # <<>> =>
    LET raw == ToSet(AllAnalyses(word, options))
        Of(r, s) == ClusterKey(r) = ClusterKey(s)
    IN /\ \A r \in raw : \E c \in ToSet(analyses) :
            /\ Of(r, c) /\ IsReadingOf(r.context.data, c.context.data)
            /\ c.relaxedCase => r.relaxedCase
       /\ \A c \in ToSet(analyses) :
            \A k \in c.context.data.case, g \in c.context.data.gender :
              \E r \in raw :
                /\ Of(r, c) /\ k \in r.context.data.case /\ g \in r.context.data.gender
                /\ \A f \in Fields \ Repeated : r.context.data[f] = c.context.data[f]

=============================================================================
