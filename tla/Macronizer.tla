----------------------------- MODULE Macronizer -----------------------------
(***************************************************************************)
(* What the server answers to a text that is to be macronized: for every   *)
(* word the forms that Morceus knows and that fit the marks its writer     *)
(* gave it, and the one that suits the reading of a tagger (LatinCy or     *)
(* Stanza, external services that are asked about the whole text).         *)
(*                                                                         *)
(* A text is a sequence of tokens [text, isWord, marks].  A form is the    *)
(* set of its long vowels, counted from 0 like the positions of marks.     *)
(***************************************************************************)
EXTENDS Inflections, SequencesExt

CONSTANTS
  Analyses,        \* crunchWord: sequences of [lemma, longs, enclitic, data] by word
  InputMaxLength

\* What a sequence has of a set, in its order (filter).
Kept(s, set) == FoldLeft(LAMBDA kept, x : IF x \in set THEN Append(kept, x) ELSE kept, <<>>, s)

-----------------------------------------------------------------------------
(* Tags and grammatical data.                                              *)

UposValues ==
  [Case |-> [Nom |-> 1, Acc |-> 2, Dat |-> 3, Gen |-> 4, Abl |-> 5, Voc |-> 6, Loc |-> 7],
   Number |-> [Sing |-> 1, Plur |-> 2, Plural |-> 2],
   Gender |-> [Masc |-> 1, Fem |-> 2, Neut |-> 3],
   Person |-> [x \in {"1", "2", "3"} |-> CASE x = "1" -> 1 [] x = "2" -> 2 [] OTHER -> 3],
   Voice |-> [Act |-> 1, Pass |-> 2],
   VerbForm |-> [Part |-> 4, Gdv |-> 5, Inf |-> 6, Sup |-> 7],
   Mood |-> [Ind |-> 1, Imp |-> 2, Sub |-> 3, Gdv |-> 5],
   Tense |-> [Pres |-> 1, Fut |-> 5, Pqp |-> 6],
   Degree |-> [Pos |-> 1, Cmp |-> 2, Sup |-> 3]]
FieldOf == [Case |-> "case", Number |-> "number", Gender |-> "gender", Person |-> "person",
            Voice |-> "voice", VerbForm |-> "mood", Mood |-> "mood", Tense |-> "tense",
            Degree |-> "degree"]
SaysNothing ==
  {<<"VerbForm", "Fin">>, <<"Tense", "Imp">>, <<"Tense", "Perf">>, <<"Tense", "Ftp">>,
   <<"Tense", "Past">>, <<"Degree", "Abs">>}
IgnoredKeys ==
  {"InflClass", "PronType", "Aspect", "NumType", "NumValue", "Form", "Polarity", "AdvType",
   "Variant", "NameType", "Poss", "NumForm", "Reflex"}

\* A part <<key, value>> that convertUpos knows; it throws for any other.
IsRecognized(part) ==
  \/ part[1] \in IgnoredKeys
  \/ part \in SaysNothing
  \/ part[1] \in DOMAIN UposValues /\ part[2] \in DOMAIN UposValues[part[1]]

ReadPart(data, part) ==
  IF part[1] \in IgnoredKeys \/ part \in SaysNothing THEN data
  ELSE [data EXCEPT ![FieldOf[part[1]]] = {UposValues[part[1]][part[2]]}]

\* The tense of a past verb comes from its aspect: Pluperfect, Imperfect.
TenseByAspect(parts) ==
  IF <<"Tense", "Past">> \notin ToSet(parts) THEN {}
  ELSE IF <<"Aspect", "Perf">> \in ToSet(parts) THEN {6}
  ELSE IF <<"Aspect", "Imp">> \in ToSet(parts) THEN {2} ELSE {}

ConvertUpos(parts) ==
  LET data == FoldLeft(ReadPart, Nothing, parts)
  IN IF TenseByAspect(parts) = {} THEN data ELSE [data EXCEPT !.tense = TenseByAspect(parts)]

\* toMorpheusCase and the like; the positive degree has no abbreviation.
ToMorpheus(f, values) == {Abbreviations[f][v] : v \in values} \ {"positive"}

\* The abbreviations of the fields that say anything.
WordInflectionDataToArray(data) ==
  LET order == <<"tense", "mood", "voice", "person", "gender", "case", "degree", "number">>
      words == [k \in DOMAIN order |-> ToMorpheus(order[k], data[order[k]])]
  IN Kept(words, ToSet(words) \ {{}})

-----------------------------------------------------------------------------
(* preprocessText: what the tagger is asked.                               *)

\* A word whose analyses all have an enclitic is given as two.
NlpEnclitic(token) ==
  LET crunched == Analyses[token.text]
  IN IF crunched # <<>> /\ \A k \in DOMAIN crunched : crunched[k].enclitic # <<>>
     THEN crunched[1].enclitic ELSE <<>>

PartsOf(token) ==
  IF ~ token.isWord \/ NlpEnclitic(token) = <<>> THEN <<token.text>>
  ELSE LET baseLength == Len(token.text) - Len(NlpEnclitic(token))
       IN <<SubSeq(token.text, 1, baseLength), SubSeq(token.text, baseLength + 1, Len(token.text))>>

WordsOf(text) == FlattenSeq([i \in DOMAIN text |-> PartsOf(text[i])])

\* For Stanza, the words by sentence.
SentenceSegment(words) ==
  LET Ends(word) == ToSet(word) \cap {".", "?", "!"} # {}
      Add(sentences, word) ==
        IF sentences = <<>> \/ Ends(Last(Last(sentences))) THEN Append(sentences, <<word>>)
        ELSE [sentences EXCEPT ![Len(sentences)] = Append(@, word)]
  IN FoldLeft(Add, <<>>, words)

-----------------------------------------------------------------------------
(* The options of a word.                                                  *)

Distinct(s) == FoldLeft(LAMBDA found, x : IF x \in ToSet(found) THEN found ELSE Append(found, x), <<>>, s)
Marked(token, mark) == {m.at : m \in {n \in ToSet(token.marks) : n.mark = mark}}

\* sortByLemma and sortCrunchResults, in the order of the analyses.
SortByLemma(results) ==
  LET lemmata == Distinct([k \in DOMAIN results |-> results[k].lemma])
      Morph(lemma) == LET own == Kept(results, {r \in ToSet(results) : r.lemma = lemma})
                      IN [k \in DOMAIN own |-> own[k].data]
  IN [k \in DOMAIN lemmata |-> [lemma |-> lemmata[k], morph |-> Morph(lemmata[k])]]

SortCrunchResults(results) ==
  LET forms == Distinct([k \in DOMAIN results |-> results[k].longs])
  IN [k \in DOMAIN forms |->
       [form |-> forms[k],
        options |-> SortByLemma(Kept(results, {r \in ToSet(results) : r.longs = forms[k]}))]]

\* Mutant: a mark of a short vowel counts for nothing.
VowelsMatchesLoosely(form, longs, shorts) == Cardinality(form \cap longs)

\* -1 if the form contradicts a mark.
VowelsMatches(form, longs, shorts) ==
  IF form \cap shorts # {} THEN -1 ELSE Cardinality(form \cap longs)

OptionsByForm(token) ==
  LET Matches(option) == VowelsMatches(option.form, Marked(token, "long"), Marked(token, "short"))
      all == SortCrunchResults(Analyses[token.text])
      raw == Kept(all, {o \in ToSet(all) : Matches(o) # -1})
      most == Max({0} \cup {Matches(o) : o \in ToSet(raw)})
  IN Kept(raw, {o \in ToSet(raw) : Matches(o) = most})

\* The first option with the lemma of the tag and data that compare with it,
\* else the first with the very data of the tag; 0 if there is none.
Readings(option) ==
  UNION {{[lemma |-> o.lemma, data |-> morph] : morph \in ToSet(o.morph)} : o \in ToSet(option.options)}
FindBestMatch(options, tag) ==
  LET inflection == ConvertUpos(tag.morph)
      byLemma == {k \in DOMAIN options : \E r \in Readings(options[k]) :
                    r.lemma[1] = tag.lemma /\ CompareGrammaticalData(inflection, r.data) # Unrelated}
      byData == {k \in DOMAIN options : \E r \in Readings(options[k]) :
                   CompareGrammaticalData(inflection, r.data) = 0}
  IN IF \E part \in ToSet(tag.morph) : ~ IsRecognized(part) THEN 0
     ELSE IF byLemma # {} THEN Min(byLemma)
     ELSE IF byData # {} THEN Min(byData) ELSE 0

-----------------------------------------------------------------------------
(* attachGuesses: token i has the tags from Place(text, i) on.             *)

Place(text, i) == 1 + Len(WordsOf(SubSeq(text, 1, i - 1)))

\* The assertions on the tags of a word. Reading past the end throws too.
TagsFit(token, place, tags) ==
  /\ place <= Len(tags) /\ IsPrefix(tags[place].text, token.text)
  /\ NlpEnclitic(token) # <<>> =>
       place < Len(tags) /\ tags[place + 1].text = NlpEnclitic(token)

\* convertOptionsForForm: the lemma and the abbreviations of every reading.
ConvertOptionsForForm(options) ==
  LET Convert(o) == [lemma |-> o.lemma,
                     morph |-> [k \in DOMAIN o.morph |-> WordInflectionDataToArray(o.morph[k])]]
  IN [k \in DOMAIN options |->
       [form |-> options[k].form,
        options |-> [n \in DOMAIN options[k].options |-> Convert(options[k].options[n])]]]

MacronizedWord(token, tag) ==
  LET options == OptionsByForm(token)
  IN [word |-> token.text, options |-> ConvertOptionsForForm(options),
      suggested |-> IF Len(options) <= 1 THEN 0 ELSE FindBestMatch(options, tag)]

Plain(token) == [word |-> token.text, options |-> <<>>, suggested |-> 0]
Failed == <<Plain([text |-> <<"error">>])>>

AttachGuesses(text, tags) ==
  IF \E i \in DOMAIN text : text[i].isWord /\ ~ TagsFit(text[i], Place(text, i), tags) THEN Failed
  ELSE [i \in DOMAIN text |->
         IF text[i].isWord THEN MacronizedWord(text[i], tags[Place(text, i)]) ELSE Plain(text[i])]

LengthOf(text) == FoldLeft(LAMBDA n, token : n + Len(token.text) + Len(token.marks), 0, text)

\* The tags are NoAnswer if the request to the tagger fails.
NoAnswer == <<[text |-> <<"none">>, lemma |-> "", morph |-> <<>>]>>
MacronizeInput(text, tags) ==
  IF LengthOf(text) > InputMaxLength \/ tags = NoAnswer THEN Failed ELSE AttachGuesses(text, tags)
=============================================================================
