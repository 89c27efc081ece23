----------------------------- MODULE MacronPage -----------------------------
(***************************************************************************)
(* The macronizer's page: a text is typed and sent, the tagger answers in  *)
(* one of several ways, and the ambiguous words of the result are clicked. *)
(* An ambiguous word is a component of its own, known to the renderer by   *)
(* its place only: one that is at the same place in the next result keeps  *)
(* the state of the last.                                                  *)
(***************************************************************************)
EXTENDS Macronizer

CONSTANTS
  Typed,          \* what may be typed: sequences of tokens
  Taggings,       \* functions from words to [lemma, morph]
  PageMaxLength,
  MaxRequests

VARIABLES
  rawInput,    \* <<>> is nothing
  sending,     \* the texts that are being macronized: at most one
  answered,    \* the last text that was answered, with the tags, for its result
  shown,       \* the result, Failed, or <<>>
  cells,       \* the ambiguous words, by place: [options, idx, resolved]
  reused,      \* some of them were kept from the result before
  currentWord, dictWord,
  requestsLeft

vars == <<rawInput, sending, answered, shown, cells, reused, currentWord, dictWord, requestsLeft>>

NoWord == Plain([text |-> <<>>])

Init ==
  /\ rawInput = <<>> /\ sending = {}
  /\ answered = [text |-> <<>>, tags |-> NoAnswer]
  /\ shown = <<>> /\ cells = <<>> /\ reused = FALSE
  /\ currentWord = NoWord /\ dictWord = <<>>
  /\ requestsLeft = MaxRequests

\* onNewValue
SetRawInput(text) ==
  /\ requestsLeft > 0 /\ rawInput # text
  /\ rawInput' = text
  /\ UNCHANGED <<sending, answered, shown, cells, reused, currentWord, dictWord, requestsLeft>>

HandleClick ==
  /\ rawInput # <<>> /\ LengthOf(rawInput) < PageMaxLength
  /\ sending = {} /\ requestsLeft > 0
  /\ sending' = {rawInput} /\ requestsLeft' = requestsLeft - 1
  /\ UNCHANGED <<rawInput, answered, shown, cells, reused, currentWord, dictWord>>

\* The tagger, which is asked for all words or for those of each sentence,
\* answers word by word, loses the last word, or fails.
TagsOf(words, tagging) ==
  [k \in DOMAIN words |->
    [text |-> words[k], lemma |-> tagging[words[k]].lemma, morph |-> tagging[words[k]].morph]]
Answers(text) ==
  LET asked == {WordsOf(text), FlattenSeq(SentenceSegment(WordsOf(text)))}
  IN {NoAnswer} \cup UNION {{TagsOf(words, t), Front(TagsOf(words, t))} : words \in asked, t \in Taggings}

FormsOf(word) == [k \in DOMAIN word.options |-> word.options[k].form]
IsAmbiguous(word) == Len(word.options) > 1

\* getIdx: no suggestion is the first option.
GetIdx(word) == IF word.suggested = 0 THEN 1 ELSE word.suggested
NewCell(word) == [options |-> FormsOf(word), idx |-> GetIdx(word), resolved |-> FALSE]

\* The components that the renderer keeps: there are none after an error.
KeptCells(result) ==
  IF result = Failed THEN {} ELSE {i \in DOMAIN result : IsAmbiguous(result[i])} \cap DOMAIN cells

\* MacronizedOutput: an unknown word and one with one form have no state.
CellsOf(result, kept) ==
  [i \in {j \in DOMAIN result : IsAmbiguous(result[j])} |->
    IF i \in kept THEN cells[i] ELSE NewCell(result[i])]

SetProcessed(text, tags, result) ==
  /\ answered' = [text |-> text, tags |-> tags]
  /\ shown' = result
  /\ cells' = CellsOf(result, KeptCells(result))
  /\ reused' = (KeptCells(result) # {})

Answer(text, tags) ==
  /\ sending' = {}
  /\ SetProcessed(text, tags, MacronizeInput(text, tags))
  /\ UNCHANGED <<rawInput, currentWord, dictWord, requestsLeft>>

\* A click on an ambiguous word; Alt only marks it, Control shows the next form.
ClickWord(i, altKey, ctrlKey) ==
  /\ IF altKey
     THEN /\ cells' = [cells EXCEPT ![i].resolved = ~ @]
          /\ UNCHANGED <<currentWord, dictWord>>
     ELSE /\ cells' = IF ctrlKey THEN [cells EXCEPT ![i].idx = (@ % Len(cells[i].options)) + 1] ELSE cells
          /\ currentWord' = shown[i] /\ dictWord' = <<>>
  /\ UNCHANGED <<rawInput, sending, answered, shown, reused, requestsLeft>>

\* WordAnalysis: a lemma of the word leads to its entry.
SetDictWord ==
  /\ \E option \in ToSet(currentWord.options) : \E o \in ToSet(option.options) : dictWord' = o.lemma
  /\ UNCHANGED <<rawInput, sending, answered, shown, cells, reused, currentWord, requestsLeft>>

Next ==
  \/ \E text \in Typed : SetRawInput(text)
  \/ HandleClick
  \/ \E text \in sending : \E tags \in Answers(text) : Answer(text, tags)
  \/ \E i \in DOMAIN cells, altKey, ctrlKey \in BOOLEAN : ClickWord(i, altKey, ctrlKey)
  \/ SetDictWord

Spec == Init /\ [][Next]_vars

-----------------------------------------------------------------------------

TokenType == [text : Seq(STRING), isWord : BOOLEAN, marks : Seq([mark : {"long", "short"}, at : Nat])]
Analysis ==
  [lemma : Seq(STRING), longs : SUBSET Nat, enclitic : Seq(STRING), data : [Fields -> SUBSET Nat]]

\* A text is letters, none of which is the word "error"; Morceus knows, or does
\* not know, each of its words, and takes an enclitic from the word's letters.
ConstantsFit ==
  /\ MaxRequests \in Nat /\ PageMaxLength \in Nat /\ InputMaxLength \in Nat
  /\ PageMaxLength <= InputMaxLength
  /\ \A text \in Typed :
       /\ text \in Seq(TokenType)
       /\ \A i \in DOMAIN text :
            /\ text[i].text # <<"error">>
            /\ text[i].isWord => text[i].text \in DOMAIN Analyses
  /\ \A word \in DOMAIN Analyses :
       /\ Analyses[word] \in Seq(Analysis)
       /\ \A k \in DOMAIN Analyses[word] : Len(Analyses[word][k].enclitic) <= Len(word)

TypeOK ==
  /\ rawInput \in Typed \cup {<<>>} /\ sending \subseteq Typed
  /\ DOMAIN cells \subseteq DOMAIN shown
  /\ requestsLeft \in 0 .. MaxRequests

\* The tags of a text are those of its words, as Preprocess asked for them.
Complete == answered.tags # NoAnswer /\ Len(answered.tags) = Len(WordsOf(answered.text))

\* A tagger that answers for every word is enough, unless an enclitic is not
\* written as Morceus answers it (in capitals, or with v for u).
WellWritten(token) ==
  token.isWord => IsSuffix(NlpEnclitic(token), token.text)
AnswersUnlessEncliticDiffers ==
  Complete => ((shown = Failed) <=> \E i \in DOMAIN answered.text : ~ WellWritten(answered.text[i]))

\* The options of a word are the forms that break none of its marks, and of
\* them those that have most of the long vowels that were marked.
OptionsKeepMarks ==
  shown # Failed => \A i \in DOMAIN shown :
    LET token == answered.text[i]
        forms == {a.longs : a \in ToSet(Analyses[token.text])}
        possible == {f \in forms : f \cap Marked(token, "short") = {}}
        Agreed(f) == Cardinality(f \cap Marked(token, "long"))
    IN token.isWord =>
         /\ ToSet(FormsOf(shown[i])) = {f \in possible : \A g \in possible : Agreed(g) <= Agreed(f)}
         /\ IsInjective(FormsOf(shown[i]))

\* The readings of an option are those of the analyses with its form; their
\* abbreviations say all that the analysis says, but a positive degree.
Said(morph) == UNION ToSet(morph)
AllReadingsShown ==
  \A i \in DOMAIN shown : \A option \in ToSet(shown[i].options) :
    UNION {{<<o.lemma, Said(morph)>> : morph \in ToSet(o.morph)} : o \in ToSet(option.options)} =
    {<<a.lemma, UNION {ToMorpheus(f, a.data[f]) : f \in Fields}>> :
      a \in {b \in ToSet(Analyses[shown[i].word]) : b.longs = option.form}}

\* A suggestion comes from the tag of the word itself: the tagger's reading of
\* it compares with one of the analyses that have the form.
SuggestionsFit ==
  shown # Failed => \A i \in DOMAIN shown : shown[i].suggested # 0 =>
    LET form == shown[i].options[shown[i].suggested].form
        before == {j \in 1 .. i - 1 :
                     answered.text[j].isWord /\ NlpEnclitic(answered.text[j]) # <<>>}
        tag == answered.tags[i + Cardinality(before)]
    IN \E a \in ToSet(Analyses[shown[i].word]) :
         a.longs = form /\ CompareGrammaticalData(ConvertUpos(tag.morph), a.data) # Unrelated

\* What is shown of an ambiguous word is one of its options, as long as no
\* component was kept.
ShownIsAnOption ==
  /\ \A i \in DOMAIN cells : cells[i].idx \in DOMAIN cells[i].options
  /\ ~ reused => \A i \in DOMAIN cells : cells[i].options = FormsOf(shown[i])

MacronsFit ==
  /\ AnswersUnlessEncliticDiffers /\ OptionsKeepMarks /\ AllReadingsShown
  /\ SuggestionsFit /\ ShownIsAnOption
=============================================================================
