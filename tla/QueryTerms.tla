----------------------------- MODULE QueryTerms -----------------------------
(***************************************************************************)
(* One term of a corpus query: an atom, or an `and` or `or` of atoms, asked *)
(* of the engine in strict mode or not (corpus_rust/src:                   *)
(* corpus_query_engine.rs and its query_pruning.rs,                        *)
(* corpus_index_calculation.rs, corpus_result_resolution.rs).  A term is   *)
(* pruned if no reading of a word can meet it, its indices give candidates, *)
(* and the stored analyses of a candidate decide.                          *)
(*                                                                         *)
(* An atom is a category and a value.  A token has a word and analyses; an *)
(* analysis has a lemma and fields, again categories and values: several   *)
(* values of one category make the form ambiguous.  How indices are stored *)
(* and combined over positions is CorpusQuery's subject.                   *)
(***************************************************************************)
EXTENDS Integers, FiniteSets

CONSTANTS
  Tokens,
  WordOf,      \* [Tokens -> words]
  AnalysesOf,  \* [Tokens -> sets of [lemma, fields]]
  FirstLemma,  \* the lemma with ID 0
  Atoms

VARIABLES
  term,        \* [op: "atom", "and" or "or"; atoms: a set of atoms]
  strict,
  matching     \* the tokens that answer it

vars == <<term, strict, matching>>

NoTerm == [op |-> "none", atoms |-> {}]

\* Terms of up to three atoms.
Terms ==
  {[op |-> "atom", atoms |-> {a}] : a \in Atoms} \cup
  {[op |-> o, atoms |-> A] : o \in {"and", "or"},
     A \in {{a, b, c} : a, b, c \in Atoms} \ {{a} : a \in Atoms}}

Category(a) == a[1]
Value(a) == a[2]

Lemmata(atoms) == {a \in atoms : Category(a) = "lemma"}
Inflections(atoms) == {a \in atoms : Category(a) \notin {"word", "lemma"}}

-----------------------------------------------------------------------------
\* Terms that no reading can meet are not looked up.

NominalOnly(a) == Category(a) \in {"case", "gender"}

VerbalOnly(a) ==
  \/ Category(a) \in {"tense", "voice", "person"}
  \/ a \in {"mood"} \X {"imperative", "infinitive", "indicative", "subjunctive"}

Values(atoms, category) ==
  {Value(a) : a \in {b \in atoms : Category(b) = category}}

\* The moods of the atoms that the other atoms rule out.
MoodIncompatible(mood, atoms) ==
  LET Of(category) == Values(atoms, category)
  IN CASE mood = "subjunctive" -> Of("tense") \cap {"future", "futureperfect"} # {}
       [] mood = "supine" -> \/ ~ Of("gender") \subseteq {"neuter"}
                             \/ ~ Of("case") \subseteq {"nominative", "dative"}
       [] mood = "participle" -> Of("person") # {}
       [] mood = "infinitive" ->
            \/ Of("person") \cup Of("number") # {}
            \/ Of("tense") \cap {"future", "futureperfect", "imperfect",
                                 "pluperfect"} # {}
       [] mood = "imperative" -> ~ Of("tense") \subseteq {"present", "future"}
       [] OTHER -> FALSE

ConjunctionImpossible(atoms) ==
  \/ (\E a \in atoms : NominalOnly(a)) /\ (\E a \in atoms : VerbalOnly(a))
  \/ \E a, b \in atoms :
       Category(a) = Category(b) /\ Category(a) # "degree" /\ Value(a) # Value(b)
  \/ \E mood \in Values(atoms, "mood") : MoodIncompatible(mood, atoms)

Impossible(t) ==
  /\ t.op = "and"
  /\ \/ Cardinality(Lemmata(t.atoms)) > 1
     \/ ConjunctionImpossible(Inflections(t.atoms))

-----------------------------------------------------------------------------
\* Candidates from the indices.

Index(a) ==
  IF Category(a) = "word" THEN {t \in Tokens : WordOf[t] = Value(a)}
  ELSE {t \in Tokens : \E n \in AnalysesOf[t] :
          a = <<"lemma", n.lemma>> \/ a \in n.fields}

\* The tables of words and lemmata know only what occurs in the corpus.
Missing(a) == Category(a) \in {"word", "lemma"} /\ Index(a) = {}

Candidates(t) ==
  IF \E a \in t.atoms : Missing(a) THEN {}
  ELSE IF t.op = "or" THEN UNION {Index(a) : a \in t.atoms}
  ELSE {k \in Tokens : \A a \in t.atoms : k \in Index(a)}

-----------------------------------------------------------------------------
\* The analyses that the candidates are checked against.

\* A token without analyses has the entry of two zeros.
StoredAnalyses(token) ==
  IF AnalysesOf[token] = {} THEN {[lemma |-> FirstLemma, fields |-> {}]}
  ELSE AnalysesOf[token]

NeedsValidation(t, isStrict) ==
  /\ isStrict \/ t.op = "and"
  /\ Cardinality(Lemmata(t.atoms) \cup Inflections(t.atoms))
       > (IF isStrict THEN 0 ELSE 1)

\* The fields of the categories that the term is about.
Relevant(fields, wanted) ==
  {f \in fields : \E a \in wanted : Category(a) = Category(f)}

DoesInflectionMatch(analysis, t, isStrict) ==
  LET wanted == Inflections(t.atoms)
      lemmata == {Value(a) : a \in Lemmata(t.atoms)}
  IN IF t.op = "and"
     THEN /\ wanted \subseteq analysis.fields
          /\ isStrict => Relevant(analysis.fields, wanted) = wanted
          /\ \A l \in lemmata : l = analysis.lemma
     ELSE \/ /\ analysis.fields \cap wanted # {}
             /\ isStrict => Relevant(analysis.fields, wanted) \subseteq wanted
          \/ analysis.lemma \in lemmata

\* Mutant: one analysis that matches is enough in strict mode too.
HasMatchingInflectionsSomewhere(token, t, isStrict) ==
  \/ ~ NeedsValidation(t, isStrict)
  \/ \E n \in StoredAnalyses(token) : DoesInflectionMatch(n, t, isStrict)

HasMatchingInflections(token, t, isStrict) ==
  \/ ~ NeedsValidation(t, isStrict)
  \/ IF isStrict
     THEN \A n \in StoredAnalyses(token) : DoesInflectionMatch(n, t, isStrict)
     ELSE \E n \in StoredAnalyses(token) : DoesInflectionMatch(n, t, isStrict)

Answer(t, isStrict) ==
  IF Impossible(t) THEN {}
  ELSE {k \in Candidates(t) : HasMatchingInflections(k, t, isStrict)}

-----------------------------------------------------------------------------
\* What is taken for granted of the analyses.

\* A form has several values in two categories only: no others may be packed
\* with more than one.
IsAnalysis(n) ==
  /\ \A f \in n.fields : f = <<Category(f), Value(f)>> /\ Category(f) \notin {"word", "lemma"}
  /\ \A f, g \in n.fields :
       Category(f) = Category(g) /\ Category(f) \notin {"case", "gender"} => f = g

VerbalNoun(n) ==
  n.fields \cap ({"mood"} \X {"participle", "gerundive", "supine"}) # {}

\* The grammar that query_pruning.rs states, of forms that are no verbal nouns:
\* "No one token can be both" a nominal and a verbal, "subjunctives do not have
\* future tense", "infinitives are not inflected for person or number", and
\* "imperatives only exist in present and future tenses".
IsGrammatical(n) ==
  LET Of(category) == Values(n.fields, category)
  IN /\ ~ ((\E f \in n.fields : NominalOnly(f)) /\ (\E f \in n.fields : VerbalOnly(f)))
     /\ "subjunctive" \in Of("mood") => Of("tense") \cap {"future", "futureperfect"} = {}
     /\ "infinitive" \in Of("mood") =>
          /\ Of("person") \cup Of("number") = {}
          /\ Of("tense") \cap {"future", "futureperfect", "imperfect", "pluperfect"} = {}
     /\ "imperative" \in Of("mood") => Of("tense") \subseteq {"present", "future"}

ConstantsFit ==
  /\ \A a \in Atoms : a = <<Category(a), Value(a)>>
  /\ \A t \in Tokens : \A n \in AnalysesOf[t] :
       IsAnalysis(n) /\ (VerbalNoun(n) \/ IsGrammatical(n))

-----------------------------------------------------------------------------
Init ==
  /\ term = NoTerm
  /\ strict = FALSE
  /\ matching = {}

QueryCorpus ==
  /\ term = NoTerm
  /\ term' \in Terms
  /\ strict' \in BOOLEAN
  /\ matching' = Answer(term', strict')

Next == QueryCorpus

Spec == Init /\ [][Next]_vars

-----------------------------------------------------------------------------
\* What a term means.

\* An analysis, read with one value of each category.
Readings(analysis) ==
  {{<<"lemma", analysis.lemma>>} \cup F :
     F \in {G \in SUBSET analysis.fields :
       /\ \A f, g \in G : Category(f) = Category(g) => f = g
       /\ \A f \in analysis.fields : \E g \in G : Category(g) = Category(f)}}

\* Does a token with this word and reading meet the term?
Meets(token, reading, t) ==
  LET true == reading \cup {<<"word", WordOf[token]>>}
  IN IF t.op = "or" THEN t.atoms \cap true # {} ELSE t.atoms \subseteq true

AllReadings(token) == UNION {Readings(n) : n \in AnalysesOf[token]}

Possible(token, t) == \E r \in AllReadings(token) \cup {{}} : Meets(token, r, t)

Unambiguous(token, t) == \A r \in AllReadings(token) : Meets(token, r, t)

\* Participles, gerundives and supines have cases and tenses.
IsVerbalNoun(token) == \E n \in AnalysesOf[token] : VerbalNoun(n)

TypeOK ==
  /\ term.op \in {"none", "atom", "and", "or"} /\ term.atoms \subseteq Atoms
  /\ strict \in BOOLEAN
  /\ matching \subseteq Tokens

\* A token of an answer has a reading that meets the term, and in strict mode
\* meets it in every reading (the settings dialog: "return only results that
\* unambiguously match"); a token that should be found is, but for three cases:
\* an `or` with an atom that the corpus does not have, a verbal noun in a pruned
\* conjunction, and a strict `or`.
TermsMeanWhatTheySay ==
  /\ \A k \in matching : /\ Possible(k, term)
                         /\ strict => Unambiguous(k, term)
  /\ term # NoTerm =>
       \A k \in Tokens \ matching :
         Possible(k, term) /\ (strict => Unambiguous(k, term)) =>
           \/ term.op = "or" /\ (strict \/ \E a \in term.atoms : Missing(a))
           \/ Impossible(term) /\ IsVerbalNoun(k)

\* An alternative more finds no token less (corpus_autocomplete.tsx:174: an
\* `or` is offered with the help "(relax restriction)").
OrRelaxes ==
  term.op = "or" /\ ~ strict =>
    \A a \in term.atoms : Answer([op |-> "atom", atoms |-> {a}], FALSE) \subseteq matching

=============================================================================
