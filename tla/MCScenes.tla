------------------------------ MODULE MCScenes ------------------------------
(***************************************************************************)
(* State machines that share no state, in one run.  Every behaviour is one *)
(* of one of them (the scene), while the others stay in their initial      *)
(* states, where no step that has to happen is enabled.                    *)
(***************************************************************************)
EXTENDS Scenes

VARIABLES
  scene,
  tokens, typed,
  works, corpus, files, buildPhase, match,
  ending, stem, read,
  tables, word, crunchOptions, analyses, ported,
  lists, request, answer,
  registry, expanded, left, expansion,
  queue, processed, libraryPhase, view,
  operands,
  dictOrths, dictEntries, dictRequest, dictAnswers, dictNames,
  queryToken, wanted, listed, finished


WorkPages(w) == IF w = "A" THEN <<<<1>>, <<2>>>> ELSE <<<<3>>>>
TypedSections == {<<1, 5>>, <<9>>}

Query == INSTANCE QueryLanguage WITH
  MaxTyped <- 5, MaxOffered <- 8

SmallFiles == {<<>>, <<2, 0>>, <<1>>, <<3>>, <<1, 2>>, <<0, 2>>, <<2, 0, 1>>, <<0, 0, 3>>, <<4, 1, 2>>}


Analysis(lemma, fields) == [lemma |-> lemma, fields |-> fields]
Forms == {"amor", "donum", "amatum", "amare", "altior", "ignotum"}
WordOfForms == [t \in Forms |-> t]
FormAnalyses ==
  LET singular == <<"number", "singular">>
      neuter == {<<"case", "nominative">>, <<"case", "accusative">>, <<"gender", "neuter">>, singular}
      present == {<<"tense", "present">>, singular}
  IN [t \in Forms |->
       CASE t = "amor" ->
              {Analysis("amor", {<<"case", "nominative">>, <<"gender", "masculine">>, singular}),
               Analysis("amo", {<<"mood", "indicative">>, <<"person", "first">>} \cup present)}
         [] t = "donum" -> {Analysis("donum", neuter)}
         [] t = "amatum" ->
              {Analysis("amo", {<<"mood", "participle">>, <<"tense", "perfect">>} \cup neuter),
               Analysis("amo", {<<"mood", "supine">>, <<"case", "nominative">>, <<"gender", "neuter">>})}
         [] t = "amare" ->
              {Analysis("amo", {<<"mood", "infinitive">>, <<"tense", "present">>}),
               Analysis("amo", {<<"mood", "imperative">>, <<"person", "second">>} \cup present)}
         [] t = "altior" ->
              {Analysis("altus", {<<"case", "nominative">>, <<"gender", "masculine">>, singular,
                                  <<"degree", "comparative">>})}
         [] OTHER -> {}]
TermAtoms ==
  {<<"word", "amor">>, <<"word", "absent">>, <<"lemma", "amo">>, <<"lemma", "amor">>,
   <<"case", "nominative">>, <<"case", "accusative">>, <<"gender", "neuter">>,
   <<"number", "singular">>, <<"tense", "present">>, <<"tense", "perfect">>,
   <<"tense", "future">>, <<"person", "first">>,
   <<"degree", "positive">>, <<"degree", "comparative">>} \cup
  ({"mood"} \X {"infinitive", "participle", "supine", "indicative", "subjunctive"})


Row(id, text) == [id |-> id, text |-> text]
Work(author, name, rows) == [author |-> author, name |-> name, rows |-> rows]
IsBefore(x, y) ==
  \E i \in 1 .. 5, j \in 1 .. 5 :
    i < j /\ x = <<"A", "B", "v", "w", "x">>[i] /\ y = <<"A", "B", "v", "w", "x">>[j]
RowTexts == {<<>>, <<"a">>, <<".", "b">>, <<"a", " ", "b", ".">>, <<"u", " ", "a">>}
SmallWorks ==
  {Work("B", "v", <<Row(<<1>>, s), Row(<<2>>, t)>>) : s, t \in RowTexts \ {<<>>}} \cup
  {Work("B", "v", <<Row(<<1, 1>>, s), Row(<<1, 2>>, <<>>), Row(<<2, 1>>, t)>>) : s, t \in RowTexts}
SmallLibraries ==
  {{v} : v \in SmallWorks} \cup
  {{v, Work("A", "w", <<Row(<<1>>, <<"b">>)>>)} : v \in SmallWorks} \cup
  {{v, Work("B", "x", <<Row(<<1>>, <<"a">>)>>), Work("A", "w", <<Row(<<1>>, <<"u", " ", "b", ",">>)>>)} :
     v \in SmallWorks}
WordAnalyses ==
  [a |-> <<[lemma |-> "la", case |-> {1, 2}], [lemma |-> "lb", case |-> {3}]>>,
   b |-> <<[lemma |-> "lb", case |-> {2}]>>, u |-> <<>>]

Build == INSTANCE CorpusBuild WITH
  Libraries <- SmallLibraries, Words <- {"a", "b", "u"}, FullStops <- {"."},
  AnalysesOf <- WordAnalyses, Before <- IsBefore, CellBits <- 2, MaxSpan <- 2,
  ContextLens <- {1, 2}, input <- works, phase <- buildPhase
Infl == INSTANCE StemAndEnding WITH
  Codes <- {"nom", "dat/abl", "masc", "gen", "masc/fem/neut", "adverbial", "superl", "comp",
    "fut", "part", "sg", "no_fut_part", "loc"}, MaxCodes <- 2

Inflected(case, gender, number, mood, tags, internal) ==
  [data |-> [case |-> case, gender |-> gender, number |-> number, mood |-> mood,
             person |-> {}, voice |-> {}, tense |-> IF mood = {} THEN {} ELSE {5}, degree |-> {}],
   tags |-> tags, internal |-> internal]
Noun(case, gender, number) == Inflected(case, gender, number, {}, {}, {})
End(e, context) == [ending |-> e, context |-> context]
SmallTemplates == <<
  [name |-> "us_a_um", endings |-> <<
    End(<<"u", "s">>, Noun({1}, {1}, {1})), End(<<"a">>, Noun({1}, {2}, {1})),
    End(<<"a">>, Noun({1, 2}, {3}, {2})), End(<<"o", "_">>, Noun({3}, {1, 3}, {1})),
    End(<<"o", "_">>, Noun({5}, {1, 3}, {1})), End(<<"i", "_", "s">>, Noun({3, 5}, {1}, {2})),
    End(<<"i", "_", "s">>, Noun({3, 5}, {2}, {2})),
    End(<<"e">>, Noun({6}, {1}, {1})), End(<<"e", "_">>, Noun({}, {4}, {})), End(<<"u", "s">>, Noun({1, 6}, {1}, {1}))>>],
  [name |-> "decl3", endings |-> <<
    End(<<"*">>, Noun({1, 6}, {}, {1})), End(<<"e">>, Noun({5}, {}, {1})),
    End(<<"i", "_">>, Noun({3}, {}, {1}))>>],
  [name |-> "verb", endings |-> <<
    End(<<"e">>, Inflected({}, {}, {1}, {2}, {"early"}, {})),
    End(<<"e">>, Inflected({}, {}, {1}, {1}, {}, {"comp_only"})),
    End(<<"o">>, Inflected({}, {}, {1}, {4}, {}, {}))>>]>>
Stem(text, code, table, context) ==
  [stem |-> text, code |-> code, inflection |-> table, context |-> context]
Form(form, code, context) == [form |-> form, code |-> code, context |-> context]
Lemma(lemma, isVerb, stems, forms) ==
  [lemma |-> lemma, isVerb |-> isVerb, stems |-> stems, irregularForms |-> forms]
SmallLemmata == <<
  Lemma("novus", FALSE, <<Stem(<<"n", "o", "v">>, "aj", "us_a_um", Noun({}, {}, {}))>>, <<>>),
  Lemma("novo", TRUE,
        <<Stem(<<"n", "o", "v">>, "vs", "verb", Inflected({}, {}, {}, {}, {}, {"no_fut_part"}))>>, <<>>),
  Lemma("jus", FALSE, <<Stem(<<"j", "u", "_">>, "none", "decl3", Noun({1, 5}, {3}, {}))>>,
        <<Form(<<"j", "u", "_", "s">>, "none", Noun({1}, {3}, {1}))>>),
  Lemma("Jovis", FALSE, <<Stem(<<"J", "o", "v">>, "no", "decl3", Noun({}, {1}, {}))>>, <<>>),
  Lemma("ut", FALSE, <<>>, <<Form(<<"u", "^">>, "wd", Inflected({}, {}, {}, {}, {"rare"}, {}))>>),
  Lemma("Una", FALSE, <<Stem(<<"U", "n">>, "no", "us_a_um", Noun({}, {2}, {1}))>>, <<>>)>>
Letters == <<"a", "e", "i", "j", "n", "o", "q", "s", "u", "v">>
Capitals == <<"A", "E", "I", "J", "N", "O", "Q", "S", "U", "V">>
CapitalOf == [c \in {Letters[i] : i \in 1 .. 10} |-> Capitals[CHOOSE i \in 1 .. 10 : Letters[i] = c]]
SmallWords ==
  {<<c, "o", d>> \o t : c \in {"n", "N", "I", "J"}, d \in {"u", "v"},
     t \in {<<>>, <<"e">>, <<"o">>, <<"u", "s">>, <<"e", "n", "e">>, <<"i", "s", "q", "u", "e">>}} \cup
  {<<c>> \o t : c \in {"u", "U", "V", "v"}, t \in {<<>>, <<"n", "a">>, <<"n", "a", "q", "u", "e">>}} \cup
  {<<c, d>> \o t : c \in {"i", "j"}, d \in {"u", "U"}, t \in {<<>>, <<"s">>, <<"s", "v", "e">>}}
Crunching(relaxCase, relaxIandJ, relaxUandV, handleEnclitics) ==
  [relaxCase |-> relaxCase, relaxIandJ |-> relaxIandJ, relaxUandV |-> relaxUandV,
   handleEnclitics |-> handleEnclitics]

Cruncher == INSTANCE Crunch WITH
  Lemmata <- SmallLemmata, Templates <- SmallTemplates, Alphabet <- Letters, Capital <- CapitalOf,
  Words <- SmallWords, options <- crunchOptions,
  Options <- {Crunching(TRUE, TRUE, TRUE, TRUE), Crunching(FALSE, TRUE, TRUE, TRUE),
              Crunching(TRUE, FALSE, TRUE, FALSE), Crunching(FALSE, FALSE, FALSE, TRUE)}

CompletedTexts ==
  {<<>>, <<"_">>, <<"n">>, <<"n", "o", "v">>, <<"N", "o", "v", "e">>, <<"n", "o", "u">>,
   <<"n", "o", "u", "i">>, <<"i">>, <<"i", "u">>, <<"J", "u">>, <<"i", "o", "u">>,
   <<"i", "u", "s">>, <<"j", "u", "i">>, <<"u">>, <<"u", "n", "a">>, <<"u", "n", "o", "_">>,
   <<"n", "o", "v", "i", "s">>, <<"i", "o", "v", "i", "s">>, <<"s">>}

Completer == INSTANCE Completions WITH
  Lemmata <- SmallLemmata, Templates <- SmallTemplates, Alphabet <- Letters, Capital <- CapitalOf,
  Texts <- CompletedTexts, Limits <- {1, 2, 9}

TemplateOf(endings, templates) == [endings |-> endings, templates |-> templates]
Line(text, codes) == [ending |-> text, codes |-> codes]
Take(name, prefix, args) == [name |-> name, prefix |-> prefix, args |-> args]
TemplateChoices ==
  [us |-> {TemplateOf(<<Line(<<"s">>, <<"nom", "masc/fem">>), Line(<<"m">>, <<"acc">>)>>, <<>>),
           TemplateOf(<<Line(<<"s">>, <<>>)>>, <<>>),
           TemplateOf(<<>>, <<Take("aj", <<"x">>, <<>>)>>)},
   o |-> {TemplateOf(<<Line(<<"o">>, <<"dat/abl", "sg">>)>>, <<Take("us", <<"u">>, <<"sg", "masc">>)>>),
          TemplateOf(<<>>, <<Take("us", <<>>, <<"neut">>)>>),
          TemplateOf(<<>>, <<Take("us", <<"a">>, <<"sg", "pl">>)>>),
          TemplateOf(<<>>, <<Take("none", <<"a">>, <<>>)>>),
          TemplateOf(<<>>, <<>>)},
   aj |-> {TemplateOf(<<>>, <<Take("o", <<>>, <<"masc", "comp">>), Take("us", <<"a">>, <<"superl", "fem">>)>>),
           TemplateOf(<<>>, <<Take("o", <<"i">>, <<"neut">>), Take("o", <<"e">>, <<"adverbial", "comp">>)>>),
           TemplateOf(<<Line(<<"e">>, <<"superl", "adverbial">>)>>, <<Take("aj", <<>>, <<>>)>>)}]
TemplateRegistries ==
  {[us |-> u, o |-> o, aj |-> a] : u \in TemplateChoices.us, o \in TemplateChoices.o,
                                   a \in TemplateChoices.aj}

Tables == INSTANCE InflectionTables WITH
  Registries <- TemplateRegistries

Token(text, marks) == [text |-> text, isWord |-> TRUE, marks |-> marks]
Break(text) == [text |-> <<text>>, isWord |-> FALSE, marks |-> <<>>]
Mark(mark, place) == [mark |-> mark, at |-> place]
eos == <<"e", "o", "s">>
os == <<"o", "s">>
eoque == <<"e", "o", "q", "u", "e">>
EOQUE == <<"E", "O", "Q", "U", "E">>
xx == <<"x", "x">>
Reading(lemma, longs, enclitic, data) ==
  [lemma |-> lemma, longs |-> longs, enclitic |-> enclitic, data |-> data]
Of(case, gender, number) ==
  [case |-> case, gender |-> gender, number |-> number, person |-> {}, voice |-> {}, mood |-> {},
   tense |-> {}, degree |-> {}]
Goes == [Of({}, {}, {1}) EXCEPT !.person = {1}, !.voice = {1}, !.mood = {1}, !.tense = {1}]
WithQue ==
  <<Reading(<<"is">>, {1}, <<"q", "u", "e">>, Of({5}, {1, 3}, {1})),
    Reading(<<"eo", "1">>, {}, <<"q", "u", "e">>, Goes),
    Reading(<<"eo", "2">>, {1}, <<"q", "u", "e">>, Of({}, {4}, {}))>>
MacronAnalyses == [w \in {eos, os, eoque, EOQUE, xx} |->
  CASE w = eos -> <<Reading(<<"Eos">>, {0}, <<>>, Of({1}, {2}, {1})),
                    Reading(<<"is">>, {1}, <<>>, Of({2}, {1}, {2}))>>
    [] w = os -> <<Reading(<<"os", "1">>, {0}, <<>>, Of({1}, {3}, {1})),
                   Reading(<<"os", "2">>, {}, <<>>, Of({1, 2}, {3}, {1})),
                   Reading(<<"os", "1">>, {0}, <<>>, Of({2}, {3}, {1}))>>
    [] w = xx -> <<>>
    [] OTHER -> WithQue]
TypedTexts ==
  {<<Token(eoque, <<>>), Break(" "), Token(eos, <<>>), Break(".")>>,
   <<Token(os, <<Mark("long", 0)>>), Break("."), Token(eos, <<Mark("short", 1)>>), Break(" "),
     Token(EOQUE, <<>>)>>,
   <<Token(os, <<>>), Break(" "), Token(xx, <<>>), Break(" "),
     Token(eos, <<Mark("short", 0), Mark("short", 1)>>)>>,
   <<Token(xx, <<>>), Break(" "), Token(eoque, <<Mark("long", 1)>>), Break(" "), Token(eoque, <<>>),
     Break(" "), Token(eoque, <<>>)>>}
Tag(lemma, morph) == [lemma |-> lemma, morph |-> morph]
Tagged(w) ==
  CASE w = eos -> Tag("is", <<<<"Case", "Acc">>, <<"Gender", "Masc">>>>)
    [] w = os -> Tag("", <<<<"Case", "Acc">>, <<"Gender", "Neut">>, <<"Number", "Sing">>>>)
    [] w = <<"e", "o">> -> Tag("eo", <<<<"Aspect", "Imp">>, <<"Mood", "Ind">>, <<"Tense", "Pres">>>>)
    [] OTHER -> Tag("", <<>>)
WordTaggings ==
  {[w \in {eos, os, <<"e", "o">>, <<"E", "O">>, <<"q", "u", "e">>, <<"Q", "U", "E">>, xx, <<" ">>, <<".">>} |->
     IF reading = "known" THEN Tagged(w) ELSE Tag("is", <<<<reading, "Nom">>>>)] :
   reading \in {"known", "Case", "Typo"}}


TouchPoints == {[x |-> 2, y |-> 5], [x |-> 3, y |-> 5], [x |-> 5, y |-> 4], [x |-> 9, y |-> 5]}
TooltipKeys == [label0 |-> 0, note0 |-> 0, label1 |-> 1]


Window(width, height) == [innerWidth |-> width, innerHeight |-> height]
SmallAndLarge == {Window(400, 600), Window(600, 400), Window(1000, 600), Window(600, 1000)}


Bare ==
  [name |-> "", type |-> "", subtype |-> "", n |-> "", xmlId |-> "", target |-> "", words |-> <<>>,
   kids |-> <<>>, sid |-> <<>>, uid |-> -1, noteId |-> -1, orig |-> ""]
Str(ws) == [Bare EXCEPT !.name = "text", !.words = ws]
El(name, kids) == [Bare EXCEPT !.name = name, !.kids = kids]
Part(subtype, n, kids) ==
  [El("div", kids) EXCEPT !.type = "textpart", !.subtype = subtype, !.n = n]
Typed(name, type, n, kids) == [El(name, kids) EXCEPT !.type = type, !.n = n]
Verse(n, kids) == [El("l", kids) EXCEPT !.n = n]
NoteOf(ws) == El("note", <<Str(ws), El("hi", <<Str(<<"cf">>)>>)>>)
NoteTo(id) == [El("note", <<>>) EXCEPT !.target = id]
NoteFor(id, ws) == [El("note", <<Str(ws)>>) EXCEPT !.xmlId = id]
Patch(location, target, replacement) ==
  [location |-> location, target |-> target, replacement |-> replacement]
File(id, parts, kids) ==
  [id |-> id, parts |-> parts, root |-> El("body", kids), patches |-> {}, isTranslation |-> FALSE,
   translationId |-> "", noSubtypes |-> FALSE, ignored |-> {}, gapLines |-> FALSE]
Corrected == El("choice", <<El("sic", <<Str(<<"q">>)>>), El("corr", <<Str(<<"quae">>)>>), Str(<<>>)>>)
Verses ==
  <<Part("poem", "1",
      <<El("head", <<Str(<<"ad", "se">>)>>),
        El("lg", <<Verse("1", <<Str(<<"cui", "do">>), El("hi", <<Str(<<"no">>)>>), NoteOf(<<"a">>), Str(<<"no">>)>>),
                   Verse("2", <<Str(<<"no", "vum">>), Corrected>>)>>),
        Verse("3", <<El("abbr", <<Str(<<"C">>), El("expan", <<Str(<<"Gaius">>)>>)>>), El("q", <<Str(<<"o">>)>>), El("lb", <<>>)>>)>>),
    El("pb", <<>>),
    Part("poem", "2", <<Verse("1", <<El("gap", <<>>), NoteOf(<<"b">>)>>), Verse("2", <<Str(<<"no">>)>>)>>)>>
Poems == File("poems", <<"poem", "line">>, Verses)
Items ==
  El("list", <<Str(<<>>), El("headLabel", <<Str(<<"res">>)>>), El("label", <<Str(<<"i">>)>>),
               El("item", <<Str(<<"ius">>), El("date", <<Str(<<"id">>)>>)>>), El("item", <<Str(<<"lex">>)>>)>>)
Chapters ==
  <<Part("book", "1",
      <<El("head", <<Str(<<"liber">>)>>), NoteFor("n1", <<"c">>),
        Part("chapter", "1",
          <<El("label", <<Str(<<"caput">>)>>), Str(<<>>),
            Part("section", "1", <<El("p", <<Str(<<"Gallia">>), NoteTo("n1"), El("cit", <<El("lg", <<Verse("", <<Str(<<"est">>)>>)>>)>>)>>)>>),
            Part("section", "2", <<El("p", <<Items>>), El("p", <<Str(<<"omnis">>), NoteTo("n1")>>)>>)>>),
        El("p", <<Typed("seg", "chapter", "2", <<Typed("seg", "section", "1", <<Str(<<"una">>)>>)>>)>>)>>)>>
History == [File("history", <<"book", "chapter", "section">>, Chapters) EXCEPT !.translationId = "english"]
English ==
  [File("english", <<"book", "chapter">>, <<Part("book", "1", <<Part("chapter", "1", <<Str(<<"all">>)>>)>>)>>)
   EXCEPT !.isTranslation = TRUE]
Dialogue ==
  [File("dialogue", <<"section">>,
     <<El("p", <<Typed("div", "section", "1", <<Str(<<"saepe">>)>>), El("milestone", <<>>),
                 Typed("div", "section", "2", <<Str(<<"ex">>), El("reg", <<Str(<<"me">>)>>)>>)>>)>>)
   EXCEPT !.noSubtypes = TRUE]
Nature ==
  [File("nature", <<"book", "line">>,
     <<Part("book", "1", <<Verse("1", <<Str(<<"Aeneadum">>)>>), Verse("", <<El("gap", <<>>)>>), Verse("2", <<Str(<<"alma">>)>>)>>)>>)
   EXCEPT !.gapLines = TRUE]
Lyrics ==
  [File("lyrics", <<"poem", "line">>, <<Part("lyric", "1", Verses)>>) EXCEPT !.ignored = {"lyric"}]
Stray == File("stray", <<"book">>, <<Part("book", "1", <<Str(<<"a">>)>>), Str(<<"b">>), Part("book", "2", <<Str(<<"c">>)>>)>>)
Split ==
  File("split", <<"book", "chapter", "section">>,
    <<Part("book", "1", <<Part("chapter", "1", <<Part("section", "1", <<Str(<<"a">>)>>)>>), El("head", <<Str(<<"b">>)>>),
                          Part("chapter", "1", <<Part("section", "2", <<Str(<<"c">>)>>)>>)>>)>>)
BadList == File("list", <<"book">>, <<Part("book", "1", <<El("list", <<El("label", <<Str(<<"i">>)>>), El("label", <<Str(<<"j">>)>>)>>)>>)>>)
BadNote == File("note", <<"book">>, <<Part("book", "1", <<NoteTo("n2"), Str(<<"a">>)>>)>>)
Patched(location, target, replacement) ==
  <<[Poems EXCEPT !.patches = {Patch(location, target, replacement)}]>>
TextLibraries ==
  {<<Poems, Nature>>, <<History, English>>, <<Lyrics, Dialogue>>, <<Dialogue, Stray, Poems>>, <<Split>>, <<BadList>>, <<BadNote>>,
   Patched(<<"1", "1">>, <<"no">>, <<"num">>), Patched(<<"1", "2">>, <<"no", "vum">>, <<"novum">>),
   Patched(<<"2", "2">>, <<"no">>, <<"non", "est">>), Patched(<<"1">>, <<"no">>, <<>>),
   Patched(<<"1", "3">>, <<"no">>, <<>>)}

Library == INSTANCE LibraryText WITH
  Libraries <- TextLibraries, phase <- libraryPhase
Packed == INSTANCE PackedIndex WITH
  WordBits <- 4, ByteBits <- 8, MaxWindow <- 3, Starts <- {0, 8}, NumWords <- 2, Sparse <- 2,
  PackedBound <- 7, Seconds <- {{0}, {2}, {7}, {1, 6}, {3, 4, 5}}, Offsets <- {-2, 0, 1}

Nm(letters, length) == [letters |-> letters, length |-> length]
DictAnalysis(letters, n, lengths) == [lemma |-> letters, n |-> n, lengths |-> lengths]
Entry(id, n, keys, derived) == [id |-> id, n |-> n, keys |-> keys, derived |-> derived]
Sub(id, names) == [id |-> id, names |-> names]
NameA == <<"a">>
NameAb == <<"a", "b">>
DictLexica ==
  {<<Entry("e1", "1", <<Nm(NameA, "Long")>>, <<Sub("e1.s", <<Nm(NameAb, "Any")>>)>>),
     Entry("e2", "2", <<Nm(NameA, "Short")>>, <<>>)>>,
   <<Entry("e1", "1", <<Nm(NameA, "Any")>>,
           <<Sub("e1.s", <<Nm(NameA, "Any"), Nm(NameAb, "Any")>>), Sub("e1.t", <<Nm(NameAb, "Any")>>)>>),
     Entry("e2", "none", <<Nm(NameAb, "Any"), Nm(<<"b", "'">>, "Any")>>, <<>>)>>,
   <<Entry("e2", "none", <<Nm(<<"-", "a", "b">>, "Any"), Nm(NameAb, "Long")>>,
           <<Sub("e2.s", <<Nm(NameAb, "Short"), Nm(NameAb, "Long")>>), Sub("e2.t", <<Nm(NameA, "Any")>>)>>),
     Entry("e1", "1", <<Nm(<<"b", "a">>, "Any")>>, <<>>)>>}
DictAnalyses ==
  {DictAnalysis(NameA, "1", <<"Long">>), DictAnalysis(NameA, "2", <<"Short">>), DictAnalysis(NameA, "none", <<"Long", "Short">>),
   DictAnalysis(NameAb, "none", <<"Any">>)}

Lookup == INSTANCE DictLookup WITH
  orths <- dictOrths, entries <- dictEntries, request <- dictRequest, answers <- dictAnswers, suggested <- dictNames,
  Lexica <- DictLexica,
  Queries <- {Nm(NameA, "Any"), Nm(NameA, "Long"), Nm(NameAb, "Any"), Nm(NameAb, "Short"), Nm(<<"b", "'">>, "Any")},
  AnalysisLists <- {<<>>} \cup {<<x>> : x \in DictAnalyses} \cup {<<x[1], x[2]>> : x \in {y \in DictAnalyses \X DictAnalyses : y[1] # y[2]}},
  Beginnings <- {<<"-">>, <<"-", "b">>, NameA, NameAb, <<"b">>, <<"c">>}

FieldKeys ==
  [case |-> {"nominative", "nom", "genitive", "gen", "ablative", "abl", "Nom", "n"},
   tense |-> {"present", "pres", "imperfect", "impf", "future-perfect", "futp", "perfect", "plup"},
   voice |-> {"passive", "act"}, person |-> {"1st", "3rd"}, number |-> {"singular", "sing", "plur", "pl"},
   gender |-> {"neuter", "masc", "m"}, mood |-> {"imperative", "imper", "supine", "sup", "ger"},
   lemma |-> {"amo", "Amor", "aMo", "x"}, word |-> {"amo"}, degree |-> {"pos"}]
Beginnings(name) == {SubSeq(name, 1, n) : n \in 0 .. Len(name)}
KeyNames(key) == {key, SubSeq(key, 1, 1)}
TypedTokens ==
  {"@" \o start : start \in UNION {Beginnings(name) : name \in DOMAIN FieldKeys \cup {"future", "1st", "xy", "imper"}}} \cup
  UNION {{"@" \o name \o ":" \o start : name \in KeyNames(key), start \in UNION {Beginnings(v) : v \in FieldKeys[key]}} :
           key \in DOMAIN FieldKeys} \cup
  {"~", "~>", "~0", "~3", "~10>", "~15", "~16", "~5x", "~3>>", "a~", "a:b", "amor", "or:",
   "#", "#C", "#c", "#caesar", "#Caesar", "#x"}
SmallLetters == [A |-> "a", B |-> "b", C |-> "c", M |-> "m", N |-> "n"]

OneToken == INSTANCE QueryTokens WITH
  token <- queryToken, Authors <- {"Caesar", "Cicero"},
  Lemmata <- {"Amor", "amo", "amor", "bellum"}, SmallLetter <- SmallLetters

shellVars == <<server, online, active, newer, index, bundles, memory, stored, inMemory,
               notice, page, loads, raced, forced, disturbed>>
commsVars == <<requests, boxes, mount, mounted, listeners, toPage>>
searchVars == <<input, options, loading, cursor, focused, interacting, fetches, effectDue>>
corpusVars == <<entries, at, calls, results, asked>>
dictVars == <<dictPage, dictRoute, visited, initial, dictsToUse, inflectedSearch, lookups,
              lookup, lookedUp, dictState, internalLink>>
readerVars == <<rRoute, rVisited, work, translation, texts, saved>>
processVars == <<proc, starts, telemetry, dicts, served, forceClose, faulty, lost>>
queryVars == <<tokens, typed>>
unpackVars == <<lens, sent, nextPiece, buffer, expected, expecting, yielded, status>>
termVars == <<term, strict, matching>>
buildVars == <<works, corpus, files, buildPhase, match>>
inflVars == <<ending, stem, read>>
crunchVars == <<tables, word, crunchOptions, analyses, ported>>
completeVars == <<lists, request, answer>>
tablesVars == <<registry, expanded, left, expansion>>
macronVars == <<rawInput, sending, answered, shown, cells, reused, currentWord, dictWord,
                requestsLeft>>
externalVars == <<tab, readerText, fromUrl, awaited, savedRows, contentIndex, storing,
                  linkImports, processState, lastAsked, overlapped, actionsLeft>>
gesturesVars == <<finger, touchData, fast, isSwiping, overlayOpacity, swipeDir, loadState,
                  currentPage, openTooltips, hasTooltip, swipeNavigation, tapNavigation,
                  menuVisible, turn, meddled, touchesLeft>>
layoutVars == <<screen, drawerHeight, drawerMinimized, sidebarTab, shownWord, gutterSize,
                mainWidth, drag, selecting, stepsLeft>>
textsVars == <<queue, processed, libraryPhase, view>>
packedVars == <<operands>>
lookupVars == <<dictOrths, dictEntries, dictRequest, dictAnswers, dictNames>>
tokenVars == <<queryToken, wanted, listed, finished>>
vars == <<scene, shellVars, commsVars, searchVars, corpusVars, dictVars, readerVars, processVars, queryVars, unpackVars, termVars, buildVars, inflVars, crunchVars, completeVars, tablesVars, macronVars, externalVars, gesturesVars, layoutVars, textsVars, packedVars, lookupVars, tokenVars>>

Init ==
  /\ scene \in {"shell", "comms", "search", "corpus", "dict", "reader", "process", "query", "unpack", "term", "build", "infl", "crunch", "complete", "tables", "macron", "external", "gestures", "layout", "texts", "packed", "lookup", "token"}
  /\ Shell!Init
  /\ Comms!Init
  /\ Search!Init
  /\ Corpus!Init
  /\ Dict!Init
  /\ Reader!Init
  /\ Process!Init
  /\ Query!Init
  /\ Unpack!Init
  /\ scene = "unpack" \/ lens = <<>>
  /\ Term!Init
  /\ Build!Init
  /\ Infl!Init
  /\ Cruncher!Init
  /\ Completer!Init
  /\ Tables!Init
  /\ Macron!Init
  /\ External!Init
  /\ Gestures!Init
  /\ Layout!Init
  /\ scene = "layout" \/ screen.innerWidth = 400
  /\ Library!Init
  /\ Packed!Init
  /\ Lookup!Init
  /\ OneToken!Init

AllOthersStay(name) ==
  /\ UNCHANGED scene
  /\ name # "shell" => UNCHANGED shellVars
  /\ name # "comms" => UNCHANGED commsVars
  /\ name # "search" => UNCHANGED searchVars
  /\ name # "corpus" => UNCHANGED corpusVars
  /\ name # "dict" => UNCHANGED dictVars
  /\ name # "reader" => UNCHANGED readerVars
  /\ name # "process" => UNCHANGED processVars
  /\ name # "query" => UNCHANGED queryVars
  /\ name # "unpack" => UNCHANGED unpackVars
  /\ name # "term" => UNCHANGED termVars
  /\ name # "build" => UNCHANGED buildVars
  /\ name # "infl" => UNCHANGED inflVars
  /\ name # "crunch" => UNCHANGED crunchVars
  /\ name # "complete" => UNCHANGED completeVars
  /\ name # "tables" => UNCHANGED tablesVars
  /\ name # "macron" => UNCHANGED macronVars
  /\ name # "external" => UNCHANGED externalVars
  /\ name # "gestures" => UNCHANGED gesturesVars
  /\ name # "layout" => UNCHANGED layoutVars
  /\ name # "texts" => UNCHANGED textsVars
  /\ name # "packed" => UNCHANGED packedVars
  /\ name # "lookup" => UNCHANGED lookupVars
  /\ name # "token" => UNCHANGED tokenVars

Next ==
  \/ scene = "shell" /\ Shell!Next /\ AllOthersStay("shell")
  \/ scene = "comms" /\ Comms!Next /\ AllOthersStay("comms")
  \/ scene = "search" /\ Search!Next /\ AllOthersStay("search")
  \/ scene = "corpus" /\ Corpus!Next /\ AllOthersStay("corpus")
  \/ scene = "dict" /\ Dict!Next /\ AllOthersStay("dict")
  \/ scene = "reader" /\ Reader!Next /\ AllOthersStay("reader")
  \/ scene = "process" /\ Process!Next /\ AllOthersStay("process")
  \/ scene = "query" /\ Query!Next /\ AllOthersStay("query")
  \/ scene = "unpack" /\ Unpack!Next /\ AllOthersStay("unpack")
  \/ scene = "term" /\ Term!Next /\ AllOthersStay("term")
  \/ scene = "build" /\ Build!Next /\ AllOthersStay("build")
  \/ scene = "infl" /\ Infl!Next /\ AllOthersStay("infl")
  \/ scene = "crunch" /\ Cruncher!Next /\ AllOthersStay("crunch")
  \/ scene = "complete" /\ Completer!Next /\ AllOthersStay("complete")
  \/ scene = "tables" /\ Tables!Next /\ AllOthersStay("tables")
  \/ scene = "macron" /\ Macron!Next /\ AllOthersStay("macron")
  \/ scene = "external" /\ External!Next /\ AllOthersStay("external")
  \/ scene = "gestures" /\ Gestures!Next /\ AllOthersStay("gestures")
  \/ scene = "layout" /\ Layout!Next /\ AllOthersStay("layout")
  \/ scene = "texts" /\ Library!Next /\ AllOthersStay("texts")
  \/ scene = "packed" /\ Packed!Next /\ AllOthersStay("packed")
  \/ scene = "lookup" /\ Lookup!Next /\ AllOthersStay("lookup")
  \/ scene = "token" /\ OneToken!Next /\ AllOthersStay("token")

Spec == Init /\ [][Next]_vars /\ Shell!Fairness /\ Comms!Fairness /\ Process!Fairness /\ Tables!Fairness

-----------------------------------------------------------------------------
\* The constants of every component fit, and its variables have their types.
TypeOK ==
  /\ scene = "shell" => Shell!ConstantsFit /\ Shell!TypeOK
  /\ scene = "comms" => Comms!ConstantsFit /\ Comms!TypeOK
  /\ scene = "search" => Search!ConstantsFit /\ Search!TypeOK
  /\ scene = "corpus" => Corpus!ConstantsFit /\ Corpus!TypeOK
  /\ scene = "dict" => Dict!TypeOK
  /\ scene = "reader" => Reader!ConstantsFit /\ Reader!TypeOK
  /\ scene = "process" => Process!ConstantsFit /\ Process!TypeOK
  /\ scene = "query" => Query!TypeOK
  /\ scene = "unpack" => Unpack!ConstantsFit /\ Unpack!TypeOK
  /\ scene = "term" => Term!ConstantsFit /\ Term!TypeOK
  /\ scene = "build" => Build!TypeOK
  /\ scene = "infl" => Infl!TypeOK
  /\ scene = "crunch" => Cruncher!TypeOK
  /\ scene = "complete" => Completer!TypeOK
  /\ scene = "tables" => Tables!TypeOK
  /\ scene = "macron" => Macron!ConstantsFit /\ Macron!TypeOK
  /\ scene = "external" => External!ConstantsFit /\ External!TypeOK
  /\ scene = "gestures" => Gestures!ConstantsFit /\ Gestures!TypeOK
  /\ scene = "layout" => Layout!ConstantsFit /\ Layout!TypeOK
  /\ scene = "texts" => Library!TypeOK
  /\ scene = "packed" => Packed!TypeOK
  /\ scene = "lookup" => Lookup!TypeOK
  /\ scene = "token" => OneToken!TypeOK

\* An alternative more finds no token less, which or_terms refutes.
OrRelaxes == scene = "term" => Term!OrRelaxes
\* The engine reads from the files what the works say.
IndexFilesFit == scene = "build" => Build!IndexFilesFit
\* Tables are made of all templates, with the endings they should have, or not at all.
TablesComplete == Tables!TablesComplete
\* Texts are complete and in order, on one page each, and a match is marked at its words.
TextsFit == scene = "texts" => Library!TextsFit
\* A page of an old version that talks to the server is replaced, a disabled
\* checkbox can be used again, and a stop of the server comes to its end.
NothingStaysStuck ==
  /\ Shell!OldPagesCatchUp
  /\ Comms!DisabledEnds
  /\ Process!StopEnds
\* A query that the page accepts is understood by the server, a token of it
\* means there what the page says, and words of bits and lists compute the sets
\* that are meant, but for the exceptions that the modules name.
QueriesMeanWhatTheySay ==
  /\ scene = "query" => Query!QueriesUnderstood
  /\ scene = "packed" => Packed!WordsFit
  /\ scene = "token" => OneToken!TokensUnderstood
\* The Rust port merges a stem and an ending like TypeScript, and finds the
\* same analyses of a word in the saved tables.
PortAgrees ==
  /\ scene = "infl" => Infl!PortMergesAlike
  /\ scene = "infl" => Infl!RegularsAreStricter
  /\ scene = "crunch" => Cruncher!PortFindsTheSame
\* The analyses of a word are the forms of the lexicon that it may stand for,
\* consolidating them keeps every reading, the completer finds the lemmata with a
\* form that begins so, and a lookup finds each entry that a
\* name or an inflected form leads to, with the forms that lead there.
AnalysesFitLexicon ==
  /\ scene = "crunch" => Cruncher!AnalysesAreForms
  /\ scene = "crunch" => Cruncher!ConsolidationKeepsReadings
  /\ scene = "complete" => Completer!CompletionsAreTheForms
  /\ scene = "lookup" => Lookup!LookupsFit

=============================================================================
