----------------------------- MODULE DictLookup -----------------------------
(***************************************************************************)
(* A lookup in the dictionaries: the tables of a stored dictionary, on the *)
(* server (SQLite) and in the browser for offline use (IndexedDB), the     *)
(* entries that are found by their names, by those of their parts and by   *)
(* the lemmata of an inflected form, what is merged of them, and what the  *)
(* page shows (dict_storage.ts, sqlite_backing.ts, indexdb_backing.ts,     *)
(* latin_dict_fetching.ts, fused_dictionary.ts, dictionary_v2.tsx).        *)
(*                                                                         *)
(* A name is letters and the length that is marked on its vowel.  Case is  *)
(* left out.                                                               *)
(***************************************************************************)
EXTENDS Naturals, Sequences, FiniteSets, SequencesExt

CONSTANTS
  Lexica,        \* sequences of entries: id, n, keys, derived
  Queries,       \* names that are looked up
  AnalysisLists, \* sequences of analyses: lemma, n, lengths of its forms
  Beginnings       \* what completions are asked for

VARIABLES
  orths, entries, \* the tables
  request,        \* what was asked last
  answers,        \* of the server and of the browser
  suggested       \* completions of both

NoRequest == [kind |-> "none"]
Backings == {"sqlite", "indexdb"}

Init ==
  /\ orths = <<>> /\ entries = <<>> /\ request = NoRequest
  /\ answers = [backing \in Backings |-> <<>>] /\ suggested = [backing \in Backings |-> {}]

-----------------------------------------------------------------------------
\* The tables.

CleanKey(name) == SelectSeq(name.letters, LAMBDA c : c # "'")

OrthRow(id, orth, sense) == [id |-> id, orth |-> orth, cleanOrth |-> CleanKey(orth), senseId |-> sense]

\* The rows of an entry: its names, and those of its parts.
Rows(entry) ==
  [k \in DOMAIN entry.keys |-> OrthRow(entry.id, entry.keys[k], "main")]
  \o FlattenSeq([d \in DOMAIN entry.derived |->
       [k \in DOMAIN entry.derived[d].names |->
         OrthRow(entry.id, entry.derived[d].names[k], entry.derived[d].id)]])

MatchesForCleanName(clean) == SelectSeq(orths, LAMBDA row : row.cleanOrth = clean)

\* SQL answers in an order of its own, IndexedDB in that of the ids.
EntriesForIds(backing, ids) ==
  IF backing = "sqlite" THEN SelectSeq(entries, LAMBDA e : e.id \in ToSet(ids))
  ELSE FlattenSeq([k \in DOMAIN ids |-> SelectSeq(entries, LAMBDA e : e.id = ids[k])])

NamesOf(rows) == {row.orth : row \in ToSet(rows)}

\* The server keeps the names by their first letter; the browser has less memory.
Table == [letter \in {row.cleanOrth[1] : row \in ToSet(orths)} |->
           NamesOf(SelectSeq(orths, LAMBDA row : row.cleanOrth[1] = letter))]

PrefixCompletions(backing, prefix) ==
  IF backing = "sqlite" /\ Len(prefix) = 1 /\ prefix[1] \in DOMAIN Table THEN Table[prefix[1]]
  ELSE NamesOf(SelectSeq(orths, LAMBDA row : IsPrefix(prefix, row.cleanOrth)))

\* A hyphen asks for names with that ending, but not if there is nothing else.
Completions(backing, input) ==
  IF input[1] = "-" /\ Len(input) > 1
  THEN NamesOf(SelectSeq(orths, LAMBDA row : IsSuffix(Tail(input), row.cleanOrth)))
  ELSE PrefixCompletions(backing, input)

-----------------------------------------------------------------------------
\* Entries of a name.

\* haveCompatibleLength, which also wants as many letters.
Compatible(x, y) ==
  Len(x.letters) = Len(y.letters) /\ {x.length, y.length} # {"Long", "Short"}

Distinct(ids) == FoldLeft(LAMBDA s, x : IF x \in ToSet(s) THEN s ELSE Append(s, x), <<>>, ids)

\* A place of an entry: the entry itself, "main", or a part of it.  A list is
\* a reference to a list of inflections, which the code shares and extends in
\* place; NoList is undefined.
NoList == <<0, "none", "none">>
NoName == [letters |-> <<>>, length |-> "Any"]
Place(id, part, name, named, list) ==
  [id |-> id, part |-> part, name |-> name, named |-> named, list |-> list]

\* What the rows of one entry stand for; the entry may be found by parts only.
Places(id, rows) ==
  LET parts == SelectSeq(rows, LAMBDA row : row.senseId # "main")
  IN <<Place(id, "main", NoName, Len(parts) # Len(rows), NoList)>>
     \o [p \in DOMAIN parts |-> Place(id, parts[p].senseId, parts[p].orth, TRUE, NoList)]

PlacesOf(found, candidates) ==
  [k \in DOMAIN found |->
    [n |-> found[k].n,
     places |-> Places(found[k].id, SelectSeq(candidates, LAMBDA row : row.id = found[k].id))]]

FoundIn(backing, candidates) ==
  PlacesOf(EntriesForIds(backing, Distinct([k \in DOMAIN candidates |-> candidates[k].id])),
           candidates)

GetRawEntry(backing, input, lang) ==
  FoundIn(backing, SelectSeq(MatchesForCleanName(input.letters),
                             LAMBDA row : lang = "La" => Compatible(input, row.orth)))

\* Lewis and Short numbers homographs like Morceus does, Gaffiot does not.
Disambiguates(dict, result, analysis) ==
  analysis.n = "none" \/ dict # "L&S" \/ result.n = analysis.n

FormsOf(analysis, input) ==
  [k \in DOMAIN analysis.lengths |-> [letters |-> input.letters, length |-> analysis.lengths[k]]]
Fits(analysis, input) == \E length \in ToSet(analysis.lengths) : {length, input.length} # {"Long", "Short"}

\* What an analysis leads to. One list of all its forms, fitting or not, is
\* shared by the places of an entry.
Results(dict, backing, input, analysis, k) ==
  LET raw == IF Fits(analysis, input)
             THEN GetRawEntry(backing, [letters |-> analysis.lemma, length |-> "Any"], "La")
             ELSE <<>>
      With(place) == Place(place.id, place.part, place.name, place.named,
                           IF place.named THEN <<k, place.id, "list">> ELSE NoList)
      Listed(result) == [p \in DOMAIN result.places |-> With(result.places[p])]
      led == SelectSeq(raw, LAMBDA r : Disambiguates(dict, r, analysis))
  IN [j \in DOMAIN led |-> Listed(led[j])]

-----------------------------------------------------------------------------
\* Merging the results by their ids; s is the lists and the places so far.

\* Mutant: the forms of a second analysis are left out.
MergeFirstPlace(s, place) ==
  LET at == SelectInSeq(s.places, LAMBDA p : p.id = place.id /\ p.part = place.part)
      to == <<0, place.id, place.part>>
  IN IF at = 0 THEN [lists |-> s.lists, places |-> Append(s.places, place)]
     ELSE IF place.list = NoList \/ s.places[at].list # NoList THEN s
     ELSE [lists |-> [s.lists EXCEPT ![to] = s.lists[place.list]],
           places |-> [s.places EXCEPT ![at] =
                        Place(place.id, place.part, s.places[at].name, TRUE, to)]]

\* A place that is there already gets the forms: a list of its own if it had
\* none, and otherwise the list that it has, whoever shares it.
MergePlace(s, place) ==
  LET at == SelectInSeq(s.places, LAMBDA p : p.id = place.id /\ p.part = place.part)
      to == IF s.places[at].list = NoList THEN <<0, place.id, place.part>> ELSE s.places[at].list
  IN IF at = 0 THEN [lists |-> s.lists, places |-> Append(s.places, place)]
     ELSE IF place.list = NoList THEN s
     ELSE [lists |-> [s.lists EXCEPT ![to] = @ \o s.lists[place.list]],
           places |-> [s.places EXCEPT ![at] =
                        Place(place.id, place.part, s.places[at].name, TRUE, to)]]

Merge(s, result) ==
  IF \E p \in ToSet(s.places) : p.id = result[1].id THEN FoldLeft(MergePlace, s, result)
  ELSE [lists |-> s.lists, places |-> s.places \o result]

\* An entry with the forms of its places; the page does not get the names of
\* places without inflections in mode 0.
Entry(id, places, lists) ==
  LET mine == SelectSeq(places, LAMBDA p : p.id = id)
      FormsAt(p) == IF mine[p].list = NoList THEN {} ELSE ToSet(lists[mine[p].list])
  IN [id |-> id, inflections |-> FormsAt(1),
      subsections |-> [p \in 1 .. Len(mine) - 1 |->
        [id |-> mine[p + 1].part, name |-> mine[p + 1].name, inflections |-> FormsAt(p + 1)]]]

EntriesIn(end) ==
  LET ids == Distinct([p \in DOMAIN end.places |-> end.places[p].id])
  IN [k \in DOMAIN ids |-> Entry(ids[k], end.places, end.lists)]

\* findEntriesForQuery: analyses of the very word, then exact matches, then
\* the lemmata of inflected forms.
FindEntriesForQuery(dict, backing, input, analyses) ==
  LET Found(exact) == FlattenSeq([k \in DOMAIN analyses |->
                        IF (analyses[k].lemma = input.letters) = exact
                        THEN Results(dict, backing, input, analyses[k], k) ELSE <<>>])
      raw == GetRawEntry(backing, input, "La")
      lists == [r \in (0 .. Len(analyses)) \X {row.id : row \in ToSet(orths)}
                        \X ({"list"} \cup {row.senseId : row \in ToSet(orths)}) |->
                 IF r[1] = 0 THEN <<>> ELSE FormsOf(analyses[r[1]], input)]
  IN EntriesIn(FoldLeft(Merge, [lists |-> lists, places |-> <<>>],
                        Found(TRUE) \o [k \in DOMAIN raw |-> raw[k].places] \o Found(FALSE)))

Bare(ids) == [k \in DOMAIN ids |-> [id |-> ids[k], inflections |-> {}, subsections |-> <<>>]]
IdsOf(found) == [k \in DOMAIN found |-> found[k].id]

\* One dictionary: only the Latin ones know of inflections, and of lengths.
GetEntry(dict, backing, ask) ==
  CASE ask.mode = "id" -> Bare(IdsOf(EntriesForIds(backing, <<ask.id>>)))
    [] ask.mode = "inflected" /\ dict # "S&H" ->
         FindEntriesForQuery(dict, backing, ask.query, ask.analyses)
    [] OTHER ->
         LET raw == GetRawEntry(backing, ask.query, IF dict = "S&H" THEN "En" ELSE "La")
         IN Bare([k \in DOMAIN raw |-> raw[k].places[1].id])

\* FusedDictionary: quotes are removed from the query, and what fails or is
\* not known is left out.
Unquoted(query) == [query EXCEPT !.letters = CleanKey(query)]

GetEntries(backing, ask) ==
  [dict \in ask.dicts \ (ask.failing \cup {"?"}) |->
    GetEntry(dict, backing, IF ask.mode = "id" THEN ask ELSE [ask EXCEPT !.query = Unquoted(@)])]

-----------------------------------------------------------------------------
\* The steps: a dictionary is saved, and asked on the server and in the browser.

Save(lexicon) ==
  /\ entries = <<>> /\ request = NoRequest
  /\ entries' = [k \in DOMAIN lexicon |-> [id |-> lexicon[k].id, n |-> lexicon[k].n]]
  /\ orths' = FlattenSeq([k \in DOMAIN lexicon |-> Rows(lexicon[k])])
  /\ UNCHANGED <<request, answers, suggested>>

Ask(ask) ==
  /\ entries # <<>> /\ request = NoRequest /\ request' = ask
  /\ answers' = [backing \in Backings |-> GetEntries(backing, ask)]
  /\ UNCHANGED <<orths, entries, suggested>>

Suggest(prefix) ==
  /\ entries # <<>> /\ request = NoRequest /\ request' = [kind |-> "prefix", prefix |-> prefix]
  /\ suggested' = [backing \in Backings |-> Completions(backing, prefix)]
  /\ UNCHANGED <<orths, entries, answers>>

Requests(mode, dicts, failing, id) ==
  {[kind |-> "entries", mode |-> mode, query |-> query, analyses |-> analyses, dicts |-> dicts,
    failing |-> failing, id |-> id] :
     query \in Queries, analyses \in IF mode = "inflected" THEN AnalysisLists ELSE {<<>>}}

Next ==
  \/ \E lexicon \in Lexica : Save(lexicon)
  \/ \E ask \in UNION {Requests("exact", {"L&S", "S&H", "?"}, {}, "none"),
                       Requests("inflected", {"L&S", "GAF", "S&H"}, {}, "none"),
                       Requests("inflected", {"GAF", "S&H"}, {"S&H"}, "none")} : Ask(ask)
  \/ \E entry \in ToSet(entries) : \E ask \in Requests("id", {"L&S"}, {}, entry.id) : Ask(ask)
  \/ \E prefix \in Beginnings : Suggest(prefix)

Spec == Init /\ [][Next]_<<orths, entries, request, answers, suggested>>

-----------------------------------------------------------------------------
\* What the page makes of an answer.

\* dedupeSubsectons: parts of one name are one line, with the forms of the first.
DedupeSubsections(subsections) ==
  LET names == Distinct([p \in DOMAIN subsections |-> subsections[p].name])
      Of(name) == SelectSeq(subsections, LAMBDA p : p.name = name)
  IN [k \in DOMAIN names |->
       [name |-> names[k], ids |-> [p \in DOMAIN Of(names[k]) |-> Of(names[k])[p].id],
        inflections |-> Of(names[k])[1].inflections]]

Total(answer) == FoldLeft(LAMBDA n, dict : n + Len(answer[dict]), 0, SetToSeq(DOMAIN answer))

\* The state of the page, and the buttons to entries in its summary.
DictState(answer) == IF Total(answer) = 0 THEN "No Results" ELSE "Results"
Summary(ask, answer) ==
  IF ask.mode = "id" \/ Total(answer) <= 1 THEN {}
  ELSE UNION {{<<dict, k>> : k \in DOMAIN answer[dict]} : dict \in DOMAIN answer}

-----------------------------------------------------------------------------
TypeOK ==
  /\ request.kind \in {"none", "entries", "prefix"}
  /\ \A row \in ToSet(orths) : row.id \in {e.id : e \in ToSet(entries)} /\ row.cleanOrth # <<>>

\* A lookup matches a name of a place of an entry. A Latin name with a quote
\* in it has a letter more than the query, and no query finds it.
Named(input, id, part, latin) ==
  \E row \in ToSet(orths) :
    /\ row.id = id /\ row.senseId = part /\ row.cleanOrth = input.letters
    /\ latin => Compatible(input, row.orth)

\* An analysis leads to a place if one of its forms fits the input, and its
\* lemma names the place.
Leads(dict, analysis, input, entry, part) ==
  /\ Fits(analysis, input) /\ Disambiguates(dict, entry, analysis)
  /\ Named([letters |-> analysis.lemma, length |-> "Any"], entry.id, part, TRUE)

AllParts == {row.senseId : row \in ToSet(orths)}

\* The forms that are answered for a place.
FormsAt(result, part) ==
  IF part = "main" THEN result.inflections
  ELSE UNION {p.inflections : p \in {p \in ToSet(result.subsections) : p.id = part}}

FormsFor(analyses, input) == UNION {ToSet(FormsOf(a, input)) : a \in analyses}

\* The places whose lists of forms may be one: one analysis leads to two of
\* them, or they are so connected through others.
SharingWith(part, lead) ==
  {other \in DOMAIN lead :
    \A S \in SUBSET DOMAIN lead :
      /\ part \in S
      /\ \A x \in S, y \in DOMAIN lead : lead[x] \cap lead[y] # {} => y \in S
      => other \in S}

\* An answered entry has the parts that are led to, and at each place the
\* forms that lead there. A form that leads elsewhere in the entry is only
\* shown at places whose lists may be one.
ResultFits(result, named, lead, input) ==
  /\ {p.id : p \in ToSet(result.subsections)}
        = {part \in DOMAIN lead \ {"main"} : part \in named \/ lead[part] # {}}
  /\ \A part \in DOMAIN lead :
       /\ FormsFor(lead[part], input) \subseteq FormsAt(result, part)
       /\ FormsAt(result, part) \subseteq
            FormsFor(UNION {lead[other] : other \in SharingWith(part, lead)}, input)

\* Each entry that a name or an analysis leads to is answered once.
EntryFits(results, entry, inflected, named, lead, input) ==
  LET mine == SelectSeq(results, LAMBDA r : r.id = entry.id)
  IN IF named = {} /\ \A part \in DOMAIN lead : lead[part] = {} THEN mine = <<>>
     ELSE Len(mine) = 1 /\ (inflected => ResultFits(mine[1], named, lead, input))

AnswerFits(dict, ask, inflected, input, results) ==
  \A entry \in ToSet(entries) :
    EntryFits(results, entry, inflected,
              {part \in AllParts : Named(input, entry.id, part, dict # "S&H")},
              [part \in AllParts |->
                {a \in ToSet(ask.analyses) : inflected /\ Leads(dict, a, input, entry, part)}],
              input)

\* The browser answers like the server, perhaps in another order.
Same(x, y) == ToSet(x) = ToSet(y) /\ Len(x) = Len(y)

\* The page links to each part, and shows its forms unless an earlier part
\* has the same name; the summary has a button for each entry.
PageFits(ask, answer) ==
  /\ DictState(answer) = "Results" <=> \E dict \in DOMAIN answer : answer[dict] # <<>>
  /\ ask.mode # "id" /\ Total(answer) > 1 => Cardinality(Summary(ask, answer)) = Total(answer)
  /\ \A dict \in DOMAIN answer : \A result \in ToSet(answer[dict]) :
       LET lines == ToSet(DedupeSubsections(result.subsections))
       IN /\ {p.id : p \in ToSet(result.subsections)} = UNION {ToSet(line.ids) : line \in lines}
          /\ \A p \in ToSet(result.subsections) : \E line \in lines :
               /\ p.id \in ToSet(line.ids) /\ p.name = line.name
               /\ line.ids[1] = p.id => p.inflections \subseteq line.inflections

AnswersFit(ask, server, browser) ==
  /\ DOMAIN browser = ask.dicts \ (ask.failing \cup {"?"})
  /\ \A dict \in DOMAIN server :
       /\ IF ask.mode = "id" THEN IdsOf(server[dict]) = <<ask.id>>
          ELSE AnswerFits(dict, ask, ask.mode = "inflected" /\ dict # "S&H", Unquoted(ask.query),
                          server[dict])
       /\ Same(server[dict], browser[dict])
  /\ PageFits(ask, server)

LookupsFit ==
  CASE request.kind = "entries" -> AnswersFit(request, answers["sqlite"], answers["indexdb"])
    [] request.kind = "prefix" -> suggested["sqlite"] = suggested["indexdb"]
    [] OTHER -> TRUE
=============================================================================
