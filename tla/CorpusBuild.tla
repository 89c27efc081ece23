---------------------------- MODULE CorpusBuild ----------------------------
(***************************************************************************)
(* The index of the corpus: written once by a batch build in TypeScript     *)
(* (src/src/common/library/corpus: corpus_library_utils.ts,                *)
(* build_corpus.ts, corpus_serialization.ts), read by the engine in Rust    *)
(* (corpus_data_readers.rs, corpus_index.rs, corpus_result_resolution.rs). *)
(*                                                                         *)
(* A work is a sequence of rows, a row a sequence of words and of the text  *)
(* between them.  The text is counted in pieces, a word or what stands     *)
(* between, where the code counts bytes.  The buffers file is a sequence   *)
(* of 32-bit cells; a bitmask is read in 64-bit words, two cells each.     *)
(* The seven inflection indices are alike: "case" stands for them.         *)
(***************************************************************************)
EXTENDS Integers, Sequences, FiniteSets, SequencesExt

CONSTANTS
  Libraries,    \* sets of works: [author, name, rows: Seq([id, text])]
  Words,        \* the pieces that are words
  FullStops,    \* the pieces between words that hold a full stop
  AnalysesOf,   \* [Words -> Seq([lemma, case: a set of codes])]
  Before(_, _), \* the order of author codes and names
  CellBits,     \* the bits of a cell, 32 in the code
  MaxSpan, ContextLens

VARIABLES
  input,        \* the works, in the order in which they are absorbed
  corpus,       \* the corpus in progress
  files,        \* what is written
  phase,        \* "start", "absorbing", "saved", "failed"
  match         \* a match and what is shown of it

vars == <<input, corpus, files, phase, match>>

NoMatch == [leaders |-> <<>>]
Kinds == {"word", "lemma", "breaks", "case"}

Empty ==
  [tokens |-> <<>>, breaks |-> <<>>, works |-> <<>>, authors |-> <<>>,
   ids |-> [k \in Kinds \ {"case"} |-> <<>>], indices |-> [k \in Kinds |-> <<>>],
   raw |-> <<0, 0>>, spots |-> <<>>, known |-> <<>>]

-----------------------------------------------------------------------------
\* Absorbing a work.

SortedWorks(library) ==
  SetToSortSeq(library, LAMBDA v, w :
    Before(v.author, w.author) \/ (v.author = w.author /\ Before(v.name, w.name)))

NumTokens(c) == Len(c.tokens)

\* The ID of a key, and the table with it.
Id(keys, key) == IF Contains(keys, key) THEN CHOOSE i \in 1 .. Len(keys) : keys[i] = key
                 ELSE Len(keys) + 1

\* Token t gets its number in the list of a key.
Add(c, kind, key, t) ==
  LET keys == IF kind = "case" THEN <<>>
              ELSE IF Contains(c.ids[kind], key) THEN c.ids[kind]
              ELSE Append(c.ids[kind], key)
      i == IF kind = "case" THEN key ELSE Id(c.ids[kind], key)
      old == c.indices[kind]
      padded == old \o [j \in 1 .. Max({0, i - Len(old)}) |-> <<>>]
      added == [c EXCEPT !.indices[kind] = [padded EXCEPT ![i] = Append(@, t)]]
  IN IF kind = "case" THEN added ELSE [added EXCEPT !.ids[kind] = keys]

\* The dimensions of a word, and token t in the lookups of each.
AddToLookups(c, word, t) ==
  LET lemmata == {n.lemma : n \in ToSet(AnalysesOf[word])}
      cases == UNION {n.case : n \in ToSet(AnalysesOf[word])}
      withLemmata == FoldSet(LAMBDA l, d : Add(d, "lemma", l, t), c, lemmata)
  IN FoldSet(LAMBDA k, d : Add(d, "case", k, t), withLemmata, cases)

\* Two numbers for each analysis.
Packed(c, word) ==
  FlattenSeq([i \in 1 .. Len(AnalysesOf[word]) |->
    <<SumSet({2 ^ (k - 1) : k \in AnalysesOf[word][i].case}),
      Id(c.ids["lemma"], AnalysesOf[word][i].lemma) - 1>>])

\* Where the analyses of a word are: its own spot, or the one of no analysis.
StoreAnalyses(c, word, packed) ==
  IF word \in DOMAIN c.known THEN [c EXCEPT !.spots = Append(@, c.known[word])]
  ELSE IF packed = <<>> THEN [c EXCEPT !.spots = Append(@, <<0, 2>>)]
  ELSE LET spot == <<Len(c.raw), Len(packed)>>
       IN [c EXCEPT !.spots = Append(@, spot), !.raw = @ \o packed,
                    !.known = @ @@ (word :> spot)]

StorePacked(c, word) == StoreAnalyses(c, word, Packed(c, word))

\* Mutant: a word that was seen before is not added to the lookups.
IngestOnce(c, word, t) ==
  StorePacked(IF word \in DOMAIN c.known THEN c ELSE AddToLookups(c, word, t), word)

Ingest(c, word, t) == StorePacked(AddToLookups(c, word, t), word)

\* Text after the last token; before the first one it is lost.
AppendBreak(c, piece) ==
  IF c.tokens = <<>> THEN c
  ELSE [c EXCEPT !.breaks[NumTokens(c)] = Append(@, piece)]

AbsorbPiece(c, piece) ==
  IF piece \in Words
  THEN LET t == NumTokens(c)
           d == Ingest(Add(c, "word", piece, t), piece, t)
       IN [d EXCEPT !.tokens = Append(@, piece), !.breaks = Append(@, <<>>)]
  ELSE LET d == AppendBreak(c, piece)
       IN IF piece \in FullStops /\ c.tokens # <<>>
          THEN Add(d, "breaks", "hard", NumTokens(c) - 1) ELSE d

\* Sections that are not leaves of one parent are divided by a hard break.
Siblings(id, other) == Len(id) = Len(other) /\ Front(id) = Front(other)

AddRow(c, id, start) ==
  [c EXCEPT !.works[Len(c.works)].rows =
     Append(@, [id |-> id, start |-> start, end |-> NumTokens(c)])]

AbsorbRow(c, work, r) ==
  LET new == r # 1 /\ c.tokens # <<>>
      hard == new /\ ~ Siblings(work.rows[r].id, work.rows[r - 1].id)
      marked == IF hard THEN Add(c, "breaks", "hard", NumTokens(c) - 1) ELSE c
      parted == IF new THEN AppendBreak(marked, "newline") ELSE marked
  IN AddRow(FoldLeft(AbsorbPiece, parted, work.rows[r].text), work.rows[r].id, NumTokens(c))

EndWork(c) == Add(c, "breaks", "hard", NumTokens(c) - 1)

AbsorbWork(c, work) ==
  LET begun == [c EXCEPT !.works = Append(@, [name |-> work.name, rows |-> <<>>])]
  IN EndWork(FoldLeftDomain(LAMBDA d, r : AbsorbRow(d, work, r), begun, work.rows))

\* The works of an author are a range of works: [author |-> <<first, last>>].
AuthorRange(c, author) ==
  LET i == Len(c.works)
  IN IF author \in DOMAIN c.authors THEN <<c.authors[author][1], i>> ELSE <<i, i>>

AuthorIsContiguous(c, author) ==
  author \in DOMAIN c.authors => c.authors[author][2] = Len(c.works) - 1

-----------------------------------------------------------------------------
\* The files.

RoundUp(n, unit) == ((n + unit - 1) \div unit) * unit

\* A cell for each CellBits tokens, and an even number of cells.
MaskCells(n) == RoundUp((n + CellBits - 1) \div CellBits, 2)

ToBitMask(list, n) ==
  [i \in 1 .. MaskCells(n) |->
    SumSet({2 ^ (t % CellBits) : t \in {u \in ToSet(list) : u \div CellBits = i - 1}})]

\* One more index at the end of the file; a bitmask begins at an even cell.
PrepareSingleIndex(file, list, useBitMask, n) ==
  LET at == IF useBitMask THEN RoundUp(Len(file.cells), 2) ELSE Len(file.cells)
      padding == [i \in 1 .. at - Len(file.cells) |-> 0]
  IN IF useBitMask
     THEN [cells |-> file.cells \o padding \o ToBitMask(list, n),
           stored |-> Append(file.stored, [offset |-> at, numSet |-> Len(list)])]
     ELSE [cells |-> file.cells \o list,
           stored |-> Append(file.stored, [offset |-> at, len |-> Len(list)])]

ShouldForceBitmask(c, kind, i) == kind = "breaks" /\ c.ids[kind][i] = "hard"

PrepareIndices(c, kind, cells) ==
  FoldLeftDomain(
    LAMBDA file, i : PrepareSingleIndex(file, c.indices[kind][i],
        \/ ShouldForceBitmask(c, kind, i)
        \/ Len(c.indices[kind][i]) * CellBits > NumTokens(c), NumTokens(c)),
    [cells |-> cells, stored |-> <<>>], c.indices[kind])

PrepareAllIndices(c) ==
  LET word == PrepareIndices(c, "word", <<NumTokens(c)>>)
      breaks == PrepareIndices(c, "breaks", word.cells)
      lemma == PrepareIndices(c, "lemma", breaks.cells)
      case == PrepareIndices(c, "case", lemma.cells)
  IN [cells |-> case.cells,
      stored |-> [k \in Kinds |->
        CASE k = "word" -> word.stored [] k = "breaks" -> breaks.stored
          [] k = "lemma" -> lemma.stored [] k = "case" -> case.stored]]

\* toBitMask throws for a token that the corpus does not have.
SaveFails(c) ==
  \E i \in 1 .. Len(c.indices["breaks"]) :
    ToSet(c.indices["breaks"][i]) \ (0 .. NumTokens(c) - 1) # {}

SaveTokenDb(c) ==
  LET piece(i) == <<c.tokens[i]>> \o c.breaks[i]
      before(i) == Len(FlattenSeq([j \in 1 .. i - 1 |-> piece(j)]))
  IN [text |-> FlattenSeq([i \in 1 .. NumTokens(c) |-> piece(i)]),
      tokenStarts |-> [i \in 1 .. NumTokens(c) |-> before(i)],
      breakStarts |-> [i \in 1 .. NumTokens(c) |-> before(i) + 1]]

-----------------------------------------------------------------------------
\* Reading them.

MaskAt(offset, n, token) ==
  (files.cells[offset + token \div CellBits + 1] \div 2 ^ (token % CellBits)) % 2 = 1

\* The tokens of an index; a bitmask is read as words of two cells.
ResolveIndex(stored) ==
  IF "len" \in DOMAIN stored
  THEN ToSet(SubSeq(files.cells, stored.offset + 1, stored.offset + stored.len))
  ELSE {t \in 0 .. RoundUp(files.cells[1], 2 * CellBits) - 1 :
          MaskAt(stored.offset, files.cells[1], t)}

IsAligned(stored) == "len" \in DOMAIN stored \/ stored.offset % 2 = 0

IndexFor(kind, key) ==
  LET i == IF kind = "case" THEN key ELSE Id(corpus.ids[kind], key)
  IN IF i > Len(files.stored[kind]) THEN {} ELSE ResolveIndex(files.stored[kind][i])

\* The analyses of a token, as pairs of a mask and a lemma.
GetInflectionData(t) ==
  LET spot == corpus.spots[t + 1]
      raw == SubSeq(corpus.raw, spot[1] + 1, spot[1] + spot[2])
  IN {<<raw[2 * i - 1], raw[2 * i]>> : i \in 1 .. spot[2] \div 2}

WorkStart(w) == corpus.works[w].rows[1].start
WorkEnd(w) == Last(corpus.works[w].rows).end

WorkAt(t) == CHOOSE w \in 1 .. Len(corpus.works) : t \in WorkStart(w) .. WorkEnd(w) - 1

\* The parts of a span in each row that it covers: [row, from, length].
RowChunks(rows, span) ==
  LET first == CHOOSE r \in 1 .. Len(rows) : span[1] \in rows[r].start .. rows[r].end - 1
      Take(acc, r) ==
        LET length == Min({rows[r].end - acc.start, acc.left})
        IN IF acc.left = 0 THEN acc
           ELSE [start |-> rows[r].end, left |-> acc.left - length,
                 chunks |-> Append(acc.chunks, [row |-> r, length |-> length,
                                                from |-> acc.start - rows[r].start])]
  IN FoldLeft(Take, [start |-> span[1], left |-> span[2], chunks |-> <<>>],
              [i \in 1 .. Len(rows) - first + 1 |-> first + i - 1]).chunks

ResolveMatchToken(spans) ==
  LET rows == corpus.works[WorkAt(spans[1][1])].rows
  IN FlattenSeq([i \in 1 .. Len(spans) |-> RowChunks(rows, spans[i])])

\* Tokens at which the text of a match is cut, and whether a span begins there.
ComputeOffsets(spans, contextLen) ==
  LET Cut(acc, s) ==
        IF s[1] = 0 THEN <<<<0, TRUE>>, <<s[2] - 1, FALSE>>>>
        ELSE acc \o <<<<s[1], TRUE>>, <<s[1] + s[2] - 1, FALSE>>>>
      left == Max({0, spans[1][1] - contextLen})
      right == Last(spans)[1] + Last(spans)[2] + contextLen - 1
  IN Append(FoldLeft(Cut, <<<<left, FALSE>>>>, spans),
            <<Min({NumTokens(corpus) - 1, right}), FALSE>>)

\* The same as places in the text: a span begins with a token, and what ends
\* with a token ends before its break.
TextOffsets(cuts) ==
  [i \in 1 .. Len(cuts) |->
    IF i = 1 \/ cuts[i][2] THEN files.tokenStarts[cuts[i][1] + 1]
    ELSE files.breakStarts[cuts[i][1] + 1]]

\* The chunks of text, cut off at the ends of the work: [core, from, to].
ResolveTextRanges(spans, contextLen) ==
  LET cuts == ComputeOffsets(spans, contextLen)
      at == TextOffsets(cuts)
      work == WorkAt(spans[1][1])
      start == files.tokenStarts[WorkStart(work) + 1]
      end == files.breakStarts[WorkEnd(work)]
      kept == {k \in 1 .. Len(at) - 1 :
                 at[k + 1] > start /\ (at[k] < end \/ at[k + 1] <= end)}
      Chunk(k) == [core |-> cuts[k][2], from |-> Max({at[k], start}),
                   to |-> Min({at[k + 1], end})]
  IN [i \in 1 .. Cardinality(kept) |-> Chunk(Min(kept) + i - 1)]

-----------------------------------------------------------------------------

Init ==
  /\ input = <<>>
  /\ corpus = Empty
  /\ files = <<>>
  /\ phase = "start"
  /\ match = NoMatch

LatinWorksFromLibrary ==
  /\ phase = "start"
  /\ \E library \in Libraries : input' = SortedWorks(library)
  /\ phase' = "absorbing"
  /\ UNCHANGED <<corpus, files, match>>

Absorb ==
  LET i == Len(corpus.works) + 1
      author == input[i].author
  IN /\ phase = "absorbing" /\ i <= Len(input)
     /\ \E done \in {AbsorbWork(corpus, input[i])} :
          IF AuthorIsContiguous(done, author)
          THEN /\ corpus' = [done EXCEPT !.authors =
                               (author :> AuthorRange(done, author)) @@ @]
               /\ UNCHANGED phase
          ELSE phase' = "failed" /\ UNCHANGED corpus
     /\ UNCHANGED <<input, files, match>>

Save ==
  /\ phase = "absorbing" /\ Len(corpus.works) = Len(input)
  /\ IF SaveFails(corpus) THEN phase' = "failed" /\ UNCHANGED files
     ELSE phase' = "saved" /\ files' = PrepareAllIndices(corpus) @@ SaveTokenDb(corpus)
  /\ UNCHANGED <<input, corpus, match>>

\* Spans that the engine may find: no hard break inside, in order, in one work.
IsSpan(s) ==
  /\ s[1] + s[2] <= NumTokens(corpus)
  /\ IndexFor("breaks", "hard") \cap (s[1] .. s[1] + s[2] - 2) = {}

Spans == {s \in (0 .. NumTokens(corpus) - 1) \X (1 .. MaxSpan) : IsSpan(s)}

Matches ==
  {<<s>> : s \in Spans} \cup
  {<<p[1], p[2]>> : p \in {q \in Spans \X Spans :
     q[1][1] + q[1][2] <= q[2][1] /\ WorkAt(q[1][1]) = WorkAt(q[2][1])}}

ResolveMatch ==
  /\ phase = "saved" /\ match = NoMatch
  /\ \E spans \in Matches, contextLen \in ContextLens :
       match' = [leaders |-> spans, context |-> contextLen,
                 rows |-> ResolveMatchToken(spans),
                 text |-> ResolveTextRanges(spans, contextLen)]
  /\ UNCHANGED <<input, corpus, files, phase>>

Next == LatinWorksFromLibrary \/ Absorb \/ Save \/ ResolveMatch

Spec == Init /\ [][Next]_vars

-----------------------------------------------------------------------------
\* What the works say, without an index.

Pieces(w) ==
  FlattenSeq([r \in 1 .. Len(input[w].rows) |->
    [i \in 1 .. Len(input[w].rows[r].text) |->
      [work |-> w, row |-> r, piece |-> input[w].rows[r].text[i]]]])

AllPieces == FlattenSeq([w \in 1 .. Len(input) |-> Pieces(w)])

\* The places of the words among the pieces; token t is the one at t + 1.
WordPlaces ==
  SetToSortSeq({i \in 1 .. Len(AllPieces) : AllPieces[i].piece \in Words}, <)

HasKey(word, kind, key) ==
  CASE kind = "word" -> word = key
    [] kind = "lemma" -> \E n \in ToSet(AnalysesOf[word]) : n.lemma = key
    [] kind = "case" -> \E n \in ToSet(AnalysesOf[word]) : key \in n.case

\* Between a word and the next one a sentence, a section or a work ends.
IsDivided(i, j) ==
  LET rows == input[AllPieces[i].work].rows
  IN \/ AllPieces[i].work # AllPieces[j].work
     \/ \E k \in i .. j : AllPieces[k].piece \in FullStops
     \/ \E r \in AllPieces[i].row + 1 .. AllPieces[j].row :
          ~ Siblings(rows[r].id, rows[r - 1].id)

IndicesAreRight ==
  LET places == WordPlaces
      all == 0 .. Len(places) - 1
      word(t) == AllPieces[places[t + 1]].piece
  IN /\ \A kind \in Kinds : \A i \in 1 .. Len(files.stored[kind]) :
          IsAligned(files.stored[kind][i])
     /\ \A kind \in {"word", "lemma"} : \A key \in ToSet(corpus.ids[kind]) :
          IndexFor(kind, key) = {t \in all : HasKey(word(t), kind, key)}
     /\ \A key \in UNION {n.case : n \in UNION {ToSet(AnalysesOf[w]) : w \in Words}} :
          IndexFor("case", key) = {t \in all : HasKey(word(t), "case", key)}
     /\ IndexFor("breaks", "hard") =
          {t \in all : t = Len(places) - 1 \/ IsDivided(places[t + 1], places[t + 2])}
     /\ \A t \in all :
          GetInflectionData(t) =
            IF AnalysesOf[word(t)] = <<>> THEN {<<0, 0>>}
            ELSE {<<SumSet({2 ^ (k - 1) : k \in n.case}), Id(corpus.ids["lemma"], n.lemma) - 1>> :
                    n \in ToSet(AnalysesOf[word(t)])}

AuthorsAreRight ==
  \A a \in DOMAIN corpus.authors :
    {i \in 1 .. Len(input) : input[i].author = a}
      = corpus.authors[a][1] .. corpus.authors[a][2]

\* The rows cover the span; the text is one stretch of the work, with every
\* span marked and nothing else.
MatchIsRight ==
  LET spans == match.leaders
      text == match.text
      work == WorkAt(spans[1][1])
  IN /\ FoldLeft(LAMBDA n, c : n + c.length, 0, match.rows)
          = FoldLeft(LAMBDA n, s : n + s[2], 0, spans)
     /\ \A i \in 1 .. Len(text) - 1 : text[i].to = text[i + 1].from
     /\ text[1].from >= files.tokenStarts[WorkStart(work) + 1]
     /\ Last(text).to <= files.breakStarts[WorkEnd(work)]
     /\ {<<c.from, c.to>> : c \in {d \in ToSet(text) : d.core}}
          = {<<files.tokenStarts[s[1] + 1], files.breakStarts[s[1] + s[2]]>> : s \in ToSet(spans)}

TypeOK ==
  /\ phase \in {"start", "absorbing", "saved", "failed"}
  /\ Len(corpus.tokens) = Len(corpus.breaks) /\ Len(corpus.tokens) = Len(corpus.spots)
  /\ Len(corpus.works) <= Len(input)
  /\ files # <<>> <=> phase = "saved"

\* The engine reads from the files what the works say: every index, analysis
\* and author's range, and the rows and the text of every match; and the build
\* fails only if nothing precedes the end of a work without words.
IndexFilesFit ==
  /\ phase = "saved" /\ match = NoMatch => IndicesAreRight /\ AuthorsAreRight
  /\ match # NoMatch => MatchIsRight
  /\ phase = "failed" => \A i \in 1 .. Len(input[1].rows) :
                           ToSet(input[1].rows[i].text) \cap Words = {}

=============================================================================
