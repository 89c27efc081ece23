---------------------------- MODULE LibraryText ----------------------------
(***************************************************************************)
(* The texts of the library, from the tree of a TEI file to what the       *)
(* reader shows: patches, sections, rows, pages, notes and the outline     *)
(* (process_work.ts), the index of the library (process_library.ts), the   *)
(* same rows as input of the corpus (corpus_library_utils.ts), and a page  *)
(* with the words of a match marked (reader.tsx).                          *)
(*                                                                         *)
(* A node has a name, attributes ("" when absent) and children; a string   *)
(* is a node named "text" with its words. Quotes, brackets and spaces are  *)
(* left out, as are the attributes that only choose a style.               *)
(***************************************************************************)
EXTENDS Integers, Sequences, FiniteSets, SequencesExt, Functions

CONSTANTS Libraries   \* sets of texts: sequences of works as they are in their files

VARIABLES
  queue,      \* the works that are not processed yet
  processed,  \* the works that are written, in their order
  phase,      \* "start", "processing", "indexed", "failed"
  view        \* the page that is shown, with a match of the corpus

vars == <<queue, processed, phase, view>>

NoView == [rows |-> <<>>, match |-> <<>>]

Init == queue = <<>> /\ processed = <<>> /\ phase = "start" /\ view = NoView

IsText(node) == node.name = "text"
Failed(node) == [node EXCEPT !.name = "failed", !.kids = <<>>]
NonBlank(kids) == SelectSeq(kids, LAMBDA k : ~ (IsText(k) /\ k.words = <<>>))

-----------------------------------------------------------------------------
\* Patches.

Span(p, i) == i .. i + Len(p.target) - 1
Occurs(p, i, words) ==
  i + Len(p.target) - 1 <= Len(words) /\ SubSeq(words, i, i + Len(p.target) - 1) = p.target

\* From the last occurrence to the first, so that places stay valid.
Replace(words, found) ==
  FoldRight(LAMBDA i, ws :
    LET hits == {f \in found : f.at = i}
    IN IF hits = {} THEN ws
       ELSE LET p == (CHOOSE f \in hits : TRUE).patch
            IN SubSeq(ws, 1, i - 1) \o p.replacement \o SubSeq(ws, i + Len(p.target), Len(ws)),
    [i \in 1 .. Len(words) |-> i], words)

\* Mutant: a patch that was used is not looked for again.
PatchTextOnce(words, patches, handled) ==
  LET found == UNION {{[at |-> i, patch |-> p] : i \in {j \in DOMAIN words : Occurs(p, j, words)}} :
                      p \in patches \ handled}
  IN [words |-> Replace(words, found), handled |-> handled \cup {f.patch : f \in found},
      ok |-> \A f, g \in found : f # g => Span(f.patch, f.at) \cap Span(g.patch, g.at) = {}]

\* A target that is found twice in its section is an error, as are two
\* targets that overlap; one that is not found is passed over.
PatchText(words, patches, handled) ==
  LET found == UNION {{[at |-> i, patch |-> p] : i \in {j \in DOMAIN words : Occurs(p, j, words)}} :
                      p \in patches}
  IN [words |-> Replace(words, found), handled |-> handled \cup {f.patch : f \in found},
      ok |-> /\ \A f \in found : f.patch \notin handled
             /\ \A f, g \in found : f # g =>
                  f.patch # g.patch /\ Span(f.patch, f.at) \cap Span(g.patch, g.at) = {}]

-----------------------------------------------------------------------------
\* Sections.

\* An ancestor that is no part of the text by its type, or one to ignore.
NoSection(a, i, work) ==
  \/ work.noSubtypes /\ a.type = ""
  \/ ~ work.noSubtypes /\ a.type # "textpart" /\ (a.name # "l" \/ i > Len(work.parts))
  \/ a.subtype # "" /\ a.subtype \in work.ignored

\* A line of Lucretius that is lost has no number.
LostLine(a, work) ==
  a.name = "l" /\ a.n = "" /\ work.gapLines /\ Len(a.kids) = 1 /\ a.kids[1].name = "gap"

PartName(a, work) ==
  CASE a.name = "seg" -> a.type
    [] a.name = "l" -> "line"
    [] OTHER -> IF work.noSubtypes THEN a.type ELSE a.subtype

\* getSectionId: the numbers of the ancestors that are parts, which have to
\* come in the order of the parts of the text.
SectionId(ancestors, work) ==
  FoldLeft(LAMBDA s, a :
    LET i == Len(s.id) + 1
    IN IF a.name # "seg" /\ (NoSection(a, i, work) \/ LostLine(a, work)) THEN s
       ELSE IF i > Len(work.parts) \/ a.n = "" THEN [s EXCEPT !.ok = FALSE]
       ELSE [id |-> Append(s.id, a.n), ok |-> s.ok /\ PartName(a, work) = work.parts[i]],
    [id |-> <<>>, ok |-> TRUE], ancestors)

-----------------------------------------------------------------------------
\* Notes.

IsTarget(node) == node.name = "note" /\ node.xmlId # ""

RECURSIVE NotesWithXmlId(_)
NotesWithXmlId(node) ==
  FlattenSeq([k \in DOMAIN node.kids |->
    IF IsTarget(node.kids[k]) THEN <<node.kids[k]>> ELSE NotesWithXmlId(node.kids[k])])

\* deepcopyAndExtract: a copy without the notes that stand elsewhere.
RECURSIVE Extracted(_)
Extracted(node) ==
  LET here == SelectSeq(node.kids, LAMBDA k : ~ IsTarget(k))
  IN [node EXCEPT !.kids = [k \in DOMAIN here |-> Extracted(here[k])]]

NoteNodes ==
  {"text", "note", "hi", "emph", "foreign", "q", "quote", "title", "gap", "placeName", "date",
   "bibl", "cit", "pb", "lb", "l", "add", "persName", "surname", "milestone", "app", "lem",
   "rdg", "del", "w", "num"}

\* transformNoteNode; inside of "lb" and "gap" nothing is looked at.
RECURSIVE NoteFits(_)
NoteFits(node) ==
  /\ node.name \in NoteNodes
  /\ node.name \in {"lb", "gap"} \/ \A k \in DOMAIN node.kids : NoteFits(node.kids[k])

-----------------------------------------------------------------------------
\* preprocessTree: one walk in the order of the text gives each node its
\* number and section, patches the strings, and puts a mark for each note.

Skipped == {"#comment", "pb", "milestone"}

NoteAt(targets, node) == SelectLastInSeq(targets, LAMBDA t : t.xmlId = node.target)

\* The content of a note: its own, or that of the note it points to.
AddNote(st, node, targets) ==
  LET i == NoteAt(targets, node)
  IN IF node.target = "" THEN [st EXCEPT !.notes = Append(@, node)]
     ELSE IF i = 0 \/ node.kids # <<>> THEN [st EXCEPT !.ok = FALSE]
     ELSE [st EXCEPT !.notes = Append(@, targets[i])]

PatchChild(st, text, section, work) ==
  LET p == PatchText(text.words, {q \in work.patches : q.location = section}, st.handled)
  IN [st EXCEPT !.handled = p.handled, !.ok = @ /\ p.ok,
                !.kids = Append(@, [text EXCEPT !.words = p.words])]

\* Prepare(node, ancestors, work, targets, st): st.kids collects the node.
RECURSIVE Prepare(_, _, _, _, _)
Prepare(node, ancestors, work, targets, st) ==
  LET line == Append(ancestors, node)
      s == SectionId(line, work)
      marked == [node EXCEPT !.sid = s.id, !.uid = st.uids]
      entered == [st EXCEPT !.uids = @ + 1, !.ok = @ /\ s.ok]
      inside == FoldLeft(LAMBDA t, kid :
                  IF ~ t.ok \/ kid.name \in Skipped THEN t
                  ELSE IF IsText(kid) THEN PatchChild(t, kid, s.id, work)
                  ELSE Prepare(kid, line, work, targets, t),
                [entered EXCEPT !.kids = <<>>], node.kids)
      noted == AddNote(entered, node, targets)
  IN IF ~ entered.ok THEN entered
     ELSE IF node.name = "note"
     THEN [noted EXCEPT !.kids =
             Append(@, [marked EXCEPT !.kids = <<>>, !.noteId = Len(st.notes)])]
     ELSE [inside EXCEPT !.kids = Append(st.kids, [marked EXCEPT !.kids = inside.kids])]

Preprocess(work) ==
  Prepare(Extracted(work.root), <<>>, work, NotesWithXmlId(work.root),
          [kids |-> <<>>, uids |-> 0, notes |-> <<>>, handled |-> {}, ok |-> TRUE])

-----------------------------------------------------------------------------
\* Rows.

NoLg == [uid |-> -1, sid |-> <<>>]

RECURSIVE IncludedSections(_)
IncludedSections(node) ==
  {node.sid} \cup
  UNION {IncludedSections(node.kids[k]) : k \in {j \in DOMAIN node.kids : ~ IsText(node.kids[j])}}

\* Text that stands between sections is wrapped in a span.
StrayRow(node, text) ==
  IF text.words = <<>> THEN <<>>
  ELSE <<[id |-> node.sid, lg |-> NoLg, node |-> [text EXCEPT !.name = "span", !.kids = <<text>>]]>>

\* convertToRows: the largest nodes with one section; each knows its "lg".
RECURSIVE ConvertToRows(_, _)
ConvertToRows(node, around) ==
  LET lg == IF node.name = "lg" THEN [uid |-> node.uid, sid |-> node.sid] ELSE around
  IN IF Cardinality(IncludedSections(node)) = 1
     THEN <<[id |-> node.sid, lg |-> lg, node |-> node]>>
     ELSE FlattenSeq([k \in DOMAIN node.kids |->
            IF IsText(node.kids[k]) THEN StrayRow(node, node.kids[k])
            ELSE ConvertToRows(node.kids[k], lg)])

Plain ==
  {"l", "hi", "add", "sic", "said", "emph", "placeName", "date", "surname", "persName", "num",
   "orig", "seg", "foreign", "div", "div1", "div2", "ab", "lg", "body", "p", "title", "bibl",
   "cit", "expan", "ex", "del", "q", "quote", "head"}

\* The node as what it is shown: the name tells a choice which child to take.
As(name, node, kids) == [node EXCEPT !.name = name, !.orig = node.name, !.kids = kids]

IsAbbreviation(kids) == Len(kids) = 2 /\ IsText(kids[1]) /\ kids[2].name = "expan"
GoodReadings(kids) == SelectSeq(kids, LAMBDA k : k.orig \in {"reg", "corr", "abbr"})

Choice(node, kids) ==
  LET good == GoodReadings(kids)
  IN IF Len(NonBlank(kids)) = 2 /\ good # <<>> THEN good[1] ELSE Failed(node)

\* transformContentNode, of a node whose children are done; an "abbr" is
\* judged by its children as they were.
TransformContentNode(node, kids, parent) ==
  LET one == IF Len(kids) = 1 /\ IsText(kids[1]) THEN As("span", node, kids) ELSE Failed(node)
  IN CASE \E k \in DOMAIN kids : kids[k].name = "failed" -> Failed(node)
       [] node.name = "choice" -> Choice(node, kids)
       [] node.name = "corr" ->
            IF kids # <<>> /\ IsText(kids[1]) /\ parent = "choice" THEN As("span", node, kids)
            ELSE Failed(node)
       [] node.name = "abbr" ->
            IF IsAbbreviation(NonBlank(node.kids))
            THEN As("span", node, <<NonBlank(node.kids)[1]>>)
            ELSE IF parent = "choice" THEN As("span", node, kids) ELSE Failed(node)
       [] node.name = "note" -> node
       [] node.name = "reg" -> one
       [] node.name = "lb" -> As("br", node, <<>>)
       [] node.name = "gap" -> IF kids = <<>> THEN As("gap", node, kids) ELSE Failed(node)
       [] node.name = "label" -> IF Len(kids) = 1 THEN As("b", node, kids) ELSE Failed(node)
       [] node.name \in Plain -> As("span", node, kids)
       [] OTHER -> Failed(node)

\* processListNode: an item with the label before it; a last label is lost.
AddListChild(list, kid) ==
  LET item == As("span", kid, kid.kids)
      bold == As("b", kid, kid.kids)
      plainItem == \A k \in DOMAIN kid.kids : kid.kids[k].name \in {"text", "date"}
      soleText == Len(kid.kids) = 1 /\ IsText(kid.kids[1])
  IN CASE IsText(kid) /\ kid.words = <<>> -> list
       [] kid.name = "headLabel" /\ list = [rows |-> <<>>, label |-> <<>>, ok |-> TRUE] /\ soleText ->
            [list EXCEPT !.rows = <<As("li", kid, <<bold>>)>>]
       [] kid.name = "label" /\ list.label = <<>> /\ soleText -> [list EXCEPT !.label = <<bold>>]
       [] kid.name = "item" /\ plainItem ->
            [list EXCEPT !.rows = Append(@, As("li", kid, Append(list.label, item))), !.label = <<>>]
       [] OTHER -> [list EXCEPT !.ok = FALSE]

ProcessListNode(node) ==
  LET list == FoldLeft(AddListChild, [rows |-> <<>>, label |-> <<>>, ok |-> TRUE], node.kids)
  IN IF list.ok THEN As("ul", node, list.rows) ELSE Failed(node)

RECURSIVE ProcessRowContent(_, _)
ProcessRowContent(node, parent) ==
  CASE IsText(node) -> node
    [] node.name = "list" -> ProcessListNode(node)
    [] OTHER ->
         TransformContentNode(node,
           [k \in DOMAIN node.kids |-> ProcessRowContent(node.kids[k], node.name)], parent)

SpaceRow(row) == [id |-> row.lg.sid, lg |-> row.lg, node |-> [row.node EXCEPT !.name = "space", !.kids = <<>>]]

\* processWorkBody: a space after each run of rows in one "lg".
ProcessWorkBody(raw) ==
  FlattenSeq([r \in DOMAIN raw |->
    LET content == [raw[r] EXCEPT !.node = ProcessRowContent(raw[r].node, "")]
        ends == raw[r].lg # NoLg /\ (r = Len(raw) \/ raw[r + 1].lg.uid # raw[r].lg.uid)
    IN IF ends THEN <<content, SpaceRow(raw[r])>> ELSE <<content>>])

-----------------------------------------------------------------------------
\* Pages and the outline.

IdLength(work) == IF Len(work.parts) = 1 THEN 1 ELSE Len(work.parts) - 1
PageId(id, length) == SubSeq(id, 1, IF Len(id) < length THEN Len(id) ELSE length)

NoPage == [id |-> <<>>, start |-> 0]

ClosePage(d, end) ==
  IF d.current = NoPage THEN d
  ELSE [d EXCEPT !.ok = @ /\ \A p \in ToSet(d.pages) : p.id # d.current.id, !.current = NoPage,
                 !.pages = Append(@, [id |-> d.current.id, start |-> d.current.start, end |-> end])]

\* divideWork: a page is a run of rows with the same first parts of the
\* number; a row without as many parts is on no page. A page that would come
\* again is an error. The end is exclusive.
DivideWork(rows, length) ==
  LET divided == FoldLeft(LAMBDA d, r :
        LET id == PageId(rows[r].id, length)
            closed == ClosePage(d, r)
        IN IF d.current # NoPage /\ d.current.id = id THEN d
           ELSE IF Len(id) # length THEN closed
           ELSE [closed EXCEPT !.current = [id |-> id, start |-> r]],
        [pages |-> <<>>, current |-> NoPage, ok |-> TRUE], [r \in DOMAIN rows |-> r])
  IN ClosePage(divided, Len(rows) + 1)

\* buildNavTree: the children of each number, in the order of the pages.
AddToNavTree(tree, id) ==
  FoldLeft(LAMBDA t, i :
    LET parent == SubSeq(id, 1, i - 1)
        child == SubSeq(id, 1, i)
        known == IF parent \in DOMAIN t THEN t[parent] ELSE <<>>
    IN IF Contains(known, child) THEN t ELSE (parent :> Append(known, child)) @@ t,
    tree, [i \in DOMAIN id |-> i])

BuildNavTree(pages) == FoldLeft(AddToNavTree, <<>>, [p \in DOMAIN pages |-> pages[p].id])

RECURSIVE HasFailed(_)
HasFailed(node) == node.name = "failed" \/ \E k \in DOMAIN node.kids : HasFailed(node.kids[k])

\* createPatchTree: the location of a patch has all parts of the text.
PatchesFit(work) == \A p \in work.patches : Len(p.location) = Len(work.parts)

Publish(work, pre, rows, divided) ==
  [ok |-> /\ divided.ok
          /\ \A r \in DOMAIN rows : ~ HasFailed(rows[r].node)
          /\ \A k \in DOMAIN pre.notes : NoteFits(pre.notes[k]),
   source |-> work, rows |-> rows, pages |-> divided.pages, notes |-> pre.notes,
   navTree |-> BuildNavTree(divided.pages)]

Process(work, pre) ==
  IF ~ PatchesFit(work) \/ ~ pre.ok
  THEN [ok |-> FALSE, source |-> work, rows |-> <<>>, pages |-> <<>>, notes |-> <<>>, navTree |-> <<>>]
  ELSE LET rows == ProcessWorkBody(ConvertToRows(pre.kids[1], NoLg))
       IN Publish(work, pre, rows, DivideWork(rows, IdLength(work)))

\* processTei2.
ProcessTei(work) == Process(work, Preprocess(work))

-----------------------------------------------------------------------------
\* The library.

\* Translations come first, so that the texts can name them.
Sorted(library) ==
  SelectSeq(library, LAMBDA w : w.isTranslation) \o SelectSeq(library, LAMBDA w : ~ w.isTranslation)

BuildLibrary(library) ==
  /\ phase = "start" /\ phase' = "processing" /\ queue' = Sorted(library)
  /\ UNCHANGED <<processed, view>>

TranslationInfo(work) ==
  {processed[k].source.id : k \in {j \in DOMAIN processed :
     processed[j].source.isTranslation /\ processed[j].source.id = work.translationId}}

Write(result) ==
  /\ processed' = Append(processed,
       result @@ [translation |-> TranslationInfo(result.source)])
  /\ phase' = "processing"

\* A work that cannot be processed ends the build before the index is written.
ProcessWork ==
  /\ phase = "processing" /\ queue # <<>>
  /\ queue' = Tail(queue) /\ UNCHANGED view
  /\ \E result \in {ProcessTei(Head(queue))} :
       IF result.ok THEN Write(result) ELSE phase' = "failed" /\ UNCHANGED processed

WriteIndex ==
  /\ phase = "processing" /\ queue = <<>> /\ phase' = "indexed"
  /\ UNCHANGED <<queue, processed, view>>

-----------------------------------------------------------------------------
\* The corpus and the reader.

\* extractRowText and the tokens of it: strings are joined with spaces.
RECURSIVE CorpusWords(_)
CorpusWords(node) ==
  IF IsText(node) THEN node.words
  ELSE FlattenSeq([k \in DOMAIN node.kids |-> CorpusWords(node.kids[k])])

\* displayForLibraryChunk: the words, each with its place as its number.
RECURSIVE DisplayedWords(_)
DisplayedWords(node) ==
  CASE IsText(node) -> node.words
    [] node.name \in {"note", "space"} -> <<>>
    [] OTHER -> FlattenSeq([k \in DOMAIN node.kids |-> DisplayedWords(node.kids[k])])

\* The leaders of a match of some words from a word of a row on: the number
\* of each row, and the words in it.
Leaders(work, row, start, length) ==
  LET words == CorpusWords(work.rows[row].node)
      here == IF Len(words) - start < length THEN Len(words) - start ELSE length
      first == [row |-> row, id |-> work.rows[row].id, start |-> start, end |-> start + here]
  IN IF here = length THEN <<first>>
     ELSE IF row = Len(work.rows) THEN <<>>
     ELSE <<first, [row |-> row + 1, id |-> work.rows[row + 1].id, start |-> 0,
                    end |-> length - here]>>

\* WorkTextPage: a row with all parts of the number has a label and marks.
DisplayRow(work, row, leaders) ==
  LET id == work.rows[row].id
      words == DisplayedWords(work.rows[row].node)
      labelled == Len(id) = Len(work.source.parts)
      marks == {l \in ToSet(leaders) : l.id = id}
  IN [row |-> row, words |-> words, labelled |-> labelled,
      marked |-> IF labelled
                 THEN {i \in DOMAIN words : \E l \in marks : l.start < i /\ i <= l.end} ELSE {}]

PageOf(work, id) == {p \in ToSet(work.pages) : p.id = PageId(id, IdLength(work.source))}

\* The link of a match leads to the page of its first row.
OpenMatch(k, row, start, length) ==
  /\ phase = "indexed" /\ view = NoView /\ UNCHANGED <<queue, processed, phase>>
  /\ start < Len(CorpusWords(processed[k].rows[row].node))
  /\ \E leaders \in {Leaders(processed[k], row, start, length)},
        page \in PageOf(processed[k], processed[k].rows[row].id) :
       /\ leaders # <<>>
       /\ view' = [match |-> [work |-> k, leaders |-> leaders],
                   rows |-> [j \in 1 .. page.end - page.start |->
                              DisplayRow(processed[k], page.start + j - 1, leaders)]]

Next ==
  \/ \E library \in Libraries : BuildLibrary(library)
  \/ ProcessWork
  \/ WriteIndex
  \/ \E k \in DOMAIN processed : \E row \in DOMAIN processed[k].rows, start \in 0 .. 2 :
       OpenMatch(k, row, start, 2)

Spec == Init /\ [][Next]_vars

TypeOK ==
  /\ phase \in {"start", "processing", "indexed", "failed"}
  /\ \A k \in DOMAIN queue : queue[k].isTranslation \in BOOLEAN
  /\ \A k \in DOMAIN processed : processed[k].ok
  /\ \A j \in DOMAIN view.rows : view.rows[j].marked \subseteq DOMAIN view.rows[j].words

-----------------------------------------------------------------------------
\* What a text is to be, read from its file alone.

RECURSIVE SourceWords(_)
SourceWords(node) ==
  LET kids == SelectSeq(node.kids, LAMBDA k : k.name \notin Skipped)
      solid == NonBlank(kids)
  IN CASE IsText(node) -> node.words
       [] node.name = "note" -> <<>>
       [] node.name = "choice" ->
            SourceWords(SelectSeq(kids, LAMBDA k : k.name \in {"reg", "corr", "abbr"})[1])
       [] node.name = "abbr" /\ IsAbbreviation(solid) -> solid[1].words
       [] OTHER -> FlattenSeq([k \in DOMAIN kids |-> SourceWords(kids[k])])

RECURSIVE SourceNotes(_)
SourceNotes(node) ==
  IF node.name = "note" THEN <<node>>
  ELSE FlattenSeq([k \in DOMAIN node.kids |-> SourceNotes(node.kids[k])])

RowWords(work) == FlattenSeq([r \in DOMAIN work.rows |-> DisplayedWords(work.rows[r].node)])

\* The rows of a text hold the words of its file, all of them and in order.
TextIsKept(work) == work.source.patches = {} => RowWords(work) = SourceWords(Extracted(work.source.root))

RECURSIVE Marks(_)
Marks(node) ==
  IF node.name = "note" THEN <<node.noteId>>
  ELSE FlattenSeq([k \in DOMAIN node.kids |-> Marks(node.kids[k])])

\* The marks of the notes stand where the notes do, each with its content.
NotesInPlace(work) ==
  LET marks == FlattenSeq([r \in DOMAIN work.rows |-> Marks(work.rows[r].node)])
      notes == SourceNotes(Extracted(work.source.root))
  IN /\ Len(marks) = Len(notes)
     /\ \A k \in DOMAIN marks :
          LET content == work.notes[marks[k] + 1]
          IN \/ CorpusWords(content) = CorpusWords(notes[k])
             \/ notes[k].target # "" /\ content.xmlId = notes[k].target

RECURSIVE Strings(_)
Strings(node) ==
  IF IsText(node) THEN <<node.words>>
  ELSE FlattenSeq([k \in DOMAIN node.kids |-> Strings(node.kids[k])])

StringsAt(work, id) ==
  FlattenSeq([r \in DOMAIN work.rows |->
    IF work.rows[r].id = id THEN Strings(work.rows[r].node) ELSE <<>>])

\* A patch replaces its target at one place of its section, and there is no
\* other place for it (library_patches.ts:17).
PatchesUsedOnce(work) ==
  \A p \in work.source.patches :
    LET before == StringsAt(ProcessTei([work.source EXCEPT !.patches = {}]), p.location)
        places == {o \in (DOMAIN before) \X (1 .. 9) : Occurs(p, o[2], before[o[1]])}
    IN /\ Cardinality(places) <= 1
       /\ \A o \in places :
            StringsAt(work, p.location)[o[1]] =
              SubSeq(before[o[1]], 1, o[2] - 1) \o p.replacement \o
              SubSeq(before[o[1]], o[2] + Len(p.target), Len(before[o[1]]))

\* Every row with the parts that name a page is on one page, that one; other
\* rows are on none, and the leaves of the outline are the pages.
PagesTile(work) ==
  LET length == IdLength(work.source)
      Holding(r) == {p \in ToSet(work.pages) : p.start <= r /\ r < p.end}
      children == UNION {ToSet(work.navTree[i]) : i \in DOMAIN work.navTree}
  IN /\ \A r \in DOMAIN work.rows :
          IF Len(work.rows[r].id) < length THEN Holding(r) = {}
          ELSE \E p \in Holding(r) : Holding(r) = {p} /\ p.id = PageId(work.rows[r].id, length)
     /\ children \ DOMAIN work.navTree = {p.id : p \in ToSet(work.pages)}

\* A word has the same number in the reader and in the corpus.
WordsNumberedAlike(work) ==
  \A r \in DOMAIN work.rows :
    DisplayedWords(work.rows[r].node) = CorpusWords(work.rows[r].node)

UniqueId(work, id) == Cardinality({r \in DOMAIN work.rows : work.rows[r].id = id}) = 1

\* The words that are marked on a page are those of the match.
MatchIsMarked ==
  view # NoView =>
    LET work == processed[view.match.work]
    IN \A j \in DOMAIN view.rows :
         LET shown == view.rows[j]
             hit == {l \in ToSet(view.match.leaders) : l.row = shown.row}
         IN shown.labelled /\ UniqueId(work, work.rows[shown.row].id) =>
              shown.marked = UNION {l.start + 1 .. l.end : l \in hit}

\* A text whose translation is in the library can name it.
TranslationsKnown ==
  phase = "indexed" =>
    \A k, j \in DOMAIN processed :
      processed[j].source.isTranslation /\ processed[k].source.translationId = processed[j].source.id
        => processed[k].translation = {processed[j].source.id}

\* The texts of the library are those of the files: complete and in order,
\* patched where it was meant, on one page each, with their own notes; and a
\* match of the corpus is marked at its words.
TextsFit ==
  /\ \A k \in DOMAIN processed :
       /\ TextIsKept(processed[k]) /\ NotesInPlace(processed[k]) /\ PatchesUsedOnce(processed[k])
       /\ PagesTile(processed[k]) /\ WordsNumberedAlike(processed[k])
  /\ MatchIsMarked
  /\ TranslationsKnown
=============================================================================
