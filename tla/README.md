# Verification of morcus-net

This directory holds TLA+ models of the parts of morcus-net whose correctness depends on
interleavings, failures, boundaries or on two programs that must agree, the TLC configurations
that check them on small instances, and theorems about seventeen of them that TLAPS checks for every
value of the constants. Paths below are relative to `src/` of the repository; `OFF` stands for
`src/web/client/offline`.

    tlc -workers 2 -config settings_faults.cfg MCOfflineSettings.tla
    tlc -workers 2 -config scenes.cfg MCScenes.tla
    tlapm ScenesProofs.tla

`PROJECT.json` maps every definition to the lines it stands for, every run to its properties,
every property to a mutant of the code that breaks it, and every hazard to its line. The map
covers about a fifth of the implementation's lines: most of the rest is rendering, conversions of
printed books and tests (section 7).

## 1. Inventory

morcus-net is a website with Latin dictionaries, a library of texts, a corpus search and a
macronizer. A React client talks to a Node server over typed RPC; a service worker answers in
place of the server when offline mode is on; the corpus engine and the morphological completer are
Rust libraries called from the server. Dictionaries, texts, inflection tables and the corpus are
made by batch programs at build time.

### The client

| Component | State | Operations, and with whom | Hard because of | Correct when |
|---|---|---|---|---|
| Offline settings (`OFF/serviceworker.ts:109-129`, `offline_settings_storage.ts`, `use_offline_settings.ts`) | one record in IndexedDB, `current` / `initial` / `initialStale` in the worker, a copy in each page | toggle messages from pages, puts, broadcasts to pages | suspended readers, kills, failing reads and writes, reads answered after broadcasts | a confirmed toggle holds; no setting promises what was not saved; pages converge |
| Service worker fetches and lifecycle (`OFF/serviceworker.ts:131-327`, `offline_cache.ts`) | a cache of the shell shared by all versions, a flag of forced offline mode | install, activate, fetch; the server's `/*` fallback | deploys during an installation, two versions, offline mode that turns itself on | a page and its bundle belong together; old pages are replaced; the user is told |
| Messages (`OFF/communication`, `offline_settings_ui.tsx`) | a listener per open request, a disabled checkbox | pages and worker | answers matched by key only, leaving and returning, kills | no checkbox stays disabled |
| Dictionary download (`OFF/offline_data.ts`, `src/common/dictionaries/indexdb_backing.ts`, `src/web/server/chunking.ts`) | two IndexedDB stores, entries and the rows of their keys | chunks of a stream saved one transaction each | cut streams, retries, kills in a transaction, two downloads, a new release between them | entries and keys agree, chunks are whole, success means complete |
| Chunked stream (`src/common/bytedata/packing.ts:26-98`) | a buffer, the part being read | pieces from the network, parts to the download | cuts anywhere, early end | parts in order; accepted only at the end of a part |
| Autocomplete client (`src/web/client/pages/dictionary/search/fused_autocomplete_fetcher.ts`) | a cache of promises per dictionary and letter | one call per request for what is missing, awaited in order | overlapping requests, partial answers, rejected promises in the cache | one list per dictionary; a failure is forgotten |
| Search box (`src/web/client/components/generic/search.tsx`) | input, options, cursor, `loading` | options from the autocomplete client or the corpus page | options that arrive late or reject | cursor and options fit the input; loading ends |
| Router and API calls (`src/web/client/router`, `utils/hooks/use_api_call.ts`) | URL and history, the current input of each call | calls to the server or the worker | late results, Back and Forward, components that are gone | only the current input's result is shown |
| Corpus page (`src/web/client/pages/corpus`) | query, settings and page tokens in the URL, the results | the search box, the API | an answer writes into the route of another query | results, query and tokens belong together |
| Dictionary page (`src/web/client/pages/dictionary`) | the route or the reader's word, chosen dictionaries, the answer | the API, the reader | four inputs that change while a request is open | what is shown answers what is asked |
| Library and reader (`src/web/client/pages/library`) | the work, its page, its translation, saved spots | fetches of works, the history | answers to readers that were left, sections that do not exist | the text is that of the URL; saved spots exist |
| Imported texts, gestures, panels (`external_content_reader.tsx`, `src/web/client/mobile/gestures.tsx`, `components/draggables.tsx`) | a store of texts, a touch, sizes of drawer and columns | IndexedDB, the scraper, the pointer | operations that cross, touches that are taken over, screens that turn | the text of the URL asked last is shown, and its link; a swipe does what it showed; panels follow the pointer |
| Macronizer page (`src/web/client/pages/macron.tsx`) | text, result, the form each ambiguous word shows | the API | components that are kept for another result | the forms shown are those of the word |

### The server

| Component | State | Operations, and with whom | Hard because of | Correct when |
|---|---|---|---|---|
| Server process (`src/start_server.ts`, `src/web/utils/rpc/server_rpc.ts`, telemetry) | open connections, telemetry, dictionaries opened lazily | express, mongo, sqlite, signals | logs after the answer, shutdown with open calls, rejections that nobody handles | a stop ends, and loses no request without a fault |
| Dictionary lookups (`src/common/dictionaries`, `latin_dict_fetching.ts`) | tables of orthographies and entries, in SQLite and IndexedDB | names, inflected forms, ids, completions | places of an entry share lists, names with lengths and quotes, two stores | each entry that a name or a form leads to, once, with its forms |
| Corpus query language (`src/web/client/pages/corpus/autocomplete`, `corpus_rust/src/query_parsing_v2.rs`, `analyzer_types.rs`) | none | typing, completing; the server's parser | a state machine and a parser in two languages, two tables of names | what the page accepts means the same to the server |
| Corpus engine (`corpus_rust/src/corpus_query_engine*`) | read-only indices, lists or bitmasks | a query, page by page; the client hands back `PageData` | representations that differ at words and edges, place found again from three numbers, values against analyses | matches are genuine and complete, pages tile the results |
| Packed numbers, bitmasks, lists (`packing.ts:100-264`, `corpus_rust/src/bitmask_utils.rs`, `index_data.rs`) | none | pure, bit level | widths, word boundaries, offsets below zero | each computes the set it stands for |
| Macronizer (`src/macronizer`) | none | Morceus, and a tagger outside | tags matched with words by place, enclitics that are two words | forms keep the marks; a suggestion comes from the word's own tag |
| Morceus, lookup (`src/morceus/crunch.ts`, `morceus_rust/src`) | tables | analysis of a word, completion of a beginning | two implementations, spellings, consolidation of results | analyses are the forms of the lexicon, and the same in both languages |

### The batch programs

| Component | State | Operations | Hard because of | Correct when |
|---|---|---|---|---|
| Inflection tables and grammatical data (`src/morceus/tables`, `inflection_data_utils.ts`, `cruncher_tables.ts`) | templates, stems, endings | expansion by rounds, merging, packing into 32 bits | cycles, contradicting data, numbers in place of strings | every ending that some way through the templates leads to |
| Corpus build (`src/common/library/corpus`) | indices, analyses, rows, one file of cells | absorbing works, saving, reading in Rust | offsets, padding, breaks, empty rows | the engine reads what the works say |
| Library processing (`src/common/library/process_work.ts`, `process_library.ts`) | rows, pages, notes, the index of the library | TEI trees to texts | two word counts, patches, sections by attributes | complete and in order, on one page each, a match marked at its words |
| Lexica processing, other texts, bundler, scripts | files | conversions | wording and layout | not modelled, see section 7 |

Interaction. A toggle in a page is a message to the worker; it may first start a download, whose
stream is unpacked and saved; only then is the setting written, and the write's broadcast reaches
the pages. The setting decides how later fetches (entries, completions, the shell) are answered.
The search box asks the autocomplete client, which asks the RPC layer. A corpus query is put
together from completed tokens, rewritten by the page, parsed by the server, pruned, evaluated on
indices and checked against analyses, which the corpus build took from Morceus; the page that comes
back leads into the reader, where the words of the match are marked by their number.

## 2. Plan

Done: the settings, the autocomplete client and the download, each with an abstract view where there is
one and with proofs; the corpus engine; then one module per state machine of the client and the
server, and the pure algorithms behind them, compared with reference definitions.

Proved since: the invariant and the refinement of the settings, the search box, the corpus page, the
start of a page, the corpus engine's types, genuineness, answers, completeness and pages, and the machines of
the pages and of the server that `Scenes` holds (`PagesProofs`, `ScenesProofs`), with the stream of a packed file, the
terms of queries and the macronizer.

`Completions`, `Crunch`, `Inflections`, `LibraryText`, `MorceusTables` and `PackedIndex` follow loops and trees with
RECURSIVE operators; they, and the modules that extend them, stay with TLC.

## 3. Modules

### Settings, completions, downloads, the corpus engine

**`OfflineSettings`** - the worker's singleton, its store, the toggles and the pages' hook.
`db`, `committing`, `txns` are IndexedDB: what is committed, the write whose put succeeded but whose
transaction is open, and the queue. `current`, `initial`, `initialStale` carry the names of
`serviceworker.ts:110-112`; `waiting` are the toggles suspended in `await initial` (line 122), in
the order in which the promise resumes them. `task` is a toggle from its message to its answer,
`hook`, `readValue`, `ignoreInitial`, `view`, `inbox` the state of `useOfflineSettings` in each page.
`stored` are the downloads whose data is there, `hidden` those whose last save resolved although it is not: `SaveResolves` is
either (an aborted transaction hidden by `allSettled`, a stream that ends between two chunks). `PageReadFails` is the rejection
of the page's own read, which the hook does not catch: the page then knows no settings and only listens.
`ack` is history: the value last confirmed per key. `TurnOff` and `TurnOn` are the message handler
(turning a mode off goes straight to `setKey`, turning a download on starts work), `WorkDone` and
`WorkFails` the ends of `tryToExecuteThenUpdateState`, `InitialResolves` the callback at line 113 followed
by every suspended `setKey`, in one step because these microtasks run before anything else;
`PutSucceeds` answers and broadcasts, `Commit`/`CommitAborts` end the transaction (the code answers
on the request's success, before the commit). `Kill` is the browser stopping the worker; its open
transactions become orphans that may still commit.

**`SettingsRegister`** - the promise of the settings: one register per key, a toggle takes effect at
one instant on its own key, and only unconfirmed toggles may be lost. `OfflineSettings` refines it
with `value <- Eventual`, what the database will hold when its queue has drained.

**`AutocompleteCache`** - `cache[d][q]` names the request whose call made the cached promise. `Start`
is the synchronous part of a request (take cached promises, one call for the missing ones, store
them), `Answer` and `Fail` the call's end, `AwaitFulfilled` and `AwaitRejected` one turn of the loop
that awaits the promises in order and deletes rejected ones.

**`StreamUnpack`** - the generator of `packing.ts`: a file is a sequence of chunk lengths, a byte its
position. `Deliver` is one iteration's `for await`, `ConsumePart` and `ConsumeAll` the inner loop,
`End` and `Break` the end and failure of the stream. `DictDownload` uses what is shown here: parts
come whole and in order, and a stream cut between chunks is not noticed.

**`DictDownload`** - attempts to download a dictionary (retries, or two pages at once) while the
server may release a new version whose chunks are cut elsewhere. `ChunkArrives` opens the
transaction of `saveToIndexedDb`, `SaveChunk`/`SaveAborted` end it, `Finish` and `FinishTruncated` end
the stream. `AddChunk` is `add` on both stores: it applies to a chunk none of whose entries is
stored, and otherwise aborts, which `allSettled` (`indexdb_backing.ts:95`) hides. `clean` is history: no version change,
no hidden failure so far.

**`CorpusQuery`** - one action, a request for a page, that runs the engine from slices to page.
An index is a set of token IDs plus its representation, because the two are treated differently: the
slice of a bitmask starts at a word, the slice of a list can lose its last element, a list against a
bitmask is probed and bitmasks are smeared. `SpanCandidates`, `QueryCandidates`, `SpanLeaders`,
`MatchPage`, `EstimatedResults` follow the functions of the same purpose. `Arrangements` is the
reference: what the query means, with no word, list or page in it. What is sorted (terms by frequency, spans
by their leaders, candidates) is `Ranked`: an element is at the place that the number of those before it gives.

### The other machines of the client

**`AppShell`** - how a page starts. `server`, `online` are the deployed version and the network; `active`,
`newer`, `index`, `bundles` the workers and the one cache they share; `memory`, `stored`, `inMemory`,
`notice` the settings reduced to offline mode and the flag that announces it; `page`, `loads` a page
from its index.html to its bundle. `raced` and `disturbed` are history: a deploy while a worker
fetched its files, and that in the last turn of offline mode by the worker one of the two writes (mode, flag) failed or the
worker was stopped between them; the next turn that succeeds resets it. `SetFlag` may fail, which is caught, and
`ReadNotice` may fail to read the flag or to clear it. `FetchIndex`, `FetchBundle`
and `Install` are `addAll` (one by one from the network, stored at once); `GetIndex` and `GetBundle` are the
worker's `fetch` or the server's fallback; `CallApi` is `reloadIfOldClient`.

**`ToggleComms`** - a click from its event to the answer. `requests` has a stage per click, `boxes` the
states of the checkboxes, `listeners` the open `registerMessageListener`s, `toPage` the answers on their
way; `mount` tells the settings page from the one that was left before. A click may come before the
last one has disabled its checkbox; an answer is taken by every listener for its setting.

**`SearchBox`** - all handlers of `search.tsx`; options are known by the text they were fetched for.
**`CorpusPage`** and **`DictionaryPage`** include the router and `useApiCall`: `entries`, `at` are the history,
`calls` the requests that may still be answered. `OnResult` of the corpus page writes the next page's
token into whatever route is current, which is why leaving it is a constant (`LeaveWhileLoading`).
**`ReaderPage`** - works, the redirect to a first page, moves, translations and saved spots.
**`ExternalContent`** - the store of imported texts and the tabs, forms and requests around it; nothing
is cancelled, so `overlapped` remembers that a text was asked while another was awaited. `OpenUrl` and `LeaveUrl` are the
history: to a URL, which is fetched, and back to the route without one, which changes nothing that is shown. `Shown`
is what `RenderTab` displays: nothing while a text is loading or has failed (section 7).
**`MobileReader`** - touches, taps, keys and tooltips; `turn` is history: how the last page was turned.
**`ReaderLayout`** - drags of drawer and columns, selection of a word, turning of the screen.
**`MacronPage`** - the page of the macronizer, whose ambiguous words keep their state by place.

### The server

**`ServerProcess`** - `proc` and `starts`, `telemetry`, `dicts`, `served` (the stage of each request). The log of an
answer is written after it was sent and awaited by nobody: `LogFails` takes the process down. `Signal`,
`CountConnections`, `CloseAllConnections`, `Close`, `TearDown` are `cleanup` and what it schedules.

**`QueryTokens`, `QueryLanguage`, `QueryTerms`** - a query in three steps. A token: `OptionsForInput` and
`PageReads` with the page's tables, `ServerReads` with the server's. A sequence of tokens: the page's
`FeedStateMachine` and its rewriting, the server's `ParseQuery` and `IsQuerySupported`; `Meaning` is what
the page's groups say. A term: pruning, candidates by value, the check against the stored analyses;
`Meets` is the reference, one reading of one token.

**`PackedIndex`** - the words, lists and bytes behind the sets that `CorpusQuery` computes with: smearing, shifted
`and` and `or`, fuzzy matches by two pointers, slices by binary search, packed numbers.

**`DictLookup`** - the rows that are stored for a dictionary, lookups in SQLite and in IndexedDB, what is
merged of them (places that share one list of forms are modelled as such, with list names), the fusion of
dictionaries, and what the page makes of the answer. `Named` and `Leads` are the reference.

**`Macronizer`** - the server's answer to a text, used by `MacronPage`: tokens that are split for the tagger, options
that keep the marks, the choice by the tag; failures where the code asserts.

### Morceus, corpus and texts

**`Inflections`** (grammatical data: reading, comparing, merging, packing), **`StemAndEnding`** (a stem and an ending
in both languages), **`InflectionTables`** (expansion by rounds; `TablesAreTheWays` compares it with the ways
through the templates), **`Spellings`** and **`MorceusTables`** (the maps, and the numbered tables of the port),
**`Crunch`** (both crunchers, consolidation), **`Completions`** (the completer of the port). The reference of the
last two is the lexicon: `StemForms`, the forms that stems and endings make, with no table in it.

**`CorpusBuild`** - `LatinWorksFromLibrary` sorts works, `Absorb` ingests one, `Save` lays out the file, `ResolveMatch` reads it
as the engine does and cuts a match's text. **`LibraryText`** - a TEI tree, its patches, sections, rows, pages,
notes and outline; the index; the rows as the corpus reads them; a page with a match marked.

### Instances

The `MC*` modules give constants. **`Scenes`** holds thirteen machines of the pages and of the server (the start of a
page, messages, search box, corpus page, dictionary page, reader, server process, imported texts, gestures, panels, the
stream of a packed file, one term of a query, the macronizer), each an `INSTANCE` with its own variables and
constants, and what is promised of them; `PagesProofs` proves it of the pages, `ScenesProofs` of the others.
**`MCScenes`** extends it with 10 more, whose algorithms are only model-checked, and a variable `scene` that
says which machine plays: the others stay in their initial state, in which nothing has to happen, so that
a step of the whole is a step of one machine, and fairness of one is not disturbed by another. The properties
of `Scenes` hold whichever machine plays; those of the other scenes are `scene = "..." =>` that of the module.
Several small properties about one subject are joined where a run reports them.

Operators marked *Mutant* in a comment are plausible mistakes in the definition they precede; no
specification uses them.

## 4. Runs

| Run | Question and answer | Bounds |
|---|---|---|
| `settings_faults` | Under every fault, is a download ever claimed before its save was reported as a success, or is its data missing without a save that hid a failure (`NoPhantomDownload`); does memory lag behind the disk without a failed write (`MemoryStaysLatest`)? No. | 3 toggles, 2 keys (a mode, a download), 1 page, `MaxCold` 2 |
| `settings_live` | Is every toggle answered, do pages converge? Yes, with failing reads, puts and hidden failures; a page whose own read was rejected once it hears of a toggle. | 3 keys, 2 toggles, 1 page, no kill, no abort after a put |
| `settings_register` | Does a confirmed toggle stay, and is all this one register per key? Yes, if at most one toggle waits for the first read and no write fails. | 3 toggles, 2 keys, no page, `MaxCold` 1, read errors and kills |
| `settings_lost_update` | The same without that condition: violated. | 2 toggles, no faults |
| `autocomplete` | One list per dictionary and letter, one call under way, eviction of rejected promises only and of all of them, every request ends. Holds. | 2 dictionaries, 1 letter, 3 requests |
| `download` | Keys and entries agree, chunks whole, success means complete. Holds (the last one while no version changes and no failure is hidden). | 3 attempts, 2 versions, 5 entries in 3 chunks |
| `corpus` | Are matches genuine, is no anchor lost inside the corpus, do short queries succeed, do resumable pages tile? Yes. | 6 tokens, words of 2 bits, 2 terms with 1-3 tokens, lists and bitmasks by threshold, whole and by-author queries |
| `corpus_pages` | Do the pages of every query tile its results? Violated. | two adjacent terms |
| `corpus_author` | Does an author's query show that author only? Violated. | one term, an author who starts inside a word |
| `left_page` | Do the page tokens in the URL belong to its query when the page may be left while it loads? Violated. | 3 queries (one empty), 1 setting, `LeaveWhileLoading` |
| `or_terms` | Does an `or` with one alternative more find no token less? Violated. | scene `term` |
| `scenes` | The properties of the 23 scenes below. Hold, but for the exceptions that they name. | below |

The scenes, with the property of the run that speaks of each:

| Scene | Property | What happens in it |
|---|---|---|
| `shell` | `PagesFitWorker`, `OfflineModeServes`, `NothingStaysStuck` | 2 versions, 2 page loads, kills, failing reads and writes (of the mode, of the flag, when the flag is cleared), the network on and off |
| `comms` | `PagesFitWorker`, `NothingStaysStuck` | 2 clicks on 2 settings (one is offline mode), the settings left and opened again, a worker that may be stopped |
| `search` | `BoxFitsInput` | texts "", " ", "a", "ab", at most 2 options, 2 fetches in its life, every key, click and hover |
| `corpus` | `CorpusPageFits` | 3 queries, 2 settings, 3 pages, a history of 4, 3 requests |
| `dict` | `EntriesFitRoute` | a page or an embedded dictionary, one Latin and one other lexicon and a word of each, 2 lookups |
| `lookup` | `AnalysesFitLexicon` | 3 lexica of up to 4 places, 5 queries, up to 2 of 4 analyses, 3 dictionaries |
| `reader` | `ReaderFits` | 2 works (two pages, one page), typed sections, one that exists nowhere, 2 fetches at once |
| `external` | `ReaderFits` | one URL, one typed text, 3 actions of the user, Back and Forward among them |
| `gestures` | `ReaderFits` | 4 points, 2 pages, 3 tooltips of which two have one key, 2 touches |
| `layout` | `ReaderFits` | 4 windows (a phone both ways, a desktop, and that screen turned, which is small), 4 positions, 6 steps |
| `process` | `StopsWithoutLoss`, `NothingStaysStuck` | 3 requests, 2 processes, faults of telemetry, dictionaries and clients |
| `query` | `QueriesMeanWhatTheySay` | every query of 5 kinds of tokens, every one of 8 that is made of offered options |
| `token` | `QueriesMeanWhatTheySay` | every beginning of 38 values with each name of their category, proximity and authors, before and after the lists arrive |
| `term` | `TermsMeanWhatTheySay` | every term of up to 3 of 19 atoms over 6 forms, strict or not |
| `packed` | `QueriesMeanWhatTheySay` | bitmasks of 2 words of 4 bits, lists over them, offsets -2 to 1, windows to 3, bytes of 8 bits |
| `unpack` | `FilesUnpack` | delimiter of 2 bytes, 9 files of up to 3 chunks, pieces of 0-5 bytes |
| `build` | `IndexFilesFit` | 105 libraries of 1 to 3 works with empty rows, section ends and full stops, matches of 2 spans |
| `infl` | `PortAgrees` | every pair of lines of at most 2 of 13 abbreviations |
| `crunch` | `PortAgrees`, `AnalysesFitLexicon` | 63 words, 4 sets of options, a lexicon of 6 lemmata |
| `complete` | `AnalysesFitLexicon` | 19 texts, 3 limits, that lexicon |
| `tables` | `TablesComplete` | 45 registries of 3 templates, with cycles, missing templates and contradictions |
| `macron` | `MacronsFit` | 4 texts with marks and enclitics, a tagger that answers for all words, all but one, wrongly or not at all, 2 requests |
| `texts` | `TextsFit` | 12 libraries of verse, prose, dialogue and translation, with notes, lists, patches and errors |

Why the bounds suffice. Two toggles make every conflict between `setKey`s, a third one follows a
kill or queues behind both; keys are symmetric but for mode against download. `MaxCold` bounds the
toggles that wait for the first read: beyond two the loop in `InitialResolves` only repeats. One page
is enough because pages do not influence each other. Three requests are an owner, one that awaits its
promise, and one that comes after an eviction; in the pages two or three requests are the current one
and late ones. Two versions of the shell are an old and a new one, and the worker of one beside that
of the other. Pieces of 0 to 5 bytes against parts of 0 to 4 and delimiters of 2 put a cut at every offset.
Three chunks have a beginning, a middle and an end, and the new version moves a boundary. Words of 2 bits
over 6 tokens give a word inside a work, one across two works, and an author who starts in the middle of
a word; words of 4 bits leave room for windows of 3 to both sides. Five tokens suffice for every rule of the
grammar around one operator, eight for a parenthesis, two operators and a relation behind it. `MaxShown`
stops a reader whom repeated pages would keep busy for ever. Morphological data are few but chosen:
each case of merging, an ending without a gender, an irregular form, proper names with `J` and `V`, an enclitic.

Deadlock is not checked: every one of these systems may stop (no more toggles, requests, downloads or
pages, a batch that is done).

## 5. Fairness

Assumed is what the browser and the operating system guarantee, never what users do (toggles, clicks,
mounts, requests, deploys and faults are under no fairness), and always of a disjunction of success and
failure, so that no outcome is obliged to happen.

* `settings_live`, `autocomplete`: weak fairness of each IndexedDB request and transaction, network call,
  continuation of a settled promise, and delivery of a message in order. Kills are not among the faults
  of `settings_live`: a killed worker answers nothing, which the code does not try to handle. Nor are transactions that
  abort after their put succeeded, which the code takes for stored. A page's read is answered or rejected.
* `AppShell`: weak fairness of reading the settings, setting the flag and reading the notice, which stay
  enabled; strong fairness of `GetIndex`, `GetBundle` and `CallApi`, which a kill or a change of worker
  disables for a time: the browser answers what is asked, it does not stop a worker before each
  answer, and a page that runs calls an API again and again.
* `ToggleComms`: weak fairness of `Post`, `Answer` (that is `EveryToggleAnswered`) and `Deliver`.
* `ServerProcess`: weak fairness of the two timers and of the event "close". Handlers, clients and writes may
  take for ever; that a stop ends all the same is the point.
* `InflectionTables`: weak fairness of `ExpandRound`, a loop of a batch program.

## 6. Proofs

The theorems hold for any sets of keys, toggles, pages, dictionaries, requests, attempts, versions,
entries, texts, queries, works, corpora, windows and word sizes, under any set of faults, and under the assumptions
that each component's module names (`ConstantsFit` where it is not obvious: a query page is a number, a
corpus gives each term a set of its tokens, a work has pages, and so on). What else a theorem assumes is said
here. TLC evaluates `ConstantsFit` in every run, and checks the properties with the same names.

### Settings, completions, downloads

* `TypeCorrect`, `CacheTypeCorrect`, `DownloadTypeCorrect`: type correctness.
* `DownloadsAreBacked`: `[]NoPhantomDownload`: what is marked is in `Saved`, and without a save that hides a failure
  that is what is stored (`HiddenByFault`). Not inductive: a toggle that waits for the first read will
  write later. `PhantomInv` adds `WaitersWait`: a waiting toggle that marks a download has it saved.
* `ConfirmedSticks`: `[]AckedToggleHolds`, for behaviours in which at most one toggle waits for the first
  read and no transaction aborts after its put succeeded - the first is the condition whose
  failure `settings_lost_update` shows. Unlike in `settings_register`, puts may fail here. `AckInv` relates the queue to memory: each queued write
  differs from `current` at most at the keys of the toggles behind it (`QueueValues`), belongs to one
  living or one dead worker (`QueueOwners`), and no key being changed counts as confirmed.
* `MemoryFollowsWrites`: `MemoryStaysLatest`. `LatestInv` needs what waits as much as what is written: no two waiting
  toggles wait twice (`WaitersDiffer`), memory is there once a write is queued, and each queued write has one owner.
* `RefinesRegister`: `ImplementsRegister`, with `MaxCold = 1`, no `putError` and no `commitAbort` (the faults of the run). `RegisterInv`
  joins the two invariants above with `QueueSteps`: between two points of the queue only the keys of the toggles in
  between differ, so that a put is one write of the register and no commit changes what it holds.
* `ListsAgree`, `FetchedOnce`, `EvictionIsSafe`: from `CacheInv`, whose core is `OwnersHold`: a promise stays in
  its place in the cache until its own request has seen it rejected.
* `KeysWithEntries`, `WholeChunks`: from `WholeInv`; a stored entry comes from a chunk of its version, and
  the chunks of a version are disjoint (`ChunksDisjoint`, from `EntriesOnce`).
* `DownloadsComplete`: `[]DoneIsComplete`, from `CompleteInv`: while `clean`, everything stored is of the
  server's version, and the chunks an attempt has finished are stored.

### The machines of `Scenes`

Each theorem says of one machine, or of those that a property joins, `Spec => []` a property that the run `scenes` checks. A behaviour of
`MCScenes` is one of each machine, as a step of one leaves the variables of the others alone; so the
theorems speak of the same properties. The start of a page and the macronizer have their invariants in modules of
their own, which `ScenesProofs` instantiates (`SameShell` and `SameMacron` say that two instances of a module with the same
parameters are the same). Types are proved of all thirteen: `ShellTypeCorrect` and `MacronTypeCorrect` there, and the
theorems of `PagesProofs` and `ScenesProofs` whose names end in `TypeCorrect`.

* `BoxAlwaysFitsInput`: `[]BoxFitsInput`. `BoxInv` is the property with its types: every change
  of the input starts a fetch for it, and only what was fetched for the input is kept. After a fetch that failed a
  box may load for ever; the property says only that a loading box has a fetch that is pending or failed.
* `CorpusPageFitsItsUrl`: `[]CorpusPageFits` with `LeaveWhileLoading = FALSE`, without which `left_page` refutes it. `PageInv` says what
  each route in the history asks for, and that a call that is open and current was asked for by the route.
* `PagesAlwaysFitWorker`, `LinkedPagesStart`: `[]PagesFitWorker` and `OfflineModeServes`. `ShellInv` follows
  an installation through its two fetches: what the cache holds of a version that no deploy raced is of that version, and
  stays there until a newer worker is active (`BundleIsServed`). `CommsInv` is about who still waits for what: a listener
  was registered when its request was posted, and if that request is done a last message for its setting is under way
  (`ListenersWait`); a checkbox that is disabled, or in progress, is so for a request of the settings that are shown, which is
  to be posted or listens (`DisabledForOne`, `BusyForOne`). When that setting's requests are answered there is none, also if a
  stopped worker has lost requests for other settings; the checkboxes of the lost ones are excused. It has to be said by
  setting and not by request, because a message is taken by every listener for its setting. The announcement of offline
  mode excuses a turn in which a write failed or the worker was stopped, and no other one.
* `EntriesAlwaysFit`: `[]EntriesFitRoute`. The property leaves out a page whose word was
  removed; `DictInv` holds there too: what was rendered last is what the inputs ask (`lookedUp`), the current lookup was started for it, and
  a page that says "Loading" has a lookup that is open (`CurrentLookup`). Four inputs change independently, and each
  change has to replace the lookup in the same step.
* `NothingIsLostByStopping`: `[]StopsWithoutLoss`. `ProcessInv` adds the order of a shutdown: nothing is torn down before the server
  is closed, and a closed server has no open connection, so that after it nobody is left to be answered.
* `ReaderAlwaysFits`: `[]ReaderFits`, with `DirectJumps = FALSE` (section 7). `ReaderInv`: every fetch whose reader is still there is of
  the URL's work (`ReaderOfRoute`), and the first page of a work was visited before any other section of it and before a spot was saved
  (`FirstPagesVisited`), so that replacing a route does not lead out of the history. `ExternalInv`: a list that differs from the store will be read
  again (`ListsFollow`), a reader that is loading awaits a text (`TextFollows`), and while no request overlaps another what is awaited is what
  was asked last, and the parameter is that of the text or gone (`OneAtATime`). `GesturesInv`: a touch that nothing disturbed is known from its first point, and the
  feedback is that of its last move (`Followed`). `LayoutInv`: the text keeps between 20 and 80 % of the width (`Sizes`), and a
  drag starts with the length of its panel and no word selected (`Drags`).
* `FilesAreUnpacked`: `[]FilesUnpack`, for any files, delimiter size and pieces. `UnpackInv`: what was yielded are the first
  parts and the buffer holds the beginning of the next one (`Reading`), and the piece that is consumed goes on where the
  buffer ends (`AtPiece`). A delimiter is looked up by where it was read from, so the starts of the chunks must differ:
  the recursive function is counted along its numbers and ascends (`StartsCounted`, `StartsAscend`).
* `TermsAreAnswered`: `[]TermsMeanWhatTheySay`, for any words, analyses and atoms. The step that asks computes everything, so
  the argument is about the answer (`TermHolds`). A reading chooses one field of each category, and fields of different
  categories have a reading in common (`FieldsHaveReading`); a conjunction that is not pruned asks for one value of each
  category, except for degrees, which the pruning does not compare, and for these an analysis has one (`KeptConjunction`,
  `ConjunctionHasAnalysis`). In strict mode a field that is not asked for would make a reading of its own
  (`UnambiguousFields`). `ConstantsFit` says of an analysis what packing one enforces, several values for case and gender only, and of
  forms that are no verbal nouns the grammar by which `query_pruning.rs` rules out conjunctions; this grammar is used for
  the pruned conjunctions alone (`PrunedAreVerbalNouns`).

* `MacronsFitTheirText`: `[]MacronsFit`, for any texts, analyses, tags and limits. `MacronInv` says that what is shown is the answer
  to a text that was sent (`AnswerShown`), that the index of a word's component is one of its options (`CellTypes`), and
  that a component which was not kept from the text before has the options of the word at its place (`CellsFollow`).
  The rest is about the answer. The words of a token stand at its place, which counts the enclitics split off before
  it (`PlaceIs`), so that a tagger that answered for every word fits a token unless its enclitic is written in another
  way (`TagsFitWellWritten`). What is offered are the forms of the analyses that keep the marks, each
  once (`OptionsAre`), with all readings of that form (`ByFormHasForms`), and a suggestion is one of them that compares
  with its tag (`MatchIsReading`). `ConstantsFit` asks that texts consist of
  tokens, that every word of them has an entry (which may be empty) in the analyses, that an enclitic is not longer than
  its word and that the page's limit is at most the server's.

### The corpus engine

* `CorpusTypeCorrect`: types, and that a match lists its spans from left to right and that the next page counts the
  results shown.
* `MatchesStayGenuine`, `ShortQueriesAreAnswered`: from `QueryInv`, for every corpus, query, word size and sequence of page
  sizes. `QueryInv` itself is shallow; the work is in what one request computes. Intersections keep only tokens at which
  every term and no break is (`AndFold`, `SpanCandidatesAreThere`), a path of leaders takes them from the spans' slices in reach of
  each other (`PathsAreLeaders`), sorting keeps the leaders (`SortedPlacesListAll`), and so what the test of overlap and work
  accepts is an arrangement (`UsableIsArrangement`). A short query is answered because a candidate promises a
  leader in reach (`FuzzyIsNear`), which the search then finds (`LeaderIsFound`).
* `NoAnchorIsLost`: `[]NoAnchorLost`, the opposite direction, for a query of the whole corpus. No intersection or
  window loses the first token of an arrangement whose reach stays inside the corpus (`FuzzyIsComplete`,
  `AnchorIsCandidate`), the arrangement is one of the paths that are tried (`ArrangementIsPath`) and passes the tests of a
  match (`ArrangementIsUsable`), so a visit of its candidate finds a match with it (`AnchorIsFound`, `VisitFinds`). A page
  that stops leaves the candidates it has not come to ahead of the next one, at the index of a list or at the bit of a
  bitmask (`NextPageHasRest`). `AnchorInv` therefore says, between two pages: every such token was shown, or its
  candidate is still ahead (`Ahead`).
* `ResumedPagesTile`: `[]ResumablePagesTile`, for pages of any sizes. `TileInv`: what was shown is the whole list up to the
  candidate at which the next page begins (`BeginsAfter`). A page compares each result with the one
  before it, which the whole list knows and the first of a page does not; with directed spans a candidate's
  match starts at its own token, so the comparison makes no difference (`PreviousMakesNoDifference`). A list resumed at an
  index and a bitmask resumed at a bit then go through the same tokens, because an ascending list is known
  from its elements (`AscendingIsUnique`, `IteratorContinues`).

The provers cannot instantiate the library's induction theorems, whose parameter is a predicate. `CorpusQueryProofs` has
induction with a set in its place (`SetInduction`, from the well-foundedness of `<`), which is all that its proofs
about folds need: a fold is the last of a chain of values each made from the one before (`FoldExists`), and what the chain
keeps is shown along its numbers. `MacronPageProofs` does the same for the folds of an answer (`KeptIs`, `DistinctIs`,
`FlattenRuns`). `SelectSeq` is opaque to the provers, so a selection that is reasoned about is written as a fold (`Kept`).

Only model-checked: liveness (`EveryToggleAnswered`, `PagesConverge`, `RejectedIsEvicted`,
`EveryRequestEnds`, and in `scenes` `NothingStaysStuck` and `TablesComplete`) and anything
with ENABLED, which the prover does not treat; and the scenes that are not in
`Scenes`, most of which follow loops and trees (`IndexFilesFit`, `TextsFit`,
`QueriesMeanWhatTheySay`, `PortAgrees`, `AnalysesFitLexicon`).

## 7. What the runs found, and what is not modelled

Findings, each with a run that shows it:

* `settings_lost_update`: two toggles of different keys that reach a cold worker both resume from the
  value of the same read; the second write reverts the first, already confirmed one.
* `corpus_pages`: a bitmask that is the intersection of two adjacent terms is resumed with the ID of a
  result, not of a candidate: the same match comes back on every further page.
* `corpus_author`: the author's range is rounded to words for bitmasks, so tokens of the neighbours
  appear. Lists are sliced to the same rounded range.
* `left_page`: the corpus page writes the token of the next page into the current route even if the user has
  left it: an answer that comes late leads back, with the token of one query at another.
* `or_terms`: an `or` with a word or lemma that the corpus does not have finds nothing at all.

### Divergences that the properties leave room for

These were met while modelling. The properties name them as exceptions or the inputs of a scene avoid
them; each could be turned into a run of its own.

* Query tokens (`TokensUnderstood`): the page writes the short forms `sing`, `plur`, `imper`, `futp` when a value
  is chosen without its category (`corpus_autocomplete.tsx:54-65`, `:518`), which the server does not know
  (`analyzer_types.rs:61-118`); authors are completed and checked in any case (`:218`, `:492`) but looked up
  exactly (`corpus_query_engine.rs:76`), and one typed before the list arrives is not checked; `impf` and
  `futp` are reported as errors while they are typed (`:597`), and so is an unknown lemma, which is accepted when finished; a lemma
  keeps the capitals typed inside it.
* Query structure (`QueriesUnderstood`): `( a ) and b` is accepted by the page (`state_transitions.ts:72`) and is an error
  on the server.
* Terms (`TermsMeanWhatTheySay`): besides `or_terms`, pruning drops conjunctions that a participle, gerundive or supine
  could meet, and a strict `or` ignores its words.
* Corpus arithmetic (`WordsFit`, `NoAnchorLost`): a bit smeared to both sides leaves a gap near the end of its slice
  (`bitmask_utils.rs:249`), where the comment promises `[i - window, i + window]` (`:221`); a start below zero is compared unsigned
  (`index_data.rs:568`) and its entry dropped, although the next line clamps it with `max(0, start)`. `WordsFit` is stated with
  the documented windows and names these two cases (`CutOff`, `BeginsBefore`); also an end that is in a list costs
  an entry (`:69`); the bound of a relative index adds the start twice (`:513`, `:520`).
* Texts (`TextsFit`): stray text between sections stops the build ("Unknown node: span", `process_work.ts:611`); a row
  whose number has fewer parts than a page's is on no page; the last label of a list without an item is
  lost; a patch whose section or target is not there is silently ignored. Two rows with one number are both marked.
* Macronizer (`MacronsFit`): a text is rejected as a whole if an enclitic is not written as Morceus answers it
  (`morcronizer.ts:196`); ambiguous words of a second result keep the forms of the first (`macron.tsx:34`).
* Imported texts (`ImportsFit`): a late answer overwrites the text asked after it (`external_content_reader.tsx:115`), a saved
  link that is imported again shows an error (`:383`), and a link that failed is not tried again while the URL stays. The states
  of loading and failure are the numbers of `:33-34`, which `RenderTab` compares with strings (`:222-226`): "Loading text from
  URL ..." and "Error loading from URL!" are never displayed, the reader is blank. Back to the route without a URL leaves
  the text (`:110`).
* Settings (`NoPhantomDownload`, `PagesConverge`): a save that hid a failure is marked as downloaded (`indexdb_backing.ts:95`,
  `offline_data.ts:43`); nothing catches the rejection of a page's own read (`use_offline_settings.ts:18`); the put of a worker that was
  stopped may still be committed, of which no page hears.
* Forced offline mode (`ForcedModeIsAnnounced`): if the write of the mode or of the flag fails, or the worker is stopped between them,
  offline mode is on and no page says so (`serviceworker.ts:173-183`).
* Search box (`BoxFitsInput`): a rejected fetch leaves `loading` set (`search.tsx:107`).
* Gestures (`GesturesFit`): a touch that the system takes over leaves its first point (`gestures.tsx:49`); the overlay stays on an
  invalid section (`reader.tsx:301`); label 0 and note 0 have one key (`reader.tsx:1136`).
* Panels (`LayoutFits`): a large screen that is turned into a small one keeps the height of a drawer it did not show, which may be
  below the least one; the drawer, which resets it on a turn, is mounted on small screens only (`reader.tsx`).
* Dictionary lookups (`LookupsFit`): the places of an entry share lists of forms (`latin_dict_fetching.ts:139`); all forms of an
  analysis are shown, not those that fit (`:119`); a Latin name with an apostrophe is found by no query
  (`character_utils.ts:55`); parts of one name are shown with the forms of the first (`dictionary_v2.tsx:581`).
* Morceus (`PortMergesAlike`): degrees that differ merge to none in TypeScript and not at all in Rust; an adverb
  fits an ending without a gender in the port only.

### Limits of the models

`OfflineSettings` treats a download as one piece of work (its inside is `DictDownload`), and leaves out the
three keys that no control offers (`gesDownloaded`, `georgesDownloaded`, `eglDownloaded`). `AppShell` leaves
out the HTTP cache of the browser. `CorpusQuery`'s bitmasks are sets; `PackedIndex` compares the words with them. `NoAnchorLost`
excludes matches whose reach crosses the edges of the corpus, where the engine drops some. `ServerProcess` has no kept-alive
connections. `ReaderPage` does not jump directly between works in its run (`DirectJumps`): then the answers of the
first come over the second, a known hazard. `DictLookup` leaves out letter case; there, suffix completions are not
lower-cased, and SQL leaves an order open that IndexedDB has. `QueryLanguage` leaves out negations and lists of authors. Words that only
differ in how the two tokenizers split them (a no-break space, for example) are not in `LibraryText`.

### Not modelled

* Message encodings, storage of settings in localStorage, server-side storage and reports to GitHub: single calls or data; nothing
  is kept between them that two actors share.
* Rendering, styles, other pages: no state but that of the pages modelled.
* Lexica processing (Lewis and Short, Smith and Hall, Gaffiot and others): batch conversions without state, about the wording of one
  printed book each.
* Texts that do not come as TEI, parsing XML, stem files, numerals and preverbs of Morceus: conversions of data.
* The corpus build in Rust, an unfinished port, and the reference implementation of the engine, a test.
* Tagger servers: external programs; `MacronPage` has what they may answer.
* Build, deployment, bundler and integration tests.
