------------------------------- MODULE Scenes -------------------------------
(***************************************************************************)
(* Machines of the pages and of the server, and what is promised of each.  *)
(* They share no state: a behaviour of all of them is a behaviour of each. *)
(***************************************************************************)
EXTENDS Integers, Sequences, FiniteSets

CONSTANTS
  MaxVersion, MaxLoads, Faults, None, Html,
  Keys, ModeKey, MaxClicks, MaxMounts, MayKill,
  InputTexts, EmptyText, Blank, EmptyHasOptions, MaxOptions, MaxFetches,
  Queries, Settings, Default, Pages, MaxEntries, MaxCalls, LeaveWhileLoading,
  LatinDicts, OtherDicts, LatinWords, GreekWords, NoneShown, MaxLookups,
  Works, PagesOf(_), PageDepth, TypedIds, DirectJumps,
  MaxRequests, MaxProcesses, ServerFaults,
  Files, DelimiterSize, PieceSizes, Waiting,
  Tokens, WordOf, AnalysesOf, FirstLemma, Atoms,
  Analyses, InputMaxLength, TypedInputs, Taggings, PageMaxLength, MaxInputs,
  Urls, Titles, MaxActions,
  Points, LastPage, TooltipKey, MaxTouches,
  Windows, SmallWidth, Positions, Tabs, MaxSteps

VARIABLES
  server, online, active, newer, index, bundles, memory, stored, inMemory, notice, page,
  loads, raced, forced, disturbed,
  requests, boxes, mount, mounted, listeners, toPage,
  input, options, loading, cursor, focused, interacting, fetches, effectDue,
  entries, at, calls, results, asked,
  dictPage, dictRoute, visited, initial, dictsToUse, inflectedSearch, lookups, lookup,
  lookedUp, dictState, internalLink,
  rRoute, rVisited, work, translation, texts, saved,
  proc, starts, telemetry, dicts, served, forceClose, faulty, lost,
  lens, sent, nextPiece, buffer, expected, expecting, yielded, status,
  term, strict, matching,
  rawInput, sending, answered, shown, cells, reused, currentWord, dictWord, requestsLeft,
  tab, readerText, fromUrl, awaited, savedRows, contentIndex, storing, linkImports,
  processState, lastAsked, overlapped, actionsLeft,
  finger, touchData, fast, isSwiping, overlayOpacity, swipeDir, loadState, currentPage,
  openTooltips, hasTooltip, swipeNavigation, tapNavigation, menuVisible, turn, meddled,
  touchesLeft,
  screen, drawerHeight, drawerMinimized, sidebarTab, shownWord, gutterSize, mainWidth, drag,
  selecting, stepsLeft

Shell == INSTANCE AppShell
Comms == INSTANCE ToggleComms
Search == INSTANCE SearchBox WITH Texts <- InputTexts, Empty <- EmptyText
Corpus == INSTANCE CorpusPage
Dict == INSTANCE DictionaryPage WITH Words <- LatinWords, NoWord <- NoneShown
Reader == INSTANCE ReaderPage WITH Pages <- PagesOf, fetches <- texts
Process == INSTANCE ServerProcess
Unpack == INSTANCE StreamUnpack WITH next <- nextPiece
Term == INSTANCE QueryTerms
Macron == INSTANCE MacronPage WITH Typed <- TypedInputs, MaxRequests <- MaxInputs
External == INSTANCE ExternalContent WITH loading <- awaited, text <- readerText, rows <- savedRows
Gestures == INSTANCE MobileReader WITH work <- loadState, disturbed <- meddled
Layout == INSTANCE ReaderLayout WITH Words <- LatinWords, dictWord <- shownWord, pending <- selecting

-----------------------------------------------------------------------------
\* In offline mode a page whose index.html was cached gets its bundle.
OfflineModeServes == Shell!OfflineModeServes

\* Options and cursor fit the text; a box that loads has a fetch that is pending or failed.
BoxFitsInput == Search!BoxFitsInput

\* The corpus page shows what its URL asks, whose page tokens are its own.
CorpusPageFits == Corpus!CorpusPageFits

\* What the dictionary page shows answers what is asked now.
EntriesFitRoute == Dict!EntriesFitRoute

\* A stop of the server loses no request without a fault, and its telemetry goes
\* down after the last answer.
StopsWithoutLoss == Process!StopsWithoutLoss

\* A term of a query finds the tokens that meet it.
TermsMeanWhatTheySay == Term!TermsMeanWhatTheySay

\* The words of a text get the forms that fit their marks and their own tags, and are shown so.
MacronsFit == Macron!MacronsFit

\* The cached index.html and bundle fit, offline mode is announced but for three
\* exceptions, and no checkbox is left disabled when its own requests are settled.
PagesFitWorker ==
  /\ Shell!ShellConsistent
  /\ Comms!SettledIsUsable

\* The parts of a file come in order, each with its own bytes, and exactly the
\* files that end with a part are accepted.
FilesUnpack ==
  /\ Unpack!PartsInOrder
  /\ Unpack!AcceptedAtPartEnd
  /\ Unpack!WholeFileAccepted

\* The reader shows the text of its URL; of imported texts, asked one at a time,
\* the one of the last URL, or it is blank; saved spots exist, a swipe turns a
\* page as its feedback has shown, and panels follow the pointer.
ReaderFits ==
  /\ Reader!WorksAndSpotsFit
  /\ External!ImportsFit
  /\ Gestures!GesturesFit
  /\ Layout!LayoutFits

=============================================================================
