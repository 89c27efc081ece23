CONSTANTS
  MaxVersion = 2
  MaxLoads = 2
  Faults = {"kill", "readError", "putError"}
  None = None
  Html = Html
  Keys = {offlineMode, dictionary}
  ModeKey = offlineMode
  MaxClicks = 2
  MaxMounts = 2
  MayKill = TRUE
  InputTexts = {"", " ", "a", "ab"}
  EmptyText = ""
  Blank = " "
  EmptyHasOptions = TRUE
  MaxOptions = 2
  MaxFetches = 2
  Queries = {"", "a", "b"}
  Settings = {1, 2}
  Default = 1
  Pages = 3
  MaxEntries = 4
  MaxCalls = 3
  LeaveWhileLoading = FALSE
  LatinDicts = {"L&S"}
  OtherDicts = {"S&H"}
  LatinWords = {"a"}
  GreekWords = {"g"}
  NoneShown = ""
  MaxLookups = 2
  Works = {"A", "B"}
  PagesOf <- WorkPages
  PageDepth = 1
  TypedIds <- TypedSections
  DirectJumps = FALSE
  MaxRequests = 3
  MaxProcesses = 2
  ServerFaults = {"telemetry", "dictionary", "client"}
  Files <- SmallFiles
  DelimiterSize = 2
  PieceSizes = {0, 1, 2, 3, 4, 5}
  Waiting = Waiting
  Tokens <- Forms
  WordOf <- WordOfForms
  AnalysesOf <- FormAnalyses
  FirstLemma = "amo"
  Atoms <- TermAtoms
  Analyses <- MacronAnalyses
  InputMaxLength = 40
  TypedInputs <- TypedTexts
  Taggings <- WordTaggings
  PageMaxLength = 20
  MaxInputs = 2
  Urls = {"A"}
  Titles = {"own"}
  MaxActions = 3
  Points <- TouchPoints
  LastPage = 1
  TooltipKey <- TooltipKeys
  MaxTouches = 2
  Windows <- SmallAndLarge
  SmallWidth = 900
  Positions = {100, 104, 130, 700}
  Tabs = {"Dictionary", "Outline"}
  MaxSteps = 6
SPECIFICATION Spec
CHECK_DEADLOCK FALSE
INVARIANTS
  TypeOK
  BoxFitsInput
  CorpusPageFits
  EntriesFitRoute
  StopsWithoutLoss
  TermsMeanWhatTheySay
  IndexFilesFit
  MacronsFit
  TextsFit
  PagesFitWorker
  FilesUnpack
  QueriesMeanWhatTheySay
  PortAgrees
  AnalysesFitLexicon
  ReaderFits
PROPERTIES
  OfflineModeServes
  TablesComplete
  NothingStaysStuck
