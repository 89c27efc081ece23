CONSTANTS
  mode = mode
  dict = dict
  other = other
  Keys <- MCTwoKeys
  ModeKey = mode
  DownloadKeys <- MCDownloadKeys
  Tasks = {t1, t2, t3}
  Apps = {a1}
  Faults <- AllFaults
  MaxCold = 2
  Undefined = Undefined
SPECIFICATION Spec
SYMMETRY Symmetry
INVARIANT TypeOK
INVARIANT NoPhantomDownload
PROPERTY MemoryStaysLatest
CHECK_DEADLOCK FALSE
