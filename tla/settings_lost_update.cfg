CONSTANTS
  mode = mode
  dict = dict
  other = other
  Keys <- MCTwoKeys
  ModeKey = mode
  DownloadKeys <- MCDownloadKeys
  Tasks = {t1, t2}
  Apps = {a1}
  Faults <- NoFaults
  MaxCold = 2
  Undefined = Undefined
SPECIFICATION Spec
INVARIANT AckedToggleHolds
CHECK_DEADLOCK FALSE
