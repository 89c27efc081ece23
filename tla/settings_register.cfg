CONSTANTS
  mode = mode
  dict = dict
  other = other
  Keys <- MCTwoKeys
  ModeKey = mode
  DownloadKeys <- MCDownloadKeys
  Tasks = {t1, t2, t3}
  Apps = {}
  Faults <- ReadFaults
  MaxCold = 1
  Undefined = Undefined
SPECIFICATION Spec
INVARIANT AckedToggleHolds
PROPERTY ImplementsRegister
CHECK_DEADLOCK FALSE
