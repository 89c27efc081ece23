CONSTANTS
  mode = mode
  dict = dict
  other = other
  Keys <- MCKeys
  ModeKey = mode
  DownloadKeys <- MCDownloadKeys
  Tasks = {t1, t2}
  Apps = {a1}
  Faults <- IoFaults
  MaxCold = 2
  Undefined = Undefined
SPECIFICATION FairSpec
PROPERTY EveryToggleAnswered
PROPERTY PagesConverge
CHECK_DEADLOCK FALSE
