CONSTANTS
  oldFile = oldFile
  newFile = newFile
  e1 = e1
  e2 = e2
  e3 = e3
  e4 = e4
  e5 = e5
  Attempts = {a1, a2, a3}
  Versions = {oldFile, newFile}
  Entries <- MCEntries
  Chunks <- MCChunks
  Faults <- AllFaults
  None = None
SPECIFICATION Spec
SYMMETRY Symmetry
INVARIANT TypeOK
INVARIANT KeysMatchEntries
INVARIANT ChunksStayWhole
INVARIANT DoneIsComplete
CHECK_DEADLOCK FALSE
