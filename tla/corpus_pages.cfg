CONSTANTS
  a = a
  b = b
  WordSize = 2
  NumTokens = 6
  Terms <- MCTerms
  WorkStarts <- MCWorks
  HardBreaks <- MCBreaks
  Indices <- MCIndices
  Queries <- AdjacentTerms
  PageSizes = {1, 2}
  MaxShown = 6
  NoAuthor = NoAuthor
  NoPage = NoPage
SPECIFICATION Spec
CHECK_DEADLOCK FALSE
INVARIANT PagesTile
