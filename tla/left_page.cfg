CONSTANTS
  Queries = {"", "a", "b"}
  Settings = {1}
  Default = 1
  Pages = 3
  MaxEntries = 4
  MaxCalls = 3
  LeaveWhileLoading = TRUE
SPECIFICATION Spec
CHECK_DEADLOCK FALSE
INVARIANT PageTokensFit
