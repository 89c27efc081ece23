CONSTANTS
  Dicts = {d1, d2}
  Queries = {q1}
  Requests = {r1, r2, r3}
  None = None
SPECIFICATION FairSpec
INVARIANT TypeOK
INVARIANT AnswersAgree
INVARIANT OneFetchPerList
PROPERTY EvictsOnlyRejected
PROPERTY RejectedIsEvicted
PROPERTY EveryRequestEnds
CHECK_DEADLOCK FALSE
