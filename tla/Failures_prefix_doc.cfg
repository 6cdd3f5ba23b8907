SPECIFICATION MCSpec
CONSTANTS
  Parts = {"names"}
  N = 3
  Start = 0
  End = 1
  None = None
  Requests <- FewRequests
  Topologies <- ToTheFirst
  Fragile <- NoModels
  Faulty <- NoModels
  Repeating <- NoModels
  Keys = {0, 1}
  MaxPending = 2
  PrefixOf <- FirstOfSecond
PROPERTY OnlyOwnDataDeleted
CHECK_DEADLOCK FALSE
