SPECIFICATION MCSpec
CONSTANTS
  Parts = {"messages"}
  N = 3
  Start = 0
  End = 1
  None = None
  Requests <- FewRequests
  Topologies <- OnePair
  Fragile <- ThirdModel
  Faulty <- NoModels
  Repeating <- NoModels
  Keys = {0, 1, 2}
  MaxPending = 2
INVARIANT EveryModelIsEnded
CHECK_DEADLOCK FALSE
