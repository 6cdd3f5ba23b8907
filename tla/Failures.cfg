SPECIFICATION MCFairSpec
CONSTANTS
  Parts = {"messages", "names", "in_process"}
  N = 3
  Start = 0
  End = 1
  None = None
  Requests <- FewRequests
  Topologies <- ToTheFirst
  Fragile <- SecondModel
  Faulty <- NoModels
  Repeating <- NoModels
  Keys = {0}
  MaxPending = 2
  PrefixOf <- FirstOfSecond
INVARIANTS OneExchange NoCommandRefused ExitCodeIsTruthful UpdatesAreSafe
PROPERTIES NothingAfterQuit OrchestratorStops UpdatesAreDelivered ReadersTerminate Returns
CHECK_DEADLOCK FALSE
