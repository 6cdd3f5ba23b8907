SPECIFICATION MCSpec
CONSTANTS
  Parts = {"messages", "data"}
  N = 3
  Start = 0
  End = 1
  None = None
  Requests <- AllRequests
  Topologies <- AllTopologies
  Fragile <- NoModels
  Faulty <- NoModels
  Repeating <- AllModels
  Keys = {0, 1, 2}
  MaxPending = 2
INVARIANTS TypeOK UpdatesAreCurrent NoRequestSkipped QuiescentBetweenTimes NobodyIsLeftBehind UpdatesAreKept
PROPERTIES KeepsTheClock KeepsProtocol
CHECK_DEADLOCK FALSE
