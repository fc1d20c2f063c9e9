CONSTANTS
  genMove = genMove
  ponder = ponder
  analyze = analyze
  None = None
  Searches <- MCSearches
  Moving <- MCMoving
  Sync <- MCSync
  Ponders <- MCPonders
  Limited <- MCLimited
  Reporting <- MCReporting
  Early <- MCEarly
  Periodic <- MCPeriodic
  Throwing <- MCThrowing
SPECIFICATION BotSpec
INVARIANTS
  SearchNotMutatedWhileRunning
  ReportsOnlyDuringSearch
  NoLostWakeup
PROPERTIES
  SyncReturnsMove
  ImplementsService
  ThreadsComeBack
\* The destructor waits forever for a search that threw.
CHECK_DEADLOCK FALSE
