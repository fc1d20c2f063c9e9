CONSTANTS
  t1 = t1
  t2 = t2
  NoRequest = NoRequest
  Threads <- MCThreads
  MaxRequests = 2
  MaxTurns = 2
  MaxPartials = 1
  Priority <- MCPriority
  LimitedRequests <- SomeLimited
  ReportingRequests <- MCReporting
SPECIFICATION Spec
INVARIANTS
  ExactlyOneFinalResponse
  StopMeantForRequest
  NoUseAfterDelete
PROPERTIES
  FinalIsLast
  ResponsesCome
  QuitEnds
