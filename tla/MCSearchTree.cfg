CONSTANTS
  t1 = t1
  t2 = t2
  Root = Root
  None = None
  Threads <- MCThreads
  Positions = {"s", "a", "p", "e"}
  Start = "s"
  Moves <- MCMoves
  Pass = "pass"
  Leads <- MCLeads
  Terminal = {"e"}
  Superko <- MCSuperko
  Levels <- MCLevels
  Limits <- MCOneSearch
  Weightless = {"pass"}
  MorePassing = TRUE
  CatchUpLeak = TRUE
SPECIFICATION Spec
INVARIANTS
  SlotsWellFormed
  EvaluatedBeforeExpanded
  VirtualLossesHeld
  VisitsAccounted
  StatsUpToDate
  LimitPassedByThreads
SYMMETRY MCSymmetry
