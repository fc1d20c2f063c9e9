CONSTANTS
  t1 = t1
  t2 = t2
  Root = Root
  None = None
  Threads <- MCThreads
  Positions = {"s", "a", "p", "e"}
  Start = "s"
  Moves <- MCMoves
  Pass = "pass"
  Leads <- MCLeads
  Terminal = {"e"}
  Superko = {}
  Levels <- MCLevels
  Limits <- MCTwoSearches
  Weightless = {}
  MorePassing = FALSE
  CatchUpLeak = FALSE
SPECIFICATION Spec
INVARIANTS
  QuietAtRest
  RootMovesAllowed
PROPERTIES
  SearchEnds
