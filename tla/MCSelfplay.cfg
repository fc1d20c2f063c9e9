CONSTANTS
  g1 = g1
  g2 = g2
  Games <- MCGames
  MaxModels = 2
  MaxGames = 3
  QueueSize = 1
  SwitchMidGame = TRUE
SPECIFICATION Spec
INVARIANTS
  HeldModelsManaged
  AssertionsHold
PROPERTIES
  FinishedGamesWritten
  SelfplayEnds
