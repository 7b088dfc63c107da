CONSTANTS
  View = 2
  Arena <- MCArena
  Mazes <- MCMazes
SPECIFICATION SearchSpec
INVARIANTS
  ShortestStep
  SpillsOnlyOnDetours
CHECK_DEADLOCK FALSE
