CONSTANTS
  Players = {a, b}
  Tiles = {s, t}
  Slots = 2
  MaxDrops = 3
  MaxSteps = 3
SPECIFICATION Spec
SYMMETRY Symmetry
INVARIANTS
  ItemsConserved
  OneMoneySlot
  BagFollows
CHECK_DEADLOCK FALSE
