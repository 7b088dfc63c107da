CONSTANTS
  Players = {"a", "b"}
  Monsters = {"m"}
  Twins = {"n"}
  Of <- MCOf
  Width = 4
  Height = 4
  ViewRange = 1
  Ground <- MCGround
  Spawn <- MCSpawn
  Home <- MCHome
  Seats <- MCSeats
  Dens <- MCDens
  Casts <- MCCasts
  Nowhere = Nowhere
  Nobody = Nobody
SPECIFICATION MonstersSpec
INVARIANTS
  GridTracks
  CheckExact
  ClientFollows
  LastComerSeen
  MonsterWakes
  MonsterLeaves
CHECK_DEADLOCK FALSE
