CONSTANTS
  Players = {u1}
  IocpThreads = {p1, p2}
  MaxHp = 2
  Powers = {1, 2}
  MonType = "agro"
  InitStates = {"patrol", "garbage"}
  MaxOps = 4
SPECIFICATION FairSpec
INVARIANTS
  NeverStuck
  DeadRespawns
  NoWalkingDead
PROPERTIES
  Respawns
  SleepsUnwatched
CHECK_DEADLOCK FALSE
