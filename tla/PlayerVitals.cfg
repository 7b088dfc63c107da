CONSTANTS
  Powers = {35, 60}
  Rewards = {50, 100}
  MaxHits = 2
  MaxUses = 2
  MaxKills = 1
SPECIFICATION FairSpec
INVARIANTS
  TypeOK
  Alive
  HealPending
  ExpConserved
PROPERTY Recovers
CHECK_DEADLOCK FALSE
