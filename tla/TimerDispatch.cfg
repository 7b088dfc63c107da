CONSTANTS
  Objects = {o1}
  Kinds = {"move", "rollback"}
  Delays = {1}
  Senders = {t1}
  IocpThreads = {p1, p2}
  MaxOverlaps = 3
  MaxEvents = 2
  MaxSends = 1
  MaxTime = 2
  Nothing = Nothing
SPECIFICATION FairSpec
INVARIANTS
  OneOwner
  LostOnlyBy
PROPERTIES
  ImplementsCalls
  EveryEventHandled
CHECK_DEADLOCK FALSE
