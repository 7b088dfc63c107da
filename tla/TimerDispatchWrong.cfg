CONSTANTS
  Objects = {o1}
  Kinds = {"rollback"}
  Delays = {1}
  Senders = {t1}
  IocpThreads = {p1}
  MaxOverlaps = 2
  MaxEvents = 1
  MaxSends = 1
  MaxTime = 2
  Nothing = Nothing
SPECIFICATION Spec
INVARIANT NoWrongOperation
CHECK_DEADLOCK FALSE
