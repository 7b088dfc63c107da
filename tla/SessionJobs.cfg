CONSTANTS
  Sessions = {1, 2}
  Workers = {w1, w2}
  IocpThreads = {p1, p2}
  Kinds = {"packet", "logout", "call", "bare"}
  MaxJobProcess = 1
  MaxJobs = 2
  NoJob = NoJob
SPECIFICATION FairSpec
INVARIANTS
  OneToken
  NoOrphanSession
  PacketsInOrder
  LogoutIsFinal
PROPERTIES
  ServedUnlessOutranked
  ImplementsExecutor
CHECK_DEADLOCK FALSE
