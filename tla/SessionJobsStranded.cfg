CONSTANTS
  Sessions = {1, 2}
  Workers = {w1, w2}
  IocpThreads = {p1}
  Kinds = {"call"}
  MaxJobProcess = 5
  MaxJobs = 3
  NoJob = NoJob
SPECIFICATION Spec
INVARIANT NoStrandedJob
CHECK_DEADLOCK FALSE
