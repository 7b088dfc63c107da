CONSTANTS
  c1 = c1
  c2 = c2
  n1 = n1
  n2 = n2
  Clients <- MCClients
  Names <- MCNames
  Choices <- MCChoices
  MaxUser = 2
  IocpThreads = {p1}
  MaxFails = 1
  MaxSends = 1
  NoName = NoName
SPECIFICATION FairSpec
INVARIANTS
  OneConnection
  Noticed
  NamesakesRaced
PROPERTIES
  GoneForGood
  Admitted
CHECK_DEADLOCK FALSE
