SPECIFICATION Spec
CONSTANTS
  Keys = {k1}
  Values = {a}
  Ids = {n1, n2}
  Self = n1
  ZeroId = ZeroId
  None = None
  IdCallFails = FALSE
  Proposals <- Membership
  MaxMessages = 1
  MaxLog = 3
CHECK_DEADLOCK FALSE
INVARIANTS
  TypeOK
  DurableFirst
  AppliedIsDone
  ViewFollowsConf
PROPERTIES
  KeepsPromise
