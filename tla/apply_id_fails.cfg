SPECIFICATION Spec
CONSTANTS
  Keys = {k1}
  Values = {a}
  Ids = {n1, n2}
  Self = n1
  ZeroId = ZeroId
  None = None
  IdCallFails = TRUE
  Proposals <- Joins
  MaxMessages = 0
  MaxLog = 2
CHECK_DEADLOCK FALSE
INVARIANTS
  ViewFollowsConf
