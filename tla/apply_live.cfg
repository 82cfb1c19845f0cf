SPECIFICATION FairSpec
CONSTANTS
  Keys = {k1}
  Values = {a, b}
  Ids = {n1}
  Self = n1
  ZeroId = ZeroId
  None = None
  IdCallFails = FALSE
  Proposals <- Data
  MaxMessages = 0
  MaxLog = 3
CHECK_DEADLOCK FALSE
PROPERTIES
  KeepsPromise
  AppliesCommitted
