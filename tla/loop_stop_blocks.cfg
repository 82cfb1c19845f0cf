SPECIFICATION FairSpec
CONSTANTS
  Caps = {c1}
  Users = {u1, u2}
  API = {"pause", "resume", "stop"}
  QueueCap = 0
  FatalExits = TRUE
  MaxCalls = 0
  MaxUses = 1
  MaxSenders = 1
  Loop = Loop
  NoOne = NoOne
CHECK_DEADLOCK FALSE
PROPERTIES
  StopReturns
