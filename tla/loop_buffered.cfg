SPECIFICATION FairSpec
CONSTANTS
  Caps = {c1}
  Users = {u1, u2}
  API = {"pause", "resume", "stop"}
  QueueCap = 1
  FatalExits = TRUE
  MaxCalls = 1
  MaxUses = 2
  MaxSenders = 1
  Loop = Loop
  NoOne = NoOne
CHECK_DEADLOCK FALSE
PROPERTIES
  ResumeTakesEffect
  ForcedStop
