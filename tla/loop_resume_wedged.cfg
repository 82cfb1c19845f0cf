SPECIFICATION FairSpec
CONSTANTS
  Caps = {c1}
  Users = {u1}
  API = {"pause", "resume"}
  QueueCap = 0
  FatalExits = TRUE
  MaxCalls = 1
  MaxUses = 2
  MaxSenders = 1
  Loop = Loop
  NoOne = NoOne
CHECK_DEADLOCK FALSE
PROPERTIES
  ResumeTakesEffect
