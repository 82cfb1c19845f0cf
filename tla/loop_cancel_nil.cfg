SPECIFICATION Spec
CONSTANTS
  Caps = {c1}
  Users = {u1}
  API = {}
  QueueCap = 0
  FatalExits = TRUE
  MaxCalls = 0
  MaxUses = 0
  MaxSenders = 2
  Loop = Loop
  NoOne = NoOne
CHECK_DEADLOCK FALSE
INVARIANTS
  NoNilCause
