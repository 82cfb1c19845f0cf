SPECIFICATION Spec
CONSTANTS
  Caps = {c1, c2}
  Users = {u1, u2}
  API = {"pause", "resume", "stop"}
  QueueCap = 0
  FatalExits = FALSE
  MaxCalls = 2
  MaxUses = 2
  MaxSenders = 2
  Loop = Loop
  NoOne = NoOne
SYMMETRY Symmetry
CHECK_DEADLOCK FALSE
INVARIANTS
  TypeOK
  PauseLockHeld
  PausedMeansParked
  ErrorNeverLost
PROPERTIES
  InOrder
  PausedSendNeverReturns
