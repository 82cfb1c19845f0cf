SPECIFICATION FairSpec
CONSTANTS
  Caps = {c1}
  Users = {u1, u2}
  API = {"stop"}
  QueueCap = 0
  FatalExits = FALSE
  MaxCalls = 1
  MaxUses = 2
  MaxSenders = 2
  Loop = Loop
  NoOne = NoOne
CHECK_DEADLOCK FALSE
INVARIANTS
  CauseSurvives
  OneCauseIsSafe
PROPERTIES
  StopReturns
