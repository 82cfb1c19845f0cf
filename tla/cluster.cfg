SPECIFICATION FairSpec
CONSTANTS
  n1 = n1
  n2 = n2
  n3 = n3
  a = a
  Nodes = {n1, n2, n3}
  Starter = n1
  Puts = {a}
  Program <- Asks
  Meet = TRUE
  Eager = {n1, n3}
  None = None
  MaxTerm = 3
  MaxLog = 5
CHECK_DEADLOCK FALSE
INVARIANTS
  TypeOK
  StarterUnknown
  CommittedAgree
  MapsAgree
PROPERTIES
  CommitsHeld
  NeverDeposed
  KeepsPromise
  PutTakesEffect
