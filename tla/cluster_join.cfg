SPECIFICATION FairSpec
CONSTANTS
  n1 = n1
  n2 = n2
  n3 = n3
  a = a
  Nodes = {n1, n2}
  Starter = n1
  Puts = {a}
  Program <- Joining
  Meet = FALSE
  Eager = {n1, n2}
  None = None
  MaxTerm = 3
  MaxLog = 5
CHECK_DEADLOCK FALSE
PROPERTIES
  PutTakesEffect
