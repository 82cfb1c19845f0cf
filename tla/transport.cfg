SPECIFICATION FairSpec
CONSTANTS
  n1 = n1
  n2 = n2
  c1 = c1
  c2 = c2
  Nodes = {n1, n2}
  Clients = {c1, c2}
  Requests <- Program
  Pausable = {n1}
  Impatient <- Quitters
  Flaky = {n1}
  MaxCancelled = 1
  None = None
CHECK_DEADLOCK FALSE
INVARIANTS
  TypeOK
  RightNode
PROPERTIES
  WedgedForever
  CallsEnd
