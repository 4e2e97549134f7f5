CONSTANTS
  Group = {1}
  Conn = {1}
  Node = {1}
  Node0 <- OnNodeOne
  Home0 <- FirstHome
  FaultKinds = {"evict"}
  MaxFaults = 1
SPECIFICATION FairSpec
PROPERTIES CharonComesBack
CHECK_DEADLOCK FALSE
