CONSTANTS
  Group = {1, 2}
  Conn = {1, 2}
  Node = {1, 2}
  Node0 <- OnNodeOne
  Home0 <- FirstHome
  FaultKinds = {"evict", "slow", "die", "crash", "setup", "secret", "http", "restart", "relocate", "ungroup", "connect", "disconnect", "rehome"}
  MaxFaults = 2
SPECIFICATION FairSpec
INVARIANTS TypeOK
PROPERTIES SteadyPodsStay UsedGroupsServe UnusedGroupsGo
CHECK_DEADLOCK FALSE
