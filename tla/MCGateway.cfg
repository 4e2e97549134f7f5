CONSTANTS
  Conn = {1}
  Child = {1, 2}
  Answering = {1}
  Spec0 <- TwoChildren
  QueueCap = 1
  FaultKinds = {"lose", "crash", "restart", "http", "api", "refuse", "edit", "write", "admit"}
  MaxFaults = 1
SPECIFICATION FairSpec
INVARIANTS TypeOK CacheOnlyRaises
PROPERTIES KeepsStatusPromise OnlySharedMapUnnames  CacheAgrees PresentIsUp
