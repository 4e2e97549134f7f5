CONSTANTS
  Conn = {1, 2}
  Child = {1}
  Answering = {2}
  Spec0 <- OneChild
  QueueCap = 1
  FaultKinds = {"lose"}
  MaxFaults = 1
SPECIFICATION FairSpec
PROPERTIES RestartErrorsAreSkipped
