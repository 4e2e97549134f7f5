CONSTANTS
  lo = lo
  re = re
  fd = fd
  Route = {lo, re, fd}
  Kind <- KindOf
  Place = {1, 2}
  Want0 = {lo, fd}
  MaxFaults = 3
  FaultKinds = {"add", "remove", "move", "off", "write", "api", "http", "setup", "evict", "die", "restart"}
SPECIFICATION HFairSpec
INVARIANTS TypeOK GatewayIsSetUp NotedWasHad
PROPERTIES NotesAddUp PodComesBack RoutesArrive
