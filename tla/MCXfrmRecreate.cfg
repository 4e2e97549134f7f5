CONSTANTS
  lo = lo
  re = re
  fd = fd
  Route = {lo, re, fd}
  Kind <- KindOf
  Place = {1, 2}
  Want0 = {lo, re}
  MaxFaults = 0
  FaultKinds = {}
SPECIFICATION HFairSpec
PROPERTIES WantedIsInstalled
