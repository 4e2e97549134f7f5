CONSTANTS
  a1 = a1
  a2 = a2
  r1 = r1
  r2 = r2
  d1 = d1
  p1 = p1
  NoIP = NoIP
  NoReq = NoReq
  IP = {a1, a2}
  Pool = {p1}
  Req = {r1, r2}
  DryRun = {}
  IpPools <- OnePool
  PoolOf <- OnePoolOf
  PendingTimeout = 2
  LeaseTTL = 1
  PersistWithin = 1
  CacheLag = 0
  MaxTime = 2
  MaxVersion = 3
  Disturbance = {}
SYMMETRY Symmetry
SPECIFICATION Spec
INVARIANTS OneOwnerPerIP
