CONSTANTS
  a1 = a1
  a2 = a2
  r1 = r1
  r2 = r2
  d1 = d1
  p1 = p1
  NoIP = NoIP
  NoReq = NoReq
  IP = {a1}
  Pool = {p1}
  Req = {r1, r2, d1}
  DryRun = {d1}
  IpPools <- OneAddress
  PoolOf <- OnePoolOf
  PendingTimeout = 1
  LeaseTTL = 1
  PersistWithin = 0
  CacheLag = 0
  MaxTime = 1
  MaxVersion = 2
  Disturbance = {"operator","restart","monitor"}
SYMMETRY RequestSymmetry
SPECIFICATION Spec
INVARIANTS TypeOK
PROPERTIES KeepsPoolPromise
