CONSTANTS
  Conn = {1, 2}
  Child = {1, 2}
  Pool = {1, 2}
  IP = {1, 2}
  IfId = {1, 2}
  Subnet = {{1, 2}}
  SpecName <- SpecNames
  Specs <- SmallSpecs
  MaxRequests = 2
  MaxEdits = 3
SPECIFICATION Spec
INVARIANTS TypeOK OriginalsAreUnique
PROPERTIES SeenPodsKeepTheirs
