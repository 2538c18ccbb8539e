SPECIFICATION Spec
CONSTANTS
  Text <- MCText
  Key <- MCKey
  fnv1a <- MCfnv1a
  WordSize = 16
  LB = {l1}
  OrgId <- OneOrg
  UserKey <- MCUserKey
  Scope <- MCScope
  Client = {c1, c2}
  Payload = {p1, p2}
  RegionName <- TwoRegions
  ClusterRegions <- Topology
  RegionLists <- DriftLists
  shard_count = 5
INVARIANTS
  TypeOK
  GlobalSingleHome
  RegionalDataStaysHome
PROPERTIES
  GlobalKeysAreRegisters
