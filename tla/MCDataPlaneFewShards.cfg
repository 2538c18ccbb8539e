SPECIFICATION Spec
CONSTANTS
  Text <- MCText
  Key <- MCKey
  fnv1a <- MCfnv1a
  WordSize = 16
  LB = {l1}
  OrgId <- OneOrg
  UserKey <- MCUserKey
  Scope <- MCScope
  Client = {c1}
  Payload = {p1}
  RegionName <- WideNames
  ClusterRegions <- WideTopology
  RegionLists <- WideLists
  shard_count = 2
INVARIANTS
  RegionScoped
