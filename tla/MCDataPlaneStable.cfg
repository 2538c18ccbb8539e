SPECIFICATION Spec
SYMMETRY ClientSymmetry
CONSTANTS
  Text <- MCText
  Key <- MCKey
  fnv1a <- MCfnv1a
  WordSize = 16
  LB = {l1}
  OrgId <- TwoOrgs
  UserKey <- MCUserKey
  Scope <- MCScope
  Client = {c1, c2}
  Payload = {p1}
  RegionName <- MCRegionName
  ClusterRegions <- Topology
  RegionLists <- StableLists
  shard_count = 5
INVARIANTS
  RegionScoped
  OrgIsolation
PROPERTIES
  AllKeysAreRegisters
