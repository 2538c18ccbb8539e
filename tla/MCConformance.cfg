SPECIFICATION ConformanceSpec
CONSTANTS
  Text <- MCText
  OrgId <- MCOrgId
  Inputs <- MCInputs
  Key <- MCKey
  fnv1a <- MCfnv1a
  WordSize = 8
  RegionName <- MCRegionName
  RegionLists <- MCRegionLists
INVARIANTS
  BandsMatchReference
  RouteIsTotal
  RouteResolvesRegion
  ModelAgrees
  ReplayIsFaithful
