SPECIFICATION FairCoordinationSpec
CONSTANTS
  Text <- MCText
  OrgId <- MCOrgId
  Key <- MCKey
  fnv1a <- MCfnv1a
  WordSize = 8
  Client = {c1, c2}
  Participant = {p1, p2}
  Domain <- MCDomain
  LockName = {x, y}
  Service = {s1, s2}
  Watcher = {w1}
  shard_count = 4
INVARIANTS
  TypeOK
  MutualExclusion
  NoStrandedLocks
  DomainInOneShard
PROPERTIES
  UnionLocksAreOneTable
  LocksComeFree
  ServicesAreOneDirectory
