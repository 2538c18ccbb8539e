CONSTANTS
  Vector <- MCVector
  Digest <- MCDigest
  Placement <- MCPlacement
SPECIFICATION Spec
INVARIANT FrozenLayout
CHECK_DEADLOCK FALSE
