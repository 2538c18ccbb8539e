SPECIFICATION WrapperSpec
CONSTANTS
  Arg <- MCArg
  NotUnicode <- MCNotUnicode
  Key <- MCKey
  fnv1a <- MCfnv1a
  WordSize = 512
  F64 <- MCF64
  distance_km_to <- MCdistance_km_to
  f64_of <- MCf64_of
  u32_of <- MCu32_of
  Environments <- FewEnvironments
  assignment <- MCassignment
  WrapperLines <- DirectOnly
  CommandLines <- CountCommandLines
INVARIANTS
  NeverPanics
CHECK_DEADLOCK FALSE
