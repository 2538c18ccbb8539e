SPECIFICATION WrapperSpec
CONSTANTS
  Arg <- MCArg
  NotUnicode <- MCNotUnicode
  Key <- MCKey
  fnv1a <- MCfnv1a
  WordSize = 512
  F64 <- MCF64
  distance_km_to <- MCdistance_km_to
  f64_of <- MCf64_of
  u32_of <- MCu32_of
  Environments <- MCEnvironments
  assignment <- MCassignment
  WrapperLines <- MCWrapperLines
  CommandLines <- MCCommandLines
INVARIANTS
  AnswerIsWhatWasAsked
  OperatorSeesRequestShard
  WrapperAnswersAsTool
CHECK_DEADLOCK FALSE
