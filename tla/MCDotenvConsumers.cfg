SPECIFICATION Spec
CONSTANTS
  Raw <- MCRaw
  character_named <- MCnames
INVARIANTS
  ConsumersAgree
  OnePass
CHECK_DEADLOCK FALSE
