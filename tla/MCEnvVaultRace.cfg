SPECIFICATION Spec
CONSTANTS
  Proc = {p, q}
  Env = {local}
  Var <- OneVar
  Raw <- TwoRaw
  meaning <- MCmeaning
  envfile <- MCenvfile
  Template <- AllPlain
  Pulled = {}
  Absent = Absent
  Zeros = Zeros
  Broken = Broken
PROPERTIES
  SealedStaysReadable
