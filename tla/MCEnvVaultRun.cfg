SPECIFICATION Spec
CONSTANTS
  Proc = {p}
  Env = {local}
  Var <- OneVar
  Raw <- MixedRaw
  meaning <- MCmeaning
  envfile <- MCenvfile
  Template <- AllPlain
  Pulled = {}
  Absent = Absent
  Zeros = Zeros
  Broken = Broken
INVARIANTS
  RunHasItsVariables
