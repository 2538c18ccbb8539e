SPECIFICATION Spec
CONSTANTS
  Proc = {p, q}
  Env = {local}
  Var <- TwoVars
  Raw <- TwoRaw
  meaning <- MCmeaning
  envfile <- MCenvfile
  Template <- AllPlain
  Pulled <- AllTexts
  Absent = Absent
  Zeros = Zeros
  Broken = Broken
INVARIANTS
  PublishedPlaintextIsWhole
