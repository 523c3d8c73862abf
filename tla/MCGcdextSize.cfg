CONSTANTS
  LimbBits = 2
  THRESHOLD = 4
  Inputs <- MCInputs
SPECIFICATION Spec
INVARIANTS ResultNormalized
