CONSTANTS
  LimbBits = 2
  Inputs <- MCInputs
SPECIFICATION Spec
INVARIANT StackBalancedOnReturn
