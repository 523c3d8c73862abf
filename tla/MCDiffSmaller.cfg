CONSTANTS
  LimbBits = 2
  Triples <- MCTriples
SPECIFICATION Spec
INVARIANTS AgreesWithSlow
