CONSTANTS
  LimbBits = 2
  Inputs <- MCInputs
SPECIFICATION Spec
INVARIANTS TypeOK ExactRows CofactorsFit SizeCoversCofactors SizeNormalized
PROPERTIES Implements

