CONSTANTS
  LimbBits = 2
  HGCD_SCHOENHAGE_THRESHOLD = 8
  ItchBound = 10
  Inputs <- MCInputs
SPECIFICATION Spec
INVARIANTS TypeOK ExactRows CofactorsFit SubCallFits SizeCoversCofactors SizeNormalized ItchSuffices
PROPERTIES Implements
