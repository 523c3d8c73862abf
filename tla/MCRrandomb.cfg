CONSTANTS
  BITS = 6
  LOGBITS = 2
  RANDCALL = 6
  NBits <- MCNBits
  AllocInit <- MCAllocInit
  UninitNbits <- MCUninitNbits
SPECIFICATION Spec
INVARIANTS TypeOK BitPosInRange ResultNormalized StoresWithinAlloc
