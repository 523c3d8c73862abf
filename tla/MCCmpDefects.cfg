CONSTANTS
  BITS = 3
  INTBITS = 8
  Operands <- MCDefectOperands
  Calls <- MCDefectCalls
SPECIFICATION Spec
INVARIANT CmpSign
