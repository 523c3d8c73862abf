CONSTANTS
  BITS = 3
  INTBITS = 8
  Operands <- MCOperands
  Calls <- MCCalls
SPECIFICATION Spec
INVARIANTS CmpUiSign CmpSiSign
