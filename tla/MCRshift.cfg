CONSTANTS
  LimbBits = 3
  Operands <- MCOperands
  Counts = {1, 2}
  Gaps = {0, 1, 3}
SPECIFICATION Spec
INVARIANTS ShiftCorrect
