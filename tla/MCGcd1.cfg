CONSTANTS
  LimbBits = 4
  Pairs <- MCPairs
SPECIFICATION Spec
INVARIANTS LoopKeepsGcd
PROPERTIES ReturnsGcd
