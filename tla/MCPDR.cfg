CONSTANTS
  a = a
  b = b
  c = c
  Symbols <- ThreeBits
  Inputs = {0, 1}
  MaxK = 4
  Problems <- CheckedProblems
SPECIFICATION Spec
INVARIANTS
  PdrInvariant
  EquivalentIsSound
  BoundsAreReal
PROPERTIES
  Terminates
