SPECIFICATION Spec
CONSTANTS
  CRUMB = 2
  USIZE = 64
  CAP = 7
  BlockSizes = {0, 1, 2, 3, 4}
  Sample = {0, 8, 15}
  MaxMsg = 4
  Foreign <- MCForeign
  MaxPads = 3
INVARIANT Unpads
INVARIANT TextIsExact
INVARIANT EqMatchesOrd
