CONSTANTS
  R = 3
  Paddings <- MCPaddings
  MaxMsg = 10
  MaxOut = 11
  UpdateAfterFinal = TRUE
  AbsorbLens <- MCAbsorbLens
  SqueezeLens <- MCSqueezeLens
SPECIFICATION Spec
INVARIANT AbsorbMatchesOneShot
