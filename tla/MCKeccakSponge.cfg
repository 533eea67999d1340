CONSTANTS
  R = 3
  Paddings <- MCPaddings
  MaxMsg = 10
  MaxOut = 11
  UpdateAfterFinal = FALSE
  AbsorbLens <- MCAbsorbLens
  SqueezeLens <- MCSqueezeLens
SPECIFICATION Spec
INVARIANT TypeOK
INVARIANT AbsorbMatchesOneShot
INVARIANT SqueezeMatchesOneShot
