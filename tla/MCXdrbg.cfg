CONSTANTS
  s1 = s1
  s2 = s2
  KEYSIZE = 2
  CHUNKSIZE = 2
  MaxCalls = 3
  Seeds <- MCSeeds
  AlphaLens <- MCAlphaLens
  OutLens <- MCOutLens
SPECIFICATION Spec
INVARIANT TypeOK
INVARIANT XofInputsUnique
INVARIANT KeyNeverReleased
INVARIANT EncodeSeparates
