CONSTANTS
  WORD_BITS = 2
  MaxCalls = 4
  SeedLens <- MCSeedLens
  GenLens <- MCGenLensLong
SPECIFICATION Spec
INVARIANT KeystreamUnique
