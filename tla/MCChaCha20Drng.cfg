CONSTANTS
  WORD_BITS = 2
  MaxCalls = 4
  SeedLens <- MCSeedLens
  GenLens <- MCGenLens
SPECIFICATION Spec
INVARIANT TypeOK
INVARIANT KeystreamUnique
INVARIANT KeyNotFromReleased
