CONSTANTS
  s1 = s1
  s2 = s2
  KEYSIZE = 2
  MAX_CHUNK = 4
  MaxCalls = 3
  KAT_OUTLEN = 2
  Seeds <- MCSeeds
  AlphaLens <- MCAlphaLens
  OutLens <- MCOutLens
SPECIFICATION Spec
INVARIANT TypeOK
INVARIANT KmacInputsUnique
INVARIANT SelftestVerdictCorrect
PROPERTY ImplementsFkeDrbg
