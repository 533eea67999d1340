CONSTANTS
  LC_HC_KEYSTREAM_BLOCK = 2
  DIGEST = 2
  MaxMsg = 3
  ChunkLens <- MCChunkLens
  AadLens <- MCAadLens
  TagLens <- MCTagLens
  KeyFirst = TRUE
  Forgery = FALSE
  Reframe = TRUE
SPECIFICATION Spec
INVARIANT Authenticity
