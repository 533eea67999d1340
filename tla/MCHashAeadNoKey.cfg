CONSTANTS
  LC_HC_KEYSTREAM_BLOCK = 2
  DIGEST = 2
  MaxMsg = 3
  ChunkLens <- MCChunkLens
  AadLens <- MCAadLens
  TagLens <- MCTagLens
  KeyFirst = FALSE
  Forgery = TRUE
  Reframe = FALSE
SPECIFICATION Spec
INVARIANT NoPlaintextLeak
