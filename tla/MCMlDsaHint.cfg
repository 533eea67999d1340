CONSTANTS
  N = 4
  K = 2
  OMEGA = 3
  MaxAttempts = 2
  Garbage <- MCGarbage
SPECIFICATION Spec
\* a verification ends the run
CHECK_DEADLOCK FALSE
INVARIANT TypeOK
INVARIANT SignedHintVerifies
INVARIANT CanonicalEncoding
