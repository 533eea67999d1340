CONSTANTS
  Callers = {c1, c2}
  Hardware <- MCHardware
  Forcible <- MCForcible
  MaxTestCalls = 1
SPECIFICATION Spec
\* every caller returns once
CHECK_DEADLOCK FALSE
INVARIANT NoPhantomFeature
