CONSTANTS
  Callers = {c1}
  Hardware <- MCAesSha1Hardware
  Forcible <- MCForcible
  MaxTestCalls = 0
SPECIFICATION Spec
\* the caller returns once
CHECK_DEADLOCK FALSE
INVARIANT FeaturesMatchHardware
