CONSTANTS
  Callers = {c1}
  Hardware <- MCApple
  Forcible <- MCForcible
  MaxTestCalls = 0
SPECIFICATION Spec
\* the caller returns once
CHECK_DEADLOCK FALSE
INVARIANT FeaturesMatchHardware
