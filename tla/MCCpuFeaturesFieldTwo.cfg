CONSTANTS
  Callers = {c1}
  Hardware <- MCFieldTwoHardware
  Forcible <- MCForcible
  MaxTestCalls = 0
SPECIFICATION Spec
\* the caller returns once
CHECK_DEADLOCK FALSE
INVARIANT FeaturesMatchHardware
