CONSTANTS
  Callers = {c1, c2}
  Hardware <- MCCryptoV80
  Forcible <- MCForcible
  MaxTestCalls = 0
SPECIFICATION Spec
\* every caller returns once
CHECK_DEADLOCK FALSE
PROPERTY DetectionSettles
