CONSTANTS
  Bytes = {0, 1}
  Words = {0, 1}
SPECIFICATION Spec
INVARIANT AddressSurvives
