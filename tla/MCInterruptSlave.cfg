\* What is left in service once the handlers have returned.
CONSTANTS
  DeviceIrqs = {1, 8}
  MaskedIrqs = {}
SPECIFICATION Spec
INVARIANT NothingLeftInService
