\* Devices on both chips, on lines above and below the chained one.
CONSTANTS
  DeviceIrqs = {1, 5, 8, 12}
  MaskedIrqs = {5, 8}
SPECIFICATION FairSpec
INVARIANTS InterruptsAreHandled HandlerMatchesLine
PROPERTIES DismissesItsOwn MasterServed
