\* From the entry point to the idle loop, with up to four entries into the kernel.
SPECIFICATION Spec
CONSTANTS
  ByteValues = 4
  KernelThreads = {k1, k2}
  UserThreads = {u}
  StubAddress <- MCStubAddress
  TssAddress = 249
  Lines = {32, 47}
  Exceptions = {0, 8, 14, 15, 48}
  MaxTraps = 4
  KernelEnd = 16
  VirtualBase = 32
  InfoSize = 4
  ModuleSize = 2
  SpaceAddress = 64
  SpaceSize = 14
  Alignment = 2
  Strings <- MCStrings
  Loaders <- MCLoaders
  Assertions <- MCAssertions
INVARIANTS
  InfoAsLoaded
  FailsOnlyForCause
  ReportTellsTruth
  ResetsOnlyUnprepared
PROPERTY
  ResumesAsInterrupted
CHECK_DEADLOCK FALSE
