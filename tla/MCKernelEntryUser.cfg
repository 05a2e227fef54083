\* How a thread gets from user mode back into the kernel.
SPECIFICATION Spec
CONSTANTS
  ByteValues = 4
  KernelThreads = {}
  UserThreads = {u}
  StubAddress <- MCStubAddress
  TssAddress = 249
  Lines = {32}
  Exceptions = {48}
  MaxTraps = 2
  KernelEnd = 16
  VirtualBase = 32
  InfoSize = 4
  ModuleSize = 2
  SpaceAddress = 64
  SpaceSize = 14
  Alignment = 2
  Strings <- MCStrings
  Loaders <- MCLoaders
  Assertions <- MCAssertions
PROPERTY UserEntersOnKernelStack
CHECK_DEADLOCK FALSE
