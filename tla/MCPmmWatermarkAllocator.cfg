\* Four windows of four one-frame blocks of two bytes; two threads.
\* A bugcheck stops the machine, hence CHECK_DEADLOCK FALSE.
CONSTANTS
  Thread = {t1, t2}
  NoThread = NoThread
  MaxPhysAddr = 31
  PageSize = 2
  NumBlocks = 4
  BitsPerBlock = 1
  RamLists <- MCRamLists
  ReservedLists <- MCReservedLists
SPECIFICATION FairSpec
INVARIANTS OnlyUsableGiven NothingPassedOver FailureAccountsForRam BugcheckOnlyOnSharedFrame
PROPERTIES ImplementsFrameAllocator LockReleased
CHECK_DEADLOCK FALSE
