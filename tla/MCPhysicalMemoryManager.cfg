\* Two windows of two one-frame blocks of four bytes; two bytes to a kilobyte and
\* four to a megabyte.  The kernel is in the second window: frame 1 is usable or not.
\* A bugcheck stops the machine, and so does the last window, hence CHECK_DEADLOCK FALSE.
CONSTANTS
  MaxPhysAddr = 15
  PageSize = 4
  KiloByte = 2
  MegaByte = 4
  KernelLoad = 8
  KernelEnd = 10
  NumBlocks = 2
  BitsPerBlock = 1
  BootInfos <- MCBootInfos
SPECIFICATION FairSpec
INVARIANTS StageOneCoversRam WindowFilled
PROPERTIES ListsImplementCursor StageOneEnds
CHECK_DEADLOCK FALSE
