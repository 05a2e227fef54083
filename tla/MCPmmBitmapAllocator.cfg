\* Two CPUs and three blocks, so that the scan wraps round in the middle, of a
\* region that starts at frame 0, so PHYS_NULL is in it.  Every step of a call
\* under way is fair; no symmetry, because of the liveness.
CONSTANTS
  CPU = {c1, c2}
  NumBlocks = 3
  BitsPerBlock = 2
  BaseFrame = 0
SPECIFICATION FairSpec
INVARIANTS OnePlace NoneLost NoBugcheck FailureMeansScanned FirstFit
PROPERTIES ImplementsFrameAllocator SomeCallReturns AloneReturns
