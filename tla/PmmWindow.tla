------------------------------ MODULE PmmWindow ------------------------------
(***************************************************************************)
(* The window Source/Kernel/MM/PmmWatermarkAllocator.c keeps in a bitmap:  *)
(* the frames of one stretch of the address space, by their numbers, and   *)
(* what a region of physical memory has of them.                           *)
(***************************************************************************)
EXTENDS PmmRegion

CONSTANTS NumBlocks, BitsPerBlock     \* of the window's bitmap

WindowFrames == NumBlocks * BitsPerBlock
WindowSize   == WindowFrames * PageSize     \* REGION_SIZE_IN_BYTES

(* "NUM_BLOCKS must be a power of two so that the physical address space   *)
(* can be evenly divided into equal-sized windows!"                        *)
ASSUME WindowAssumption ==
  /\ NumBlocks \in Nat \ {0}
  /\ BitsPerBlock \in Nat \ {0}
  /\ (MaxPhysAddr + 1) % WindowSize = 0

PhysNull == 0

FramesOf(region) == FrameNumber(region.base) .. FrameNumber(region.last)

(* Bug: the region is not clipped to the window.                           *)
FramesInUnclipped(region, win) == FramesOf(PageAligned(region)) \ {PhysNull}

(* What freeRegion() frees and allocateRegion() allocates of a region: the *)
(* frames it overlaps that are in the window.  Frame 0 is always left out. *)
FramesIn(region, win) ==
  IF Overlaps(PageAligned(region), win)
    THEN FramesOf(Clipped(PageAligned(region), win)) \ {PhysNull}
    ELSE {}

(* What freeRegion() returns: the region is in the window or above it.     *)
Reaches(region, win) ==
  \/ Overlaps(PageAligned(region), win)
  \/ ~ Below(PageAligned(region), win.base)
=============================================================================
