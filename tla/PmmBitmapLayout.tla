--------------------------- MODULE PmmBitmapLayout ---------------------------
(***************************************************************************)
(* How PmmBitmapAllocator lays frames out in its bitmap: block i, bit b.   *)
(* A block (a size_t of m_bitmap) is the set of its bits that are set; a   *)
(* set bit means the frame is free.                                        *)
(***************************************************************************)
EXTENDS Integers, FiniteSetsExt

CONSTANTS
  NumBlocks,      \* m_numBlocks
  BitsPerBlock,   \* BITS_PER_BLOCK
  BaseFrame       \* m_baseFrameNumber

ASSUME LayoutAssumption ==
  /\ NumBlocks \in Nat \ {0}
  /\ BitsPerBlock \in Nat \ {0}
  /\ BaseFrame \in Nat

Blocks == 0 .. NumBlocks - 1
Bits   == 0 .. BitsPerBlock - 1

(* The frames of the region the allocator manages.                         *)
Frames == BaseFrame .. BaseFrame + NumBlocks * BitsPerBlock - 1

(* Frame 0 has physical address PHYS_NULL, which no caller may pass in.    *)
PhysNull == 0

BlockOf(f)    == (f - BaseFrame) \div BitsPerBlock
BitOf(f)      == f % BitsPerBlock
FrameAt(i, b) == i * BitsPerBlock + b + BaseFrame

(* Bug: the next block is the one that has just been looked at.            *)
NextBlockStuck(i) == i % NumBlocks

(* The block index after i and the one before it, round the bitmap.        *)
NextBlock(i) == (i + 1) % NumBlocks
PrevBlock(i) == IF i = 0 THEN NumBlocks - 1 ELSE i - 1

(* KMem_findLowestSetBit() of a block that is not zero.                    *)
LowestSetBit(block) == Min(block)

(* The frames allocate() looks at when it starts with block "last": those  *)
(* of all blocks but the one before it, and the order it looks at them in. *)
Scanned(free, last) == {f \in free : BlockOf(f) # PrevBlock(last)}

ScanRank(f, last) == ((BlockOf(f) - last) % NumBlocks) * BitsPerBlock + BitOf(f)

FirstScanned(f, free, last) ==
  /\ f \in Scanned(free, last)
  /\ \A g \in Scanned(free, last) : ScanRank(f, last) <= ScanRank(g, last)

(* What the bit arithmetic relies on: BitOf ignores the base while FrameAt *)
(* and BlockOf are relative to it, so they agree only for a base that is a *)
(* multiple of the block size.  PmmWatermarkAllocator's windows are.       *)
BaseAligned == BaseFrame % BitsPerBlock = 0
=============================================================================
