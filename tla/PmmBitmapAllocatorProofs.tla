---------------------- MODULE PmmBitmapAllocatorProofs ----------------------
(***************************************************************************)
(* Proofs about PmmBitmapAllocator for any number of CPUs, any bitmap size *)
(* and any block size.                                                     *)
(*                                                                         *)
(* The argument: a successful compare-and-swap changes exactly the bit of  *)
(* one frame, because the block still equals the value the new one was     *)
(* computed from (lemmas ClearBit and SetBit).  What a call knows of its   *)
(* local block therefore holds of the bitmap at the swap (LocalsOK), and   *)
(* the swap moves one frame between the three places of Partition.         *)
(*                                                                         *)
(* What the failure of allocate() means: a frame that is free all through  *)
(* a call is in one of the blocks the scan has still to come to, or in the *)
(* one it leaves out (Ahead), because a block the scan went past was empty *)
(* when it was read; and where the scan ends only the latter is left.      *)
(***************************************************************************)
EXTENDS PmmBitmapAllocator, FiniteSetTheorems, WellFoundedInduction, TLAPS

(* The layout of the bitmap.                                               *)

(* A block has a lowest set bit if it has any: a nonempty set of small     *)
(* naturals has a minimum.  The initial segments 0..x of its elements are  *)
(* finite sets, and strict inclusion of finite sets is well-founded.       *)
LEMMA MinExists ==
  ASSUME NEW n \in Nat, NEW S \in SUBSET (0 .. n), S # {}
  PROVE  Min(S) \in S /\ \A y \in S : Min(S) <= y
<1> DEFINE U == 0 .. n
           T == {0 .. x : x \in S}
<1>1. IsFiniteSet(U)
  BY FS_Interval
<1>2. IsWellFoundedOn(StrictSubsetOrdering(U), FiniteSubsetsOf(U))
  BY FS_StrictSubsetOrderingWellFounded
<1>3. T \subseteq FiniteSubsetsOf(U) /\ T # {}
  <2>1. ASSUME NEW x \in S PROVE 0 .. x \in FiniteSubsetsOf(U)
    <3>1. 0 .. x \in SUBSET U
      OBVIOUS
    <3>2. IsFiniteSet(0 .. x)
      BY <1>1, <3>1, FS_Subset
    <3> QED BY <3>1, <3>2 DEF FiniteSubsetsOf
  <2> HIDE DEF U
  <2> QED BY <2>1
<1>4. PICK t \in T : \A s \in T : <<s, t>> \notin StrictSubsetOrdering(U)
  <2> HIDE DEF T, U
  <2> QED BY <1>2, <1>3, WFMin
<1>5. PICK x \in S : t = 0 .. x
  BY <1>4
<1>6. \A y \in S : x <= y
  <2> SUFFICES ASSUME NEW y \in S, y < x PROVE FALSE
    OBVIOUS
  <2>1. (0 .. y) \subseteq (0 .. x) /\ x \in 0 .. x /\ x \notin 0 .. y
    OBVIOUS
  <2>2. <<0 .. y, 0 .. x>> \in StrictSubsetOrdering(U)
    BY <2>1 DEF StrictSubsetOrdering
  <2> QED BY <2>2, <1>4, <1>5
<1> QED BY <1>6 DEF Min

(* KMem_findLowestSetBit() finds a set bit of a block that is not zero.    *)
LEMMA LowestSetBitIsSet ==
  ASSUME NEW b \in SUBSET Bits, b # {}
  PROVE  LowestSetBit(b) \in b
<1>1. BitsPerBlock - 1 \in Nat /\ b \in SUBSET (0 .. BitsPerBlock - 1)
  BY LayoutAssumption DEF Bits
<1>2. Min(b) \in b
  BY <1>1, MinExists
<1> QED BY <1>2 DEF LowestSetBit

LEMMA DivMod ==
  ASSUME NEW a \in Int
  PROVE  /\ a = BitsPerBlock * (a \div BitsPerBlock) + (a % BitsPerBlock)
         /\ a % BitsPerBlock \in Bits
         /\ a \div BitsPerBlock \in Int
BY LayoutAssumption DEF Bits

LEMMA DivModUnique ==
  ASSUME NEW q \in Int, NEW r \in Bits
  PROVE  /\ (q * BitsPerBlock + r) % BitsPerBlock = r
         /\ (q * BitsPerBlock + r) \div BitsPerBlock = q
BY LayoutAssumption DEF Bits

LEMMA BlocksOrdered ==
  ASSUME NEW p \in Int, NEW q \in Int, p <= q
  PROVE  BitsPerBlock * p <= BitsPerBlock * q
BY LayoutAssumption

(* Every bit of the bitmap stands for a frame of the region, and two bits  *)
(* never for the same one.  No alignment is needed for this half.          *)
LEMMA FrameAtType ==
  ASSUME NEW k \in Blocks, NEW b \in Bits
  PROVE  FrameAt(k, b) \in Frames
<1>1. k * BitsPerBlock + b <= NumBlocks * BitsPerBlock - 1
  <2>1. k * BitsPerBlock <= (NumBlocks - 1) * BitsPerBlock
    BY LayoutAssumption DEF Blocks
  <2> QED BY <2>1, LayoutAssumption DEF Blocks, Bits
<1>2. k * BitsPerBlock + b \in Nat
  BY LayoutAssumption DEF Blocks, Bits
<1>3. NumBlocks * BitsPerBlock \in Nat
  BY LayoutAssumption
<1> QED BY <1>1, <1>2, <1>3, LayoutAssumption DEF FrameAt, Frames

LEMMA FrameAtInjective ==
  ASSUME NEW k \in Blocks, NEW b \in Bits, NEW l \in Blocks, NEW d \in Bits,
         FrameAt(k, b) = FrameAt(l, d)
  PROVE  k = l /\ b = d
<1>1. k * BitsPerBlock + b = l * BitsPerBlock + d
  BY LayoutAssumption DEF FrameAt, Blocks, Bits
<1> QED BY <1>1, DivModUnique DEF Blocks

LEMMA BlockBitType ==
  ASSUME NEW f \in Frames
  PROVE  BlockOf(f) \in Blocks /\ BitOf(f) \in Bits
<1> DEFINE a == f - BaseFrame
           q == a \div BitsPerBlock
<1>1. a \in Int /\ 0 <= a /\ a < NumBlocks * BitsPerBlock
  BY LayoutAssumption DEF Frames
<1>2. a = BitsPerBlock * q + (a % BitsPerBlock) /\ a % BitsPerBlock \in Bits /\ q \in Int
  BY <1>1, DivMod
<1>3. 0 <= q /\ q < NumBlocks
  <2> HIDE DEF q, a
  <2>1. q <= -1 => BitsPerBlock * q <= BitsPerBlock * (-1)
    BY <1>2, BlocksOrdered
  <2>2. NumBlocks <= q => BitsPerBlock * NumBlocks <= BitsPerBlock * q
    BY <1>2, LayoutAssumption, BlocksOrdered
  <2>3. BitsPerBlock * (-1) = -BitsPerBlock /\ BitsPerBlock * NumBlocks = NumBlocks * BitsPerBlock
    BY LayoutAssumption
  <2>4. BitsPerBlock * q \in Int /\ BitsPerBlock * NumBlocks \in Int
    BY <1>2, LayoutAssumption
  <2> QED BY <1>1, <1>2, <2>1, <2>2, <2>3, <2>4, LayoutAssumption DEF Bits
<1> QED BY SMTT(40), <1>2, <1>3, <1>1, DivMod, LayoutAssumption DEF BlockOf, BitOf, Blocks, Frames

(* For an aligned base, the bit allocate() clears for a frame is the bit   *)
(* free() and allocateFrame() compute for it.                              *)
THEOREM LayoutRoundTrip ==
  ASSUME BaseAligned, NEW f \in Frames
  PROVE  FrameAt(BlockOf(f), BitOf(f)) = f
<1> DEFINE m == BaseFrame \div BitsPerBlock
           q == f \div BitsPerBlock
           r == f % BitsPerBlock
<1>0. f \in Int
  BY LayoutAssumption DEF Frames
<1>1. BaseFrame = m * BitsPerBlock /\ m \in Int
  BY LayoutAssumption, DivMod DEF BaseAligned
<1>2. f = q * BitsPerBlock + r /\ r \in Bits /\ q \in Int
  BY <1>0, LayoutAssumption, DivMod
<1>3. f - BaseFrame = (q - m) * BitsPerBlock + r
  <2> HIDE DEF m, q, r
  <2> QED BY <1>1, <1>2, LayoutAssumption DEF Bits
<1>4. (f - BaseFrame) \div BitsPerBlock = q - m
  BY <1>1, <1>2, <1>3, DivModUnique
<1> QED BY <1>0, <1>1, <1>2, <1>3, <1>4, LayoutAssumption DEF FrameAt, BlockOf, BitOf, Bits
-----------------------------------------------------------------------------
(* The invariant.                                                          *)

(* What a call relies on in its locals, between a read and its swap.       *)
LocalsOK ==
  \A c \in CPU :
    /\ pc[c] = "swap" => block[c] # {}
    /\ pc[c] = "frameSwap" => BitOf(frame[c]) \in block[c]
    /\ pc[c] = "freeSwap" => BitOf(frame[c]) \notin block[c]
    /\ pc[c] \in {"writeLast", "frameRead", "frameSwap", "freeRead", "freeSwap", "bugcheck"}
         => frame[c] \in Frames \ {PhysNull}

(* OnePlace and NoneLost frame by frame.                                   *)
Partition ==
  /\ FreeFrames \in SUBSET (Frames \ {PhysNull})
  /\ held \in SUBSET (Frames \ {PhysNull})
  /\ \A f \in FreeFrames : f \notin held
  /\ \A c \in CPU : Carries(c) => frame[c] \notin FreeFrames /\ frame[c] \notin held
  /\ \A c, d \in CPU : Carries(c) /\ Carries(d) /\ frame[c] = frame[d] => c = d
  /\ \A f \in Frames \ {PhysNull} :
       f \in FreeFrames \/ f \in held \/ \E c \in CPU : Carries(c) /\ frame[c] = f

(* The inductive invariant.                                                *)
IInv == TypeOK /\ LocalsOK /\ Partition /\ NoBugcheck
-----------------------------------------------------------------------------
LEMMA FreeFrameBit ==
  ASSUME TypeOK, NEW k \in Blocks, NEW b \in Bits
  PROVE  FrameAt(k, b) \in FreeFrames <=> b \in bitmap[k]
<1>1. ASSUME FrameAt(k, b) \in FreeFrames PROVE b \in bitmap[k]
  <2>1. PICK l \in Blocks : \E d \in bitmap[l] : FrameAt(k, b) = FrameAt(l, d)
    BY <1>1 DEF FreeFrames
  <2>2. PICK d \in bitmap[l] : FrameAt(k, b) = FrameAt(l, d)
    BY <2>1
  <2>3. d \in Bits
    BY <2>2 DEF TypeOK
  <2> QED BY <2>2, <2>3, FrameAtInjective
<1>2. ASSUME b \in bitmap[k] PROVE FrameAt(k, b) \in FreeFrames
  BY <1>2 DEF FreeFrames
<1> QED BY <1>1, <1>2

LEMMA FreeFramesType == TypeOK => FreeFrames \in SUBSET Frames
BY FrameAtType DEF FreeFrames, TypeOK

LEMMA FrameIsFree ==
  ASSUME TypeOK, BaseAligned, NEW f \in Frames
  PROVE  f \in FreeFrames <=> BitOf(f) \in bitmap[BlockOf(f)]
BY LayoutRoundTrip, BlockBitType, FreeFrameBit

LEMMA ClearBit ==
  ASSUME TypeOK, TypeOK', NEW k \in Blocks, NEW b \in bitmap[k],
         bitmap' = [bitmap EXCEPT ![k] = bitmap[k] \ {b}]
  PROVE  FreeFrames' = FreeFrames \ {FrameAt(k, b)}
<1>1. \A l \in Blocks : \A d \in Bits :
        d \in bitmap'[l] <=> d \in bitmap[l] /\ ~(l = k /\ d = b)
  BY DEF TypeOK
<1>2. b \in Bits
  BY DEF TypeOK
<1>3. ASSUME NEW f, f \in FreeFrames' PROVE f \in FreeFrames \ {FrameAt(k, b)}
  <2>1. PICK l \in Blocks, d \in Bits : d \in bitmap'[l] /\ f = FrameAt(l, d)
    BY <1>3 DEF FreeFrames, TypeOK
  <2> QED BY <2>1, <1>1, <1>2, FreeFrameBit, FrameAtInjective
<1>4. ASSUME NEW f, f \in FreeFrames \ {FrameAt(k, b)} PROVE f \in FreeFrames'
  <2>1. PICK l \in Blocks, d \in Bits : d \in bitmap[l] /\ f = FrameAt(l, d)
    BY <1>4 DEF FreeFrames, TypeOK
  <2>2. d \in bitmap'[l]
    BY <2>1, <1>1, <1>4
  <2> QED BY <2>1, <2>2 DEF FreeFrames
<1> QED BY <1>3, <1>4

LEMMA SetBit ==
  ASSUME TypeOK, TypeOK', NEW k \in Blocks, NEW b \in Bits,
         bitmap' = [bitmap EXCEPT ![k] = bitmap[k] \cup {b}]
  PROVE  FreeFrames' = FreeFrames \cup {FrameAt(k, b)}
<1>1. \A l \in Blocks : \A d \in Bits :
        d \in bitmap'[l] <=> d \in bitmap[l] \/ (l = k /\ d = b)
  BY DEF TypeOK
<1>2. ASSUME NEW f, f \in FreeFrames' PROVE f \in FreeFrames \cup {FrameAt(k, b)}
  <2>1. PICK l \in Blocks, d \in Bits : d \in bitmap'[l] /\ f = FrameAt(l, d)
    BY <1>2 DEF FreeFrames, TypeOK
  <2> QED BY <2>1, <1>1, FreeFrameBit
<1>3. ASSUME NEW f, f \in FreeFrames \cup {FrameAt(k, b)} PROVE f \in FreeFrames'
  <2>1. PICK l \in Blocks, d \in Bits : (d \in bitmap[l] \/ (l = k /\ d = b)) /\ f = FrameAt(l, d)
    BY <1>3 DEF FreeFrames, TypeOK
  <2>2. d \in bitmap'[l]
    BY <2>1, <1>1
  <2> QED BY <2>1, <2>2 DEF FreeFrames
<1> QED BY <1>2, <1>3
-----------------------------------------------------------------------------
LEMMA BlockSteps ==
  ASSUME NEW k \in Blocks
  PROVE  NextBlock(k) \in Blocks /\ PrevBlock(k) \in Blocks
BY LayoutAssumption DEF Blocks, NextBlock, PrevBlock

(* Types and the locals' facts are inductive on their own, except that a   *)
(* frame swapped out of the bitmap is not PHYS_NULL: Partition says so.    *)
LEMMA TypeStep ==
  ASSUME TypeOK, LocalsOK, [Next]_vars
  PROVE  TypeOK'
<1> USE DEF TypeOK, Goto, PCs, Return
<1>1. CASE UNCHANGED vars
  BY <1>1 DEF vars, locals
<1>2. ASSUME NEW c \in CPU, AllocateCall(c) PROVE TypeOK'
  BY <1>2, BlockSteps, FreeFramesType DEF AllocateCall
<1>3. ASSUME NEW c \in CPU, ReadBlock(c) PROVE TypeOK'
  BY <1>3, BlockSteps DEF ReadBlock
<1>4. ASSUME NEW c \in CPU, SwapBlock(c) PROVE TypeOK'
  <2>1. LowestSetBit(block[c]) \in Bits
    BY <1>4, LowestSetBitIsSet DEF SwapBlock, LocalsOK
  <2>2. FrameAt(i[c], LowestSetBit(block[c])) \in Frames
    BY <2>1, FrameAtType
  <2> QED BY <1>4, <2>1, <2>2 DEF SwapBlock, Swap, SwapFails, NoLongerStable
<1>5. ASSUME NEW c \in CPU, WriteLast(c) PROVE TypeOK'
  <2>1. frame[c] \in Frames /\ 0 \in Blocks
    BY <1>5, LayoutAssumption DEF WriteLast, LocalsOK, Blocks
  <2> QED BY <1>5, <2>1 DEF WriteLast
<1>6. ASSUME NEW c \in CPU, GiveUp(c) PROVE TypeOK'
  BY <1>6, LayoutAssumption DEF GiveUp, Blocks
<1>7. ASSUME NEW c \in CPU, NEW f \in Frames \ {PhysNull}, AllocateFrameCall(c, f) PROVE TypeOK'
  BY <1>7 DEF AllocateFrameCall
<1>8. ASSUME NEW c \in CPU, FrameRead(c) PROVE TypeOK'
  <2>1. BlockOf(frame[c]) \in Blocks /\ 0 \in Blocks
    BY <1>8, BlockBitType, LayoutAssumption DEF FrameRead, LocalsOK, Blocks
  <2> QED BY <1>8, <2>1 DEF FrameRead
<1>9. ASSUME NEW c \in CPU, FrameSwap(c) PROVE TypeOK'
  <2>1. frame[c] \in Frames /\ 0 \in Blocks
    BY <1>9, LayoutAssumption DEF FrameSwap, LocalsOK, Blocks
  <2> QED BY <1>9, <2>1 DEF FrameSwap, Swap, SwapFails, NoLongerStable
<1>10. ASSUME NEW c \in CPU, NEW f \in held, FreeCall(c, f) PROVE TypeOK'
  BY <1>10 DEF FreeCall
<1>11. ASSUME NEW c \in CPU, FreeRead(c) PROVE TypeOK'
  <2>1. BlockOf(frame[c]) \in Blocks
    BY <1>11, BlockBitType DEF FreeRead, LocalsOK
  <2> QED BY <1>11, <2>1 DEF FreeRead
<1>12. ASSUME NEW c \in CPU, FreeSwap(c) PROVE TypeOK'
  <2>1. BitOf(frame[c]) \in Bits /\ 0 \in Blocks
    BY <1>12, BlockBitType, LayoutAssumption DEF FreeSwap, LocalsOK, Blocks
  <2> QED BY <1>12, <2>1 DEF FreeSwap, Swap, SwapFails
<1> QED
  BY <1>1, <1>2, <1>3, <1>4, <1>5, <1>6, <1>7, <1>8, <1>9, <1>10, <1>11, <1>12
  DEF Next, Allocate, AllocateFrame, Free

(* What a swap that clears the bit of a frame takes out of the free ones,  *)
(* and what the swap of free() puts back.                                  *)
LEMMA SwapBlockTakes ==
  ASSUME TypeOK, TypeOK', LocalsOK, NEW c \in CPU, SwapBlock(c), pc'[c] = "writeLast"
  PROVE  frame'[c] \in FreeFrames /\ FreeFrames' = FreeFrames \ {frame'[c]}
<1> DEFINE bit == LowestSetBit(block[c])
<1>1. bitmap' = [bitmap EXCEPT ![i[c]] = block[c] \ {bit}] /\ bitmap[i[c]] = block[c]
      /\ frame'[c] = FrameAt(i[c], bit)
  BY DEF SwapBlock, Swap, SwapFails, Goto, TypeOK
<1>2. bit \in block[c] /\ i[c] \in Blocks /\ bit \in Bits
  BY LowestSetBitIsSet DEF SwapBlock, LocalsOK, TypeOK
<1> HIDE DEF bit
<1> QED BY ZenonT(40), <1>1, <1>2, ClearBit, FreeFrameBit

LEMMA FrameSwapTakes ==
  ASSUME TypeOK, TypeOK', LocalsOK, BaseAligned, NEW c \in CPU, FrameSwap(c), pc'[c] = "idle"
  PROVE  frame[c] \in FreeFrames /\ FreeFrames' = FreeFrames \ {frame[c]}
<1> DEFINE k == BlockOf(frame[c])
           b == BitOf(frame[c])
<1>1. bitmap' = [bitmap EXCEPT ![k] = block[c] \ {b}] /\ bitmap[k] = block[c]
  BY DEF FrameSwap, Swap, SwapFails, Goto, TypeOK
<1>2. frame[c] \in Frames /\ b \in block[c]
  BY DEF FrameSwap, LocalsOK
<1>3. k \in Blocks /\ b \in Bits /\ FrameAt(k, b) = frame[c]
  BY <1>2, BlockBitType, LayoutRoundTrip
<1> HIDE DEF k, b
<1> QED BY <1>1, <1>2, <1>3, ClearBit, FreeFrameBit

LEMMA FreeSwapReleases ==
  ASSUME TypeOK, TypeOK', LocalsOK, BaseAligned, NEW c \in CPU, FreeSwap(c), pc'[c] = "idle"
  PROVE  FreeFrames' = FreeFrames \cup {frame[c]}
<1> DEFINE k == BlockOf(frame[c])
           b == BitOf(frame[c])
<1>1. bitmap' = [bitmap EXCEPT ![k] = block[c] \cup {b}] /\ bitmap[k] = block[c]
  BY DEF FreeSwap, Swap, SwapFails, Goto, TypeOK
<1>2. frame[c] \in Frames
  BY DEF FreeSwap, LocalsOK
<1>3. k \in Blocks /\ b \in Bits /\ FrameAt(k, b) = frame[c]
  BY <1>2, BlockBitType, LayoutRoundTrip
<1> HIDE DEF k, b
<1> QED BY <1>1, <1>3, SetBit

LEMMA SameBitmap == UNCHANGED bitmap => FreeFrames' = FreeFrames
BY DEF FreeFrames

LEMMA LocalsStep ==
  ASSUME IInv, TypeOK', BaseAligned, [Next]_vars
  PROVE  LocalsOK'
<1> USE DEF IInv, TypeOK, Goto, PCs, Return, LocalsOK
<1>1. CASE UNCHANGED vars
  BY <1>1 DEF vars, locals
<1>2. ASSUME NEW c \in CPU, AllocateCall(c) PROVE LocalsOK'
  BY <1>2 DEF AllocateCall
<1>3. ASSUME NEW c \in CPU, ReadBlock(c) PROVE LocalsOK'
  BY <1>3 DEF ReadBlock
<1>4. ASSUME NEW c \in CPU, SwapBlock(c) PROVE LocalsOK'
  <2>1. CASE pc'[c] = "writeLast"
    <3>1. frame'[c] \in Frames \ {PhysNull}
      BY <1>4, <2>1, SwapBlockTakes DEF Partition
    <3> QED BY <1>4, <2>1, <3>1 DEF SwapBlock
  <2>2. CASE pc'[c] # "writeLast"
    BY <1>4, <2>2 DEF SwapBlock
  <2> QED BY <2>1, <2>2
<1>5. ASSUME NEW c \in CPU, WriteLast(c) PROVE LocalsOK'
  BY <1>5 DEF WriteLast
<1>6. ASSUME NEW c \in CPU, GiveUp(c) PROVE LocalsOK'
  BY <1>6 DEF GiveUp
<1>7. ASSUME NEW c \in CPU, NEW f \in Frames \ {PhysNull}, AllocateFrameCall(c, f) PROVE LocalsOK'
  BY <1>7 DEF AllocateFrameCall
<1>8. ASSUME NEW c \in CPU, FrameRead(c) PROVE LocalsOK'
  BY <1>8 DEF FrameRead
<1>9. ASSUME NEW c \in CPU, FrameSwap(c) PROVE LocalsOK'
  BY <1>9 DEF FrameSwap
<1>10. ASSUME NEW c \in CPU, NEW f \in held, FreeCall(c, f) PROVE LocalsOK'
  BY <1>10 DEF FreeCall, Partition
<1>11. ASSUME NEW c \in CPU, FreeRead(c) PROVE LocalsOK'
  BY <1>11 DEF FreeRead
<1>12. ASSUME NEW c \in CPU, FreeSwap(c) PROVE LocalsOK'
  BY <1>12 DEF FreeSwap
<1> QED
  BY <1>1, <1>2, <1>3, <1>4, <1>5, <1>6, <1>7, <1>8, <1>9, <1>10, <1>11, <1>12
  DEF Next, Allocate, AllocateFrame, Free

(* The assert of free() holds: the frame it carries is not among the free. *)
LEMMA NoBugcheckStep ==
  ASSUME IInv, BaseAligned, [Next]_vars
  PROVE  NoBugcheck'
<1> USE DEF IInv, TypeOK, Goto, PCs, Return, NoBugcheck
<1>1. ASSUME NEW c \in CPU, FreeRead(c) PROVE NoBugcheck'
  <2>1. frame[c] \in Frames /\ frame[c] \notin FreeFrames
    BY <1>1 DEF FreeRead, LocalsOK, Partition, Carries
  <2>2. BitOf(frame[c]) \notin bitmap[BlockOf(frame[c])]
    BY <2>1, FrameIsFree
  <2> QED BY <1>1, <2>2 DEF FreeRead
<1>2. ASSUME NEW c \in CPU, ~FreeRead(c), Allocate(c) \/ AllocateFrame(c) \/ Free(c)
      PROVE  NoBugcheck'
  BY <1>2 DEF Allocate, AllocateFrame, Free, AllocateCall, ReadBlock, SwapBlock, WriteLast,
              GiveUp, AllocateFrameCall, FrameRead, FrameSwap, FreeCall, FreeSwap
<1>3. CASE UNCHANGED vars
  BY <1>3 DEF vars, locals
<1> QED BY <1>1, <1>2, <1>3 DEF Next

(* Steps that leave bitmap and held alone and change neither which calls   *)
(* carry a frame nor the frames they carry.                                *)
LEMMA PartitionKept ==
  ASSUME Partition, UNCHANGED <<bitmap, held>>,
         \A d \in CPU : Carries(d)' <=> Carries(d),
         \A d \in CPU : Carries(d) => frame'[d] = frame[d]
  PROVE  Partition'
BY SameBitmap DEF Partition

LEMMA PartitionStep ==
  ASSUME IInv, TypeOK', BaseAligned, [Next]_vars
  PROVE  Partition'
<1> USE DEF IInv, TypeOK, Goto, PCs, Return, Carries
<1>1. CASE UNCHANGED vars
  BY <1>1, PartitionKept DEF vars, locals
<1>2. ASSUME NEW c \in CPU, AllocateCall(c) PROVE Partition'
  BY <1>2, PartitionKept DEF AllocateCall
<1>3. ASSUME NEW c \in CPU, ReadBlock(c) PROVE Partition'
  BY <1>3, PartitionKept DEF ReadBlock
<1>4. ASSUME NEW c \in CPU, SwapBlock(c) PROVE Partition'
  <2>1. CASE pc'[c] = "writeLast"
    <3>1. frame'[c] \in FreeFrames /\ FreeFrames' = FreeFrames \ {frame'[c]}
      BY <1>4, <2>1, SwapBlockTakes
    <3>2. /\ held' = held
          /\ Carries(c)' /\ ~Carries(c)
          /\ \A d \in CPU \ {c} : (Carries(d)' <=> Carries(d)) /\ frame'[d] = frame[d]
      BY <1>4, <2>1 DEF SwapBlock
    <3> HIDE DEF Carries
    <3> QED BY <3>1, <3>2 DEF Partition
  <2>2. CASE pc'[c] # "writeLast"
    BY <1>4, <2>2, PartitionKept DEF SwapBlock, SwapFails
  <2> QED BY <2>1, <2>2
<1>5. ASSUME NEW c \in CPU, WriteLast(c) PROVE Partition'
  <2>1. FreeFrames' = FreeFrames
    BY <1>5, SameBitmap DEF WriteLast
  <2>2. /\ held' = held \cup {frame[c]}
        /\ ~Carries(c)' /\ Carries(c) /\ frame[c] \in Frames \ {PhysNull}
        /\ \A d \in CPU \ {c} : (Carries(d)' <=> Carries(d)) /\ frame'[d] = frame[d]
    BY <1>5 DEF WriteLast, LocalsOK
  <2> HIDE DEF Carries
  <2> QED BY <2>1, <2>2 DEF Partition
<1>6. ASSUME NEW c \in CPU, GiveUp(c) PROVE Partition'
  BY <1>6, PartitionKept DEF GiveUp
<1>7. ASSUME NEW c \in CPU, NEW f \in Frames \ {PhysNull}, AllocateFrameCall(c, f) PROVE Partition'
  BY <1>7, PartitionKept DEF AllocateFrameCall
<1>8. ASSUME NEW c \in CPU, FrameRead(c) PROVE Partition'
  BY <1>8, PartitionKept DEF FrameRead
<1>9. ASSUME NEW c \in CPU, FrameSwap(c) PROVE Partition'
  <2>1. CASE pc'[c] = "idle"
    <3>1. frame[c] \in FreeFrames /\ FreeFrames' = FreeFrames \ {frame[c]}
      BY <1>9, <2>1, FrameSwapTakes
    <3>2. /\ held' = held \cup {frame[c]}
          /\ ~Carries(c)' /\ ~Carries(c)
          /\ \A d \in CPU \ {c} : (Carries(d)' <=> Carries(d)) /\ frame'[d] = frame[d]
      BY <1>9, <2>1 DEF FrameSwap
    <3> HIDE DEF Carries
    <3> QED BY <3>1, <3>2 DEF Partition
  <2>2. CASE pc'[c] # "idle"
    BY <1>9, <2>2, PartitionKept DEF FrameSwap, SwapFails
  <2> QED BY <2>1, <2>2
<1>10. ASSUME NEW c \in CPU, NEW f \in held, FreeCall(c, f) PROVE Partition'
  <2>1. FreeFrames' = FreeFrames
    BY <1>10, SameBitmap DEF FreeCall
  <2>2. /\ held' = held \ {f} /\ frame'[c] = f
        /\ Carries(c)' /\ ~Carries(c)
        /\ \A d \in CPU \ {c} : (Carries(d)' <=> Carries(d)) /\ frame'[d] = frame[d]
    BY <1>10 DEF FreeCall
  <2> HIDE DEF Carries
  <2> QED BY <2>1, <2>2 DEF Partition
<1>11. ASSUME NEW c \in CPU, FreeRead(c) PROVE Partition'
  BY <1>11, PartitionKept DEF FreeRead
<1>12. ASSUME NEW c \in CPU, FreeSwap(c) PROVE Partition'
  <2>1. CASE pc'[c] = "idle"
    <3>1. FreeFrames' = FreeFrames \cup {frame[c]}
      BY <1>12, <2>1, FreeSwapReleases
    <3>2. /\ held' = held
          /\ ~Carries(c)' /\ Carries(c) /\ frame[c] \in Frames \ {PhysNull}
          /\ \A d \in CPU \ {c} : (Carries(d)' <=> Carries(d)) /\ frame'[d] = frame[d]
      BY <1>12, <2>1 DEF FreeSwap, LocalsOK
    <3> HIDE DEF Carries
    <3> QED BY <3>1, <3>2 DEF Partition
  <2>2. CASE pc'[c] # "idle"
    BY <1>12, <2>2, PartitionKept DEF FreeSwap, SwapFails
  <2> QED BY <2>1, <2>2
<1> QED
  BY <1>1, <1>2, <1>3, <1>4, <1>5, <1>6, <1>7, <1>8, <1>9, <1>10, <1>11, <1>12
  DEF Next, Allocate, AllocateFrame, Free
-----------------------------------------------------------------------------
LEMMA InvInit == Init => IInv
<1> SUFFICES ASSUME Init PROVE IInv
  OBVIOUS
<1>1. TypeOK
  BY LayoutAssumption DEF Init, TypeOK, Blocks, PCs
<1>2. FreeFrames = {}
  BY DEF Init, FreeFrames
<1>3. Partition
  BY <1>2 DEF Init, Partition, Carries
<1> QED BY <1>1, <1>3 DEF Init, IInv, LocalsOK, NoBugcheck

(* The inductive invariant holds, for every layout with an aligned base.   *)
THEOREM InductiveInvariant ==
  ASSUME BaseAligned
  PROVE  Spec => []IInv
<1>1. IInv /\ [Next]_vars => IInv'
  <2> SUFFICES ASSUME IInv, [Next]_vars PROVE IInv'
    OBVIOUS
  <2>1. TypeOK'
    BY TypeStep DEF IInv
  <2>2. LocalsOK' /\ Partition' /\ NoBugcheck'
    BY <2>1, LocalsStep, PartitionStep, NoBugcheckStep
  <2> QED BY <2>1, <2>2 DEF IInv
<1> QED BY <1>1, InvInit, PTL DEF Spec

(* Every variable keeps its type.                                          *)
THEOREM TypeCorrect ==
  ASSUME BaseAligned
  PROVE  Spec => []TypeOK
<1>1. IInv => TypeOK
  BY DEF IInv
<1> QED BY <1>1, InductiveInvariant, PTL

(* No interleaving of allocate(), allocateFrame() and free() on any number *)
(* of CPUs hands a frame to two callers.                                   *)
THEOREM FramesInOnePlace ==
  ASSUME BaseAligned
  PROVE  Spec => []OnePlace
<1>1. IInv => OnePlace
  BY DEF IInv, OnePlace, Partition, InTransit
<1> QED BY <1>1, InductiveInvariant, PTL

(* ... or loses one.                                                       *)
THEOREM FramesNotLost ==
  ASSUME BaseAligned
  PROVE  Spec => []NoneLost
<1>1. IInv => NoneLost
  <2> SUFFICES ASSUME IInv PROVE NoneLost
    OBVIOUS
  <2>1. \A c \in CPU : Carries(c) => frame[c] \in Frames \ {PhysNull}
    BY DEF IInv, LocalsOK, Carries
  <2> QED BY <2>1 DEF IInv, NoneLost, Partition, InTransit
<1> QED BY <1>1, InductiveInvariant, PTL

(* The assert in free() cannot fail for callers that free what they hold.  *)
THEOREM AssertsHold ==
  ASSUME BaseAligned
  PROVE  Spec => []NoBugcheck
<1>1. IInv => NoBugcheck
  BY DEF IInv
<1> QED BY <1>1, InductiveInvariant, PTL

(* allocate() never succeeds with PHYS_NULL.                               *)
THEOREM NullNeverGiven ==
  ASSUME BaseAligned
  PROVE  Spec => []NullIsFailure
<1>1. IInv => NullIsFailure
  BY DEF IInv, LocalsOK, NullIsFailure
<1> QED BY <1>1, InductiveInvariant, PTL
-----------------------------------------------------------------------------
(* Refinement: the place Partition gives each frame, before and after.     *)
RealFrames == Frames \ {PhysNull}

LEMMA PlaceNow ==
  ASSUME Partition, NEW f \in RealFrames
  PROVE  /\ f \in FreeFrames => WhereIs(f) = "free"
         /\ f \in held => WhereIs(f) = "held"
         /\ \A c \in CPU : Carries(c) /\ frame[c] = f
              => WhereIs(f) = IF pc[c] = "writeLast" THEN "taken" ELSE "returned"
BY DEF Partition, WhereIs, Carries

LEMMA PlaceNext ==
  ASSUME Partition', NEW f \in RealFrames
  PROVE  /\ f \in FreeFrames' => WhereIs(f)' = "free"
         /\ f \in held' => WhereIs(f)' = "held"
         /\ \A c \in CPU : Carries(c)' /\ frame'[c] = f
              => WhereIs(f)' = IF pc'[c] = "writeLast" THEN "taken" ELSE "returned"
BY DEF Partition, WhereIs, Carries

(* A step that moves frame g only, and other calls' frames stay with them. *)
LEMMA OnlyMoves ==
  ASSUME Partition, Partition', NEW c \in CPU, NEW g \in RealFrames,
         \A d \in CPU \ {c} : pc'[d] = pc[d] /\ frame'[d] = frame[d],
         Carries(c) => frame[c] = g, Carries(c)' => frame'[c] = g,
         \A f \in RealFrames \ {g} :
           (f \in FreeFrames' <=> f \in FreeFrames) /\ (f \in held' <=> f \in held)
  PROVE  [f \in RealFrames |-> WhereIs(f)]' =
           [[f \in RealFrames |-> WhereIs(f)] EXCEPT ![g] = WhereIs(g)']
<1>1. ASSUME NEW f \in RealFrames \ {g} PROVE WhereIs(f)' = WhereIs(f)
  <2>1. CASE f \in FreeFrames \/ f \in held
    BY <1>1, <2>1, PlaceNow, PlaceNext
  <2>2. CASE \E d \in CPU : Carries(d) /\ frame[d] = f
    <3>1. PICK d \in CPU \ {c} : Carries(d) /\ frame[d] = f
      BY <1>1, <2>2
    <3>2. Carries(d)' /\ frame'[d] = f /\ pc'[d] = pc[d]
      BY <3>1 DEF Carries
    <3> QED BY <1>1, <3>1, <3>2, PlaceNow, PlaceNext
  <2> QED BY <1>1, <2>1, <2>2 DEF Partition, RealFrames
<1> QED BY <1>1

LEMMA NothingMoves ==
  ASSUME UNCHANGED <<bitmap, held>>,
         \A c \in CPU : pc[c] = "writeLast" <=> pc'[c] = "writeLast",
         \A c \in CPU : pc[c] = "writeLast" => frame'[c] = frame[c]
  PROVE  [f \in RealFrames |-> WhereIs(f)]' = [f \in RealFrames |-> WhereIs(f)]
<1>1. ASSUME NEW f \in RealFrames PROVE WhereIs(f)' = WhereIs(f)
  BY <1>1, SameBitmap DEF WhereIs
<1> QED BY <1>1

LEMMA AbstractStep ==
  ASSUME IInv, IInv', BaseAligned, [Next]_vars
  PROVE  [Abstract!Next]_([f \in Frames \ {PhysNull} |-> WhereIs(f)])
<1> DEFINE place == [f \in RealFrames |-> WhereIs(f)]
<1> USE DEF Goto, Return
<1>0. Partition /\ Partition' /\ TypeOK /\ TypeOK' /\ LocalsOK
  BY DEF IInv
<1>a. SUFFICES place' = place \/ \E f \in RealFrames :
          \/ place[f] = "free" /\ place' = [place EXCEPT ![f] = "taken"]
          \/ place[f] \in {"free", "taken"} /\ place' = [place EXCEPT ![f] = "held"]
          \/ place[f] = "held" /\ place' = [place EXCEPT ![f] = "returned"]
          \/ place[f] = "returned" /\ place' = [place EXCEPT ![f] = "free"]
  BY DEF RealFrames, Abstract!Next, Abstract!Take, Abstract!Deliver, Abstract!Surrender,
         Abstract!Release, Abstract!Move
<1>b. \A f \in RealFrames : place[f] = WhereIs(f)
  OBVIOUS
<1>1. CASE UNCHANGED vars
  BY <1>1, NothingMoves DEF vars, locals
<1>2. ASSUME NEW c \in CPU,
             AllocateCall(c) \/ ReadBlock(c) \/ GiveUp(c) \/ FrameRead(c) \/ FreeRead(c)
               \/ \E f \in Frames \ {PhysNull} : AllocateFrameCall(c, f)
      PROVE  place' = place
  BY <1>0, <1>2, NothingMoves
  DEF TypeOK, AllocateCall, ReadBlock, GiveUp, FrameRead, FreeRead, AllocateFrameCall
<1>3. ASSUME NEW c \in CPU, SwapBlock(c), pc'[c] = "writeLast"
      PROVE  \E f \in RealFrames : WhereIs(f) = "free" /\ place' = [place EXCEPT ![f] = "taken"]
  <2>a. frame'[c] \in FreeFrames /\ FreeFrames' = FreeFrames \ {frame'[c]}
    BY <1>0, <1>3, SwapBlockTakes
  <2>2. PICK g \in RealFrames : g = frame'[c]
    BY <1>0, <2>a DEF Partition, RealFrames
  <2>1. g \in FreeFrames /\ FreeFrames' = FreeFrames \ {g}
    BY <2>a, <2>2
  <2>3. WhereIs(g) = "free" /\ WhereIs(g)' = "taken"
    BY <1>0, <1>3, <2>1, <2>2, PlaceNow, PlaceNext DEF Carries
  <2>4. /\ held' = held /\ ~Carries(c)
        /\ \A d \in CPU \ {c} : pc'[d] = pc[d] /\ frame'[d] = frame[d]
    BY <1>0, <1>3 DEF SwapBlock, Carries, TypeOK
  <2>5. place' = [place EXCEPT ![g] = WhereIs(g)']
    BY <1>0, <2>1, <2>2, <2>4, OnlyMoves
  <2> QED BY <2>2, <2>3, <2>5
<1>4. ASSUME NEW c \in CPU, WriteLast(c)
      PROVE  \E f \in RealFrames : WhereIs(f) = "taken" /\ place' = [place EXCEPT ![f] = "held"]
  <2>1. PICK g \in RealFrames : g = frame[c] /\ Carries(c)
    BY <1>0, <1>4 DEF WriteLast, LocalsOK, RealFrames, Carries
  <2>2. /\ FreeFrames' = FreeFrames /\ held' = held \cup {g} /\ ~Carries(c)'
        /\ \A d \in CPU \ {c} : pc'[d] = pc[d] /\ frame'[d] = frame[d]
    BY <1>0, <1>4, <2>1, SameBitmap DEF WriteLast, TypeOK, Carries
  <2>3. WhereIs(g) = "taken" /\ WhereIs(g)' = "held"
    BY <1>0, <1>4, <2>1, <2>2, PlaceNow, PlaceNext DEF WriteLast
  <2>4. place' = [place EXCEPT ![g] = WhereIs(g)']
    BY <1>0, <2>1, <2>2, OnlyMoves
  <2> QED BY <2>1, <2>3, <2>4
<1>5. ASSUME NEW c \in CPU, FrameSwap(c), pc'[c] = "idle"
      PROVE  \E f \in RealFrames : WhereIs(f) = "free" /\ place' = [place EXCEPT ![f] = "held"]
  <2>1. PICK g \in RealFrames : g = frame[c] /\ ~Carries(c)
    BY <1>0, <1>5 DEF FrameSwap, LocalsOK, RealFrames, Carries
  <2>2. g \in FreeFrames /\ FreeFrames' = FreeFrames \ {g}
    BY <1>0, <1>5, <2>1, FrameSwapTakes
  <2>3. /\ held' = held \cup {g} /\ ~Carries(c)'
        /\ \A d \in CPU \ {c} : pc'[d] = pc[d] /\ frame'[d] = frame[d]
    BY <1>0, <1>5, <2>1 DEF FrameSwap, TypeOK, Carries
  <2>4. WhereIs(g) = "free" /\ WhereIs(g)' = "held"
    BY <1>0, <2>1, <2>2, <2>3, PlaceNow, PlaceNext
  <2>5. place' = [place EXCEPT ![g] = WhereIs(g)']
    BY <1>0, <2>1, <2>2, <2>3, OnlyMoves
  <2> QED BY <2>1, <2>4, <2>5
<1>6. ASSUME NEW c \in CPU, NEW g \in held, FreeCall(c, g)
      PROVE  \E f \in RealFrames : WhereIs(f) = "held" /\ place' = [place EXCEPT ![f] = "returned"]
  <2>1. g \in RealFrames /\ ~Carries(c)
    BY <1>0, <1>6 DEF FreeCall, RealFrames, Partition, Carries
  <2>2. /\ FreeFrames' = FreeFrames /\ held' = held \ {g}
        /\ Carries(c)' /\ frame'[c] = g /\ pc'[c] = "freeRead"
        /\ \A d \in CPU \ {c} : pc'[d] = pc[d] /\ frame'[d] = frame[d]
    BY <1>0, <1>6, SameBitmap DEF FreeCall, TypeOK, Carries
  <2>3. WhereIs(g) = "held" /\ WhereIs(g)' = "returned"
    BY <1>0, <1>6, <2>1, <2>2, PlaceNow, PlaceNext
  <2>4. place' = [place EXCEPT ![g] = WhereIs(g)']
    BY <1>0, <2>1, <2>2, OnlyMoves
  <2> QED BY <2>1, <2>3, <2>4
<1>7. ASSUME NEW c \in CPU, FreeSwap(c), pc'[c] = "idle"
      PROVE  \E f \in RealFrames : WhereIs(f) = "returned" /\ place' = [place EXCEPT ![f] = "free"]
  <2>1. PICK g \in RealFrames : g = frame[c] /\ Carries(c)
    BY <1>0, <1>7 DEF FreeSwap, LocalsOK, RealFrames, Carries
  <2>2. FreeFrames' = FreeFrames \cup {g}
    BY <1>0, <1>7, <2>1, FreeSwapReleases
  <2>3. /\ held' = held /\ ~Carries(c)'
        /\ \A d \in CPU \ {c} : pc'[d] = pc[d] /\ frame'[d] = frame[d]
    BY <1>0, <1>7 DEF FreeSwap, TypeOK, Carries
  <2>4. WhereIs(g) = "returned" /\ WhereIs(g)' = "free"
    BY <1>0, <1>7, <2>1, <2>2, PlaceNow, PlaceNext DEF FreeSwap
  <2>5. place' = [place EXCEPT ![g] = WhereIs(g)']
    BY <1>0, <2>1, <2>2, <2>3, OnlyMoves
  <2> QED BY <2>1, <2>4, <2>5
<1>8. ASSUME NEW c \in CPU, SwapBlock(c), pc'[c] # "writeLast" PROVE place' = place
  BY <1>0, <1>8, NothingMoves DEF SwapBlock, SwapFails, TypeOK
<1>9. ASSUME NEW c \in CPU, FrameSwap(c), pc'[c] # "idle" PROVE place' = place
  BY <1>0, <1>9, NothingMoves DEF FrameSwap, SwapFails, TypeOK
<1>10. ASSUME NEW c \in CPU, FreeSwap(c), pc'[c] # "idle" PROVE place' = place
  BY <1>0, <1>10, NothingMoves DEF FreeSwap, SwapFails, TypeOK
<1> HIDE DEF place
<1> QED
  BY <1>b, <1>1, <1>2, <1>3, <1>4, <1>5, <1>6, <1>7, <1>8, <1>9, <1>10
  DEF Next, Allocate, AllocateFrame, Free

(* PmmBitmapAllocator implements FrameAllocator.                           *)
THEOREM Refinement ==
  ASSUME BaseAligned
  PROVE  Spec => ImplementsFrameAllocator
<1>1. Init => Abstract!Init
  <2> SUFFICES ASSUME Init PROVE \A f \in Frames \ {PhysNull} : WhereIs(f) = "held"
    BY DEF Abstract!Init
  <2>1. FreeFrames = {}
    BY DEF Init, FreeFrames
  <2> QED BY <2>1 DEF Init, WhereIs
<1>2. IInv /\ IInv' /\ [Next]_vars
      => [Abstract!Next]_([f \in Frames \ {PhysNull} |-> WhereIs(f)])
  BY AbstractStep
<1> QED BY <1>1, <1>2, InductiveInvariant, PTL DEF Spec, ImplementsFrameAllocator, Abstract!Spec
-----------------------------------------------------------------------------
(* The scan of allocate().                                                *)

(* The blocks from k on, round the bitmap, up to and including "last".     *)
Ahead(k, last) == IF k <= last THEN k .. last ELSE Blocks \ (last + 1 .. k - 1)

Scanning(c) == pc[c] \in {"readBlock", "swap", "giveUp"}

ScanInv ==
  \A c \in CPU : Scanning(c) =>
    /\ stable[c] \subseteq FreeFrames
    /\ \A f \in stable[c] : BlockOf(f) \in Ahead(i[c], beforeLast[c])
    /\ pc[c] = "giveUp" <=> i[c] = beforeLast[c]
-----------------------------------------------------------------------------
(* A scan has every block ahead of it at first, loses the block it goes    *)
(* past, and has one left at its end.                                      *)
LEMMA AheadAtFirst ==
  ASSUME NEW k \in Blocks
  PROVE  Ahead(k, PrevBlock(k)) = Blocks
<1>1. CASE k = 0
  BY <1>1, LayoutAssumption DEF Ahead, Blocks, PrevBlock
<1>2. CASE k # 0
  <2>1. PrevBlock(k) = k - 1 /\ k \in Nat
    BY <1>2 DEF Blocks, PrevBlock
  <2>2. ~ (k <= k - 1) /\ (k - 1) + 1 .. k - 1 = {}
    BY <2>1
  <2> QED BY <2>1, <2>2 DEF Ahead
<1> QED BY <1>1, <1>2

LEMMA NextBlockIs ==
  ASSUME NEW k \in Blocks
  PROVE  NextBlock(k) = IF k = NumBlocks - 1 THEN 0 ELSE k + 1
<1>1. CASE k = NumBlocks - 1
  <2>1. NumBlocks % NumBlocks = 0
    BY LayoutAssumption
  <2> QED BY <1>1, <2>1, LayoutAssumption DEF Blocks, NextBlock
<1>2. CASE k # NumBlocks - 1
  BY <1>2, LayoutAssumption DEF Blocks, NextBlock
<1> QED BY <1>1, <1>2

LEMMA AheadOfNext ==
  ASSUME NEW k \in Blocks, NEW last \in Blocks, k # last,
         NEW j \in Ahead(k, last), j # k
  PROVE  j \in Ahead(NextBlock(k), last)
BY NextBlockIs, LayoutAssumption DEF Ahead, Blocks

LEMMA AheadAtLast ==
  ASSUME NEW k \in Blocks
  PROVE  Ahead(k, k) = {k}
BY LayoutAssumption DEF Ahead, Blocks

LEMMA StableBlocks ==
  ASSUME TypeOK, NEW f \in FreeFrames
  PROVE  f \in Frames /\ BlockOf(f) \in Blocks
BY FreeFramesType, BlockBitType

(* A step that changes the bitmap takes the frames that it uses up out of  *)
(* the stable ones, and frees only others.                                 *)
LEMMA FreeFramesStep ==
  ASSUME BaseAligned, IInv, IInv', [Next]_vars
  PROVE  \/ FreeFrames \subseteq FreeFrames'
         \/ \E f \in FreeFrames : /\ FreeFrames' = FreeFrames \ {f}
                                 /\ stable' = [c \in CPU |-> stable[c] \ {f}]
<1> USE DEF IInv
<1>1. CASE UNCHANGED bitmap
  BY <1>1, SameBitmap
<1>2. ASSUME NEW c \in CPU, SwapBlock(c), ~ UNCHANGED bitmap
      PROVE  \E f \in FreeFrames : /\ FreeFrames' = FreeFrames \ {f}
                                   /\ stable' = [d \in CPU |-> stable[d] \ {f}]
  <2>1. pc'[c] = "writeLast" /\ stable' = [d \in CPU |-> stable[d] \ {frame'[c]}]
    BY <1>2 DEF SwapBlock, Swap, SwapFails, Goto, TypeOK, NoLongerStable
  <2>2. frame'[c] \in FreeFrames /\ FreeFrames' = FreeFrames \ {frame'[c]}
    BY <1>2, <2>1, SwapBlockTakes
  <2> QED BY <2>1, <2>2
<1>3. ASSUME NEW c \in CPU, FrameSwap(c), ~ UNCHANGED bitmap
      PROVE  \E f \in FreeFrames : /\ FreeFrames' = FreeFrames \ {f}
                                   /\ stable' = [d \in CPU |-> stable[d] \ {f}]
  <2>1. pc'[c] = "idle" /\ stable' = [d \in CPU |-> stable[d] \ {frame[c]}]
    BY <1>3 DEF FrameSwap, Swap, SwapFails, Return, TypeOK, NoLongerStable
  <2>2. frame[c] \in FreeFrames /\ FreeFrames' = FreeFrames \ {frame[c]}
    BY <1>3, <2>1, FrameSwapTakes
  <2> QED BY <2>1, <2>2
<1>4. ASSUME NEW c \in CPU, FreeSwap(c), ~ UNCHANGED bitmap
      PROVE  FreeFrames \subseteq FreeFrames'
  <2>1. pc'[c] = "idle"
    BY <1>4 DEF FreeSwap, Swap, SwapFails, Return, TypeOK
  <2> QED BY <1>4, <2>1, FreeSwapReleases
<1> QED
  BY <1>1, <1>2, <1>3, <1>4
  DEF Next, Allocate, AllocateFrame, Free, AllocateCall, ReadBlock, WriteLast, GiveUp,
      AllocateFrameCall, FrameRead, FreeCall, FreeRead, vars, locals

(* What a step leaves of the frames that are stable for a call that goes   *)
(* on scanning is still free.                                              *)
LEMMA StableStep ==
  ASSUME BaseAligned, IInv, IInv', [Next]_vars, NEW c \in CPU,
         stable[c] \subseteq FreeFrames, stable'[c] \subseteq stable[c]
  PROVE  stable'[c] \subseteq FreeFrames'
BY FreeFramesStep DEF IInv, TypeOK

LEMMA ScanStep ==
  ASSUME BaseAligned, IInv, IInv', ScanInv, [Next]_vars
  PROVE  ScanInv'
<1> SUFFICES ASSUME NEW c \in CPU, Scanning(c)'
             PROVE  /\ stable'[c] \subseteq FreeFrames'
                    /\ \A f \in stable'[c] : BlockOf(f) \in Ahead(i'[c], beforeLast'[c])
                    /\ pc'[c] = "giveUp" <=> i'[c] = beforeLast'[c]
  BY DEF ScanInv, Ahead, Scanning
<1> USE DEF IInv
<1>1. CASE AllocateCall(c)
  <2>1. /\ stable'[c] = FreeFrames /\ FreeFrames' = FreeFrames
        /\ i'[c] = lastAllocatedIndex /\ beforeLast'[c] = PrevBlock(lastAllocatedIndex)
        /\ pc'[c] = IF i'[c] = beforeLast'[c] THEN "giveUp" ELSE "readBlock"
    BY <1>1, SameBitmap DEF AllocateCall, Goto, TypeOK
  <2>2. lastAllocatedIndex \in Blocks
    BY DEF TypeOK
  <2>3. \A f \in FreeFrames : BlockOf(f) \in Blocks
    BY FreeFramesType, BlockBitType
  <2> QED BY <2>1, <2>2, <2>3, AheadAtFirst
<1>2. CASE ReadBlock(c)
  <2>1. /\ stable'[c] = stable[c] /\ FreeFrames' = FreeFrames /\ Scanning(c)
        /\ beforeLast'[c] = beforeLast[c] /\ pc[c] = "readBlock"
    BY <1>2, SameBitmap DEF ReadBlock, Scanning
  <2>2. i[c] # beforeLast[c] /\ i[c] \in Blocks /\ beforeLast[c] \in Blocks
    BY <2>1 DEF ScanInv, TypeOK
  <2>3. CASE bitmap[i[c]] # {}
    <3>1. i'[c] = i[c] /\ pc'[c] = "swap"
      BY <1>2, <2>3 DEF ReadBlock, Goto, TypeOK
    <3> QED BY <2>1, <2>2, <3>1 DEF ScanInv
  <2>4. CASE bitmap[i[c]] = {}
    <3>1. /\ i'[c] = NextBlock(i[c])
          /\ pc'[c] = IF i'[c] = beforeLast[c] THEN "giveUp" ELSE "readBlock"
      BY <1>2, <2>4 DEF ReadBlock, Goto, TypeOK
    <3>2. ASSUME NEW f \in stable[c] PROVE BlockOf(f) # i[c]
      <4>1. f \in FreeFrames
        BY <2>1 DEF ScanInv
      <4>2. f \in Frames /\ BitOf(f) \in bitmap[BlockOf(f)]
        BY <4>1, FreeFramesType, FrameIsFree
      <4> QED BY <4>2, <2>4
    <3>3. \A f \in stable[c] : BlockOf(f) \in Ahead(i'[c], beforeLast[c])
      BY <2>1, <2>2, <3>1, <3>2, AheadOfNext DEF ScanInv
    <3> QED BY <2>1, <3>1, <3>3 DEF ScanInv
  <2> QED BY <2>3, <2>4
<1>3. CASE SwapBlock(c)
  <2>1. /\ pc[c] = "swap" /\ pc'[c] = "readBlock" /\ UNCHANGED bitmap
        /\ UNCHANGED <<stable, i, beforeLast>>
    BY <1>3 DEF SwapBlock, Swap, SwapFails, Goto, TypeOK, Scanning
  <2> QED BY <2>1, SameBitmap DEF ScanInv, Scanning
<1>4. CASE ~ (AllocateCall(c) \/ ReadBlock(c) \/ SwapBlock(c))
  <2> DEFINE goal == /\ Scanning(c) /\ pc'[c] = pc[c] /\ i'[c] = i[c]
                     /\ beforeLast'[c] = beforeLast[c] /\ stable'[c] \subseteq stable[c]
  <2>1. goal
    <3> USE DEF TypeOK, Goto, Return, Scanning
    <3>1. CASE UNCHANGED vars
      BY <3>1 DEF vars, locals
    <3>2. ASSUME NEW d \in CPU, Allocate(d) PROVE goal
      BY <3>2, <1>4 DEF Allocate, AllocateCall, ReadBlock, SwapBlock, WriteLast, GiveUp,
           NoLongerStable
    <3>3. ASSUME NEW d \in CPU, AllocateFrame(d) PROVE goal
      BY <3>3 DEF AllocateFrame, AllocateFrameCall, FrameRead, FrameSwap, NoLongerStable
    <3>4. ASSUME NEW d \in CPU, Free(d) PROVE goal
      BY <3>4 DEF Free, FreeCall, FreeRead, FreeSwap
    <3> QED BY <3>1, <3>2, <3>3, <3>4 DEF Next
  <2> QED BY <2>1, StableStep DEF ScanInv
<1> QED BY <1>1, <1>2, <1>3, <1>4

(* A failure of allocate() tells its caller that no frame outside of the   *)
(* block the scan leaves out was free all through the call, however many   *)
(* CPUs take and free frames meanwhile.                                    *)
THEOREM FailureMeansScannedAlways ==
  ASSUME BaseAligned
  PROVE  Spec => []FailureMeansScanned
<1>1. Init => ScanInv
  BY DEF Init, ScanInv, Scanning
<1>2. IInv /\ IInv' /\ ScanInv /\ [Next]_vars => ScanInv'
  BY ScanStep
<1>3. IInv /\ ScanInv => FailureMeansScanned
  BY AheadAtLast DEF ScanInv, Scanning, FailureMeansScanned, IInv, TypeOK
<1> QED BY <1>1, <1>2, <1>3, InductiveInvariant, PTL DEF Spec
-----------------------------------------------------------------------------
(* The order of the scan.                                                  *)

LEMMA LowestIsLeast ==
  ASSUME NEW b \in SUBSET Bits, NEW y \in b
  PROVE  LowestSetBit(b) <= y
<1>1. BitsPerBlock - 1 \in Nat /\ b \in SUBSET (0 .. BitsPerBlock - 1) /\ b # {}
  BY LayoutAssumption DEF Bits
<1>2. \A z \in b : Min(b) <= z
  BY <1>1, MinExists
<1> QED BY <1>2 DEF LowestSetBit

LEMMA FrameAtParts ==
  ASSUME BaseAligned, NEW k \in Blocks, NEW b \in Bits
  PROVE  BlockOf(FrameAt(k, b)) = k /\ BitOf(FrameAt(k, b)) = b
<1> DEFINE f == FrameAt(k, b)
<1>1. f \in Frames
  BY FrameAtType
<1>2. BlockOf(f) \in Blocks /\ BitOf(f) \in Bits /\ FrameAt(BlockOf(f), BitOf(f)) = f
  BY <1>1, BlockBitType, LayoutRoundTrip
<1> QED BY <1>2, FrameAtInjective

(* How many blocks after "first" block k comes, round the bitmap.          *)
LEMMA BlocksAfter ==
  ASSUME NEW k \in Blocks, NEW first \in Blocks
  PROVE  (k - first) % NumBlocks = IF first <= k THEN k - first ELSE k - first + NumBlocks
<1>1. CASE first <= k
  BY <1>1, LayoutAssumption DEF Blocks
<1>2. CASE ~ first <= k
  BY <1>2, LayoutAssumption DEF Blocks
<1> QED BY <1>1, <1>2

LEMMA NextOfPrev ==
  ASSUME NEW k \in Blocks
  PROVE  NextBlock(PrevBlock(k)) = k /\ PrevBlock(NextBlock(k)) = k
BY BlockSteps, NextBlockIs, LayoutAssumption DEF PrevBlock, Blocks

(* A block that is still ahead comes no earlier than the current one.      *)
LEMMA AheadIsLater ==
  ASSUME NEW k \in Blocks, NEW last \in Blocks, NEW j \in Blocks, j \in Ahead(k, last)
  PROVE  (k - NextBlock(last)) % NumBlocks <= (j - NextBlock(last)) % NumBlocks
<1> DEFINE first == NextBlock(last)
<1>1. first \in Blocks /\ first = IF last = NumBlocks - 1 THEN 0 ELSE last + 1
  BY BlockSteps, NextBlockIs
<1> HIDE DEF first
<1>2. /\ (k - first) % NumBlocks = IF first <= k THEN k - first ELSE k - first + NumBlocks
      /\ (j - first) % NumBlocks = IF first <= j THEN j - first ELSE j - first + NumBlocks
  BY <1>1, BlocksAfter
<1>3. IF k <= last THEN k <= j /\ j <= last ELSE j <= last \/ k <= j
  BY DEF Ahead, Blocks
<1>4. (IF first <= k THEN k - first ELSE k - first + NumBlocks)
        <= (IF first <= j THEN j - first ELSE j - first + NumBlocks)
  BY <1>1, <1>3, LayoutAssumption DEF Blocks
<1> QED BY <1>2, <1>4 DEF first

(* The order of the scan is that of the blocks, and in a block of the bits.*)
LEMMA RankOrder ==
  ASSUME NEW f \in Frames, NEW g \in Frames, NEW first \in Blocks,
         (BlockOf(f) - first) % NumBlocks <= (BlockOf(g) - first) % NumBlocks,
         BlockOf(f) = BlockOf(g) => BitOf(f) <= BitOf(g)
  PROVE  ScanRank(f, first) <= ScanRank(g, first)
<1> DEFINE p == (BlockOf(f) - first) % NumBlocks
           q == (BlockOf(g) - first) % NumBlocks
<1>1. BlockOf(f) \in Blocks /\ BlockOf(g) \in Blocks
  BY BlockBitType
<1>2. BitOf(f) \in 0 .. BitsPerBlock - 1 /\ BitOf(g) \in 0 .. BitsPerBlock - 1
  BY BlockBitType DEF Bits
<1>3. p \in Int /\ q \in Int /\ (p = q => BlockOf(f) = BlockOf(g))
  <2> DEFINE k == BlockOf(f)
             l == BlockOf(g)
  <2>1. /\ p = IF first <= k THEN k - first ELSE k - first + NumBlocks
        /\ q = IF first <= l THEN l - first ELSE l - first + NumBlocks
    BY <1>1, BlocksAfter
  <2>2. k \in 0 .. NumBlocks - 1 /\ l \in 0 .. NumBlocks - 1 /\ first \in 0 .. NumBlocks - 1
    BY <1>1 DEF Blocks
  <2> HIDE DEF p, q, k, l
  <2>3. p \in Int /\ q \in Int /\ (p = q => k = l)
    BY <2>1, <2>2, LayoutAssumption
  <2> QED BY <2>3 DEF k, l
<1>4. p <= q
  OBVIOUS
<1>5. ScanRank(f, first) = p * BitsPerBlock + BitOf(f)
      /\ ScanRank(g, first) = q * BitsPerBlock + BitOf(g)
  BY DEF ScanRank
<1> HIDE DEF p, q
<1>6. CASE p = q
  <2>1. BitOf(f) <= BitOf(g) /\ p * BitsPerBlock \in Int
    BY <1>3, <1>6, LayoutAssumption
  <2> QED BY <1>2, <1>5, <1>6, <2>1
<1>7. CASE p # q
  <2>1. BitsPerBlock * (p + 1) <= BitsPerBlock * q
    BY <1>3, <1>4, <1>7, BlocksOrdered
  <2>2. BitsPerBlock * (p + 1) = p * BitsPerBlock + BitsPerBlock
        /\ BitsPerBlock * q = q * BitsPerBlock
    BY <1>3, LayoutAssumption
  <2>3. p * BitsPerBlock \in Int /\ q * BitsPerBlock \in Int
    BY <1>3, LayoutAssumption
  <2> QED BY <1>2, <1>5, <2>1, <2>2, <2>3, LayoutAssumption
<1> QED BY <1>6, <1>7

(* The frame a swap takes comes before every one that is still ahead of    *)
(* the scan: it is the lowest of its block, which is the current one.      *)
LEMMA SwapTakesFirst ==
  ASSUME BaseAligned, IInv, IInv', ScanInv, NEW c \in CPU, SwapBlock(c), pc'[c] = "writeLast",
         NEW g \in stable[c]
  PROVE  LET first == NextBlock(beforeLast[c])
         IN  ScanRank(frame'[c], first) <= ScanRank(g, first)
<1> DEFINE k == i[c]
           bit == LowestSetBit(block[c])
           f == frame'[c]
<1>1. k \in Blocks /\ beforeLast[c] \in Blocks /\ block[c] \in SUBSET Bits
  BY DEF IInv, TypeOK
<1>2. bitmap[k] = block[c] /\ f = FrameAt(k, bit) /\ pc[c] = "swap" /\ block[c] # {}
  BY DEF SwapBlock, Swap, SwapFails, Goto, IInv, TypeOK, LocalsOK
<1>3. bit \in Bits
  BY <1>1, <1>2, LowestSetBitIsSet
<1>4. f \in Frames /\ BlockOf(f) = k /\ BitOf(f) = bit
  BY <1>1, <1>2, <1>3, FrameAtType, FrameAtParts
<1>5. g \in FreeFrames /\ BlockOf(g) \in Ahead(k, beforeLast[c])
  BY <1>2 DEF ScanInv, Scanning
<1>6. g \in Frames /\ BlockOf(g) \in Blocks /\ BitOf(g) \in bitmap[BlockOf(g)]
  BY <1>5, StableBlocks, FrameIsFree DEF IInv
<1>7. BlockOf(f) = BlockOf(g) => BitOf(f) <= BitOf(g)
  BY <1>1, <1>2, <1>4, <1>6, LowestIsLeast
<1>8. (k - NextBlock(beforeLast[c])) % NumBlocks
        <= (BlockOf(g) - NextBlock(beforeLast[c])) % NumBlocks
  BY <1>1, <1>5, <1>6, AheadIsLater
<1> HIDE DEF k, bit, f
<1>9. NextBlock(beforeLast[c]) \in Blocks
  BY <1>1, BlockSteps
<1> QED BY <1>4, <1>6, <1>7, <1>8, <1>9, RankOrder DEF f

LEMMA FirstFitStep ==
  ASSUME BaseAligned, IInv, IInv', ScanInv, FirstFit, [Next]_vars
  PROVE  FirstFit'
<1> SUFFICES ASSUME NEW c \in CPU, pc'[c] = "writeLast", NEW g \in stable'[c],
                    BlockOf(g) # PrevBlock(NextBlock(beforeLast'[c]))
             PROVE  ScanRank(frame'[c], NextBlock(beforeLast'[c]))
                      <= ScanRank(g, NextBlock(beforeLast'[c]))
  BY DEF FirstFit, Scanned
<1> USE DEF IInv
<1>1. CASE SwapBlock(c)
  <2>1. beforeLast'[c] = beforeLast[c] /\ stable'[c] \subseteq stable[c]
    BY <1>1 DEF SwapBlock, SwapFails, NoLongerStable, TypeOK
  <2> QED BY <1>1, <2>1, SwapTakesFirst
<1>2. CASE ~ SwapBlock(c)
  <2> DEFINE goal == /\ pc[c] = "writeLast" /\ frame'[c] = frame[c]
                     /\ beforeLast'[c] = beforeLast[c] /\ stable'[c] \subseteq stable[c]
  <2>1. goal
    <3> USE DEF TypeOK, Goto, Return
    <3>1. CASE UNCHANGED vars
      BY <3>1 DEF vars, locals
    <3>2. ASSUME NEW d \in CPU, AllocateCall(d) \/ ReadBlock(d) PROVE goal
      BY <3>2 DEF AllocateCall, ReadBlock
    <3>3. ASSUME NEW d \in CPU, SwapBlock(d) PROVE goal
      <4>1. d # c
        BY <3>3, <1>2
      <4> QED BY <3>3, <4>1 DEF SwapBlock, NoLongerStable
    <3>4. ASSUME NEW d \in CPU, WriteLast(d) \/ GiveUp(d) PROVE goal
      BY <3>4 DEF WriteLast, GiveUp
    <3>5. ASSUME NEW d \in CPU, NEW f \in Frames, AllocateFrameCall(d, f) PROVE goal
      BY <3>5 DEF AllocateFrameCall
    <3>6. ASSUME NEW d \in CPU, FrameRead(d) PROVE goal
      BY <3>6 DEF FrameRead
    <3>7. ASSUME NEW d \in CPU, FrameSwap(d) PROVE goal
      BY <3>7 DEF FrameSwap, NoLongerStable
    <3>8. ASSUME NEW d \in CPU, Free(d) PROVE goal
      BY <3>8 DEF Free, FreeCall, FreeRead, FreeSwap
    <3> QED BY <3>1, <3>2, <3>3, <3>4, <3>5, <3>6, <3>7, <3>8 DEF Next, Allocate, AllocateFrame
  <2> QED BY <2>1 DEF FirstFit, Scanned
<1> QED BY <1>1, <1>2

(* Success of allocate() is the first fit among the frames that were free  *)
(* all through the call, whatever other CPUs do.                           *)
THEOREM FirstFitAlways ==
  ASSUME BaseAligned
  PROVE  Spec => []FirstFit
<1>1. Init => ScanInv /\ FirstFit
  BY DEF Init, ScanInv, Scanning, FirstFit
<1>2. IInv /\ IInv' /\ ScanInv /\ [Next]_vars => ScanInv'
  BY ScanStep
<1>3. IInv /\ IInv' /\ ScanInv /\ FirstFit /\ [Next]_vars => FirstFit'
  BY FirstFitStep
<1> QED BY <1>1, <1>2, <1>3, InductiveInvariant, PTL DEF Spec
-----------------------------------------------------------------------------
(* A single CPU.  Nobody else takes or frees frames while it scans, so     *)
(* that what was free all through the call is what is free.                *)
SoleInv ==
  \A c \in CPU :
    /\ Scanning(c) => stable[c] = FreeFrames /\ beforeLast[c] = PrevBlock(lastAllocatedIndex)
    /\ Scanning(c) \/ pc[c] = "idle" => frame[c] = PhysNull

LEMMA SoleStep ==
  ASSUME NEW c, CPU = {c}, IInv, SoleInv, [Next]_vars
  PROVE  SoleInv'
<1> SUFFICES /\ Scanning(c)' => /\ stable'[c] = FreeFrames'
                                /\ beforeLast'[c] = PrevBlock(lastAllocatedIndex')
             /\ Scanning(c)' \/ pc'[c] = "idle" => frame'[c] = PhysNull
  BY DEF SoleInv, Scanning, PrevBlock
<1> USE DEF IInv, TypeOK, Goto, Return, Scanning
<1>1. CASE UNCHANGED vars
  BY <1>1, SameBitmap DEF SoleInv, vars, locals
<1>2. CASE AllocateCall(c)
  BY <1>2, SameBitmap DEF SoleInv, AllocateCall
<1>3. CASE ReadBlock(c)
  BY <1>3, SameBitmap DEF SoleInv, ReadBlock
<1>4. CASE SwapBlock(c)
  <2>1. CASE pc'[c] = "writeLast"
    BY <2>1
  <2>2. CASE pc'[c] # "writeLast"
    BY <1>4, <2>2, SameBitmap DEF SoleInv, SwapBlock, SwapFails
  <2> QED BY <2>1, <2>2
<1>5. CASE WriteLast(c) \/ GiveUp(c)
  BY <1>5 DEF WriteLast, GiveUp
<1>6. ASSUME NEW f, AllocateFrameCall(c, f) PROVE pc'[c] = "frameRead"
  BY <1>6 DEF AllocateFrameCall
<1>7. CASE FrameRead(c)
  BY <1>7 DEF FrameRead
<1>8. CASE FrameSwap(c)
  BY <1>8 DEF FrameSwap
<1>9. ASSUME NEW f, FreeCall(c, f) PROVE pc'[c] = "freeRead"
  BY <1>9 DEF FreeCall
<1>10. CASE FreeRead(c)
  BY <1>10 DEF FreeRead
<1>11. CASE FreeSwap(c)
  BY <1>11 DEF FreeSwap
<1> QED
  BY <1>1, <1>2, <1>3, <1>4, <1>5, <1>6, <1>7, <1>8, <1>9, <1>10, <1>11
  DEF Next, Allocate, AllocateFrame, Free

LEMMA SoleMapping ==
  ASSUME NEW c, CPU = {c}
  PROVE  /\ LastIndex = IF pc[c] = "writeLast" THEN i[c] ELSE lastAllocatedIndex
         /\ Result = IF pc[c] \in {"writeLast", "giveUp"} THEN {frame[c]} ELSE {}
         /\ LastIndex' = IF pc'[c] = "writeLast" THEN i'[c] ELSE lastAllocatedIndex'
         /\ Result' = IF pc'[c] \in {"writeLast", "giveUp"} THEN {frame'[c]} ELSE {}
BY DEF LastIndex, Result

(* SequentialBitmap has the same layout.                                   *)
LEMMA SameLayout ==
  /\ Sequential!PhysNull = PhysNull /\ Sequential!Frames = Frames
  /\ \A f : Sequential!BlockOf(f) = BlockOf(f)
  /\ \A free, last : Sequential!Scanned(free, last) = Scanned(free, last)
  /\ \A f, free, last : Sequential!FirstScanned(f, free, last) = FirstScanned(f, free, last)
BY DEF Sequential!PhysNull, Sequential!Frames, Sequential!BlockOf, Sequential!BitOf,
       Sequential!Scanned, Sequential!PrevBlock, Sequential!ScanRank, Sequential!FirstScanned,
       PhysNull, Frames, BlockOf, BitOf, Scanned, PrevBlock, ScanRank, FirstScanned

LEMMA SoleTakesFirst ==
  ASSUME BaseAligned, IInv, IInv', ScanInv, SoleInv, NEW c \in CPU,
         SwapBlock(c), pc'[c] = "writeLast"
  PROVE  /\ FirstScanned(frame'[c], FreeFrames, lastAllocatedIndex)
         /\ FreeFrames' = FreeFrames \ {frame'[c]}
         /\ BlockOf(frame'[c]) = i[c]
<1> DEFINE last == lastAllocatedIndex
<1>1. frame'[c] \in FreeFrames /\ FreeFrames' = FreeFrames \ {frame'[c]}
  BY SwapBlockTakes DEF IInv
<1>2. /\ last \in Blocks /\ i[c] \in Blocks /\ pc[c] = "swap"
      /\ frame'[c] = FrameAt(i[c], LowestSetBit(block[c]))
      /\ block[c] \in SUBSET Bits /\ block[c] # {}
  BY DEF IInv, TypeOK, LocalsOK, SwapBlock, SwapFails, Goto
<1>3. BlockOf(frame'[c]) = i[c]
  BY <1>2, LowestSetBitIsSet, FrameAtParts
<1>4. /\ stable[c] = FreeFrames /\ beforeLast[c] = PrevBlock(last) /\ i[c] # beforeLast[c]
  BY <1>2 DEF SoleInv, ScanInv, Scanning
<1>5. NextBlock(beforeLast[c]) = last
  BY <1>2, <1>4, NextOfPrev
<1>6. ASSUME NEW g \in Scanned(FreeFrames, last)
      PROVE  ScanRank(frame'[c], last) <= ScanRank(g, last)
  <2>1. g \in stable[c]
    BY <1>4, <1>6 DEF Scanned
  <2> QED BY <1>5, <2>1, SwapTakesFirst
<1> QED BY <1>1, <1>3, <1>4, <1>6 DEF FirstScanned, Scanned

(* Where a scan ends nothing is left that it would find.                   *)
LEMMA SoleFindsNone ==
  ASSUME NEW c, CPU = {c}, SoleInv', ScanInv', IInv', pc'[c] = "giveUp",
         UNCHANGED lastAllocatedIndex
  PROVE  Scanned(FreeFrames', lastAllocatedIndex) = {}
<1>1. /\ stable'[c] = FreeFrames' /\ beforeLast'[c] = PrevBlock(lastAllocatedIndex)
      /\ i'[c] = beforeLast'[c] /\ i'[c] \in Blocks
      /\ \A f \in stable'[c] : BlockOf(f) \in Ahead(i'[c], beforeLast'[c])
  BY DEF SoleInv, ScanInv, Scanning, IInv, TypeOK, PrevBlock, Ahead
<1>2. Ahead(i'[c], beforeLast'[c]) = {beforeLast'[c]}
  BY <1>1, AheadAtLast
<1> QED BY <1>1, <1>2 DEF Scanned

LEMMA SequentialStep ==
  ASSUME BaseAligned, NEW c, CPU = {c}, IInv, IInv', ScanInv, ScanInv', SoleInv, SoleInv',
         [Next]_vars
  PROVE  [Sequential!Next]_(<<FreeFrames, LastIndex, Result>>)
<1> DEFINE free == FreeFrames
           last == LastIndex
           result == Result
<1> SUFFICES
      \/ UNCHANGED <<free, last, result>>
      \/ /\ result = {} /\ UNCHANGED last
         /\ \/ Scanned(free, last) = {} /\ result' = {PhysNull} /\ UNCHANGED free
            \/ (\E f \in free : free' = free \ {f}) /\ UNCHANGED result
            \/ (\E f \in Frames \ ({PhysNull} \cup free) : free' = free \cup {f})
                 /\ UNCHANGED result
      \/ result # {} /\ result' = {} /\ UNCHANGED <<free, last>>
      \/ /\ result = {}
         /\ \E f \in free : /\ FirstScanned(f, free, last) /\ free' = free \ {f}
                            /\ last' = BlockOf(f) /\ result' = {f}
  <2> HIDE DEF free, last, result
  <2> QED BY SameLayout DEF Sequential!Next, Sequential!Allocate, Sequential!AllocateFails,
            Sequential!Return, Sequential!AllocateFrame, Sequential!Free, free, last, result
<1> USE DEF IInv, TypeOK, Goto, Return
<1>1. /\ last = IF pc[c] = "writeLast" THEN i[c] ELSE lastAllocatedIndex
      /\ result = IF pc[c] \in {"writeLast", "giveUp"} THEN {frame[c]} ELSE {}
      /\ last' = IF pc'[c] = "writeLast" THEN i'[c] ELSE lastAllocatedIndex'
      /\ result' = IF pc'[c] \in {"writeLast", "giveUp"} THEN {frame'[c]} ELSE {}
  BY SoleMapping
<1> HIDE DEF last, result
<1>2. CASE UNCHANGED vars
  BY <1>1, <1>2, SameBitmap DEF vars, locals
<1>3. CASE AllocateCall(c) \/ ReadBlock(c)
  <2>1. /\ free' = free /\ UNCHANGED lastAllocatedIndex
        /\ pc[c] \notin {"writeLast", "giveUp"} /\ pc'[c] # "writeLast"
    BY <1>3, SameBitmap DEF AllocateCall, ReadBlock
  <2>2. CASE pc'[c] = "giveUp"
    <3>1. Scanned(free, lastAllocatedIndex) = {}
      BY <2>1, <2>2, SoleFindsNone
    <3>2. frame'[c] = PhysNull
      BY <2>2 DEF SoleInv, Scanning
    <3> QED BY <1>1, <2>1, <2>2, <3>1, <3>2
  <2>3. CASE pc'[c] # "giveUp"
    BY <1>1, <2>1, <2>3
  <2> QED BY <2>2, <2>3
<1>4. CASE SwapBlock(c)
  <2>1. CASE pc'[c] = "writeLast"
    <3>1. /\ FirstScanned(frame'[c], free, lastAllocatedIndex)
          /\ free' = free \ {frame'[c]} /\ BlockOf(frame'[c]) = i[c]
      BY <1>4, <2>1, SoleTakesFirst
    <3>2. frame'[c] \in free
      BY <3>1 DEF FirstScanned, Scanned
    <3>3. pc[c] = "swap" /\ i' = i
      BY <1>4 DEF SwapBlock
    <3> QED BY <1>1, <2>1, <3>1, <3>2, <3>3
  <2>2. CASE pc'[c] # "writeLast"
    <3>1. pc[c] = "swap" /\ pc'[c] = "readBlock" /\ UNCHANGED <<bitmap, lastAllocatedIndex>>
      BY <1>4, <2>2 DEF SwapBlock, SwapFails
    <3> QED BY <1>1, <3>1, SameBitmap
  <2> QED BY <2>1, <2>2
<1>5. CASE WriteLast(c)
  <2>1. /\ pc[c] = "writeLast" /\ pc'[c] = "idle" /\ UNCHANGED bitmap /\ lastAllocatedIndex' = i[c]
    BY <1>5 DEF WriteLast
  <2> QED BY <1>1, <2>1, SameBitmap
<1>6. CASE GiveUp(c)
  <2>1. /\ pc[c] = "giveUp" /\ pc'[c] = "idle" /\ UNCHANGED <<bitmap, lastAllocatedIndex>>
    BY <1>6 DEF GiveUp
  <2> QED BY <1>1, <2>1, SameBitmap
<1>7. ASSUME NEW f, AllocateFrameCall(c, f) \/ FreeCall(c, f)
      PROVE  UNCHANGED <<free, last, result>>
  <2>1. /\ pc[c] = "idle" /\ pc'[c] \in {"frameRead", "freeRead"}
        /\ UNCHANGED <<bitmap, lastAllocatedIndex>>
    BY <1>7 DEF AllocateFrameCall, FreeCall
  <2> QED BY <1>1, <2>1, SameBitmap
<1>8. CASE FrameRead(c) \/ FreeRead(c)
  <2>1. /\ pc[c] \in {"frameRead", "freeRead"}
        /\ pc'[c] \in {"idle", "frameSwap", "freeSwap", "bugcheck"}
        /\ UNCHANGED <<bitmap, lastAllocatedIndex>>
    BY <1>8 DEF FrameRead, FreeRead
  <2> QED BY <1>1, <2>1, SameBitmap
<1>9. CASE FrameSwap(c)
  <2>1. pc[c] = "frameSwap" /\ UNCHANGED lastAllocatedIndex
    BY <1>9 DEF FrameSwap
  <2>2. CASE pc'[c] = "idle"
    <3>1. frame[c] \in free /\ free' = free \ {frame[c]}
      BY <1>9, <2>2, FrameSwapTakes
    <3> QED BY <1>1, <2>1, <2>2, <3>1
  <2>3. CASE pc'[c] # "idle"
    <3>1. pc'[c] = "frameRead" /\ UNCHANGED bitmap
      BY <1>9, <2>3 DEF FrameSwap, SwapFails
    <3> QED BY <1>1, <2>1, <3>1, SameBitmap
  <2> QED BY <2>2, <2>3
<1>10. CASE FreeSwap(c)
  <2>1. pc[c] = "freeSwap" /\ UNCHANGED lastAllocatedIndex
    BY <1>10 DEF FreeSwap
  <2>2. CASE pc'[c] = "idle"
    <3>1. free' = free \cup {frame[c]}
      BY <1>10, <2>2, FreeSwapReleases
    <3>2. frame[c] \in Frames \ ({PhysNull} \cup free)
      BY <2>1 DEF LocalsOK, Partition, Carries
    <3> QED BY <1>1, <2>1, <2>2, <3>1, <3>2
  <2>3. CASE pc'[c] # "idle"
    <3>1. pc'[c] = "freeRead" /\ UNCHANGED bitmap
      BY <1>10, <2>3 DEF FreeSwap, SwapFails
    <3> QED BY <1>1, <2>1, <3>1, SameBitmap
  <2> QED BY <2>2, <2>3
<1> QED
  BY <1>2, <1>3, <1>4, <1>5, <1>6, <1>7, <1>8, <1>9, <1>10
  DEF Next, Allocate, AllocateFrame, Free

(* With a single CPU in it, PmmBitmapAllocator implements SequentialBitmap:*)
(* allocate() takes the first free frame of its scan, fails only where the *)
(* scan finds none, and each operation takes effect at once.               *)
THEOREM SequentialRefinement ==
  ASSUME BaseAligned, NEW c, CPU = {c}
  PROVE  Spec => ImplementsSequentialBitmap
<1>1. Init => ScanInv /\ SoleInv /\ Sequential!Init
  <2> SUFFICES ASSUME Init PROVE ScanInv /\ SoleInv /\ Sequential!Init
    OBVIOUS
  <2>1. FreeFrames = {} /\ LastIndex = 0 /\ Result = {}
    BY SoleMapping DEF Init, FreeFrames
  <2> QED BY <2>1 DEF Init, ScanInv, SoleInv, Scanning, Sequential!Init
<1>2. IInv /\ IInv' /\ ScanInv /\ [Next]_vars => ScanInv'
  BY ScanStep
<1>3. IInv /\ SoleInv /\ [Next]_vars => SoleInv'
  BY SoleStep
<1>4. IInv /\ IInv' /\ ScanInv /\ ScanInv' /\ SoleInv /\ SoleInv' /\ [Next]_vars
      => [Sequential!Next]_(<<FreeFrames, LastIndex, Result>>)
  BY SequentialStep
<1> QED
  BY <1>1, <1>2, <1>3, <1>4, InductiveInvariant, PTL
  DEF Spec, ImplementsSequentialBitmap, Sequential!Spec, Sequential!vars
=============================================================================
