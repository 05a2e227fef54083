------------------------- MODULE PmmBitmapAllocator -------------------------
(***************************************************************************)
(* Source/Kernel/MM/PmmBitmapAllocator.c: the lock-free frame allocator.   *)
(*                                                                         *)
(* Several CPUs run allocate(), allocateFrame() and free() at once.  Each  *)
(* Atomic_read, Atomic_write and Atomic_compareAndSwap is one step; what a *)
(* call computes from its local variables in between belongs to the step   *)
(* before.  Asserts are modelled as in a checked build: the CPU bugchecks. *)
(*                                                                         *)
(* held and stable are not variables of the code.  held is the frames that *)
(* are out with callers, who free only those (IPmmAllocator.h, "must have  *)
(* already been allocated"), on any CPU.  stable[c] is a history variable: *)
(* the frames that have been free ever since CPU c called allocate().      *)
(***************************************************************************)
EXTENDS PmmBitmapLayout

CONSTANT CPU

VARIABLES
  bitmap,               \* m_bitmap: block |-> set of its bits that are set
  lastAllocatedIndex,   \* m_lastAllocatedIndex
  pc,                   \* where each CPU is in the allocator
  i,                    \* local i of allocate(): the block being tried
  beforeLast,           \* local beforeLast of allocate()
  block,                \* local block: the value last read from the bitmap
  frame,                \* frame being allocated or freed by the call
  held,                 \* frames out with callers
  stable                \* see above

locals == <<pc, i, beforeLast, block, frame>>
vars   == <<bitmap, lastAllocatedIndex, locals, held, stable>>

(* The frames whose bit is set: those allocate() may still hand out.       *)
FreeFrames == UNION {{FrameAt(k, b) : b \in bitmap[k]} : k \in Blocks}

(* PmmBitmapAllocator_create(): every frame is considered allocated, that  *)
(* is, out with the caller.  Nobody can hold frame PHYS_NULL.              *)
Init ==
  /\ bitmap = [k \in Blocks |-> {}]
  /\ lastAllocatedIndex = 0
  /\ pc = [c \in CPU |-> "idle"]
  /\ i = [c \in CPU |-> 0]
  /\ beforeLast = [c \in CPU |-> 0]
  /\ block = [c \in CPU |-> {}]
  /\ frame = [c \in CPU |-> PhysNull]
  /\ held = Frames \ {PhysNull}
  /\ stable = [c \in CPU |-> {}]

Goto(c, from, to) ==
  /\ pc[c] = from
  /\ pc' = [pc EXCEPT ![c] = to]

(* The call returns and its locals are gone.                               *)
Return(c) ==
  /\ pc' = [pc EXCEPT ![c] = "idle"]
  /\ i' = [i EXCEPT ![c] = 0]
  /\ beforeLast' = [beforeLast EXCEPT ![c] = 0]
  /\ block' = [block EXCEPT ![c] = {}]
  /\ frame' = [frame EXCEPT ![c] = PhysNull]

(* Bug: the block is written without comparing it with what was read.      *)
SwapUncompared(c, k, newBlock) == bitmap' = [bitmap EXCEPT ![k] = newBlock]

(* Atomic_compareAndSwap on block k of the bitmap, and its two outcomes.   *)
Swap(c, k, newBlock) ==
  /\ bitmap[k] = block[c]
  /\ bitmap' = [bitmap EXCEPT ![k] = newBlock]

SwapFails(c, k) == bitmap[k] # block[c] /\ UNCHANGED bitmap

(* After a frame left the free ones, no call has seen it free throughout.  *)
NoLongerStable(f) == stable' = [c \in CPU |-> stable[c] \ {f}]
-----------------------------------------------------------------------------
(* allocate(): one pass round the bitmap from the last block used.         *)

(* Bug: the scan starts after the last block used, but ends where it did.  *)
AllocateCallNext(c) ==
  LET last == lastAllocatedIndex IN
  /\ Goto(c, "idle", IF NextBlock(last) = PrevBlock(last) THEN "giveUp" ELSE "readBlock")
  /\ i' = [i EXCEPT ![c] = NextBlock(last)]
  /\ beforeLast' = [beforeLast EXCEPT ![c] = PrevBlock(last)]
  /\ stable' = [stable EXCEPT ![c] = FreeFrames]
  /\ UNCHANGED <<bitmap, lastAllocatedIndex, block, frame, held>>

(* The call, and the read of m_lastAllocatedIndex.  The scan ends when it  *)
(* gets to the block before the first one, which is not tried.             *)
AllocateCall(c) ==
  LET last == lastAllocatedIndex IN
  /\ Goto(c, "idle", IF last = PrevBlock(last) THEN "giveUp" ELSE "readBlock")
  /\ i' = [i EXCEPT ![c] = last]
  /\ beforeLast' = [beforeLast EXCEPT ![c] = PrevBlock(last)]
  /\ stable' = [stable EXCEPT ![c] = FreeFrames]
  /\ UNCHANGED <<bitmap, lastAllocatedIndex, block, frame, held>>

(* Read block i: also the re-read after a lost compare-and-swap.           *)
ReadBlock(c) ==
  /\ pc[c] = "readBlock"
  /\ block' = [block EXCEPT ![c] = bitmap[i[c]]]
  /\ IF bitmap[i[c]] # {}
       THEN Goto(c, "readBlock", "swap") /\ UNCHANGED i
       ELSE LET next == NextBlock(i[c]) IN
            /\ i' = [i EXCEPT ![c] = next]
            /\ Goto(c, "readBlock", IF next = beforeLast[c] THEN "giveUp" ELSE "readBlock")
  /\ UNCHANGED <<bitmap, lastAllocatedIndex, beforeLast, frame, held, stable>>

(* Bug: a lost swap is tried again with the block as it was read before.   *)
SwapBlockStale(c) ==
  LET bit == LowestSetBit(block[c])
      f   == FrameAt(i[c], bit)
  IN
  /\ pc[c] = "swap"
  /\ \/ /\ Swap(c, i[c], block[c] \ {bit})
        /\ Goto(c, "swap", "writeLast")
        /\ frame' = [frame EXCEPT ![c] = f]
        /\ NoLongerStable(f)
     \/ /\ SwapFails(c, i[c])
        /\ UNCHANGED <<pc, frame, stable>>
  /\ UNCHANGED <<lastAllocatedIndex, i, beforeLast, block, held>>

SwapBlock(c) ==
  LET bit == LowestSetBit(block[c])
      f   == FrameAt(i[c], bit)
  IN
  /\ pc[c] = "swap"
  /\ \/ /\ Swap(c, i[c], block[c] \ {bit})
        /\ Goto(c, "swap", "writeLast")
        /\ frame' = [frame EXCEPT ![c] = f]
        /\ NoLongerStable(f)
     \/ /\ SwapFails(c, i[c])
        /\ Goto(c, "swap", "readBlock")
        /\ UNCHANGED <<frame, stable>>
  /\ UNCHANGED <<lastAllocatedIndex, i, beforeLast, block, held>>

(* Write m_lastAllocatedIndex and return the frame to the caller.          *)
WriteLast(c) ==
  /\ pc[c] = "writeLast"
  /\ lastAllocatedIndex' = i[c]
  /\ held' = held \cup {frame[c]}
  /\ stable' = [stable EXCEPT ![c] = {}]
  /\ Return(c)
  /\ UNCHANGED bitmap

(* Return PHYS_NULL.                                                       *)
GiveUp(c) ==
  /\ pc[c] = "giveUp"
  /\ stable' = [stable EXCEPT ![c] = {}]
  /\ Return(c)
  /\ UNCHANGED <<bitmap, lastAllocatedIndex, held>>
-----------------------------------------------------------------------------
(* allocateFrame(): one particular frame, or PHYS_NULL if it is taken.     *)

AllocateFrameCall(c, f) ==
  /\ Goto(c, "idle", "frameRead")
  /\ frame' = [frame EXCEPT ![c] = f]
  /\ UNCHANGED <<bitmap, lastAllocatedIndex, i, beforeLast, block, held, stable>>

(* Bug: the frame is not looked up before it is swapped out.               *)
FrameReadUnchecked(c) ==
  /\ Goto(c, "frameRead", "frameSwap")
  /\ block' = [block EXCEPT ![c] = bitmap[BlockOf(frame[c])]]
  /\ UNCHANGED <<bitmap, lastAllocatedIndex, i, beforeLast, frame, held, stable>>

FrameRead(c) ==
  LET current == bitmap[BlockOf(frame[c])] IN
  /\ pc[c] = "frameRead"
  /\ \/ /\ BitOf(frame[c]) \notin current
        /\ Return(c)
     \/ /\ BitOf(frame[c]) \in current
        /\ Goto(c, "frameRead", "frameSwap")
        /\ block' = [block EXCEPT ![c] = current]
        /\ UNCHANGED <<i, beforeLast, frame>>
  /\ UNCHANGED <<bitmap, lastAllocatedIndex, held, stable>>

(* Bug: the swap leaves the frame's bit set.                               *)
FrameSwapKeepsBit(c) ==
  LET k == BlockOf(frame[c]) IN
  /\ pc[c] = "frameSwap"
  /\ \/ /\ Swap(c, k, block[c] \cup {BitOf(frame[c])})
        /\ held' = held \cup {frame[c]}
        /\ NoLongerStable(frame[c])
        /\ Return(c)
     \/ /\ SwapFails(c, k)
        /\ Goto(c, "frameSwap", "frameRead")
        /\ UNCHANGED <<i, beforeLast, block, frame, held, stable>>
  /\ UNCHANGED lastAllocatedIndex

FrameSwap(c) ==
  LET k == BlockOf(frame[c]) IN
  /\ pc[c] = "frameSwap"
  /\ \/ /\ Swap(c, k, block[c] \ {BitOf(frame[c])})
        /\ held' = held \cup {frame[c]}
        /\ NoLongerStable(frame[c])
        /\ Return(c)
     \/ /\ SwapFails(c, k)
        /\ Goto(c, "frameSwap", "frameRead")
        /\ UNCHANGED <<i, beforeLast, block, frame, held, stable>>
  /\ UNCHANGED lastAllocatedIndex
-----------------------------------------------------------------------------
(* free()                                                                  *)

FreeCall(c, f) ==
  /\ f \in held
  /\ held' = held \ {f}
  /\ Goto(c, "idle", "freeRead")
  /\ frame' = [frame EXCEPT ![c] = f]
  /\ UNCHANGED <<bitmap, lastAllocatedIndex, i, beforeLast, block, stable>>

(* The assert that the frame is not free already fails, or the swap next.  *)
FreeRead(c) ==
  LET current == bitmap[BlockOf(frame[c])] IN
  /\ Goto(c, "freeRead", IF BitOf(frame[c]) \in current THEN "bugcheck" ELSE "freeSwap")
  /\ block' = [block EXCEPT ![c] = current]
  /\ UNCHANGED <<bitmap, lastAllocatedIndex, i, beforeLast, frame, held, stable>>

(* Bug: a lost swap is not retried.                                        *)
FreeSwapOnce(c) ==
  LET k == BlockOf(frame[c]) IN
  /\ pc[c] = "freeSwap"
  /\ Swap(c, k, block[c] \cup {BitOf(frame[c])}) \/ SwapFails(c, k)
  /\ Return(c)
  /\ UNCHANGED <<lastAllocatedIndex, held, stable>>

FreeSwap(c) ==
  LET k == BlockOf(frame[c]) IN
  /\ pc[c] = "freeSwap"
  /\ \/ /\ Swap(c, k, block[c] \cup {BitOf(frame[c])})
        /\ Return(c)
     \/ /\ SwapFails(c, k)
        /\ Goto(c, "freeSwap", "freeRead")
        /\ UNCHANGED <<i, beforeLast, block, frame>>
  /\ UNCHANGED <<lastAllocatedIndex, held, stable>>
-----------------------------------------------------------------------------
Allocate(c) == AllocateCall(c) \/ ReadBlock(c) \/ SwapBlock(c) \/ WriteLast(c) \/ GiveUp(c)

AllocateFrame(c) ==
  \/ \E f \in Frames \ {PhysNull} : AllocateFrameCall(c, f)
  \/ FrameRead(c)
  \/ FrameSwap(c)

Free(c) == (\E f \in held : FreeCall(c, f)) \/ FreeRead(c) \/ FreeSwap(c)

Next == \E c \in CPU : Allocate(c) \/ AllocateFrame(c) \/ Free(c)

(* The steps of a call under way: a CPU that is in the allocator goes on.  *)
Step(c) ==
  \/ ReadBlock(c) \/ SwapBlock(c) \/ WriteLast(c) \/ GiveUp(c)
  \/ FrameRead(c) \/ FrameSwap(c)
  \/ FreeRead(c) \/ FreeSwap(c)

Spec     == Init /\ [][Next]_vars
FairSpec == Spec /\ \A c \in CPU : WF_vars(Step(c))
-----------------------------------------------------------------------------
PCs == {"idle", "readBlock", "swap", "writeLast", "giveUp", "frameRead", "frameSwap",
        "freeRead", "freeSwap", "bugcheck"}

(* Every variable has its type; local frame is a frame of the region once  *)
(* a call has one.                                                         *)
TypeOK ==
  /\ bitmap \in [Blocks -> SUBSET Bits]
  /\ lastAllocatedIndex \in Blocks
  /\ pc \in [CPU -> PCs]
  /\ i \in [CPU -> Blocks]
  /\ beforeLast \in [CPU -> Blocks]
  /\ block \in [CPU -> SUBSET Bits]
  /\ frame \in [CPU -> Frames \cup {PhysNull}]
  /\ held \in SUBSET Frames
  /\ stable \in [CPU -> SUBSET Frames]

(* A frame in the hands of a call: swapped out of the bitmap by allocate() *)
(* and not returned yet, or passed to free() and not put back yet.         *)
Carries(c) == pc[c] \in {"writeLast", "freeRead", "freeSwap", "bugcheck"}

InTransit == {frame[c] : c \in {d \in CPU : Carries(d)}}

(* However the CPUs' calls interleave, a frame is in one place only: set   *)
(* in the bitmap, held by a caller, or carried by one call.  So allocate() *)
(* never returns a frame somebody has, though another CPU may have taken   *)
(* or freed bits of the same block between the read and the swap.          *)
OnePlace ==
  /\ FreeFrames \cap held = {}
  /\ InTransit \cap (FreeFrames \cup held) = {}
  /\ \A c, d \in CPU : Carries(c) /\ Carries(d) /\ frame[c] = frame[d] => c = d

(* No interleaving loses a frame for good (a swap that overwrote another   *)
(* CPU's free() would), except PHYS_NULL, which is never free.             *)
NoneLost == FreeFrames \cup held \cup InTransit = Frames \ {PhysNull}

(* free() never trips over its own assert when callers free only frames    *)
(* they hold, whatever the other CPUs do to the same block meanwhile.      *)
NoBugcheck == \A c \in CPU : pc[c] # "bugcheck"

(* PHYS_NULL cannot be mistaken for a frame: success never returns it.     *)
(* This follows from NoneLost, for what a call carries is no PHYS_NULL.    *)
NullIsFailure == \A c \in CPU : pc[c] = "writeLast" => frame[c] # PhysNull

(* What a failed allocate() does tell its caller: a frame that was free    *)
(* all through the call is in the one block the scan leaves out.           *)
FailureMeansScanned ==
  \A c \in CPU : pc[c] = "giveUp" => \A f \in stable[c] : BlockOf(f) = beforeLast[c]

(* What success tells it: no frame that was free all through the call, but *)
(* for that block, comes before the one returned in the order of the scan, *)
(* however often the call lost its swap and whatever became free meanwhile.*)
FirstFit ==
  \A c \in CPU : pc[c] = "writeLast" =>
    LET first == NextBlock(beforeLast[c]) IN
    \A f \in Scanned(stable[c], first) : ScanRank(frame[c], first) <= ScanRank(f, first)

(* IPmmAllocator.h: "This method returns PHYS_NULL if and only if there    *)
(* are no more frames available": no frame was free all through the call.  *)
NullMeansNoFrames == \A c \in CPU : pc[c] = "giveUp" => stable[c] = {}

(* Lock freedom.  A call that keeps losing its swap loses it to calls that *)
(* finish: it never happens that every CPU is stuck for ever ...           *)
SomeCallReturns == []<>(\E c \in CPU : pc[c] = "idle")

(* ... and a CPU that is left alone finishes its call.                     *)
AloneReturns ==
  \A c \in CPU : (<>[](\A d \in CPU \ {c} : pc[d] = "idle")) => []<>(pc[c] = "idle")
-----------------------------------------------------------------------------
(* The allocator implements FrameAllocator.                                *)
WhereIs(f) ==
  IF f \in FreeFrames THEN "free"
  ELSE IF f \in held THEN "held"
  ELSE IF \E c \in CPU : pc[c] = "writeLast" /\ frame[c] = f THEN "taken"
  ELSE "returned"

Abstract == INSTANCE FrameAllocator WITH
  Frames <- Frames \ {PhysNull},
  place  <- [f \in Frames \ {PhysNull} |-> WhereIs(f)]

ImplementsFrameAllocator == Abstract!Spec

(* A single CPU implements SequentialBitmap, which is all that clients who *)
(* have a lock need to know.  A call takes effect with its swap, or when   *)
(* it has seen the last block.                                             *)
LastIndex ==
  IF \E c \in CPU : pc[c] = "writeLast"
    THEN i[CHOOSE c \in CPU : pc[c] = "writeLast"]
    ELSE lastAllocatedIndex

Result == {frame[c] : c \in {d \in CPU : pc[d] \in {"writeLast", "giveUp"}}}

Sequential == INSTANCE SequentialBitmap WITH
  free <- FreeFrames, lastIndex <- LastIndex, result <- Result

ImplementsSequentialBitmap == Sequential!Spec
=============================================================================
