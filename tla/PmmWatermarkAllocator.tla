------------------------ MODULE PmmWatermarkAllocator ------------------------
(***************************************************************************)
(* Source/Kernel/MM/PmmWatermarkAllocator.c: the allocator that hands out  *)
(* the RAM once, upwards, through a window of frames kept in a bitmap.     *)
(*                                                                         *)
(* Frames are frame numbers.  allocate() runs under m_lock, so its calls   *)
(* of the bitmap allocator are sequential and each is one step here; the   *)
(* interleaved ones are in PmmBitmapAllocator.  Asserts are modelled as in *)
(* a checked build.  free() is not supported and callers do not call it.   *)
(* given is not a variable of the code: the frames allocate() returned.    *)
(***************************************************************************)
EXTENDS PmmWindow, Sequences

CONSTANTS
  Thread, NoThread,
  RamLists, ReservedLists     \* what the boot loader may report

ASSUME WatermarkAssumption ==
  /\ NoThread \notin Thread
  /\ RamLists \subseteq Seq(Regions)
  /\ ReservedLists \subseteq Seq(Regions)

VARIABLES
  ramList, reservedList,    \* m_ramList and m_reservedList, which never change
  currentRegion,            \* m_currentRegion
  free,                     \* m_regionBitmapAllocator: frames whose bit is set
  lastIndex,                \* ... and its m_lastAllocatedIndex
  lock,                     \* m_lock: the thread that has it
  pc, frameAddr,            \* of allocate(), for each thread
  crashed,                  \* an assert failed: the machine has stopped
  given                     \* see above

lists  == <<ramList, reservedList>>
window == <<currentRegion, free, lastIndex>>
vars   == <<lists, window, lock, pc, frameAddr, crashed, given>>

AllFrames == 0 .. FrameNumber(MaxPhysAddr)
Elements(list) == {list[k] : k \in DOMAIN list}

Layout(base) == INSTANCE PmmBitmapLayout WITH BaseFrame <- FrameNumber(base)
-----------------------------------------------------------------------------
(* initCurrentRegion(): refill the bitmap for a window.                    *)

(* Bug: only a region that overlaps the window counts.                     *)
MoreOverlapping(win) == \E region \in Elements(ramList) : Overlaps(PageAligned(region), win)

(* freeRegion() returns TRUE for some region.                              *)
MoreFramesAvailable(win) == \E region \in Elements(ramList) : Reaches(region, win)

(* Two regions of the list free the same frame: free() asserts it is not   *)
(* free already.                                                           *)
FreedTwice(win) ==
  \E j, k \in DOMAIN ramList :
    j < k /\ FramesIn(ramList[j], win) \cap FramesIn(ramList[k], win) # {}

FramesInAny(list, win) == UNION {FramesIn(region, win) : region \in Elements(list)}

(* Bug: the reserved regions are left free.                                *)
FreeAfterInitAllRam(win) == FramesInAny(ramList, win)

(* RAM is freed first, then what is in use is allocated again.             *)
FreeAfterInit(win) ==
  FramesInAny(ramList, win)
    \ (IF MoreFramesAvailable(win) THEN FramesInAny(reservedList, win) ELSE {})

(* PmmWatermarkAllocator_create()                                          *)
Init ==
  /\ ramList \in RamLists
  /\ reservedList \in ReservedLists
  /\ currentRegion = Create(0, WindowSize)
  /\ free = FreeAfterInit(currentRegion)
  /\ lastIndex = 0
  /\ lock = NoThread
  /\ pc = [t \in Thread |-> "idle"]
  /\ frameAddr = [t \in Thread |-> PhysNull]
  /\ crashed = FreedTwice(currentRegion)
  /\ given = {}
-----------------------------------------------------------------------------
(* allocate()                                                              *)

Goto(t, from, to) ==
  /\ ~ crashed
  /\ pc[t] = from
  /\ pc' = [pc EXCEPT ![t] = to]

(* Bug: allocate() does without the lock, the bitmap being lock-free.      *)
AcquireNothing(t) ==
  /\ lock' = t
  /\ Goto(t, "idle", "try")
  /\ UNCHANGED <<lists, window, frameAddr, crashed, given>>

(* Lock_acquire()                                                          *)
Acquire(t) ==
  /\ lock = NoThread
  /\ lock' = t
  /\ Goto(t, "idle", "try")
  /\ UNCHANGED <<lists, window, frameAddr, crashed, given>>

(* PmmBitmapAllocator_allocate(), with nobody else in it.  That this is    *)
(* what the steps of a single CPU do, SequentialBitmap is about.           *)
Scanned  == Layout(currentRegion.base)!Scanned(free, lastIndex)
First(f) == Layout(currentRegion.base)!FirstScanned(f, free, lastIndex)

TryBitmap(t) ==
  /\ \/ /\ Goto(t, "try", "release")
        /\ \E f \in free :
             /\ First(f)
             /\ frameAddr' = [frameAddr EXCEPT ![t] = f]
             /\ free' = free \ {f}
             /\ lastIndex' = Layout(currentRegion.base)!BlockOf(f)
     \/ /\ Scanned = {}
        /\ Goto(t, "try", "advance")
        /\ UNCHANGED <<frameAddr, free, lastIndex>>
  /\ UNCHANGED <<lists, currentRegion, lock, crashed, given>>

(* Bug: the loop is not left when there is no window to advance to.        *)
AdvanceWindowForEver(t) ==
  LET next == IF CanAdvance(currentRegion) THEN Advanced(currentRegion) ELSE currentRegion IN
  /\ Goto(t, "advance", "try")
  /\ currentRegion' = next
  /\ free' = FreeAfterInit(next)
  /\ lastIndex' = 0
  /\ crashed' = FreedTwice(next)
  /\ UNCHANGED <<lists, lock, frameAddr, given>>

(* The window is used up: on to the next one, unless there is none or no   *)
(* RAM in it or above.                                                     *)
AdvanceWindow(t) ==
  /\ \/ /\ ~ CanAdvance(currentRegion)
        /\ Goto(t, "advance", "release")
        /\ UNCHANGED <<window, crashed>>
     \/ LET next == Advanced(currentRegion) IN
        /\ CanAdvance(currentRegion)
        /\ Goto(t, "advance", IF MoreFramesAvailable(next) THEN "try" ELSE "release")
        /\ currentRegion' = next
        /\ free' = FreeAfterInit(next)
        /\ lastIndex' = 0
        /\ crashed' = FreedTwice(next)
  /\ UNCHANGED <<lists, lock, frameAddr, given>>

(* Lock_release(), and the frame or PHYS_NULL goes to the caller.          *)
Release(t) ==
  /\ Goto(t, "release", "idle")
  /\ lock' = NoThread
  /\ given' = given \cup ({frameAddr[t]} \ {PhysNull})
  /\ frameAddr' = [frameAddr EXCEPT ![t] = PhysNull]
  /\ UNCHANGED <<lists, window, crashed>>

(* The steps of a call that has the lock.                                  *)
Locked(t) == TryBitmap(t) \/ AdvanceWindow(t) \/ Release(t)

Next == \E t \in Thread : Acquire(t) \/ Locked(t)

Spec     == Init /\ [][Next]_vars
FairSpec == Spec /\ \A t \in Thread : WF_vars(Locked(t))
-----------------------------------------------------------------------------
TypeOK ==
  /\ ramList \in RamLists /\ reservedList \in ReservedLists
  /\ currentRegion \in Regions
  /\ free \in SUBSET FramesOf(currentRegion)
  /\ lastIndex \in 0 .. NumBlocks - 1
  /\ lock \in Thread \cup {NoThread}
  /\ pc \in [Thread -> {"idle", "try", "advance", "release"}]
  /\ frameAddr \in [Thread -> AllFrames]
  /\ crashed \in BOOLEAN
  /\ given \in SUBSET AllFrames

FrameBytes(f) == f * PageSize .. f * PageSize + PageSize - 1

TouchedBy(list) ==
  {f \in AllFrames : \E region \in Elements(list) : FrameBytes(f) \cap Bytes(region) # {}}

(* The frames the allocator should hand out: they have RAM in them and     *)
(* nothing that is in use.                                                 *)
Usable == TouchedBy(ramList) \ (TouchedBy(reservedList) \cup {PhysNull})

InTransit == {frameAddr[t] : t \in Thread} \ {PhysNull}

(* Whatever the RAM and the reserved regions look like, where they cut     *)
(* pages and however they overlap, only usable frames are handed out: no   *)
(* byte of the kernel image, a module or a reserved region is in one.      *)
OnlyUsableGiven == given \cup InTransit \subseteq Usable

(* A frame the bitmap allocator cannot find: it is in the last block of    *)
(* its window, and there is nothing to allocate between the first block,   *)
(* where the scan starts, and that one, which it leaves out.               *)
LeftOut(f) ==
  LET win == f \div WindowFrames
      Block(g) == (g % WindowFrames) \div BitsPerBlock
  IN  /\ Block(f) = NumBlocks - 1
      /\ \A g \in Usable : g \div WindowFrames = win => Block(g) \in {0, NumBlocks - 1}

(* The window moves on only when nothing usable stays behind, except what  *)
(* the bitmap allocator's scan leaves out.  Without the lock, two threads  *)
(* that find the window empty would skip one.                              *)
NothingPassedOver ==
  \A f \in Usable :
    f < FrameNumber(currentRegion.base) => f \in given \cup InTransit \/ LeftOut(f)

Fails(t) == pc[t] = "release" /\ frameAddr[t] = PhysNull

(* When allocate() fails, all that was usable has been handed out, except  *)
(* what the scan leaves out: it does not give up at a gap in the RAM, nor  *)
(* miss the last window.                                                   *)
FailureAccountsForRam ==
  \A t \in Thread : Fails(t) /\ ~ crashed => \A f \in Usable : f \in given \/ LeftOut(f)

(* The assert in free() fails only for a RAM list in which two regions     *)
(* have bytes in the same frame.                                           *)
BugcheckOnlyOnSharedFrame ==
  crashed => \E j, k \in DOMAIN ramList :
               j # k /\ TouchedBy(<<ramList[j]>>) \cap TouchedBy(<<ramList[k]>>) # {}

(* The loop over the windows ends: the lock is always released again, or   *)
(* the machine has stopped.                                                *)
LockReleased == []<>(lock = NoThread \/ crashed)

(* The allocator implements FrameAllocator: no frame is handed out twice.  *)
WhereIs(f) ==
  IF f \in InTransit THEN "taken" ELSE IF f \in given THEN "held" ELSE "free"

Abstract == INSTANCE FrameAllocator WITH
  Frames <- AllFrames \ {PhysNull},
  place  <- [f \in AllFrames \ {PhysNull} |-> WhereIs(f)]

ImplementsFrameAllocator == Abstract!Spec
=============================================================================
