--------------------- MODULE PmmWatermarkAllocatorProofs ---------------------
(***************************************************************************)
(* The watermark allocator keeps its promises for any memory map, any      *)
(* number of threads, and windows of any size that divides the address     *)
(* space.                                                                  *)
(***************************************************************************)
EXTENDS PmmWatermarkAllocator, PmmRegionProofs

(* The region of pages a to b.                                             *)
Pages(a, b) == [base |-> PageSize * a, last |-> PageSize * b + PageSize - 1]

(* The k-th window.                                                        *)
FirstOf(k) == WindowFrames * k
LastOf(k)  == WindowFrames * k + WindowFrames - 1
WindowAt(k) == Pages(FirstOf(k), LastOf(k))

BlockIn(f) == (f % WindowFrames) \div BitsPerBlock
-----------------------------------------------------------------------------
(* Pages and windows                                                       *)

LEMMA PagesFrames ==
  ASSUME NEW a \in Nat, NEW b \in Nat
  PROVE  /\ Pages(a, b).base \in Nat /\ Pages(a, b).last \in Nat
         /\ FrameNumber(Pages(a, b).base) = a
         /\ FrameNumber(Pages(a, b).last) = b
<1> DEFINE x == PageSize * a
           y == PageSize * b
<1>1. x \in Nat /\ y \in Nat /\ PageSize \in Nat \ {0}
  BY PagesOrdered, PhysAddrAssumption
<1>2. Pages(a, b).base = x /\ Pages(a, b).last = y + PageSize - 1
  BY DEF Pages
<1>3. y + PageSize - 1 \in Nat
  <2> HIDE DEF y
  <2> QED BY <1>1
<1>4. a <= FrameNumber(x) /\ FrameNumber(x) <= a
  <2>1. PageSize * a <= x /\ x <= PageSize * a + PageSize - 1
    BY <1>1
  <2> HIDE DEF x
  <2> QED BY <1>1, <2>1, FrameAtLeast, FrameAtMost
<1>5. b <= FrameNumber(y + PageSize - 1) /\ FrameNumber(y + PageSize - 1) <= b
  <2>1. PageSize * b <= y + PageSize - 1 /\ y + PageSize - 1 <= PageSize * b + PageSize - 1
    BY <1>1
  <2> HIDE DEF y
  <2> QED BY <1>3, <2>1, FrameAtLeast, FrameAtMost
<1>6. FrameNumber(x) \in Nat /\ FrameNumber(y + PageSize - 1) \in Nat
  <2> HIDE DEF x, y
  <2> QED BY <1>1, <1>3, PageDivMod
<1> HIDE DEF x, y
<1> QED BY <1>1, <1>2, <1>3, <1>4, <1>5, <1>6

LEMMA PageAlignedPages ==
  ASSUME NEW r \in Regions
  PROVE  /\ PageAligned(r) = Pages(FrameNumber(r.base), FrameNumber(r.last))
         /\ FrameNumber(r.base) \in Nat /\ FrameNumber(r.last) \in Nat
         /\ FrameNumber(r.base) <= FrameNumber(r.last)
<1>1. r.base \in Nat /\ r.last \in Nat /\ r.base <= r.last
  BY RegionFields
<1>2. PageAligned(r).base = PageSize * FrameNumber(r.base)
  BY <1>1, PageDivMod DEF PageAligned
<1>3. PageAligned(r).last = PageSize * FrameNumber(r.last) + PageSize - 1
  BY PageAlignedLast
<1>4. PageAligned(r) = [base |-> PageAligned(r).base, last |-> PageAligned(r).last]
  BY DEF PageAligned
<1> QED BY <1>1, <1>2, <1>3, <1>4, PageDivMod, FramesMonotone DEF Pages

(* Clipping whole pages is clipping their numbers.                         *)
LEMMA ClippedPages ==
  ASSUME NEW a \in Nat, NEW b \in Nat, NEW c \in Nat, NEW d \in Nat
  PROVE  /\ Below(Pages(a, b), Pages(c, d).base) <=> b < c
         /\ Overlaps(Pages(a, b), Pages(c, d)) <=> c <= b /\ a <= d
         /\ FramesOf(Clipped(Pages(a, b), Pages(c, d))) = (a .. b) \cap (c .. d)
<1>1. /\ PageSize \in Nat \ {0}
      /\ PageSize * a \in Nat /\ PageSize * b \in Nat
      /\ PageSize * c \in Nat /\ PageSize * d \in Nat
  BY PagesOrdered, PhysAddrAssumption
<1>2. ASSUME NEW p \in Nat, NEW q \in Nat
      PROVE  PageSize * p + PageSize - 1 < PageSize * q <=> p < q
  <2>1. PICK x \in Nat : x = PageSize * p + PageSize - 1
    BY <1>1, PagesOrdered
  <2>2. FrameNumber(x) = p
    BY <2>1, PagesFrames DEF Pages
  <2>3. q <= p <=> PageSize * q <= x
    BY <2>2, FrameAtLeast
  <2>4. PageSize * q \in Nat
    BY PagesOrdered
  <2> QED BY <2>1, <2>3, <2>4
<1>3. Below(Pages(a, b), Pages(c, d).base) <=> b < c
  BY <1>2 DEF Below, Pages
<1>4. Overlaps(Pages(a, b), Pages(c, d)) <=> c <= b /\ a <= d
  BY <1>2 DEF Overlaps, Below, Pages
<1>5. PageSize * a < PageSize * c <=> a < c
  <2>1. c <= FrameNumber(Pages(a, b).base) <=> PageSize * c <= Pages(a, b).base
    BY PagesFrames, FrameAtLeast
  <2> QED BY <1>1, <2>1, PagesFrames DEF Pages
<1>6. PageSize * d + PageSize - 1 < PageSize * b + PageSize - 1 <=> d < b
  <2>1. FrameNumber(Pages(a, b).last) <= d
          <=> Pages(a, b).last <= PageSize * d + PageSize - 1
    BY PagesFrames, FrameAtMost
  <2> QED BY <1>1, <2>1, PagesFrames DEF Pages
<1>7. Clipped(Pages(a, b), Pages(c, d))
        = Pages(IF a < c THEN c ELSE a, IF d < b THEN d ELSE b)
  BY <1>5, <1>6 DEF Clipped, Pages
<1>8. FramesOf(Clipped(Pages(a, b), Pages(c, d)))
        = (IF a < c THEN c ELSE a) .. (IF d < b THEN d ELSE b)
  BY <1>7, PagesFrames DEF FramesOf
<1> QED BY <1>3, <1>4, <1>8

(* A region has bytes in the frames from its first one to its last one.    *)
LEMMA TouchedFrames ==
  ASSUME NEW r \in Regions, NEW f \in Nat
  PROVE  FrameBytes(f) \cap Bytes(r) # {} <=> f \in FramesOf(r)
<1>1. /\ r.base \in Nat /\ r.last \in Nat /\ r.base <= r.last
      /\ PageSize \in Nat \ {0} /\ PageSize * f \in Nat
      /\ FrameNumber(r.base) \in Nat /\ FrameNumber(r.last) \in Nat
  BY RegionFields, PhysAddrAssumption, PagesOrdered, PageDivMod
<1>2. f \in FramesOf(r) <=> PageSize * f <= r.last /\ r.base <= PageSize * f + PageSize - 1
  BY <1>1, FrameAtLeast, FrameAtMost DEF FramesOf
<1>3. PICK x \in Nat : x = PageSize * f
  BY <1>1
<1>4. FrameBytes(f) = x .. x + PageSize - 1
  BY <1>1, <1>3 DEF FrameBytes
<1>5. ASSUME x <= r.last, r.base <= x + PageSize - 1
      PROVE  FrameBytes(f) \cap Bytes(r) # {}
  <2>1. (IF r.base < x THEN x ELSE r.base) \in (x .. x + PageSize - 1) \cap (r.base .. r.last)
    BY <1>1, <1>5
  <2> QED BY <1>4, <2>1 DEF Bytes
<1>6. ASSUME NEW y \in FrameBytes(f) \cap Bytes(r)
      PROVE  x <= r.last /\ r.base <= x + PageSize - 1
  <2>1. y \in Int /\ x <= y /\ y <= x + PageSize - 1 /\ r.base <= y /\ y <= r.last
    BY <1>1, <1>4 DEF Bytes
  <2> QED BY <1>1, <2>1
<1> QED BY <1>2, <1>3, <1>5, <1>6
LEMMA WindowFramesNat == WindowFrames \in Nat \ {0}
BY WindowAssumption DEF WindowFrames

LEMMA FrameDivMod ==
  ASSUME NEW f \in Nat
  PROVE  /\ f \div WindowFrames \in Nat
         /\ f % WindowFrames \in 0 .. WindowFrames - 1
         /\ f = WindowFrames * (f \div WindowFrames) + (f % WindowFrames)
BY WindowFramesNat

LEMMA WindowsOrdered ==
  ASSUME NEW j \in Nat, NEW k \in Nat
  PROVE  /\ FirstOf(k) \in Nat /\ LastOf(k) \in Nat
         /\ LastOf(k) = FirstOf(k) + WindowFrames - 1
         /\ FirstOf(k + 1) = LastOf(k) + 1
         /\ j < k => LastOf(j) < FirstOf(k)
<1>1. WindowFrames \in Nat \ {0}
  BY WindowFramesNat
<1>2. /\ WindowFrames * k \in Nat /\ WindowFrames * j \in Nat
      /\ WindowFrames * (k + 1) = WindowFrames * k + WindowFrames
      /\ WindowFrames * (j + 1) = WindowFrames * j + WindowFrames
      /\ j + 1 <= k => WindowFrames * (j + 1) <= WindowFrames * k
  BY <1>1
<1>3. PICK x \in Nat, y \in Nat : x = WindowFrames * k /\ y = WindowFrames * j
  BY <1>2
<1>4. j < k => y + WindowFrames <= x
  BY <1>2, <1>3
<1> QED BY <1>1, <1>2, <1>3, <1>4 DEF FirstOf, LastOf

(* The windows divide the frames.                                          *)
LEMMA WindowHas ==
  ASSUME NEW k \in Nat, NEW f \in Nat
  PROVE  /\ f \in FirstOf(k) .. LastOf(k) <=> f \div WindowFrames = k
         /\ f < FirstOf(k) <=> f \div WindowFrames < k
         /\ LastOf(k) < f <=> k < f \div WindowFrames
         /\ f \in FirstOf(k) .. LastOf(k) => f - FirstOf(k) = f % WindowFrames
<1> DEFINE j == f \div WindowFrames
           m == f % WindowFrames
<1>1. j \in Nat /\ m \in 0 .. WindowFrames - 1 /\ f = FirstOf(j) + m
  BY FrameDivMod DEF FirstOf
<1>2. /\ FirstOf(j) \in Nat /\ LastOf(j) \in Nat /\ LastOf(j) = FirstOf(j) + WindowFrames - 1
      /\ FirstOf(k) \in Nat /\ LastOf(k) \in Nat /\ LastOf(k) = FirstOf(k) + WindowFrames - 1
      /\ j < k => LastOf(j) < FirstOf(k)
      /\ k < j => LastOf(k) < FirstOf(j)
  BY <1>1, WindowsOrdered
<1> HIDE DEF j, m
<1>3. WindowFrames \in Nat \ {0}
  BY WindowFramesNat
<1>4. f \in FirstOf(j) .. LastOf(j)
  BY <1>1, <1>2, <1>3
<1>5. j = k => f - FirstOf(k) = m
  BY <1>1, <1>2
<1>6. j < k => f < FirstOf(k)
  BY <1>1, <1>2, <1>3, <1>4
<1>7. k < j => LastOf(k) < f
  BY <1>1, <1>2, <1>3, <1>4
<1>8. j < k \/ j = k \/ k < j
  BY <1>1
<1>9. FirstOf(k) <= LastOf(k)
  BY <1>2, <1>3
<1>10. f \in FirstOf(k) .. LastOf(k) <=> j = k
  BY <1>1, <1>2, <1>4, <1>6, <1>7, <1>8, <1>9
<1>11. f < FirstOf(k) <=> j < k
  BY <1>1, <1>2, <1>4, <1>6, <1>7, <1>8, <1>9
<1>12. LastOf(k) < f <=> k < j
  BY <1>1, <1>2, <1>4, <1>6, <1>7, <1>8, <1>9
<1> QED BY <1>5, <1>10, <1>11, <1>12 DEF j, m

LEMMA WindowBounds ==
  ASSUME NEW k \in Nat
  PROVE  FirstOf(k) \in Nat /\ LastOf(k) \in Nat /\ FirstOf(k) <= LastOf(k)
<1>1. /\ FirstOf(k) \in Nat /\ LastOf(k) \in Nat
      /\ LastOf(k) = FirstOf(k) + WindowFrames - 1
  BY WindowsOrdered
<1> QED BY <1>1, WindowFramesNat

LEMMA WindowAtFrames ==
  ASSUME NEW k \in Nat
  PROVE  /\ FrameNumber(WindowAt(k).base) = FirstOf(k)
         /\ FrameNumber(WindowAt(k).last) = LastOf(k)
         /\ FramesOf(WindowAt(k)) = FirstOf(k) .. LastOf(k)
BY WindowBounds, PagesFrames DEF WindowAt, FramesOf

LEMMA BlockRange ==
  ASSUME NEW f \in Nat
  PROVE  BlockIn(f) \in 0 .. NumBlocks - 1
<1> DEFINE m == f % WindowFrames
           b == m \div BitsPerBlock
<1>1. /\ m \in Nat /\ m < WindowFrames
      /\ NumBlocks \in Nat \ {0} /\ BitsPerBlock \in Nat \ {0}
  BY SMTT(40), FrameDivMod, WindowFramesNat, WindowAssumption
<1> HIDE DEF m
<1>2. b \in Nat /\ BitsPerBlock * b <= m
  BY <1>1
<1>3. ASSUME NumBlocks <= b PROVE FALSE
  <2>1. BitsPerBlock * NumBlocks <= BitsPerBlock * b
    BY <1>1, <1>2, <1>3
  <2>2. PICK x \in Nat, y \in Nat : x = BitsPerBlock * NumBlocks /\ y = BitsPerBlock * b
    BY <1>1, <1>2
  <2>3. WindowFrames = x
    BY <1>1, <2>2 DEF WindowFrames
  <2> QED BY <1>1, <1>2, <2>1, <2>2, <2>3
<1> QED BY <1>1, <1>2, <1>3 DEF BlockIn, m

(* The bitmap allocator's block of a frame of the window.                  *)
LEMMA LayoutBlock ==
  ASSUME NEW k \in Nat, NEW f \in FirstOf(k) .. LastOf(k)
  PROVE  Layout(WindowAt(k).base)!BlockOf(f) = BlockIn(f)
<1>1. f \in Nat
  BY WindowBounds
<1>2. FrameNumber(WindowAt(k).base) = FirstOf(k)
  BY WindowAtFrames
<1>3. f - FirstOf(k) = f % WindowFrames
  BY <1>1, WindowHas
<1> QED BY <1>2, <1>3 DEF Layout!BlockOf, BlockIn
-----------------------------------------------------------------------------
(* What a window is filled with                                            *)

LEMMA FramesInWindow ==
  ASSUME NEW r \in Regions, NEW k \in Nat
  PROVE  FramesIn(r, WindowAt(k)) = (FramesOf(r) \cap FramesOf(WindowAt(k))) \ {PhysNull}
<1>1. /\ FirstOf(k) \in Nat /\ LastOf(k) \in Nat /\ FirstOf(k) <= LastOf(k)
      /\ FramesOf(WindowAt(k)) = FirstOf(k) .. LastOf(k)
  BY WindowBounds, WindowAtFrames
<1>2. PICK a \in Nat, b \in Nat :
        PageAligned(r) = Pages(a, b) /\ FramesOf(r) = a .. b /\ a <= b
  BY PageAlignedPages DEF FramesOf
<1>3. Overlaps(PageAligned(r), WindowAt(k)) <=> FirstOf(k) <= b /\ a <= LastOf(k)
  BY <1>1, <1>2, ClippedPages DEF WindowAt
<1>4. FramesOf(Clipped(PageAligned(r), WindowAt(k))) = (a .. b) \cap (FirstOf(k) .. LastOf(k))
  BY <1>1, <1>2, ClippedPages DEF WindowAt
<1>5. ~ (FirstOf(k) <= b /\ a <= LastOf(k)) => (a .. b) \cap (FirstOf(k) .. LastOf(k)) = {}
  BY <1>1, <1>2
<1> QED BY <1>1, <1>2, <1>3, <1>4, <1>5 DEF FramesIn

LEMMA TouchedByList ==
  ASSUME NEW list, Elements(list) \subseteq Regions
  PROVE  TouchedBy(list) = {f \in AllFrames : \E r \in Elements(list) : f \in FramesOf(r)}
<1>1. AllFrames \subseteq Nat
  BY TopPage DEF AllFrames
<1> QED BY <1>1, TouchedFrames DEF TouchedBy

LEMMA ListElements ==
  ASSUME ramList \in RamLists, reservedList \in ReservedLists
  PROVE  Elements(ramList) \subseteq Regions /\ Elements(reservedList) \subseteq Regions
BY WatermarkAssumption DEF Elements

(* A window whose frames exist starts with the usable ones of them; and it *)
(* is no use to go on only if all of these are below it.                   *)
LEMMA FilledWithUsable ==
  ASSUME ramList \in RamLists, reservedList \in ReservedLists,
         NEW k \in Nat, FramesOf(WindowAt(k)) \subseteq AllFrames
  PROVE  /\ FreeAfterInit(WindowAt(k)) = Usable \cap FramesOf(WindowAt(k))
         /\ ~ MoreFramesAvailable(WindowAt(k)) => \A f \in Usable : f < FirstOf(k)
<1>1. Elements(ramList) \subseteq Regions /\ Elements(reservedList) \subseteq Regions
  BY ListElements
<1>2. ASSUME NEW list, Elements(list) \subseteq Regions
      PROVE  FramesInAny(list, WindowAt(k))
               = (TouchedBy(list) \cap FramesOf(WindowAt(k))) \ {PhysNull}
  BY <1>2, FramesInWindow, TouchedByList DEF FramesInAny
<1>3. FramesInAny(ramList, WindowAt(k))
        = (TouchedBy(ramList) \cap FramesOf(WindowAt(k))) \ {PhysNull}
  BY <1>1, <1>2
<1>4. FramesInAny(reservedList, WindowAt(k))
        = (TouchedBy(reservedList) \cap FramesOf(WindowAt(k))) \ {PhysNull}
  BY <1>1, <1>2
<1>5. ASSUME ~ MoreFramesAvailable(WindowAt(k)), NEW f \in TouchedBy(ramList)
      PROVE  f < FirstOf(k)
  <2>1. PICK r \in Elements(ramList) : f \in FramesOf(r)
    BY <1>1, <1>5, TouchedByList
  <2>2. PICK a \in Nat, b \in Nat : PageAligned(r) = Pages(a, b) /\ FramesOf(r) = a .. b
    BY <1>1, PageAlignedPages DEF FramesOf
  <2>3. Below(PageAligned(r), WindowAt(k).base)
    BY <1>5 DEF MoreFramesAvailable, Reaches
  <2>4. FirstOf(k) \in Nat /\ LastOf(k) \in Nat
    BY WindowBounds
  <2>5. b < FirstOf(k)
    BY <2>2, <2>3, <2>4, ClippedPages DEF WindowAt
  <2> QED BY <2>1, <2>2, <2>4, <2>5
<1>6. ASSUME ~ MoreFramesAvailable(WindowAt(k))
      PROVE  TouchedBy(ramList) \cap FramesOf(WindowAt(k)) = {}
  <2>1. FramesOf(WindowAt(k)) = FirstOf(k) .. LastOf(k) /\ FirstOf(k) \in Nat /\ LastOf(k) \in Nat
    BY WindowAtFrames, WindowBounds
  <2> QED BY <1>5, <1>6, <2>1
<1>8. FreeAfterInit(WindowAt(k)) = Usable \cap FramesOf(WindowAt(k))
  BY <1>3, <1>4, <1>6 DEF Usable, FreeAfterInit
<1> QED BY <1>5, <1>8 DEF Usable
-----------------------------------------------------------------------------
(* The invariant.  The window is one of those that divide the frames; the  *)
(* frames that are out, being usable, are none that are free, and none is  *)
(* above the window.                                                       *)
Out == given \cup InTransit

WindowInv == \E k \in Nat : currentRegion = WindowAt(k)

LockInv ==
  \A t \in Thread : /\ pc[t] = "idle" <=> lock # t
                    /\ frameAddr[t] # PhysNull => pc[t] = "release"

FramesInv ==
  /\ Out \subseteq Usable /\ free \subseteq Usable
  /\ free \cap Out = {} /\ given \cap InTransit = {}
  /\ \A f \in Out : f <= FrameNumber(currentRegion.last)

(* The scan goes up through the window once: what is usable in a block     *)
(* before the last used one is out, what is in one behind it is free.      *)
ScanInv ==
  \A f \in Usable \cap FramesOf(currentRegion) :
    IF f \in free THEN lastIndex <= BlockIn(f) ELSE f \in Out /\ BlockIn(f) <= lastIndex

(* So it leaves only the last block out, and that only from the first one. *)
EmptyInv ==
  \A t \in Thread : pc[t] = "advance" =>
    \A f \in free : lastIndex = 0 /\ BlockIn(f) = NumBlocks - 1

FailInv ==
  \A t \in Thread : Fails(t) => \A f \in Usable : f \in given \/ LeftOut(f)

IInv ==
  /\ TypeOK /\ WindowInv /\ LockInv
  /\ FramesInv /\ ScanInv /\ EmptyInv /\ NothingPassedOver /\ FailInv
-----------------------------------------------------------------------------
LEMMA SameUsable ==
  ASSUME UNCHANGED lists
  PROVE  /\ Usable' = Usable
         /\ \A f : LeftOut(f)' <=> LeftOut(f)
<1>1. TouchedBy(ramList)' = TouchedBy(ramList) /\ TouchedBy(reservedList)' = TouchedBy(reservedList)
  BY DEF lists, TouchedBy, Elements
<1> QED BY <1>1 DEF Usable, LeftOut

(* What is usable are frame numbers, and never frame 0.                    *)
LEMMA UsableNat ==
  /\ AllFrames = 0 .. FrameNumber(MaxPhysAddr) /\ FrameNumber(MaxPhysAddr) \in Nat
  /\ Usable \subseteq AllFrames /\ PhysNull \notin Usable
BY TopPage DEF AllFrames, Usable, TouchedBy

(* Only the frame of the thread that has the lock is on its way.           *)
LEMMA TransitOfLocker ==
  ASSUME LockInv, NEW t \in Thread, pc[t] # "idle"
  PROVE  /\ InTransit = {frameAddr[t]} \ {PhysNull}
         /\ \A s \in Thread \ {t} : pc[s] = "idle" /\ frameAddr[s] = PhysNull
BY DEF LockInv, InTransit

LEMMA WindowNow ==
  ASSUME TypeOK, NEW k \in Nat, currentRegion = WindowAt(k)
  PROVE  /\ FirstOf(k) \in Nat /\ LastOf(k) \in Nat /\ FirstOf(k) <= LastOf(k)
         /\ FrameNumber(currentRegion.base) = FirstOf(k)
         /\ FrameNumber(currentRegion.last) = LastOf(k)
         /\ FramesOf(currentRegion) = FirstOf(k) .. LastOf(k)
         /\ LastOf(k) <= FrameNumber(MaxPhysAddr)
<1>1. currentRegion.last \in Nat /\ currentRegion.last <= MaxPhysAddr /\ MaxPhysAddr \in Nat
  BY RegionFields, PhysAddrAssumption DEF TypeOK
<1>2. FrameNumber(currentRegion.last) <= FrameNumber(MaxPhysAddr)
  BY <1>1, FramesMonotone
<1> QED BY <1>2, WindowBounds, WindowAtFrames

(* When the bitmap allocator finds nothing more, what is usable up to the  *)
(* end of the window is out, or left out by its scan.                      *)
LEMMA WindowAccounted ==
  ASSUME IInv, NEW t \in Thread, pc[t] = "advance",
         NEW f \in Usable, f <= FrameNumber(currentRegion.last)
  PROVE  f \in given \/ LeftOut(f)
<1>1. PICK k \in Nat : currentRegion = WindowAt(k)
  BY DEF IInv, WindowInv
<1>2. /\ FirstOf(k) \in Nat /\ LastOf(k) \in Nat /\ f \in Nat
      /\ FrameNumber(currentRegion.base) = FirstOf(k)
      /\ FrameNumber(currentRegion.last) = LastOf(k)
      /\ FramesOf(currentRegion) = FirstOf(k) .. LastOf(k)
  BY <1>1, WindowNow, UsableNat DEF IInv
<1>3. InTransit = {}
  BY TransitOfLocker DEF IInv, LockInv
<1>4. CASE f < FirstOf(k)
  BY <1>2, <1>3, <1>4 DEF IInv, NothingPassedOver
<1>5. CASE f \in FirstOf(k) .. LastOf(k) /\ f \notin free
  BY <1>2, <1>3, <1>5 DEF IInv, ScanInv, Out
<1>6. CASE f \in FirstOf(k) .. LastOf(k) /\ f \in free
  <2>1. lastIndex = 0 /\ BlockIn(f) = NumBlocks - 1
    BY <1>6 DEF IInv, EmptyInv
  <2>2. ASSUME NEW g \in Usable, g \div WindowFrames = f \div WindowFrames
        PROVE  BlockIn(g) \in {0, NumBlocks - 1}
    <3>1. g \in Nat /\ f \div WindowFrames = k
      BY <1>2, <1>6, UsableNat, WindowHas
    <3>2. g \in FramesOf(currentRegion)
      BY <1>2, <2>2, <3>1, WindowHas
    <3>3. BlockIn(g) \in Nat
      BY <3>1, BlockRange
    <3>4. CASE g \in free
      BY <3>4 DEF IInv, EmptyInv
    <3>5. CASE g \notin free
      BY <2>1, <3>2, <3>3, <3>5 DEF IInv, ScanInv
    <3> QED BY <3>4, <3>5
  <2> QED BY <2>1, <2>2 DEF LeftOut, BlockIn
<1> QED BY <1>2, <1>4, <1>5, <1>6
-----------------------------------------------------------------------------
(* The first window, the next one, and the last one.                       *)

LEMMA WindowBytes ==
  ASSUME NEW k \in Nat
  PROVE  /\ WindowSize \in Nat \ {0} /\ WindowSize * k \in Nat
         /\ WindowSize * (k + 1) = WindowSize * k + WindowSize
         /\ WindowAt(k).base = WindowSize * k
         /\ WindowAt(k).last = WindowSize * k + WindowSize - 1
         /\ WindowAt(k) = [base |-> WindowSize * k, last |-> WindowSize * k + WindowSize - 1]
<1>1. WindowFrames \in Nat \ {0} /\ PageSize \in Nat \ {0}
  BY WindowFramesNat, PhysAddrAssumption
<1>2. WindowSize \in Nat \ {0} /\ WindowSize * k \in Nat
      /\ WindowSize * (k + 1) = WindowSize * k + WindowSize
  BY <1>1 DEF WindowSize
<1>3. PageSize * (WindowFrames * k) = WindowSize * k
  BY <1>1 DEF WindowSize
<1>4. PICK x \in Nat : x = WindowFrames * k
  BY <1>1
<1>5. PageSize * (x + WindowFrames - 1) = PageSize * x + PageSize * WindowFrames - PageSize
  BY <1>1
<1>6. PageSize * WindowFrames = WindowSize
  BY <1>1 DEF WindowSize
<1>7. PageSize * x = WindowSize * k
  BY <1>3, <1>4
<1>8. FirstOf(k) = x /\ LastOf(k) = x + WindowFrames - 1
  BY <1>4 DEF FirstOf, LastOf
<1>9. PageSize * (x + WindowFrames - 1) + PageSize - 1 = WindowSize * k + WindowSize - 1
  BY <1>1, <1>2, <1>5, <1>6, <1>7
<1> QED BY <1>2, <1>7, <1>8, <1>9 DEF WindowAt, Pages

LEMMA FirstWindow ==
  /\ Create(0, WindowSize) = WindowAt(0) /\ WindowAt(0) \in Regions
<1>1. WindowSize \in Nat \ {0} /\ WindowAt(0) = [base |-> 0, last |-> WindowSize - 1]
  BY WindowBytes
<1>2. MaxPhysAddr \in Nat /\ (MaxPhysAddr + 1) % WindowSize = 0
  BY WindowAssumption, PhysAddrAssumption
<1>3. WindowSize <= MaxPhysAddr + 1
  <2>1. PICK n \in Nat, w \in Nat \ {0} : n = MaxPhysAddr + 1 /\ w = WindowSize
    BY <1>1, <1>2
  <2>2. n < w => n % w = n
    BY <2>1
  <2> QED BY <1>1, <1>2, <2>1, <2>2
<1>4. WindowSize - 1 \in PhysAddrs /\ 0 \in PhysAddrs
  BY <1>1, <1>2, <1>3 DEF PhysAddrs
<1>5. Wrap(0 + (WindowSize - 1)) = WindowSize - 1
  <2>1. 0 + (WindowSize - 1) = WindowSize - 1
    BY <1>1
  <2> QED BY <1>4, <2>1, WrapSmall
<1> QED BY <1>1, <1>4, <1>5, RegionIntro DEF Create

LEMMA NextWindow ==
  ASSUME NEW k \in Nat, WindowAt(k) \in Regions
  PROVE  /\ CanAdvance(WindowAt(k)) => /\ Advanced(WindowAt(k)) = WindowAt(k + 1)
                                       /\ WindowAt(k + 1) \in Regions
         /\ ~ CanAdvance(WindowAt(k)) => LastOf(k) = FrameNumber(MaxPhysAddr)
<1>1. PICK w \in Nat \ {0}, b \in Nat : w = WindowSize /\ b = WindowSize * k
  BY WindowBytes
<1>2. /\ WindowAt(k).base = b /\ WindowAt(k).last = b + w - 1
      /\ WindowAt(k + 1) = [base |-> b + w, last |-> b + w + w - 1]
  <2>1. WindowSize * (k + 1) = b + w
    BY <1>1, WindowBytes
  <2>2. k + 1 \in Nat
    OBVIOUS
  <2>3. WindowAt(k + 1) = [base |-> b + w, last |-> b + w + w - 1]
    BY <1>1, <2>1, <2>2, WindowBytes
  <2> QED BY <1>1, <2>3, WindowBytes
<1>3. /\ CanAdvance(WindowAt(k)) <=> b + w + w - 1 <= MaxPhysAddr
      /\ CanAdvance(WindowAt(k)) => /\ Advanced(WindowAt(k)) \in Regions
                                    /\ Advanced(WindowAt(k)).base = b + w
                                    /\ Advanced(WindowAt(k)).last = b + w + w - 1
  <2>1. WindowAt(k).last + (WindowAt(k).last - WindowAt(k).base + 1) = b + w + w - 1
        /\ WindowAt(k).last + 1 = b + w
    BY <1>2
  <2> QED BY <2>1, AdvanceFacts
<1>4. CanAdvance(WindowAt(k)) => Advanced(WindowAt(k)) = WindowAt(k + 1)
  BY <1>2, <1>3 DEF Advanced
<1>5. ASSUME ~ CanAdvance(WindowAt(k)) PROVE WindowAt(k).last = MaxPhysAddr
  <2>1. MaxPhysAddr \in Nat /\ (MaxPhysAddr + 1) % w = 0 /\ b + w - 1 <= MaxPhysAddr
        /\ MaxPhysAddr < b + w + w - 1
    BY SMTT(40), <1>1, <1>2, <1>3, <1>5, WindowAssumption, PhysAddrAssumption, RegionFields
  <2>2. PICK n \in Nat : MaxPhysAddr + 1 = w * n
    <3>1. MaxPhysAddr + 1 = w * ((MaxPhysAddr + 1) \div w) /\ (MaxPhysAddr + 1) \div w \in Nat
      BY <2>1
    <3> QED BY <3>1
  <2>3. /\ w * (k + 1) = b + w /\ w * (k + 2) = b + w + w
    BY <1>1
  <2>4. n < k + 2
    <3>1. k + 2 <= n => w * (k + 2) <= w * n
      OBVIOUS
    <3> QED BY <2>1, <2>2, <2>3, <3>1
  <2>5. k + 1 <= n
    <3>1. n <= k => w * n <= w * k
      OBVIOUS
    <3>2. w * k = b
      BY <1>1
    <3> QED BY <2>1, <2>2, <3>1, <3>2
  <2>6. n = k + 1
    BY <2>4, <2>5
  <2> QED BY <1>2, <2>1, <2>2, <2>3, <2>6
<1>6. ~ CanAdvance(WindowAt(k)) => LastOf(k) = FrameNumber(MaxPhysAddr)
  BY <1>5, WindowAtFrames
<1> QED BY <1>3, <1>4, <1>6
-----------------------------------------------------------------------------
(* The invariant is inductive.                                             *)

(* A window that has just been filled.                                     *)
LEMMA Filled ==
  ASSUME ramList \in RamLists, reservedList \in ReservedLists,
         NEW k \in Nat, WindowAt(k) \in Regions
  PROVE  /\ FreeAfterInit(WindowAt(k)) = Usable \cap FramesOf(WindowAt(k))
         /\ ~ MoreFramesAvailable(WindowAt(k)) => \A f \in Usable : f < FirstOf(k)
<1>1. WindowAt(k).last \in Nat /\ WindowAt(k).last <= MaxPhysAddr /\ MaxPhysAddr \in Nat
  BY RegionFields, PhysAddrAssumption
<1>2. LastOf(k) <= FrameNumber(MaxPhysAddr)
  BY <1>1, FramesMonotone, WindowAtFrames
<1>3. FramesOf(WindowAt(k)) \subseteq AllFrames
  <2>1. PICK m \in Nat, x \in Nat, y \in Nat :
          AllFrames = 0 .. m /\ FramesOf(WindowAt(k)) = x .. y /\ y <= m
    BY <1>2, UsableNat, WindowBounds, WindowAtFrames
  <2> QED BY <2>1
<1> QED BY <1>3, FilledWithUsable

LEMMA InitEstablishes == Init => IInv
<1> SUFFICES ASSUME Init PROVE IInv
  OBVIOUS
<1>1. currentRegion = WindowAt(0) /\ WindowAt(0) \in Regions
  BY FirstWindow DEF Init
<1>2. free = Usable \cap FramesOf(currentRegion)
  BY <1>1, Filled DEF Init
<1>3. FrameNumber(currentRegion.base) = 0
  <2>1. FirstOf(0) = 0
    BY WindowFramesNat DEF FirstOf
  <2> QED BY <1>1, <2>1, WindowAtFrames
<1>4. given = {} /\ InTransit = {}
  BY DEF Init, InTransit
<1>5. TypeOK
  <2>1. PhysNull \in AllFrames /\ 0 \in 0 .. NumBlocks - 1
    BY UsableNat, WindowAssumption DEF PhysNull
  <2>2. crashed \in BOOLEAN
    BY DEF Init, FreedTwice
  <2> QED BY <1>1, <1>2, <2>1, <2>2 DEF Init, TypeOK
<1>6. WindowInv
  BY <1>1 DEF WindowInv
<1>7. LockInv /\ EmptyInv /\ FailInv
  BY WatermarkAssumption DEF Init, LockInv, EmptyInv, FailInv, Fails
<1>8. FramesInv
  BY <1>2, <1>4 DEF FramesInv, Out
<1>9. ScanInv
  <2> SUFFICES ASSUME NEW f \in Usable \cap FramesOf(currentRegion)
               PROVE  f \in free /\ lastIndex <= BlockIn(f)
    BY DEF ScanInv
  <2>1. f \in Nat
    BY UsableNat
  <2>2. BlockIn(f) \in 0 .. NumBlocks - 1
    BY <2>1, BlockRange
  <2> QED BY <1>2, <2>2, WatermarkAssumption DEF Init
<1>10. NothingPassedOver
  <2> SUFFICES ASSUME NEW f \in Usable, f < FrameNumber(currentRegion.base) PROVE FALSE
    BY DEF NothingPassedOver
  <2> QED BY <1>3, UsableNat
<1> QED BY <1>5, <1>6, <1>7, <1>8, <1>9, <1>10 DEF IInv

LEMMA AcquireKeeps ==
  ASSUME IInv, NEW t \in Thread, Acquire(t)
  PROVE  IInv'
<1> USE DEF Acquire, Goto, window
<1>1. /\ UNCHANGED <<lists, currentRegion, free, lastIndex, frameAddr, given>>
      /\ lock = NoThread /\ lock' = t /\ pc[t] = "idle" /\ pc' = [pc EXCEPT ![t] = "try"]
      /\ crashed' = crashed
  OBVIOUS
<1>2. TypeOK'
  BY <1>1 DEF IInv, TypeOK, lists
<1>3. Usable' = Usable /\ (\A f : LeftOut(f)' <=> LeftOut(f)) /\ InTransit' = InTransit
  BY <1>1, SameUsable DEF InTransit
<1>4. WindowInv' /\ FramesInv' /\ ScanInv' /\ NothingPassedOver'
  BY <1>1, <1>3 DEF IInv, WindowInv, FramesInv, ScanInv, NothingPassedOver, Out
<1>5. LockInv'
  BY <1>1, WatermarkAssumption DEF IInv, LockInv, TypeOK
<1>6. EmptyInv' /\ FailInv'
  BY <1>1, <1>3 DEF IInv, EmptyInv, FailInv, Fails, TypeOK
<1> QED BY <1>2, <1>4, <1>5, <1>6 DEF IInv

LEMMA ReleaseKeeps ==
  ASSUME IInv, NEW t \in Thread, Release(t)
  PROVE  IInv'
<1> USE DEF Release, Goto, window
<1>1. /\ UNCHANGED <<lists, currentRegion, free, lastIndex, crashed>>
      /\ lock' = NoThread /\ pc[t] = "release" /\ pc' = [pc EXCEPT ![t] = "idle"]
      /\ given' = given \cup ({frameAddr[t]} \ {PhysNull})
      /\ frameAddr' = [frameAddr EXCEPT ![t] = PhysNull]
  OBVIOUS
<1>2. /\ InTransit = {frameAddr[t]} \ {PhysNull}
      /\ \A s \in Thread \ {t} : pc[s] = "idle" /\ frameAddr[s] = PhysNull
  BY <1>1, TransitOfLocker DEF IInv
<1>3. InTransit' = {} /\ given' = given \cup InTransit /\ Out' = Out
  BY <1>1, <1>2 DEF InTransit, Out, IInv, TypeOK
<1>4. TypeOK'
  <2>1. PhysNull \in AllFrames
    BY UsableNat DEF PhysNull
  <2> QED BY <1>1, <2>1 DEF IInv, TypeOK, lists
<1>5. Usable' = Usable /\ (\A f : LeftOut(f)' <=> LeftOut(f))
  BY <1>1, SameUsable
<1>6. WindowInv' /\ FramesInv' /\ ScanInv' /\ NothingPassedOver'
  BY <1>1, <1>3, <1>5 DEF IInv, WindowInv, FramesInv, ScanInv, NothingPassedOver, Out
<1>7. LockInv'
  BY <1>1, <1>2, WatermarkAssumption DEF IInv, LockInv, TypeOK
<1>8. EmptyInv' /\ FailInv'
  BY <1>1, <1>2 DEF IInv, EmptyInv, FailInv, Fails, TypeOK
<1> QED BY <1>4, <1>6, <1>7, <1>8 DEF IInv
(* The scan's first frame is in its first block that is not empty.         *)
LEMMA ScanFindsLowest ==
  ASSUME IInv, NEW f, First(f)
  PROVE  /\ f \in free /\ lastIndex <= BlockIn(f)
         /\ Layout(currentRegion.base)!BlockOf(f) = BlockIn(f)
         /\ \A g \in free : BlockIn(f) <= BlockIn(g)
<1> DEFINE Rank(g) == Layout(currentRegion.base)!ScanRank(g, lastIndex)
<1>1. PICK k \in Nat : currentRegion = WindowAt(k)
  BY DEF IInv, WindowInv
<1>2. /\ FramesOf(currentRegion) = FirstOf(k) .. LastOf(k)
      /\ FirstOf(k) \in Nat /\ lastIndex \in 0 .. NumBlocks - 1
      /\ NumBlocks \in Nat \ {0} /\ BitsPerBlock \in Nat \ {0}
  BY <1>1, WindowNow, WindowAssumption DEF IInv, TypeOK
<1>3. ASSUME NEW g \in free
      PROVE  /\ g \in Nat /\ BlockIn(g) \in lastIndex .. NumBlocks - 1
             /\ Layout(currentRegion.base)!BlockOf(g) = BlockIn(g)
  <2>1. g \in FramesOf(currentRegion) /\ g \in Usable
    BY DEF IInv, TypeOK, FramesInv
  <2>2. g \in Nat /\ BlockIn(g) \in 0 .. NumBlocks - 1
    BY <1>2, <2>1, BlockRange
  <2>3. lastIndex <= BlockIn(g)
    BY <2>1 DEF IInv, ScanInv
  <2>4. Layout(currentRegion.base)!BlockOf(g) = BlockIn(g)
    BY <1>1, <1>2, <2>1, LayoutBlock
  <2> QED BY <1>2, <2>2, <2>3, <2>4
<1>4. f \in free /\ f \in Scanned /\ \A g \in Scanned : Rank(f) <= Rank(g)
  BY DEF First, Scanned, Layout!FirstScanned, Layout!Scanned
<1>5. ASSUME NEW g \in free
      PROVE  Rank(g) = (BlockIn(g) - lastIndex) * BitsPerBlock + (g % BitsPerBlock)
  <2>1. (BlockIn(g) - lastIndex) % NumBlocks = BlockIn(g) - lastIndex
    <3>1. PICK d \in 0 .. NumBlocks - 1 : d = BlockIn(g) - lastIndex
      BY <1>2, <1>3
    <3> QED BY <1>2, <3>1
  <2>2. Layout(currentRegion.base)!BitOf(g) = g % BitsPerBlock
    BY DEF Layout!BitOf
  <2> QED BY <1>3, <2>1, <2>2 DEF Layout!ScanRank
<1>6. ASSUME NEW g \in free PROVE BlockIn(f) <= BlockIn(g)
  <2>1. CASE g \in Scanned
    <3>1. Rank(f) <= Rank(g)
      BY <1>4, <2>1
    <3>2. PICK x \in Nat, y \in Nat : x = BlockIn(f) - lastIndex /\ y = BlockIn(g) - lastIndex
      BY <1>2, <1>3, <1>4
    <3>3. PICK v \in 0 .. BitsPerBlock - 1, w \in 0 .. BitsPerBlock - 1 :
            v = f % BitsPerBlock /\ w = g % BitsPerBlock
      BY <1>2, <1>3, <1>4
    <3>4. x * BitsPerBlock + v <= y * BitsPerBlock + w
      BY <1>4, <1>5, <3>1, <3>2, <3>3
    <3>5. ASSUME y + 1 <= x PROVE FALSE
      <4>1. (y + 1) * BitsPerBlock <= x * BitsPerBlock
        BY <1>2, <3>5
      <4>2. (y + 1) * BitsPerBlock = y * BitsPerBlock + BitsPerBlock
        BY <1>2
      <4>3. PICK X \in Nat, Y \in Nat : X = x * BitsPerBlock /\ Y = y * BitsPerBlock
        BY <1>2
      <4> QED BY SMTT(40), <1>2, <3>3, <3>4, <4>1, <4>2, <4>3
    <3> QED BY SMTT(40), <1>2, <1>3, <1>4, <3>2, <3>5
  <2>2. CASE g \notin Scanned
    <3>1. BlockIn(g) = Layout(currentRegion.base)!PrevBlock(lastIndex)
      BY <1>3, <2>2 DEF Scanned, Layout!Scanned
    <3>2. BlockIn(g) = IF lastIndex = 0 THEN NumBlocks - 1 ELSE lastIndex - 1
      BY <3>1 DEF Layout!PrevBlock
    <3> QED BY <1>2, <1>3, <1>4, <3>2
  <2> QED BY <2>1, <2>2
<1> QED BY <1>2, <1>3, <1>4, <1>6

(* When it finds nothing, what is left is in the block it leaves out.      *)
LEMMA NothingScanned ==
  ASSUME IInv, Scanned = {}, NEW g \in free
  PROVE  lastIndex = 0 /\ BlockIn(g) = NumBlocks - 1
<1>1. PICK k \in Nat : currentRegion = WindowAt(k)
  BY DEF IInv, WindowInv
<1>2. /\ g \in FirstOf(k) .. LastOf(k) /\ g \in Usable \cap FramesOf(currentRegion)
      /\ lastIndex \in 0 .. NumBlocks - 1
  BY <1>1, WindowNow DEF IInv, TypeOK, FramesInv
<1>3. Layout(currentRegion.base)!BlockOf(g) = BlockIn(g)
  BY <1>1, <1>2, LayoutBlock
<1>4. BlockIn(g) = Layout(currentRegion.base)!PrevBlock(lastIndex)
  BY <1>3 DEF Scanned, Layout!Scanned
<1>5. BlockIn(g) = IF lastIndex = 0 THEN NumBlocks - 1 ELSE lastIndex - 1
  BY <1>4 DEF Layout!PrevBlock
<1>6. lastIndex <= BlockIn(g)
  BY <1>2 DEF IInv, ScanInv
<1> QED BY <1>2, <1>5, <1>6, WatermarkAssumption

LEMMA TakeKeeps ==
  ASSUME IInv, NEW t \in Thread, TryBitmap(t), Scanned # {}
  PROVE  /\ IInv'
         /\ \E f \in free : /\ frameAddr' = [frameAddr EXCEPT ![t] = f]
                             /\ pc[t] = "try" /\ given' = given
<1>1. PICK f \in free :
        /\ First(f)
        /\ frameAddr' = [frameAddr EXCEPT ![t] = f]
        /\ free' = free \ {f}
        /\ lastIndex' = Layout(currentRegion.base)!BlockOf(f)
  BY DEF TryBitmap
<1>2. /\ UNCHANGED <<lists, currentRegion, lock, crashed, given>>
      /\ pc[t] = "try" /\ pc' = [pc EXCEPT ![t] = "release"]
  BY DEF TryBitmap, Goto
<1>3. /\ f \in free /\ lastIndex <= BlockIn(f) /\ lastIndex' = BlockIn(f)
      /\ \A g \in free : BlockIn(f) <= BlockIn(g)
  BY <1>1, ScanFindsLowest
<1>4. PICK k \in Nat : currentRegion = WindowAt(k)
  BY DEF IInv, WindowInv
<1>5. /\ FramesOf(currentRegion) = FirstOf(k) .. LastOf(k)
      /\ FirstOf(k) \in Nat /\ LastOf(k) \in Nat
      /\ FrameNumber(currentRegion.last) = LastOf(k)
  BY <1>4, WindowNow DEF IInv
<1>6. /\ f \in Usable /\ f \in FramesOf(currentRegion) /\ f \in AllFrames /\ f \in Nat
      /\ f # PhysNull /\ f \notin Out
  BY <1>3, <1>5, UsableNat DEF IInv, TypeOK, FramesInv
<1>7. /\ InTransit = {}
      /\ \A s \in Thread \ {t} : pc[s] = "idle" /\ frameAddr[s] = PhysNull
  BY <1>2, TransitOfLocker DEF IInv, LockInv
<1>8. InTransit' = {f} /\ Out' = Out \cup {f}
  BY <1>1, <1>2, <1>6, <1>7 DEF InTransit, Out, IInv, TypeOK
<1>9. Usable' = Usable /\ (\A g : LeftOut(g)' <=> LeftOut(g))
  BY <1>2, SameUsable
<1>10. TypeOK'
  <2>1. BlockIn(f) \in 0 .. NumBlocks - 1
    BY <1>6, BlockRange
  <2> QED BY <1>1, <1>2, <1>3, <1>6, <2>1 DEF IInv, TypeOK, lists
<1>11. WindowInv'
  BY <1>2 DEF IInv, WindowInv
<1>12. LockInv'
  BY <1>1, <1>2, <1>7 DEF IInv, LockInv, TypeOK
<1>13. FramesInv'
  <2>1. FrameNumber(currentRegion.last)' = FrameNumber(currentRegion.last) /\ f <= LastOf(k)
    BY <1>2, <1>5, <1>6
  <2> QED BY <1>1, <1>2, <1>5, <1>6, <1>8, <1>9, <2>1 DEF IInv, FramesInv, Out
<1>14. ScanInv'
  <2> SUFFICES ASSUME NEW g \in Usable \cap FramesOf(currentRegion)
               PROVE  IF g \in free' THEN BlockIn(f) <= BlockIn(g)
                                     ELSE g \in Out' /\ BlockIn(g) <= BlockIn(f)
    BY <1>2, <1>3, <1>9 DEF ScanInv, FramesOf
  <2>1. BlockIn(g) \in Nat /\ BlockIn(f) \in Nat /\ lastIndex \in Nat
    BY <1>6, UsableNat, BlockRange DEF IInv, TypeOK
  <2>2. CASE g \in free'
    BY <1>1, <1>3, <2>2
  <2>3. CASE g = f
    BY <1>1, <1>8, <2>1, <2>3
  <2>4. CASE g \notin free
    BY <1>1, <1>3, <1>8, <2>1, <2>4 DEF IInv, ScanInv
  <2> QED BY <1>1, <2>2, <2>3, <2>4
<1>15. EmptyInv' /\ FailInv'
  BY <1>1, <1>2, <1>6, <1>7 DEF IInv, EmptyInv, FailInv, Fails, TypeOK
<1>16. NothingPassedOver'
  BY <1>2, <1>8, <1>9 DEF IInv, NothingPassedOver, Out
<1> QED BY <1>1, <1>2, <1>3, <1>10, <1>11, <1>12, <1>13, <1>14, <1>15, <1>16 DEF IInv

LEMMA TryFailsKeeps ==
  ASSUME IInv, NEW t \in Thread, TryBitmap(t), Scanned = {}
  PROVE  IInv' /\ UNCHANGED <<given, frameAddr>>
<1>1. /\ UNCHANGED <<lists, currentRegion, free, lastIndex, frameAddr, lock, crashed, given>>
      /\ pc[t] = "try" /\ pc' = [pc EXCEPT ![t] = "advance"]
  <2>1. ASSUME NEW f, First(f) PROVE f \in Scanned
    BY <2>1 DEF First, Scanned, Layout!FirstScanned
  <2> QED BY <2>1 DEF TryBitmap, Goto
<1>2. TypeOK'
  BY <1>1 DEF IInv, TypeOK, lists
<1>3. Usable' = Usable /\ (\A f : LeftOut(f)' <=> LeftOut(f)) /\ InTransit' = InTransit
  BY <1>1, SameUsable DEF InTransit
<1>4. WindowInv' /\ FramesInv' /\ ScanInv' /\ NothingPassedOver'
  BY <1>1, <1>3 DEF IInv, WindowInv, FramesInv, ScanInv, NothingPassedOver, Out
<1>5. LockInv'
  BY <1>1 DEF IInv, LockInv, TypeOK
<1>6. EmptyInv'
  BY <1>1, NothingScanned DEF IInv, EmptyInv, TypeOK
<1>7. FailInv'
  BY <1>1, <1>3 DEF IInv, FailInv, Fails, TypeOK
<1> QED BY <1>1, <1>2, <1>4, <1>5, <1>6, <1>7 DEF IInv
LEMMA StayKeeps ==
  ASSUME IInv, NEW t \in Thread, AdvanceWindow(t), ~ CanAdvance(currentRegion)
  PROVE  IInv' /\ UNCHANGED <<given, frameAddr, crashed>>
<1>1. /\ UNCHANGED <<lists, currentRegion, free, lastIndex, frameAddr, lock, crashed, given>>
      /\ pc[t] = "advance" /\ pc' = [pc EXCEPT ![t] = "release"]
  BY DEF AdvanceWindow, Goto, window
<1>2. TypeOK'
  BY <1>1 DEF IInv, TypeOK, lists
<1>3. Usable' = Usable /\ (\A f : LeftOut(f)' <=> LeftOut(f)) /\ InTransit' = InTransit
  BY <1>1, SameUsable DEF InTransit
<1>4. WindowInv' /\ FramesInv' /\ ScanInv' /\ NothingPassedOver'
  BY <1>1, <1>3 DEF IInv, WindowInv, FramesInv, ScanInv, NothingPassedOver, Out
<1>5. LockInv'
  BY <1>1 DEF IInv, LockInv, TypeOK
<1>6. EmptyInv'
  BY <1>1 DEF IInv, EmptyInv, TypeOK
<1>7. FailInv'
  <2>1. \A f \in Usable : f <= FrameNumber(currentRegion.last)
    <3>1. PICK k \in Nat : currentRegion = WindowAt(k)
      BY DEF IInv, WindowInv
    <3>2. FrameNumber(currentRegion.last) = LastOf(k) /\ WindowAt(k) \in Regions
      BY <3>1, WindowAtFrames DEF IInv, TypeOK
    <3>3. LastOf(k) = FrameNumber(MaxPhysAddr)
      BY <3>1, <3>2, NextWindow
    <3> QED BY <3>2, <3>3, UsableNat
  <2>2. \A f \in Usable : f \in given \/ LeftOut(f)
    BY <1>1, <2>1, WindowAccounted
  <2>3. \A f \in Usable' : f \in given' \/ LeftOut(f)'
    BY <1>1, <1>3, <2>2
  <2> QED BY <2>3 DEF FailInv
<1> QED BY <1>1, <1>2, <1>4, <1>5, <1>6, <1>7 DEF IInv

LEMMA SlideKeeps ==
  ASSUME IInv, NEW t \in Thread, AdvanceWindow(t), CanAdvance(currentRegion)
  PROVE  /\ IInv' /\ UNCHANGED <<given, frameAddr>>
         /\ currentRegion' \in Regions /\ crashed' = FreedTwice(currentRegion')
<1> DEFINE next == Advanced(currentRegion)
<1>1. /\ UNCHANGED <<lists, frameAddr, lock, given>>
      /\ pc[t] = "advance"
      /\ pc' = [pc EXCEPT ![t] = IF MoreFramesAvailable(next) THEN "try" ELSE "release"]
      /\ currentRegion' = next /\ free' = FreeAfterInit(next) /\ lastIndex' = 0
      /\ crashed' = FreedTwice(next)
  BY DEF AdvanceWindow, Goto, window
<1>2. PICK k \in Nat : currentRegion = WindowAt(k)
  BY DEF IInv, WindowInv
<1>3. next = WindowAt(k + 1) /\ WindowAt(k + 1) \in Regions /\ k + 1 \in Nat
  BY <1>2, NextWindow DEF IInv, TypeOK
<1> HIDE DEF next
<1>4. /\ FreeAfterInit(next) = Usable \cap FramesOf(next)
      /\ ~ MoreFramesAvailable(next) => \A f \in Usable : f < FirstOf(k + 1)
  BY <1>3, Filled DEF IInv, TypeOK
<1>5. /\ Usable' = Usable /\ (\A f : LeftOut(f)' <=> LeftOut(f))
      /\ InTransit' = InTransit /\ Out' = Out
  BY <1>1, SameUsable DEF InTransit, Out
<1>6. /\ FrameNumber(currentRegion.last) = LastOf(k)
      /\ FrameNumber(next.base) = FirstOf(k + 1)
      /\ FrameNumber(next.last) = LastOf(k + 1)
      /\ FramesOf(next) = FirstOf(k + 1) .. LastOf(k + 1)
      /\ LastOf(k) \in Nat /\ FirstOf(k + 1) = LastOf(k) + 1
      /\ LastOf(k + 1) \in Nat /\ FirstOf(k + 1) <= LastOf(k + 1)
  BY <1>2, <1>3, WindowAtFrames, WindowsOrdered, WindowBounds
<1>7. \A f \in Usable : f < FirstOf(k + 1) => f \in given \/ LeftOut(f)
  <2> SUFFICES ASSUME NEW f \in Usable, f < FirstOf(k + 1) PROVE f \in given \/ LeftOut(f)
    OBVIOUS
  <2>1. f <= LastOf(k)
    <3>1. f \in Nat
      BY UsableNat
    <3> QED BY <1>6, <3>1
  <2> QED BY <1>1, <1>6, <2>1, WindowAccounted
<1>8. TypeOK'
  <2>1. FreedTwice(next) \in BOOLEAN /\ 0 \in 0 .. NumBlocks - 1
    BY WindowAssumption DEF FreedTwice
  <2> QED BY <1>1, <1>3, <1>4, <2>1 DEF IInv, TypeOK, lists, FramesOf
<1>9. WindowInv'
  BY <1>1, <1>3 DEF WindowInv
<1>10. LockInv'
  BY <1>1 DEF IInv, LockInv, TypeOK
<1>11. FramesInv'
  <2>1. \A f \in Out : f \in Nat /\ f <= LastOf(k)
    BY <1>6, UsableNat DEF IInv, FramesInv
  <2>2. Out \cap FramesOf(next) = {}
    BY <1>6, <2>1
  <2>3. \A f \in Out : f <= LastOf(k + 1)
    BY <1>6, <2>1
  <2>4. FrameNumber(currentRegion.last)' = LastOf(k + 1)
    BY <1>1, <1>6 DEF FrameNumber
  <2> QED BY <1>1, <1>4, <1>5, <2>2, <2>3, <2>4 DEF IInv, FramesInv
<1>12. ScanInv'
  <2> SUFFICES ASSUME NEW f \in Usable \cap FramesOf(next)
               PROVE  f \in free' /\ lastIndex' <= BlockIn(f)
    BY <1>1, <1>5 DEF ScanInv, FramesOf, FrameNumber
  <2>1. BlockIn(f) \in 0 .. NumBlocks - 1
    BY UsableNat, BlockRange
  <2> QED BY <1>1, <1>4, <2>1, WatermarkAssumption
<1>13. EmptyInv'
  BY <1>1 DEF IInv, EmptyInv, TypeOK, LockInv
<1>14. NothingPassedOver'
  <2>1. FrameNumber(currentRegion.base)' = FirstOf(k + 1)
    BY <1>1, <1>6 DEF FrameNumber
  <2> QED BY <1>1, <1>5, <1>7, <2>1 DEF NothingPassedOver
<1>15. FailInv'
  <2>1. CASE MoreFramesAvailable(next)
    BY <1>1, <2>1, TransitOfLocker DEF IInv, FailInv, Fails, TypeOK
  <2>2. CASE ~ MoreFramesAvailable(next)
    BY <1>1, <1>4, <1>5, <1>7, <2>2 DEF FailInv
  <2> QED BY <2>1, <2>2
<1> QED
  BY <1>1, <1>3, <1>8, <1>9, <1>10, <1>11, <1>12, <1>13, <1>14, <1>15 DEF IInv

LEMMA NextKeeps == IInv /\ [Next]_vars => IInv'
<1> SUFFICES ASSUME IInv, [Next]_vars PROVE IInv'
  OBVIOUS
<1>1. ASSUME NEW t \in Thread, Acquire(t) PROVE IInv'
  BY <1>1, AcquireKeeps
<1>2. ASSUME NEW t \in Thread, TryBitmap(t) PROVE IInv'
  BY <1>2, TakeKeeps, TryFailsKeeps
<1>3. ASSUME NEW t \in Thread, AdvanceWindow(t) PROVE IInv'
  BY <1>3, StayKeeps, SlideKeeps
<1>4. ASSUME NEW t \in Thread, Release(t) PROVE IInv'
  BY <1>4, ReleaseKeeps
<1>5. CASE UNCHANGED vars
  <2>1. Usable' = Usable /\ (\A f : LeftOut(f)' <=> LeftOut(f))
    BY <1>5, SameUsable DEF vars
  <2> QED BY <1>5, <2>1
          DEF vars, lists, window, IInv, TypeOK, WindowInv, LockInv, FramesInv, ScanInv, EmptyInv,
              NothingPassedOver, FailInv, Fails, Out, InTransit
<1> QED BY <1>1, <1>2, <1>3, <1>4, <1>5 DEF Next, Locked

(* The invariant holds for every memory map and window size.               *)
THEOREM InductiveInvariant == Spec => []IInv
BY InitEstablishes, NextKeeps, PTL DEF Spec

(* Types; the bitmap has only frames of the window.                        *)
THEOREM TypeCorrect == Spec => []TypeOK
<1>1. IInv => TypeOK
  BY DEF IInv
<1> QED BY <1>1, InductiveInvariant, PTL

(* allocate() hands out frames with RAM in them, and none with a byte that *)
(* is in use, however regions cut pages and overlap.                       *)
THEOREM OnlyUsableGivenAlways == Spec => []OnlyUsableGiven
<1>1. IInv => OnlyUsableGiven
  BY DEF IInv, FramesInv, Out, OnlyUsableGiven
<1> QED BY <1>1, InductiveInvariant, PTL

(* The window leaves nothing behind but what the bitmap's scan leaves out. *)
THEOREM NothingPassedOverAlways == Spec => []NothingPassedOver
<1>1. IInv => NothingPassedOver
  BY DEF IInv
<1> QED BY <1>1, InductiveInvariant, PTL

(* When allocate() fails, no usable frame is left but such ones.           *)
THEOREM FailureAccountsForRamAlways == Spec => []FailureAccountsForRam
<1>1. IInv => FailureAccountsForRam
  BY DEF IInv, FailInv, FailureAccountsForRam
<1> QED BY <1>1, InductiveInvariant, PTL
-----------------------------------------------------------------------------
(* Bugchecks                                                               *)

LEMMA FreedTwiceShares ==
  ASSUME ramList \in RamLists, NEW k \in Nat, WindowAt(k) \in Regions,
         FreedTwice(WindowAt(k))
  PROVE  \E j, l \in DOMAIN ramList :
           j # l /\ TouchedBy(<<ramList[j]>>) \cap TouchedBy(<<ramList[l]>>) # {}
<1>1. ramList \in Seq(Regions)
  BY WatermarkAssumption
<1>2. ASSUME NEW j \in DOMAIN ramList
      PROVE  FramesIn(ramList[j], WindowAt(k)) \subseteq TouchedBy(<<ramList[j]>>)
  <2>1. ramList[j] \in Regions
    BY <1>1
  <2>2. Elements(<<ramList[j]>>) = {ramList[j]}
    BY DEF Elements
  <2>3. TouchedBy(<<ramList[j]>>) = {f \in AllFrames : f \in FramesOf(ramList[j])}
    BY <2>1, <2>2, TouchedByList
  <2>4. FramesOf(WindowAt(k)) \subseteq AllFrames
    <3>1. WindowAt(k).last \in Nat /\ WindowAt(k).last <= MaxPhysAddr /\ MaxPhysAddr \in Nat
      BY RegionFields, PhysAddrAssumption
    <3>2. LastOf(k) <= FrameNumber(MaxPhysAddr)
      BY <3>1, FramesMonotone, WindowAtFrames
    <3>3. PICK m \in Nat, x \in Nat, y \in Nat :
            AllFrames = 0 .. m /\ FramesOf(WindowAt(k)) = x .. y /\ y <= m
      BY <3>2, UsableNat, WindowBounds, WindowAtFrames
    <3> QED BY <3>3
  <2> QED BY <2>1, <2>3, <2>4, FramesInWindow
<1>3. PICK j \in DOMAIN ramList, l \in DOMAIN ramList :
        j < l /\ FramesIn(ramList[j], WindowAt(k)) \cap FramesIn(ramList[l], WindowAt(k)) # {}
  BY DEF FreedTwice
<1>4. j # l
  BY <1>1, <1>3
<1> QED BY <1>2, <1>3, <1>4

(* free() bugchecks only if two regions of RAM have bytes in one frame.    *)
THEOREM BugcheckOnlyOnSharedFrameAlways == Spec => []BugcheckOnlyOnSharedFrame
<1>1. Init => BugcheckOnlyOnSharedFrame
  BY FirstWindow, FreedTwiceShares DEF Init, BugcheckOnlyOnSharedFrame
<1>2. IInv /\ IInv' /\ BugcheckOnlyOnSharedFrame /\ [Next]_vars => BugcheckOnlyOnSharedFrame'
  <2> SUFFICES ASSUME IInv, IInv', BugcheckOnlyOnSharedFrame, [Next]_vars
               PROVE  BugcheckOnlyOnSharedFrame'
    OBVIOUS
  <2>1. CASE UNCHANGED <<lists, crashed>>
    BY <2>1 DEF BugcheckOnlyOnSharedFrame, lists, TouchedBy, Elements
  <2>2. ASSUME NEW t \in Thread, AdvanceWindow(t), CanAdvance(currentRegion)
        PROVE  BugcheckOnlyOnSharedFrame'
    <3>1. crashed' = FreedTwice(currentRegion') /\ UNCHANGED lists
      BY <2>2, SlideKeeps DEF AdvanceWindow
    <3>2. PICK k \in Nat : currentRegion' = WindowAt(k)
      BY DEF IInv, WindowInv
    <3>3. WindowAt(k) \in Regions /\ ramList \in RamLists
      BY <3>2 DEF IInv, TypeOK
    <3>4. crashed' => \E j, l \in DOMAIN ramList :
            j # l /\ TouchedBy(<<ramList[j]>>) \cap TouchedBy(<<ramList[l]>>) # {}
      BY <3>1, <3>2, <3>3, FreedTwiceShares
    <3> QED BY <3>1, <3>4 DEF BugcheckOnlyOnSharedFrame, lists, TouchedBy, Elements
  <2>3. UNCHANGED <<lists, crashed>>
          \/ \E t \in Thread : AdvanceWindow(t) /\ CanAdvance(currentRegion)
    BY StayKeeps DEF Next, Locked, Acquire, TryBitmap, AdvanceWindow, Release, vars, window
  <2> QED BY <2>1, <2>2, <2>3
<1> QED BY <1>1, <1>2, InductiveInvariant, PTL DEF Spec
-----------------------------------------------------------------------------
(* Refinement                                                              *)

RealFrames == AllFrames \ {PhysNull}
Places     == [f \in RealFrames |-> WhereIs(f)]

LEMMA AbstractStep ==
  ASSUME IInv, IInv', [Next]_vars
  PROVE  [Abstract!Next]_([f \in AllFrames \ {PhysNull} |-> WhereIs(f)])
<1>a. SUFFICES \/ Places' = Places
               \/ \E f \in RealFrames :
                    \/ Places[f] = "free" /\ Places' = [Places EXCEPT ![f] = "taken"]
                    \/ Places[f] = "taken" /\ Places' = [Places EXCEPT ![f] = "held"]
  BY DEF RealFrames, Places, Abstract!Next, Abstract!Take, Abstract!Deliver, Abstract!Move
<1>1. ASSUME UNCHANGED <<given, frameAddr>> PROVE Places' = Places
  BY <1>1 DEF Places, WhereIs, InTransit
<1>2. ASSUME NEW t \in Thread, TryBitmap(t), Scanned # {}
      PROVE  \E f \in RealFrames :
               Places[f] = "free" /\ Places' = [Places EXCEPT ![f] = "taken"]
  <2>1. PICK f \in free : /\ frameAddr' = [frameAddr EXCEPT ![t] = f]
                          /\ pc[t] = "try" /\ given' = given
    BY <1>2, TakeKeeps
  <2>2. f \in RealFrames /\ f \notin Out
    BY UsableNat DEF IInv, FramesInv, RealFrames
  <2>3. /\ InTransit = {}
        /\ \A s \in Thread \ {t} : frameAddr[s] = PhysNull
    BY <2>1, TransitOfLocker DEF IInv, LockInv
  <2>4. InTransit' = {f}
    BY <2>1, <2>2, <2>3 DEF InTransit, RealFrames, IInv, TypeOK
  <2>5. Places[f] = "free" /\ Places' = [Places EXCEPT ![f] = "taken"]
    BY <2>1, <2>2, <2>3, <2>4 DEF Places, WhereIs, Out
  <2> QED BY <2>2, <2>5
<1>3. ASSUME NEW t \in Thread, Release(t), Places' # Places
      PROVE  \E f \in RealFrames :
               Places[f] = "taken" /\ Places' = [Places EXCEPT ![f] = "held"]
  <2>1. /\ pc[t] = "release"
        /\ given' = given \cup ({frameAddr[t]} \ {PhysNull})
        /\ frameAddr' = [frameAddr EXCEPT ![t] = PhysNull]
    BY <1>3 DEF Release, Goto
  <2>2. /\ InTransit = {frameAddr[t]} \ {PhysNull}
        /\ \A s \in Thread \ {t} : frameAddr[s] = PhysNull
    BY <2>1, TransitOfLocker DEF IInv
  <2>3. InTransit' = {} /\ given \cap InTransit = {}
    BY <2>1, <2>2 DEF InTransit, IInv, FramesInv, TypeOK
  <2>4. CASE frameAddr[t] = PhysNull
    BY <1>3, <2>1, <2>2, <2>3, <2>4 DEF Places, WhereIs
  <2>5. CASE frameAddr[t] # PhysNull
    <3>1. PICK f \in RealFrames : f = frameAddr[t]
      BY <2>5 DEF RealFrames, IInv, TypeOK
    <3>2. Places[f] = "taken" /\ Places' = [Places EXCEPT ![f] = "held"]
      BY <2>1, <2>2, <2>3, <3>1, <2>5 DEF Places, WhereIs, RealFrames
    <3> QED BY <3>2
  <2> QED BY <2>4, <2>5
<1>4. ASSUME NEW t \in Thread, TryBitmap(t), Scanned = {} PROVE Places' = Places
  BY <1>1, <1>4, TryFailsKeeps
<1>5. ASSUME NEW t \in Thread, Acquire(t) \/ AdvanceWindow(t) PROVE Places' = Places
  BY <1>1, <1>5 DEF Acquire, AdvanceWindow
<1>6. CASE UNCHANGED vars
  BY <1>1, <1>6 DEF vars
<1> QED BY <1>2, <1>3, <1>4, <1>5, <1>6 DEF Next, Locked

(* The allocator implements FrameAllocator: a frame goes from free to its  *)
(* caller once, through one call, and never back.                          *)
THEOREM Refinement == Spec => ImplementsFrameAllocator
<1>1. Init => Abstract!Init
  BY DEF Init, Abstract!Init, WhereIs, InTransit
<1>2. IInv /\ IInv' /\ [Next]_vars
        => [Abstract!Next]_([f \in AllFrames \ {PhysNull} |-> WhereIs(f)])
  BY AbstractStep
<1> QED BY <1>1, <1>2, InductiveInvariant, PTL DEF Spec, ImplementsFrameAllocator, Abstract!Spec
=============================================================================
