------------------------------ MODULE PmmRegion ------------------------------
(***************************************************************************)
(* Source/Kernel/MM/PmmRegion.c: contiguous regions of physical memory, as *)
(* the addresses of their first and last bytes.  Addresses and sizes have  *)
(* the machine's width, so every sum is taken modulo MaxPhysAddr + 1.      *)
(***************************************************************************)
EXTENDS Integers

CONSTANTS MaxPhysAddr, PageSize

(* Pages divide the address space evenly.                                  *)
ASSUME PhysAddrAssumption ==
  /\ MaxPhysAddr \in Nat
  /\ PageSize \in Nat \ {0}
  /\ (MaxPhysAddr + 1) % PageSize = 0

PhysAddrs == 0 .. MaxPhysAddr
Wrap(n)   == n % (MaxPhysAddr + 1)

Regions == {r \in [base : PhysAddrs, last : PhysAddrs] : r.base <= r.last}

(* The bytes of a region.                                                  *)
Bytes(r) == r.base .. r.last

(* MM_alignToFrame() and MM_getFrameNumber().                              *)
AlignToFrame(addr) == addr - (addr % PageSize)
FrameNumber(addr)  == addr \div PageSize

(* PmmRegion_length(): the number of bytes, but for the whole address      *)
(* space, whose length wraps to 0.                                         *)
Length(r) == Wrap(r.last - r.base + 1)

(* Bug: the overflow check admits regions that end one byte too high.      *)
IsValidRegionByOne(base, length) == length > 0 /\ base + length <= MaxPhysAddr + 2

IsValidRegion(base, length) ==
  length > 0 /\ base <= MaxPhysAddr - (length - 1)

Create(base, length) == [base |-> base, last |-> Wrap(base + (length - 1))]

(* PmmRegion_advance() returns CanAdvance and changes the region only then. *)
CanAdvance(r) == r.last # MaxPhysAddr /\ IsValidRegion(r.last + 1, Length(r))

Advanced(r) == [base |-> r.last + 1, last |-> Wrap(r.last + Length(r))]

Below(r, addr) == r.last < addr

(* PmmRegion_clip() returns Overlaps and changes the region only then.     *)
Overlaps(r, clipping) == ~ Below(r, clipping.base) /\ ~ Below(clipping, r.base)

(* Bug: the end of the region is not clipped.                              *)
ClippedBelow(r, clipping) ==
  [r EXCEPT !.base = IF r.base < clipping.base THEN clipping.base ELSE r.base]

Clipped(r, clipping) ==
  [base |-> IF r.base < clipping.base THEN clipping.base ELSE r.base,
   last |-> IF clipping.last < r.last THEN clipping.last ELSE r.last]

(* Bug: the end is rounded up even if it is the last byte of its page, and *)
(* without a check for overflow.                                           *)
PageAlignedPast(r) ==
  [base |-> AlignToFrame(r.base), last |-> Wrap(AlignToFrame(r.last + PageSize))]

(* PmmRegion_makePageAligned(): an end in the topmost page becomes the end *)
(* of the address space, because last + PAGE_SIZE would overflow.          *)
PageAligned(r) ==
  [base |-> AlignToFrame(r.base),
   last |-> IF MaxPhysAddr - (PageSize - 1) <= r.last
              THEN MaxPhysAddr
              ELSE Wrap(AlignToFrame(Wrap(r.last + PageSize)) - 1)]
=============================================================================
