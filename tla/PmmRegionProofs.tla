--------------------------- MODULE PmmRegionProofs ---------------------------
(***************************************************************************)
(* What the operations on regions do, for every page size and every width  *)
(* of addresses: the code's sums may wrap, but no call makes them wrap     *)
(* where it would matter; and the region object keeps its promises, for    *)
(* all of them.  The allocators build on the lemmas.                       *)
(***************************************************************************)
EXTENDS PmmRegionObject, TLAPS

LEMMA WrapSmall ==
  ASSUME NEW n \in PhysAddrs
  PROVE  Wrap(n) = n
BY PhysAddrAssumption DEF PhysAddrs, Wrap

LEMMA RegionFields ==
  ASSUME NEW r \in Regions
  PROVE  /\ r.base \in Nat /\ r.last \in Nat
         /\ r.base <= r.last /\ r.last <= MaxPhysAddr
         /\ r = [base |-> r.base, last |-> r.last]
BY PhysAddrAssumption DEF Regions, PhysAddrs

LEMMA RegionIntro ==
  ASSUME NEW b \in PhysAddrs, NEW l \in PhysAddrs, b <= l
  PROVE  [base |-> b, last |-> l] \in Regions
BY DEF Regions

(* Dividing by the page size.                                              *)
LEMMA PageDivMod ==
  ASSUME NEW a \in Nat
  PROVE  /\ a = PageSize * FrameNumber(a) + (a % PageSize)
         /\ a % PageSize \in 0 .. PageSize - 1
         /\ FrameNumber(a) \in Nat
         /\ AlignToFrame(a) = PageSize * FrameNumber(a)
BY PhysAddrAssumption DEF FrameNumber, AlignToFrame

LEMMA PagesOrdered ==
  ASSUME NEW p \in Nat, NEW q \in Nat
  PROVE  /\ PageSize * p \in Nat
         /\ PageSize * (q + 1) = PageSize * q + PageSize
         /\ p <= q => PageSize * p <= PageSize * q
BY PhysAddrAssumption

(* An address is in page q or above iff it is not below its first byte.    *)
LEMMA FrameAtLeast ==
  ASSUME NEW a \in Nat, NEW q \in Nat
  PROVE  q <= FrameNumber(a) <=> PageSize * q <= a
<1> DEFINE p == FrameNumber(a)
<1>1. /\ a = PageSize * p + (a % PageSize) /\ a % PageSize \in 0 .. PageSize - 1
      /\ p \in Nat
  BY PageDivMod
<1>2. PageSize * p \in Nat /\ PageSize * q \in Nat
  BY <1>1, PagesOrdered
<1>3. ASSUME q <= p PROVE PageSize * q <= a
  <2>1. PageSize * q <= PageSize * p
    BY <1>1, <1>3, PagesOrdered
  <2> HIDE DEF p
  <2> QED BY <1>1, <1>2, <2>1, PhysAddrAssumption
<1>4. ASSUME p < q PROVE a < PageSize * q
  <2>1. p + 1 \in Nat /\ p + 1 <= q
    BY <1>1, <1>4
  <2>2. PageSize * (p + 1) <= PageSize * q /\ PageSize * (p + 1) = PageSize * p + PageSize
    BY <1>1, <2>1, PagesOrdered
  <2> HIDE DEF p
  <2> QED BY <1>1, <1>2, <2>2, PhysAddrAssumption
<1> HIDE DEF p
<1>5. q <= p <=> PageSize * q <= a
  BY <1>1, <1>2, <1>3, <1>4
<1> QED BY <1>5 DEF p

LEMMA FrameAtMost ==
  ASSUME NEW a \in Nat, NEW q \in Nat
  PROVE  FrameNumber(a) <= q <=> a <= PageSize * q + PageSize - 1
<1>1. q + 1 <= FrameNumber(a) <=> PageSize * (q + 1) <= a
  BY FrameAtLeast
<1>2. FrameNumber(a) \in Nat /\ PageSize * q \in Nat /\ PageSize * (q + 1) = PageSize * q + PageSize
  BY PageDivMod, PagesOrdered
<1> QED BY <1>1, <1>2, PhysAddrAssumption

LEMMA FramesMonotone ==
  ASSUME NEW a \in Nat, NEW b \in Nat, a <= b
  PROVE  FrameNumber(a) <= FrameNumber(b)
<1>1. FrameNumber(a) \in Nat /\ FrameNumber(a) <= FrameNumber(a)
  BY PageDivMod
<1>2. PageSize * FrameNumber(a) <= a /\ PageSize * FrameNumber(a) \in Nat
  BY <1>1, FrameAtLeast, PagesOrdered
<1>3. PageSize * FrameNumber(a) <= b
  BY <1>2
<1> QED BY <1>1, <1>3, FrameAtLeast

(* The address space ends where a page ends.                               *)
LEMMA TopPage ==
  /\ FrameNumber(MaxPhysAddr) \in Nat
  /\ MaxPhysAddr = PageSize * FrameNumber(MaxPhysAddr) + PageSize - 1
<1> DEFINE n == (MaxPhysAddr + 1) \div PageSize
<1>1. MaxPhysAddr + 1 \in Nat /\ MaxPhysAddr \in Nat /\ PageSize \in Nat \ {0}
  BY PhysAddrAssumption
<1>2. n \in Nat /\ MaxPhysAddr + 1 = PageSize * n
  BY <1>1, PhysAddrAssumption, PageDivMod DEF FrameNumber
<1>3. n # 0
  BY <1>1, <1>2
<1>4. n - 1 \in Nat /\ PageSize * n = PageSize * (n - 1) + PageSize
  BY <1>1, <1>2, <1>3
<1> HIDE DEF n
<1>5. PageSize * (n - 1) \in Nat
  BY <1>4, PagesOrdered
<1>6. FrameNumber(MaxPhysAddr) <= n - 1 /\ n - 1 <= FrameNumber(MaxPhysAddr)
  BY <1>1, <1>2, <1>4, <1>5, FrameAtLeast, FrameAtMost
<1>7. FrameNumber(MaxPhysAddr) \in Nat
  BY <1>1, PageDivMod
<1>8. FrameNumber(MaxPhysAddr) = n - 1
  BY <1>4, <1>6, <1>7
<1> QED BY <1>1, <1>2, <1>4, <1>5, <1>7, <1>8

(* The two cases of makePageAligned() come to the same: the region ends    *)
(* with the last byte of the page it ended in.                             *)
LEMMA PageAlignedLast ==
  ASSUME NEW r \in Regions
  PROVE  PageAligned(r).last = PageSize * FrameNumber(r.last) + PageSize - 1
<1> DEFINE q == FrameNumber(r.last)
           m == FrameNumber(MaxPhysAddr)
<1>1. /\ r.last \in Nat /\ r.last <= MaxPhysAddr
      /\ MaxPhysAddr \in Nat /\ PageSize \in Nat \ {0}
  BY RegionFields, PhysAddrAssumption
<1>2. /\ q \in Nat /\ PageSize * q \in Nat
      /\ r.last = PageSize * q + (r.last % PageSize)
      /\ r.last % PageSize \in 0 .. PageSize - 1
  BY <1>1, PageDivMod, PagesOrdered
<1>3. m \in Nat /\ PageSize * m \in Nat /\ MaxPhysAddr = PageSize * m + PageSize - 1
  BY TopPage, PagesOrdered
<1>4. CASE MaxPhysAddr - (PageSize - 1) <= r.last
  <2>1. m <= q /\ q <= m
    <3>1. PageSize * m <= r.last /\ r.last <= PageSize * m + PageSize - 1
      <4> HIDE DEF m
      <4> QED BY <1>1, <1>3, <1>4
    <3> QED BY <3>1, <1>1, <1>3, FrameAtLeast, FrameAtMost
  <2>2. q = m
    BY <2>1, <1>2, <1>3
  <2> QED BY <2>2, <1>3, <1>4 DEF PageAligned
<1>5. CASE ~ (MaxPhysAddr - (PageSize - 1) <= r.last)
  <2>1. r.last + PageSize \in PhysAddrs
    BY <1>1, <1>5 DEF PhysAddrs
  <2>2. Wrap(r.last + PageSize) = r.last + PageSize /\ r.last + PageSize \in Nat
    BY <2>1, <1>1, WrapSmall
  <2>3. FrameNumber(r.last + PageSize) = q + 1
    <3>1. PageSize * (q + 1) = PageSize * q + PageSize /\ q + 1 \in Nat
      BY <1>2, PagesOrdered
    <3>2. PageSize * (q + 1) <= r.last + PageSize
          /\ r.last + PageSize <= PageSize * (q + 1) + PageSize - 1
      <4> HIDE DEF q
      <4> QED BY <3>1, <1>1, <1>2
    <3>3. q + 1 <= FrameNumber(r.last + PageSize) /\ FrameNumber(r.last + PageSize) <= q + 1
      BY <3>1, <3>2, <2>2, FrameAtLeast, FrameAtMost
    <3> QED BY <3>3, <2>2, <1>2, PageDivMod
  <2>4. AlignToFrame(r.last + PageSize) = PageSize * q + PageSize
    BY <2>2, <2>3, <1>2, PageDivMod, PagesOrdered
  <2>5. PageSize * q + PageSize - 1 \in PhysAddrs
    <3>1. PageSize * q <= r.last
      <4> HIDE DEF q
      <4> QED BY <1>1, <1>2
    <3> HIDE DEF q
    <3> QED BY <3>1, <1>1, <1>2, <1>5 DEF PhysAddrs
  <2>7. PageAligned(r).last = Wrap(AlignToFrame(Wrap(r.last + PageSize)) - 1)
    BY <1>5 DEF PageAligned
  <2>8. PICK y \in Nat : y = PageSize * q + PageSize
    <3> HIDE DEF q
    <3> QED BY <1>1, <1>2
  <2>9. AlignToFrame(Wrap(r.last + PageSize)) = y
    BY <2>2, <2>4, <2>8
  <2>10. Wrap(y - 1) = y - 1
    <3> HIDE DEF q
    <3>1. y - 1 \in PhysAddrs
      BY <1>1, <1>2, <2>5, <2>8
    <3> QED BY <3>1, WrapSmall
  <2>11. PageAligned(r).last = y - 1
    BY <2>7, <2>9, <2>10
  <2> QED BY <1>1, <1>2, <2>8, <2>11
<1> QED BY <1>4, <1>5

(* A page-aligned region is the whole pages the region had a byte of.      *)
LEMMA PageAlignedBytes ==
  ASSUME NEW r \in Regions
  PROVE  /\ PageAligned(r) \in Regions
         /\ \A addr \in PhysAddrs :
              addr \in Bytes(PageAligned(r)) <=>
                /\ FrameNumber(r.base) <= FrameNumber(addr)
                /\ FrameNumber(addr) <= FrameNumber(r.last)
<1> DEFINE a == PageAligned(r)
<1>1. /\ r.base \in Nat /\ r.last \in Nat /\ r.base <= r.last /\ r.last <= MaxPhysAddr
      /\ MaxPhysAddr \in Nat /\ PageSize \in Nat \ {0}
  BY RegionFields, PhysAddrAssumption
<1>2. /\ FrameNumber(r.base) \in Nat /\ FrameNumber(r.last) \in Nat
      /\ PageSize * FrameNumber(r.base) \in Nat /\ PageSize * FrameNumber(r.last) \in Nat
  BY <1>1, PageDivMod, PagesOrdered
<1>3. a.base = PageSize * FrameNumber(r.base)
  BY <1>1, PageDivMod DEF PageAligned
<1>4. a.last = PageSize * FrameNumber(r.last) + PageSize - 1
  BY PageAlignedLast
<1>5. a.base <= r.base /\ r.last <= a.last
  <2>1. FrameNumber(r.base) <= FrameNumber(r.base) /\ FrameNumber(r.last) <= FrameNumber(r.last)
    BY <1>2
  <2>2. PageSize * FrameNumber(r.base) <= r.base
    BY <1>1, <1>2, <2>1, FrameAtLeast
  <2>3. r.last <= PageSize * FrameNumber(r.last) + PageSize - 1
    BY <1>1, <1>2, <2>1, FrameAtMost
  <2> QED BY <2>2, <2>3, <1>3, <1>4
<1>6. a.last <= MaxPhysAddr
  <2>1. FrameNumber(MaxPhysAddr) \in Nat
        /\ MaxPhysAddr = PageSize * FrameNumber(MaxPhysAddr) + PageSize - 1
    BY TopPage
  <2>2. FrameNumber(r.last) <= FrameNumber(MaxPhysAddr)
    BY <1>1, <2>1, FrameAtMost
  <2>3. PageSize * FrameNumber(r.last) <= PageSize * FrameNumber(MaxPhysAddr)
    BY <1>2, <2>1, <2>2, PagesOrdered
  <2>4. PageSize * FrameNumber(MaxPhysAddr) \in Nat
    BY <2>1, PagesOrdered
  <2> QED BY <1>1, <1>2, <1>4, <2>1, <2>3, <2>4
<1>7. a \in Regions
  <2>1. a.base \in PhysAddrs /\ a.last \in PhysAddrs /\ a.base <= a.last
    BY <1>1, <1>2, <1>3, <1>4, <1>5, <1>6 DEF PhysAddrs
  <2>2. a = [base |-> a.base, last |-> a.last]
    BY DEF PageAligned
  <2> QED BY <2>1, <2>2, RegionIntro
<1>8. ASSUME NEW addr \in PhysAddrs
      PROVE  addr \in Bytes(a) <=> /\ FrameNumber(r.base) <= FrameNumber(addr)
                                   /\ FrameNumber(addr) <= FrameNumber(r.last)
  <2>1. addr \in Nat
    BY <1>1 DEF PhysAddrs
  <2>2. addr \in Bytes(a) <=> a.base <= addr /\ addr <= a.last
    BY <2>1, <1>2, <1>3, <1>4, PhysAddrAssumption DEF Bytes
  <2> QED BY <2>1, <2>2, <1>2, <1>3, <1>4, FrameAtLeast, FrameAtMost
<1> QED BY <1>7, <1>8

LEMMA CreateType ==
  ASSUME NEW base \in PhysAddrs, NEW length \in PhysAddrs, IsValidRegion(base, length)
  PROVE  Create(base, length) \in Regions
<1>1. base + (length - 1) \in PhysAddrs /\ base <= base + (length - 1)
  BY PhysAddrAssumption DEF PhysAddrs, IsValidRegion
<1> QED BY <1>1, WrapSmall, RegionIntro DEF Create

(* advance() succeeds exactly if the next window fits below the top of the *)
(* address space; the one region whose length overflows never gets there.  *)
LEMMA AdvanceFacts ==
  ASSUME NEW r \in Regions
  PROVE  LET size == r.last - r.base + 1 IN
         /\ CanAdvance(r) <=> r.last + size <= MaxPhysAddr
         /\ CanAdvance(r) => /\ Advanced(r) \in Regions
                             /\ Advanced(r).base = r.last + 1
                             /\ Advanced(r).last = r.last + size
<1> DEFINE size == r.last - r.base + 1
<1>1. /\ r.base \in Nat /\ r.last \in Nat /\ r.base <= r.last /\ r.last <= MaxPhysAddr
      /\ MaxPhysAddr \in Nat
  BY RegionFields, PhysAddrAssumption
<1>2. CASE r.last = MaxPhysAddr
  BY <1>1, <1>2 DEF CanAdvance
<1>3. CASE r.last # MaxPhysAddr
  <2>1. size \in PhysAddrs /\ size > 0
    BY <1>1, <1>3 DEF PhysAddrs
  <2>2. Length(r) = size
    BY <2>1, WrapSmall DEF Length
  <2>3. CanAdvance(r) <=> r.last + size <= MaxPhysAddr
    <3>1. r.last + 1 <= MaxPhysAddr - (size - 1) <=> r.last + size <= MaxPhysAddr
      BY <1>1
    <3> HIDE DEF size
    <3> QED BY <1>3, <2>1, <2>2, <3>1 DEF CanAdvance, IsValidRegion
  <2>4. ASSUME CanAdvance(r)
        PROVE  /\ Advanced(r) \in Regions
               /\ Advanced(r).base = r.last + 1
               /\ Advanced(r).last = r.last + size
    <3>1. r.last + size \in PhysAddrs /\ r.last + 1 \in PhysAddrs /\ r.last + 1 <= r.last + size
      BY <1>1, <2>3, <2>4 DEF PhysAddrs
    <3>2. Advanced(r) = [base |-> r.last + 1, last |-> r.last + size]
      BY <2>2, <3>1, WrapSmall DEF Advanced
    <3> QED BY <3>1, <3>2, RegionIntro
  <2> QED BY <2>3, <2>4
<1> QED BY <1>2, <1>3

LEMMA ClipFacts ==
  ASSUME NEW r \in Regions, NEW c \in Regions
  PROVE  /\ Overlaps(r, c) <=> Bytes(r) \cap Bytes(c) # {}
         /\ Overlaps(r, c) => /\ Clipped(r, c) \in Regions
                              /\ Bytes(Clipped(r, c)) = Bytes(r) \cap Bytes(c)
<1>1. /\ r.base \in Nat /\ r.last \in Nat /\ r.base <= r.last /\ r.last <= MaxPhysAddr
      /\ c.base \in Nat /\ c.last \in Nat /\ c.base <= c.last /\ c.last <= MaxPhysAddr
  BY RegionFields
<1>2. Overlaps(r, c) <=> c.base <= r.last /\ r.base <= c.last
  BY <1>1 DEF Overlaps, Below
<1>3. ASSUME Overlaps(r, c)
      PROVE  /\ Clipped(r, c) \in Regions
             /\ Bytes(Clipped(r, c)) = Bytes(r) \cap Bytes(c)
             /\ Bytes(r) \cap Bytes(c) # {}
  <2> DEFINE b == IF r.base < c.base THEN c.base ELSE r.base
             l == IF c.last < r.last THEN c.last ELSE r.last
  <2>1. b \in PhysAddrs /\ l \in PhysAddrs /\ b <= l
    BY <1>1, <1>2, <1>3, PhysAddrAssumption DEF PhysAddrs
  <2>2. Clipped(r, c) = [base |-> b, last |-> l]
    BY DEF Clipped
  <2>3. Clipped(r, c) \in Regions
    BY <2>1, <2>2, RegionIntro
  <2>4. b .. l = Bytes(r) \cap Bytes(c)
    BY <1>1 DEF Bytes
  <2>5. b \in b .. l
    <3>1. b \in Int /\ l \in Int /\ b <= l
      BY <1>1, <2>1
    <3> HIDE DEF b, l
    <3> QED BY <3>1
  <2> QED BY <2>2, <2>3, <2>4, <2>5 DEF Bytes
<1>4. ASSUME NEW x \in Bytes(r) \cap Bytes(c) PROVE Overlaps(r, c)
  <2>1. r.base <= x /\ x <= r.last /\ c.base <= x /\ x <= c.last /\ x \in Int
    BY <1>1 DEF Bytes
  <2> QED BY <1>1, <1>2, <2>1
<1> QED BY <1>3, <1>4
-----------------------------------------------------------------------------
(* No sequence of calls turns a region inside out or out of the address    *)
(* space.                                                                  *)
THEOREM RegionsStayRegions == ObjectSpec => []ObjectTypeOK
<1>1. ObjectInit => ObjectTypeOK
  BY CreateType DEF ObjectInit, ObjectTypeOK
<1>2. ObjectTypeOK /\ [ObjectNext]_objectVars => ObjectTypeOK'
  <2> SUFFICES ASSUME ObjectTypeOK, [ObjectNext]_objectVars PROVE ObjectTypeOK'
    OBVIOUS
  <2> USE DEF ObjectTypeOK
  <2>1. CASE CallCreate
    BY <2>1, CreateType DEF CallCreate
  <2>2. CASE Advance
    <3>1. CanAdvance(object) => Advanced(object) \in Regions
      BY AdvanceFacts
    <3>2. CanAdvance(object) \in BOOLEAN
      BY DEF CanAdvance
    <3> QED BY <2>2, <3>1, <3>2 DEF Advance
  <2>3. ASSUME NEW c \in Regions, Clip(c) PROVE ObjectTypeOK'
    <3>1. Overlaps(object, c) => Clipped(object, c) \in Regions
      BY ClipFacts
    <3>2. Overlaps(object, c) \in BOOLEAN
      BY DEF Overlaps
    <3> QED BY <2>3, <3>1, <3>2 DEF Clip
  <2>4. CASE MakePageAligned
    BY <2>4, PageAlignedBytes DEF MakePageAligned
  <2>5. CASE UNCHANGED objectVars
    BY <2>5 DEF objectVars
  <2> QED BY <2>1, <2>2, <2>3, <2>4, <2>5 DEF ObjectNext
<1> QED BY <1>1, <1>2, PTL DEF ObjectSpec

(* advance() moves the region to the next window of its size, and fails    *)
(* only if that does not fit.                                              *)
THEOREM AdvanceSlidesAlways == ObjectSpec => AdvanceSlides
<1> DEFINE size == object.last - object.base + 1
           Slides == Advance => IF object.last + size <= MaxPhysAddr
                                  THEN /\ returned'
                                       /\ object'.base = object.last + 1
                                       /\ object'.last = object.last + size
                                  ELSE ~ returned' /\ object' = object
<1>1. ObjectTypeOK => [Slides]_objectVars
  <2> SUFFICES ASSUME ObjectTypeOK, Advance PROVE Slides
    OBVIOUS
  <2>1. /\ CanAdvance(object) <=> object.last + size <= MaxPhysAddr
        /\ CanAdvance(object) => /\ Advanced(object).base = object.last + 1
                                 /\ Advanced(object).last = object.last + size
    BY AdvanceFacts DEF ObjectTypeOK
  <2>2. returned' = CanAdvance(object)
        /\ object' = IF CanAdvance(object) THEN Advanced(object) ELSE object
    BY DEF Advance
  <2> HIDE DEF size
  <2>3. CASE CanAdvance(object)
    BY <2>1, <2>2, <2>3
  <2>4. CASE ~ CanAdvance(object)
    BY <2>1, <2>2, <2>4
  <2> QED BY <2>3, <2>4
<1>2. ObjectTypeOK => [Advance => LET sz == object.last - object.base + 1 IN
                   IF object.last + sz <= MaxPhysAddr
                     THEN /\ returned'
                          /\ object'.base = object.last + 1
                          /\ object'.last = object.last + sz
                     ELSE ~ returned' /\ object' = object]_objectVars
  BY <1>1
<1> QED BY <1>2, RegionsStayRegions, PTL DEF AdvanceSlides

(* clip() intersects.                                                      *)
THEOREM ClipIntersectsAlways == ObjectSpec => ClipIntersects
<1>1. ObjectTypeOK => [\A clipping \in Regions : Clip(clipping) =>
                   LET common == Bytes(object) \cap Bytes(clipping) IN
                   IF returned' THEN common # {} /\ Bytes(object') = common
                          ELSE common = {} /\ object' = object]_objectVars
  <2> SUFFICES ASSUME ObjectTypeOK, NEW c \in Regions, Clip(c)
               PROVE  LET common == Bytes(object) \cap Bytes(c) IN
                      IF returned' THEN common # {} /\ Bytes(object') = common
                             ELSE common = {} /\ object' = object
    OBVIOUS
  <2> QED BY ClipFacts DEF ObjectTypeOK, Clip
<1> QED BY <1>1, RegionsStayRegions, PTL DEF ClipIntersects

(* makePageAligned() covers exactly the pages the region touches.          *)
THEOREM AlignCoversPagesAlways == ObjectSpec => AlignCoversPages
<1> DEFINE Touched(r) ==
      {addr \in PhysAddrs : \E b \in Bytes(r) : FrameNumber(b) = FrameNumber(addr)}
<1>1. ASSUME NEW r \in Regions PROVE Bytes(PageAligned(r)) = Touched(r)
  <2>1. /\ r.base \in Nat /\ r.last \in Nat /\ r.base <= r.last /\ r.last <= MaxPhysAddr
    BY RegionFields
  <2>2. PageAligned(r) \in Regions
    BY PageAlignedBytes
  <2>3. Bytes(PageAligned(r)) \subseteq PhysAddrs
    BY <2>2, RegionFields, PhysAddrAssumption DEF Bytes, PhysAddrs
  <2>4. ASSUME NEW addr \in PhysAddrs, NEW b \in Bytes(r), FrameNumber(b) = FrameNumber(addr)
        PROVE  addr \in Bytes(PageAligned(r))
    <3>1. b \in Nat /\ r.base <= b /\ b <= r.last
      BY <2>1 DEF Bytes
    <3>2. FrameNumber(r.base) \in Nat /\ FrameNumber(b) \in Nat /\ FrameNumber(r.last) \in Nat
      BY <2>1, <3>1, PageDivMod
    <3>3. FrameNumber(r.base) <= FrameNumber(b)
      BY <2>1, <3>1, <3>2, FramesMonotone
    <3>4. FrameNumber(b) <= FrameNumber(r.last)
      BY <2>1, <3>1, <3>2, FramesMonotone
    <3> QED BY <2>4, <3>3, <3>4, PageAlignedBytes
  <2>5. ASSUME NEW addr \in PhysAddrs, addr \in Bytes(PageAligned(r))
        PROVE  \E b \in Bytes(r) : FrameNumber(b) = FrameNumber(addr)
    <3>1. addr \in Nat
      BY PhysAddrAssumption DEF PhysAddrs
    <3>2. /\ FrameNumber(r.base) <= FrameNumber(addr)
          /\ FrameNumber(addr) <= FrameNumber(r.last)
      BY <2>5, PageAlignedBytes
    <3>3. FrameNumber(r.base) \in Nat /\ FrameNumber(addr) \in Nat /\ FrameNumber(r.last) \in Nat
      BY <2>1, <3>1, PageDivMod
    <3>4. CASE addr < r.base
      <4>1. FrameNumber(addr) <= FrameNumber(r.base)
        BY <2>1, <3>1, <3>4, FramesMonotone
      <4> QED BY <2>1, <3>2, <3>3, <4>1 DEF Bytes
    <3>5. CASE r.last < addr
      <4>1. FrameNumber(r.last) <= FrameNumber(addr)
        BY <2>1, <3>1, <3>5, FramesMonotone
      <4> QED BY <2>1, <3>2, <3>3, <4>1 DEF Bytes
    <3>6. CASE r.base <= addr /\ addr <= r.last
      BY <2>1, <3>1, <3>6 DEF Bytes
    <3> QED BY <2>1, <3>1, <3>4, <3>5, <3>6
  <2> QED BY <2>3, <2>4, <2>5
<1>2. ObjectTypeOK => [MakePageAligned => Bytes(object') = Touched(object)]_objectVars
  BY <1>1 DEF ObjectTypeOK, MakePageAligned
<1> QED BY <1>2, RegionsStayRegions, PTL DEF AlignCoversPages
=============================================================================
