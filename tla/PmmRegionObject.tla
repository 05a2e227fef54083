--------------------------- MODULE PmmRegionObject ---------------------------
(***************************************************************************)
(* A PmmRegion object and the calls that change it.  Callers meet the      *)
(* precondition of create() (a bugcheck otherwise); the other calls take   *)
(* any region.                                                             *)
(***************************************************************************)
EXTENDS PmmRegion

VARIABLES
  object,
  returned    \* what the last call returned (TRUE for those that return nothing)

objectVars == <<object, returned>>

CallCreate ==
  \E base \in PhysAddrs, length \in PhysAddrs :
    /\ IsValidRegion(base, length)
    /\ object' = Create(base, length)
    /\ returned' = TRUE

(* The first region there is comes from PmmRegion_create(), too.           *)
ObjectInit ==
  \E base \in PhysAddrs, length \in PhysAddrs :
    /\ IsValidRegion(base, length)
    /\ object = Create(base, length)
    /\ returned = TRUE

Advance ==
  /\ returned' = CanAdvance(object)
  /\ object' = IF CanAdvance(object) THEN Advanced(object) ELSE object

Clip(clipping) ==
  /\ returned' = Overlaps(object, clipping)
  /\ object' = IF Overlaps(object, clipping) THEN Clipped(object, clipping) ELSE object

MakePageAligned == object' = PageAligned(object) /\ returned' = TRUE

ObjectNext ==
  \/ CallCreate
  \/ Advance
  \/ \E clipping \in Regions : Clip(clipping)
  \/ MakePageAligned

ObjectSpec == ObjectInit /\ [][ObjectNext]_objectVars
-----------------------------------------------------------------------------
(* No sequence of calls turns the region inside out or past the end of the *)
(* address space, although every sum in the code may wrap.                 *)
ObjectTypeOK == object \in Regions /\ returned \in BOOLEAN

(* "the region now begins at the next byte past its former last byte and   *)
(* has the same length", or is "unchanged because there wasn't enough room *)
(* left" above it: advance() fails only if the next window does not fit.   *)
AdvanceSlides ==
  [][Advance =>
       LET size == object.last - object.base + 1 IN
       IF object.last + size <= MaxPhysAddr
         THEN /\ returned'
              /\ object'.base = object.last + 1
              /\ object'.last = object.last + size
         ELSE ~ returned' /\ object' = object]_objectVars

(* clip() leaves the bytes the two regions share, or says there are none.  *)
ClipIntersects ==
  [][\A clipping \in Regions : Clip(clipping) =>
       LET common == Bytes(object) \cap Bytes(clipping) IN
       IF returned' THEN common # {} /\ Bytes(object') = common
              ELSE common = {} /\ object' = object]_objectVars

(* makePageAligned() yields whole pages, all those the region had a byte   *)
(* of and no other.                                                        *)
AlignCoversPages ==
  [][MakePageAligned =>
       Bytes(object') =
         {addr \in PhysAddrs :
           \E b \in Bytes(object) : FrameNumber(b) = FrameNumber(addr)}]_objectVars

=============================================================================
