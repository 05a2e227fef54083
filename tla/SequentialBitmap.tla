--------------------------- MODULE SequentialBitmap ---------------------------
(***************************************************************************)
(* What PmmBitmapAllocator does for a client that calls it under a lock:   *)
(* an operation is one step.  allocate() finds the first free frame from   *)
(* the block on in which it found the last one, and remembers its block;   *)
(* it fails if there is none but in the block before.  allocateFrame() and *)
(* free() change the bit of one frame.                                     *)
(***************************************************************************)
EXTENDS PmmBitmapLayout

VARIABLES
  free,         \* the frames whose bit is set
  lastIndex,    \* m_lastAllocatedIndex
  result        \* what allocate() is about to return: a frame, PHYS_NULL; or nothing

vars == <<free, lastIndex, result>>

Init == free = {} /\ lastIndex = 0 /\ result = {}

Allocate ==
  /\ result = {}
  /\ \E f \in free :
       /\ FirstScanned(f, free, lastIndex)
       /\ free' = free \ {f}
       /\ lastIndex' = BlockOf(f)
       /\ result' = {f}

AllocateFails ==
  /\ result = {}
  /\ Scanned(free, lastIndex) = {}
  /\ result' = {PhysNull}
  /\ UNCHANGED <<free, lastIndex>>

Return ==
  /\ result # {}
  /\ result' = {}
  /\ UNCHANGED <<free, lastIndex>>

AllocateFrame ==
  /\ result = {}
  /\ \E f \in free : free' = free \ {f}
  /\ UNCHANGED <<lastIndex, result>>

Free ==
  /\ result = {}
  /\ \E f \in Frames \ ({PhysNull} \cup free) : free' = free \cup {f}
  /\ UNCHANGED <<lastIndex, result>>

Next == Allocate \/ AllocateFails \/ Return \/ AllocateFrame \/ Free

Spec == Init /\ [][Next]_vars
=============================================================================
