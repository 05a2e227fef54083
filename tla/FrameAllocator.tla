--------------------------- MODULE FrameAllocator ---------------------------
(***************************************************************************)
(* What every IPmmAllocator promises its callers, independently of how it  *)
(* tracks frames (Include/Kernel/MM/IPmmAllocator.h).  A frame is always   *)
(* in exactly one place, and one step of the system moves one frame:       *)
(*                                                                         *)
(*      free --> taken --> held --> returned --> free                      *)
(*                                                                         *)
(* "taken" frames belong to an allocate() that has not returned yet,       *)
(* "returned" frames to a free() that has not taken effect yet.            *)
(***************************************************************************)
CONSTANT Frames     \* the frames the allocator is responsible for

VARIABLE place      \* where each frame is

Places == {"free", "taken", "held", "returned"}

TypeOK == place \in [Frames -> Places]

(* Bitmap allocators start with every frame out ("considered allocated"),  *)
(* the watermark allocator starts with the frames of its first window.     *)
Init == place \in [Frames -> {"free", "held"}]

(* The second conjunct follows from the third, and is sooner false.        *)
Move(f, from, to) ==
  /\ place[f] \in from
  /\ place'[f] = to
  /\ place' = [place EXCEPT ![f] = to]

Take(f)      == Move(f, {"free"}, "taken")
Deliver(f)   == Move(f, {"free", "taken"}, "held")
Surrender(f) == Move(f, {"held"}, "returned")
Release(f)   == Move(f, {"returned"}, "free")

Next == \E f \in Frames : Take(f) \/ Deliver(f) \/ Surrender(f) \/ Release(f)

Spec == Init /\ [][Next]_place
=============================================================================
