----------------------------- MODULE RegionCursor -----------------------------
(***************************************************************************)
(* What Include/Kernel/MM/IPmmRegionList.h promises of every list: an      *)
(* iterator over a sequence of regions that never changes.  Position 0 is  *)
(* before the first region, Len(elements) + 1 beyond the last one.         *)
(* NoElement stands for what getCurrent() must not be asked for.           *)
(***************************************************************************)
EXTENDS Naturals, Sequences

CONSTANT NoElement

VARIABLES
  elements,
  position,
  moved,      \* the last call was moveNext() and returned true
  current     \* what getCurrent() returns

vars == <<elements, position, moved, current>>

PastEnd == Len(elements) + 1

(* The position is unspecified until reset() is called the first time.     *)
Init ==
  /\ position \in 0 .. PastEnd
  /\ moved = FALSE
  /\ current = NoElement

Reset ==
  /\ position' = 0
  /\ moved' = FALSE
  /\ current' = NoElement
  /\ UNCHANGED elements

(* "Any subsequent call to this method will return false until reset()".   *)
MoveNext ==
  /\ position' = IF position = PastEnd THEN PastEnd ELSE position + 1
  /\ moved' = (position' # PastEnd)
  /\ current' = IF moved' THEN elements[position'] ELSE NoElement
  /\ UNCHANGED elements

Next == Reset \/ MoveNext

Spec == Init /\ [][Next]_vars
=============================================================================
