---------------------------- MODULE ProtectedMode ----------------------------
(***************************************************************************)
(* ProtectedMode.h: descriptors as the code makes them up, field by field, *)
(* and what the processor takes them for.  Fields that nobody sets or      *)
(* looks at (limits apart, which are those of a flat model) are left out.  *)
(* A byte has fewer bits than the processor's.                             *)
(***************************************************************************)
EXTENDS Integers

CONSTANT ByteValues

ASSUME ByteAssumption == ByteValues \in Nat \ {0, 1}

WordValues == ByteValues * ByteValues

(* KMem_low8() and its kin                                                 *)
Low8(n)   == n % ByteValues
High8(n)  == n \div ByteValues
Low16(n)  == n % WordValues
High16(n) == n \div WordValues

(* Of the global table.                                                    *)
SegmentSelector(index, rpl) == [index |-> index, rpl |-> rpl]

NotPresent == [segDescriptorType |-> 0, present |-> 0]

(* KMem_set() of a descriptor to 0                                         *)
ZeroCodeSegment ==
  [base0to15 |-> 0, base16to23 |-> 0, base24to31 |-> 0, conforming |-> 0, type3 |-> 0,
   segDescriptorType |-> 0, dpl |-> 0, present |-> 0, defaultOperationSize |-> 0]

ZeroDataSegment ==
  [base0to15 |-> 0, base16to23 |-> 0, base24to31 |-> 0, writable |-> 0, expandDown |-> 0,
   type3 |-> 0, segDescriptorType |-> 0, dpl |-> 0, present |-> 0, big |-> 0]

ZeroTssDescriptor ==
  [base0to15 |-> 0, base16to23 |-> 0, base24to31 |-> 0, type0 |-> 0, busy |-> 0, type2to3 |-> 0,
   segDescriptorType |-> 0, dpl |-> 0, present |-> 0]

ZeroInterruptGate ==
  [offset0to15 |-> 0, offset16to31 |-> 0, segSelector |-> SegmentSelector(0, 0), type |-> 0,
   dpl |-> 0, present |-> 0]

(* A stack pointer is an offset into the stack of a context.               *)
ZeroTaskStateSegment == [esp0 |-> [context |-> "none", at |-> 0], ss0 |-> SegmentSelector(0, 0)]

CreateInterruptGate(offset, segSelector) ==
  [ZeroInterruptGate EXCEPT
     !.offset0to15 = Low16(offset), !.offset16to31 = High16(offset),
     !.segSelector = segSelector, !.type = 14, !.present = 1]

CreateCodeSegment(isRing0) ==
  [ZeroCodeSegment EXCEPT
     !.type3 = 1, !.segDescriptorType = 1, !.dpl = IF isRing0 THEN 0 ELSE 3, !.present = 1,
     !.defaultOperationSize = 1]

CreateDataSegment(isRing0) ==
  [ZeroDataSegment EXCEPT
     !.writable = 1, !.segDescriptorType = 1, !.dpl = IF isRing0 THEN 0 ELSE 3, !.present = 1,
     !.big = 1]

CreateTssDescriptor(tss) ==
  [ZeroTssDescriptor EXCEPT
     !.base0to15 = Low16(tss), !.base16to23 = Low8(High16(tss)),
     !.base24to31 = High8(High16(tss)), !.type0 = 1, !.type2to3 = 2, !.present = 1]
-----------------------------------------------------------------------------
(* What the processor makes of descriptors.                                *)

Base(d) == d.base0to15 + WordValues * (d.base16to23 + ByteValues * d.base24to31)

IsFlat(d) == Base(d) = 0

IsCode(d, ring) ==
  /\ d.present = 1 /\ d.segDescriptorType = 1 /\ d.type3 = 1
  /\ d.dpl = ring /\ d.defaultOperationSize = 1 /\ IsFlat(d)

IsStack(d, ring) ==
  /\ d.present = 1 /\ d.segDescriptorType = 1 /\ d.type3 = 0
  /\ d.writable = 1 /\ d.dpl = ring /\ d.big = 1 /\ IsFlat(d)

IsTss(d) ==
  d.present = 1 /\ d.segDescriptorType = 0 /\ d.type0 = 1 /\ d.busy = 0 /\ d.type2to3 = 2

IsInterruptGate(g) == g.present = 1 /\ g.type = 14

GateOffset(g) == g.offset0to15 + WordValues * g.offset16to31
=============================================================================
