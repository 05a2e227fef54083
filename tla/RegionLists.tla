----------------------------- MODULE RegionLists -----------------------------
(***************************************************************************)
(* The lists of regions the boot loader's information is read through:     *)
(* Source/Kernel/Architecture/x86/Executive/MB*PmmRegionList.c and         *)
(* Multiboot.c.  A list is the state of its iterator; the information it   *)
(* enumerates, mb, never changes once it has been translated:              *)
(*   mb.memMapPresent     MMapAddr is valid: mb.map, a sequence of nodes   *)
(*   mb.memFieldsPresent  mb.memLower and mb.memUpper are valid            *)
(*   mb.modulesPresent    ModsAddr is valid: mb.mods, a sequence           *)
(* A node points at an entry of the map by its index; 0 is NULL and        *)
(* Len(mb.map) + 1 the first address behind the map.                       *)
(***************************************************************************)
EXTENDS PmmRegion, Sequences, FiniteSetsExt

CONSTANTS
  KiloByte, MegaByte,
  KernelLoad, KernelEnd      \* MM_KERNEL_LOAD_PHYS_ADDR, MM_getKernelEndPhysAddr()

(* An assert failed in place of returning a region.                        *)
NoRegion == [base |-> 1, last |-> 0]

CreateRegion(base, length) ==
  IF IsValidRegion(base, length) THEN Create(base, length) ELSE NoRegion
-----------------------------------------------------------------------------
(* MBMemmapPmmRegionList: the RAM of the map, or everything else in it.    *)

Null == 0

IsValidMemmapNode(mb, node) == mb.memMapPresent /\ node \in 1 .. Len(mb.map)

IsListed(mb, isRamList, node) == (mb.map[node].type = 1) = isRamList

(* The loop of moveNext(), from the node it begins with.                   *)
NextMemmapNode(mb, isRamList, node) ==
  Min({n \in node .. Len(mb.map) : IsListed(mb, isRamList, n)} \cup {Len(mb.map) + 1})

MemmapMoved(mb, isRamList, node) ==
  IF mb.memMapPresent /\ (node = Null \/ IsValidMemmapNode(mb, node))
    THEN NextMemmapNode(mb, isRamList, node + 1)
    ELSE node

(* Bug: the high half of the length is forgotten.                          *)
AdjustedLengthLow(entry) ==
  IF MaxPhysAddr - entry.lengthLow < entry.baseLow
    THEN MaxPhysAddr - entry.baseLow + 1
    ELSE entry.lengthLow

(* MBMemmapNode_getAdjustedLength(): a length beyond the address space is  *)
(* cut at its end, and to MaxPhysAddr if the region is the whole of it.    *)
AdjustedLength(entry) ==
  LET realLength == MaxPhysAddr - entry.baseLow IN
  IF entry.lengthHigh = 0 /\ MaxPhysAddr - entry.lengthLow >= entry.baseLow
    THEN entry.lengthLow
    ELSE IF realLength < MaxPhysAddr THEN realLength + 1 ELSE realLength

MemmapCurrent(mb, node) ==
  IF IsValidMemmapNode(mb, node) /\ mb.map[node].baseHigh = 0
    THEN CreateRegion(mb.map[node].baseLow, AdjustedLength(mb.map[node]))
    ELSE NoRegion
-----------------------------------------------------------------------------
(* MBMemFieldsPmmRegionList: lower and upper memory, if there is no map.   *)

FieldStates == {"reset", "lower", "upper", "pastEnd"}

(* Bug: upper memory is never left.                                        *)
FieldAfterStuck ==
  [reset |-> "lower", lower |-> "upper", upper |-> "upper", pastEnd |-> "pastEnd"]

FieldAfter ==
  [reset |-> "lower", lower |-> "upper", upper |-> "pastEnd", pastEnd |-> "pastEnd"]

MemFieldsMoved(mb, state) == IF mb.memFieldsPresent THEN FieldAfter[state] ELSE "pastEnd"

IsOnField(state) == state \in {"lower", "upper"}

(* MM_KB() asserts that the product does not overflow.                     *)
RegionOfKB(base, kiloBytes) ==
  IF kiloBytes <= MaxPhysAddr \div KiloByte
    THEN CreateRegion(base, kiloBytes * KiloByte)
    ELSE NoRegion

MemFieldsCurrent(mb, state) ==
  CASE state = "lower" -> RegionOfKB(0, mb.memLower)
    [] state = "upper" -> RegionOfKB(MegaByte, mb.memUpper)
    [] OTHER -> NoRegion
-----------------------------------------------------------------------------
(* MBModulePmmRegionList: the kernel, then the modules, which are numbered *)
(* from 0.                                                                 *)

ModuleStates == [state : {"reset", "kernel", "module", "pastEnd"}, index : Nat]

ModuleReset  == [state |-> "reset", index |-> 0]
ModuleAtEnd(index) == [state |-> "pastEnd", index |-> index]

(* Bug: the end of the modules is not noticed.                             *)
ModuleAtUnchecked(mb, index) == [state |-> "module", index |-> index]

(* The module with this index, or the end of the list if there is none.    *)
ModuleAt(mb, index) ==
  IF index = Len(mb.mods) THEN ModuleAtEnd(index) ELSE [state |-> "module", index |-> index]

ModuleMoved(mb, m) ==
  CASE m.state = "pastEnd" -> m
    [] m.state = "reset"   -> [m EXCEPT !.state = "kernel"]
    [] m.state = "kernel"  -> IF mb.modulesPresent THEN ModuleAt(mb, 0) ELSE ModuleAtEnd(m.index)
    [] m.state = "module"  -> ModuleAt(mb, m.index + 1)

IsOnModule(m) == m.state \in {"kernel", "module"}

ModuleCurrent(mb, m) ==
  CASE m.state = "kernel" -> CreateRegion(KernelLoad, Wrap(KernelEnd - KernelLoad))
    [] m.state = "module" ->
         LET mbModule == mb.mods[m.index + 1] IN
         CreateRegion(mbModule.start, Wrap(mbModule.end - mbModule.start))
    [] OTHER -> NoRegion
=============================================================================
