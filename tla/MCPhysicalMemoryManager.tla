----------------------- MODULE MCPhysicalMemoryManager -----------------------
(* PhysicalMemoryManager for TLC: every order of a few kinds of entries of *)
(* the memory map, and the information there is without one.               *)
EXTENDS PhysicalMemoryManager

Entry(baseHigh, baseLow, lengthHigh, lengthLow, type) ==
  [baseHigh |-> baseHigh, baseLow |-> baseLow,
   lengthHigh |-> lengthHigh, lengthLow |-> lengthLow, type |-> type]

(* RAM at the bottom, in the middle, up to the end of the address space,   *)
(* and around all of it; reserved regions, the last one of which passes    *)
(* the end; nothing at all; and a region above the address space.          *)
MCEntries ==
  {Entry(0, 0, 0, 3, 1), Entry(0, 4, 0, 6, 1), Entry(0, 11, 0, 5, 1), Entry(0, 0, 1, 2, 1),
   Entry(0, 3, 0, 1, 2), Entry(0, 12, 0, 9, 3), Entry(0, 5, 0, 0, 1), Entry(1, 0, 0, 4, 2)}

MCModules == {<<>>, <<[start |-> 6, end |-> 8]>>, <<[start |-> 13, end |-> 0]>>,
              <<[start |-> 10, end |-> 11], [start |-> 8, end |-> 9]>>}

BootInfo(memMapPresent, map, memFieldsPresent, lower, upper, modulesPresent, mods) ==
  [memMapPresent |-> memMapPresent, map |-> map,
   memFieldsPresent |-> memFieldsPresent, memLower |-> lower, memUpper |-> upper,
   modulesPresent |-> modulesPresent, mods |-> mods]

MapsUpTo(n, entries) == UNION {[1 .. k -> entries] : k \in 0 .. n}

MCBootInfos ==
  {BootInfo(TRUE, map, TRUE, 1, 2, TRUE, mods) : map \in MapsUpTo(2, MCEntries), mods \in MCModules}
  \cup
  {BootInfo(TRUE, map, FALSE, 0, 0, FALSE, <<>>) :
     map \in MapsUpTo(3, {Entry(0, 0, 0, 3, 1), Entry(0, 11, 0, 5, 1), Entry(0, 3, 0, 1, 2)})}
  \cup
  {BootInfo(FALSE, <<>>, fields, lower, upper, modulesPresent, mods) :
     fields \in BOOLEAN, lower \in {0, 1, 2, 8}, upper \in {0, 3, 6, 7, 8},
     modulesPresent \in BOOLEAN, mods \in MCModules}
=============================================================================
