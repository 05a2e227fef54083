----------------------- MODULE MCPmmWatermarkAllocator -----------------------
(* PmmWatermarkAllocator for TLC, over memory maps whose regions begin and *)
(* end anywhere: on windows' and pages' boundaries and in the middle.      *)
EXTENDS PmmWatermarkAllocator

RegionsOn(bases, lasts) == {r \in [base : bases, last : lasts] : r.base <= r.last}

ListsUpTo(n, regions) == UNION {[1 .. k -> regions] : k \in 0 .. n}

MCRamLists == ListsUpTo(2, RegionsOn({0, 3, 6, 14, 25}, {0, 2, 7, 14, 22, 31}))
MCReservedLists == ListsUpTo(1, RegionsOn({0, 3, 14}, {2, 5, 15, 31}))
=============================================================================
