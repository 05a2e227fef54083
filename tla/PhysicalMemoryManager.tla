------------------------ MODULE PhysicalMemoryManager ------------------------
(***************************************************************************)
(* Source/Kernel/MM/PhysicalMemoryManager.c and ConcatPmmRegionList.c over *)
(* the lists of BootLoaderInfo_x86_Multiboot.c: what is known of memory    *)
(* when the kernel starts, and the walks over it.                          *)
(*                                                                         *)
(* The lists are iterators with one position each, and the manager's list  *)
(* of used memory is made of two of them: it has no position of its own.   *)
(* Whoever walks BootLoaderInfo's lists does so before initStageOne();     *)
(* afterwards only the watermark allocator does, when it fills the bitmap  *)
(* of a window: first at the end of initStageOne(), then whenever          *)
(* allocate() has moved the window on.  The rest of allocate() is in       *)
(* PmmWatermarkAllocator, where filling the bitmap is one step.  Asserts   *)
(* are those of a checked build.                                           *)
(***************************************************************************)
EXTENDS RegionLists, PmmWindow

CONSTANT BootInfos      \* the Multiboot information there may be

(* Fields of the Multiboot structures are unsigned integers as wide as     *)
(* addresses.  What a flag does not vouch for is never looked at.          *)
IsBootInfo(mb) ==
  /\ {mb.memMapPresent, mb.memFieldsPresent, mb.modulesPresent} \subseteq BOOLEAN
  /\ mb.map \in Seq([baseHigh : PhysAddrs, baseLow : PhysAddrs, lengthHigh : PhysAddrs,
                     lengthLow : PhysAddrs, type : PhysAddrs])
  /\ mb.memLower \in PhysAddrs /\ mb.memUpper \in PhysAddrs
  /\ mb.mods \in Seq([start : PhysAddrs, end : PhysAddrs])

ASSUME BootAssumption ==
  /\ MaxPhysAddr > 0
  /\ KiloByte \in Nat \ {0} /\ MegaByte \in PhysAddrs \ {0}
  /\ KernelLoad \in PhysAddrs /\ KernelEnd \in PhysAddrs
  /\ \A mb \in BootInfos : IsBootInfo(mb)

VARIABLES
  mbInfo,               \* BootLoaderInfo's m_mbInfo
  ramNode,              \* ... m_ramList
  ramField,             \* ... m_fallbackRamList
  reservedNode,         \* ... m_reservedList
  module,               \* ... m_moduleList
  usedState,            \* m_usedList
  ramMoved, usedMoved,  \* the last call for the list was moveNext() and returned true
  pc,                   \* initStageOne() and initCurrentRegion(): the loop that runs
  highestAddr,          \* the former's local variable
  numFrames,            \* ... and what it returns
  window,               \* the watermark allocator's m_currentRegion
  free,                 \* ... and its m_regionBitmapAllocator: the frames it has filled in
  more,                 \* moreFramesAvailable of initCurrentRegion()
  crashed               \* an assert failed: the machine has stopped

ram  == <<ramNode, ramField, ramMoved>>
used == <<reservedNode, module, usedState, usedMoved>>
stageOne  == <<highestAddr, numFrames>>
watermark == <<window, free, more>>
vars == <<mbInfo, ram, used, pc, stageOne, watermark, crashed>>

(* BootLoaderInfo_init().  There is no list of used memory yet.            *)
Init ==
  /\ mbInfo \in BootInfos
  /\ ramNode = Null
  /\ ramField = "pastEnd"
  /\ reservedNode = Null
  /\ module = ModuleAtEnd(0)
  /\ usedState = "pastEnd"
  /\ ramMoved = FALSE
  /\ usedMoved = FALSE
  /\ pc = "boot"
  /\ highestAddr = 0
  /\ numFrames = 0
  /\ window = [base |-> 0, last |-> 0]
  /\ free = {}
  /\ more = FALSE
  /\ crashed = FALSE
-----------------------------------------------------------------------------
(* BootLoaderInfo_getRamMemMap(): the map if there is one, or the fields.  *)

ResetRam ==
  /\ ramNode' = IF mbInfo.memMapPresent THEN Null ELSE ramNode
  /\ ramField' = IF mbInfo.memMapPresent THEN ramField ELSE "reset"
  /\ ramMoved' = FALSE

MoveRam ==
  IF mbInfo.memMapPresent
    THEN /\ ramNode' = MemmapMoved(mbInfo, TRUE, ramNode)
         /\ ramMoved' = IsValidMemmapNode(mbInfo, ramNode')
         /\ UNCHANGED ramField
    ELSE /\ ramField' = MemFieldsMoved(mbInfo, ramField)
         /\ ramMoved' = IsOnField(ramField')
         /\ UNCHANGED ramNode

RamCurrent ==
  IF mbInfo.memMapPresent
    THEN MemmapCurrent(mbInfo, ramNode)
    ELSE MemFieldsCurrent(mbInfo, ramField)

(* Bug: only the first of the two lists is reset.                          *)
ResetUsedFirst ==
  /\ reservedNode' = Null
  /\ usedState' = "reset"
  /\ usedMoved' = FALSE
  /\ UNCHANGED module

(* ConcatPmmRegionList_reset(), with the reserved regions and the modules. *)
ResetUsed ==
  /\ reservedNode' = Null
  /\ module' = ModuleReset
  /\ usedState' = "reset"
  /\ usedMoved' = FALSE

(* ConcatPmmRegionList_moveNext() falls through from a list that has ended *)
(* to the next one.                                                        *)
MoveUsed ==
  LET first   == IF usedState \in {"reset", "onFirst"}
                   THEN MemmapMoved(mbInfo, FALSE, reservedNode)
                   ELSE reservedNode
      onFirst == usedState \in {"reset", "onFirst"} /\ IsValidMemmapNode(mbInfo, first)
      ended   == usedState = "pastEnd"
      second  == IF onFirst \/ ended THEN module ELSE ModuleMoved(mbInfo, module)
  IN  /\ reservedNode' = first
      /\ module' = second
      /\ usedState' = CASE onFirst -> "onFirst"
                        [] ~ onFirst /\ ~ ended /\ IsOnModule(second) -> "onSecond"
                        [] OTHER -> "pastEnd"
      /\ usedMoved' = (usedState' # "pastEnd")

UsedCurrent ==
  IF usedState = "onFirst"
    THEN MemmapCurrent(mbInfo, reservedNode)
    ELSE ModuleCurrent(mbInfo, module)
-----------------------------------------------------------------------------
(* Others than the manager walk BootLoaderInfo's lists, and stop anywhere. *)
WalkReserved == reservedNode' \in {Null, MemmapMoved(mbInfo, FALSE, reservedNode)}
WalkModules  == module' \in {ModuleReset, ModuleMoved(mbInfo, module)}

BootWalk ==
  /\ pc = "boot"
  /\ \/ (ResetRam \/ MoveRam) /\ UNCHANGED used
     \/ WalkReserved /\ UNCHANGED <<ram, module, usedState, usedMoved>>
     \/ WalkModules /\ UNCHANGED <<ram, reservedNode, usedState, usedMoved>>
  /\ UNCHANGED <<mbInfo, pc, stageOne, watermark, crashed>>

(* getCurrent() in such a walk changes nothing unless it asserts.          *)
GetCurrentAsserts ==
  /\ pc = "boot"
  /\ \/ ramMoved /\ RamCurrent = NoRegion
     \/ /\ IsValidMemmapNode(mbInfo, reservedNode)
        /\ MemmapCurrent(mbInfo, reservedNode) = NoRegion
     \/ IsOnModule(module) /\ ModuleCurrent(mbInfo, module) = NoRegion
  /\ crashed' = TRUE
  /\ UNCHANGED <<mbInfo, ram, used, pc, stageOne, watermark>>
-----------------------------------------------------------------------------
(* initStageOne(), up to the loop over the RAM.                            *)
StageOneBegin ==
  /\ pc = "boot"
  /\ ResetRam
  /\ highestAddr' = 0
  /\ pc' = "walk"
  /\ UNCHANGED <<mbInfo, used, numFrames, watermark, crashed>>

(* Bug: the last region counts, not the highest.                           *)
HigherLast(addr, region) == region.last

Higher(addr, region) == IF region.last > addr THEN region.last ELSE addr

(* An iteration of the loop: getCurrent() either returns or asserts.       *)
StageOneRegion ==
  /\ pc = "walk"
  /\ UNCHANGED <<mbInfo, used, pc, numFrames, watermark>>
  /\ MoveRam
  /\ ramMoved'
  /\ crashed' = (RamCurrent' = NoRegion)
  /\ highestAddr' = IF crashed' THEN highestAddr ELSE Higher(highestAddr, RamCurrent')

(* Behind the loop, up to initCurrentRegion() in the creation of the       *)
(* watermark allocator; initStageOne() returns numFrames after that.       *)
StageOneEnd ==
  /\ pc = "walk"
  /\ MoveRam
  /\ ~ ramMoved'
  /\ numFrames' = FrameNumber(highestAddr) + 1
  /\ usedState' = "pastEnd"
  /\ window' = Create(0, WindowSize)
  /\ pc' = "fill"
  /\ UNCHANGED <<mbInfo, reservedNode, module, usedMoved, highestAddr, free, more, crashed>>
-----------------------------------------------------------------------------
(* initCurrentRegion(): the loops over the RAM and over the used memory.   *)

(* Bug: the bits of the window before are still set.                       *)
FillBeginKept ==
  /\ pc = "fill"
  /\ ResetRam
  /\ more' = FALSE
  /\ pc' = "free"
  /\ UNCHANGED <<mbInfo, used, stageOne, window, free, crashed>>

FillBegin ==
  /\ pc = "fill"
  /\ ResetRam
  /\ free' = {}
  /\ more' = FALSE
  /\ pc' = "free"
  /\ UNCHANGED <<mbInfo, used, stageOne, window, crashed>>

(* freeRegion() asserts if a frame is free already.                        *)
FreeRegion ==
  /\ pc = "free"
  /\ UNCHANGED <<mbInfo, used, pc, stageOne, window>>
  /\ MoveRam
  /\ ramMoved'
  /\ crashed' = \/ RamCurrent' = NoRegion
                \/ FramesIn(RamCurrent', window) \cap free # {}
  /\ \/ crashed' /\ UNCHANGED <<free, more>>
     \/ /\ ~ crashed'
        /\ free' = free \cup FramesIn(RamCurrent', window)
        /\ more' = (more \/ Reaches(RamCurrent', window))

(* Without more RAM the window is left empty.                              *)
FreeEnd ==
  /\ pc = "free"
  /\ MoveRam
  /\ ~ ramMoved'
  /\ \/ more /\ ResetUsed /\ pc' = "reserve"
     \/ ~ more /\ UNCHANGED used /\ pc' = "ready"
  /\ UNCHANGED <<mbInfo, stageOne, watermark, crashed>>

ReserveRegion ==
  /\ pc = "reserve"
  /\ UNCHANGED <<mbInfo, ram, pc, stageOne, window, more>>
  /\ MoveUsed
  /\ usedMoved'
  /\ crashed' = (UsedCurrent' = NoRegion)
  /\ free' = IF crashed' THEN free ELSE free \ FramesIn(UsedCurrent', window)

ReserveEnd ==
  /\ pc = "reserve"
  /\ MoveUsed
  /\ ~ usedMoved'
  /\ pc' = "ready"
  /\ UNCHANGED <<mbInfo, ram, stageOne, watermark, crashed>>

(* allocate() has used up the window: it moves on, and fills the next one. *)
NextWindow ==
  /\ pc = "ready"
  /\ CanAdvance(window)
  /\ window' = Advanced(window)
  /\ pc' = "fill"
  /\ UNCHANGED <<mbInfo, ram, used, stageOne, free, more, crashed>>

Fill == FillBegin \/ FreeRegion \/ FreeEnd \/ ReserveRegion \/ ReserveEnd

Next ==
  /\ ~ crashed
  /\ \/ BootWalk
     \/ GetCurrentAsserts
     \/ StageOneBegin
     \/ StageOneRegion
     \/ StageOneEnd
     \/ Fill
     \/ NextWindow

Spec == Init /\ [][Next]_vars

(* initStageOne() runs with interrupts disabled, initCurrentRegion() under *)
(* the lock of the allocator: nothing stops their loops.                   *)
FairSpec == Spec /\ WF_vars(~ crashed /\ (StageOneRegion \/ StageOneEnd \/ Fill))
-----------------------------------------------------------------------------
(* What the lists are lists of.                                            *)

(* The bytes an entry describes that have an address.  A region cannot     *)
(* span the whole address space: such an entry lacks the last byte.        *)
Described(entry) ==
  LET end == entry.baseLow + entry.lengthHigh * (MaxPhysAddr + 1) + entry.lengthLow - 1 IN
  IF entry.baseHigh # 0 \/ end < entry.baseLow
    THEN NoRegion
    ELSE [base |-> entry.baseLow,
          last |-> IF end < MaxPhysAddr THEN end
                   ELSE IF entry.baseLow = 0 THEN MaxPhysAddr - 1 ELSE MaxPhysAddr]

(* The bytes from start up to, not including, end, if they are a region.   *)
(* The end of the address space wraps to 0.                                *)
Between(start, end) ==
  LET last == IF end = 0 THEN MaxPhysAddr ELSE end - 1 IN
  IF last <= MaxPhysAddr /\ last - start + 1 \in 1 .. MaxPhysAddr
    THEN [base |-> start, last |-> last]
    ELSE NoRegion

(* The entries of the map that a list is about, by their places in it.     *)
Listed(mb, isRam, node) == {n \in 1 .. node : IsListed(mb, isRam, n)}

Rank(mb, isRam, node) == Cardinality(Listed(mb, isRam, node))

NumListed(mb, isRam) == Rank(mb, isRam, Len(mb.map))

Nth(mb, isRam, i) ==
  CHOOSE n \in Listed(mb, isRam, Len(mb.map)) : Rank(mb, isRam, n) = i

MapRegions(mb, isRam) ==
  [i \in 1 .. NumListed(mb, isRam) |-> Described(mb.map[Nth(mb, isRam, i)])]

RamRegions ==
  IF mbInfo.memMapPresent
    THEN MapRegions(mbInfo, TRUE)
  ELSE IF mbInfo.memFieldsPresent
    THEN <<Between(0, mbInfo.memLower * KiloByte),
           Between(MegaByte, MegaByte + mbInfo.memUpper * KiloByte)>>
    ELSE <<>>

ReservedRegions ==
  IF mbInfo.memMapPresent
    THEN MapRegions(mbInfo, FALSE)
    ELSE <<>>

RegionsOfModules(mb) ==
  [i \in 1 .. Len(mb.mods) |-> Between(mb.mods[i].start, mb.mods[i].end)]

ModuleRegions ==
  <<Between(KernelLoad, KernelEnd)>> \o
  IF mbInfo.modulesPresent THEN RegionsOfModules(mbInfo) ELSE <<>>

(* Where the lists are in these sequences.                                 *)
MemmapPosition(mb, isRam, node) ==
  IF node \in 0 .. Len(mb.map) THEN Rank(mb, isRam, node) ELSE NumListed(mb, isRam) + 1

ModulePosition ==
  CASE module.state = "reset"   -> 0
    [] module.state = "kernel"  -> 1
    [] module.state = "module"  -> module.index + 2
    [] module.state = "pastEnd" -> Len(ModuleRegions) + 1

RamPosition ==
  IF mbInfo.memMapPresent
    THEN MemmapPosition(mbInfo, TRUE, ramNode)
    ELSE CASE ramField = "reset"   -> 0
           [] ramField = "lower"   -> 1
           [] ramField = "upper"   -> 2
           [] ramField = "pastEnd" -> Len(RamRegions) + 1

UsedPosition ==
  CASE usedState = "reset"    -> 0
    [] usedState = "onFirst"  -> MemmapPosition(mbInfo, FALSE, reservedNode)
    [] usedState = "onSecond" -> Len(ReservedRegions) + ModulePosition
    [] usedState = "pastEnd"  -> Len(ReservedRegions) + Len(ModuleRegions) + 1

RamList == INSTANCE RegionCursor WITH
  NoElement <- NoRegion,
  elements  <- RamRegions,
  position  <- RamPosition,
  moved     <- ramMoved,
  current   <- IF ramMoved THEN RamCurrent ELSE NoRegion

UsedList == INSTANCE RegionCursor WITH
  NoElement <- NoRegion,
  elements  <- ReservedRegions \o ModuleRegions,
  position  <- UsedPosition,
  moved     <- usedMoved,
  current   <- IF usedMoved THEN UsedCurrent ELSE NoRegion
-----------------------------------------------------------------------------
TypeOK ==
  /\ mbInfo \in BootInfos
  /\ ramNode \in 0 .. Len(mbInfo.map) + 1
  /\ ramField \in FieldStates
  /\ reservedNode \in 0 .. Len(mbInfo.map) + 1
  /\ module \in ModuleStates
  /\ module.index \in 0 .. Len(mbInfo.mods)
  /\ usedState \in {"reset", "onFirst", "onSecond", "pastEnd"}
  /\ ramMoved \in BOOLEAN /\ usedMoved \in BOOLEAN
  /\ pc \in {"boot", "walk", "fill", "free", "reserve", "ready"}
  /\ highestAddr \in PhysAddrs
  /\ numFrames \in Nat
  /\ window \in Regions
  /\ free \subseteq 0 .. FrameNumber(MaxPhysAddr)
  /\ more \in BOOLEAN
  /\ crashed \in BOOLEAN

(* Every walk over the RAM or the used memory enumerates each region of    *)
(* the boot loader's information once and in order, cut to the address     *)
(* space, wherever other walks over the same iterators have stopped; what  *)
(* is no region at all is reached, too, and not passed over.               *)
ListsImplementCursor == RamList!Spec /\ UsedList!Spec

UsedRegions == ReservedRegions \o ModuleRegions

FramesOfAll(regions, win) == UNION {FramesIn(regions[i], win) : i \in DOMAIN regions}

(* Whenever initCurrentRegion() returns, the bitmap has exactly the frames *)
(* of the window with RAM in them, without those in use: nothing is left   *)
(* of the window before, no walk has missed a region, and only a window    *)
(* behind all RAM does without the walk over the used memory.              *)
WindowFilled ==
  pc = "ready" => free = FramesOfAll(RamRegions, window) \ FramesOfAll(UsedRegions, window)

(* An array with as many entries as initStageOne() returns has one for the *)
(* last frame of RAM and none behind it, wherever the regions are, and in  *)
(* whatever order.  Without RAM it is 1.  This is a number of frames: that *)
(* PhysicalMemoryManager.h:65-66 calls it a number of bytes is not so.     *)
StageOneCoversRam ==
  pc = "ready" =>
    LET frames == {FrameNumber(RamRegions[i].last) : i \in DOMAIN RamRegions} IN
    numFrames = 1 + IF frames = {} THEN 0 ELSE Max(frames)

(* Filling the first window fails: a region is none of the address space,  *)
(* or regions of RAM have a frame in common, which is freed twice.         *)
FirstWindowFails ==
  LET first == Create(0, WindowSize) IN
  \/ \E i \in DOMAIN RamRegions : RamRegions[i] = NoRegion
  \/ \E i, j \in DOMAIN RamRegions :
       i # j /\ FramesIn(RamRegions[i], first) \cap FramesIn(RamRegions[j], first) # {}
  \/ RamRegions # <<>> /\ \E i \in DOMAIN UsedRegions : UsedRegions[i] = NoRegion

(* initStageOne() comes to its end, through all its walks over the lists,  *)
(* unless the loader has reported regions that are none or RAM that shares *)
(* a frame; then, and only then, it bugchecks.                             *)
StageOneEnds ==
  pc = "walk" ~> IF FirstWindowFails THEN crashed ELSE pc = "ready"
=============================================================================
