--------------------- MODULE PhysicalMemoryManagerProofs ---------------------
(***************************************************************************)
(* The lists of regions do what IPmmRegionList.h promises of an iterator,  *)
(* initStageOne() finds the highest frame of RAM, and every window is      *)
(* filled with what is usable of it, whatever the boot loader reports.     *)
(*                                                                         *)
(* The argument: the position of a list in the map is a count, the number  *)
(* of its entries up to the node it is on (Rank).  moveNext() passes over  *)
(* no entry of the list, so it adds one to the count (NextRank); and the   *)
(* count tells the entries apart (NthOfRank), so the region it comes to is *)
(* the one in that place.  The list of used memory relies on the second of *)
(* its lists being reset as long as the first has not ended (UsedInv).     *)
(* Whatever walks a list then has seen the regions up to its position, in  *)
(* StageOneInv the highest of them and in FillInv the frames of all.       *)
(***************************************************************************)
EXTENDS PhysicalMemoryManager, PmmRegionProofs,
        FiniteSetTheorems, SequenceTheorems, WellFoundedInduction

(* The list of lower and upper memory is empty if the fields are invalid.  *)
RamInv == IsOnField(ramField) => mbInfo.memFieldsPresent

(* A list of modules that is on a module is on one there is.               *)
ModuleInv ==
  module.state = "module" => mbInfo.modulesPresent /\ module.index < Len(mbInfo.mods)

(* What the iterators of the used memory are in whenever they are walked   *)
(* as one list.                                                            *)
UsedPlaces ==
  /\ usedState = "reset" => reservedNode = Null /\ module = ModuleReset
  /\ usedState = "onFirst" => IsValidMemmapNode(mbInfo, reservedNode) /\ module = ModuleReset
  /\ usedState = "onSecond" => IsOnModule(module)

UsedInv == UsedPlaces /\ (pc # "reserve" => usedState = "pastEnd" /\ ~ usedMoved)

(* The loop of initStageOne() has the highest address of the regions it    *)
(* has come past.                                                          *)
StageOneInv ==
  pc = "walk" /\ ~ crashed =>
    /\ \A i \in DOMAIN RamRegions : i <= RamPosition => RamRegions[i].last <= highestAddr
    /\ \/ highestAddr = 0
       \/ \E i \in DOMAIN RamRegions : highestAddr = RamRegions[i].last

(* What StageOneCoversRam says, as soon as the loop has ended.             *)
StageOneResult ==
  pc \notin {"boot", "walk"} =>
    LET frames == {FrameNumber(RamRegions[i].last) : i \in DOMAIN RamRegions} IN
    numFrames = 1 + IF frames = {} THEN 0 ELSE Max(frames)

FramesUpTo(regions, win, n) ==
  UNION {FramesIn(regions[i], win) : i \in {j \in DOMAIN regions : j <= n}}

(* The loops of initCurrentRegion() have freed the frames of the regions   *)
(* of RAM they have come past, without those of the used memory, and know  *)
(* whether any of them is in the window or above it.                       *)
FillInv ==
  /\ pc = "free" /\ ~ crashed =>
       /\ free = FramesUpTo(RamRegions, window, RamPosition)
       /\ more <=> \E i \in DOMAIN RamRegions :
                    i <= RamPosition /\ Reaches(RamRegions[i], window)
  /\ pc = "reserve" /\ ~ crashed =>
       free = FramesOfAll(RamRegions, window) \ FramesUpTo(UsedRegions, window, UsedPosition)
  /\ WindowFilled

(* The inductive invariant.                                                *)
IInv == TypeOK /\ RamInv /\ ModuleInv /\ UsedInv /\ StageOneInv /\ StageOneResult /\ FillInv
-----------------------------------------------------------------------------
(* The boot loader's information.                                          *)

AnyRegion == [base : PhysAddrs, last : PhysAddrs]

Maps == Seq([baseHigh : PhysAddrs, baseLow : PhysAddrs, lengthHigh : PhysAddrs,
             lengthLow : PhysAddrs, type : PhysAddrs])

Modules == Seq([start : PhysAddrs, end : PhysAddrs])

LEMMA BootInfoFacts ==
  ASSUME NEW mb \in BootInfos
  PROVE  /\ mb.memMapPresent \in BOOLEAN /\ mb.memFieldsPresent \in BOOLEAN
         /\ mb.modulesPresent \in BOOLEAN
         /\ mb.map \in Maps /\ Len(mb.map) \in Nat
         /\ mb.memLower \in PhysAddrs /\ mb.memUpper \in PhysAddrs
         /\ mb.mods \in Modules /\ Len(mb.mods) \in Nat
<1>1. IsBootInfo(mb)
  BY BootAssumption
<1> QED BY <1>1 DEF IsBootInfo, Maps, Modules

LEMMA EntryFacts ==
  ASSUME NEW mb \in BootInfos, NEW n \in 1 .. Len(mb.map)
  PROVE  /\ mb.map[n].baseHigh \in PhysAddrs /\ mb.map[n].baseLow \in PhysAddrs
         /\ mb.map[n].lengthHigh \in PhysAddrs /\ mb.map[n].lengthLow \in PhysAddrs
<1>1. mb.map \in Maps
  BY BootInfoFacts
<1>2. mb.map[n] \in [baseHigh : PhysAddrs, baseLow : PhysAddrs, lengthHigh : PhysAddrs,
                     lengthLow : PhysAddrs, type : PhysAddrs]
  BY <1>1, ElementOfSeq DEF Maps
<1> QED BY <1>2

LEMMA ModuleFacts ==
  ASSUME NEW mb \in BootInfos, NEW n \in 1 .. Len(mb.mods)
  PROVE  mb.mods[n].start \in PhysAddrs /\ mb.mods[n].end \in PhysAddrs
<1>1. mb.mods \in Modules
  BY BootInfoFacts
<1>2. mb.mods[n] \in [start : PhysAddrs, end : PhysAddrs]
  BY <1>1, ElementOfSeq DEF Modules
<1> QED BY <1>2

LEMMA NoRegionType == NoRegion \in AnyRegion
BY BootAssumption, PhysAddrAssumption DEF NoRegion, AnyRegion, PhysAddrs
-----------------------------------------------------------------------------
(* Counting the entries of a list.                                         *)

(* A nonempty set of small naturals has a minimum.                         *)
LEMMA MinExists ==
  ASSUME NEW n \in Nat, NEW S \in SUBSET (0 .. n), S # {}
  PROVE  Min(S) \in S /\ \A y \in S : Min(S) <= y
<1> DEFINE U == 0 .. n
           T == {0 .. x : x \in S}
<1>1. IsFiniteSet(U)
  BY FS_Interval
<1>2. IsWellFoundedOn(StrictSubsetOrdering(U), FiniteSubsetsOf(U))
  BY FS_StrictSubsetOrderingWellFounded
<1>3. T \subseteq FiniteSubsetsOf(U) /\ T # {}
  <2>1. ASSUME NEW x \in S PROVE 0 .. x \in FiniteSubsetsOf(U)
    <3>1. 0 .. x \in SUBSET U
      OBVIOUS
    <3>2. IsFiniteSet(0 .. x)
      BY <1>1, <3>1, FS_Subset
    <3> QED BY <3>1, <3>2 DEF FiniteSubsetsOf
  <2> HIDE DEF U
  <2> QED BY <2>1
<1>4. PICK t \in T : \A s \in T : <<s, t>> \notin StrictSubsetOrdering(U)
  <2> HIDE DEF T, U
  <2> QED BY <1>2, <1>3, WFMin
<1>5. PICK x \in S : t = 0 .. x
  BY <1>4
<1>6. \A y \in S : x <= y
  <2> SUFFICES ASSUME NEW y \in S, y < x PROVE FALSE
    OBVIOUS
  <2>1. (0 .. y) \subseteq (0 .. x) /\ x \in 0 .. x /\ x \notin 0 .. y
    OBVIOUS
  <2>2. <<0 .. y, 0 .. x>> \in StrictSubsetOrdering(U)
    BY SMTT(40), <2>1 DEF StrictSubsetOrdering
  <2> QED BY <2>2, <1>4, <1>5
<1> QED BY <1>6 DEF Min

(* The loop of moveNext() ends on the next entry of the list, if any.      *)
LEMMA NextNode ==
  ASSUME NEW mb \in BootInfos, NEW isRam \in BOOLEAN, NEW node \in 0 .. Len(mb.map)
  PROVE  LET next == NextMemmapNode(mb, isRam, node + 1) IN
         /\ next \in node + 1 .. Len(mb.map) + 1
         /\ next \in 1 .. Len(mb.map) => IsListed(mb, isRam, next)
         /\ \A n \in node + 1 .. next - 1 : ~ IsListed(mb, isRam, n)
<1> DEFINE S == {n \in node + 1 .. Len(mb.map) : IsListed(mb, isRam, n)} \cup {Len(mb.map) + 1}
<1>1. Len(mb.map) \in Nat /\ node \in Nat
  BY BootInfoFacts
<1>2. S \in SUBSET (0 .. Len(mb.map) + 1) /\ S # {} /\ S \in SUBSET (node + 1 .. Len(mb.map) + 1)
  BY <1>1
<1>3. Min(S) \in S /\ \A y \in S : Min(S) <= y
  <2>1. Len(mb.map) + 1 \in Nat
    BY <1>1
  <2> HIDE DEF S
  <2> QED BY <1>2, <2>1, MinExists
<1>4. NextMemmapNode(mb, isRam, node + 1) = Min(S)
  BY DEF NextMemmapNode
<1>5. \A n \in node + 1 .. Min(S) - 1 : ~ IsListed(mb, isRam, n)
  <2> SUFFICES ASSUME NEW n \in node + 1 .. Min(S) - 1, IsListed(mb, isRam, n) PROVE FALSE
    OBVIOUS
  <2>1. Min(S) \in Nat /\ Min(S) <= Len(mb.map) + 1
    BY <1>1, <1>2, <1>3
  <2>2. n \in S
    BY <1>1, <2>1
  <2> QED BY <1>1, <1>3, <2>1, <2>2
<1>6. Min(S) \in 1 .. Len(mb.map) => IsListed(mb, isRam, Min(S))
  BY <1>1, <1>3
<1>7. Min(S) \in node + 1 .. Len(mb.map) + 1
  BY <1>2, <1>3
<1> HIDE DEF S
<1> QED BY <1>4, <1>5, <1>6, <1>7

LEMMA RankType ==
  ASSUME NEW mb \in BootInfos, NEW isRam \in BOOLEAN, NEW node \in Nat
  PROVE  /\ IsFiniteSet(Listed(mb, isRam, node))
         /\ Rank(mb, isRam, node) \in Nat
         /\ Rank(mb, isRam, 0) = 0
<1>1. IsFiniteSet(1 .. node)
  BY FS_Interval
<1>2. Listed(mb, isRam, node) \in SUBSET (1 .. node)
  BY DEF Listed
<1>3. Listed(mb, isRam, 0) = {}
  BY DEF Listed
<1>4. IsFiniteSet(Listed(mb, isRam, node))
  BY <1>1, <1>2, FS_Subset
<1> QED BY <1>3, <1>4, FS_CardinalityType, FS_EmptySet DEF Rank

LEMMA RankMonotone ==
  ASSUME NEW mb \in BootInfos, NEW isRam \in BOOLEAN, NEW m \in Nat, NEW n \in Nat, m <= n
  PROVE  /\ Rank(mb, isRam, m) <= Rank(mb, isRam, n)
         /\ (\E k \in m + 1 .. n : IsListed(mb, isRam, k))
              => Rank(mb, isRam, m) < Rank(mb, isRam, n)
<1> DEFINE S == Listed(mb, isRam, m)
           T == Listed(mb, isRam, n)
<1>1. S \in SUBSET T
  BY DEF Listed
<1>2. IsFiniteSet(T)
  BY RankType
<1>3. Cardinality(S) <= Cardinality(T) /\ (Cardinality(S) = Cardinality(T) => S = T)
  <2> HIDE DEF S, T
  <2> QED BY <1>1, <1>2, FS_Subset
<1>4. ASSUME NEW k \in m + 1 .. n, IsListed(mb, isRam, k) PROVE S # T
  <2>1. k \in T /\ k \notin S
    BY <1>4 DEF Listed
  <2> QED BY <2>1
<1>5. Rank(mb, isRam, m) \in Nat /\ Rank(mb, isRam, n) \in Nat
  BY RankType
<1> QED BY <1>3, <1>4, <1>5 DEF Rank

(* moveNext() passes over no entry of the list.                            *)
LEMMA NextRank ==
  ASSUME NEW mb \in BootInfos, NEW isRam \in BOOLEAN, NEW node \in 0 .. Len(mb.map)
  PROVE  LET next == NextMemmapNode(mb, isRam, node + 1) IN
         IF next \in 1 .. Len(mb.map)
           THEN Rank(mb, isRam, next) = Rank(mb, isRam, node) + 1
           ELSE NumListed(mb, isRam) = Rank(mb, isRam, node)
<1> DEFINE next == NextMemmapNode(mb, isRam, node + 1)
<1>0. Len(mb.map) \in Nat /\ node \in Nat
  BY BootInfoFacts
<1>1. /\ next \in node + 1 .. Len(mb.map) + 1
      /\ next \in 1 .. Len(mb.map) => IsListed(mb, isRam, next)
      /\ \A n \in node + 1 .. next - 1 : ~ IsListed(mb, isRam, n)
  BY NextNode
<1> HIDE DEF next
<1>2. CASE next \in 1 .. Len(mb.map)
  <2>1. Listed(mb, isRam, next) = Listed(mb, isRam, node) \cup {next}
    BY <1>0, <1>1, <1>2 DEF Listed
  <2>2. next \notin Listed(mb, isRam, node) /\ IsFiniteSet(Listed(mb, isRam, node))
    BY <1>0, <1>1, RankType DEF Listed
  <2> QED BY <1>2, <2>1, <2>2, FS_AddElement DEF Rank, next
<1>3. CASE next \notin 1 .. Len(mb.map)
  <2>1. next = Len(mb.map) + 1
    BY <1>0, <1>1, <1>3
  <2>2. Listed(mb, isRam, Len(mb.map)) = Listed(mb, isRam, node)
    BY <1>0, <1>1, <2>1 DEF Listed
  <2> QED BY <1>3, <2>2 DEF Rank, NumListed, next
<1> QED BY <1>2, <1>3

(* The count tells the entries of a list apart.                            *)
LEMMA NthOfRank ==
  ASSUME NEW mb \in BootInfos, NEW isRam \in BOOLEAN, NEW n \in 1 .. Len(mb.map),
         IsListed(mb, isRam, n)
  PROVE  /\ Rank(mb, isRam, n) \in 1 .. NumListed(mb, isRam)
         /\ Nth(mb, isRam, Rank(mb, isRam, n)) = n
<1>0. Len(mb.map) \in Nat /\ n \in Nat /\ 0 \in Nat
  BY BootInfoFacts
<1>1. n \in Listed(mb, isRam, Len(mb.map))
  BY <1>0 DEF Listed
<1>2. ASSUME NEW k \in Listed(mb, isRam, Len(mb.map)), Rank(mb, isRam, k) = Rank(mb, isRam, n)
      PROVE  k = n
  <2>1. k \in 1 .. Len(mb.map) /\ IsListed(mb, isRam, k) /\ k \in Nat
    BY <1>0 DEF Listed
  <2>2. k < n => Rank(mb, isRam, k) < Rank(mb, isRam, n)
    BY <1>0, <2>1, RankMonotone
  <2>3. n < k => Rank(mb, isRam, n) < Rank(mb, isRam, k)
    BY <1>0, <2>1, RankMonotone
  <2>4. Rank(mb, isRam, n) \in Nat /\ Rank(mb, isRam, k) \in Nat
    BY <1>0, <2>1, RankType
  <2> QED BY <1>0, <1>2, <2>1, <2>2, <2>3, <2>4
<1>3. Rank(mb, isRam, 0) < Rank(mb, isRam, n)
  BY <1>0, RankMonotone
<1>4. Rank(mb, isRam, n) <= NumListed(mb, isRam)
  BY <1>0, RankMonotone DEF NumListed
<1>5. Rank(mb, isRam, n) \in Nat /\ NumListed(mb, isRam) \in Nat /\ Rank(mb, isRam, 0) = 0
  BY <1>0, RankType DEF NumListed
<1> QED BY <1>1, <1>2, <1>3, <1>4, <1>5 DEF Nth

LEMMA DescribedType ==
  ASSUME NEW mb \in BootInfos, NEW n \in 1 .. Len(mb.map)
  PROVE  Described(mb.map[n]) \in AnyRegion
<1> DEFINE e == mb.map[n]
           high == e.lengthHigh * (MaxPhysAddr + 1)
           end == e.baseLow + high + e.lengthLow - 1
<1>1. e.baseHigh \in PhysAddrs /\ e.baseLow \in PhysAddrs
      /\ e.lengthHigh \in PhysAddrs /\ e.lengthLow \in PhysAddrs
  BY EntryFacts
<1>2. high \in Nat
  BY SMTT(40), <1>1, PhysAddrAssumption DEF PhysAddrs
<1>3. Described(e) = IF e.baseHigh # 0 \/ end < e.baseLow
                       THEN NoRegion
                       ELSE [base |-> e.baseLow,
                             last |-> IF end < MaxPhysAddr THEN end
                                      ELSE IF e.baseLow = 0 THEN MaxPhysAddr - 1 ELSE MaxPhysAddr]
  BY DEF Described
<1>4. MaxPhysAddr \in Nat /\ MaxPhysAddr > 0
  BY BootAssumption, PhysAddrAssumption
<1> HIDE DEF e, high
<1>5. end \in Int /\ (end >= e.baseLow => end >= 0)
  BY SMTT(40), <1>1, <1>2, <1>4 DEF PhysAddrs
<1> HIDE DEF end
<1> QED BY SMTT(40), <1>1, <1>3, <1>4, <1>5, NoRegionType DEF AnyRegion, PhysAddrs, e

(* Every place up to the number of the entries is that of one of them:     *)
(* there are as many places as there are entries.                          *)
LEMMA NthIsListed ==
  ASSUME NEW mb \in BootInfos, NEW isRam \in BOOLEAN, NEW i \in 1 .. NumListed(mb, isRam)
  PROVE  Nth(mb, isRam, i) \in Listed(mb, isRam, Len(mb.map))
<1> DEFINE S == Listed(mb, isRam, Len(mb.map))
           T == 1 .. NumListed(mb, isRam)
           f == [n \in S |-> Rank(mb, isRam, n)]
<1>0. Len(mb.map) \in Nat
  BY BootInfoFacts
<1>1. IsFiniteSet(S) /\ Cardinality(S) = NumListed(mb, isRam) /\ NumListed(mb, isRam) \in Nat
  BY <1>0, RankType DEF Rank, NumListed
<1>2. IsFiniteSet(T) /\ Cardinality(T) = NumListed(mb, isRam)
  BY <1>1, FS_Interval
<1>3. \A n \in S : n \in 1 .. Len(mb.map) /\ IsListed(mb, isRam, n)
  BY DEF Listed
<1>4. \A n \in S : Rank(mb, isRam, n) \in T /\ Nth(mb, isRam, Rank(mb, isRam, n)) = n
  BY <1>3, NthOfRank
<1> HIDE DEF S, T
<1>5. f \in Injection(S, T)
  BY <1>4 DEF Injection, IsInjective
<1>6. f \in Surjection(S, T)
  <2> HIDE DEF f
  <2> QED BY <1>1, <1>2, <1>5, FS_Injection
<1>7. PICK n \in S : f[n] = i
  BY <1>6 DEF Surjection, T
<1> QED BY <1>4, <1>7 DEF S

LEMMA MapRegionsFacts ==
  ASSUME NEW mb \in BootInfos, NEW isRam \in BOOLEAN
  PROVE  /\ MapRegions(mb, isRam) \in Seq(AnyRegion)
         /\ Len(MapRegions(mb, isRam)) = NumListed(mb, isRam)
         /\ NumListed(mb, isRam) \in Nat
         /\ \A n \in 1 .. Len(mb.map) : IsListed(mb, isRam, n)
              => /\ Rank(mb, isRam, n) \in 1 .. NumListed(mb, isRam)
                 /\ MapRegions(mb, isRam)[Rank(mb, isRam, n)] = Described(mb.map[n])
<1> DEFINE N == NumListed(mb, isRam)
           R == MapRegions(mb, isRam)
<1>0. Len(mb.map) \in Nat
  BY BootInfoFacts
<1>1. N \in Nat
  BY <1>0, RankType DEF NumListed
<1>2. \A i \in 1 .. N : Described(mb.map[Nth(mb, isRam, i)]) \in AnyRegion
  BY NthIsListed, DescribedType DEF Listed
<1>3. R = [i \in 1 .. N |-> Described(mb.map[Nth(mb, isRam, i)])]
  BY DEF MapRegions
<1> HIDE DEF R, N
<1>4. R \in [1 .. N -> AnyRegion]
  BY <1>2, <1>3
<1>5. R \in Seq(AnyRegion) /\ Len(R) = N
  BY <1>1, <1>4, SeqDef
<1>6. \A n \in 1 .. Len(mb.map) : IsListed(mb, isRam, n)
        => Rank(mb, isRam, n) \in 1 .. N /\ Nth(mb, isRam, Rank(mb, isRam, n)) = n
  BY NthOfRank DEF N
<1>7. \A n \in 1 .. Len(mb.map) : IsListed(mb, isRam, n)
        => R[Rank(mb, isRam, n)] = Described(mb.map[n])
  BY <1>3, <1>6
<1> QED BY <1>1, <1>5, <1>6, <1>7 DEF R, N

(* getCurrent() returns the bytes the entry describes.                     *)
LEMMA CurrentIsDescribed ==
  ASSUME NEW mb \in BootInfos, NEW n \in 1 .. Len(mb.map), mb.memMapPresent
  PROVE  MemmapCurrent(mb, n) = Described(mb.map[n])
<1> DEFINE e == mb.map[n]
           high == e.lengthHigh * (MaxPhysAddr + 1)
           end == e.baseLow + high + e.lengthLow - 1
           len == AdjustedLength(e)
<1>1. e.baseHigh \in PhysAddrs /\ e.baseLow \in PhysAddrs
      /\ e.lengthHigh \in PhysAddrs /\ e.lengthLow \in PhysAddrs
  BY EntryFacts
<1>2. MemmapCurrent(mb, n) = IF e.baseHigh = 0 THEN CreateRegion(e.baseLow, len) ELSE NoRegion
  BY DEF MemmapCurrent, IsValidMemmapNode
<1>3. Described(e) = IF e.baseHigh # 0 \/ end < e.baseLow
                       THEN NoRegion
                       ELSE [base |-> e.baseLow,
                             last |-> IF end < MaxPhysAddr THEN end
                                      ELSE IF e.baseLow = 0 THEN MaxPhysAddr - 1 ELSE MaxPhysAddr]
  BY DEF Described
<1>4. high \in Nat /\ (e.lengthHigh = 0 => high = 0)
      /\ (e.lengthHigh # 0 => high >= MaxPhysAddr + 1)
  <2>1. e.lengthHigh \in Nat /\ MaxPhysAddr \in Nat
    BY <1>1, PhysAddrAssumption DEF PhysAddrs
  <2>2. e.lengthHigh # 0 => e.lengthHigh * (MaxPhysAddr + 1) >= MaxPhysAddr + 1
    BY <2>1
  <2> QED BY <2>1, <2>2
<1>5. len = IF e.lengthHigh = 0 /\ MaxPhysAddr - e.lengthLow >= e.baseLow
              THEN e.lengthLow
              ELSE IF e.baseLow > 0 THEN MaxPhysAddr - e.baseLow + 1 ELSE MaxPhysAddr
  BY <1>1, PhysAddrAssumption DEF AdjustedLength, PhysAddrs
<1>6. MaxPhysAddr \in Nat /\ MaxPhysAddr > 0
  BY BootAssumption, PhysAddrAssumption
<1> DEFINE b == e.baseLow
           l == e.lengthLow
           last == IF end < MaxPhysAddr THEN end
                   ELSE IF b = 0 THEN MaxPhysAddr - 1 ELSE MaxPhysAddr
<1>7. b \in Int /\ 0 <= b /\ b <= MaxPhysAddr /\ l \in Int /\ 0 <= l /\ l <= MaxPhysAddr
      /\ high \in Int /\ end = b + high + l - 1
  BY SMTT(40), <1>1, <1>4, <1>6 DEF PhysAddrs
<1>8. CASE e.lengthHigh = 0 /\ MaxPhysAddr - l >= b
  <2>1. high = 0 /\ len = l /\ end = b + l - 1 /\ end < MaxPhysAddr
    BY SMTT(40), <1>4, <1>5, <1>6, <1>7, <1>8
  <2>2. CASE l = 0
    <3>1. ~ IsValidRegion(b, len) /\ end < b
      BY <1>7, <2>1, <2>2 DEF IsValidRegion
    <3> QED BY <1>2, <1>3, <3>1 DEF CreateRegion
  <2>3. CASE l > 0
    <3> HIDE DEF b, l, end, len, high
    <3>1. IsValidRegion(b, len) /\ ~ (end < b) /\ last = end /\ b + (len - 1) = end
      BY <1>6, <1>7, <1>8, <2>1, <2>3 DEF IsValidRegion
    <3>2. end \in PhysAddrs
      BY <1>6, <1>7, <2>1, <2>3 DEF PhysAddrs
    <3>3. Create(b, len) = [base |-> b, last |-> last]
      BY <3>1, <3>2, WrapSmall DEF Create
    <3> QED BY <1>2, <1>3, <3>1, <3>3 DEF CreateRegion, b, l, end, len, high
  <2> QED BY <1>7, <2>2, <2>3
<1>9. CASE ~ (e.lengthHigh = 0 /\ MaxPhysAddr - l >= b)
  <2>1. len = IF b > 0 THEN MaxPhysAddr - b + 1 ELSE MaxPhysAddr
    BY <1>5, <1>9
  <2>2. end >= MaxPhysAddr /\ (b = 0 => high # 0)
    BY SMTT(40), <1>4, <1>6, <1>7, <1>9
  <2> HIDE DEF b, l, end, len, high
  <2>3. /\ IsValidRegion(b, len) /\ ~ (end < b)
        /\ b + (len - 1) = last /\ last \in PhysAddrs
    BY <1>6, <1>7, <2>1, <2>2 DEF IsValidRegion, PhysAddrs
  <2>4. Create(b, len) = [base |-> b, last |-> last]
    BY <2>3, WrapSmall DEF Create
  <2> QED BY <1>2, <1>3, <2>3, <2>4 DEF CreateRegion, b, l, end, len, high
<1> QED BY <1>8, <1>9
-----------------------------------------------------------------------------
(* The regions between two addresses.                                      *)

LEMMA WrapNegative ==
  ASSUME NEW n \in Int, -MaxPhysAddr <= n, n < 0
  PROVE  Wrap(n) = n + MaxPhysAddr + 1
<1>1. MaxPhysAddr \in Nat
  BY PhysAddrAssumption
<1>2. n + MaxPhysAddr + 1 \in 0 .. MaxPhysAddr
  BY <1>1
<1> QED BY <1>1, <1>2 DEF Wrap

LEMMA BetweenType ==
  ASSUME NEW start \in PhysAddrs, NEW end \in Nat
  PROVE  Between(start, end) \in AnyRegion
<1>1. MaxPhysAddr \in Nat /\ start \in Nat
  BY PhysAddrAssumption DEF PhysAddrs
<1> DEFINE last == IF end = 0 THEN MaxPhysAddr ELSE end - 1
<1>2. last \in Nat
  BY <1>1
<1>3. Between(start, end) = IF last <= MaxPhysAddr /\ last - start + 1 \in 1 .. MaxPhysAddr
                              THEN [base |-> start, last |-> last]
                              ELSE NoRegion
  BY DEF Between
<1> HIDE DEF last
<1> QED BY <1>1, <1>2, <1>3, NoRegionType DEF AnyRegion, PhysAddrs

(* The length of a module or of the kernel is computed modulo 2^w, and so  *)
(* a region that ends at the end of the address space comes out right.     *)
LEMMA CreateBetween ==
  ASSUME NEW start \in PhysAddrs, NEW end \in PhysAddrs
  PROVE  CreateRegion(start, Wrap(end - start)) = Between(start, end)
<1> DEFINE last == IF end = 0 THEN MaxPhysAddr ELSE end - 1
           length == Wrap(end - start)
<1>1. /\ MaxPhysAddr \in Nat /\ MaxPhysAddr > 0
      /\ start \in Nat /\ start <= MaxPhysAddr /\ end \in Nat /\ end <= MaxPhysAddr
  BY PhysAddrAssumption, BootAssumption DEF PhysAddrs
<1>2. Between(start, end) = IF last <= MaxPhysAddr /\ last - start + 1 \in 1 .. MaxPhysAddr
                              THEN [base |-> start, last |-> last]
                              ELSE NoRegion
  BY DEF Between
<1>3. CASE start <= end
  <2>1. length = end - start
    <3>1. end - start \in PhysAddrs
      BY <1>1, <1>3 DEF PhysAddrs
    <3> QED BY <3>1, WrapSmall
  <2> HIDE DEF length
  <2>2. CASE start = end
    <3>1. ~ IsValidRegion(start, length)
      BY <1>1, <2>1, <2>2 DEF IsValidRegion
    <3>2. last - start + 1 \notin 1 .. MaxPhysAddr
      BY <1>1, <2>2
    <3> QED BY <1>2, <3>1, <3>2 DEF CreateRegion, length
  <2>3. CASE start < end
    <3>1. /\ IsValidRegion(start, length) /\ start + (length - 1) = last
          /\ last <= MaxPhysAddr /\ last - start + 1 \in 1 .. MaxPhysAddr
          /\ last \in PhysAddrs
      BY <1>1, <2>1, <2>3 DEF IsValidRegion, PhysAddrs
    <3>2. Create(start, length) = [base |-> start, last |-> last]
      BY <3>1, WrapSmall DEF Create
    <3> QED BY <1>2, <3>1, <3>2 DEF CreateRegion, length
  <2> QED BY <1>1, <1>3, <2>2, <2>3
<1>4. CASE end < start
  <2>1. length = end - start + MaxPhysAddr + 1
    BY <1>1, <1>4, WrapNegative
  <2> HIDE DEF length
  <2>2. CASE end # 0
    <3>1. ~ IsValidRegion(start, length)
      BY <1>1, <1>4, <2>1, <2>2 DEF IsValidRegion
    <3>2. last - start + 1 \notin 1 .. MaxPhysAddr
      BY <1>1, <1>4, <2>2
    <3> QED BY <1>2, <3>1, <3>2 DEF CreateRegion, length
  <2>3. CASE end = 0
    <3>1. /\ IsValidRegion(start, length) /\ start + (length - 1) = last
          /\ last <= MaxPhysAddr /\ last - start + 1 \in 1 .. MaxPhysAddr
          /\ last \in PhysAddrs
      BY <1>1, <1>4, <2>1, <2>3 DEF IsValidRegion, PhysAddrs
    <3>2. Create(start, length) = [base |-> start, last |-> last]
      BY <3>1, WrapSmall DEF Create
    <3> QED BY <1>2, <3>1, <3>2 DEF CreateRegion, length
  <2> QED BY <2>2, <2>3
<1> QED BY <1>1, <1>3, <1>4

(* MM_KB() asserts if and only if the product does not fit an address.     *)
LEMMA KiloBytes ==
  ASSUME NEW n \in PhysAddrs
  PROVE  /\ n * KiloByte \in Nat
         /\ n <= MaxPhysAddr \div KiloByte <=> n * KiloByte <= MaxPhysAddr
<1> DEFINE q == MaxPhysAddr \div KiloByte
<1>1. MaxPhysAddr \in Nat /\ KiloByte \in Nat /\ KiloByte > 0 /\ n \in Nat
  BY PhysAddrAssumption, BootAssumption DEF PhysAddrs
<1>2. q \in Nat /\ q * KiloByte <= MaxPhysAddr /\ MaxPhysAddr < (q + 1) * KiloByte
  BY <1>1
<1> HIDE DEF q
<1>3. n <= q => n * KiloByte <= q * KiloByte
  BY <1>1, <1>2
<1>4. q + 1 <= n => (q + 1) * KiloByte <= n * KiloByte
  BY <1>1, <1>2
<1>5. n * KiloByte \in Nat /\ q * KiloByte \in Nat /\ (q + 1) * KiloByte \in Nat
  BY <1>1, <1>2
<1> QED BY <1>1, <1>2, <1>3, <1>4, <1>5 DEF q

LEMMA KiloBytesBetween ==
  ASSUME NEW base \in PhysAddrs, NEW n \in PhysAddrs, base = 0 \/ base = MegaByte
  PROVE  RegionOfKB(base, n) = Between(base, base + n * KiloByte)
<1> DEFINE length == n * KiloByte
           end == base + length
           last == IF end = 0 THEN MaxPhysAddr ELSE end - 1
<1>1. /\ MaxPhysAddr \in Nat /\ MaxPhysAddr > 0
      /\ base \in Nat /\ base <= MaxPhysAddr /\ length \in Nat
  BY PhysAddrAssumption, BootAssumption, KiloBytes DEF PhysAddrs
<1>2. Between(base, end) = IF last <= MaxPhysAddr /\ last - base + 1 \in 1 .. MaxPhysAddr
                              THEN [base |-> base, last |-> last]
                              ELSE NoRegion
  BY DEF Between
<1>3. RegionOfKB(base, n) = IF length <= MaxPhysAddr THEN CreateRegion(base, length) ELSE NoRegion
  BY KiloBytes DEF RegionOfKB
<1> HIDE DEF length
<1>4. CASE length = 0
  <2>1. ~ IsValidRegion(base, length)
    BY <1>4 DEF IsValidRegion
  <2>2. last - base + 1 \notin 1 .. MaxPhysAddr
    BY <1>1, <1>4
  <2> QED BY <1>2, <1>3, <2>1, <2>2 DEF CreateRegion, length
<1>5. CASE length > 0
  <2>1. last = base + length - 1 /\ last \in Nat
    BY <1>1, <1>5
  <2> HIDE DEF last
  <2>2. CASE last <= MaxPhysAddr /\ length <= MaxPhysAddr
    <3>1. /\ IsValidRegion(base, length) /\ base + (length - 1) = last
          /\ last - base + 1 \in 1 .. MaxPhysAddr /\ last \in PhysAddrs
      BY <1>1, <1>5, <2>1, <2>2 DEF IsValidRegion, PhysAddrs
    <3>2. Create(base, length) = [base |-> base, last |-> last]
      BY <3>1, WrapSmall DEF Create
    <3> QED BY <1>2, <1>3, <2>2, <3>1, <3>2 DEF CreateRegion, length
  <2>3. CASE ~ (last <= MaxPhysAddr /\ length <= MaxPhysAddr)
    <3>1. length <= MaxPhysAddr => ~ IsValidRegion(base, length)
      BY <1>1, <1>5, <2>1, <2>3 DEF IsValidRegion
    <3>2. ~ (last <= MaxPhysAddr /\ last - base + 1 \in 1 .. MaxPhysAddr)
      BY <1>1, <1>5, <2>1, <2>3
    <3> QED BY <1>2, <1>3, <3>1, <3>2 DEF CreateRegion, length
  <2> QED BY <2>2, <2>3
<1> QED BY <1>1, <1>4, <1>5
-----------------------------------------------------------------------------
(* Each list is an iterator over its regions.                              *)

LEMMA MemmapMoves ==
  ASSUME NEW mb \in BootInfos, mb.memMapPresent, NEW isRam \in BOOLEAN,
         NEW node \in 0 .. Len(mb.map) + 1
  PROVE  LET next    == MemmapMoved(mb, isRam, node)
             pos     == MemmapPosition(mb, isRam, node)
             nextPos == MemmapPosition(mb, isRam, next)
             regions == MapRegions(mb, isRam)
         IN  /\ next \in 1 .. Len(mb.map) + 1
             /\ pos \in 0 .. Len(regions) + 1
             /\ node # Len(mb.map) + 1 => pos # Len(regions) + 1
             /\ nextPos = IF pos = Len(regions) + 1 THEN pos ELSE pos + 1
             /\ IsValidMemmapNode(mb, next) <=> nextPos # Len(regions) + 1
             /\ IsValidMemmapNode(mb, next) => MemmapCurrent(mb, next) = regions[nextPos]
<1> DEFINE next    == MemmapMoved(mb, isRam, node)
           pos     == MemmapPosition(mb, isRam, node)
           nextPos == MemmapPosition(mb, isRam, next)
           N       == NumListed(mb, isRam)
           last    == Len(mb.map)
<1>1. Len(MapRegions(mb, isRam)) = N /\ N \in Nat /\ last \in Nat
  BY BootInfoFacts, MapRegionsFacts
<1>2. \A n : IsValidMemmapNode(mb, n) <=> n \in 1 .. last
  BY DEF IsValidMemmapNode
<1> HIDE DEF N, last
<1>3. CASE node = last + 1
  <2>1. next = node /\ pos = N + 1
    BY <1>1, <1>2, <1>3 DEF MemmapMoved, MemmapPosition, Null, N, last
  <2> QED BY <1>1, <1>2, <1>3, <2>1 DEF last
<1>4. CASE node \in 0 .. last
  <2>1. next = NextMemmapNode(mb, isRam, node + 1)
    BY <1>1, <1>2, <1>4 DEF MemmapMoved, Null
  <2>2. pos = Rank(mb, isRam, node) /\ pos \in Nat /\ pos <= N
    BY <1>1, <1>4, RankType, RankMonotone DEF MemmapPosition, NumListed, N, last
  <2>3. /\ next \in node + 1 .. last + 1
        /\ next \in 1 .. last => IsListed(mb, isRam, next)
    BY <1>4, <2>1, NextNode DEF last
  <2>4. IF next \in 1 .. last THEN Rank(mb, isRam, next) = pos + 1 ELSE N = pos
    BY <1>4, <2>1, <2>2, NextRank DEF last, N
  <2> HIDE DEF next, pos
  <2>5. CASE next \in 1 .. last
    <3>1. nextPos = pos + 1
      BY <1>1, <2>4, <2>5 DEF MemmapPosition, last
    <3>2. nextPos \in 1 .. N /\ MapRegions(mb, isRam)[nextPos] = Described(mb.map[next])
      BY <2>3, <2>4, <2>5, <3>1, MapRegionsFacts DEF last, N
    <3>3. MemmapCurrent(mb, next) = Described(mb.map[next])
      BY <2>5, CurrentIsDescribed DEF last
    <3> HIDE DEF nextPos
    <3> QED BY <1>1, <1>2, <2>2, <2>5, <3>1, <3>2, <3>3 DEF next, pos, nextPos, last
  <2>6. CASE next = last + 1
    <3>1. nextPos = N + 1 /\ N = pos /\ next \notin 1 .. last
      BY <1>1, <2>4, <2>6 DEF MemmapPosition, last, N
    <3> HIDE DEF nextPos
    <3> QED BY <1>1, <1>2, <2>2, <2>6, <3>1 DEF next, pos, nextPos, last
  <2> QED BY <1>1, <1>4, <2>3, <2>5, <2>6
<1> QED BY <1>1, <1>3, <1>4 DEF last

LEMMA PairLength ==
  ASSUME NEW S, NEW a \in S, NEW b \in S
  PROVE  <<a, b>> \in Seq(S) /\ Len(<<a, b>>) = 2 /\ <<a, b>>[1] = a /\ <<a, b>>[2] = b
OBVIOUS

LEMMA RamRegionsType ==
  ASSUME mbInfo \in BootInfos
  PROVE  /\ RamRegions \in Seq(AnyRegion) /\ Len(RamRegions) \in Nat
         /\ DOMAIN RamRegions = 1 .. Len(RamRegions)
<1>0. SUFFICES RamRegions \in Seq(AnyRegion)
  BY LenProperties
<1>1. CASE mbInfo.memMapPresent
  BY <1>1, MapRegionsFacts DEF RamRegions
<1>2. CASE ~ mbInfo.memMapPresent /\ mbInfo.memFieldsPresent
  <2> DEFINE a == Between(0, mbInfo.memLower * KiloByte)
             b == Between(MegaByte, MegaByte + mbInfo.memUpper * KiloByte)
  <2>1. mbInfo.memLower * KiloByte \in Nat /\ mbInfo.memUpper * KiloByte \in Nat
    BY BootInfoFacts, KiloBytes
  <2>2. MegaByte \in Nat /\ MegaByte \in PhysAddrs /\ 0 \in PhysAddrs
    BY BootAssumption, PhysAddrAssumption DEF PhysAddrs
  <2>3. MegaByte + mbInfo.memUpper * KiloByte \in Nat
    BY <2>1, <2>2
  <2>4. a \in AnyRegion /\ b \in AnyRegion
    BY <2>1, <2>2, <2>3, BetweenType
  <2>5. RamRegions = <<a, b>>
    BY <1>2 DEF RamRegions
  <2> HIDE DEF a, b
  <2> QED BY <2>4, <2>5, PairLength
<1>3. CASE ~ mbInfo.memMapPresent /\ ~ mbInfo.memFieldsPresent
  BY <1>3, EmptySeq DEF RamRegions
<1> QED BY <1>1, <1>2, <1>3

LEMMA RamMoves ==
  ASSUME mbInfo \in BootInfos, ramNode \in 0 .. Len(mbInfo.map) + 1, ramField \in FieldStates,
         RamInv, MoveRam, mbInfo' = mbInfo
  PROVE  /\ ramNode' \in 0 .. Len(mbInfo.map) + 1 /\ ramField' \in FieldStates
         /\ ramMoved' \in BOOLEAN /\ RamInv'
         /\ RamPosition \in 0 .. Len(RamRegions) + 1
         /\ RamRegions' = RamRegions
         /\ RamPosition' = IF RamPosition = Len(RamRegions) + 1
                             THEN RamPosition ELSE RamPosition + 1
         /\ ramMoved' <=> RamPosition' # Len(RamRegions) + 1
         /\ ramMoved' => RamCurrent' = RamRegions[RamPosition']
<1>1. RamRegions' = RamRegions
  BY DEF RamRegions
<1>2. CASE mbInfo.memMapPresent
  <2>1. /\ ramNode' = MemmapMoved(mbInfo, TRUE, ramNode) /\ ramField' = ramField
        /\ ramMoved' = IsValidMemmapNode(mbInfo, ramNode')
    BY <1>2 DEF MoveRam
  <2>2. /\ RamPosition = MemmapPosition(mbInfo, TRUE, ramNode)
        /\ RamPosition' = MemmapPosition(mbInfo, TRUE, ramNode')
        /\ RamRegions = MapRegions(mbInfo, TRUE)
        /\ RamCurrent' = MemmapCurrent(mbInfo, ramNode')
    BY <1>2 DEF RamPosition, RamRegions, RamCurrent
  <2>3. IsValidMemmapNode(mbInfo, ramNode') \in BOOLEAN /\ Len(mbInfo.map) \in Nat
    BY BootInfoFacts DEF IsValidMemmapNode
  <2>4. RamInv'
    BY <2>1 DEF RamInv
  <2>5. TRUE \in BOOLEAN
    OBVIOUS
  <2>6. /\ ramNode' \in 1 .. Len(mbInfo.map) + 1
        /\ RamPosition \in 0 .. Len(RamRegions) + 1
        /\ RamPosition' = IF RamPosition = Len(RamRegions) + 1
                            THEN RamPosition ELSE RamPosition + 1
        /\ IsValidMemmapNode(mbInfo, ramNode') <=> RamPosition' # Len(RamRegions) + 1
        /\ IsValidMemmapNode(mbInfo, ramNode') => RamCurrent' = RamRegions[RamPosition']
    BY <1>2, <2>1, <2>2, <2>5, MemmapMoves
  <2>7. /\ ramNode' \in 0 .. Len(mbInfo.map) + 1
        /\ ramMoved' \in BOOLEAN
    <3>1. ramMoved' \in BOOLEAN
      BY <2>1, <2>3, Zenon
    <3> QED BY <2>3, <2>6, <3>1
  <2>8. ramField' \in FieldStates
    BY <2>1
  <2>9. /\ ramMoved' <=> RamPosition' # Len(RamRegions) + 1
        /\ ramMoved' => RamCurrent' = RamRegions[RamPosition']
    BY <2>1, <2>6, Zenon
  <2> QED BY <1>1, <2>4, <2>6, <2>7, <2>8, <2>9
<1>3. CASE ~ mbInfo.memMapPresent
  <2>1. /\ ramField' = MemFieldsMoved(mbInfo, ramField) /\ ramNode' = ramNode
        /\ ramMoved' = IsOnField(ramField')
    BY <1>3 DEF MoveRam
  <2>2. RamCurrent' = MemFieldsCurrent(mbInfo, ramField')
    BY <1>3 DEF RamCurrent
  <2>3. ramField' \in FieldStates /\ ramMoved' \in BOOLEAN /\ RamInv'
    BY <2>1 DEF RamInv, FieldStates, MemFieldsMoved, FieldAfter, IsOnField
  <2>4. CASE mbInfo.memFieldsPresent
    <3> DEFINE a == Between(0, mbInfo.memLower * KiloByte)
               b == Between(MegaByte, MegaByte + mbInfo.memUpper * KiloByte)
    <3>0. IsOnField("lower") = TRUE /\ IsOnField("upper") = TRUE /\ IsOnField("pastEnd") = FALSE
      BY DEF IsOnField
    <3>1. RamRegions = <<a, b>>
      BY <1>3, <2>4 DEF RamRegions
    <3>2. mbInfo.memLower \in PhysAddrs /\ mbInfo.memUpper \in PhysAddrs
      BY BootInfoFacts
    <3>3. MegaByte \in PhysAddrs /\ 0 \in PhysAddrs
      BY BootAssumption, PhysAddrAssumption DEF PhysAddrs
    <3>4. mbInfo.memLower * KiloByte \in Nat
      BY <3>2, KiloBytes
    <3>5. RegionOfKB(0, mbInfo.memLower) = a /\ RegionOfKB(MegaByte, mbInfo.memUpper) = b
      <4>1. 0 + mbInfo.memLower * KiloByte = mbInfo.memLower * KiloByte
        BY <3>4
      <4> QED BY <3>2, <3>3, <4>1, KiloBytesBetween
    <3> HIDE DEF a, b
    <3>6. Len(RamRegions) = 2 /\ RamRegions[1] = a /\ RamRegions[2] = b
      BY <3>1, PairLength
    <3>a. Len(RamRegions) + 1 = 3
      BY <3>6
    <3>7. RamPosition = CASE ramField = "reset" -> 0 [] ramField = "lower" -> 1
                          [] ramField = "upper" -> 2 [] ramField = "pastEnd" -> 3
      BY <1>3, <3>a DEF RamPosition
    <3>8. RamPosition' = CASE ramField' = "reset" -> 0 [] ramField' = "lower" -> 1
                           [] ramField' = "upper" -> 2 [] ramField' = "pastEnd" -> 3
      BY <1>1, <1>3, <3>a DEF RamPosition
    <3>9. ramField' = FieldAfter[ramField]
      BY <2>1, <2>4 DEF MemFieldsMoved
    <3>10. /\ ramField' = "lower" => RamCurrent' = a
           /\ ramField' = "upper" => RamCurrent' = b
      BY <2>2, <3>5 DEF MemFieldsCurrent
    <3>11. CASE ramField = "reset"
      <4>1. ramField' = "lower" /\ RamPosition = 0 /\ RamPosition' = 1
        BY <3>7, <3>8, <3>9, <3>11 DEF FieldAfter
      <4>2. Len(RamRegions) + 1 = 3 /\ ramMoved' = TRUE /\ RamCurrent' = RamRegions[1]
        <5>1. ramMoved' = TRUE
          BY <2>1, <3>0, <4>1, Zenon
        <5> QED BY <3>6, <3>10, <4>1, <5>1
      <4> QED BY <1>1, <2>1, <2>3, <4>1, <4>2
    <3>12. CASE ramField = "lower"
      <4>1. ramField' = "upper" /\ RamPosition = 1 /\ RamPosition' = 2
        BY <3>7, <3>8, <3>9, <3>12 DEF FieldAfter
      <4>2. Len(RamRegions) + 1 = 3 /\ ramMoved' = TRUE /\ RamCurrent' = RamRegions[2]
        <5>1. ramMoved' = TRUE
          BY <2>1, <3>0, <4>1, Zenon
        <5> QED BY <3>6, <3>10, <4>1, <5>1
      <4> QED BY <1>1, <2>1, <2>3, <4>1, <4>2
    <3>13. CASE ramField \in {"upper", "pastEnd"}
      <4>1. ramField' = "pastEnd" /\ RamPosition \in {2, 3} /\ RamPosition' = 3
        BY <3>7, <3>8, <3>9, <3>13 DEF FieldAfter
      <4>2. Len(RamRegions) + 1 = 3 /\ ramMoved' = FALSE
        <5>1. ramMoved' = FALSE
          BY <2>1, <3>0, <4>1, Zenon
        <5> QED BY <3>6, <5>1
      <4> QED BY <1>1, <2>1, <2>3, <4>1, <4>2
    <3> QED BY <3>11, <3>12, <3>13 DEF FieldStates
  <2>5. CASE ~ mbInfo.memFieldsPresent
    <3>1. RamRegions = <<>> /\ Len(RamRegions) = 0
      BY <1>3, <2>5 DEF RamRegions
    <3>2. ramField' = "pastEnd" /\ ~ ramMoved'
      BY <2>1, <2>5 DEF MemFieldsMoved, IsOnField
    <3>3. RamPosition' = 1
      BY <1>1, <1>3, <3>1, <3>2 DEF RamPosition
    <3>4. RamPosition \in {0, 1}
      BY <1>3, <2>5, <3>1 DEF RamPosition, FieldStates, RamInv, IsOnField
    <3> QED BY <1>1, <2>1, <2>3, <3>1, <3>2, <3>3, <3>4
  <2> QED BY <2>4, <2>5
<1> QED BY <1>2, <1>3
-----------------------------------------------------------------------------
(* The list of used memory: the reserved regions, then the modules.        *)

LEMMA ModuleRegionsFacts ==
  ASSUME mbInfo \in BootInfos
  PROVE  /\ ModuleRegions \in Seq(AnyRegion)
         /\ Len(ModuleRegions) = 1 + (IF mbInfo.modulesPresent THEN Len(mbInfo.mods) ELSE 0)
         /\ ModuleRegions[1] = Between(KernelLoad, KernelEnd)
         /\ mbInfo.modulesPresent => \A i \in 1 .. Len(mbInfo.mods) :
              ModuleRegions[i + 1] = Between(mbInfo.mods[i].start, mbInfo.mods[i].end)
<1> DEFINE k == Between(KernelLoad, KernelEnd)
           M == IF mbInfo.modulesPresent THEN RegionsOfModules(mbInfo) ELSE <<>>
           n == IF mbInfo.modulesPresent THEN Len(mbInfo.mods) ELSE 0
<1>1. k \in AnyRegion
  <2>1. KernelLoad \in PhysAddrs /\ KernelEnd \in PhysAddrs /\ KernelEnd \in Nat
    BY BootAssumption, PhysAddrAssumption DEF PhysAddrs
  <2> QED BY <2>1, BetweenType
<1>2. Len(mbInfo.mods) \in Nat /\ n \in Nat
  BY BootInfoFacts
<1>3. \A i \in 1 .. Len(mbInfo.mods) :
         Between(mbInfo.mods[i].start, mbInfo.mods[i].end) \in AnyRegion
  <2> SUFFICES ASSUME NEW i \in 1 .. Len(mbInfo.mods)
               PROVE  Between(mbInfo.mods[i].start, mbInfo.mods[i].end) \in AnyRegion
    OBVIOUS
  <2>1. /\ mbInfo.mods[i].start \in PhysAddrs /\ mbInfo.mods[i].end \in PhysAddrs
    BY ModuleFacts
  <2>2. mbInfo.mods[i].end \in Nat
    BY <2>1, PhysAddrAssumption DEF PhysAddrs
  <2> QED BY <2>1, <2>2, BetweenType
<1>4. /\ M \in Seq(AnyRegion) /\ Len(M) = n
      /\ mbInfo.modulesPresent => \A i \in 1 .. Len(mbInfo.mods) :
           M[i] = Between(mbInfo.mods[i].start, mbInfo.mods[i].end)
  <2>1. CASE mbInfo.modulesPresent
    <3>1. M = [i \in 1 .. Len(mbInfo.mods) |->
                 Between(mbInfo.mods[i].start, mbInfo.mods[i].end)]
      BY <2>1 DEF RegionsOfModules
    <3> HIDE DEF M
    <3>2. M \in [1 .. Len(mbInfo.mods) -> AnyRegion]
      BY <1>3, <3>1
    <3>3. M \in Seq(AnyRegion) /\ Len(M) = Len(mbInfo.mods)
      BY <1>2, <3>2, SeqDef
    <3> QED BY <2>1, <3>1, <3>3
  <2>2. CASE ~ mbInfo.modulesPresent
    BY <2>2, EmptySeq
  <2> QED BY <2>1, <2>2
<1>5. ModuleRegions = <<k>> \o M
  BY DEF ModuleRegions
<1> HIDE DEF k, M
<1>6. <<k>> \in Seq(AnyRegion) /\ Len(<<k>>) = 1 /\ <<k>>[1] = k
  BY <1>1
<1>7. /\ ModuleRegions \in Seq(AnyRegion)
      /\ Len(ModuleRegions) = Len(<<k>>) + Len(M)
      /\ \A i \in 1 .. Len(<<k>>) + Len(M) :
           ModuleRegions[i] = IF i <= Len(<<k>>) THEN <<k>>[i] ELSE M[i - Len(<<k>>)]
  BY <1>4, <1>5, <1>6, ConcatProperties
<1>8. Len(ModuleRegions) = 1 + n
  BY ONLY <1>4, <1>6, <1>7
<1>9. \A i \in 1 .. 1 + n : ModuleRegions[i] = IF i <= 1 THEN k ELSE M[i - 1]
  <2> HIDE DEF n
  <2> QED BY ONLY <1>4, <1>6, <1>7
<1>10. ModuleRegions[1] = k
  BY <1>2, <1>9
<1>11. ASSUME mbInfo.modulesPresent, NEW i \in 1 .. Len(mbInfo.mods)
       PROVE  ModuleRegions[i + 1] = M[i]
  <2>1. i + 1 \in 1 .. 1 + n /\ ~ (i + 1 <= 1) /\ (i + 1) - 1 = i
    BY <1>2, <1>11
  <2> QED BY <1>9, <2>1
<1> QED BY <1>4, <1>7, <1>8, <1>10, <1>11 DEF k

LEMMA UsedRegionsFacts ==
  ASSUME mbInfo \in BootInfos
  PROVE  LET r == Len(ReservedRegions)
             m == Len(ModuleRegions)
         IN  /\ r \in Nat /\ m \in Nat \ {0}
             /\ UsedRegions \in Seq(AnyRegion) /\ Len(UsedRegions) = r + m
             /\ \A i \in 1 .. r : UsedRegions[i] = ReservedRegions[i]
             /\ \A i \in 1 .. m : UsedRegions[r + i] = ModuleRegions[i]
<1>1. ReservedRegions \in Seq(AnyRegion)
  <2>1. CASE mbInfo.memMapPresent
    BY <2>1, MapRegionsFacts DEF ReservedRegions
  <2>2. CASE ~ mbInfo.memMapPresent
    BY <2>2, EmptySeq DEF ReservedRegions
  <2> QED BY <2>1, <2>2
<1>2. ModuleRegions \in Seq(AnyRegion) /\ Len(ModuleRegions) \in Nat \ {0}
  BY ModuleRegionsFacts, BootInfoFacts
<1>3. Len(ReservedRegions) \in Nat
  BY <1>1, LenProperties
<1> HIDE DEF ReservedRegions, ModuleRegions
<1>4. /\ UsedRegions \in Seq(AnyRegion)
      /\ Len(UsedRegions) = Len(ReservedRegions) + Len(ModuleRegions)
      /\ \A i \in 1 .. Len(ReservedRegions) + Len(ModuleRegions) :
           UsedRegions[i] = IF i <= Len(ReservedRegions) THEN ReservedRegions[i]
                            ELSE ModuleRegions[i - Len(ReservedRegions)]
  BY <1>1, <1>2, ConcatProperties DEF UsedRegions
<1>5. ASSUME NEW i \in 1 .. Len(ModuleRegions)
      PROVE  UsedRegions[Len(ReservedRegions) + i] = ModuleRegions[i]
  <2> DEFINE j == Len(ReservedRegions) + i
  <2>1. /\ j \in 1 .. Len(ReservedRegions) + Len(ModuleRegions)
        /\ ~ (j <= Len(ReservedRegions)) /\ j - Len(ReservedRegions) = i
    BY <1>2, <1>3
  <2> HIDE DEF j
  <2> QED BY <1>4, <2>1 DEF j
<1>6. \A i \in 1 .. Len(ReservedRegions) : UsedRegions[i] = ReservedRegions[i]
  BY <1>2, <1>3, <1>4
<1> QED BY <1>2, <1>3, <1>4, <1>5, <1>6

LEMMA ModuleMoves ==
  ASSUME mbInfo \in BootInfos, mbInfo' = mbInfo, module \in ModuleStates,
         module.index \in 0 .. Len(mbInfo.mods), ModuleInv,
         module' = ModuleMoved(mbInfo, module)
  PROVE  /\ module' \in ModuleStates /\ module'.index \in 0 .. Len(mbInfo.mods) /\ ModuleInv'
         /\ module.state # "pastEnd" =>
              /\ ModulePosition \in 0 .. Len(ModuleRegions)
              /\ ModulePosition' = ModulePosition + 1
              /\ IsOnModule(module') <=> ModulePosition' # Len(ModuleRegions) + 1
              /\ IsOnModule(module')
                   => ModuleCurrent(mbInfo, module') = ModuleRegions[ModulePosition']
<1> DEFINE n == Len(mbInfo.mods)
           L == Len(ModuleRegions)
<1>1. n \in Nat /\ mbInfo.modulesPresent \in BOOLEAN
  BY BootInfoFacts
<1>2. ModuleRegions' = ModuleRegions
  BY DEF ModuleRegions
<1>3. L = 1 + (IF mbInfo.modulesPresent THEN n ELSE 0)
  BY ModuleRegionsFacts
<1>4. /\ module.state \in {"reset", "kernel", "module", "pastEnd"} /\ module.index \in Nat
      /\ module = [state |-> module.state, index |-> module.index]
  BY DEF ModuleStates
<1>5. ModuleCurrent(mbInfo, [state |-> "kernel", index |-> module.index]) = ModuleRegions[1]
  <2>1. KernelLoad \in PhysAddrs /\ KernelEnd \in PhysAddrs
    BY BootAssumption
  <2>2. CreateRegion(KernelLoad, Wrap(KernelEnd - KernelLoad)) = Between(KernelLoad, KernelEnd)
    BY <2>1, CreateBetween
  <2> QED BY <2>2, ModuleRegionsFacts DEF ModuleCurrent
<1>6. ASSUME NEW i \in 0 .. n - 1, mbInfo.modulesPresent
      PROVE  ModuleCurrent(mbInfo, [state |-> "module", index |-> i]) = ModuleRegions[i + 2]
  <2>1. i + 1 \in 1 .. n /\ (i + 1) + 1 = i + 2
    BY <1>1
  <2>2. mbInfo.mods[i + 1].start \in PhysAddrs /\ mbInfo.mods[i + 1].end \in PhysAddrs
    BY <2>1, ModuleFacts
  <2>3. CreateRegion(mbInfo.mods[i + 1].start,
                     Wrap(mbInfo.mods[i + 1].end - mbInfo.mods[i + 1].start))
          = Between(mbInfo.mods[i + 1].start, mbInfo.mods[i + 1].end)
    BY <2>2, CreateBetween
  <2>4. ModuleRegions[(i + 1) + 1]
          = Between(mbInfo.mods[i + 1].start, mbInfo.mods[i + 1].end)
    BY <1>6, <2>1, ModuleRegionsFacts
  <2> QED BY <2>1, <2>3, <2>4 DEF ModuleCurrent
<1> HIDE DEF n, L
<1>7. CASE module.state = "pastEnd"
  <2>1. module' = module
    BY <1>7 DEF ModuleMoved
  <2> QED BY <1>7, <2>1 DEF ModuleInv
<1>8. CASE module.state = "reset"
  <2>1. module' = [state |-> "kernel", index |-> module.index]
    BY <1>4, <1>8 DEF ModuleMoved
  <2>2. ModulePosition = 0 /\ ModulePosition' = 1
    BY <1>8, <2>1 DEF ModulePosition
  <2>3. IsOnModule(module') /\ 1 # L + 1 /\ 0 \in 0 .. L
    BY <1>1, <1>3, <2>1 DEF IsOnModule
  <2>4. module' \in ModuleStates /\ module'.index \in 0 .. n /\ ModuleInv'
    BY <1>4, <2>1 DEF ModuleStates, ModuleInv, n
  <2> QED BY <1>5, <2>1, <2>2, <2>3, <2>4 DEF n, L
<1>9. ASSUME NEW i \in 0 .. n, module' = ModuleAt(mbInfo, i), mbInfo.modulesPresent
      PROVE  /\ module' \in ModuleStates /\ module'.index \in 0 .. n /\ ModuleInv'
             /\ ModulePosition' = i + 2
             /\ IsOnModule(module') <=> ModulePosition' # L + 1
             /\ IsOnModule(module')
                  => ModuleCurrent(mbInfo, module') = ModuleRegions[ModulePosition']
  <2>1. CASE i = n
    <3>1. module' = [state |-> "pastEnd", index |-> n]
      BY <1>9, <2>1 DEF ModuleAt, ModuleAtEnd, n
    <3>2. ModulePosition' = L + 1
      BY <1>2, <3>1 DEF ModulePosition, L
    <3>3. ~ IsOnModule(module') /\ L + 1 = i + 2
      BY <1>1, <1>3, <1>9, <2>1, <3>1 DEF IsOnModule
    <3>4. module' \in ModuleStates /\ module'.index \in 0 .. n /\ ModuleInv'
      BY <1>1, <3>1 DEF ModuleStates, ModuleInv
    <3> QED BY <3>2, <3>3, <3>4
  <2>2. CASE i # n
    <3>1. module' = [state |-> "module", index |-> i] /\ i \in 0 .. n - 1 /\ i \in Nat
      BY <1>1, <1>9, <2>2 DEF ModuleAt, n
    <3>2. ModulePosition' = i + 2
      BY <3>1 DEF ModulePosition
    <3>3. IsOnModule(module') /\ i + 2 # L + 1
      BY <1>1, <1>3, <1>9, <3>1 DEF IsOnModule
    <3>4. module' \in ModuleStates /\ module'.index \in 0 .. n /\ ModuleInv'
      BY <1>1, <1>9, <3>1 DEF ModuleStates, ModuleInv, n
    <3>5. ModuleCurrent(mbInfo, module') = ModuleRegions[i + 2]
      BY <1>6, <1>9, <3>1
    <3> QED BY <3>2, <3>3, <3>4, <3>5
  <2> QED BY <2>1, <2>2
<1>10. CASE module.state = "kernel"
  <2>1. ModulePosition = 1 /\ 1 \in 0 .. L
    BY <1>1, <1>3, <1>10 DEF ModulePosition
  <2>2. CASE mbInfo.modulesPresent
    <3>1. module' = ModuleAt(mbInfo, 0) /\ 0 \in 0 .. n
      BY <1>1, <1>10, <2>2 DEF ModuleMoved
    <3> QED BY <1>9, <2>1, <2>2, <3>1 DEF n, L
  <2>3. CASE ~ mbInfo.modulesPresent
    <3>1. module' = [state |-> "pastEnd", index |-> module.index]
      BY <1>10, <2>3 DEF ModuleMoved, ModuleAtEnd
    <3>2. ModulePosition' = L + 1 /\ L + 1 = 2
      BY <1>2, <1>3, <2>3, <3>1 DEF ModulePosition, L
    <3>3. ~ IsOnModule(module')
      BY <3>1 DEF IsOnModule
    <3>4. module' \in ModuleStates /\ module'.index \in 0 .. n /\ ModuleInv'
      BY <1>4, <3>1 DEF ModuleStates, ModuleInv, n
    <3> QED BY <2>1, <3>2, <3>3, <3>4 DEF n, L
  <2> QED BY <2>2, <2>3
<1>11. CASE module.state = "module"
  <2>1. mbInfo.modulesPresent /\ module.index + 1 \in 0 .. n
    BY <1>1, <1>4, <1>11 DEF ModuleInv, n
  <2>2. module' = ModuleAt(mbInfo, module.index + 1)
    BY <1>11 DEF ModuleMoved
  <2>3. ModulePosition = module.index + 2 /\ module.index + 2 \in 0 .. L
    BY <1>1, <1>3, <1>4, <1>11, <2>1 DEF ModulePosition
  <2>4. (module.index + 1) + 2 = (module.index + 2) + 1
    BY <1>4
  <2> QED BY <1>9, <2>1, <2>2, <2>3, <2>4 DEF n, L
<1> QED BY <1>4, <1>7, <1>8, <1>10, <1>11

LEMMA PositionOfNull ==
  ASSUME NEW mb \in BootInfos, NEW isRam \in BOOLEAN
  PROVE  MemmapPosition(mb, isRam, 0) = 0
<1>1. Len(mb.map) \in Nat
  BY BootInfoFacts
<1>2. 0 \in 0 .. Len(mb.map) /\ 0 \in Nat
  BY <1>1
<1>3. Rank(mb, isRam, 0) = 0
  BY <1>2, RankType
<1> QED BY <1>2, <1>3 DEF MemmapPosition

LEMMA UsedMoves ==
  ASSUME mbInfo \in BootInfos, mbInfo' = mbInfo,
         reservedNode \in 0 .. Len(mbInfo.map) + 1, module \in ModuleStates,
         module.index \in 0 .. Len(mbInfo.mods),
         usedState \in {"reset", "onFirst", "onSecond", "pastEnd"},
         ModuleInv, UsedInv, MoveUsed, pc' # "reserve" => ~ usedMoved'
  PROVE  /\ reservedNode' \in 0 .. Len(mbInfo.map) + 1 /\ module' \in ModuleStates
         /\ module'.index \in 0 .. Len(mbInfo.mods)
         /\ usedState' \in {"reset", "onFirst", "onSecond", "pastEnd"}
         /\ usedMoved' \in BOOLEAN /\ ModuleInv' /\ UsedInv'
         /\ UsedPosition \in 0 .. Len(UsedRegions) + 1
         /\ UsedPosition' = IF UsedPosition = Len(UsedRegions) + 1
                              THEN UsedPosition ELSE UsedPosition + 1
         /\ usedMoved' <=> UsedPosition' # Len(UsedRegions) + 1
         /\ usedMoved' => UsedCurrent' = UsedRegions[UsedPosition']
<1> DEFINE first   == IF usedState \in {"reset", "onFirst"}
                        THEN MemmapMoved(mbInfo, FALSE, reservedNode)
                        ELSE reservedNode
           onFirst == usedState \in {"reset", "onFirst"} /\ IsValidMemmapNode(mbInfo, first)
           r == Len(ReservedRegions)
           m == Len(ModuleRegions)
           U == Len(UsedRegions)
           size == Len(mbInfo.map)
           Goal == /\ reservedNode' \in 0 .. size + 1 /\ module' \in ModuleStates
                   /\ module'.index \in 0 .. Len(mbInfo.mods)
                   /\ ModuleInv' /\ UsedPlaces'
                   /\ UsedPosition \in 0 .. U + 1
                   /\ UsedPosition' = IF UsedPosition = U + 1
                                        THEN UsedPosition ELSE UsedPosition + 1
                   /\ usedState' # "pastEnd" <=> UsedPosition' # U + 1
                   /\ usedState' # "pastEnd" => UsedCurrent' = UsedRegions[UsedPosition']
<1>1. /\ r \in Nat /\ m \in Nat /\ m > 0 /\ U = r + m
      /\ \A i \in 1 .. r : UsedRegions[i] = ReservedRegions[i]
      /\ \A i \in 1 .. m : UsedRegions[r + i] = ModuleRegions[i]
  BY UsedRegionsFacts
<1>2. ReservedRegions' = ReservedRegions /\ ModuleRegions' = ModuleRegions
  BY DEF ReservedRegions, ModuleRegions
<1>3. size \in Nat
  BY BootInfoFacts
<1>4. usedMoved' = (usedState' # "pastEnd")
  BY DEF MoveUsed
<1>5. FALSE \in BOOLEAN
  OBVIOUS
<1> HIDE DEF r, m, U, size
<1>6. ASSUME onFirst PROVE Goal /\ usedState' = "onFirst"
  <2>1. reservedNode' = first /\ module' = module /\ usedState' = "onFirst"
    BY <1>6, Zenon DEF MoveUsed
  <2>2. /\ mbInfo.memMapPresent /\ first = MemmapMoved(mbInfo, FALSE, reservedNode)
        /\ IsValidMemmapNode(mbInfo, first)
    BY <1>6 DEF IsValidMemmapNode
  <2>3. module = ModuleReset
    BY <1>6 DEF UsedInv, UsedPlaces
  <2>4. /\ UsedPosition = MemmapPosition(mbInfo, FALSE, reservedNode)
        /\ reservedNode # size + 1
    <3>1. CASE usedState = "reset"
      <4>1. reservedNode = 0 /\ UsedPosition = 0
        BY <3>1 DEF UsedInv, UsedPlaces, UsedPosition, Null
      <4>2. MemmapPosition(mbInfo, FALSE, 0) = 0
        BY <1>5, PositionOfNull
      <4>3. 0 # size + 1
        BY <1>3
      <4> QED BY <4>1, <4>2, <4>3
    <3>2. CASE usedState = "onFirst"
      BY <1>3, <3>2 DEF UsedInv, UsedPlaces, UsedPosition, IsValidMemmapNode, size
    <3> QED BY <1>6, <3>1, <3>2
  <2>5. ReservedRegions = MapRegions(mbInfo, FALSE)
    BY <2>2 DEF ReservedRegions
  <2> DEFINE pos == MemmapPosition(mbInfo, FALSE, reservedNode)
             nextPos == MemmapPosition(mbInfo, FALSE, first)
  <2>6. /\ first \in 1 .. size + 1 /\ pos \in 0 .. r + 1 /\ pos # r + 1
        /\ nextPos = IF pos = r + 1 THEN pos ELSE pos + 1
        /\ IsValidMemmapNode(mbInfo, first) <=> nextPos # r + 1
        /\ IsValidMemmapNode(mbInfo, first) =>
             MemmapCurrent(mbInfo, first) = ReservedRegions[nextPos]
    BY <1>5, <2>2, <2>4, <2>5, MemmapMoves DEF r, size
  <2>7. UsedPosition' = nextPos
    BY <2>1 DEF UsedPosition
  <2>8. UsedCurrent' = MemmapCurrent(mbInfo, first)
    BY <2>1 DEF UsedCurrent
  <2> HIDE DEF first, pos, nextPos, onFirst
  <2>9. nextPos = pos + 1 /\ nextPos \in 1 .. r /\ pos # U + 1 /\ nextPos # U + 1
    BY <1>1, <2>2, <2>6
  <2>10. UsedPlaces' /\ ModuleInv'
    BY <2>1, <2>2, <2>3 DEF UsedInv, UsedPlaces, ModuleInv, ModuleReset
  <2>11. reservedNode' \in 0 .. size + 1
    BY <1>3, <2>1, <2>6
  <2>12. UsedPosition = pos
    BY <2>4 DEF pos
  <2>13. UsedCurrent' = UsedRegions[UsedPosition']
    BY <1>1, <2>2, <2>6, <2>7, <2>8, <2>9
  <2>14. UsedPosition \in 0 .. U + 1
    BY <1>1, <2>6, <2>12
  <2> HIDE DEF UsedPosition, UsedCurrent, UsedPlaces, ModuleInv
  <2> QED BY <2>1, <2>7, <2>9, <2>10, <2>11, <2>12, <2>13, <2>14
<1>7. ASSUME ~ onFirst, usedState \in {"reset", "onFirst", "onSecond"}
      PROVE  /\ UsedPosition = r + ModulePosition
             /\ first \in 0 .. size + 1
             /\ module.state # "pastEnd"
  <2>1. CASE usedState = "onSecond"
    BY <2>1 DEF UsedInv, UsedPlaces, UsedPosition, IsOnModule, r, size
  <2>2. CASE usedState \in {"reset", "onFirst"}
    <3>1. first = MemmapMoved(mbInfo, FALSE, reservedNode) /\ ~ IsValidMemmapNode(mbInfo, first)
      BY <1>7, <2>2
    <3>2. ModulePosition = 0 /\ module.state # "pastEnd"
      BY <2>2 DEF UsedInv, UsedPlaces, ModulePosition, ModuleReset
    <3> DEFINE pos == MemmapPosition(mbInfo, FALSE, reservedNode)
               nextPos == MemmapPosition(mbInfo, FALSE, first)
    <3>3. CASE mbInfo.memMapPresent
      <4>1. ReservedRegions = MapRegions(mbInfo, FALSE)
        BY <3>3 DEF ReservedRegions
      <4>2. UsedPosition = pos /\ reservedNode # size + 1
        <5>1. CASE usedState = "reset"
          <6>1. reservedNode = 0 /\ UsedPosition = 0
            BY <5>1 DEF UsedInv, UsedPlaces, UsedPosition, Null
          <6>2. MemmapPosition(mbInfo, FALSE, 0) = 0
            BY <1>5, PositionOfNull
          <6>3. 0 # size + 1
            BY <1>3
          <6> QED BY <6>1, <6>2, <6>3
        <5>2. CASE usedState = "onFirst"
          BY <1>3, <5>2 DEF UsedInv, UsedPlaces, UsedPosition, IsValidMemmapNode, size
        <5> QED BY <2>2, <5>1, <5>2
      <4>3. /\ first \in 1 .. size + 1 /\ pos \in 0 .. r + 1 /\ pos # r + 1
            /\ nextPos = IF pos = r + 1 THEN pos ELSE pos + 1
            /\ IsValidMemmapNode(mbInfo, first) <=> nextPos # r + 1
        BY <1>5, <3>1, <3>3, <4>1, <4>2, MemmapMoves DEF r, size
      <4> HIDE DEF first, pos, nextPos, onFirst
      <4>4. nextPos = r + 1
        BY <3>1, <4>3
      <4>5. pos = r /\ first \in 0 .. size + 1
        BY <1>1, <1>3, <4>3, <4>4
      <4> QED BY <1>1, <3>2, <4>2, <4>5
    <3>4. CASE ~ mbInfo.memMapPresent
      <4>1. r = 0
        BY <3>4 DEF r, ReservedRegions
      <4>2. usedState = "reset" /\ UsedPosition = 0
        BY <2>2, <3>4 DEF UsedInv, UsedPlaces, IsValidMemmapNode, UsedPosition
      <4>3. first = reservedNode
        BY <3>1, <3>4 DEF MemmapMoved
      <4>4. first \in 0 .. size + 1
        BY <4>3 DEF size
      <4> HIDE DEF first
      <4> QED BY <3>2, <4>1, <4>2, <4>4
    <3> QED BY <3>3, <3>4
  <2> QED BY <1>7, <2>1, <2>2
<1>8. ASSUME ~ onFirst, usedState \in {"reset", "onFirst", "onSecond"}
      PROVE  Goal /\ usedState' \in {"onSecond", "pastEnd"}
  <2>1. usedState # "pastEnd"
    BY <1>8
  <2>2. /\ reservedNode' = first /\ module' = ModuleMoved(mbInfo, module)
        /\ usedState' = IF IsOnModule(module') THEN "onSecond" ELSE "pastEnd"
    BY <1>8, <2>1, Zenon DEF MoveUsed
  <2>3. /\ UsedPosition = r + ModulePosition /\ first \in 0 .. size + 1
        /\ module.state # "pastEnd"
    BY <1>7, <1>8
  <2> HIDE DEF first, onFirst
  <2>4. /\ module' \in ModuleStates /\ module'.index \in 0 .. Len(mbInfo.mods) /\ ModuleInv'
        /\ ModulePosition \in 0 .. m
        /\ ModulePosition' = ModulePosition + 1
        /\ IsOnModule(module') <=> ModulePosition' # m + 1
        /\ IsOnModule(module')
                   => ModuleCurrent(mbInfo, module') = ModuleRegions[ModulePosition']
    BY <2>2, <2>3, ModuleMoves DEF m
  <2>5. reservedNode' \in 0 .. size + 1
    BY <2>2, <2>3
  <2>6. CASE IsOnModule(module')
    <3>1. usedState' = "onSecond"
      BY <2>2, <2>6
    <3>2. UsedPosition' = r + ModulePosition'
      BY <1>2, <3>1 DEF UsedPosition, r
    <3>3. UsedCurrent' = ModuleCurrent(mbInfo, module')
      BY <3>1 DEF UsedCurrent
    <3>4. UsedPlaces'
      BY <2>6, <3>1 DEF UsedInv, UsedPlaces
    <3>5. ModulePosition' \in 1 .. m
      BY <1>1, <2>4, <2>6
    <3>6. /\ UsedPosition' = UsedPosition + 1 /\ UsedPosition # U + 1 /\ UsedPosition' # U + 1
          /\ UsedPosition \in 0 .. U + 1
      <4> DEFINE q == ModulePosition
      <4>1. /\ UsedPosition = r + q /\ UsedPosition' = r + (q + 1)
            /\ q \in 0 .. m /\ q + 1 \in 1 .. m /\ q \in Nat
        BY <2>3, <2>4, <3>2, <3>5
      <4> HIDE DEF q
      <4> QED BY <1>1, <4>1
    <3>7. UsedCurrent' = UsedRegions[UsedPosition']
      BY <1>1, <2>4, <2>6, <3>2, <3>3, <3>5
    <3> QED BY <2>4, <2>5, <3>1, <3>4, <3>6, <3>7
  <2>7. CASE ~ IsOnModule(module')
    <3>1. usedState' = "pastEnd"
      BY <2>2, <2>7
    <3>2. UsedPosition' = r + m + 1
      BY <1>2, <3>1 DEF UsedPosition, r, m
    <3>3. UsedPlaces'
      BY <3>1 DEF UsedInv, UsedPlaces
    <3>4. ModulePosition = m
      BY <1>1, <2>4, <2>7
    <3>5. /\ UsedPosition' = UsedPosition + 1 /\ UsedPosition # U + 1 /\ UsedPosition' = U + 1
          /\ UsedPosition \in 0 .. U + 1
      BY <1>1, <2>3, <3>2, <3>4
    <3> QED BY <2>4, <2>5, <3>1, <3>3, <3>5
  <2> QED BY <2>6, <2>7
<1>9. ASSUME usedState = "pastEnd" PROVE Goal /\ usedState' = "pastEnd"
  <2>1. ~ onFirst
    BY <1>9
  <2>2. reservedNode' = reservedNode /\ module' = module /\ usedState' = "pastEnd"
    BY <1>9, <2>1 DEF MoveUsed
  <2>3. UsedPosition = r + m + 1 /\ UsedPosition' = r + m + 1
    BY <1>2, <1>9, <2>2 DEF UsedPosition, r, m
  <2>4. UsedPlaces' /\ ModuleInv'
    BY <2>2 DEF UsedInv, UsedPlaces, ModuleInv
  <2> HIDE DEF first, onFirst
  <2> QED BY <1>1, <2>2, <2>3, <2>4 DEF size
<1>10. Goal /\ usedState' \in {"reset", "onFirst", "onSecond", "pastEnd"}
  <2> HIDE DEF Goal, onFirst
  <2> QED BY <1>6, <1>8, <1>9
<1>11. /\ usedMoved' \in BOOLEAN
       /\ usedMoved' <=> UsedPosition' # U + 1
       /\ usedMoved' => UsedCurrent' = UsedRegions[UsedPosition']
  BY <1>4, <1>10, Zenon
<1>12. UsedInv'
  <2>1. usedMoved' <=> usedState' # "pastEnd"
    BY <1>4, Zenon
  <2> HIDE DEF UsedPlaces
  <2> QED BY <1>10, <2>1 DEF UsedInv
<1> QED BY <1>10, <1>11, <1>12 DEF U, size
-----------------------------------------------------------------------------
(* Steps of the manager and of others are steps of the lists.              *)

Typed == TypeOK /\ RamInv /\ ModuleInv /\ UsedInv

LEMMA RamResets ==
  ASSUME mbInfo \in BootInfos, mbInfo' = mbInfo, ResetRam
  PROVE  RamPosition' = 0 /\ RamRegions' = RamRegions /\ ramMoved' = FALSE
<1>1. FALSE \in BOOLEAN /\ TRUE \in BOOLEAN
  OBVIOUS
<1>2. RamRegions' = RamRegions
  BY DEF RamRegions
<1>3. CASE mbInfo.memMapPresent
  <2>1. ramNode' = 0 /\ RamPosition' = MemmapPosition(mbInfo, TRUE, ramNode')
    BY <1>3 DEF ResetRam, Null, RamPosition
  <2> QED BY <1>1, <1>2, <2>1, PositionOfNull DEF ResetRam
<1>4. CASE ~ mbInfo.memMapPresent
  <2>1. ramField' = "reset"
    BY <1>4 DEF ResetRam
  <2> QED BY <1>2, <1>4, <2>1 DEF ResetRam, RamPosition
<1> QED BY <1>3, <1>4

LEMMA RamSteps ==
  ASSUME TypeOK, RamInv, mbInfo' = mbInfo, ResetRam \/ MoveRam \/ UNCHANGED ram
  PROVE  /\ ramNode' \in 0 .. Len(mbInfo.map) + 1 /\ ramField' \in FieldStates
         /\ ramMoved' \in BOOLEAN /\ RamInv'
<1>1. CASE ResetRam
  <2>1. Len(mbInfo.map) \in Nat
    BY BootInfoFacts DEF TypeOK
  <2>2. (ramNode' = 0 \/ ramNode' = ramNode) /\ (ramField' = "reset" \/ ramField' = ramField)
    BY <1>1 DEF ResetRam, Null
  <2>3. ramNode' \in 0 .. Len(mbInfo.map) + 1
    BY <2>1, <2>2 DEF TypeOK
  <2>4. ramField' \in FieldStates /\ RamInv'
    BY <2>2 DEF TypeOK, RamInv, FieldStates, IsOnField
  <2>5. ramMoved' \in BOOLEAN
    BY <1>1 DEF ResetRam
  <2> QED BY <2>3, <2>4, <2>5
<1>2. CASE MoveRam
  BY <1>2, RamMoves DEF TypeOK
<1>3. CASE UNCHANGED ram
  BY <1>3 DEF ram, TypeOK, RamInv
<1> QED BY <1>1, <1>2, <1>3

(* The lists move only by their own operations, and the used memory is     *)
(* walked only by the second loop of initCurrentRegion().                  *)
LEMMA ListSteps ==
  ASSUME Typed, [Next]_vars
  PROVE  /\ mbInfo' = mbInfo
         /\ ResetRam \/ MoveRam \/ UNCHANGED ram
         /\ \/ pc' = "reserve" /\ ResetUsed
            \/ pc = "reserve" /\ MoveUsed /\ (pc' # "reserve" => ~ usedMoved')
            \/ UNCHANGED used /\ (pc' # "reserve" => pc # "reserve")
            \/ /\ pc = "boot" /\ pc' = "boot" /\ UNCHANGED <<usedState, usedMoved>>
               /\ \/ WalkReserved /\ UNCHANGED module
                  \/ WalkModules /\ UNCHANGED reservedNode
<1>1. CASE UNCHANGED vars
  BY <1>1 DEF vars, ram, used
<1>2. CASE BootWalk
  BY <1>2 DEF BootWalk, ram, used
<1>3. CASE StageOneBegin
  BY <1>3 DEF StageOneBegin, used
<1>4. CASE StageOneRegion
  BY <1>4 DEF StageOneRegion, used
<1>5. CASE StageOneEnd
  BY <1>5 DEF StageOneEnd, used, Typed, UsedInv
<1>6. CASE GetCurrentAsserts
  BY <1>6 DEF GetCurrentAsserts, ram, used
<1>7. CASE FillBegin
  BY <1>7 DEF FillBegin, used
<1>8. CASE FreeRegion
  BY <1>8 DEF FreeRegion, used
<1>9. CASE FreeEnd
  BY <1>9 DEF FreeEnd, used
<1>10. CASE ReserveRegion
  BY <1>10 DEF ReserveRegion, ram
<1>11. CASE ReserveEnd
  BY <1>11 DEF ReserveEnd, ram
<1>12. CASE NextWindow
  BY <1>12 DEF NextWindow, ram, used
<1> QED BY <1>1, <1>2, <1>3, <1>4, <1>5, <1>6, <1>7, <1>8, <1>9, <1>10, <1>11, <1>12 DEF Next, Fill

LEMMA UsedSteps ==
  ASSUME Typed, [Next]_vars
  PROVE  /\ reservedNode' \in 0 .. Len(mbInfo.map) + 1 /\ module' \in ModuleStates
         /\ module'.index \in 0 .. Len(mbInfo.mods)
         /\ usedState' \in {"reset", "onFirst", "onSecond", "pastEnd"}
         /\ usedMoved' \in BOOLEAN /\ ModuleInv' /\ UsedInv'
<1> DEFINE Goal == /\ reservedNode' \in 0 .. Len(mbInfo.map) + 1 /\ module' \in ModuleStates
                   /\ module'.index \in 0 .. Len(mbInfo.mods)
                   /\ usedState' \in {"reset", "onFirst", "onSecond", "pastEnd"}
                   /\ usedMoved' \in BOOLEAN /\ ModuleInv' /\ UsedInv'
<1>1. mbInfo' = mbInfo /\ mbInfo \in BootInfos
  BY ListSteps DEF Typed, TypeOK
<1>2. Len(mbInfo.map) \in Nat /\ Len(mbInfo.mods) \in Nat
  BY <1>1, BootInfoFacts
<1>3. ModuleReset \in ModuleStates /\ ModuleReset.index = 0 /\ ModuleReset.state = "reset"
  BY DEF ModuleReset, ModuleStates
<1>4. ASSUME pc' = "reserve", ResetUsed PROVE Goal
  <2>1. reservedNode' = 0 /\ module' = ModuleReset /\ usedState' = "reset" /\ usedMoved' = FALSE
    BY <1>4 DEF ResetUsed, Null
  <2>2. ModuleInv' /\ UsedInv'
    BY <1>3, <1>4, <2>1 DEF ModuleInv, UsedInv, UsedPlaces, Null
  <2>3. reservedNode' \in 0 .. Len(mbInfo.map) + 1 /\ module'.index \in 0 .. Len(mbInfo.mods)
    BY <1>2, <1>3, <2>1
  <2>4. usedState' \in {"reset", "onFirst", "onSecond", "pastEnd"} /\ usedMoved' \in BOOLEAN
    BY <2>1
  <2> QED BY <1>3, <2>1, <2>2, <2>3, <2>4
<1>5. ASSUME MoveUsed, pc' # "reserve" => ~ usedMoved' PROVE Goal
  BY <1>1, <1>5, UsedMoves DEF Typed, TypeOK
<1>6. ASSUME UNCHANGED used, pc' # "reserve" => pc # "reserve" PROVE Goal
  <2>1. UNCHANGED <<reservedNode, module, usedState, usedMoved>>
    BY <1>6 DEF used
  <2>2. UsedInv'
    BY <1>1, <1>6, <2>1 DEF Typed, UsedInv, UsedPlaces
  <2> QED BY <1>1, <2>1, <2>2 DEF Typed, TypeOK, ModuleInv
<1>7. ASSUME pc = "boot", pc' = "boot", UNCHANGED <<usedState, usedMoved>>,
             WalkReserved, UNCHANGED module
      PROVE  Goal
  <2> DEFINE next == MemmapMoved(mbInfo, FALSE, reservedNode)
             size == Len(mbInfo.map)
  <2>0. reservedNode \in 0 .. size + 1 /\ size \in Nat
    BY <1>2 DEF Typed, TypeOK
  <2>1. next \in 0 .. size + 1
    <3>1. CASE mbInfo.memMapPresent
      <4>1. FALSE \in BOOLEAN
        OBVIOUS
      <4>2. next \in 1 .. size + 1
        BY <1>1, <2>0, <3>1, <4>1, MemmapMoves
      <4> HIDE DEF next, size
      <4> QED BY <2>0, <4>2
    <3>2. CASE ~ mbInfo.memMapPresent
      BY <2>0, <3>2 DEF MemmapMoved
    <3> QED BY <3>1, <3>2
  <2>2. reservedNode' \in 0 .. size + 1
    <3>1. reservedNode' = 0 \/ reservedNode' = next
      BY <1>7 DEF WalkReserved, Null
    <3> HIDE DEF next, size
    <3> QED BY <2>0, <2>1, <3>1
  <2>3. UsedInv'
    BY <1>7 DEF Typed, UsedInv, UsedPlaces
  <2> QED BY <1>1, <1>7, <2>2, <2>3 DEF Typed, TypeOK, ModuleInv
<1>8. ASSUME pc = "boot", pc' = "boot", UNCHANGED <<usedState, usedMoved>>,
             WalkModules, UNCHANGED reservedNode
      PROVE  Goal
  <2>1. module' \in ModuleStates /\ module'.index \in 0 .. Len(mbInfo.mods) /\ ModuleInv'
    <3>1. CASE module' = ModuleReset
      BY <1>2, <1>3, <3>1 DEF ModuleInv
    <3>2. CASE module' = ModuleMoved(mbInfo, module)
      BY <1>1, <3>2, ModuleMoves DEF Typed, TypeOK
    <3> QED BY <1>8, <3>1, <3>2 DEF WalkModules
  <2>2. UsedInv'
    BY <1>8 DEF Typed, UsedInv, UsedPlaces
  <2> QED BY <1>8, <2>1, <2>2 DEF Typed, TypeOK
<1> HIDE DEF Goal
<1>9. Goal
  BY <1>4, <1>5, <1>6, <1>7, <1>8, ListSteps
<1> QED BY <1>9 DEF Goal

LEMMA RamAdvances ==
  ASSUME Typed, MoveRam, ramMoved', mbInfo' = mbInfo
  PROVE  /\ RamPosition' = RamPosition + 1 /\ RamPosition' \in DOMAIN RamRegions
         /\ RamCurrent' = RamRegions[RamPosition'] /\ RamCurrent' \in AnyRegion
         /\ RamPosition \in Nat
<1>1. /\ RamPosition \in 0 .. Len(RamRegions) + 1
      /\ RamPosition' = IF RamPosition = Len(RamRegions) + 1
                             THEN RamPosition ELSE RamPosition + 1
      /\ RamPosition' # Len(RamRegions) + 1
      /\ RamCurrent' = RamRegions[RamPosition']
  BY RamMoves DEF Typed, TypeOK
<1>2. /\ RamRegions \in Seq(AnyRegion) /\ Len(RamRegions) \in Nat
      /\ DOMAIN RamRegions = 1 .. Len(RamRegions)
  BY RamRegionsType DEF Typed, TypeOK
<1>3. RamPosition' \in 1 .. Len(RamRegions) /\ RamPosition \in Nat
  BY <1>1, <1>2
<1>4. RamRegions[RamPosition'] \in AnyRegion
  BY <1>2, <1>3, ElementOfSeq
<1> QED BY <1>1, <1>2, <1>3, <1>4

(* A loop over the RAM ends when it has come past all of it.               *)
LEMMA RamEnds ==
  ASSUME Typed, MoveRam, ~ ramMoved', mbInfo' = mbInfo
  PROVE  \A i \in DOMAIN RamRegions : i <= RamPosition
<1>1. /\ RamPosition' = IF RamPosition = Len(RamRegions) + 1
                             THEN RamPosition ELSE RamPosition + 1
      /\ RamPosition' = Len(RamRegions) + 1
      /\ RamPosition \in 0 .. Len(RamRegions) + 1
  BY RamMoves DEF Typed, TypeOK
<1>2. DOMAIN RamRegions = 1 .. Len(RamRegions) /\ Len(RamRegions) \in Nat
  BY RamRegionsType DEF Typed, TypeOK
<1> QED BY <1>1, <1>2

LEMMA UsedAdvances ==
  ASSUME Typed, MoveUsed, usedMoved', pc' = "reserve", mbInfo' = mbInfo
  PROVE  /\ UsedPosition' = UsedPosition + 1 /\ UsedPosition' \in DOMAIN UsedRegions
         /\ UsedCurrent' = UsedRegions[UsedPosition'] /\ UsedCurrent' \in AnyRegion
         /\ UsedPosition \in Nat
<1>1. /\ UsedPosition \in 0 .. Len(UsedRegions) + 1
      /\ UsedPosition' = IF UsedPosition = Len(UsedRegions) + 1
                             THEN UsedPosition ELSE UsedPosition + 1
      /\ UsedPosition' # Len(UsedRegions) + 1
      /\ UsedCurrent' = UsedRegions[UsedPosition']
  BY UsedMoves DEF Typed, TypeOK
<1>2. /\ UsedRegions \in Seq(AnyRegion) /\ Len(UsedRegions) \in Nat
      /\ DOMAIN UsedRegions = 1 .. Len(UsedRegions)
  BY UsedRegionsFacts, LenProperties DEF Typed, TypeOK
<1>3. UsedPosition' \in 1 .. Len(UsedRegions) /\ UsedPosition \in Nat
  BY <1>1, <1>2
<1>4. UsedRegions[UsedPosition'] \in AnyRegion
  BY <1>2, <1>3, ElementOfSeq
<1> QED BY <1>1, <1>2, <1>3, <1>4

LEMMA UsedEnds ==
  ASSUME Typed, MoveUsed, ~ usedMoved', mbInfo' = mbInfo
  PROVE  \A i \in DOMAIN UsedRegions : i <= UsedPosition
<1>1. /\ UsedPosition' = IF UsedPosition = Len(UsedRegions) + 1
                             THEN UsedPosition ELSE UsedPosition + 1
      /\ UsedPosition' = Len(UsedRegions) + 1
      /\ UsedPosition \in 0 .. Len(UsedRegions) + 1
  BY UsedMoves DEF Typed, TypeOK
<1>2. DOMAIN UsedRegions = 1 .. Len(UsedRegions) /\ Len(UsedRegions) \in Nat
  BY UsedRegionsFacts, LenProperties DEF Typed, TypeOK
<1> QED BY <1>1, <1>2

(* The first window is a region, and so is every other.                    *)
LEMMA FirstWindowType == Create(0, WindowSize) \in Regions
<1>1. /\ MaxPhysAddr \in Nat /\ PageSize \in Nat \ {0} /\ NumBlocks \in Nat \ {0}
      /\ BitsPerBlock \in Nat \ {0}
  BY WindowAssumption, PhysAddrAssumption
<1>2. WindowFrames \in Nat \ {0}
  BY <1>1 DEF WindowFrames
<1>3. WindowSize \in Nat \ {0}
  BY <1>1, <1>2 DEF WindowSize
<1> DEFINE w == WindowSize
           n == MaxPhysAddr + 1
<1>4. w \in Nat \ {0} /\ n \in Nat \ {0} /\ n % w = 0
  BY <1>1, <1>3, WindowAssumption
<1> HIDE DEF w, n
<1>5. w <= n
  BY <1>4
<1>6. 0 \in PhysAddrs /\ w - 1 \in PhysAddrs
  BY <1>1, <1>4, <1>5 DEF PhysAddrs, n
<1>7. Create(0, w) = [base |-> 0, last |-> w - 1]
  BY <1>4, <1>6, WrapSmall DEF Create
<1> QED BY <1>4, <1>6, <1>7, RegionIntro DEF w

(* Only frames of the window are freed in it.                              *)
LEMMA FramesInType ==
  ASSUME NEW r \in AnyRegion, NEW win \in Regions
  PROVE  FramesIn(r, win) \subseteq 0 .. FrameNumber(MaxPhysAddr)
<1> DEFINE c == Clipped(PageAligned(r), win)
<1>1. /\ win.base \in Nat /\ win.last \in Nat /\ win.last <= MaxPhysAddr
      /\ MaxPhysAddr \in Nat /\ PageSize \in Nat \ {0}
  BY PhysAddrAssumption, RegionFields DEF PhysAddrs
<1>2. r.base \in Nat /\ r.last \in Nat
  BY PhysAddrAssumption DEF AnyRegion, PhysAddrs
<1>3. PageAligned(r).base \in Nat
  <2>1. AlignToFrame(r.base) \in Nat
    BY <1>2, PageDivMod, PagesOrdered
  <2> QED BY <2>1 DEF PageAligned
<1>4. PageAligned(r).last \in Nat
  <2>1. \A n \in Int : Wrap(n) \in Nat
    BY <1>1 DEF Wrap
  <2>2. AlignToFrame(Wrap(r.last + PageSize)) - 1 \in Int
    <3>1. Wrap(r.last + PageSize) \in Nat
      BY <1>1, <1>2, <2>1
    <3> DEFINE next == Wrap(r.last + PageSize)
    <3> HIDE DEF next
    <3>2. AlignToFrame(next) \in Nat
      BY <3>1, PageDivMod, PagesOrdered DEF next
    <3> QED BY <3>2 DEF next
  <2>3. Wrap(AlignToFrame(Wrap(r.last + PageSize)) - 1) \in Nat
    BY <2>1, <2>2
  <2> QED BY <1>1, <2>3 DEF PageAligned
<1>5. c.base \in Nat /\ c.last \in Nat /\ c.last <= MaxPhysAddr
  BY <1>1, <1>3, <1>4 DEF Clipped
<1> HIDE DEF c
<1>6. FrameNumber(c.base) \in Nat /\ FrameNumber(c.last) <= FrameNumber(MaxPhysAddr)
  BY <1>1, <1>5, FramesMonotone, PageDivMod
<1>7. FrameNumber(c.last) \in Nat /\ FrameNumber(MaxPhysAddr) \in Nat
  BY <1>1, <1>5, PageDivMod
<1> QED BY <1>6, <1>7 DEF FramesIn, FramesOf, c

LEMMA TypeStep ==
  ASSUME Typed, [Next]_vars
  PROVE  Typed'
<1>1. mbInfo' = mbInfo /\ mbInfo \in BootInfos
  BY ListSteps DEF Typed, TypeOK
<1>2. /\ ramNode' \in 0 .. Len(mbInfo.map) + 1 /\ ramField' \in FieldStates
      /\ ramMoved' \in BOOLEAN /\ RamInv'
  BY ListSteps, RamSteps DEF Typed
<1>3. pc' \in {"boot", "walk", "fill", "free", "reserve", "ready"}
  BY DEF Typed, TypeOK, Next, vars, BootWalk, StageOneBegin, StageOneRegion, StageOneEnd,
         GetCurrentAsserts, Fill, FillBegin, FreeRegion, FreeEnd, ReserveRegion, ReserveEnd,
         NextWindow
<1>4. crashed' \in BOOLEAN
  BY DEF Typed, TypeOK, Next, vars, BootWalk, StageOneBegin, StageOneRegion, StageOneEnd,
         GetCurrentAsserts, Fill, FillBegin, FreeRegion, FreeEnd, ReserveRegion, ReserveEnd,
         NextWindow
<1>5. more' \in BOOLEAN
  BY DEF Typed, TypeOK, Next, vars, BootWalk, StageOneBegin, StageOneRegion, StageOneEnd,
         GetCurrentAsserts, Fill, FillBegin, FreeRegion, FreeEnd, ReserveRegion, ReserveEnd,
         NextWindow, watermark
<1>6. highestAddr' \in PhysAddrs
  <2>1. CASE StageOneBegin
    BY <2>1, PhysAddrAssumption DEF StageOneBegin, PhysAddrs
  <2>2. CASE StageOneRegion
    <3>1. RamCurrent' \in AnyRegion
      BY <1>1, <2>2, RamAdvances DEF StageOneRegion
    <3>2. highestAddr' \in {highestAddr, RamCurrent'.last}
      BY <2>2 DEF StageOneRegion, Higher
    <3> QED BY <3>1, <3>2 DEF AnyRegion, Typed, TypeOK
  <2>3. CASE ~ (StageOneBegin \/ StageOneRegion)
    BY <2>3 DEF Typed, TypeOK, Next, vars, BootWalk, StageOneEnd, GetCurrentAsserts, Fill,
                FillBegin, FreeRegion, FreeEnd, ReserveRegion, ReserveEnd, NextWindow, stageOne
  <2> QED BY <2>1, <2>2, <2>3
<1>7. numFrames' \in Nat
  <2>1. CASE StageOneEnd
    <3>1. highestAddr \in Nat
      BY PhysAddrAssumption DEF Typed, TypeOK, PhysAddrs
    <3>2. FrameNumber(highestAddr) \in Nat
      BY <3>1, PageDivMod
    <3> QED BY <2>1, <3>2 DEF StageOneEnd
  <2>2. CASE ~ StageOneEnd
    BY <2>2 DEF Typed, TypeOK, Next, vars, BootWalk, StageOneBegin, StageOneRegion,
                GetCurrentAsserts, Fill, FillBegin, FreeRegion, FreeEnd, ReserveRegion,
                ReserveEnd, NextWindow, stageOne
  <2> QED BY <2>1, <2>2
<1>8. window' \in Regions
  <2>1. CASE StageOneEnd
    BY <2>1, FirstWindowType DEF StageOneEnd
  <2>2. CASE NextWindow
    BY <2>2, AdvanceFacts DEF NextWindow, Typed, TypeOK
  <2>3. CASE ~ (StageOneEnd \/ NextWindow)
    BY <2>3 DEF Typed, TypeOK, Next, vars, BootWalk, StageOneBegin, StageOneRegion,
                GetCurrentAsserts, Fill, FillBegin, FreeRegion, FreeEnd, ReserveRegion,
                ReserveEnd, watermark
  <2> QED BY <2>1, <2>2, <2>3
<1>9. free' \subseteq 0 .. FrameNumber(MaxPhysAddr)
  <2>1. CASE FreeRegion
    <3>1. RamCurrent' \in AnyRegion
      BY <1>1, <2>1, RamAdvances DEF FreeRegion
    <3>2. FramesIn(RamCurrent', window) \subseteq 0 .. FrameNumber(MaxPhysAddr)
      BY <3>1, FramesInType DEF Typed, TypeOK
    <3>3. free' \subseteq free \cup FramesIn(RamCurrent', window)
      BY <2>1 DEF FreeRegion
    <3> QED BY <3>2, <3>3 DEF Typed, TypeOK
  <2>2. CASE ~ FreeRegion
    <3>1. free' \subseteq free
      BY <2>2 DEF Next, vars, BootWalk, StageOneBegin, StageOneRegion, StageOneEnd,
                  GetCurrentAsserts, Fill, FillBegin, FreeEnd, ReserveRegion, ReserveEnd,
                  NextWindow, watermark
    <3> QED BY <3>1 DEF Typed, TypeOK
  <2> QED BY <2>1, <2>2
<1> QED BY <1>1, <1>2, <1>3, <1>4, <1>5, <1>6, <1>7, <1>8, <1>9, UsedSteps DEF Typed, TypeOK
-----------------------------------------------------------------------------
(* What the loops compute.                                                 *)

(* The highest address is in the highest frame.                            *)
LEMMA HighestFrame ==
  ASSUME mbInfo \in BootInfos, NEW high \in PhysAddrs,
         \A i \in DOMAIN RamRegions : RamRegions[i].last <= high,
         high = 0 \/ \E i \in DOMAIN RamRegions : high = RamRegions[i].last
  PROVE  LET frames == {FrameNumber(RamRegions[i].last) : i \in DOMAIN RamRegions} IN
         FrameNumber(high) = IF frames = {} THEN 0 ELSE Max(frames)
<1> DEFINE frames == {FrameNumber(RamRegions[i].last) : i \in DOMAIN RamRegions}
<1>1. \A i \in DOMAIN RamRegions : RamRegions[i].last \in PhysAddrs
  <2>1. /\ RamRegions \in Seq(AnyRegion) /\ DOMAIN RamRegions = 1 .. Len(RamRegions)
    BY RamRegionsType
  <2>2. \A i \in DOMAIN RamRegions : RamRegions[i] \in AnyRegion
    BY <2>1, ElementOfSeq
  <2> QED BY <2>2 DEF AnyRegion
<1>2. PhysAddrs \subseteq Nat /\ 0 \in PhysAddrs
  BY PhysAddrAssumption DEF PhysAddrs
<1>3. \A y \in frames : y \in Nat /\ y <= FrameNumber(high)
  <2> SUFFICES ASSUME NEW i \in DOMAIN RamRegions
               PROVE  /\ FrameNumber(RamRegions[i].last) \in Nat
                      /\ FrameNumber(RamRegions[i].last) <= FrameNumber(high)
    OBVIOUS
  <2>1. RamRegions[i].last \in Nat /\ high \in Nat /\ RamRegions[i].last <= high
    BY <1>1, <1>2
  <2> QED BY <2>1, FramesMonotone, PageDivMod
<1>4. FrameNumber(0) = 0
  BY PhysAddrAssumption DEF FrameNumber
<1>5. CASE frames = {}
  <2>1. ~ \E i \in DOMAIN RamRegions : TRUE
    BY <1>5
  <2> QED BY <1>4, <1>5, <2>1
<1>6. CASE frames # {}
  <2>1. FrameNumber(high) \in frames
    <3>1. CASE \E i \in DOMAIN RamRegions : high = RamRegions[i].last
      BY <3>1
    <3>2. CASE high = 0
      <4>1. PICK i \in DOMAIN RamRegions : TRUE
        BY <1>6
      <4>2. RamRegions[i].last \in Nat /\ RamRegions[i].last <= 0
        BY <1>1, <1>2, <3>2, <4>1
      <4>3. RamRegions[i].last = high
        BY <3>2, <4>2
      <4> QED BY <4>3
    <3> QED BY <3>1, <3>2
  <2>2. FrameNumber(high) \in Nat
    BY <1>3, <2>1
  <2> HIDE DEF frames
  <2>3. \A y \in frames : FrameNumber(high) >= y
    BY <1>3, <2>2
  <2>4. ASSUME NEW x \in frames, \A y \in frames : x >= y PROVE x = FrameNumber(high)
    BY <1>3, <2>1, <2>2, <2>4
  <2>5. Max(frames) = FrameNumber(high)
    BY <2>1, <2>3, <2>4 DEF Max
  <2> QED BY <1>6, <2>5 DEF frames
<1> QED BY <1>5, <1>6

LEMMA StageOneStep ==
  ASSUME IInv, [Next]_vars
  PROVE  StageOneInv' /\ StageOneResult'
<1>0. Typed /\ Typed'
  BY TypeStep DEF IInv, Typed
<1>1. mbInfo' = mbInfo /\ mbInfo \in BootInfos
  BY <1>0, ListSteps DEF Typed, TypeOK
<1>2. RamRegions' = RamRegions
  BY <1>1 DEF RamRegions
<1>3. CASE StageOneBegin
  <2>1. RamPosition' = 0 /\ highestAddr' = 0 /\ pc' = "walk"
    BY <1>1, <1>3, RamResets DEF StageOneBegin
  <2>2. \A i \in DOMAIN RamRegions : ~ (i <= 0)
    BY <1>1, RamRegionsType
  <2> QED BY <1>2, <2>1, <2>2 DEF StageOneInv, StageOneResult
<1>4. CASE StageOneRegion
  <2>1. pc' = "walk" /\ pc = "walk"
    BY <1>4 DEF StageOneRegion
  <2>2. SUFFICES ASSUME ~ crashed'
                 PROVE  /\ \A i \in DOMAIN RamRegions :
                             i <= RamPosition' => RamRegions[i].last <= highestAddr'
                        /\ \E i \in DOMAIN RamRegions : highestAddr' = RamRegions[i].last
                           \/ highestAddr' = 0
    BY <1>2, <2>1 DEF StageOneInv, StageOneResult
  <2>3. /\ \A i \in DOMAIN RamRegions : i <= RamPosition => RamRegions[i].last <= highestAddr
        /\ \/ highestAddr = 0
           \/ \E i \in DOMAIN RamRegions : highestAddr = RamRegions[i].last
    <3>1. ~ crashed
      BY <2>2 DEF Next, vars
    <3> QED BY <2>1, <3>1 DEF IInv, StageOneInv
  <2>4. /\ RamPosition' = RamPosition + 1 /\ RamPosition' \in DOMAIN RamRegions
        /\ RamCurrent' = RamRegions[RamPosition'] /\ RamPosition \in Nat
    BY <1>0, <1>1, <1>4, RamAdvances DEF StageOneRegion
  <2>5. highestAddr' = IF RamCurrent'.last > highestAddr THEN RamCurrent'.last ELSE highestAddr
    BY <1>4, <2>2 DEF StageOneRegion, Higher
  <2>6. /\ DOMAIN RamRegions = 1 .. Len(RamRegions) /\ Len(RamRegions) \in Nat
        /\ \A i \in DOMAIN RamRegions : RamRegions[i].last \in Nat
        /\ highestAddr \in Nat
    <3>1. /\ RamRegions \in Seq(AnyRegion) /\ Len(RamRegions) \in Nat
          /\ DOMAIN RamRegions = 1 .. Len(RamRegions)
      BY <1>1, RamRegionsType
    <3>2. \A i \in DOMAIN RamRegions : RamRegions[i] \in AnyRegion
      BY <3>1, ElementOfSeq
    <3> QED BY <1>0, <3>1, <3>2, PhysAddrAssumption DEF AnyRegion, PhysAddrs, Typed, TypeOK
  <2> DEFINE p == RamPosition
             q == RamPosition'
             h == highestAddr'
             last == RamRegions[q].last
  <2>7. h = IF last > highestAddr THEN last ELSE highestAddr
    BY <2>4, <2>5
  <2>8. q = p + 1 /\ q \in DOMAIN RamRegions /\ p \in Nat /\ last \in Nat
    BY <2>4, <2>6
  <2>9. \E i \in DOMAIN RamRegions : h = RamRegions[i].last \/ h = 0
    BY <2>3, <2>7, <2>8
  <2> HIDE DEF p, q, h
  <2>10. ASSUME NEW i \in DOMAIN RamRegions, i <= q PROVE RamRegions[i].last <= h
    <3>1. CASE i = q
      BY <2>6, <2>7, <2>8, <3>1
    <3>2. CASE i # q
      <4>1. i <= p
        BY <2>6, <2>8, <2>10, <3>2
      <4>2. RamRegions[i].last <= highestAddr
        BY <2>3, <4>1 DEF p
      <4> QED BY <2>6, <2>7, <2>8, <4>2
    <3> QED BY <3>1, <3>2
  <2> QED BY <2>9, <2>10 DEF q, h
<1>5. CASE StageOneEnd
  <2>1. pc = "walk" /\ pc' = "fill" /\ numFrames' = FrameNumber(highestAddr) + 1
        /\ MoveRam /\ ~ ramMoved'
    BY <1>5 DEF StageOneEnd
  <2>2. ~ crashed
    BY <1>5, <2>1 DEF Next, vars
  <2>3. \A i \in DOMAIN RamRegions : i <= RamPosition
    BY <1>0, <1>1, <2>1, RamEnds
  <2>4. /\ \A i \in DOMAIN RamRegions : RamRegions[i].last <= highestAddr
        /\ highestAddr = 0 \/ \E i \in DOMAIN RamRegions : highestAddr = RamRegions[i].last
    BY <2>1, <2>2, <2>3 DEF IInv, StageOneInv
  <2>5. highestAddr \in PhysAddrs
    BY <1>0 DEF Typed, TypeOK
  <2> DEFINE frames == {FrameNumber(RamRegions[i].last) : i \in DOMAIN RamRegions}
  <2>6. FrameNumber(highestAddr) = IF frames = {} THEN 0 ELSE Max(frames)
    BY <1>1, <2>4, <2>5, HighestFrame
  <2>7. FrameNumber(highestAddr) \in Nat
    BY <2>5, PhysAddrAssumption, PageDivMod DEF PhysAddrs
  <2>8. numFrames' = 1 + IF frames = {} THEN 0 ELSE Max(frames)
    <3> HIDE DEF frames
    <3> QED BY <2>1, <2>6, <2>7
  <2> QED BY <1>2, <2>1, <2>8 DEF StageOneInv, StageOneResult
<1>6. CASE pc = "walk" /\ ~ (StageOneRegion \/ StageOneEnd)
  <2>1. UNCHANGED vars
    BY <1>6 DEF Next, BootWalk, GetCurrentAsserts, StageOneBegin, Fill, FillBegin, FreeRegion,
                FreeEnd, ReserveRegion, ReserveEnd, NextWindow
  <2>2. UNCHANGED <<mbInfo, ramNode, ramField, crashed, pc, highestAddr, numFrames>>
    BY <2>1 DEF vars, ram, stageOne
  <2>3. RamPosition' = RamPosition
    BY <1>2, <2>2 DEF RamPosition
  <2> QED BY <1>2, <1>6, <2>2, <2>3 DEF IInv, StageOneInv, StageOneResult
<1>7. CASE pc # "walk" /\ ~ StageOneBegin
  <2>1. /\ pc' # "walk" /\ numFrames' = numFrames
        /\ pc' \notin {"boot", "walk"} => pc \notin {"boot", "walk"}
    BY <1>7 DEF Next, vars, BootWalk, GetCurrentAsserts, StageOneRegion, StageOneEnd, Fill,
                FillBegin, FreeRegion, FreeEnd, ReserveRegion, ReserveEnd, NextWindow, stageOne
  <2> QED BY <1>2, <2>1 DEF IInv, StageOneInv, StageOneResult
<1> QED BY <1>3, <1>4, <1>5, <1>6, <1>7

(* The frames of the regions come past, one region after the other.        *)
LEMMA FramesUpToNext ==
  ASSUME NEW regions \in Seq(AnyRegion), NEW win
  PROVE  /\ FramesUpTo(regions, win, 0) = {}
         /\ \A n \in Nat : n + 1 \in DOMAIN regions =>
              FramesUpTo(regions, win, n + 1)
                = FramesUpTo(regions, win, n) \cup FramesIn(regions[n + 1], win)
         /\ \A n \in Nat : (\A i \in DOMAIN regions : i <= n) =>
              FramesUpTo(regions, win, n) = FramesOfAll(regions, win)
<1>1. DOMAIN regions \subseteq Nat \ {0}
  BY LenProperties
<1>2. FramesUpTo(regions, win, 0) = {}
  BY <1>1 DEF FramesUpTo
<1>3. ASSUME NEW n \in Nat, n + 1 \in DOMAIN regions
      PROVE  FramesUpTo(regions, win, n + 1)
                = FramesUpTo(regions, win, n) \cup FramesIn(regions[n + 1], win)
  <2>1. \A j \in DOMAIN regions : j <= n + 1 <=> j <= n \/ j = n + 1
    BY <1>1
  <2>2. {j \in DOMAIN regions : j <= n + 1} = {j \in DOMAIN regions : j <= n} \cup {n + 1}
    BY <1>3, <2>1
  <2> QED BY <2>2 DEF FramesUpTo
<1>4. ASSUME NEW n \in Nat, \A i \in DOMAIN regions : i <= n
      PROVE  FramesUpTo(regions, win, n) = FramesOfAll(regions, win)
  <2>1. {j \in DOMAIN regions : j <= n} = DOMAIN regions
    BY <1>4
  <2> QED BY <2>1 DEF FramesUpTo, FramesOfAll
<1> QED BY <1>2, <1>3, <1>4

(* What is neither in the window nor above it has no frames in it.         *)
LEMMA BelowHasNone ==
  ASSUME NEW regions, NEW win, \A i \in DOMAIN regions : ~ Reaches(regions[i], win)
  PROVE  FramesOfAll(regions, win) = {}
<1>1. \A i \in DOMAIN regions : FramesIn(regions[i], win) = {}
  BY DEF FramesIn, Reaches
<1> QED BY <1>1 DEF FramesOfAll

LEMMA FillStep ==
  ASSUME IInv, [Next]_vars
  PROVE  FillInv'
<1>0. Typed /\ FillInv
  BY DEF IInv, Typed
<1>1. mbInfo' = mbInfo /\ mbInfo \in BootInfos
  BY <1>0, ListSteps DEF Typed, TypeOK
<1>2. RamRegions' = RamRegions /\ UsedRegions' = UsedRegions
  BY <1>1 DEF RamRegions, UsedRegions, ReservedRegions, ModuleRegions
<1>3. RamRegions \in Seq(AnyRegion) /\ UsedRegions \in Seq(AnyRegion)
  BY <1>1, RamRegionsType, UsedRegionsFacts
<1>4. DOMAIN RamRegions \subseteq Nat \ {0}
  BY <1>3, LenProperties
<1> DEFINE Freed(n) == FramesUpTo(RamRegions, window, n)
           InUse(n) == FramesUpTo(UsedRegions, window, n)
           AllRam == FramesOfAll(RamRegions, window)
           AllUsed == FramesOfAll(UsedRegions, window)
           InReach(n) == \E i \in DOMAIN RamRegions : i <= n /\ Reaches(RamRegions[i], window)
<1>5. CASE FillBegin
  <2>1. /\ pc' = "free" /\ free' = {} /\ more' = FALSE /\ window' = window
        /\ RamPosition' = 0
    BY <1>1, <1>5, RamResets DEF FillBegin
  <2>2. FramesUpTo(RamRegions, window, 0) = {}
    BY <1>3, FramesUpToNext
  <2>3. \A i \in DOMAIN RamRegions : ~ (i <= 0)
    BY <1>4
  <2> QED BY <1>2, <2>1, <2>2, <2>3 DEF FillInv, WindowFilled
<1>6. CASE FreeRegion
  <2>1. pc = "free" /\ pc' = "free" /\ window' = window /\ MoveRam /\ ramMoved'
    BY <1>6 DEF FreeRegion
  <2>2. SUFFICES ASSUME ~ crashed'
                 PROVE  /\ free' = FramesUpTo(RamRegions, window, RamPosition')
                        /\ more' <=> InReach(RamPosition')
    BY <1>2, <2>1 DEF FillInv, WindowFilled
  <2>3. /\ free' = free \cup FramesIn(RamCurrent', window)
        /\ more' = (more \/ Reaches(RamCurrent', window))
    BY <1>6, <2>2 DEF FreeRegion
  <2>4. ~ crashed
    BY <1>6, <2>2 DEF Next, vars
  <2>5. free = Freed(RamPosition) /\ (more <=> InReach(RamPosition))
    BY <1>0, <2>1, <2>4 DEF FillInv
  <2>6. /\ RamPosition' = RamPosition + 1 /\ RamPosition' \in DOMAIN RamRegions
        /\ RamCurrent' = RamRegions[RamPosition'] /\ RamPosition \in Nat
    BY <1>0, <1>1, <2>1, RamAdvances
  <2>7. Freed(RamPosition + 1)
          = Freed(RamPosition) \cup FramesIn(RamRegions[RamPosition + 1], window)
    BY <1>3, <2>6, FramesUpToNext
  <2>8. free' = FramesUpTo(RamRegions, window, RamPosition')
    BY <2>3, <2>5, <2>6, <2>7
  <2>9. \A i \in DOMAIN RamRegions :
          i <= RamPosition + 1 <=> i <= RamPosition \/ i = RamPosition + 1
    BY <1>4, <2>6
  <2>10. InReach(RamPosition + 1)
           <=> InReach(RamPosition) \/ Reaches(RamRegions[RamPosition + 1], window)
    BY <2>6, <2>9
  <2>11. more' <=> more \/ Reaches(RamCurrent', window)
    BY <2>3, Zenon
  <2>12. more' <=> InReach(RamPosition + 1)
    <3> HIDE DEF InReach
    <3> QED BY <2>5, <2>6, <2>10, <2>11
  <2> QED BY <2>6, <2>8, <2>12
<1>7. CASE FreeEnd
  <2>1. pc = "free" /\ window' = window /\ MoveRam /\ ~ ramMoved' /\ free' = free
    BY <1>7 DEF FreeEnd, watermark
  <2>2. ~ crashed
    <3>1. pc' # "free"
      BY <1>7 DEF FreeEnd
    <3> QED BY <2>1, <3>1 DEF Next, vars
  <2>3. \A i \in DOMAIN RamRegions : i <= RamPosition
    BY <1>0, <1>1, <2>1, RamEnds
  <2>4. RamPosition \in Nat
    <3>1. RamPosition \in 0 .. Len(RamRegions) + 1
      BY <1>0, <1>1, <2>1, RamMoves DEF Typed, TypeOK
    <3> QED BY <3>1
  <2>5. free = AllRam /\ (more <=> InReach(RamPosition))
    <3>1. Freed(RamPosition) = AllRam
      BY <1>3, <2>3, <2>4, FramesUpToNext
    <3> QED BY <1>0, <2>1, <2>2, <3>1 DEF FillInv
  <2>6. CASE more
    <3>1. pc' = "reserve" /\ UsedPosition' = 0
      BY <1>7, <2>6 DEF FreeEnd, ResetUsed, UsedPosition
    <3>2. FramesUpTo(UsedRegions, window, 0) = {}
      BY <1>3, FramesUpToNext
    <3>3. AllRam = AllRam \ FramesUpTo(UsedRegions, window, 0)
      BY <3>2
    <3> QED BY <1>2, <2>1, <2>5, <3>1, <3>3 DEF FillInv, WindowFilled
  <2>7. CASE ~ more
    <3>1. pc' = "ready"
      BY <1>7, <2>7 DEF FreeEnd
    <3>2. \A i \in DOMAIN RamRegions : ~ Reaches(RamRegions[i], window)
      BY <2>3, <2>5, <2>7
    <3>3. AllRam = {}
      BY <3>2, BelowHasNone
    <3>4. free' = AllRam \ AllUsed
      BY <2>1, <2>5, <3>3
    <3> QED BY <1>2, <2>1, <3>1, <3>4 DEF FillInv, WindowFilled
  <2> QED BY <2>6, <2>7
<1>8. CASE ReserveRegion
  <2>1. /\ pc = "reserve" /\ pc' = "reserve" /\ window' = window /\ MoveUsed /\ usedMoved'
    BY <1>8 DEF ReserveRegion
  <2>2. SUFFICES ASSUME ~ crashed'
                 PROVE  free' = AllRam \ FramesUpTo(UsedRegions, window, UsedPosition')
    BY <1>2, <2>1 DEF FillInv, WindowFilled
  <2>3. free' = free \ FramesIn(UsedCurrent', window)
    BY <1>8, <2>2 DEF ReserveRegion
  <2>4. ~ crashed
    BY <1>8, <2>2 DEF Next, vars
  <2>5. free = AllRam \ InUse(UsedPosition)
    BY <1>0, <2>1, <2>4 DEF FillInv
  <2>6. /\ UsedPosition' = UsedPosition + 1 /\ UsedPosition' \in DOMAIN UsedRegions
        /\ UsedCurrent' = UsedRegions[UsedPosition'] /\ UsedPosition \in Nat
    BY <1>0, <1>1, <2>1, UsedAdvances
  <2>7. InUse(UsedPosition + 1)
          = InUse(UsedPosition) \cup FramesIn(UsedRegions[UsedPosition + 1], window)
    BY <1>3, <2>6, FramesUpToNext
  <2> HIDE DEF AllRam
  <2> QED BY <2>3, <2>5, <2>6, <2>7
<1>9. CASE ReserveEnd
  <2>1. /\ pc = "reserve" /\ pc' = "ready" /\ window' = window /\ MoveUsed /\ ~ usedMoved'
        /\ free' = free
    BY <1>9 DEF ReserveEnd, watermark
  <2>2. ~ crashed
    BY <1>9, <2>1 DEF Next, vars
  <2>3. \A i \in DOMAIN UsedRegions : i <= UsedPosition
    BY <1>0, <1>1, <2>1, UsedEnds
  <2>4. UsedPosition \in Nat
    <3>1. UsedPosition \in 0 .. Len(UsedRegions) + 1
      BY <1>0, <1>1, <2>1, UsedMoves DEF Typed, TypeOK
    <3> QED BY <3>1
  <2>5. free = AllRam \ AllUsed
    <3>1. InUse(UsedPosition) = AllUsed
      BY <1>3, <2>3, <2>4, FramesUpToNext
    <3> QED BY <1>0, <2>1, <2>2, <3>1 DEF FillInv
  <2> QED BY <1>2, <2>1, <2>5 DEF FillInv, WindowFilled
<1>10. CASE pc \in {"free", "reserve"} /\ ~ Fill
  <2>1. UNCHANGED vars
    BY <1>10 DEF Next, BootWalk, GetCurrentAsserts, StageOneBegin, StageOneRegion, StageOneEnd,
                 NextWindow
  <2>2. UNCHANGED <<mbInfo, ramNode, ramField, reservedNode, module, usedState, crashed, pc,
                    window, free, more>>
    BY <2>1 DEF vars, ram, used, watermark
  <2>3. RamPosition' = RamPosition /\ UsedPosition' = UsedPosition
    BY <1>1, <1>2, <2>2
       DEF RamPosition, UsedPosition, ReservedRegions, ModuleRegions, ModulePosition
  <2> QED BY <1>0, <1>2, <1>10, <2>2, <2>3 DEF FillInv, WindowFilled
<1>11. CASE pc \notin {"free", "reserve"} /\ ~ Fill
  <2>1. /\ pc' \notin {"free", "reserve"}
        /\ pc' = "ready" => pc = "ready" /\ UNCHANGED <<free, window>>
    BY <1>11 DEF Next, vars, BootWalk, GetCurrentAsserts, StageOneBegin, StageOneRegion,
                 StageOneEnd, NextWindow, watermark
  <2> QED BY <1>0, <1>2, <2>1 DEF FillInv, WindowFilled
<1> QED BY <1>5, <1>6, <1>7, <1>8, <1>9, <1>10, <1>11 DEF Fill

LEMMA InvInit == Init => IInv
<1> SUFFICES ASSUME Init PROVE IInv
  OBVIOUS
<1>1. Len(mbInfo.map) \in Nat /\ Len(mbInfo.mods) \in Nat
  BY BootInfoFacts DEF Init
<1>2. /\ ModuleAtEnd(0) \in ModuleStates /\ ModuleAtEnd(0).index = 0
      /\ ModuleAtEnd(0).state = "pastEnd"
  BY DEF ModuleAtEnd, ModuleStates
<1>3. 0 \in PhysAddrs
  BY PhysAddrAssumption DEF PhysAddrs
<1>4. TypeOK
  <2>1. /\ ramNode \in 0 .. Len(mbInfo.map) + 1 /\ reservedNode \in 0 .. Len(mbInfo.map) + 1
        /\ module.index \in 0 .. Len(mbInfo.mods)
    BY <1>1, <1>2 DEF Init, Null
  <2>2. /\ ramMoved \in BOOLEAN /\ usedMoved \in BOOLEAN /\ more \in BOOLEAN
        /\ crashed \in BOOLEAN
    BY DEF Init
  <2>3. module \in ModuleStates /\ highestAddr \in PhysAddrs /\ numFrames \in Nat
    BY <1>2, <1>3 DEF Init
  <2>4. /\ mbInfo \in BootInfos /\ ramField \in FieldStates
        /\ pc \in {"boot", "walk", "fill", "free", "reserve", "ready"}
        /\ usedState \in {"reset", "onFirst", "onSecond", "pastEnd"}
    BY DEF Init, FieldStates
  <2>5. window \in Regions /\ free \subseteq 0 .. FrameNumber(MaxPhysAddr)
    BY <1>3, RegionIntro DEF Init
  <2> QED BY <2>1, <2>2, <2>3, <2>4, <2>5 DEF TypeOK
<1>5. RamInv /\ ModuleInv /\ UsedInv
  BY <1>2 DEF Init, RamInv, IsOnField, ModuleInv, UsedInv, UsedPlaces
<1>6. StageOneInv /\ StageOneResult /\ FillInv
  BY DEF Init, StageOneInv, StageOneResult, FillInv, WindowFilled
<1> QED BY <1>4, <1>5, <1>6 DEF IInv

(* Types, and what the walks rely on, hold for every Multiboot information *)
(* whose fields have their types.                                          *)
THEOREM InductiveInvariant == Spec => []IInv
<1>1. IInv /\ [Next]_vars => IInv'
  <2> SUFFICES ASSUME IInv, [Next]_vars PROVE IInv'
    OBVIOUS
  <2>1. Typed'
    BY TypeStep DEF IInv, Typed
  <2> QED BY <2>1, StageOneStep, FillStep DEF IInv, Typed
<1> QED BY <1>1, InvInit, PTL DEF Spec

(* initStageOne() returns a number of frames, that up to the last frame of *)
(* RAM, whatever map or fields the boot loader reports.                    *)
THEOREM StageOneCoversRamAlways == Spec => []StageOneCoversRam
<1>1. IInv => StageOneCoversRam
  BY DEF IInv, StageOneResult, StageOneCoversRam
<1> QED BY <1>1, InductiveInvariant, PTL

(* initCurrentRegion() leaves in the bitmap the frames of its window that  *)
(* have RAM in them and nothing in use, for every window, whatever the     *)
(* boot loader reports and wherever the walks before have stopped.         *)
THEOREM WindowFilledAlways == Spec => []WindowFilled
<1>1. IInv => WindowFilled
  BY DEF IInv, FillInv
<1> QED BY <1>1, InductiveInvariant, PTL

-----------------------------------------------------------------------------
(* The refinement of RegionCursor.                                         *)

LEMMA RamListStep ==
  ASSUME IInv, [Next]_vars
  PROVE  [RamList!Next]_(RamList!vars)
<1>0. Typed /\ Typed'
  BY TypeStep DEF IInv, Typed
<1>1. /\ mbInfo' = mbInfo /\ mbInfo \in BootInfos
      /\ ResetRam \/ MoveRam \/ UNCHANGED ram
  BY <1>0, ListSteps DEF Typed, TypeOK
<1>2. RamRegions' = RamRegions
  BY <1>1 DEF RamRegions
<1>3. CASE ResetRam
  <2>1. RamPosition' = 0 /\ ramMoved' = FALSE
    BY <1>1, <1>3, RamResets
  <2>2. RamList!Reset
    BY <1>2, <2>1 DEF RamList!Reset
  <2> QED BY <2>2 DEF RamList!Next
<1>4. CASE MoveRam
  <2>1. /\ RamPosition' = IF RamPosition = Len(RamRegions) + 1
                             THEN RamPosition ELSE RamPosition + 1
        /\ ramMoved' <=> RamPosition' # Len(RamRegions) + 1
        /\ ramMoved' => RamCurrent' = RamRegions[RamPosition']
        /\ ramMoved' \in BOOLEAN
    BY <1>0, <1>1, <1>4, RamMoves DEF Typed, TypeOK
  <2>2. ramMoved' = (RamPosition' # Len(RamRegions) + 1)
    BY <2>1, Zenon
  <2>3. (IF ramMoved THEN RamCurrent ELSE NoRegion)'
          = IF ramMoved' THEN RamRegions[RamPosition'] ELSE NoRegion
    BY <2>1 DEF NoRegion
  <2>4. RamList!MoveNext
    BY <1>2, <2>1, <2>2, <2>3, Zenon DEF RamList!MoveNext, RamList!PastEnd
  <2> QED BY <2>4 DEF RamList!Next
<1>5. CASE UNCHANGED ram
  <2>1. UNCHANGED <<ramNode, ramField, ramMoved>>
    BY <1>5 DEF ram
  <2>2. RamPosition' = RamPosition
    BY <1>1, <1>2, <2>1 DEF RamPosition
  <2>3. RamCurrent' = RamCurrent
    BY <1>1, <2>1 DEF RamCurrent
  <2>4. UNCHANGED RamList!vars
    BY <1>2, <2>1, <2>2, <2>3 DEF RamList!vars, NoRegion
  <2> QED BY <2>4
<1> QED BY <1>1, <1>3, <1>4, <1>5

LEMMA UsedListStep ==
  ASSUME IInv, [Next]_vars
  PROVE  [UsedList!Next]_(UsedList!vars)
<1>0. Typed /\ Typed'
  BY TypeStep DEF IInv, Typed
<1>1. mbInfo' = mbInfo /\ mbInfo \in BootInfos
  BY <1>0, ListSteps DEF Typed, TypeOK
<1>2. ReservedRegions' = ReservedRegions /\ ModuleRegions' = ModuleRegions
  BY <1>1 DEF ReservedRegions, ModuleRegions
<1>3. ASSUME ResetUsed PROVE UsedList!Reset
  <2>1. UsedPosition' = 0 /\ usedMoved' = FALSE
    BY <1>3 DEF ResetUsed, UsedPosition
  <2> QED BY <1>2, <2>1 DEF UsedList!Reset
<1>4. ASSUME MoveUsed, pc' # "reserve" => ~ usedMoved' PROVE UsedList!MoveNext
  <2>1. /\ UsedPosition' = IF UsedPosition = Len(UsedRegions) + 1
                             THEN UsedPosition ELSE UsedPosition + 1
        /\ usedMoved' <=> UsedPosition' # Len(UsedRegions) + 1
        /\ usedMoved' => UsedCurrent' = UsedRegions[UsedPosition']
        /\ usedMoved' \in BOOLEAN
    BY <1>0, <1>1, <1>4, UsedMoves DEF Typed, TypeOK
  <2>2. usedMoved' = (UsedPosition' # Len(UsedRegions) + 1)
    BY <2>1, Zenon
  <2>3. (IF usedMoved THEN UsedCurrent ELSE NoRegion)'
          = IF usedMoved' THEN UsedRegions[UsedPosition'] ELSE NoRegion
    BY <2>1 DEF NoRegion
  <2> QED BY <1>2, <2>1, <2>2, <2>3, Zenon
          DEF UsedList!MoveNext, UsedList!PastEnd, UsedRegions
<1>5. ASSUME UNCHANGED used \/ (UNCHANGED <<usedState, usedMoved>> /\ pc = "boot")
      PROVE  UNCHANGED UsedList!vars
  <2>1. UNCHANGED <<usedState, usedMoved>>
    BY <1>5 DEF used
  <2>2. UNCHANGED used \/ (usedState = "pastEnd" /\ usedMoved = FALSE)
    BY <1>0, <1>5 DEF Typed, TypeOK, UsedInv
  <2>3. UsedPosition' = UsedPosition
    BY <1>1, <1>2, <2>1, <2>2 DEF used, UsedPosition, ModulePosition
  <2>4. (IF usedMoved THEN UsedCurrent ELSE NoRegion)'
          = IF usedMoved THEN UsedCurrent ELSE NoRegion
    BY <1>1, <2>1, <2>2 DEF used, UsedCurrent, NoRegion
  <2> QED BY <1>2, <2>1, <2>3, <2>4, Zenon DEF UsedList!vars
<1>6. \/ ResetUsed
      \/ MoveUsed /\ (pc' # "reserve" => ~ usedMoved')
      \/ UNCHANGED used \/ (UNCHANGED <<usedState, usedMoved>> /\ pc = "boot")
  BY <1>0, ListSteps
<1> QED BY <1>3, <1>4, <1>5, <1>6 DEF UsedList!Next

LEMMA ListsInit ==
  ASSUME Init PROVE RamList!Init /\ UsedList!Init
<1>1. IInv /\ mbInfo \in BootInfos
  BY InvInit DEF Init
<1>2. Len(RamRegions) \in Nat
  BY <1>1, RamRegionsType
<1>3. Len(UsedRegions) = Len(ReservedRegions) + Len(ModuleRegions)
      /\ Len(ReservedRegions) \in Nat /\ Len(ModuleRegions) \in Nat
  BY <1>1, UsedRegionsFacts
<1>4. RamPosition \in {0, Len(RamRegions) + 1}
  <2>1. CASE mbInfo.memMapPresent
    <3>1. TRUE \in BOOLEAN
      OBVIOUS
    <3>2. RamPosition = MemmapPosition(mbInfo, TRUE, 0)
      BY <2>1 DEF Init, RamPosition, Null
    <3> QED BY <1>1, <3>1, <3>2, PositionOfNull
  <2>2. CASE ~ mbInfo.memMapPresent
    BY <2>2 DEF Init, RamPosition
  <2> QED BY <2>1, <2>2
<1>5. UsedPosition = Len(ReservedRegions) + Len(ModuleRegions) + 1
  BY DEF Init, UsedPosition
<1>6. RamPosition \in 0 .. Len(RamRegions) + 1 /\ UsedPosition \in 0 .. Len(UsedRegions) + 1
  BY <1>2, <1>3, <1>4, <1>5
<1>7. ramMoved = FALSE /\ usedMoved = FALSE
  BY DEF Init
<1> QED BY <1>6, <1>7 DEF RamList!Init, RamList!PastEnd, UsedList!Init, UsedList!PastEnd,
                          UsedRegions

(* Every list is the iterator IPmmRegionList.h describes, over the regions *)
(* the boot loader has reported: each of them once and in their order.     *)
THEOREM ListsImplementCursorAlways == Spec => ListsImplementCursor
<1>1. IInv /\ [Next]_vars => [RamList!Next]_(RamList!vars)
  BY RamListStep
<1>2. IInv /\ [Next]_vars => [UsedList!Next]_(UsedList!vars)
  BY UsedListStep
<1>3. Init => RamList!Init /\ UsedList!Init
  BY ListsInit
<1> QED BY <1>1, <1>2, <1>3, InductiveInvariant, PTL
        DEF Spec, ListsImplementCursor, RamList!Spec, UsedList!Spec
=============================================================================
