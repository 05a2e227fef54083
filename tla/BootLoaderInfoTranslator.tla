----------------------- MODULE BootLoaderInfoTranslator -----------------------
(***************************************************************************)
(* BootLoaderInfoTranslator_x86_Multiboot.c: what the boot loader left in  *)
(* physical memory is mapped, pointer by pointer and in place, and then    *)
(* copied into a static buffer.  Only the pointers, counts and lengths are *)
(* modelled; of the rest, where each byte of the buffer was copied from.   *)
(***************************************************************************)
EXTENDS KMem, Sequences, FiniteSetsExt

CONSTANTS
  KernelEnd,              \* MM_MB( 4 ): end of the physical memory that is mapped
  VirtualBase,            \* MM_KERNEL_VIRTUAL_BASE
  InfoSize, ModuleSize,   \* sizeof( MultibootInfo ), sizeof( MBModuleInfo )
  SpaceAddress, SpaceSize, Alignment,   \* of s_mbInfoSpace; 32 bits
  Strings,                \* physical addresses of strings, with their lengths
  Loaders                 \* what loaders may have left

(* Flags and pointers of the MultibootInfo at "address", and the strings   *)
(* of its modules.  A pointer that its flag does not vouch for is garbage. *)
(* Counts and lengths that wrap 32 bits when an address is added to them   *)
(* are not among the values here.                                          *)
LoaderInfo(l) ==
  /\ l.address \in Nat /\ l.isMultiboot \in BOOLEAN
  /\ {l.commandLinePresent, l.memMapPresent, l.modulesPresent} \subseteq BOOLEAN
  /\ {l.mmapAddr, l.mmapLength, l.modsAddr} \subseteq Nat
  /\ l.commandLinePresent => l.commandLine \in {0} \cup DOMAIN Strings
  /\ l.modStrings \in Seq({0} \cup DOMAIN Strings)

ASSUME TranslatorAssumption ==
  /\ {KernelEnd, VirtualBase, InfoSize, ModuleSize, Alignment} \subseteq Nat \ {0}
  /\ DOMAIN Strings \subseteq Nat \ {0} /\ \A s \in DOMAIN Strings : Strings[s] \in Nat
  /\ KernelEnd <= VirtualBase
  /\ SpaceAddress \in Nat /\ SpaceAddress > VirtualBase /\ SpaceSize \in Nat
  /\ IsAligned(SpaceAddress, Alignment) /\ IsAligned(SpaceSize, Alignment)
  /\ \A l \in Loaders : LoaderInfo(l)

VARIABLES
  step,           \* what translate() does next, or "done"
  loader,         \* what the loader left, as it left it
  mbInfo,         \* the pointers in the loader's MultibootInfo, changed in place
  modStrings,     \* those in its module list
  index,          \* loop variable
  touched,        \* history: highest physical address read
  space, dest,    \* s_mbInfoSpace: where its bytes come from; the first one to use
  copy, copiedModStrings,   \* the pointers, in the copy
  result          \* of translate(): "none", "NULL" or "info"

translatorVars == <<step, loader, mbInfo, modStrings, index, touched, space, dest, copy,
                    copiedModStrings, result>>

Offsets == 0 .. SpaceSize - 1

TranslatorInit ==
  /\ step = "magic"
  /\ loader \in Loaders
  /\ mbInfo = [commandLine |-> loader.commandLine, mmapAddr |-> loader.mmapAddr,
               modsAddr |-> loader.modsAddr]
  /\ modStrings = loader.modStrings
  /\ index = 1
  /\ touched = 0
  /\ space = [k \in Offsets |-> "zero"]
  /\ dest = SpaceAddress
  /\ copy = [commandLine |-> 0, mmapAddr |-> 0, modsAddr |-> 0]
  /\ copiedModStrings = << >>
  /\ result = "none"
-----------------------------------------------------------------------------
(* BootLoaderInfoTranslator_mapMultibootInfo()                             *)

IsMapped(address, size) == address < KernelEnd /\ address + size <= KernelEnd

(* Bug: only the beginning of a string has to be mapped.                   *)
MapStringAnywhere(s) ==
  IF KernelEnd <= s
    THEN [address |-> 0, last |-> 0]
    ELSE [address |-> s + VirtualBase, last |-> s + Strings[s]]

(* Character by character, up to the '\0' or the end of what is mapped.    *)
MapString(s) ==
  IF KernelEnd <= s
    THEN [address |-> 0, last |-> 0]
  ELSE IF s + Strings[s] < KernelEnd
    THEN [address |-> s + VirtualBase, last |-> s + Strings[s]]
    ELSE [address |-> 0, last |-> KernelEnd - 1]

Touch(addresses) == touched' = Max(addresses \cup {touched})

Fail ==
  /\ step' = "done" /\ result' = "NULL"
  /\ UNCHANGED <<mbInfo, modStrings>>

MapUnchanged == UNCHANGED <<loader, space, dest, copy, copiedModStrings>>

CheckMagic ==
  /\ step = "magic"
  /\ IF loader.isMultiboot
       THEN step' = "info" /\ UNCHANGED <<mbInfo, modStrings, result>>
       ELSE Fail
  /\ UNCHANGED <<index, touched>> /\ MapUnchanged

MapInfo ==
  /\ step = "info"
  /\ IF IsMapped(loader.address, InfoSize)
       THEN /\ step' = "commandLine"
            /\ Touch({loader.address + InfoSize - 1})
            /\ UNCHANGED <<mbInfo, modStrings, result>>
       ELSE Fail /\ UNCHANGED touched
  /\ UNCHANGED index /\ MapUnchanged

MapCommandLine ==
  /\ step = "commandLine"
  /\ IF loader.commandLinePresent /\ mbInfo.commandLine # 0
       THEN LET mapped == MapString(mbInfo.commandLine) IN
            /\ Touch({mapped.last})
            /\ IF mapped.address = 0
                 THEN Fail
                 ELSE /\ mbInfo' = [mbInfo EXCEPT !.commandLine = mapped.address]
                      /\ step' = "memMap" /\ UNCHANGED <<modStrings, result>>
       ELSE /\ mbInfo' = [mbInfo EXCEPT !.commandLine = 0]
            /\ step' = "memMap" /\ UNCHANGED <<modStrings, touched, result>>
  /\ UNCHANGED index /\ MapUnchanged

MapMemMap ==
  /\ step = "memMap"
  /\ IF loader.memMapPresent /\ ~ IsMapped(mbInfo.mmapAddr, loader.mmapLength)
       THEN Fail
       ELSE /\ mbInfo' = [mbInfo EXCEPT !.mmapAddr =
                            IF loader.memMapPresent THEN @ + VirtualBase ELSE 0]
            /\ step' = "modules" /\ UNCHANGED <<modStrings, result>>
  /\ UNCHANGED <<index, touched>> /\ MapUnchanged

MapModules ==
  /\ step = "modules"
  /\ IF loader.modulesPresent
       THEN IF IsMapped(mbInfo.modsAddr, Len(modStrings) * ModuleSize)
              THEN /\ mbInfo' = [mbInfo EXCEPT !.modsAddr = @ + VirtualBase]
                   /\ step' = "moduleNames" /\ UNCHANGED <<modStrings, result>>
              ELSE Fail
       ELSE /\ mbInfo' = [mbInfo EXCEPT !.modsAddr = 0]
            /\ step' = "copyInfo" /\ UNCHANGED <<modStrings, result>>
  /\ index' = 1
  /\ UNCHANGED touched /\ MapUnchanged

(* One turn of the loop over the modules.                                  *)
MapModuleName ==
  LET mapped == MapString(modStrings[index])
      module == mbInfo.modsAddr - VirtualBase + index * ModuleSize - 1
  IN
  /\ step = "moduleNames" /\ index <= Len(modStrings)
  /\ index' = index + 1
  /\ IF modStrings[index] = 0
       THEN Touch({module}) /\ UNCHANGED <<step, mbInfo, modStrings, result>>
     ELSE IF mapped.address = 0
       THEN Touch({module, mapped.last}) /\ Fail
       ELSE /\ Touch({module, mapped.last})
            /\ modStrings' = [modStrings EXCEPT ![index] = mapped.address]
            /\ UNCHANGED <<step, mbInfo, result>>
  /\ MapUnchanged

MapDone ==
  /\ step = "moduleNames" /\ index > Len(modStrings)
  /\ step' = "copyInfo"
  /\ UNCHANGED <<mbInfo, modStrings, index, touched, result>> /\ MapUnchanged
-----------------------------------------------------------------------------
(* BootLoaderInfoTranslator_copyMultibootInfo()                            *)

(* Bug: the space left is taken to be that of the whole buffer.            *)
FitsWhole(bytes) == bytes <= SpaceSize /\ IsAligned(dest, Alignment)

Fits(bytes) == bytes <= SpaceAddress + SpaceSize - dest /\ IsAligned(dest, Alignment)

(* Virtual addresses, modulo.                                              *)
Wrap == 2 * (VirtualBase + SpaceAddress + SpaceSize)

(* copyStructurePart() from a virtual address, and what its callers do     *)
(* then: set the pointers of the copy, or give up.                         *)
CopyPart(source, bytes, pointers, strings, next) ==
  IF Fits(bytes)
    THEN /\ space' = [k \in Offsets |->
              IF k + SpaceAddress \in dest .. dest + bytes - 1
                THEN source - VirtualBase + (k + SpaceAddress - dest) ELSE space[k]]
         /\ dest' = MakeAligned(dest + bytes, Alignment, Wrap)
         /\ Touch({source - VirtualBase + bytes - 1})
         /\ copy' = pointers /\ copiedModStrings' = strings
         /\ step' = next /\ UNCHANGED result
    ELSE /\ step' = "done" /\ result' = "NULL"
         /\ UNCHANGED <<space, dest, touched, copy, copiedModStrings>>

CopyNothing(pointers, next) ==
  /\ copy' = pointers /\ step' = next
  /\ UNCHANGED <<space, dest, touched, copiedModStrings, result>>

CopyUnchanged == UNCHANGED <<loader, mbInfo, modStrings>>

(* The buffer is cleared first, but nothing has been in it before.         *)
CopyInfo ==
  /\ step = "copyInfo"
  /\ CopyPart(loader.address + VirtualBase, InfoSize, mbInfo, << >>, "copyMemMap")
  /\ UNCHANGED index /\ CopyUnchanged

CopyMemMap ==
  /\ step = "copyMemMap"
  /\ IF loader.memMapPresent
       THEN CopyPart(copy.mmapAddr, loader.mmapLength, [copy EXCEPT !.mmapAddr = dest], << >>,
                     "copyModules")
       ELSE CopyNothing([copy EXCEPT !.mmapAddr = 0], "copyModules")
  /\ UNCHANGED index /\ CopyUnchanged

CopyModules ==
  /\ step = "copyModules"
  /\ IF loader.modulesPresent
       THEN CopyPart(copy.modsAddr, Len(modStrings) * ModuleSize,
                     [copy EXCEPT !.modsAddr = dest], modStrings, "copyNames")
       ELSE CopyNothing([copy EXCEPT !.modsAddr = 0], "copyCommandLine")
  /\ index' = 1
  /\ CopyUnchanged

(* A string, with its '\0'.                                                *)
StringSize(address) == Strings[address - VirtualBase] + 1

CopyModuleName ==
  LET name == copiedModStrings[index] IN
  /\ step = "copyNames" /\ index <= Len(copiedModStrings)
  /\ IF name = 0
       THEN CopyNothing(copy, "copyNames")
       ELSE CopyPart(name, StringSize(name), copy, [copiedModStrings EXCEPT ![index] = dest],
                     "copyNames")
  /\ index' = index + 1
  /\ CopyUnchanged

CopyNamesDone ==
  /\ step = "copyNames" /\ index > Len(copiedModStrings)
  /\ CopyNothing(copy, "copyCommandLine")
  /\ UNCHANGED index /\ CopyUnchanged

CopyCommandLine ==
  /\ step = "copyCommandLine"
  /\ IF loader.commandLinePresent /\ copy.commandLine # 0
       THEN CopyPart(copy.commandLine, StringSize(copy.commandLine),
                     [copy EXCEPT !.commandLine = dest], copiedModStrings, "publish")
       ELSE CopyNothing([copy EXCEPT !.commandLine = 0], "publish")
  /\ UNCHANGED index /\ CopyUnchanged

(* BootLoaderInfo_init()                                                   *)
Publish ==
  /\ step = "publish"
  /\ step' = "done" /\ result' = "info"
  /\ UNCHANGED <<loader, mbInfo, modStrings, index, touched, space, dest, copy, copiedModStrings>>

Translate ==
  \/ CheckMagic \/ MapInfo \/ MapCommandLine \/ MapMemMap
  \/ MapModules \/ MapModuleName \/ MapDone
  \/ CopyInfo \/ CopyMemMap \/ CopyModules \/ CopyModuleName \/ CopyNamesDone
  \/ CopyCommandLine \/ Publish
-----------------------------------------------------------------------------
(* The buffer has, at a pointer of the copy, the bytes of an original.     *)
Holds(pointer, original, size) ==
  \A k \in 0 .. size - 1 :
    /\ pointer + k - SpaceAddress \in Offsets
    /\ space[pointer + k - SpaceAddress] = original + k

HoldsString(pointer, original) ==
  IF original = 0 THEN pointer = 0 ELSE Holds(pointer, original, Strings[original] + 1)

(* The strings that the loader's information refers to.                    *)
CommandLine == IF loader.commandLinePresent THEN loader.commandLine ELSE 0
ModuleNames == IF loader.modulesPresent THEN loader.modStrings ELSE << >>

(* What the kernel gets is a copy, every part of it still there after the  *)
(* parts behind it were copied, and without pointers to anything else.     *)
InfoAsLoaded ==
  result = "info" =>
    /\ Holds(SpaceAddress, loader.address, InfoSize)
    /\ HoldsString(copy.commandLine, CommandLine)
    /\ IF loader.memMapPresent THEN Holds(copy.mmapAddr, loader.mmapAddr, loader.mmapLength)
                               ELSE copy.mmapAddr = 0
    /\ IF loader.modulesPresent
         THEN Holds(copy.modsAddr, loader.modsAddr, Len(ModuleNames) * ModuleSize)
         ELSE copy.modsAddr = 0
    /\ Len(copiedModStrings) = Len(ModuleNames)
    /\ \A m \in 1 .. Len(ModuleNames) : HoldsString(copiedModStrings[m], ModuleNames[m])

(* The sizes of all parts, rounded.                                        *)
Rounded(size) == MakeAligned(size, Alignment, Wrap)

StringSpace(s) == IF s = 0 THEN 0 ELSE Rounded(Strings[s] + 1)

(* Of the first k strings, for each k.                                     *)
StringsSpace(strings) ==
  LET sum[k \in 0 .. Len(strings)] ==
        IF k = 0 THEN 0 ELSE sum[k - 1] + StringSpace(strings[k])
  IN  sum

MemMapSpace  == IF loader.memMapPresent THEN Rounded(loader.mmapLength) ELSE 0
ModulesSpace == IF loader.modulesPresent THEN Rounded(Len(ModuleNames) * ModuleSize) ELSE 0

SpaceNeeded ==
  Rounded(InfoSize) + MemMapSpace + ModulesSpace
    + StringsSpace(ModuleNames)[Len(ModuleNames)] + StringSpace(CommandLine)

StringIsMapped(s) == s # 0 => IsMapped(s, Strings[s] + 1)

IsReadable ==
  /\ IsMapped(loader.address, InfoSize)
  /\ loader.memMapPresent => IsMapped(loader.mmapAddr, loader.mmapLength)
  /\ loader.modulesPresent => IsMapped(loader.modsAddr, Len(ModuleNames) * ModuleSize)
  /\ StringIsMapped(CommandLine)
  /\ \A m \in 1 .. Len(ModuleNames) : StringIsMapped(ModuleNames[m])

(* Translation fails just if no Multiboot loader called, if something is   *)
(* not all mapped, or if the copy does not fit; what is not mapped is      *)
(* never read, which at this point would reset the machine.                *)
FailsOnlyForCause ==
  /\ step = "done" =>
       (result = "NULL") = ~ (loader.isMultiboot /\ IsReadable /\ SpaceNeeded <= SpaceSize)
  /\ touched < KernelEnd
=============================================================================
