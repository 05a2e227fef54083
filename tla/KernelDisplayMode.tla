-------------------------- MODULE KernelDisplayMode --------------------------
(***************************************************************************)
(* KernelDisplay_x86_Vga.c: how the display is switched to text mode and   *)
(* gets its font.  What the functions do to the adapter is a list of       *)
(* accesses, and every access is a step of the modules that use this one.  *)
(***************************************************************************)
EXTENDS VgaAdapter, SequencesExt

(* _90x60_text, register by register                                       *)
Mode ==
  [misc |-> 231,
   seq  |-> <<3, 1, 3, 0, 2>>,
   crtc |-> <<107, 89, 90, 130, 96, 141, 11, 62, 0, 71, 38, 7, 0, 0, 0, 0,
              234, 12, 223, 45, 8, 232, 5, 163, 255>>,
   gc   |-> <<0, 0, 0, 0, 0, 16, 14, 0, 255>>,
   ac   |-> <<0, 1, 2, 3, 4, 5, 20, 7, 56, 57, 58, 59, 60, 61, 62, 63, 4, 0, 15, 8, 0>>]

Status           == << [op |-> "status"] >>
Attribute(value) == << [op |-> "attribute", value |-> value] >>
Misc(value)      == << [op |-> "misc", value |-> value] >>
Index(group, r)  == << [op |-> "index", group |-> group, value |-> r] >>
Put(group, value) == << [op |-> "put", group |-> group, value |-> value] >>
Change(group, bit, to) == << [op |-> "change", group |-> group, bit |-> bit, to |-> to] >>
Save(group, r)    == << [op |-> "save", group |-> group, r |-> r] >>
Restore(group, r) == Index(group, r) \o << [op |-> "restore", group |-> group, r |-> r] >>
Memory(what)      == << [op |-> "memory", what |-> what] >>

(* IO_in8() and IO_out8() on the ports of the adapter.  saved holds the    *)
(* register values that initFont() keeps in local variables.               *)
Access(s, a) ==
  CASE a.op = "status"    -> [s EXCEPT !.vga = ReadStatus(@)]
    [] a.op = "attribute" -> [s EXCEPT !.vga = WriteAttribute(@, a.value)]
    [] a.op = "misc"      -> [s EXCEPT !.vga.misc = a.value]
    [] a.op = "index"     -> [s EXCEPT !.vga = SetIndex(@, a.group, a.value)]
    [] a.op = "put"       -> [s EXCEPT !.vga = WriteData(@, a.group, a.value)]
    [] a.op = "change"    ->
         LET old == ReadData(s.vga, a.group) IN
         [s EXCEPT !.vga = WriteData(@, a.group, IF a.to THEN BitSet(old, a.bit)
                                                         ELSE BitClear(old, a.bit))]
    [] a.op = "save"      -> [s EXCEPT !.saved[<<a.group, a.r>>] = ReadData(s.vga, a.group)]
    [] a.op = "restore"   -> [s EXCEPT !.vga = WriteData(@, a.group, s.saved[<<a.group, a.r>>])]
    [] a.op = "memory"    -> [s EXCEPT !.vga = WriteMemory(@, a.what)]

WriteAll(group) ==
  FlattenSeq([k \in 1 .. Len(Mode[group]) |-> Index(group, k - 1) \o Put(group, Mode[group][k])])

WriteAttributes ==
  FlattenSeq([k \in 1 .. Len(Mode.ac) |->
                Status \o Attribute(k - 1) \o Attribute(Mode.ac[k])])

(* Bug: the flip-flop is taken to expect an index.                         *)
BlankUnsynced == Attribute(0)

(* Clears the palette address source.                                      *)
BlankScreen == Status \o Attribute(0)

UnlockCrtc ==
  Index("crtc", 3) \o Change("crtc", 7, TRUE) \o Index("crtc", 17) \o Change("crtc", 7, FALSE)

SwitchToPreferredVideoMode ==
  BlankScreen \o Misc(Mode.misc) \o WriteAll("seq") \o UnlockCrtc
    \o WriteAll("crtc") \o WriteAll("gc") \o WriteAttributes

(* Bug: the map mask is left on the plane of the font.                     *)
RestoreAllButMask ==
  Restore("seq", 4) \o Restore("gc", 4) \o Restore("gc", 5) \o Restore("gc", 6)

RestoreRegisters ==
  Restore("seq", 2) \o Restore("seq", 4) \o Restore("gc", 4) \o Restore("gc", 5)
    \o Restore("gc", 6)

(* Flat addressing of plane 2, the font, and back.                         *)
InitFont ==
  Index("seq", 4)    \o Save("seq", 4) \o Change("seq", 2, TRUE)
    \o Index("gc", 5)  \o Save("gc", 5)  \o Change("gc", 4, FALSE)
    \o Index("gc", 6)  \o Save("gc", 6)  \o Change("gc", 1, FALSE)
    \o Index("gc", 4)  \o Save("gc", 4)  \o Put("gc", 2)
    \o Index("seq", 2) \o Save("seq", 2) \o Put("seq", BitSet(0, 2))
    \o Memory("8x8") \o RestoreRegisters

UnblankScreen == Status \o Attribute(32)

(* KernelDisplay_reset(); clear() is the access to memory in between.      *)
Reset == SwitchToPreferredVideoMode \o InitFont \o Memory("cleared") \o UnblankScreen
=============================================================================
