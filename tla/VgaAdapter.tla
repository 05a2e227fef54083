------------------------------ MODULE VgaAdapter ------------------------------
(***************************************************************************)
(* The VGA, as KernelDisplay_x86_Vga.c uses it: indexed registers, the     *)
(* flip-flop of the attribute controller, the write protection of the CRT  *)
(* controller, and the planes that accesses to video memory reach.  This   *)
(* is hardware; the code only sees its ports and its memory.               *)
(***************************************************************************)
EXTENDS KMem, Sequences

(* Groups with an index and a data port, and their registers.              *)
Groups == {"seq", "crtc", "gc", "ac"}
RegistersOf(group) ==
  CASE group = "seq" -> 0 .. 4 [] group = "crtc" -> 0 .. 24
    [] group = "gc" -> 0 .. 8  [] group = "ac" -> 0 .. 20

(* What a BIOS may leave: any mode, with the CRT controller protected or   *)
(* not, the flip-flop in either position, and nothing of the kernel's in   *)
(* video memory.                                                           *)
Bytes == 0 .. 255

AdapterStates ==
  [misc      : Bytes,
   index     : [Groups -> Bytes],
   registers : [seq : [RegistersOf("seq") -> Bytes], crtc : [RegistersOf("crtc") -> Bytes],
                gc  : [RegistersOf("gc") -> Bytes],  ac   : [RegistersOf("ac") -> Bytes]],
   acData    : BOOLEAN,     \* the next write to the port is data
   unblanked : BOOLEAN,     \* palette address source
   font      : {"none"},    \* plane 2
   text      : {"none"}]    \* planes 0 and 1

CONSTANT LeftByBios

ASSUME BiosAssumption == LeftByBios \subseteq AdapterStates

(* Reading input status #1 resets the flip-flop.                           *)
ReadStatus(vga) == [vga EXCEPT !.acData = FALSE]

SetIndex(vga, group, index) == [vga EXCEPT !.index[group] = index]

(* Registers 0 to 7 of the CRT controller are protected by bit 7 of        *)
(* register 11h.                                                           *)
WriteData(vga, group, value) ==
  IF group = "crtc" /\ vga.index.crtc < 8 /\ IsBitSet(vga.registers.crtc[17], 7)
    THEN vga
    ELSE [vga EXCEPT !.registers[group][vga.index[group]] = value]

ReadData(vga, group) == vga.registers[group][vga.index[group]]

(* One port for index and data; bit 5 of the index shows the picture and   *)
(* locks the palette, the registers below 16.                              *)
WriteAttribute(vga, value) ==
  IF ~ vga.acData
    THEN [vga EXCEPT !.index.ac = value % 32, !.unblanked = IsBitSet(value, 5), !.acData = TRUE]
    ELSE [vga EXCEPT
            !.acData = FALSE,
            !.registers.ac =
              IF vga.index.ac \notin DOMAIN @ \/ (vga.unblanked /\ vga.index.ac < 16)
                THEN @ ELSE [@ EXCEPT ![vga.index.ac] = value]]

(* Sequencer and graphics controller agree on odd/even addressing of text. *)
OddEven(vga) ==
  /\ ~ IsBitSet(vga.registers.seq[4], 2)
  /\ IsBitSet(vga.registers.gc[5], 4)
  /\ IsBitSet(vga.registers.gc[6], 1)

Flat(vga) ==
  /\ IsBitSet(vga.registers.seq[4], 2)
  /\ ~ IsBitSet(vga.registers.gc[5], 4)
  /\ ~ IsBitSet(vga.registers.gc[6], 1)

(* Writes to the memory at B8000h go to the planes of the map mask; what   *)
(* is written in the wrong mode is garbage there.                          *)
WriteMemory(vga, what) ==
  LET into(plane) == IsBitSet(vga.registers.seq[2], plane) IN
  [vga EXCEPT
     !.font = IF ~ into(2) THEN @ ELSE IF Flat(vga) THEN what ELSE "garbage",
     !.text = IF ~ into(0) /\ ~ into(1) THEN @ ELSE IF OddEven(vga) THEN what ELSE "garbage"]
=============================================================================
