------------------------------ MODULE Pic8259A ------------------------------
(***************************************************************************)
(* The 8259A interrupt controller, as InterruptController_x86_8259A.c uses *)
(* it: initialisation words, mask, fully nested priorities, edge-triggered *)
(* requests and the non-specific end of interrupt.  This is hardware; the  *)
(* code only sees its two ports.                                           *)
(***************************************************************************)
EXTENDS Integers, FiniteSetsExt

Lines == 0 .. 7
Byte  == 0 .. 255

Bits(byte) == {b \in Lines : (byte \div 2^b) % 2 = 1}

(* expect is the meaning the next byte written to the data port will have. *)
Pics == [imr : Byte, irr : SUBSET Lines, isr : SUBSET Lines,
         expect : {"mask", "ICW2", "ICW3", "ICW4"}, offset : Byte]

(* ICW1 restarts the chip and asks for the other initialisation words.     *)
StartInit(pic) ==
  [pic EXCEPT !.imr = 0, !.irr = {}, !.isr = {}, !.expect = "ICW2"]

(* A non-specific end of interrupt dismisses the line of highest priority  *)
(* among those in service.                                                 *)
Dismiss(pic) ==
  [pic EXCEPT !.isr = IF pic.isr = {} THEN {} ELSE pic.isr \ {Min(pic.isr)}]

WriteData(pic, byte) ==
  CASE pic.expect = "mask" -> [pic EXCEPT !.imr = byte]
    [] pic.expect = "ICW2" -> [pic EXCEPT !.offset = byte, !.expect = "ICW3"]
    [] pic.expect = "ICW3" -> [pic EXCEPT !.expect = "ICW4"]
    [] pic.expect = "ICW4" -> [pic EXCEPT !.expect = "mask"]

(* A device requests an interrupt; the request stays until acknowledged.   *)
Request(pic, line) == [pic EXCEPT !.irr = pic.irr \cup {line}]

(* The lines among requests that get through: not masked, and of a higher  *)
(* priority than whatever is in service.                                   *)
Through(pic, requests) ==
  {l \in requests \ Bits(pic.imr) : \A s \in pic.isr : l < s}

(* The processor acknowledges the interrupt.                               *)
Acknowledge(pic, line) ==
  [pic EXCEPT !.irr = pic.irr \ {line}, !.isr = pic.isr \cup {line}]
=============================================================================
