------------------------- MODULE InterruptController -------------------------
(***************************************************************************)
(* InterruptController_x86_8259A.c: what the driver writes to the ports of *)
(* the two chained 8259As.  Every IO_out8() is a step of its own in the    *)
(* modules that use this one, so a call is the list of its writes.         *)
(***************************************************************************)
EXTENDS Pic8259A, Sequences

NumIrqsPerPic == 8
ChainedIrq    == 2      \* CHAINED_IRQ: the slave is on line 2 of the master
IntHwIrq0     == 32     \* INT_HW_IRQ0: vector of IRQ 0

Irqs == 0 .. 2 * NumIrqsPerPic - 1

(* choosePortAndPicRelativeIrq()                                           *)
PicOf(irq)  == IF irq < NumIrqsPerPic THEN "master" ELSE "slave"
LineOf(irq) == irq % NumIrqsPerPic

Command(pic, op) == [pic |-> pic, op |-> op, byte |-> 0]
Data(pic, byte)  == [pic |-> pic, op |-> "data", byte |-> byte]

(* IO_out8()                                                               *)
Out(pics, write) ==
  [pics EXCEPT ![write.pic] =
     CASE write.op = "ICW1" -> StartInit(@)
       [] write.op = "EOI"  -> Dismiss(@)
       [] write.op = "data" -> WriteData(@, write.byte)]

(* Bug: the slave gets the master's vectors.                               *)
InitWritesSameVectors ==
  << Data("master", 255),          Data("slave", 255),
     Command("master", "ICW1"),    Command("slave", "ICW1"),
     Data("master", IntHwIrq0),    Data("slave", IntHwIrq0),
     Data("master", 2^ChainedIrq), Data("slave", ChainedIrq),
     Data("master", 1),            Data("slave", 1),
     Data("master", 0),            Data("slave", 0) >>

(* initForCurrentProcessor(): mask all, ICW1 to ICW4, unmask all.          *)
InitWrites ==
  << Data("master", 255),          Data("slave", 255),
     Command("master", "ICW1"),    Command("slave", "ICW1"),
     Data("master", IntHwIrq0),    Data("slave", IntHwIrq0 + NumIrqsPerPic),
     Data("master", 2^ChainedIrq), Data("slave", ChainedIrq),
     Data("master", 1),            Data("slave", 1),
     Data("master", 0),            Data("slave", 0) >>

BitSet8(byte, bit)   == IF bit \in Bits(byte) THEN byte ELSE byte + 2^bit
BitClear8(byte, bit) == IF bit \in Bits(byte) THEN byte - 2^bit ELSE byte

(* mask() and unmask() change the mask they have read.                     *)
MaskWrite(pics, irq)   == Data(PicOf(irq), BitSet8(pics[PicOf(irq)].imr, LineOf(irq)))
UnmaskWrite(pics, irq) == Data(PicOf(irq), BitClear8(pics[PicOf(irq)].imr, LineOf(irq)))

(* Bug: the master is not told about the interrupts of the slave.          *)
EoiWritesOneChip(irq) == << Command(PicOf(irq), "EOI") >>

(* endOfInterrupt().  The second write goes to the master, too.            *)
EoiWrites(irq) ==
  << Command("master", "EOI") >>
    \o (IF irq >= NumIrqsPerPic THEN << Command("master", "EOI") >> ELSE << >>)
=============================================================================
