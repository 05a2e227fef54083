---------------------- MODULE InterruptDispatcherProofs ----------------------
(***************************************************************************)
(* The safety properties of the interrupt path, for devices and masks on   *)
(* any lines.  A chip is in the mode that the initialization has got it to *)
(* by its k-th write; after that, only masks are written, and a handler    *)
(* runs on top of code that has nothing left to write, and dismisses what  *)
(* the master has in service with its first end of interrupt.              *)
(***************************************************************************)
EXTENDS InterruptDispatcher, SequenceTheorems, TLAPS

Master == pics["master"]
Slave  == pics["slave"]
Eoi    == Command("master", "EOI")

(* Masks are bytes; but of bytes nothing is needed here.                   *)
IsChip(chip) ==
  /\ DOMAIN chip = {"imr", "irr", "isr", "expect", "offset"}
  /\ chip.irr \subseteq Lines /\ chip.isr \subseteq Lines

(* No device is on the line of the slave.                                  *)
ChipsInv ==
  /\ DOMAIN pics = {"master", "slave"}
  /\ IsChip(Master) /\ IsChip(Slave)
  /\ ChainedIrq \notin Master.irr

(* The writes of initForCurrentProcessor() that are left after k of them.  *)
Rest(k) == SubSeq(InitWrites, k + 1, 12)

(* What k writes, to either chip in turn, have got the chips to.           *)
Progress(k) ==
  /\ Master.expect = CASE k \in 3 .. 4 -> "ICW2" [] k \in 5 .. 6 -> "ICW3"
                       [] k \in 7 .. 8 -> "ICW4" [] OTHER -> "mask"
  /\ Slave.expect  = CASE k \in 4 .. 5 -> "ICW2" [] k \in 6 .. 7 -> "ICW3"
                       [] k \in 8 .. 9 -> "ICW4" [] OTHER -> "mask"
  /\ k >= 5 => Master.offset = IntHwIrq0
  /\ k >= 6 => Slave.offset = IntHwIrq0 + NumIrqsPerPic

TableInv == \A v \in 32 .. 47 : dispatchTable[v] \in {"timer", "device"}

IsReady ==
  /\ Master.expect = "mask" /\ Master.offset = IntHwIrq0
  /\ Slave.expect = "mask"  /\ Slave.offset = IntHwIrq0 + NumIrqsPerPic
  /\ TableInv

(* No handler is running, and the code that is: has not initialized the    *)
(* chips yet, has writes of that to do, has nothing to write, or a mask.   *)
BeforeInit == booted = "no" /\ ~ interruptsEnabled /\ Running.todo = << >> /\ Progress(0)

DuringInit(k) ==
  /\ booted = "initialized" /\ ~ interruptsEnabled /\ TableInv
  /\ Running.todo = Rest(k) /\ Progress(k)

Between == booted # "no" /\ IsReady /\ Running.todo = << >>

ChangingMask ==
  /\ booted # "no" /\ IsReady /\ ~ interruptsEnabled
  /\ Running.todo # << >> /\ Tail(Running.todo) = << >>
  /\ Head(Running.todo).op = "data" /\ Head(Running.todo).pic \in {"master", "slave"}

MainInv ==
  /\ frames = << Frame(NoIrq, Running.todo) >>
  /\ Master.isr = {}
  /\ BeforeInit \/ (\E k \in 0 .. 11 : DuringInit(k)) \/ Between \/ ChangingMask

(* One is, before its first end of interrupt or after it.                  *)
HandlerInv ==
  /\ frames = << Frame(Running.irq, Running.todo), Frame(NoIrq, << >>) >>
  /\ Running.irq \in Irqs
  /\ booted # "no" /\ IsReady /\ ~ interruptsEnabled
  /\ \/ /\ Running.todo = EoiWrites(Running.irq)
        /\ LineOf(Running.irq) = 7 \/ InService(Running.irq)
        /\ Master.isr \subseteq {MasterLine(Running.irq)}
     \/ /\ Running.todo # EoiWrites(Running.irq)
        /\ Running.todo \in {<< >>, << Eoi >>}
        /\ Master.isr = {}

IInv == down = FALSE /\ ChipsInv /\ (MainInv \/ HandlerInv)
-----------------------------------------------------------------------------
(* Sequences and the stack.                                                *)

LEMMA Singles ==
  ASSUME NEW a, NEW b
  PROVE  /\ <<a>> # << >> /\ <<a, b>> # << >> /\ <<a>> # <<a, b>> /\ <<a>> # <<b, a>>
         /\ Head(<<a>>) = a /\ Tail(<<a>>) = << >>
         /\ Tail(<<a, b>>) = <<b>>
         /\ <<a>> \o <<b>> = <<a, b>> /\ <<a>> \o << >> = <<a>>
<1>1. /\ <<a>> # << >> /\ <<a, b>> # << >> /\ <<a>> # <<a, b>> /\ <<a>> # <<b, a>>
  OBVIOUS
<1>2. Head(<<a>>) = a /\ Tail(<<a>>) = << >>
  OBVIOUS
<1>3. Tail(<<a, b>>) = <<b>>
  OBVIOUS
<1>4. <<a>> \o <<b>> = <<a, b>>
  <2> DEFINE S == {a, b}
  <2>1. <<a>> \in Seq(S) /\ <<b>> \in Seq(S) /\ <<a, b>> \in Seq(S)
    OBVIOUS
  <2>2. Len(<<a>>) = 1 /\ Len(<<b>>) = 1 /\ Len(<<a, b>>) = 2
    OBVIOUS
  <2>3. /\ <<a>> \o <<b>> \in Seq(S) /\ Len(<<a>> \o <<b>>) = 2
        /\ (<<a>> \o <<b>>)[1] = <<a>>[1] /\ (<<a>> \o <<b>>)[2] = <<b>>[1]
    BY <2>1, <2>2, ConcatProperties
  <2>4. \A i \in 1 .. 2 : (<<a>> \o <<b>>)[i] = <<a, b>>[i]
    BY <2>3
  <2> QED
    BY <2>1, <2>2, <2>3, <2>4, SeqEqual
<1>5. <<a>> \o << >> = <<a>>
  BY <<a>> \in Seq({a}), ConcatEmptySeq
<1> QED
  BY <1>1, <1>2, <1>3, <1>4, <1>5

LEMMA EoiWritesAre ==
  ASSUME NEW irq \in Irqs
  PROVE  /\ EoiWrites(irq) = <<Eoi>> \/ EoiWrites(irq) = <<Eoi, Eoi>>
         /\ EoiWrites(irq) # << >> /\ Head(EoiWrites(irq)) = Eoi
         /\ Tail(EoiWrites(irq)) \in {<< >>, <<Eoi>>}
         /\ Tail(EoiWrites(irq)) # EoiWrites(irq)
<1>1. CASE irq >= NumIrqsPerPic
  <2>1. EoiWrites(irq) = <<Eoi, Eoi>>
    BY <1>1, Singles DEF EoiWrites, Eoi
  <2>2. Head(<<Eoi, Eoi>>) = Eoi
    OBVIOUS
  <2> QED
    BY <2>1, <2>2, Singles
<1>2. CASE ~ (irq >= NumIrqsPerPic)
  <2>1. EoiWrites(irq) = <<Eoi>>
    BY <1>2, Singles DEF EoiWrites, Eoi
  <2> QED
    BY <2>1, Singles
<1> QED
  BY <1>1, <1>2

LEMMA FrameIs ==
  ASSUME NEW irq, NEW todo
  PROVE  Frame(irq, todo).irq = irq /\ Frame(irq, todo).todo = todo
         /\ \A t : [Frame(irq, todo) EXCEPT !.todo = t] = Frame(irq, t)
BY DEF Frame

(* The frame of what is running, on a stack without and with a handler.    *)
LEMMA TopOfOne ==
  ASSUME NEW irq, NEW todo, NEW fs, fs = << Frame(irq, todo) >>
  PROVE  /\ fs[1].irq = irq /\ fs[1].todo = todo
         /\ \A t : [fs EXCEPT ![1].todo = t] = << Frame(irq, t) >>
<1>1. fs[1] = Frame(irq, todo)
  OBVIOUS
<1>2. \A t : [fs EXCEPT ![1] = Frame(irq, t)] = << Frame(irq, t) >>
  OBVIOUS
<1>3. \A t : [fs[1] EXCEPT !.todo = t] = Frame(irq, t)
  BY <1>1, FrameIs
<1> QED
  BY <1>1, <1>2, <1>3, FrameIs

LEMMA TopOfTwo ==
  ASSUME NEW irq, NEW todo, NEW below, NEW fs, fs = << Frame(irq, todo), below >>
  PROVE  /\ fs[1].irq = irq /\ fs[1].todo = todo
         /\ \A t : [fs EXCEPT ![1].todo = t] = << Frame(irq, t), below >>
         /\ Tail(fs) = <<below>>
<1>1. fs[1] = Frame(irq, todo)
  OBVIOUS
<1>2. \A t : [fs EXCEPT ![1] = Frame(irq, t)] = << Frame(irq, t), below >>
  OBVIOUS
<1>3. \A t : [fs[1] EXCEPT !.todo = t] = Frame(irq, t)
  BY <1>1, FrameIs
<1> QED
  BY <1>1, <1>2, <1>3, FrameIs, Singles

LEMMA RestSteps ==
  /\ Rest(0) = InitWrites /\ Rest(12) = << >>
  /\ \A k \in 0 .. 11 : /\ Rest(k) # << >> /\ Head(Rest(k)) = InitWrites[k + 1]
                        /\ Tail(Rest(k)) = Rest(k + 1)
<1> DEFINE W == {InitWrites[j] : j \in 1 .. 12}
<1>1. InitWrites \in Seq(W) /\ Len(InitWrites) = 12
  BY DEF InitWrites
<1>2. Rest(0) = InitWrites
  BY <1>1, SubSeqFull DEF Rest
<1>3. Rest(12) = << >>
  BY SubSeqEmpty DEF Rest
<1>4. ASSUME NEW k \in 0 .. 11
      PROVE  /\ Rest(k) # << >> /\ Head(Rest(k)) = InitWrites[k + 1]
             /\ Tail(Rest(k)) = Rest(k + 1)
  <2>1. k + 1 \in 1 .. Len(InitWrites) /\ 12 \in k + 1 .. Len(InitWrites) /\ k + 1 + 1 = (k + 1) + 1
    BY <1>1
  <2>2. Head(Rest(k)) = InitWrites[k + 1] /\ Tail(Rest(k)) = Rest(k + 1)
    BY <1>1, <2>1, HeadTailOfSubSeq DEF Rest
  <2>3. \A i \in k + 1 .. 12 : InitWrites[i] \in W
    OBVIOUS
  <2>4. Len(Rest(k)) # 0
    BY <2>1, <2>3, SubSeqProperties DEF Rest
  <2> QED
    BY <2>2, <2>4
<1> QED
  BY <1>2, <1>3, <1>4
-----------------------------------------------------------------------------
(* The chips.                                                              *)

LEMMA LeastLine ==
  ASSUME NEW S, S \subseteq Lines, S # {}
  PROVE  Min(S) \in S /\ \A x \in S : Min(S) <= x
<1>1. \E x \in S : \A y \in S : x <= y
  <2>1. \A x \in S : x \in {0, 1, 2, 3, 4, 5, 6, 7}
    BY DEF Lines
  <2>2. CASE 0 \in S
    BY <2>1, <2>2
  <2>3. CASE 0 \notin S /\ 1 \in S
    BY <2>1, <2>3
  <2>4. CASE 0 \notin S /\ 1 \notin S /\ 2 \in S
    BY <2>1, <2>4
  <2>5. CASE 0 \notin S /\ 1 \notin S /\ 2 \notin S /\ 3 \in S
    BY <2>1, <2>5
  <2>6. CASE /\ 0 \notin S /\ 1 \notin S /\ 2 \notin S /\ 3 \notin S
             /\ 4 \in S \/ 5 \in S \/ 6 \in S \/ 7 \in S
    <3>1. CASE 4 \in S
      BY <2>1, <2>6, <3>1
    <3>2. CASE 4 \notin S /\ 5 \in S
      BY <2>1, <2>6, <3>2
    <3>3. CASE 4 \notin S /\ 5 \notin S /\ 6 \in S
      BY <2>1, <2>6, <3>3
    <3>4. CASE 4 \notin S /\ 5 \notin S /\ 6 \notin S /\ 7 \in S
      BY <2>1, <2>6, <3>4
    <3> QED
      BY <2>6, <3>1, <3>2, <3>3, <3>4
  <2> QED
    BY <2>1, <2>2, <2>3, <2>4, <2>5, <2>6
<1> QED
  BY <1>1 DEF Min

LEMMA StartInitOf ==
  ASSUME NEW chip, IsChip(chip)
  PROVE  /\ IsChip(StartInit(chip))
         /\ StartInit(chip).irr = {} /\ StartInit(chip).isr = {}
         /\ StartInit(chip).expect = "ICW2" /\ StartInit(chip).offset = chip.offset
BY DEF IsChip, StartInit

LEMMA DismissOf ==
  ASSUME NEW chip, IsChip(chip)
  PROVE  /\ IsChip(Dismiss(chip))
         /\ Dismiss(chip).irr = chip.irr
         /\ Dismiss(chip).expect = chip.expect /\ Dismiss(chip).offset = chip.offset
         /\ \A l \in Lines : chip.isr \subseteq {l} => Dismiss(chip).isr = {}
<1>1. /\ Dismiss(chip).isr = IF chip.isr = {} THEN {} ELSE chip.isr \ {Min(chip.isr)}
      /\ DOMAIN Dismiss(chip) = DOMAIN chip /\ Dismiss(chip).irr = chip.irr
      /\ Dismiss(chip).expect = chip.expect /\ Dismiss(chip).offset = chip.offset
  BY DEF IsChip, Dismiss
<1>2. ASSUME NEW l \in Lines, chip.isr \subseteq {l}
      PROVE  Dismiss(chip).isr = {}
  <2>1. chip.isr # {} => Min(chip.isr) = l
    BY <1>2, LeastLine DEF IsChip
  <2> QED
    BY <1>1, <1>2, <2>1
<1> QED
  BY <1>1, <1>2 DEF IsChip

LEMMA WriteDataOf ==
  ASSUME NEW chip, IsChip(chip), NEW byte,
         chip.expect \in {"mask", "ICW2", "ICW3", "ICW4"}
  PROVE  LET new == WriteData(chip, byte) IN
         /\ IsChip(new) /\ new.irr = chip.irr /\ new.isr = chip.isr
         /\ new.expect = CASE chip.expect = "ICW2" -> "ICW3" [] chip.expect = "ICW3" -> "ICW4"
                            [] OTHER -> "mask"
         /\ new.offset = IF chip.expect = "ICW2" THEN byte ELSE chip.offset
<1>1. CASE chip.expect = "mask"
  BY <1>1 DEF IsChip, WriteData
<1>2. CASE chip.expect = "ICW2"
  BY <1>2 DEF IsChip, WriteData
<1>3. CASE chip.expect = "ICW3"
  BY <1>3 DEF IsChip, WriteData
<1>4. CASE chip.expect = "ICW4"
  BY <1>4 DEF IsChip, WriteData
<1> QED
  BY <1>1, <1>2, <1>3, <1>4

LEMMA RequestOf ==
  ASSUME NEW chip, IsChip(chip), NEW line \in Lines
  PROVE  /\ IsChip(Request(chip, line))
         /\ Request(chip, line).irr = chip.irr \cup {line}
         /\ Request(chip, line).isr = chip.isr
         /\ Request(chip, line).expect = chip.expect /\ Request(chip, line).offset = chip.offset
BY DEF IsChip, Request

LEMMA AcknowledgeOf ==
  ASSUME NEW chip, IsChip(chip), NEW line \in Lines
  PROVE  /\ IsChip(Acknowledge(chip, line))
         /\ Acknowledge(chip, line).irr = chip.irr \ {line}
         /\ Acknowledge(chip, line).isr = chip.isr \cup {line}
         /\ Acknowledge(chip, line).expect = chip.expect
         /\ Acknowledge(chip, line).offset = chip.offset
BY DEF IsChip, Acknowledge

(* A write changes one of the chips.                                       *)
LEMMA OutOf ==
  ASSUME NEW w, DOMAIN pics = {"master", "slave"}, w.pic \in {"master", "slave"},
         w.op \in {"ICW1", "EOI", "data"}
  PROVE  /\ DOMAIN Out(pics, w) = {"master", "slave"}
         /\ \A c \in {"master", "slave"} : c # w.pic => Out(pics, w)[c] = pics[c]
         /\ w.op = "ICW1" => Out(pics, w)[w.pic] = StartInit(pics[w.pic])
         /\ w.op = "EOI"  => Out(pics, w)[w.pic] = Dismiss(pics[w.pic])
         /\ w.op = "data" => Out(pics, w)[w.pic] = WriteData(pics[w.pic], w.byte)
BY DEF Out
-----------------------------------------------------------------------------
(* The steps of the devices and of code that runs without a handler.       *)

LEMMA InitWriteIs ==
  ASSUME NEW k \in 0 .. 11
  PROVE  LET w == InitWrites[k + 1] IN
         /\ w.pic = IF k \in {0, 2, 4, 6, 8, 10} THEN "master" ELSE "slave"
         /\ w.op = IF k \in {2, 3} THEN "ICW1" ELSE "data"
         /\ k = 4 => w.byte = IntHwIrq0
         /\ k = 5 => w.byte = IntHwIrq0 + NumIrqsPerPic
<1> DEFINE w == InitWrites[k + 1]
<1>1. /\ InitWrites[1] = Data("master", 255) /\ InitWrites[2] = Data("slave", 255)
      /\ InitWrites[3] = Command("master", "ICW1") /\ InitWrites[4] = Command("slave", "ICW1")
      /\ InitWrites[5] = Data("master", IntHwIrq0)
      /\ InitWrites[6] = Data("slave", IntHwIrq0 + NumIrqsPerPic)
      /\ InitWrites[7] = Data("master", 2^ChainedIrq) /\ InitWrites[8] = Data("slave", ChainedIrq)
      /\ InitWrites[9] = Data("master", 1) /\ InitWrites[10] = Data("slave", 1)
      /\ InitWrites[11] = Data("master", 0) /\ InitWrites[12] = Data("slave", 0)
  BY DEF InitWrites
<1>2. \A pic, byte : /\ Data(pic, byte).pic = pic /\ Data(pic, byte).op = "data"
                     /\ Data(pic, byte).byte = byte
  BY DEF Data
<1>3. \A pic, op : Command(pic, op).pic = pic /\ Command(pic, op).op = op
  BY DEF Command
<1>4. k \in {0, 1, 2, 3, 4, 5, 6, 7, 8, 9, 10, 11}
  OBVIOUS
<1>5. CASE k \in {0, 1, 4, 5}
  BY <1>1, <1>2, <1>5
<1>6. CASE k \in {2, 3}
  BY <1>1, <1>3, <1>6
<1>7. CASE k \in {6, 7, 8, 9, 10, 11}
  BY <1>1, <1>2, <1>7
<1> QED
  BY <1>4, <1>5, <1>6, <1>7

LEMMA ProgressStep ==
  ASSUME ChipsInv, Master.isr = {}, NEW k \in 0 .. 11, Progress(k),
         pics' = Out(pics, InitWrites[k + 1])
  PROVE  ChipsInv' /\ Master'.isr = {} /\ Progress(k + 1)'
<1> DEFINE w == InitWrites[k + 1]
<1>1. w.pic \in {"master", "slave"} /\ w.op \in {"ICW1", "EOI", "data"}
  BY InitWriteIs
<1>2. /\ Master.expect \in {"mask", "ICW2", "ICW3", "ICW4"}
      /\ Slave.expect \in {"mask", "ICW2", "ICW3", "ICW4"}
  BY DEF Progress
<1>3. DOMAIN pics' = {"master", "slave"}
  BY <1>1, OutOf DEF ChipsInv
<1>4. CASE k \in {0, 2, 4, 6, 8, 10}
  <2>1. w.pic = "master" /\ Slave' = Slave
    BY <1>1, <1>4, InitWriteIs, OutOf DEF ChipsInv, Slave
  <2>2. CASE k = 2
    <3>1. Master' = StartInit(Master)
      BY <2>1, <2>2, <1>1, InitWriteIs, OutOf DEF ChipsInv, Master
    <3>2. IsChip(Master') /\ Master'.irr = {} /\ Master'.isr = {} /\ Master'.expect = "ICW2"
      BY <3>1, StartInitOf DEF ChipsInv
    <3> QED
      BY <1>3, <2>1, <2>2, <3>2 DEF ChipsInv, Progress
  <2>3. CASE k # 2
    <3>1. Master' = WriteData(Master, w.byte)
      BY <2>1, <2>3, <1>1, <1>4, InitWriteIs, OutOf DEF ChipsInv, Master
    <3>2. /\ IsChip(Master') /\ Master'.irr = Master.irr /\ Master'.isr = Master.isr
          /\ Master'.expect = CASE Master.expect = "ICW2" -> "ICW3"
                                [] Master.expect = "ICW3" -> "ICW4" [] OTHER -> "mask"
          /\ Master'.offset = IF Master.expect = "ICW2" THEN w.byte ELSE Master.offset
      BY <3>1, <1>2, WriteDataOf DEF ChipsInv
    <3>3. k = 4 => w.byte = IntHwIrq0
      BY InitWriteIs
    <3>4. Progress(k + 1)'
      BY <1>4, <2>1, <2>3, <3>2, <3>3 DEF Progress
    <3> QED
      BY <1>3, <2>1, <3>2, <3>4 DEF ChipsInv
  <2> QED
    BY <2>2, <2>3
<1>5. CASE k \notin {0, 2, 4, 6, 8, 10}
  <2>0. k \in {1, 3, 5, 7, 9, 11}
    BY <1>5
  <2>1. w.pic = "slave" /\ Master' = Master
    BY <1>1, <1>5, InitWriteIs, OutOf DEF ChipsInv, Master
  <2>2. CASE k = 3
    <3>1. Slave' = StartInit(Slave)
      BY <2>1, <2>2, <1>1, InitWriteIs, OutOf DEF ChipsInv, Slave
    <3>2. IsChip(Slave') /\ Slave'.expect = "ICW2"
      BY <3>1, StartInitOf DEF ChipsInv
    <3> QED
      BY <1>3, <2>1, <2>2, <3>2 DEF ChipsInv, Progress
  <2>3. CASE k # 3
    <3>1. Slave' = WriteData(Slave, w.byte)
      BY <2>1, <2>3, <1>1, <2>0, InitWriteIs, OutOf DEF ChipsInv, Slave
    <3>2. /\ IsChip(Slave')
          /\ Slave'.expect = CASE Slave.expect = "ICW2" -> "ICW3"
                               [] Slave.expect = "ICW3" -> "ICW4" [] OTHER -> "mask"
          /\ Slave'.offset = IF Slave.expect = "ICW2" THEN w.byte ELSE Slave.offset
      BY <3>1, <1>2, WriteDataOf DEF ChipsInv
    <3>3. k = 5 => w.byte = IntHwIrq0 + NumIrqsPerPic
      BY InitWriteIs
    <3>4. Progress(k + 1)'
      BY <2>0, <2>1, <2>3, <3>2, <3>3 DEF Progress
    <3> QED
      BY <1>3, <2>1, <3>2, <3>4 DEF ChipsInv
  <2> QED
    BY <2>2, <2>3
<1> QED
  BY <1>4, <1>5

LEMMA MainRuns ==
  ASSUME MainInv
  PROVE  Running.irq = NoIrq
BY TopOfOne DEF MainInv, Running

LEMMA InitInv == Init => IInv
<1> SUFFICES ASSUME Init PROVE IInv
  OBVIOUS
<1>1. frames = << Frame(NoIrq, << >>) >> /\ Running.irq = NoIrq /\ Running.todo = << >>
  BY TopOfOne DEF Init, Running
<1>2. /\ Master = [imr |-> 0, irr |-> {}, isr |-> {}, expect |-> "mask", offset |-> 8]
      /\ Slave = [imr |-> 0, irr |-> {}, isr |-> {}, expect |-> "mask", offset |-> 112]
      /\ DOMAIN pics = {"master", "slave"}
  BY DEF Init, Master, Slave
<1>3. ChipsInv /\ Master.isr = {} /\ Progress(0)
  BY <1>2 DEF ChipsInv, IsChip, Progress
<1> QED
  BY <1>1, <1>3 DEF Init, IInv, MainInv, BeforeInit

LEMMA RaiseStep ==
  ASSUME IInv, NEW irq \in DeviceIrqs, Raise(irq)
  PROVE  IInv'
<1>1. irq \in 0 .. 15 /\ irq # ChainedIrq
  BY DeviceAssumption DEF Irqs, NumIrqsPerPic
<1>2. LineOf(irq) \in Lines /\ (irq < 8 => LineOf(irq) = irq)
  BY <1>1 DEF LineOf, NumIrqsPerPic, Lines
<1>3. ASSUME NEW c \in {"master", "slave"}
      PROVE  /\ IsChip(pics'[c]) /\ pics'[c].isr = pics[c].isr
             /\ pics'[c].expect = pics[c].expect /\ pics'[c].offset = pics[c].offset
             /\ pics'[c].irr = IF c = PicOf(irq) THEN pics[c].irr \cup {LineOf(irq)}
                                                 ELSE pics[c].irr
  <2>1. IsChip(pics[c])
    BY DEF IInv, ChipsInv, Master, Slave
  <2>2. pics'[c] = IF c = PicOf(irq) THEN Request(pics[c], LineOf(irq)) ELSE pics[c]
    BY DEF Raise, IInv, ChipsInv
  <2>3. CASE c = PicOf(irq)
    BY <1>2, <2>1, <2>2, <2>3, RequestOf
  <2>4. CASE c # PicOf(irq)
    BY <2>1, <2>2, <2>4
  <2> QED
    BY <2>3, <2>4
<1>4. ChipsInv'
  <2>1. DOMAIN pics' = {"master", "slave"}
    BY DEF Raise, IInv, ChipsInv
  <2>2. ChainedIrq \notin Master'.irr
    BY <1>1, <1>2, <1>3 DEF IInv, ChipsInv, Master, PicOf, NumIrqsPerPic
  <2> QED
    BY <1>3, <2>1, <2>2 DEF ChipsInv, Master, Slave
<1>5. /\ Master'.isr = Master.isr /\ Slave'.isr = Slave.isr
      /\ Master'.expect = Master.expect /\ Master'.offset = Master.offset
      /\ Slave'.expect = Slave.expect /\ Slave'.offset = Slave.offset
  BY <1>3 DEF Master, Slave
<1>6. UNCHANGED <<dispatchTable, interruptsEnabled, frames, booted, down, Running>>
  BY DEF Raise, Running
<1>7. ASSUME MainInv PROVE MainInv'
  <2>1. \A k \in 0 .. 12 : Progress(k) => Progress(k)'
    BY <1>5 DEF Progress
  <2>2. IsReady => IsReady'
    BY <1>5, <1>6 DEF IsReady, TableInv
  <2>3. ASSUME BeforeInit PROVE BeforeInit'
    BY <1>6, <2>1, <2>3 DEF BeforeInit
  <2>4. ASSUME NEW k \in 0 .. 11, DuringInit(k) PROVE DuringInit(k)'
    BY <1>6, <2>1, <2>4 DEF DuringInit, TableInv
  <2>5. ASSUME Between PROVE Between'
    BY <1>6, <2>2, <2>5 DEF Between
  <2>6. ASSUME ChangingMask PROVE ChangingMask'
    BY <1>6, <2>2, <2>6 DEF ChangingMask
  <2> QED
    BY <1>5, <1>6, <1>7, <2>3, <2>4, <2>5, <2>6 DEF MainInv
<1>8. ASSUME HandlerInv PROVE HandlerInv'
  <2>1. IsReady'
    BY <1>5, <1>6, <1>8 DEF IsReady, TableInv, HandlerInv
  <2>2. InService(Running.irq) => InService(Running.irq)'
    BY <1>5, <1>6 DEF InService, Master, Slave, PicOf
  <2> QED
    BY <1>5, <1>6, <1>8, <2>1, <2>2 DEF HandlerInv
<1> QED
  BY <1>4, <1>6, <1>7, <1>8 DEF IInv

LEMMA ReadyWhenDone == Progress(12) /\ TableInv => IsReady
BY DEF Progress, IsReady

LEMMA WriteOnMain ==
  ASSUME IInv, MainInv, WritePort
  PROVE  IInv'
<1>1. /\ frames = << Frame(NoIrq, Running.todo) >> /\ Running.todo # << >>
      /\ pics' = Out(pics, Head(Running.todo))
      /\ frames' = [frames EXCEPT ![1].todo = Tail(Running.todo)]
      /\ UNCHANGED <<dispatchTable, interruptsEnabled, booted, down>>
  BY DEF MainInv, WritePort, Running
<1>2. frames' = << Frame(NoIrq, Tail(Running.todo)) >>
  <2>1. frames = << Frame(NoIrq, Running.todo) >>
    BY <1>1
  <2>2. \A t : [frames EXCEPT ![1].todo = t] = << Frame(NoIrq, t) >>
    BY <2>1, TopOfOne
  <2>3. frames' = [frames EXCEPT ![1].todo = Tail(Running.todo)]
    BY <1>1
  <2> QED
    BY <2>2, <2>3, Zenon
<1>3. Running'.todo = Tail(Running.todo)
  BY <1>2, TopOfOne DEF Running
<1>4. frames' = << Frame(NoIrq, Running'.todo) >>
  BY <1>2, <1>3
<1>5. CASE \E k \in 0 .. 11 : DuringInit(k)
  <2>1. PICK k \in 0 .. 11 : DuringInit(k)
    BY <1>5
  <2>2. Head(Running.todo) = InitWrites[k + 1] /\ Running'.todo = Rest(k + 1)
    BY <1>3, <2>1, RestSteps DEF DuringInit
  <2>3. ChipsInv' /\ Master'.isr = {} /\ Progress(k + 1)'
    BY <1>1, <2>1, <2>2, ProgressStep DEF IInv, MainInv, DuringInit
  <2>4. booted' = "initialized" /\ ~ interruptsEnabled' /\ TableInv'
    BY <1>1, <2>1 DEF DuringInit, TableInv
  <2>5. CASE k = 11
    <3>1. Running'.todo = << >> /\ Progress(12)'
      BY <2>2, <2>3, <2>5, RestSteps
    <3>2. Progress(12)' /\ TableInv' => IsReady'
      BY ReadyWhenDone, PTL
    <3>3. Between'
      BY <2>4, <3>1, <3>2 DEF Between
    <3> QED
      BY <1>1, <1>4, <2>3, <3>3 DEF IInv, MainInv
  <2>6. CASE k # 11
    <3>1. k + 1 \in 0 .. 11
      BY <2>6
    <3>2. DuringInit(k + 1)'
      BY <2>2, <2>3, <2>4 DEF DuringInit
    <3> QED
      BY <1>1, <1>4, <2>3, <3>1, <3>2 DEF IInv, MainInv
  <2> QED
    BY <2>5, <2>6
<1>6. CASE ChangingMask
  <2> DEFINE w == Head(Running.todo)
  <2>1. w.op = "data" /\ w.pic \in {"master", "slave"} /\ IsReady
    BY <1>6 DEF ChangingMask
  <2>2. /\ DOMAIN pics' = {"master", "slave"}
        /\ \A c \in {"master", "slave"} :
             pics'[c] = IF c = w.pic THEN WriteData(pics[c], w.byte) ELSE pics[c]
    BY <1>1, <2>1, OutOf DEF IInv, ChipsInv
  <2>3. ASSUME NEW c \in {"master", "slave"}
        PROVE  /\ IsChip(pics'[c]) /\ pics'[c].irr = pics[c].irr /\ pics'[c].isr = pics[c].isr
               /\ pics'[c].expect = "mask" /\ pics'[c].offset = pics[c].offset
    <3>1. IsChip(pics[c]) /\ pics[c].expect = "mask"
      BY SMTT(40), <2>1 DEF IInv, ChipsInv, IsReady, Master, Slave
    <3>2. CASE c = w.pic
      BY SMTT(40), <2>2, <3>1, <3>2, WriteDataOf
    <3>3. CASE c # w.pic
      BY <2>2, <3>1, <3>3
    <3> QED
      BY <3>2, <3>3
  <2>4. ChipsInv' /\ Master'.isr = {} /\ IsReady'
    BY <1>1, <2>1, <2>2, <2>3 DEF IInv, ChipsInv, MainInv, IsReady, TableInv, Master, Slave
  <2>5. Between'
    BY <1>1, <1>3, <1>6, <2>4 DEF ChangingMask, Between
  <2> QED
    BY <1>1, <1>4, <2>4, <2>5 DEF IInv, MainInv
<1> QED
  BY <1>1, <1>5, <1>6 DEF MainInv, BeforeInit, Between

LEMMA InitCallStep ==
  ASSUME IInv, InitForCurrentProcessor
  PROVE  IInv'
<1>1. MainInv /\ BeforeInit
  BY DEF IInv, MainInv, HandlerInv, InitForCurrentProcessor, DuringInit, Between, ChangingMask
<1>2. frames' = << Frame(NoIrq, InitWrites) >> /\ Running'.todo = Rest(0)
  <2>1. frames' = << Frame(NoIrq, InitWrites) >>
    BY DEF InitForCurrentProcessor
  <2>2. Running'.todo = InitWrites
    BY <2>1, TopOfOne DEF Running
  <2> QED
    BY <2>1, <2>2, RestSteps
<1>3. TableInv'
  <2> SUFFICES ASSUME NEW v \in 32 .. 47 PROVE dispatchTable'[v] \in {"timer", "device"}
    BY DEF TableInv
  <2>1. /\ v \in Vectors /\ v - IntHwIrq0 \in 0 .. 15
        /\ v = IntHwIrq0 \/ v - IntHwIrq0 \in Irqs \ {0}
    BY DEF Vectors, IntHwIrq0, Irqs, NumIrqsPerPic
  <2> QED
    BY <2>1 DEF InitForCurrentProcessor
<1>4. Progress(0)' /\ ChipsInv' /\ Master'.isr = {}
  BY <1>1 DEF IInv, MainInv, BeforeInit, InitForCurrentProcessor, Progress, ChipsInv, Master, Slave
<1>5. DuringInit(0)'
  BY <1>1, <1>2, <1>3, <1>4 DEF BeforeInit, InitForCurrentProcessor, DuringInit
<1>6. frames' = << Frame(NoIrq, Running'.todo) >>
  BY <1>2, RestSteps
<1> QED
  BY <1>4, <1>5, <1>6 DEF IInv, MainInv, InitForCurrentProcessor

(* With nothing to write and the chips initialized, interrupts may be      *)
(* enabled, disabled, and a mask changed.                                  *)
LEMMA IdleIsBetween ==
  ASSUME IInv, Idle, booted # "no"
  PROVE  MainInv /\ Between
<1>1. Running.irq \notin Irqs
  BY DEF Idle, NoIrq, Irqs, NumIrqsPerPic
<1>2. MainInv
  BY <1>1 DEF IInv, HandlerInv
<1> QED
  BY <1>2, RestSteps DEF Idle, MainInv, BeforeInit, DuringInit, ChangingMask

LEMMA SetFlagStep ==
  ASSUME IInv, EnableInterrupts \/ DisableInterrupts
  PROVE  IInv'
<1>1. MainInv /\ Between
  BY IdleIsBetween DEF EnableInterrupts, DisableInterrupts
<1>2. booted' = "yes" /\ UNCHANGED <<pics, dispatchTable, frames, down, Running>>
  BY DEF EnableInterrupts, DisableInterrupts, Running
<1>3. ChipsInv' /\ Between' /\ Master'.isr = {}
  BY <1>1, <1>2
     DEF IInv, ChipsInv, MainInv, Between, IsReady, TableInv, Master, Slave
<1> QED
  BY <1>1, <1>2, <1>3 DEF IInv, MainInv

LEMMA ChangeMaskStep ==
  ASSUME IInv, NEW irq \in MaskedIrqs, ChangeMask(irq)
  PROVE  IInv'
<1>1. MainInv /\ Between
  BY IdleIsBetween DEF ChangeMask
<1>2. PICK write \in {MaskWrite(pics, irq), UnmaskWrite(pics, irq)} :
        frames' = [frames EXCEPT ![1].todo = << write >>]
  BY DEF ChangeMask
<1>3. write.op = "data" /\ write.pic \in {"master", "slave"}
  BY <1>2 DEF MaskWrite, UnmaskWrite, Data, PicOf
<1>4. frames' = << Frame(NoIrq, << write >>) >>
  BY <1>1, <1>2, TopOfOne DEF MainInv
<1>5. Running'.todo = << write >>
  BY <1>4, TopOfOne DEF Running
<1>6. UNCHANGED <<pics, dispatchTable, interruptsEnabled, booted, down>> /\ ~ interruptsEnabled
  BY DEF ChangeMask
<1>7. ChipsInv' /\ IsReady' /\ Master'.isr = {}
  BY <1>1, <1>6 DEF IInv, ChipsInv, MainInv, Between, IsReady, TableInv, Master, Slave
<1>8. ChangingMask'
  BY <1>1, <1>3, <1>5, <1>6, <1>7, Singles DEF Between, ChangingMask
<1>9. frames' = << Frame(NoIrq, Running'.todo) >>
  BY <1>4, <1>5
<1> QED
  BY <1>6, <1>7, <1>8, <1>9 DEF IInv, MainInv
-----------------------------------------------------------------------------
(* The steps of interrupts and their handlers.                             *)

LEMMA EnabledIsBetween ==
  ASSUME IInv, interruptsEnabled
  PROVE  MainInv /\ Between
BY DEF IInv, HandlerInv, MainInv, BeforeInit, DuringInit, ChangingMask

LEMMA EnterStep ==
  ASSUME IInv, MainInv, Between, NEW irq \in Irqs, Enter(IntHwIrq0 + irq),
         UNCHANGED <<dispatchTable, booted>>, ChipsInv',
         Master'.expect = Master.expect, Master'.offset = Master.offset,
         Slave'.expect = Slave.expect, Slave'.offset = Slave.offset,
         LineOf(irq) = 7 \/ InService(irq)', Master'.isr \subseteq {MasterLine(irq)}
  PROVE  IInv'
<1>1. IsReady'
  BY DEF Between, IsReady, TableInv
<1>2. /\ IntHwIrq0 + irq \in Vectors /\ (IntHwIrq0 + irq) - IntHwIrq0 = irq
      /\ IntHwIrq0 + irq \in 32 .. 47
  BY DEF IntHwIrq0, Vectors, Irqs, NumIrqsPerPic
<1>3. dispatchTable[IntHwIrq0 + irq] \in {"timer", "device"}
  BY <1>2 DEF Between, IsReady, TableInv
<1>4. /\ interruptsEnabled' = FALSE /\ down' = FALSE
      /\ frames' = << Frame(irq, EoiWrites(irq)) >> \o frames
  BY <1>2, <1>3 DEF Enter, IInv
<1>5. frames = << Frame(NoIrq, << >>) >>
  BY DEF MainInv, Between
<1>6. frames' = << Frame(irq, EoiWrites(irq)), Frame(NoIrq, << >>) >>
  BY <1>4, <1>5, Singles
<1>7. Running'.irq = irq /\ Running'.todo = EoiWrites(irq)
  BY <1>6, TopOfTwo DEF Running
<1>8. booted' # "no"
  BY DEF Between
<1>9. HandlerInv'
  <2>1. frames' = << Frame(Running'.irq, Running'.todo), Frame(NoIrq, << >>) >>
    BY <1>6, <1>7
  <2>2. LineOf(Running'.irq) = 7 \/ InService(irq)'
    BY <1>7
  <2>3. InService(irq)' = InService(Running.irq)'
    BY <1>7 DEF InService
  <2> QED
    BY <1>1, <1>4, <1>7, <1>8, <2>1, <2>2, <2>3 DEF HandlerInv
<1> QED
  BY <1>4, <1>9 DEF IInv

LEMMA LinesOf ==
  ASSUME NEW l \in Lines
  PROVE  /\ l \in Irqs /\ l + NumIrqsPerPic \in Irqs
         /\ LineOf(l) = l /\ LineOf(l + NumIrqsPerPic) = l
         /\ PicOf(l) = "master" /\ PicOf(l + NumIrqsPerPic) = "slave"
         /\ MasterLine(l) = l /\ MasterLine(l + NumIrqsPerPic) = ChainedIrq
BY DEF Lines, Irqs, NumIrqsPerPic, LineOf, PicOf, MasterLine

LEMMA InterruptStep ==
  ASSUME IInv, Interrupt
  PROVE  IInv'
<1>1. MainInv /\ Between /\ ChipsInv /\ Master.isr = {}
  BY EnabledIsBetween DEF Interrupt, IInv, MainInv
<1>2. UNCHANGED <<dispatchTable, booted>>
  BY DEF Interrupt
<1>3. ChainedIrq \in Lines
  BY DEF ChainedIrq, Lines
<1>4. PICK line \in Lines : line = Min(MasterThrough) /\ line \in MasterThrough
  <2>1. MasterThrough \subseteq Lines
    BY <1>1, <1>3 DEF MasterThrough, Through, ChipsInv, IsChip, Master
  <2> QED
    BY <2>1, LeastLine DEF Interrupt
<1>5. Master.offset = IntHwIrq0 /\ Slave.offset = IntHwIrq0 + NumIrqsPerPic
  BY <1>1 DEF Between, IsReady
<1>6. CASE line # ChainedIrq
  <2>1. /\ pics' = [pics EXCEPT !["master"] = Acknowledge(@, line)]
        /\ Enter(pics["master"].offset + line)
    BY <1>4, <1>6 DEF Interrupt
  <2>2. /\ DOMAIN pics' = {"master", "slave"}
        /\ Master' = Acknowledge(Master, line) /\ Slave' = Slave
    BY <1>1, <2>1 DEF ChipsInv, Master, Slave
  <2>3. /\ ChipsInv' /\ Master'.isr = {line}
        /\ Master'.expect = Master.expect /\ Master'.offset = Master.offset
    BY <1>1, <1>4, <2>2, AcknowledgeOf DEF ChipsInv
  <2>4. InService(line)'
    BY <1>4, <2>3, LinesOf DEF InService, Master
  <2>5. Enter(IntHwIrq0 + line)
    BY <1>5, <2>1 DEF Master
  <2> QED
    BY <1>1, <1>2, <1>4, <2>2, <2>3, <2>4, <2>5, LinesOf, EnterStep
<1>7. CASE line = ChainedIrq
  <2>1. SlaveThrough # {}
    BY <1>1, <1>4, <1>7 DEF MasterThrough, Through, ChipsInv, Master
  <2>2. SlaveThrough \subseteq Lines
    BY <1>1 DEF SlaveThrough, Through, ChipsInv, IsChip, Slave
  <2>3. PICK l \in Lines : l = Min(SlaveThrough)
    BY <2>1, <2>2, LeastLine
  <2>4. /\ pics' = [pics EXCEPT !["master"] = Acknowledge(@, ChainedIrq),
                                !["slave"]  = Acknowledge(@, l)]
        /\ Enter(pics["slave"].offset + l)
    BY <1>4, <1>7, <2>3 DEF Interrupt
  <2> DEFINE irq == l + NumIrqsPerPic
  <2>5. /\ DOMAIN pics' = {"master", "slave"}
        /\ Master' = Acknowledge(Master, ChainedIrq) /\ Slave' = Acknowledge(Slave, l)
    BY <1>1, <2>4 DEF ChipsInv, Master, Slave
  <2>6. /\ ChipsInv' /\ Master'.isr = {ChainedIrq} /\ l \in Slave'.isr
        /\ Master'.expect = Master.expect /\ Master'.offset = Master.offset
        /\ Slave'.expect = Slave.expect /\ Slave'.offset = Slave.offset
    <3>1. /\ IsChip(Master') /\ Master'.isr = {ChainedIrq} /\ ChainedIrq \notin Master'.irr
          /\ Master'.expect = Master.expect /\ Master'.offset = Master.offset
      <4>1. IsChip(Master) /\ Master.isr = {}
        BY <1>1 DEF ChipsInv
      <4>2. Master' = Acknowledge(Master, ChainedIrq)
        BY <2>5
      <4> QED
        BY SMTT(40), <1>3, <4>1, <4>2, AcknowledgeOf
    <3>2. /\ IsChip(Slave') /\ l \in Slave'.isr
          /\ Slave'.expect = Slave.expect /\ Slave'.offset = Slave.offset
      BY <1>1, <2>5, AcknowledgeOf DEF ChipsInv
    <3> QED
      BY <2>5, <3>1, <3>2 DEF ChipsInv
  <2>7. InService(irq)'
    BY <2>6, LinesOf DEF InService, Master, Slave
  <2>8. Enter(IntHwIrq0 + irq)
    <3>1. pics["slave"].offset + l = IntHwIrq0 + irq
      BY <1>5 DEF Slave, Lines, NumIrqsPerPic, IntHwIrq0
    <3> QED
      BY <2>4, <3>1
  <2>9. irq \in Irqs /\ MasterLine(irq) = ChainedIrq
    BY LinesOf
  <2> QED
    BY <1>1, <1>2, <2>6, <2>7, <2>8, <2>9, EnterStep
<1> QED
  BY <1>6, <1>7

LEMMA SpuriousStep ==
  ASSUME IInv, Spurious
  PROVE  IInv'
<1>1. MainInv /\ Between /\ ChipsInv /\ Master.isr = {}
  BY EnabledIsBetween DEF Spurious, IInv, MainInv
<1>2. UNCHANGED <<dispatchTable, booted>>
  BY DEF Spurious
<1>3. 7 \in Lines /\ ChainedIrq \in Lines
  BY DEF ChainedIrq, Lines
<1>4. Master.offset = IntHwIrq0 /\ Slave.offset = IntHwIrq0 + NumIrqsPerPic
  BY <1>1 DEF Between, IsReady
<1>5. CASE Enter(pics["master"].offset + 7) /\ UNCHANGED pics
  <2>1. Enter(IntHwIrq0 + 7) /\ UNCHANGED <<pics, Master, Slave>>
    BY <1>4, <1>5 DEF Master, Slave
  <2>2. ChipsInv' /\ Master'.isr = {}
    BY <1>1, <2>1 DEF ChipsInv, Master, Slave
  <2>3. 7 \in Irqs /\ LineOf(7) = 7
    BY <1>3, LinesOf
  <2> QED
    BY <1>1, <1>2, <2>1, <2>2, <2>3, EnterStep
<1>6. CASE /\ pics' = [pics EXCEPT !["master"] = Acknowledge(@, ChainedIrq)]
           /\ Enter(pics["slave"].offset + 7)
  <2>1. /\ DOMAIN pics' = {"master", "slave"}
        /\ Master' = Acknowledge(Master, ChainedIrq) /\ Slave' = Slave
    BY <1>1, <1>6 DEF ChipsInv, Master, Slave
  <2>2. /\ ChipsInv' /\ Master'.isr = {ChainedIrq}
        /\ Master'.expect = Master.expect /\ Master'.offset = Master.offset
    BY <1>1, <1>3, <2>1, AcknowledgeOf DEF ChipsInv
  <2>3. Enter(IntHwIrq0 + 15)
    <3>1. pics["slave"].offset + 7 = IntHwIrq0 + 15
      BY <1>4 DEF Slave, IntHwIrq0, NumIrqsPerPic
    <3> QED
      BY <1>6, <3>1
  <2>4. 15 \in Irqs /\ LineOf(15) = 7 /\ MasterLine(15) = ChainedIrq
    BY DEF Irqs, LineOf, MasterLine, NumIrqsPerPic
  <2> QED
    BY <1>1, <1>2, <2>1, <2>2, <2>3, <2>4, EnterStep
<1> QED
  BY <1>5, <1>6 DEF Spurious

LEMMA WriteOnHandler ==
  ASSUME IInv, HandlerInv, WritePort
  PROVE  /\ IInv'
         /\ Master.isr \subseteq {MasterLine(Running.irq)}
<1> DEFINE irq == Running.irq
<1>1. /\ frames = << Frame(irq, Running.todo), Frame(NoIrq, << >>) >>
      /\ Running.todo # << >> /\ irq \in Irqs
      /\ UNCHANGED <<dispatchTable, interruptsEnabled, booted, down>>
  BY DEF HandlerInv, WritePort
<1>2. Head(Running.todo) = Eoi
  BY <1>1, EoiWritesAre, Singles DEF HandlerInv
<1>3. Tail(Running.todo) \in {<< >>, <<Eoi>>} /\ Tail(Running.todo) # EoiWrites(irq)
  BY <1>1, EoiWritesAre, Singles DEF HandlerInv
<1>4. frames' = << Frame(irq, Tail(Running.todo)), Frame(NoIrq, << >>) >>
  <2>1. frames = << Frame(irq, Running.todo), Frame(NoIrq, << >>) >>
    BY <1>1
  <2>2. \A t : [frames EXCEPT ![1].todo = t] = << Frame(irq, t), Frame(NoIrq, << >>) >>
    BY <2>1, TopOfTwo
  <2>3. frames' = [frames EXCEPT ![1].todo = Tail(Running.todo)]
    BY DEF WritePort, Running
  <2> QED
    BY <2>2, <2>3, Zenon
<1>5. Running'.irq = irq /\ Running'.todo = Tail(Running.todo)
  BY <1>4, TopOfTwo DEF Running
<1>6. MasterLine(irq) \in Lines /\ Master.isr \subseteq {MasterLine(irq)}
  BY <1>1 DEF HandlerInv, MasterLine, Irqs, NumIrqsPerPic, ChainedIrq, Lines
<1>7. DOMAIN pics' = {"master", "slave"} /\ Master' = Dismiss(Master) /\ Slave' = Slave
  <2>1. Eoi.pic = "master" /\ Eoi.op = "EOI"
    BY DEF Eoi, Command
  <2>2. pics' = Out(pics, Eoi)
    BY <1>2 DEF WritePort
  <2> QED
    BY <2>1, <2>2, OutOf DEF IInv, ChipsInv, Master, Slave
<1>8. /\ ChipsInv' /\ Master'.isr = {}
      /\ Master'.expect = Master.expect /\ Master'.offset = Master.offset
  BY <1>6, <1>7, DismissOf DEF IInv, ChipsInv
<1>9. IsReady'
  BY <1>1, <1>7, <1>8 DEF HandlerInv, IsReady, TableInv
<1>10. HandlerInv'
  <2>1. frames' = << Frame(Running'.irq, Running'.todo), Frame(NoIrq, << >>) >>
    BY <1>4, <1>5
  <2>2. Running'.todo # EoiWrites(Running'.irq) /\ Running'.todo \in {<< >>, <<Eoi>>}
    BY <1>3, <1>5
  <2> QED
    BY <1>1, <1>5, <1>8, <1>9, <2>1, <2>2 DEF HandlerInv
<1> QED
  BY <1>1, <1>6, <1>8, <1>10 DEF IInv

LEMMA ReturnStep ==
  ASSUME IInv, ReturnFromInterrupt
  PROVE  IInv'
<1>1. HandlerInv
  BY MainRuns DEF IInv, ReturnFromInterrupt
<1>2. Running.todo = << >> /\ Master.isr = {}
  BY <1>1, EoiWritesAre DEF HandlerInv, ReturnFromInterrupt
<1>3. frames' = << Frame(NoIrq, << >>) >>
  <2>1. frames = << Frame(Running.irq, Running.todo), Frame(NoIrq, << >>) >>
    BY <1>1 DEF HandlerInv
  <2>2. Tail(frames) = << Frame(NoIrq, << >>) >>
    BY <2>1, TopOfTwo
  <2> QED
    BY <2>2 DEF ReturnFromInterrupt
<1>4. Running'.todo = << >>
  BY <1>3, TopOfOne DEF Running
<1>5. UNCHANGED <<pics, dispatchTable, booted, down, Master, Slave>>
  BY DEF ReturnFromInterrupt, Master, Slave
<1>6. ChipsInv' /\ Master'.isr = {} /\ Between'
  BY <1>1, <1>2, <1>4, <1>5 DEF IInv, HandlerInv, ChipsInv, Between, IsReady, TableInv
<1> QED
  BY <1>3, <1>4, <1>5, <1>6 DEF IInv, MainInv

LEMMA NextInv == IInv /\ [Next]_vars => IInv'
<1> SUFFICES ASSUME IInv, [Next]_vars PROVE IInv'
  OBVIOUS
<1>1. CASE \E irq \in DeviceIrqs : Raise(irq)
  BY <1>1, RaiseStep
<1>2. CASE Interrupt \/ Spurious
  BY <1>2, InterruptStep, SpuriousStep
<1>3. CASE WritePort
  BY <1>3, WriteOnMain, WriteOnHandler DEF IInv
<1>4. CASE ReturnFromInterrupt \/ InitForCurrentProcessor
  BY <1>4, ReturnStep, InitCallStep
<1>5. CASE EnableInterrupts \/ DisableInterrupts
  BY <1>5, SetFlagStep
<1>6. CASE \E irq \in MaskedIrqs : ChangeMask(irq)
  BY <1>6, ChangeMaskStep
<1>7. CASE UNCHANGED vars
  <2>1. UNCHANGED <<pics, dispatchTable, interruptsEnabled, frames, booted, down, Running, Master,
                    Slave>>
    BY <1>7 DEF vars, Running, Master, Slave
  <2>2. ChipsInv' /\ (IsReady => IsReady') /\ (TableInv => TableInv')
    BY <2>1 DEF IInv, ChipsInv, IsReady, TableInv
  <2>3. \A k \in 0 .. 11 : Progress(k) => Progress(k)'
    BY <2>1 DEF Progress
  <2>4. BeforeInit => BeforeInit'
    BY <2>1, <2>3 DEF BeforeInit
  <2>5. ASSUME NEW k \in 0 .. 11, DuringInit(k) PROVE DuringInit(k)'
    BY <2>1, <2>2, <2>3, <2>5 DEF DuringInit
  <2>6. (Between => Between') /\ (ChangingMask => ChangingMask')
    BY <2>1, <2>2 DEF Between, ChangingMask
  <2>7. MainInv => MainInv'
    BY <2>1, <2>4, <2>5, <2>6 DEF MainInv
  <2>8. HandlerInv => HandlerInv'
    BY <2>1, <2>2 DEF HandlerInv, InService
  <2> QED
    BY <2>1, <2>2, <2>7, <2>8 DEF IInv
<1> QED
  BY <1>1, <1>2, <1>3, <1>4, <1>5, <1>6, <1>7 DEF Next, Continue

(* The inductive invariant, from the state the BIOS leaves the chips in.   *)
THEOREM InductiveInvariant == Spec => []IInv
BY InitInv, NextInv, PTL DEF Spec

(* From the first interrupt on, whatever line it is on, each finds one of  *)
(* the handlers that InterruptDispatcher has registered.                   *)
THEOREM InterruptsAreHandledAlways == Spec => []InterruptsAreHandled
<1>1. IInv => InterruptsAreHandled
  BY DEF IInv, InterruptsAreHandled
<1> QED
  BY <1>1, InductiveInvariant, PTL

(* The IRQ number a handler works out of the vector is that of the line in *)
(* service, but for line 7 of a chip.                                      *)
THEOREM HandlerMatchesLineAlways == Spec => []HandlerMatchesLine
<1>1. IInv => HandlerMatchesLine
  BY MainRuns DEF IInv, HandlerInv, HandlerMatchesLine
<1> QED
  BY <1>1, InductiveInvariant, PTL

(* The ends of interrupt that a handler sends dismiss, of what the master  *)
(* has in service, only the line that its interrupt came in on.            *)
THEOREM DismissesItsOwnAlways == Spec => DismissesItsOwn
<1> DEFINE Dismissal ==
      WritePort /\ Running.irq # NoIrq =>
        pics["master"].isr \ pics'["master"].isr \subseteq {MasterLine(Running.irq)}
<1>1. IInv /\ [Next]_vars => [Dismissal]_vars
  <2> SUFFICES ASSUME IInv, WritePort, Running.irq # NoIrq
               PROVE  pics["master"].isr \subseteq {MasterLine(Running.irq)}
    OBVIOUS
  <2>1. HandlerInv
    BY MainRuns DEF IInv
  <2> QED
    BY <2>1, WriteOnHandler DEF Master
<1>2. IInv /\ [Next]_vars /\ IInv' => [Dismissal]_vars
  BY <1>1
<1> QED
  BY <1>1, InductiveInvariant, PTL DEF Spec, DismissesItsOwn
=============================================================================
