------------------------- MODULE InterruptDispatcher -------------------------
(***************************************************************************)
(* How device interrupts get to their handlers: InterruptDispatcher and    *)
(* Processor (dispatch table, interrupt gates, IF flag) of the x86 build,  *)
(* with the interrupt controller and the devices, from Processor_initPri-  *)
(* mary() on.  The kernel code that runs meanwhile is kmain(), and callers *)
(* of mask() and unmask(), which disable interrupts first, as they must.   *)
(***************************************************************************)
EXTENDS InterruptController

CONSTANTS
  DeviceIrqs,    \* the lines devices are on
  MaskedIrqs     \* those that callers mask and unmask

ASSUME DeviceAssumption ==
  /\ DeviceIrqs \subseteq Irqs \ {ChainedIrq}
  /\ MaskedIrqs \subseteq Irqs

NoIrq      == 16
IntSysCall == 48
Vectors    == 0 .. 48       \* NUM_IDT_ENTRIES of them

VARIABLES
  pics,                 \* the two chips
  dispatchTable,        \* m_dispatchTable: vector |-> kind of handler
  interruptsEnabled,    \* IF
  frames,               \* kernel stack: what is running, and what it interrupted,
                        \*   each with the port writes it has still to do
  booted,               \* how far kmain() has got
  down                  \* the machine has gone down

vars == <<pics, dispatchTable, interruptsEnabled, frames, booted, down>>

Frame(irq, writes) == [irq |-> irq, todo |-> writes]

Running == frames[1]
Idle    == Running.irq = NoIrq /\ Running.todo = << >>

(* What the BIOS leaves; initDispatchTable() and then ExceptionDispatcher. *)
Init ==
  /\ pics = [p \in {"master", "slave"} |->
       [imr |-> 0, irr |-> {}, isr |-> {}, expect |-> "mask",
        offset |-> IF p = "master" THEN 8 ELSE 112]]
  /\ dispatchTable = [v \in Vectors |->
       IF v < IntHwIrq0 \/ v = IntSysCall THEN "exception" ELSE "default"]
  /\ interruptsEnabled = FALSE
  /\ frames = << Frame(NoIrq, << >>) >>
  /\ booted = "no"
  /\ down = FALSE
-----------------------------------------------------------------------------
(* The chips.                                                              *)
SlaveThrough == Through(pics["slave"], pics["slave"].irr)

MasterThrough ==
  Through(pics["master"],
          pics["master"].irr \cup (IF SlaveThrough # {} THEN {ChainedIrq} ELSE {}))

(* A device requests an interrupt.                                         *)
Raise(irq) ==
  /\ LineOf(irq) \notin pics[PicOf(irq)].irr
  /\ pics' = [pics EXCEPT ![PicOf(irq)] = Request(@, LineOf(irq))]
  /\ UNCHANGED <<dispatchTable, interruptsEnabled, frames, booted, down>>

(* Bug: the gates leave interrupts enabled.                                *)
EnterByTrapGate(vector) ==
  LET irq == vector - IntHwIrq0 IN
  /\ interruptsEnabled' = interruptsEnabled
  /\ IF vector \in Vectors /\ dispatchTable[vector] \in {"timer", "device"}
       THEN frames' = << Frame(irq, EoiWrites(irq)) >> \o frames /\ UNCHANGED down
       ELSE down' = TRUE /\ UNCHANGED frames

(* Through an interrupt gate, which clears IF, to the registered handler.  *)
(* Both handlers of InterruptDispatcher end the interrupt; the default one *)
(* resets the machine, and exceptions in the kernel are fatal.             *)
Enter(vector) ==
  LET irq == vector - IntHwIrq0 IN
  /\ interruptsEnabled' = FALSE
  /\ IF vector \in Vectors /\ dispatchTable[vector] \in {"timer", "device"}
       THEN frames' = << Frame(irq, EoiWrites(irq)) >> \o frames /\ UNCHANGED down
       ELSE down' = TRUE /\ UNCHANGED frames

(* The processor takes the interrupt of highest priority.                  *)
Interrupt ==
  /\ interruptsEnabled /\ MasterThrough # {}
  /\ LET line == Min(MasterThrough) IN
     \/ /\ line # ChainedIrq
        /\ pics' = [pics EXCEPT !["master"] = Acknowledge(@, line)]
        /\ Enter(pics["master"].offset + line)
     \/ /\ line = ChainedIrq
        /\ pics' = [pics EXCEPT !["master"] = Acknowledge(@, line),
                                !["slave"]  = Acknowledge(@, Min(SlaveThrough))]
        /\ Enter(pics["slave"].offset + Min(SlaveThrough))
  /\ UNCHANGED <<dispatchTable, booted>>

(* A device withdrew its request too late: the chip acknowledges line 7,   *)
(* which is not in service then.                                           *)
Spurious ==
  /\ interruptsEnabled /\ MasterThrough = {}
  /\ \/ Enter(pics["master"].offset + 7) /\ UNCHANGED pics
     \/ /\ Through(pics["master"], {ChainedIrq}) # {}
        /\ pics' = [pics EXCEPT !["master"] = Acknowledge(@, ChainedIrq)]
        /\ Enter(pics["slave"].offset + 7)
  /\ UNCHANGED <<dispatchTable, booted>>
-----------------------------------------------------------------------------
(* Code that runs.                                                         *)

(* The next IO_out8() of whatever is running.                              *)
WritePort ==
  /\ Running.todo # << >>
  /\ pics' = Out(pics, Head(Running.todo))
  /\ frames' = [frames EXCEPT ![1].todo = Tail(@)]
  /\ UNCHANGED <<dispatchTable, interruptsEnabled, booted, down>>

(* The handler returns NULL, and EnterKernel dismisses the interrupt: iret *)
(* restores IF, which was set where the interrupt came in.                 *)
ReturnFromInterrupt ==
  /\ Running.irq # NoIrq /\ Running.todo = << >>
  /\ frames' = Tail(frames)
  /\ interruptsEnabled' = TRUE
  /\ UNCHANGED <<pics, dispatchTable, booted, down>>

(* Bug: only the master's vectors get a handler.                           *)
InitForCurrentProcessorMaster ==
  /\ booted = "no"
  /\ booted' = "initialized"
  /\ dispatchTable' = [v \in Vectors |->
       IF v - IntHwIrq0 \in 1 .. 7 THEN "device"
       ELSE IF v = IntHwIrq0 THEN "timer" ELSE dispatchTable[v]]
  /\ frames' = << Frame(NoIrq, InitWrites) >>
  /\ UNCHANGED <<pics, interruptsEnabled, down>>

(* InterruptDispatcher_initForCurrentProcessor()                           *)
InitForCurrentProcessor ==
  /\ booted = "no"
  /\ booted' = "initialized"
  /\ dispatchTable' = [v \in Vectors |->
       IF v - IntHwIrq0 \in Irqs \ {0} THEN "device"
       ELSE IF v = IntHwIrq0 THEN "timer" ELSE dispatchTable[v]]
  /\ frames' = << Frame(NoIrq, InitWrites) >>
  /\ UNCHANGED <<pics, interruptsEnabled, down>>

(* The end of kmain(), and of code that disabled interrupts.               *)
EnableInterrupts ==
  /\ booted # "no" /\ Idle /\ ~ interruptsEnabled
  /\ booted' = "yes"
  /\ interruptsEnabled' = TRUE
  /\ UNCHANGED <<pics, dispatchTable, frames, down>>

(* Interrupts that are pending are taken first.                            *)
DisableInterrupts ==
  /\ booted = "yes" /\ Idle /\ interruptsEnabled /\ MasterThrough = {}
  /\ interruptsEnabled' = FALSE
  /\ UNCHANGED <<pics, dispatchTable, frames, booted, down>>

(* mask() or unmask(): the mask is read; the write is a step of its own.   *)
ChangeMask(irq) ==
  /\ booted # "no" /\ Idle /\ ~ interruptsEnabled
  /\ \E write \in {MaskWrite(pics, irq), UnmaskWrite(pics, irq)} :
       frames' = [frames EXCEPT ![1].todo = << write >>]
  /\ UNCHANGED <<pics, dispatchTable, interruptsEnabled, booted, down>>
-----------------------------------------------------------------------------
(* Steps the processor does not put off.                                   *)
Continue == WritePort \/ ReturnFromInterrupt \/ InitForCurrentProcessor

Next ==
  /\ ~ down
  /\ \/ \E irq \in DeviceIrqs : Raise(irq)
     \/ Interrupt \/ Spurious
     \/ Continue
     \/ EnableInterrupts \/ DisableInterrupts
     \/ \E irq \in MaskedIrqs : ChangeMask(irq)

Spec == Init /\ [][Next]_vars

(* The processor goes on and takes interrupts; code that has disabled them *)
(* enables them again.  Nothing is said of the devices.                    *)
Fairness ==
  /\ WF_vars(~ down /\ Continue)
  /\ WF_vars(~ down /\ Interrupt)
  /\ SF_vars(~ down /\ EnableInterrupts)

FairSpec == Spec /\ Fairness
-----------------------------------------------------------------------------
(* Handlers do not nest: there is at most one frame above the main code's. *)
TypeOK ==
  /\ pics \in [{"master", "slave"} -> Pics]
  /\ dispatchTable \in [Vectors -> {"default", "exception", "timer", "device"}]
  /\ interruptsEnabled \in BOOLEAN
  /\ Len(frames) \in 1 .. 2
  /\ \A k \in DOMAIN frames :
       /\ frames[k].irq \in Irqs \cup {NoIrq}
       /\ frames[k].irq = NoIrq <=> k = Len(frames)
  /\ booted \in {"no", "initialized", "yes"}
  /\ down \in BOOLEAN

(* From the first interrupt on, whatever line it is on, none gets to the   *)
(* default handler, which resets the machine, or is taken for an exception *)
(* because its chip still has the vectors the BIOS gave it.                *)
InterruptsAreHandled == ~ down

InService(irq) ==
  /\ LineOf(irq) \in pics[PicOf(irq)].isr
  /\ PicOf(irq) = "slave" => ChainedIrq \in pics["master"].isr

(* The IRQ number a handler works out of the vector is the line that is in *)
(* service (but for line 7 of a chip, which may be spurious).              *)
HandlerMatchesLine ==
  Running.irq # NoIrq /\ Running.todo = EoiWrites(Running.irq)
    => LineOf(Running.irq) = 7 \/ InService(Running.irq)

(* The line of the master that the interrupt came in on.                   *)
MasterLine(irq) == IF irq < NumIrqsPerPic THEN irq ELSE ChainedIrq

(* Although an end of interrupt does not name a line, a handler's dismiss  *)
(* no other interrupt than its own: of those the master has in service,    *)
(* only the line that the handler's interrupt came in on.                  *)
DismissesItsOwn ==
  [][WritePort /\ Running.irq # NoIrq =>
       pics["master"].isr \ pics'["master"].isr \subseteq {MasterLine(Running.irq)}]_vars

Requested(irq) ==
  /\ LineOf(irq) \in pics[PicOf(irq)].irr
  /\ LineOf(irq) \notin Bits(pics[PicOf(irq)].imr)

(* An interrupt that a device on the master requests, and that is not      *)
(* masked, is handled, unless there is no end to others of a higher        *)
(* priority.  Interrupts of the slave count as the line it is chained to.  *)
MasterServed ==
  \A irq \in DeviceIrqs \cap 0 .. NumIrqsPerPic - 1 :
    <>[]Requested(irq)
      => []<>(Running.irq # NoIrq /\ MasterLine(Running.irq) < irq)

(* InterruptController_x86_8259A.c, where a handler ends its interrupt:    *)
(* "Send EOI to the slave."  So when no handler runs, neither chip has an  *)
(* interrupt in service, which would hold back those of lower priority.    *)
NothingLeftInService ==
  Running.irq = NoIrq => pics["master"].isr = {} /\ pics["slave"].isr = {}
=============================================================================
