--------------------------- MODULE KShutdownProofs ---------------------------
(***************************************************************************)
(* What holds of the way down for every size of the buffer, every delay,   *)
(* and however many exceptions come on top of each other.                  *)
(***************************************************************************)
EXTENDS KShutdown, SequenceTheorems, TLAPS

Chars == Controls \cup {"boot1", "boot2", "irq", "fail1", "fail2", "halted", "rebooting", "."}

BootPCs     == {"DisplayTextStream_init", "KShutdown_init", "ExceptionDispatcher_init"}
LockedPCs   == {"write", "clear", "unlock"}
WritePCs    == {"lock"} \cup LockedPCs
ControlPCs  == {"takeDisplay", "assertDisabled", "resetPrint", "resetClear", "finish", "halt",
                "reboot"}
AfterWriting == {"finish", "halt", "reboot"}

ShutdownOps == {"fail", "halt", "reboot"}

(* What each kind of frame does; only shutdowns go on after writing.       *)
FrameOK(f) ==
  /\ f.op = "kmain" =>
       f.pc \in BootPCs \cup {"idle"} \cup WritePCs /\ f.then = "idle"
  /\ f.op = "interrupt" =>
       f.pc \in {"return"} \cup WritePCs /\ f.then = "return"
  /\ f.op \in ShutdownOps =>
       /\ f.pc \in {"initiate"} \cup ControlPCs \cup WritePCs
       /\ f.then \in {"idle"} \cup AfterWriting
       /\ f.pc \in WritePCs => f.then \in AfterWriting
  /\ f.pc \in WritePCs => Len(f.out) >= 1

Frames ==
  {f \in [op : {"kmain", "interrupt"} \cup ShutdownOps, pc : PCs, out : Seq(Chars),
          then : {"idle", "return"} \cup AfterWriting] : FrameOK(f)}

(* kmain() is at the bottom of the stack, and an interrupt right above     *)
(* what is at the bottom; the rest are exceptions.                         *)
StackInv ==
  /\ frames \in Seq(Frames) /\ Len(frames) >= 1
  /\ \A k \in 1 .. Len(frames) :
       /\ frames[k].op = "kmain" => k = Len(frames)
       /\ frames[k].op = "interrupt" => k = Len(frames) - 1

(* Nobody comes on top of the boot phase.                                  *)
BootInv ==
  Running.pc \in BootPCs =>
    /\ ~ handlersRegistered /\ ~ interruptsEnabled /\ ~ wanted
    /\ Running.pc = "DisplayTextStream_init" => accepted = << >>

(* Where interrupts may be enabled.                                        *)
Preemptible(f) ==
  \/ f.op = "kmain" /\ f.pc \in {"idle", "lock"}
  \/ f.op \in ShutdownOps /\ f.pc \in {"initiate", "takeDisplay", "assertDisabled"}

InterruptInv ==
  /\ interruptsEnabled => Len(frames) = 1 /\ Preemptible(Running)
  /\ Running.op = "interrupt" =>
       /\ Preemptible(frames[2])
       /\ frames[2].op = "kmain" => wanted
       /\ Running.pc \in LockedPCs /\ ~ InShutdownMode => ~ lock
  /\ Running.op = "kmain" /\ machine = "running" =>
       IF Running.pc \in LockedPCs THEN lock = wanted ELSE interruptsEnabled = wanted

(* The mode and who set it: nobody, as long as kmain() runs.               *)
ModeInv ==
  /\ ~ InShutdownMode => \A k \in 1 .. Len(frames) : ~ InControl(k)
  /\ OneInControl
  /\ /\ InShutdownMode
     /\ Running.op = "kmain" \/ (Running.op = "interrupt" /\ frames[2].op = "kmain")
     => Running.pc \in {"DisplayTextStream_init", "KShutdown_init"}

(* Between printing and resetting its index, the buffer is on the display  *)
(* already; so it is until what interrupted that has cleared the display.  *)
Printed(f) == f.pc \in {"clear", "resetClear"}

DropInv ==
  \/ display \o buffer = accepted /\ ~ Printed(Running)
  \/ display = accepted /\ Printed(Running)
  \/ /\ display = accepted /\ Running.pc \in {"initiate", "takeDisplay"}
     /\ \E k \in 1 .. Len(frames) : Printed(frames[k])

DataOK ==
  /\ interruptsEnabled \in BOOLEAN /\ lock \in BOOLEAN /\ wanted \in BOOLEAN
  /\ buffer \in Seq(Chars) /\ Len(buffer) <= BufferSize
  /\ display \in Seq(Chars) /\ accepted \in Seq(Chars)
  /\ shutdownProcessorID \in {-1, 0}
  /\ rebootOnFail \in BOOLEAN /\ rebootDelay \in Nat /\ handlersRegistered \in BOOLEAN
  /\ machine \in {"running", "halted", "rebooted", "reset"}

IInv == DataOK /\ StackInv /\ BootInv /\ InterruptInv /\ ModeInv /\ DropInv
-----------------------------------------------------------------------------
(* The stack                                                               *)

(* A step of the frame on top leaves the stack as it is below.             *)
LEMMA TopStep ==
  ASSUME StackInv, NEW f \in Frames, f.op = Running.op, frames' = [frames EXCEPT ![1] = f]
  PROVE  /\ StackInv' /\ Running' = f /\ Len(frames') = Len(frames)
         /\ \A k \in 2 .. Len(frames) : frames'[k] = frames[k]
<1>1. Len(frames) \in Nat \ {0} /\ 1 \in 1 .. Len(frames)
  BY DEF StackInv
<1>2. /\ frames' \in Seq(Frames) /\ Len(frames') = Len(frames)
      /\ \A k \in 1 .. Len(frames) : frames'[k] = IF k = 1 THEN f ELSE frames[k]
  BY <1>1, ExceptSeq DEF StackInv
<1>3. \A k \in 1 .. Len(frames) : frames'[k].op = frames[k].op
  BY SMTT(40), <1>2 DEF Running
<1>4. StackInv'
  BY ZenonT(40), <1>1, <1>2, <1>3 DEF StackInv
<1> QED
  BY <1>1, <1>2, <1>4 DEF Running

(* A frame that starts on top of the others, which move down.              *)
LEMMA TopPushed ==
  ASSUME StackInv, NEW f \in Frames, frames' = << f >> \o frames, f.op # "kmain",
         f.op = "interrupt" => Len(frames) = 1
  PROVE  /\ StackInv' /\ Running' = f /\ Len(frames') = Len(frames) + 1
         /\ \A k \in 1 .. Len(frames) : frames'[k + 1] = frames[k]
<1>1. Len(frames) \in Nat \ {0}
  BY DEF StackInv
<1>2. << f >> \in Seq(Frames) /\ Len(<< f >>) = 1 /\ << f >>[1] = f
  OBVIOUS
<1>3. /\ frames' \in Seq(Frames) /\ Len(frames') = 1 + Len(frames)
      /\ \A k \in 1 .. 1 + Len(frames) : frames'[k] = IF k <= 1 THEN << f >>[k] ELSE frames[k - 1]
  BY <1>2, ConcatProperties DEF StackInv
<1>4. Running' = f /\ \A k \in 1 .. Len(frames) : frames'[k + 1] = frames[k]
  BY <1>1, <1>2, <1>3 DEF Running
<1>5. \A k \in 1 .. Len(frames') : frames'[k] = IF k = 1 THEN f ELSE frames[k - 1]
  BY <1>1, <1>2, <1>3
<1> QED
  BY <1>1, <1>3, <1>4, <1>5 DEF StackInv

LEMMA AloneOnStack ==
  ASSUME frames' \in Seq(Frames), Len(frames') = 1, frames'[1].op # "interrupt"
  PROVE  StackInv'
BY DEF StackInv

LEMMA TailOfTwo ==
  ASSUME NEW S, NEW s \in Seq(S), Len(s) = 2
  PROVE  Tail(s) \in Seq(S) /\ Len(Tail(s)) = 1 /\ Tail(s)[1] = s[2]
<1> DEFINE t == Tail(s)
<1>1. s # << >>
  OBVIOUS
<1>2. t \in Seq(S) /\ Len(t) = 1 /\ \A i \in 1 .. Len(t) : t[i] = s[i + 1]
  BY <1>1, HeadTailProperties
<1> HIDE DEF t
<1>3. t[1] = s[1 + 1]
  BY <1>2
<1> QED
  BY <1>2, <1>3 DEF t

(* Only the frame of an interrupt ever ends: what is below goes on, alone. *)
LEMMA TopPopped ==
  ASSUME StackInv, Running.op = "interrupt", frames' = Tail(frames)
  PROVE  StackInv' /\ Len(frames) = 2 /\ Len(frames') = 1 /\ Running' = frames[2]
<1>1. Len(frames) = 2
  <2>1. Len(frames) \in Nat /\ 1 \in 1 .. Len(frames)
    BY DEF StackInv
  <2>2. frames[1].op = "interrupt" => 1 = Len(frames) - 1
    BY <2>1 DEF StackInv
  <2>3. frames[1].op = "interrupt"
    BY DEF Running
  <2> QED
    BY <2>1, <2>2, <2>3
<1>2. frames' \in Seq(Frames) /\ Len(frames') = 1 /\ frames'[1] = frames[2]
  BY <1>1, TailOfTwo DEF StackInv
<1>3. frames[2].op # "interrupt"
  BY <1>1 DEF StackInv
<1>4. StackInv'
  BY <1>2, <1>3, AloneOnStack
<1> QED
  BY <1>1, <1>2, <1>4 DEF Running

(* kmain() in the idle loop, alone, begins something.                      *)
LEMMA TopReplaced ==
  ASSUME StackInv, Running.pc = "idle", NEW f \in Frames, f.op # "interrupt",
         frames' = << f >>
  PROVE  StackInv' /\ Running.op = "kmain" /\ Len(frames) = 1 /\ Len(frames') = 1 /\ Running' = f
<1>1. Running \in Frames /\ Len(frames) \in Nat \ {0}
  BY ElementOfSeq DEF StackInv, Running
<1>2. Running.op = "kmain"
  BY <1>1 DEF Frames, FrameOK, BootPCs, WritePCs, LockedPCs, ControlPCs, ShutdownOps
<1>3. Len(frames) = 1
  BY <1>1, <1>2 DEF StackInv, Running
<1>4. frames' \in Seq(Frames) /\ Len(frames') = 1 /\ frames'[1] = f
  OBVIOUS
<1> QED
  BY <1>2, <1>3, <1>4 DEF StackInv, Running
-----------------------------------------------------------------------------
(* The parts of the invariant, for steps of the frame on top               *)

USE DEF ShutdownOps, BootPCs, LockedPCs, WritePCs, ControlPCs, AfterWriting

TopKept ==
  /\ Len(frames') = Len(frames)
  /\ \A k \in 2 .. Len(frames) : frames'[k] = frames[k]

LEMMA RunningIsFrame ==
  ASSUME StackInv
  PROVE  /\ Running \in Frames /\ Len(frames) \in Nat \ {0} /\ Running = frames[1]
         /\ Running.op = "kmain" => Len(frames) = 1
         /\ Running.op = "interrupt" => Len(frames) = 2
<1>1. Len(frames) \in Nat \ {0} /\ 1 \in 1 .. Len(frames)
  BY DEF StackInv
<1>2. Running \in Frames /\ Running = frames[1]
  BY <1>1, ElementOfSeq DEF StackInv, Running
<1>3. /\ frames[1].op = "kmain" => 1 = Len(frames)
      /\ frames[1].op = "interrupt" => 1 = Len(frames) - 1
  BY <1>1 DEF StackInv
<1> QED
  BY <1>1, <1>2, <1>3

LEMMA GotoStep ==
  ASSUME StackInv, NEW from, NEW to \in PCs, Goto(from, to),
         FrameOK([Running EXCEPT !.pc = to])
  PROVE  /\ StackInv' /\ Running' \in Frames /\ TopKept
         /\ Running' = [Running EXCEPT !.pc = to] /\ Running.pc = from
<1> DEFINE f == [Running EXCEPT !.pc = to]
<1>1. Running \in Frames /\ Running = frames[1]
  BY RunningIsFrame
<1>2. f \in Frames /\ f.op = Running.op
  BY <1>1 DEF Frames
<1>3. frames' = [frames EXCEPT ![1] = f] /\ Running.pc = from
  BY <1>1 DEF Goto
<1> HIDE DEF f
<1>4. StackInv' /\ Running' = f /\ TopKept
  BY <1>2, <1>3, TopStep DEF TopKept
<1> QED
  BY <1>2, <1>3, <1>4 DEF f

(* A frame past the compare-and-swap.                                      *)
Owns(f) == f.pc \in ControlPCs \/ f.then \in AfterWriting

LEMMA ModeKept ==
  ASSUME StackInv, ModeInv, TopKept, UNCHANGED shutdownProcessorID,
         Running'.op = Running.op, Owns(Running') => Owns(Running),
         Running.pc \in {"DisplayTextStream_init", "KShutdown_init"} =>
           Running'.pc \in {"DisplayTextStream_init", "KShutdown_init"}
  PROVE  ModeInv'
<1>1. Len(frames) \in Nat \ {0} /\ Running = frames[1] /\ Running' = frames'[1]
      /\ DOMAIN frames = 1 .. Len(frames)
  BY RunningIsFrame, LenProperties DEF StackInv, Running
<1>2. \A k \in 1 .. Len(frames) : InControl(k)' => InControl(k)
  BY <1>1 DEF InControl, Owns, TopKept
<1> QED
  BY <1>1, <1>2, RunningIsFrame DEF ModeInv, OneInControl, InShutdownMode, TopKept

(* What a frame does under the lock changes nothing about interrupts.      *)
LEMMA InterruptKept ==
  ASSUME StackInv, InterruptInv, TopKept, Running \in Frames,
         Running.pc \in LockedPCs, Running'.pc \in LockedPCs, Running'.op = Running.op,
         UNCHANGED <<interruptsEnabled, lock, shutdownProcessorID, machine, wanted>>
  PROVE  InterruptInv'
<1>1. ~ interruptsEnabled'
  BY DEF InterruptInv, Preemptible
<1>2. CASE Running.op = "kmain"
  BY <1>1, <1>2 DEF InterruptInv
<1>3. CASE Running.op = "interrupt"
  <2>1. Len(frames) = 2 /\ frames'[2] = frames[2]
    BY <1>3, RunningIsFrame DEF TopKept
  <2> QED
    BY <1>1, <1>3, <2>1 DEF InterruptInv, InShutdownMode, Preemptible
<1>4. CASE Running.op \in ShutdownOps
  BY <1>1, <1>4 DEF InterruptInv
<1> QED
  BY <1>2, <1>3, <1>4 DEF Frames

(* DisplayTextStream_init() empties a buffer that nobody has written to.   *)
LEMMA DisplayTextStreamInitStep ==
  ASSUME IInv, machine = "running", DisplayTextStreamInit
  PROVE  IInv'
<1> USE DEF DisplayTextStreamInit, settings
<1>1. Running \in Frames /\ Len(frames) \in Nat /\ StackInv
  BY RunningIsFrame DEF IInv
<1>2. /\ StackInv' /\ Running' \in Frames /\ TopKept
      /\ Running' = [Running EXCEPT !.pc = "KShutdown_init"]
      /\ Running.pc = "DisplayTextStream_init"
  <2>1. Running.pc = "DisplayTextStream_init" /\ Goto("DisplayTextStream_init", "KShutdown_init")
    BY DEF Goto
  <2>2. FrameOK([Running EXCEPT !.pc = "KShutdown_init"])
    BY <1>1, <2>1 DEF Frames, FrameOK
  <2> QED
    BY <1>1, <2>1, <2>2, GotoStep DEF PCs
<1>3. DataOK'
  <2>1. << >> \in Seq(Chars) /\ Len(<< >>) = 0
    OBVIOUS
  <2>2. buffer' = << >> /\ display' = << >> /\ lock' \in BOOLEAN
    OBVIOUS
  <2>3. UNCHANGED <<interruptsEnabled, wanted, accepted, shutdownProcessorID, rebootOnFail,
                    rebootDelay, handlersRegistered, machine>>
    OBVIOUS
  <2> HIDE DEF DisplayTextStreamInit
  <2> QED
    BY <2>1, <2>2, <2>3, BufferAssumption DEF IInv, DataOK
<1>4. BootInv'
  BY <1>2 DEF IInv, BootInv
<1>5. InterruptInv'
  BY <1>1, <1>2, RunningIsFrame DEF IInv, BootInv, InterruptInv, Preemptible, Frames, FrameOK
<1>6. ModeInv'
  BY <1>1, <1>2, ModeKept DEF IInv, Frames, Owns
<1>7. DropInv'
  BY <1>1, <1>2 DEF IInv, BootInv, DropInv, Printed, Frames
<1> QED
  BY <1>2, <1>3, <1>4, <1>5, <1>6, <1>7 DEF IInv

(* KShutdown_init() leaves the mode that a cleared structure says it is in. *)
LEMMA KShutdownInitStep ==
  ASSUME IInv, machine = "running", KShutdownInit
  PROVE  IInv'
<1> USE DEF KShutdownInit
<1>1. Running \in Frames /\ Len(frames) \in Nat /\ StackInv
  BY RunningIsFrame DEF IInv
<1>2. /\ StackInv' /\ Running' \in Frames /\ TopKept
      /\ Running' = [Running EXCEPT !.pc = "ExceptionDispatcher_init"]
      /\ Running.pc = "KShutdown_init"
  <2>1. Running.pc = "KShutdown_init" /\ Goto("KShutdown_init", "ExceptionDispatcher_init")
    BY DEF Goto
  <2>2. FrameOK([Running EXCEPT !.pc = "ExceptionDispatcher_init"])
    BY <1>1, <2>1 DEF Frames, FrameOK
  <2> QED
    BY <1>1, <2>1, <2>2, GotoStep DEF PCs
<1>3. DataOK'
  BY ShutdownAssumption DEF IInv, DataOK
<1>4. BootInv'
  BY <1>2 DEF IInv, BootInv
<1>5. InterruptInv'
  BY <1>1, <1>2, RunningIsFrame DEF IInv, BootInv, InterruptInv, Preemptible, Frames, FrameOK
<1>6. ModeInv'
  <2>1. Running.op = "kmain" /\ Running.then = "idle" /\ Len(frames) = 1
    BY <1>1, <1>2, RunningIsFrame DEF Frames, FrameOK
  <2>2. Len(frames') = 1 /\ frames'[1] = Running'
    BY <1>2, <2>1 DEF TopKept, Running
  <2>3. ~ InControl(1)' /\ DOMAIN frames' = 1 .. 1
    BY <1>2, <2>1, <2>2, LenProperties DEF InControl, Frames, StackInv
  <2> QED
    BY <1>2, <2>1, <2>2, <2>3 DEF ModeInv, OneInControl, InShutdownMode
<1>7. DropInv'
  BY <1>1, <1>2 DEF IInv, DropInv, Printed, Frames
<1> QED
  BY <1>2, <1>3, <1>4, <1>5, <1>6, <1>7 DEF IInv

LEMMA ExceptionDispatcherInitStep ==
  ASSUME IInv, machine = "running", ExceptionDispatcherInit
  PROVE  IInv'
<1> USE DEF ExceptionDispatcherInit
<1>1. Running \in Frames /\ Len(frames) \in Nat /\ StackInv
  BY RunningIsFrame DEF IInv
<1>2. /\ StackInv' /\ Running' \in Frames /\ TopKept
      /\ Running' = [Running EXCEPT !.pc = "idle"]
      /\ Running.pc = "ExceptionDispatcher_init"
  <2>1. Running.pc = "ExceptionDispatcher_init" /\ Goto("ExceptionDispatcher_init", "idle")
    BY DEF Goto
  <2>2. FrameOK([Running EXCEPT !.pc = "idle"])
    BY <1>1, <2>1 DEF Frames, FrameOK
  <2> QED
    BY <1>1, <2>1, <2>2, GotoStep DEF PCs
<1>3. DataOK'
  BY DEF IInv, DataOK
<1>4. BootInv'
  BY <1>2 DEF BootInv, Frames
<1>5. InterruptInv'
  BY <1>1, <1>2, RunningIsFrame DEF IInv, BootInv, InterruptInv, Preemptible, Frames, FrameOK
<1>6. ModeInv'
  BY <1>1, <1>2, ModeKept DEF IInv, Frames, Owns
<1>7. DropInv'
  BY <1>1, <1>2 DEF IInv, DropInv, Printed, Frames
<1> QED
  BY <1>2, <1>3, <1>4, <1>5, <1>6, <1>7 DEF IInv

(* DisplayTextStream_lock(): from here to the unlock, kmain() has its IF   *)
(* in the lock, and a handler has IF disabled in both places.              *)
LEMMA LockStep ==
  ASSUME IInv, machine = "running", Lock, UNCHANGED <<settings, machine, wanted>>
  PROVE  IInv'
<1> USE DEF Lock, settings
<1>1. Running \in Frames /\ Len(frames) \in Nat /\ StackInv
  BY RunningIsFrame DEF IInv
<1>2. /\ StackInv' /\ Running' \in Frames /\ TopKept
      /\ Running' = [Running EXCEPT !.pc = "write"]
      /\ Running.pc = "lock"
  <2>1. Running.pc = "lock" /\ Goto("lock", "write")
    BY DEF Goto
  <2>2. FrameOK([Running EXCEPT !.pc = "write"])
    BY <1>1, <2>1 DEF Frames, FrameOK
  <2> QED
    BY <1>1, <2>1, <2>2, GotoStep DEF PCs
<1>3. DataOK'
  BY DEF IInv, DataOK
<1>4. BootInv'
  BY <1>2 DEF BootInv, Frames
<1>5. InterruptInv'
  <2>1. Running.op = "kmain" => ~ InShutdownMode
    BY <1>1, <1>2 DEF IInv, ModeInv
  <2>2. ~ interruptsEnabled'
    BY <1>1, <1>2, <2>1 DEF IInv, InterruptInv, Preemptible, Frames, FrameOK, DataOK
  <2> QED
    BY SMTT(40), <1>1, <1>2, <2>1, <2>2, RunningIsFrame
    DEF IInv, DataOK, InterruptInv, InShutdownMode, Preemptible, Frames, FrameOK, TopKept
<1>6. ModeInv'
  BY <1>1, <1>2, ModeKept DEF IInv, Frames, Owns
<1>7. DropInv'
  BY <1>1, <1>2 DEF IInv, DropInv, Printed, Frames
<1> QED
  BY <1>2, <1>3, <1>4, <1>5, <1>6, <1>7 DEF IInv

(* Printing the buffer ...                                                 *)
LEMMA PrintBufferStep ==
  ASSUME IInv, machine = "running", PrintBuffer, UNCHANGED <<settings, machine, wanted>>
  PROVE  IInv'
<1> USE DEF PrintBuffer, settings
<1>1. Running \in Frames /\ Len(frames) \in Nat /\ StackInv
  BY RunningIsFrame DEF IInv
<1>2. /\ StackInv' /\ Running' \in Frames /\ TopKept
      /\ Running' = [Running EXCEPT !.pc = "clear"]
      /\ Running.pc = "write"
  <2>1. Running.pc = "write" /\ Goto("write", "clear")
    BY DEF Goto
  <2>2. FrameOK([Running EXCEPT !.pc = "clear"])
    BY <1>1, <2>1 DEF Frames, FrameOK
  <2> QED
    BY <1>1, <2>1, <2>2, GotoStep DEF PCs
<1>3. DataOK'
  BY ConcatProperties DEF IInv, DataOK
<1>4. BootInv'
  BY <1>2 DEF BootInv, Frames
<1>5. InterruptInv'
  BY <1>1, <1>2, InterruptKept DEF IInv, Frames
<1>6. ModeInv'
  BY <1>1, <1>2, ModeKept DEF IInv, Frames, Owns
<1>7. DropInv'
  BY <1>1, <1>2 DEF IInv, DropInv, Printed, Frames
<1> QED
  BY <1>2, <1>3, <1>4, <1>5, <1>6, <1>7 DEF IInv

(* ... and resetting its index, which together lose nothing and show       *)
(* nothing twice.                                                          *)
LEMMA ClearBufferStep ==
  ASSUME IInv, machine = "running", ClearBuffer, UNCHANGED <<settings, machine, wanted>>
  PROVE  IInv'
<1> USE DEF ClearBuffer, settings
<1>1. Running \in Frames /\ Len(frames) \in Nat /\ StackInv
  BY RunningIsFrame DEF IInv
<1>2. PICK to \in {"write", "unlock"} : Goto("clear", to)
  OBVIOUS
<1>3. /\ StackInv' /\ Running' \in Frames /\ TopKept
      /\ Running' = [Running EXCEPT !.pc = to]
      /\ Running.pc = "clear"
  <2>1. Running.pc = "clear"
    BY <1>2 DEF Goto
  <2>2. FrameOK([Running EXCEPT !.pc = to])
    BY <1>1, <2>1 DEF Frames, FrameOK
  <2> QED
    BY <1>1, <1>2, <2>1, <2>2, GotoStep DEF PCs
<1>4. << >> \in Seq(Chars) /\ Len(<< >>) = 0
  OBVIOUS
<1>5. DataOK'
  BY <1>4, BufferAssumption DEF IInv, DataOK
<1>6. BootInv'
  BY <1>3 DEF BootInv, Frames
<1>7. InterruptInv'
  BY <1>1, <1>3, InterruptKept DEF IInv, Frames
<1>8. ModeInv'
  BY <1>1, <1>3, ModeKept DEF IInv, Frames, Owns
<1>9. DropInv'
  <2>1. display' = accepted' /\ buffer' = << >> /\ display \in Seq(Chars)
    BY <1>3 DEF IInv, DataOK, DropInv, Printed
  <2>2. display' \o buffer' = display'
    BY <2>1, ConcatEmptySeq
  <2> QED
    BY <1>1, <1>3, <2>1, <2>2 DEF DropInv, Printed, Frames
<1> QED
  BY <1>3, <1>5, <1>6, <1>7, <1>8, <1>9 DEF IInv

LEMMA AppendToConcat ==
  ASSUME NEW S, NEW s \in Seq(S), NEW t \in Seq(S), NEW e \in S
  PROVE  s \o Append(t, e) = Append(s \o t, e)
<1>1. << e >> \in Seq(S)
  OBVIOUS
<1>2. Append(t, e) = t \o << e >> /\ Append(s \o t, e) = (s \o t) \o << e >>
  BY AppendIsConcat, ConcatProperties
<1> QED
  BY <1>1, <1>2, ConcatAssociative

(* A character goes to the end of what the display should show.            *)
LEMMA StoreStep ==
  ASSUME IInv, machine = "running", Store, UNCHANGED <<settings, machine, wanted>>
  PROVE  IInv'
<1> DEFINE c == Head(Running.out)
<1> USE DEF Store, settings
<1>1. Running \in Frames /\ Len(frames) \in Nat /\ StackInv
  BY RunningIsFrame DEF IInv
<1>2. /\ StackInv' /\ Running' \in Frames /\ TopKept
      /\ Running' = [Running EXCEPT !.pc = "unlock"]
      /\ Running.pc = "write"
  <2>1. Running.pc = "write" /\ Goto("write", "unlock")
    BY DEF Goto
  <2>2. FrameOK([Running EXCEPT !.pc = "unlock"])
    BY <1>1, <2>1 DEF Frames, FrameOK
  <2> QED
    BY <1>1, <2>1, <2>2, GotoStep DEF PCs
<1>3. c \in Chars
  <2>1. Running.out \in Seq(Chars) /\ Len(Running.out) >= 1
    BY <1>1, <1>2 DEF Frames, FrameOK
  <2>2. Running.out # << >>
    BY <2>1
  <2> QED
    BY <2>1, <2>2, HeadTailProperties
<1> HIDE DEF c
<1>4. buffer' = Append(buffer, c) /\ accepted' = Append(accepted, c) /\ ~ NeedsFlush(c)
  BY DEF c
<1>5. buffer \in Seq(Chars) /\ display \in Seq(Chars) /\ accepted \in Seq(Chars)
  BY DEF IInv, DataOK
<1>6. DataOK'
  <2>1. buffer' \in Seq(Chars) /\ Len(buffer') = Len(buffer) + 1 /\ accepted' \in Seq(Chars)
    BY <1>3, <1>4, <1>5, AppendProperties
  <2>2. Len(buffer) \in Nat /\ Len(buffer) # BufferSize
    BY <1>4, <1>5, LenProperties DEF NeedsFlush
  <2> QED
    BY <2>1, <2>2, BufferAssumption DEF IInv, DataOK
<1>7. BootInv'
  BY <1>2 DEF BootInv, Frames
<1>8. InterruptInv'
  BY <1>1, <1>2, InterruptKept DEF IInv, Frames
<1>9. ModeInv'
  BY <1>1, <1>2, ModeKept DEF IInv, Frames, Owns
<1>10. DropInv'
  <2>1. display \o buffer = accepted
    BY <1>2 DEF IInv, DropInv, Printed
  <2>2. display' \o buffer' = accepted'
    BY <1>3, <1>4, <1>5, <2>1, AppendToConcat
  <2> QED
    BY <1>1, <1>2, <2>2 DEF DropInv, Printed, Frames
<1> QED
  BY <1>2, <1>6, <1>7, <1>8, <1>9, <1>10 DEF IInv

(* DisplayTextStream_unlock() and the next character, if there is one.     *)
LEMMA UnlockStep ==
  ASSUME IInv, machine = "running", Unlock, UNCHANGED <<settings, machine, wanted>>
  PROVE  IInv'
<1> DEFINE f == [Running EXCEPT !.pc = IF Len(Running.out) = 1 THEN Running.then ELSE "lock",
                                !.out = Tail(Running.out)]
<1> USE DEF Unlock, settings
<1>1. Running \in Frames /\ Len(frames) \in Nat /\ StackInv /\ Running = frames[1]
  BY RunningIsFrame DEF IInv
<1>2. f \in Frames /\ f.op = Running.op
  <2>1. Running.out \in Seq(Chars) /\ Len(Running.out) \in Nat \ {0}
    BY <1>1 DEF Frames, FrameOK
  <2>2. Running.out # << >>
    BY <2>1
  <2>3. Tail(Running.out) \in Seq(Chars) /\ Len(Tail(Running.out)) = Len(Running.out) - 1
    BY <2>1, <2>2, HeadTailProperties
  <2>4. f.then = Running.then /\ f.out = Tail(Running.out) /\ f.op = Running.op
        /\ f.pc = IF Len(Running.out) = 1 THEN Running.then ELSE "lock"
    BY <1>1 DEF Frames
  <2>5. FrameOK(f)
    <3>1. /\ Running.pc = "unlock" /\ FrameOK(Running)
          /\ Running.op \in {"kmain", "interrupt"} \cup ShutdownOps
      BY <1>1 DEF Frames
    <3> HIDE DEF f
    <3>2. CASE Len(Running.out) = 1
      BY <2>4, <3>1, <3>2 DEF FrameOK
    <3>3. CASE Len(Running.out) # 1
      <4>1. Len(f.out) >= 1
        <5> DEFINE n == Len(Running.out)
        <5>1. n \in Nat \ {0} /\ n # 1 /\ Len(f.out) = n - 1
          BY <2>1, <2>3, <2>4, <3>3
        <5> HIDE DEF n
        <5> QED
          BY <5>1
      <4>2. f.pc = "lock" /\ f.op = Running.op /\ f.then = Running.then
        BY <2>1, <2>4, <3>3
      <4> QED
        BY <3>1, <4>1, <4>2 DEF FrameOK
    <3> QED
      BY <2>1, <3>2, <3>3
  <2> QED
    BY ZenonT(40), <1>1, <2>3, <2>4, <2>5 DEF Frames, PCs
<1>3. frames' = [frames EXCEPT ![1] = f] /\ Running.pc = "unlock"
  BY <1>1 DEF WriteNext
<1>4. /\ f.pc \in {Running.then, "lock"} /\ f.then = Running.then
  BY <1>1 DEF Frames
<1> HIDE DEF f
<1>5. StackInv' /\ Running' = f /\ TopKept
  BY <1>1, <1>2, <1>3, TopStep DEF TopKept
<1>6. DataOK'
  BY DEF IInv, DataOK
<1>7. /\ Running.op = "kmain" => f.pc \in {"idle", "lock"}
      /\ Running.op = "interrupt" => f.pc \in {"return", "lock"}
      /\ Running.op \in ShutdownOps => InShutdownMode /\ f.pc \in {"lock"} \cup AfterWriting
  <2>1. Running.op \in ShutdownOps => Running.then \in AfterWriting
    BY <1>1, <1>3 DEF Frames, FrameOK
  <2>2. Running.op \in ShutdownOps => InControl(1)
    BY <1>1, <2>1 DEF InControl
  <2> QED
    BY <1>1, <1>4, <2>1, <2>2, RunningIsFrame DEF IInv, ModeInv, Frames, FrameOK
<1>8. BootInv'
  BY <1>1, <1>5, <1>7 DEF BootInv, Frames
<1>9. InterruptInv'
  <2>1. ~ interruptsEnabled
    BY <1>3 DEF IInv, InterruptInv, Preemptible
  <2>2. CASE Running.op = "kmain"
    <3>1. ~ InShutdownMode /\ lock = wanted /\ interruptsEnabled' = lock /\ Len(frames') = 1
      BY <1>1, <1>3, <1>5, <2>2, RunningIsFrame DEF IInv, ModeInv, InterruptInv, TopKept
    <3> QED
      BY <1>2, <1>5, <1>7, <2>2, <3>1 DEF InterruptInv, Preemptible
  <2>3. CASE Running.op = "interrupt"
    <3>1. Len(frames) = 2 /\ frames'[2] = frames[2]
      BY <1>1, <1>5, <2>3, RunningIsFrame DEF TopKept
    <3>2. ~ interruptsEnabled'
      BY <1>3, <2>1, <2>3 DEF IInv, InterruptInv, InShutdownMode
    <3> QED
      BY <1>2, <1>5, <1>7, <2>3, <3>1, <3>2 DEF IInv, InterruptInv, Preemptible
  <2>4. CASE Running.op \in ShutdownOps
    BY <1>2, <1>5, <1>7, <2>1, <2>4 DEF InterruptInv
  <2> QED
    BY <1>1, <2>2, <2>3, <2>4 DEF Frames
<1>10. ModeInv'
  <2>1. Owns(Running') => Owns(Running)
    BY <1>1, <1>4, <1>5, <1>7 DEF Owns, Frames, FrameOK
  <2> QED
    BY <1>1, <1>2, <1>3, <1>5, <2>1, ModeKept DEF IInv
<1>11. DropInv'
  BY <1>1, <1>3, <1>5, <1>7 DEF IInv, DropInv, Printed, Frames
<1> QED
  BY <1>5, <1>6, <1>8, <1>9, <1>10, <1>11 DEF IInv

-----------------------------------------------------------------------------
(* Frames that come and go                                                 *)

(* Everybody moves down and nobody changes.                                *)
LEMMA ControlPushed ==
  ASSUME StackInv, ModeInv, UNCHANGED shutdownProcessorID,
         StackInv', Len(frames') = Len(frames) + 1,
         \A k \in 1 .. Len(frames) : frames'[k + 1] = frames[k], ~ Owns(Running')
  PROVE  /\ ~ InShutdownMode' => \A k \in 1 .. Len(frames') : ~ InControl(k)'
         /\ OneInControl'
<1>1. Len(frames) \in Nat /\ DOMAIN frames = 1 .. Len(frames) /\ DOMAIN frames' = 1 .. Len(frames')
      /\ Running' = frames'[1]
  BY RunningIsFrame, LenProperties DEF StackInv, Running
<1>2. ~ InControl(1)'
  BY <1>1 DEF InControl, Owns
<1>3. \A k \in 2 .. Len(frames') : k - 1 \in 1 .. Len(frames)
                               /\ (InControl(k)' <=> InControl(k - 1))
  <2> SUFFICES ASSUME NEW k \in 2 .. Len(frames')
               PROVE  k - 1 \in 1 .. Len(frames) /\ (InControl(k)' <=> InControl(k - 1))
    OBVIOUS
  <2>1. k - 1 \in 1 .. Len(frames) /\ frames'[(k - 1) + 1] = frames[k - 1] /\ (k - 1) + 1 = k
    BY <1>1
  <2> QED
    BY <2>1 DEF InControl
<1>4. \A k \in 1 .. Len(frames') : k = 1 \/ k \in 2 .. Len(frames')
  BY <1>1
<1>5. \A k \in 1 .. Len(frames') : InControl(k)' => k - 1 \in 1 .. Len(frames) /\ InControl(k - 1)
  BY <1>2, <1>3, <1>4
<1>6. ~ InShutdownMode' => \A k \in 1 .. Len(frames') : ~ InControl(k)'
  BY <1>5 DEF ModeInv, InShutdownMode
<1>7. OneInControl'
  <2> SUFFICES ASSUME NEW j \in 1 .. Len(frames'), NEW k \in 1 .. Len(frames'),
                      InControl(j)', InControl(k)'
               PROVE  j = k
    BY <1>1 DEF OneInControl
  <2>1. j - 1 = k - 1
    BY <1>1, <1>5 DEF ModeInv, OneInControl
  <2> QED
    BY <1>1, <2>1
<1> QED
  BY <1>6, <1>7

LEMMA TextIsWritten ==
  /\ KOutWriteLine(Greeting) \in Seq(Chars) /\ Len(KOutWriteLine(Greeting)) >= 1
  /\ KOutWrite(IrqLine) \in Seq(Chars) /\ Len(KOutWrite(IrqLine)) >= 1
  /\ KOutWrite(Failure) \in Seq(Chars) /\ Len(KOutWrite(Failure)) >= 1
  /\ KOutWriteLine(Halted) \in Seq(Chars) /\ Len(KOutWriteLine(Halted)) >= 1
  /\ KOutWriteLine(Rebooting) \in Seq(Chars) /\ Len(KOutWriteLine(Rebooting)) >= 1
<1>1. /\ Greeting \in Seq(Chars) /\ IrqLine \in Seq(Chars) /\ Failure \in Seq(Chars)
      /\ Halted \in Seq(Chars) /\ Rebooting \in Seq(Chars)
  BY DEF Greeting, IrqLine, Failure, Halted, Rebooting, Chars
<1>2. ASSUME NEW s \in Seq(Chars), NEW t \in Seq(Chars), Len(t) >= 1
      PROVE  s \o t \in Seq(Chars) /\ Len(s \o t) >= 1
  <2>1. s \o t \in Seq(Chars) /\ Len(s \o t) = Len(s) + Len(t) /\ Len(s) \in Nat /\ Len(t) \in Nat
    BY ConcatProperties, LenProperties
  <2> QED
    BY <1>2, <2>1
<1>3. /\ <<"NUL">> \in Seq(Chars) /\ Len(<<"NUL">>) >= 1
      /\ <<"NUL", "LF">> \in Seq(Chars) /\ Len(<<"NUL", "LF">>) >= 1
  BY DEF Chars, Controls
<1> QED
  BY <1>1, <1>2, <1>3 DEF KOutWrite, KOutWriteLine

(* A device interrupts whatever has interrupts enabled.                    *)
LEMMA InterruptStep ==
  ASSUME IInv, machine = "running", Interrupt
  PROVE  IInv'
<1> DEFINE f == Frame("interrupt", "lock", KOutWrite(IrqLine), "return")
<1> USE DEF Interrupt, settings
<1>1. /\ Running \in Frames /\ Len(frames) = 1 /\ StackInv /\ Running = frames[1]
      /\ Preemptible(Running)
  BY RunningIsFrame DEF IInv, InterruptInv
<1>2. /\ f \in Frames /\ f.op = "interrupt" /\ f.pc = "lock" /\ f.then = "return"
  BY TextIsWritten DEF Frame, Frames, FrameOK, PCs
<1>3. frames' = << f >> \o frames
  OBVIOUS
<1> HIDE DEF f
<1>4. /\ StackInv' /\ Running' = f /\ Len(frames') = 2
      /\ \A k \in 1 .. Len(frames) : frames'[k + 1] = frames[k]
  BY SMTT(40), <1>1, <1>2, <1>3, TopPushed
<1>5. frames'[2] = frames[1]
  <2> HIDE DEF Interrupt
  <2>1. 1 \in 1 .. Len(frames) /\ 1 + 1 = 2
    BY <1>1
  <2> QED
    BY <1>4, <2>1
<1>6. DataOK'
  <2>1. interruptsEnabled' \in BOOLEAN
    OBVIOUS
  <2> QED
    BY <2>1 DEF IInv, DataOK
<1>7. BootInv'
  BY <1>2, <1>4 DEF BootInv
<1>8. InterruptInv'
  <2>1. ~ interruptsEnabled'
    OBVIOUS
  <2>2. Running.op = "kmain" => wanted'
    BY <1>1 DEF IInv, InterruptInv, Preemptible
  <2> QED
    BY <1>1, <1>2, <1>4, <1>5, <2>1, <2>2 DEF InterruptInv, Preemptible
<1>9. ModeInv'
  <2>1. ~ Owns(Running')
    BY <1>2, <1>4 DEF Owns
  <2>2. (~ InShutdownMode' => \A k \in 1 .. Len(frames') : ~ InControl(k)') /\ OneInControl'
    BY <1>1, <1>4, <2>1, ControlPushed DEF IInv
  <2>3. Running.op = "kmain" => ~ InShutdownMode
    BY <1>1 DEF IInv, ModeInv, Preemptible
  <2> QED
    BY <1>1, <1>2, <1>4, <1>5, <2>2, <2>3 DEF ModeInv, InShutdownMode
<1>10. DropInv'
  BY <1>1, <1>2, <1>4 DEF IInv, DropInv, Printed, Preemptible
<1> QED
  BY <1>4, <1>6, <1>7, <1>8, <1>9, <1>10 DEF IInv

(* What was interrupted goes on as it was.                                 *)
LEMMA ReturnFromInterruptStep ==
  ASSUME IInv, machine = "running", ReturnFromInterrupt
  PROVE  IInv'
<1> USE DEF ReturnFromInterrupt, settings
<1>1. /\ Running \in Frames /\ StackInv /\ Running = frames[1] /\ Running.op = "interrupt"
      /\ Running.pc = "return"
  BY RunningIsFrame DEF IInv, Frames, FrameOK
<1>2. StackInv' /\ Len(frames) = 2 /\ Len(frames') = 1 /\ Running' = frames[2]
  BY <1>1, TopPopped
<1>3. Preemptible(Running') /\ (Running'.op = "kmain" => wanted') /\ Running' = frames'[1]
  BY <1>1, <1>2 DEF IInv, InterruptInv, Running, Preemptible
<1> HIDE DEF ReturnFromInterrupt
<1>4. /\ interruptsEnabled'
      /\ UNCHANGED <<lock, buffer, display, shutdownProcessorID,
                     accepted, settings, machine, wanted>>
  BY DEF ReturnFromInterrupt
<1>5. DataOK'
  <2>1. interruptsEnabled' \in BOOLEAN
    BY DEF ReturnFromInterrupt
  <2> QED
    BY <1>4, <2>1 DEF IInv, DataOK
<1>6. BootInv'
  BY <1>3 DEF BootInv, Preemptible
<1>7. InterruptInv'
  <2>1. Running'.op = "kmain" => interruptsEnabled' = wanted'
    BY <1>3 DEF ReturnFromInterrupt, IInv, DataOK
  <2> QED
    BY <1>2, <1>3, <2>1 DEF InterruptInv, Preemptible
<1>8. ModeInv'
  <2>1. DOMAIN frames' = {1} /\ DOMAIN frames = 1 .. 2
    BY <1>1, <1>2, LenProperties DEF StackInv
  <2>2. ~ InShutdownMode' => ~ InControl(1)'
    <3>1. ~ InShutdownMode => ~ InControl(2)
      BY <1>2 DEF IInv, ModeInv
    <3> QED
      BY <1>2, <1>3, <1>4, <3>1 DEF InControl, InShutdownMode
  <2>3. Running'.op = "kmain" => ~ InShutdownMode'
    BY <1>1, <1>2, <1>4 DEF IInv, ModeInv, InShutdownMode
  <2> QED
    BY <1>2, <1>3, <2>1, <2>2, <2>3 DEF ModeInv, OneInControl, Preemptible
<1>9. DropInv'
  BY <1>1, <1>3, <1>4 DEF IInv, DropInv, Printed, Preemptible
<1> QED
  BY <1>2, <1>5, <1>6, <1>7, <1>8, <1>9 DEF IInv

(* An exception comes on top of anything, between printing and clearing    *)
(* the buffer, too; without its handlers the machine resets.               *)
LEMMA ExceptionStep ==
  ASSUME IInv, machine = "running", Exception
  PROVE  IInv'
<1> DEFINE f == Frame("fail", "initiate", << >>, "idle")
<1>1. Running \in Frames /\ Len(frames) \in Nat \ {0} /\ StackInv /\ Running = frames[1]
  BY RunningIsFrame DEF IInv
<1>2. /\ f \in Frames /\ f.op = "fail" /\ f.pc = "initiate" /\ f.then = "idle"
  <2>1. << >> \in Seq(Chars)
    OBVIOUS
  <2> QED
    BY <2>1 DEF Frame, Frames, FrameOK, PCs
<1>3. ~ interruptsEnabled' /\ interruptsEnabled' \in BOOLEAN
  BY DEF Exception
<1>4. UNCHANGED <<lock, buffer, display, shutdownProcessorID, accepted, settings, wanted>>
  BY DEF Exception
<1>5. DataOK'
  <2>1. machine' \in {"running", "reset"}
    BY DEF Exception
  <2> QED
    BY <1>3, <1>4, <2>1 DEF IInv, DataOK, settings
<1>6. CASE frames' = << f >> \o frames /\ UNCHANGED machine
  <2> HIDE DEF f
  <2>1. /\ StackInv' /\ Running' = f /\ Len(frames') = Len(frames) + 1
        /\ \A k \in 1 .. Len(frames) : frames'[k + 1] = frames[k]
    BY <1>1, <1>2, <1>6, TopPushed
  <2>2. BootInv'
    BY <1>2, <2>1 DEF BootInv
  <2>3. InterruptInv'
    BY <1>2, <1>3, <2>1 DEF InterruptInv
  <2>4. ModeInv'
    <3>1. ~ Owns(Running')
      BY <1>2, <2>1 DEF Owns
    <3>2. (~ InShutdownMode' => \A k \in 1 .. Len(frames') : ~ InControl(k)') /\ OneInControl'
      BY <1>1, <1>4, <2>1, <3>1, ControlPushed DEF IInv
    <3> QED
      BY <1>2, <2>1, <3>2 DEF ModeInv
  <2>5. ASSUME NEW k \in 1 .. Len(frames), Printed(frames[k])
        PROVE  k + 1 \in 1 .. Len(frames') /\ Printed(frames'[k + 1])
    BY <1>1, <2>1, <2>5
  <2>6. DropInv'
    <3>1. CASE display \o buffer = accepted /\ ~ Printed(Running)
      BY <1>2, <1>4, <2>1, <3>1 DEF DropInv, Printed
    <3>2. CASE display = accepted /\ \E k \in 1 .. Len(frames) : Printed(frames[k])
      BY <1>2, <1>4, <2>1, <2>5, <3>2 DEF DropInv
    <3>3. Printed(Running) => \E k \in 1 .. Len(frames) : Printed(frames[k])
      BY <1>1
    <3> QED
      BY <3>1, <3>2, <3>3 DEF IInv, DropInv
  <2> QED
    BY <1>5, <2>1, <2>2, <2>3, <2>4, <2>6 DEF IInv
<1>7. CASE machine' = "reset" /\ UNCHANGED frames
  <2>1. StackInv' /\ Running' = Running
    BY <1>1, <1>7 DEF StackInv, Running
  <2>2. BootInv'
    BY <1>3, <1>4, <2>1 DEF IInv, BootInv, settings
  <2>3. InterruptInv'
    BY <1>3, <1>4, <1>7, <2>1 DEF IInv, InterruptInv, InShutdownMode
  <2>4. ModeInv'
    BY <1>4, <1>7, <2>1 DEF IInv, ModeInv, OneInControl, InControl, InShutdownMode
  <2>5. DropInv'
    BY <1>4, <1>7, <2>1 DEF IInv, DropInv
  <2> QED
    BY <1>5, <2>1, <2>2, <2>3, <2>4, <2>5 DEF IInv
<1> QED
  BY <1>6, <1>7 DEF Exception

-----------------------------------------------------------------------------
(* The way down                                                            *)

(* The compare-and-swap: only the first call gets into control.            *)
LEMMA InitiateStep ==
  ASSUME IInv, machine = "running", Initiate
  PROVE  IInv'
<1>1. Running \in Frames /\ Len(frames) \in Nat \ {0} /\ StackInv /\ Running = frames[1]
  BY RunningIsFrame DEF IInv
<1>2. UNCHANGED <<interruptsEnabled, lock, buffer, display, accepted, settings, wanted>>
  BY DEF Initiate
<1>3. PICK to \in {"takeDisplay", "initiate"} :
        /\ Goto("initiate", to)
        /\ \/ /\ to = "takeDisplay" /\ shutdownProcessorID = -1 /\ shutdownProcessorID' = 0
              /\ UNCHANGED machine
           \/ to = "initiate" /\ machine' = "reset" /\ UNCHANGED shutdownProcessorID
  BY DEF Initiate
<1>4. /\ StackInv' /\ Running' \in Frames /\ TopKept
      /\ Running' = [Running EXCEPT !.pc = to]
      /\ Running.pc = "initiate"
  <2>1. Running.pc = "initiate"
    BY <1>3 DEF Goto
  <2>2. FrameOK([Running EXCEPT !.pc = to])
    BY <1>1, <2>1 DEF Frames, FrameOK
  <2> QED
    BY SMTT(40), <1>1, <1>3, <2>1, <2>2, GotoStep DEF PCs
<1>5. Running.op \in ShutdownOps /\ Running'.op = Running.op /\ Running'.pc = to
  BY <1>1, <1>4 DEF Frames, FrameOK
<1>6. DataOK'
  BY <1>2, <1>3 DEF IInv, DataOK, settings
<1>7. BootInv'
  BY <1>5 DEF BootInv
<1>8. InterruptInv'
  BY <1>2, <1>4, <1>5 DEF IInv, InterruptInv, Preemptible, TopKept
<1>9. ModeInv'
  <2>1. CASE to = "takeDisplay"
    <3>1. DOMAIN frames' = 1 .. Len(frames') /\ Len(frames') = Len(frames)
      BY <1>4, LenProperties DEF StackInv, TopKept
    <3>2. \A k \in 2 .. Len(frames) : ~ InControl(k)'
      <4>1. \A k \in 2 .. Len(frames) : ~ InControl(k)
        BY <1>1, <1>3, <2>1 DEF IInv, ModeInv, InShutdownMode
      <4> QED
        BY <1>4, <4>1 DEF InControl, TopKept
    <3>3. OneInControl'
      BY <1>1, <3>1, <3>2 DEF OneInControl
    <3>4. InShutdownMode'
      BY <1>3, <2>1 DEF InShutdownMode
    <3> QED
      BY <1>5, <3>3, <3>4 DEF ModeInv
  <2>2. CASE to = "initiate"
    <3>1. Owns(Running') => Owns(Running)
      BY <1>1, <1>4, <2>2 DEF Owns, Frames
    <3> QED
      BY <1>1, <1>3, <1>4, <1>5, <2>2, <3>1, ModeKept DEF IInv
  <2> QED
    BY <2>1, <2>2
<1>10. DropInv'
  <2>1. \A k \in 1 .. Len(frames) : Printed(frames[k]) => Printed(frames'[k])
    BY <1>1, <1>4 DEF Printed, TopKept
  <2> QED
    BY <1>2, <1>4, <1>5, <2>1 DEF IInv, DropInv, Printed, TopKept
<1> QED
  BY <1>4, <1>6, <1>7, <1>8, <1>9, <1>10 DEF IInv

(* Whatever was printed is cleared from the display, and what was not, or  *)
(* not accounted for, is still in the buffer.                              *)
LEMMA TakeDisplayStep ==
  ASSUME IInv, machine = "running", TakeDisplay
  PROVE  IInv'
<1> USE DEF TakeDisplay, settings
<1>1. Running \in Frames /\ Len(frames) \in Nat /\ StackInv
  BY RunningIsFrame DEF IInv
<1>2. /\ StackInv' /\ Running' \in Frames /\ TopKept
      /\ Running' = [Running EXCEPT !.pc = "assertDisabled"]
      /\ Running.pc = "takeDisplay"
  <2>1. Running.pc = "takeDisplay" /\ Goto("takeDisplay", "assertDisabled")
    BY DEF Goto
  <2>2. FrameOK([Running EXCEPT !.pc = "assertDisabled"])
    BY <1>1, <2>1 DEF Frames, FrameOK
  <2> QED
    BY <1>1, <2>1, <2>2, GotoStep DEF PCs
<1>3. Running.op \in ShutdownOps /\ Running'.op = Running.op /\ Running'.pc = "assertDisabled"
  BY <1>1, <1>2 DEF Frames, FrameOK
<1>4. << >> \in Seq(Chars)
  OBVIOUS
<1>5. DataOK'
  BY <1>4 DEF IInv, DataOK
<1>6. BootInv'
  BY <1>3 DEF BootInv
<1>7. InterruptInv'
  BY <1>2, <1>3 DEF IInv, InterruptInv, Preemptible, TopKept
<1>8. ModeInv'
  BY <1>1, <1>2, ModeKept DEF IInv, Frames, Owns
<1>9. DropInv'
  <2>1. display' \o buffer' = accepted'
    BY ConcatEmptySeq DEF IInv, DataOK
  <2> QED
    BY <1>3, <2>1 DEF DropInv, Printed
<1> QED
  BY <1>2, <1>5, <1>6, <1>7, <1>8, <1>9 DEF IInv

LEMMA AssertDisabledStep ==
  ASSUME IInv, machine = "running", AssertDisabled
  PROVE  IInv'
<1> USE DEF settings
<1>1. Running \in Frames /\ Len(frames) \in Nat /\ StackInv
  BY RunningIsFrame DEF IInv
<1>2. CASE Exception
  BY <1>2, ExceptionStep
<1>3. CASE /\ Goto("assertDisabled", "resetPrint") /\ ~ interruptsEnabled
           /\ UNCHANGED <<interruptsEnabled, lock, buffer, display, shutdownProcessorID, accepted,
                          settings, machine, wanted>>
  <2>1. /\ StackInv' /\ Running' \in Frames /\ TopKept
        /\ Running' = [Running EXCEPT !.pc = "resetPrint"]
        /\ Running.pc = "assertDisabled"
    <3>1. Running.pc = "assertDisabled"
      BY <1>3 DEF Goto
    <3>2. FrameOK([Running EXCEPT !.pc = "resetPrint"])
      BY <1>1, <3>1 DEF Frames, FrameOK
    <3> QED
      BY <1>1, <1>3, <3>1, <3>2, GotoStep DEF PCs
  <2>2. Running.op \in ShutdownOps /\ Running'.op = Running.op /\ Running'.pc = "resetPrint"
    BY <1>1, <2>1 DEF Frames, FrameOK
  <2>3. DataOK'
    BY <1>3 DEF IInv, DataOK
  <2>4. BootInv'
    BY <2>2 DEF BootInv
  <2>5. InterruptInv'
    BY <1>3, <2>2 DEF InterruptInv
  <2>6. ModeInv'
    BY <1>1, <1>3, <2>1, ModeKept DEF IInv, Frames, Owns
  <2>7. DropInv'
    BY <1>3, <2>1, <2>2 DEF IInv, DropInv, Printed
  <2> QED
    BY <2>1, <2>3, <2>4, <2>5, <2>6, <2>7 DEF IInv
<1> QED
  BY <1>2, <1>3 DEF AssertDisabled

(* The rest is flushed, with interrupts disabled.                          *)
LEMMA ResetPrintStep ==
  ASSUME IInv, machine = "running", ResetPrint
  PROVE  IInv'
<1> USE DEF ResetPrint, settings
<1>1. Running \in Frames /\ Len(frames) \in Nat /\ StackInv
  BY RunningIsFrame DEF IInv
<1>2. /\ StackInv' /\ Running' \in Frames /\ TopKept
      /\ Running' = [Running EXCEPT !.pc = "resetClear"]
      /\ Running.pc = "resetPrint"
  <2>1. Running.pc = "resetPrint" /\ Goto("resetPrint", "resetClear")
    BY DEF Goto
  <2>2. FrameOK([Running EXCEPT !.pc = "resetClear"])
    BY <1>1, <2>1 DEF Frames, FrameOK
  <2> QED
    BY <1>1, <2>1, <2>2, GotoStep DEF PCs
<1>3. Running.op \in ShutdownOps /\ Running'.op = Running.op /\ Running'.pc = "resetClear"
  BY <1>1, <1>2 DEF Frames, FrameOK
<1>4. DataOK'
  BY ConcatProperties DEF IInv, DataOK
<1>5. BootInv'
  BY <1>3 DEF BootInv
<1>6. InterruptInv'
  BY <1>2, <1>3 DEF IInv, InterruptInv, Preemptible
<1>7. ModeInv'
  BY <1>1, <1>2, ModeKept DEF IInv, Frames, Owns
<1>8. DropInv'
  BY <1>2, <1>3 DEF IInv, DropInv, Printed
<1> QED
  BY <1>2, <1>4, <1>5, <1>6, <1>7, <1>8 DEF IInv

(* Whoever is in control goes on from one text to the next.                *)
LEMMA WayDown ==
  ASSUME IInv, DataOK', Running.op \in ShutdownOps, Owns(Running),
         NEW f \in Frames, f.op = Running.op, f.pc \in {"lock", "finish", "reboot"},
         frames' = [frames EXCEPT ![1] = f],
         ~ interruptsEnabled', UNCHANGED shutdownProcessorID, display' \o buffer' = accepted'
  PROVE  IInv'
<1>1. StackInv' /\ Running' = f /\ TopKept
  BY TopStep DEF IInv, TopKept
<1>2. BootInv'
  BY <1>1 DEF BootInv
<1>3. InterruptInv'
  BY <1>1 DEF InterruptInv
<1>4. ModeInv'
  <2>1. Running.pc \notin {"DisplayTextStream_init", "KShutdown_init"}
    BY RunningIsFrame DEF IInv, Frames, FrameOK
  <2> QED
    BY <1>1, <2>1, ModeKept DEF IInv
<1>5. DropInv'
  BY <1>1 DEF DropInv, Printed
<1> QED
  BY <1>1, <1>2, <1>3, <1>4, <1>5 DEF IInv

LEMMA ResetClearStep ==
  ASSUME IInv, machine = "running", ResetClear
  PROVE  IInv'
<1> DEFINE f == IF Running.op = "fail" THEN Frame("fail", "lock", KOutWrite(Failure), "finish")
                                       ELSE Frame(Running.op, "finish", << >>, "idle")
<1>1. /\ Running \in Frames /\ Running = frames[1] /\ StackInv /\ Running.pc = "resetClear"
      /\ Running.op \in ShutdownOps /\ Owns(Running)
  BY RunningIsFrame DEF IInv, ResetClear, Frames, FrameOK, Owns
<1>2. << >> \in Seq(Chars) /\ Len(<< >>) = 0
  OBVIOUS
<1>3. f \in Frames /\ f.op = Running.op /\ f.pc \in {"lock", "finish", "reboot"}
  BY <1>1, <1>2, TextIsWritten DEF Frame, Frames, FrameOK, PCs
<1>4. frames' = [frames EXCEPT ![1] = f]
  BY DEF ResetClear
<1> HIDE DEF f
<1>5. DataOK'
  BY <1>2, BufferAssumption DEF IInv, DataOK, ResetClear, settings
<1>6. ~ interruptsEnabled'
  BY <1>1 DEF IInv, InterruptInv, Preemptible, ResetClear
<1>7. display' \o buffer' = accepted'
  <2>1. display = accepted /\ display \in Seq(Chars)
    BY <1>1 DEF IInv, DataOK, DropInv, Printed
  <2> QED
    BY <2>1, ConcatEmptySeq DEF ResetClear
<1>8. UNCHANGED shutdownProcessorID
  BY DEF ResetClear
<1> QED
  BY <1>1, <1>3, <1>4, <1>5, <1>6, <1>7, <1>8, WayDown

LEMMA DotsAreWritten ==
  ASSUME NEW n \in Nat
  PROVE  /\ KOutWriteLine(Rebooting) \o Dots(n) \in Seq(Chars)
         /\ Len(KOutWriteLine(Rebooting) \o Dots(n)) >= 1
<1>1. 2 * n \in Nat
  OBVIOUS
<1>2. Dots(n) \in [1 .. 2 * n -> Chars]
  BY DEF Dots, Chars, Controls
<1>3. Dots(n) \in Seq(Chars)
  BY <1>1, <1>2, SeqDef
<1>4. /\ KOutWriteLine(Rebooting) \o Dots(n) \in Seq(Chars)
      /\ Len(KOutWriteLine(Rebooting) \o Dots(n)) = Len(KOutWriteLine(Rebooting)) + Len(Dots(n))
      /\ Len(KOutWriteLine(Rebooting)) \in Nat /\ Len(Dots(n)) \in Nat
  BY <1>3, TextIsWritten, ConcatProperties, LenProperties
<1> QED
  BY <1>4, TextIsWritten

LEMMA FinishStep ==
  ASSUME IInv, machine = "running", Finish
  PROVE  IInv'
<1>1. /\ Running \in Frames /\ Running = frames[1] /\ StackInv /\ Running.pc = "finish"
      /\ Running.op \in ShutdownOps /\ Owns(Running)
  BY RunningIsFrame DEF IInv, Finish, Frames, FrameOK, Owns
<1>2. DelayInSeconds \in Nat
  BY DEF IInv, DataOK, DelayInSeconds
<1>3. \E f \in Frames : /\ f.op = Running.op /\ f.pc \in {"lock", "finish", "reboot"}
                        /\ frames' = [frames EXCEPT ![1] = f]
  <2>1. CASE frames' = [frames EXCEPT ![1] =
               Frame(Running.op, "lock", KOutWriteLine(Halted), "halt")]
    <3> DEFINE f == Frame(Running.op, "lock", KOutWriteLine(Halted), "halt")
    <3>1. f \in Frames /\ f.op = Running.op /\ f.pc = "lock"
      BY <1>1, TextIsWritten DEF Frame, Frames, FrameOK, PCs
    <3> HIDE DEF f
    <3>2. frames' = [frames EXCEPT ![1] = f]
      BY <2>1 DEF f
    <3> QED
      BY <3>1, <3>2
  <2>2. CASE frames' = [frames EXCEPT ![1] =
               Frame(Running.op, "lock",
                     KOutWriteLine(Rebooting) \o Dots(DelayInSeconds), "reboot")]
    <3> DEFINE f == Frame(Running.op, "lock",
                          KOutWriteLine(Rebooting) \o Dots(DelayInSeconds), "reboot")
    <3>1. f \in Frames /\ f.op = Running.op /\ f.pc = "lock"
      BY <1>1, <1>2, DotsAreWritten DEF Frame, Frames, FrameOK, PCs
    <3> HIDE DEF f
    <3>2. frames' = [frames EXCEPT ![1] = f]
      BY <2>2 DEF f
    <3> QED
      BY <3>1, <3>2
  <2>3. CASE Goto("finish", "reboot")
    <3> DEFINE f == [Running EXCEPT !.pc = "reboot"]
    <3>1. f \in Frames /\ f.op = Running.op /\ f.pc = "reboot"
      BY <1>1 DEF Frames, FrameOK, PCs
    <3>2. frames' = [frames EXCEPT ![1] = f]
      BY <1>1, <2>3 DEF Goto
    <3> HIDE DEF f
    <3> QED
      BY <3>1, <3>2
  <2> QED
    BY <2>1, <2>2, <2>3 DEF Finish
<1>4. UNCHANGED <<interruptsEnabled, lock, buffer, display, shutdownProcessorID, accepted,
                  settings, machine, wanted>>
  BY DEF Finish
<1>5. DataOK'
  BY <1>4 DEF IInv, DataOK, settings
<1>6. ~ interruptsEnabled' /\ display' \o buffer' = accepted'
  BY <1>1, <1>4 DEF IInv, InterruptInv, Preemptible, DropInv, Printed
<1> QED
  BY <1>1, <1>3, <1>4, <1>5, <1>6, WayDown

-----------------------------------------------------------------------------
(* Steps that leave the stack alone, and kmain() in its idle loop          *)

LEMMA StackUnchanged ==
  ASSUME IInv, DataOK', UNCHANGED <<frames, lock, buffer, display, shutdownProcessorID, accepted>>,
         BootInv', InterruptInv'
  PROVE  IInv'
<1>1. StackInv' /\ Running' = Running
  BY DEF IInv, StackInv, Running
<1>2. ModeInv'
  BY <1>1 DEF IInv, ModeInv, OneInControl, InControl, InShutdownMode
<1>3. DropInv'
  BY <1>1 DEF IInv, DropInv
<1> QED
  BY <1>1, <1>2, <1>3 DEF IInv

LEMMA HaltStep ==
  ASSUME IInv, machine = "running", Halt
  PROVE  IInv'
<1>1. /\ ~ interruptsEnabled' /\ interruptsEnabled' \in BOOLEAN /\ machine' = "halted"
      /\ UNCHANGED <<lock, buffer, display, shutdownProcessorID,
                     frames, accepted, settings, wanted>>
      /\ Running' = Running
  BY DEF Halt, Running
<1>2. DataOK'
  BY <1>1 DEF IInv, DataOK, settings
<1>3. BootInv' /\ InterruptInv'
  BY <1>1 DEF IInv, BootInv, InterruptInv, InShutdownMode, settings
<1> QED
  BY <1>1, <1>2, <1>3, StackUnchanged

LEMMA RebootStep ==
  ASSUME IInv, machine = "running", Reboot
  PROVE  IInv'
<1>1. machine' = "rebooted" /\ UNCHANGED <<streamVars, settings, wanted>> /\ Running' = Running
  BY DEF Reboot, Running, streamVars
<1>2. DataOK'
  BY <1>1 DEF IInv, DataOK, settings, streamVars
<1>3. BootInv' /\ InterruptInv'
  BY <1>1 DEF IInv, BootInv, InterruptInv, InShutdownMode, settings, streamVars
<1> QED
  BY <1>1, <1>2, <1>3, StackUnchanged DEF streamVars

LEMMA SettingsStep ==
  ASSUME IInv, machine = "running", SetRebootOnFailEnabled \/ SetRebootDelayInMilliseconds
  PROVE  IInv'
<1>1. /\ UNCHANGED <<streamVars, handlersRegistered, machine, wanted>> /\ Running' = Running
      /\ rebootOnFail' = rebootOnFail \/ rebootOnFail' \in BOOLEAN
      /\ rebootDelay' = rebootDelay \/ rebootDelay' \in Delays
  BY DEF SetRebootOnFailEnabled, SetRebootDelayInMilliseconds, Running, streamVars
<1>2. DataOK'
  BY <1>1, ShutdownAssumption DEF IInv, DataOK, streamVars
<1>3. BootInv' /\ InterruptInv'
  BY <1>1 DEF IInv, BootInv, InterruptInv, InShutdownMode, streamVars
<1> QED
  BY <1>1, <1>2, <1>3, StackUnchanged DEF streamVars

LEMMA SetInterruptsStep ==
  ASSUME IInv, machine = "running", NEW enabled \in BOOLEAN, SetInterrupts(enabled)
  PROVE  IInv'
<1>1. /\ Running.op = "kmain" /\ Running.pc = "idle" /\ Len(frames) = 1 /\ Running' = Running
      /\ interruptsEnabled' \in BOOLEAN /\ wanted' \in BOOLEAN /\ interruptsEnabled' = wanted'
      /\ UNCHANGED <<lock, buffer, display, shutdownProcessorID,
                     frames, accepted, settings, machine>>
  BY RunningIsFrame DEF IInv, SetInterrupts, Frames, FrameOK, Running
<1>2. DataOK'
  BY <1>1 DEF IInv, DataOK, settings
<1>3. BootInv' /\ InterruptInv'
  BY <1>1 DEF BootInv, InterruptInv, Preemptible
<1> QED
  BY <1>1, <1>2, <1>3, StackUnchanged

(* A line, or a shutdown.                                                  *)
LEMMA BeginStep ==
  ASSUME IInv, machine = "running", Running.pc = "idle", NEW f \in Frames,
         \/ f.op = "kmain" /\ f.pc = "lock"
         \/ f.op \in ShutdownOps /\ f.pc = "initiate" /\ f.then = "idle",
         frames' = << f >>,
         UNCHANGED <<interruptsEnabled, lock, buffer, display, shutdownProcessorID, accepted,
                     settings, machine, wanted>>
  PROVE  IInv'
<1>1. StackInv' /\ Running.op = "kmain" /\ Len(frames) = 1 /\ Len(frames') = 1 /\ Running' = f
  BY TopReplaced DEF IInv
<1>2. DataOK'
  BY DEF IInv, DataOK, settings
<1>3. BootInv'
  BY <1>1 DEF BootInv
<1>4. InterruptInv'
  BY <1>1 DEF IInv, InterruptInv, Preemptible
<1>5. ModeInv'
  <2>1. DOMAIN frames' = {1} /\ frames'[1] = f
    BY <1>1 DEF Running
  <2>2. f \in Frames /\ ~ Owns(f)
    BY DEF Frames, FrameOK, Owns
  <2>3. ~ InControl(1)' /\ ~ InShutdownMode'
    BY <1>1, <2>1, <2>2 DEF IInv, ModeInv, InControl, Owns, InShutdownMode
  <2> QED
    BY <1>1, <2>1, <2>3 DEF ModeInv, OneInControl
<1>6. DropInv'
  BY <1>1 DEF IInv, DropInv, Printed
<1> QED
  BY <1>1, <1>2, <1>3, <1>4, <1>5, <1>6 DEF IInv

LEMMA SayStep ==
  ASSUME IInv, machine = "running", Say
  PROVE  IInv'
<1> DEFINE f == Frame("kmain", "lock", KOutWriteLine(Greeting), "idle")
<1>1. f \in Frames /\ f.op = "kmain" /\ f.pc = "lock"
  BY TextIsWritten DEF Frame, Frames, FrameOK, PCs
<1>2. frames' = << f >>
  BY DEF Say
<1> HIDE DEF f
<1> QED
  BY <1>1, <1>2, BeginStep DEF Say

LEMMA ShutDownStep ==
  ASSUME IInv, machine = "running", NEW op \in {"fail", "halt", "reboot"}, ShutDown(op)
  PROVE  IInv'
<1> DEFINE f == Frame(op, "initiate", << >>, "idle")
<1>1. << >> \in Seq(Chars)
  OBVIOUS
<1>2. f \in Frames /\ f.op = op /\ f.pc = "initiate" /\ f.then = "idle"
  BY <1>1 DEF Frame, Frames, FrameOK, PCs
<1>3. frames' = << f >>
  BY DEF ShutDown
<1> HIDE DEF f
<1> QED
  BY <1>2, <1>3, BeginStep DEF ShutDown

-----------------------------------------------------------------------------
(* The theorems                                                            *)

(* Everything is zero to begin with, and kmain() runs alone.               *)
LEMMA InitInv == Init => IInv
<1> SUFFICES ASSUME Init PROVE IInv
  OBVIOUS
<1> DEFINE f == Frame("kmain", "DisplayTextStream_init", << >>, "idle")
<1>1. << >> \in Seq(Chars) /\ Len(<< >>) = 0 /\ << >> \o << >> = << >>
  BY ConcatEmptySeq
<1>2. f \in Frames /\ f.op = "kmain" /\ f.pc = "DisplayTextStream_init" /\ f.then = "idle"
  BY <1>1 DEF Frame, Frames, FrameOK, PCs
<1>3. frames = << f >>
  BY DEF Init
<1> HIDE DEF f
<1>4. /\ frames \in Seq(Frames) /\ Len(frames) = 1 /\ frames[1] = f /\ Running = f
      /\ DOMAIN frames = {1}
  BY <1>2, <1>3 DEF Running
<1>5. DataOK
  <2>1. /\ interruptsEnabled \in BOOLEAN /\ lock \in BOOLEAN /\ wanted \in BOOLEAN
        /\ rebootOnFail \in BOOLEAN /\ handlersRegistered \in BOOLEAN
    BY DEF Init
  <2>2. /\ buffer = << >> /\ display = << >> /\ accepted = << >> /\ shutdownProcessorID = 0
        /\ rebootDelay = 0 /\ machine = "running"
    BY DEF Init
  <2> QED
    BY <1>1, <2>1, <2>2, BufferAssumption DEF DataOK
<1>6. StackInv
  BY <1>2, <1>4 DEF StackInv
<1>7. BootInv /\ InterruptInv
  BY <1>2, <1>4 DEF Init, BootInv, InterruptInv
<1>8. ModeInv
  BY <1>2, <1>4 DEF Init, ModeInv, OneInControl, InControl, InShutdownMode
<1>9. DropInv
  BY <1>1, <1>2, <1>4 DEF Init, DropInv, Printed
<1> QED
  BY <1>5, <1>6, <1>7, <1>8, <1>9 DEF IInv

LEMMA StutterInv == IInv /\ UNCHANGED vars => IInv'
<1> SUFFICES ASSUME IInv, UNCHANGED vars PROVE IInv'
  OBVIOUS
<1> USE DEF vars, streamVars, settings
<1>1. DataOK' /\ Running' = Running
  BY DEF IInv, DataOK, Running
<1>2. BootInv' /\ InterruptInv'
  BY <1>1 DEF IInv, BootInv, InterruptInv, InShutdownMode
<1> QED
  BY <1>1, <1>2, StackUnchanged

LEMMA NextInv == IInv /\ [Next]_vars => IInv'
<1> SUFFICES ASSUME IInv, machine = "running", Boot \/ Kmain \/ Continue \/ Interrupt \/ Fault
             PROVE  IInv'
  BY StutterInv DEF Next
<1>1. CASE Boot
  BY <1>1, DisplayTextStreamInitStep, KShutdownInitStep, ExceptionDispatcherInitStep DEF Boot
<1>2. CASE Kmain
  BY <1>2, SettingsStep, SetInterruptsStep, SayStep, ShutDownStep DEF Kmain
<1>3. CASE Write /\ UNCHANGED <<settings, machine, wanted>>
  BY <1>3, LockStep, PrintBufferStep, ClearBufferStep, StoreStep, UnlockStep DEF Write
<1>4. CASE ReturnFromInterrupt
  BY <1>4, ReturnFromInterruptStep
<1>5. CASE Initiate \/ TakeDisplay \/ AssertDisabled \/ ResetPrint \/ ResetClear
  BY <1>5, InitiateStep, TakeDisplayStep, AssertDisabledStep, ResetPrintStep, ResetClearStep
<1>6. CASE Finish \/ Halt \/ Reboot
  BY <1>6, FinishStep, HaltStep, RebootStep
<1>7. CASE Interrupt
  BY <1>7, InterruptStep
<1>8. CASE Fault
  BY <1>8, ExceptionStep DEF Fault
<1> QED
  BY <1>1, <1>2, <1>3, <1>4, <1>5, <1>6, <1>7, <1>8 DEF Continue

(* The inductive invariant, from the cleared memory that the kernel starts *)
(* with to whatever way it goes down.                                      *)
THEOREM InductiveInvariant == Spec => []IInv
BY InitInv, NextInv, PTL DEF Spec

(* Types; the buffer never overflows, whoever's characters are in it.      *)
THEOREM TypeCorrect == Spec => []TypeOK
<1>1. IInv => TypeOK
  <2> SUFFICES ASSUME IInv PROVE TypeOK
    OBVIOUS
  <2>1. DOMAIN frames = 1 .. Len(frames)
    BY SMTT(40), LenProperties DEF IInv, StackInv
  <2>2. \A k \in DOMAIN frames : frames[k] \in Frames
    BY <2>1, ElementOfSeq DEF IInv, StackInv
  <2>3. \A k \in DOMAIN frames :
          frames[k].op \in {"kmain", "interrupt", "fail", "halt", "reboot"} /\ frames[k].pc \in PCs
    BY <2>2 DEF Frames
  <2>4. Len(buffer) \in 0 .. BufferSize
    BY LenProperties, BufferAssumption DEF IInv, DataOK
  <2> QED
    BY <2>3, <2>4 DEF IInv, DataOK, TypeOK
<1> QED
  BY <1>1, InductiveInvariant, PTL

(* Handlers run with interrupts disabled although they take the lock, and  *)
(* kmain() finds interrupts as it last set them.                           *)
THEOREM InterruptsAsLeftAlways == Spec => []InterruptsAsLeft
<1>1. IInv => InterruptsAsLeft
  <2> SUFFICES ASSUME IInv PROVE InterruptsAsLeft
    OBVIOUS
  <2>1. Running \in Frames /\ Len(frames) \in Nat
    BY RunningIsFrame DEF IInv
  <2>2. Running.pc = "idle" => Running.op = "kmain"
    BY <2>1 DEF Frames, FrameOK
  <2>3. Len(frames) > 1 => ~ interruptsEnabled
    <3>1. interruptsEnabled => Len(frames) = 1
      BY DEF IInv, InterruptInv
    <3>2. Len(frames) > 1 => Len(frames) # 1
      BY <2>1
    <3> QED
      BY <3>1, <3>2
  <2>4. Running.pc = "idle" /\ machine = "running" => interruptsEnabled = wanted
    BY <2>2 DEF IInv, InterruptInv
  <2> QED
    BY <2>3, <2>4 DEF InterruptsAsLeft
<1> QED
  BY <1>1, InductiveInvariant, PTL

(* However often shutting down fails in its turn, one call has control.    *)
THEOREM OneInControlAlways == Spec => []OneInControl
<1>1. IInv => OneInControl
  BY DEF IInv, ModeInv
<1> QED
  BY <1>1, InductiveInvariant, PTL

(* Text is on the display or in the buffer, once, wherever an exception    *)
(* came between printing the buffer and clearing it.                       *)
THEOREM NothingDroppedAlways == Spec => []NothingDropped
<1>1. IInv => NothingDropped
  <2> SUFFICES ASSUME IInv PROVE NothingDropped
    OBVIOUS
  <2>1. DOMAIN frames = 1 .. Len(frames) /\ 1 \in 1 .. Len(frames) /\ Running = frames[1]
    BY RunningIsFrame, LenProperties DEF IInv, StackInv
  <2> QED
    BY <2>1 DEF IInv, DropInv, Printed, NothingDropped
<1> QED
  BY <1>1, InductiveInvariant, PTL
-----------------------------------------------------------------------------
(* The report of a shutdown                                                *)

(* What the running frame has still to add to the text on its way.         *)
ToGo(f) == IF f.pc = "unlock" /\ Head(f.out) \notin Controls THEN Tail(f.out) ELSE f.out

Report(f) == IF f.op = "fail" THEN Failure \o Halted ELSE Halted

FailureInv ==
  \/ ToGo(Running) = <<"fail1", "fail2", "NUL">>
  \/ ToGo(Running) = <<"fail2", "NUL">> /\ EndsWith(accepted, <<"fail1">>)
  \/ ToGo(Running) = <<"NUL">> /\ EndsWith(accepted, Failure)

HaltedInv ==
  \/ /\ ToGo(Running) = <<"halted", "NUL", "LF">>
     /\ Running.op = "fail" => EndsWith(accepted, Failure)
  \/ ToGo(Running) \in {<<"NUL", "LF">>, <<"LF">>} /\ EndsWith(accepted, Report(Running))

(* As much of the report as the running frame has written is at the end of *)
(* the text, and nothing is left in the buffer behind it.                  *)
ReportInv ==
  /\ Running.pc \in WritePCs /\ Running.then = "finish" => Running.op = "fail" /\ FailureInv
  /\ Running.pc = "finish" /\ Running.op = "fail" => EndsWith(accepted, Failure)
  /\ Running.pc \in WritePCs /\ Running.then = "halt" => HaltedInv
  /\ Running.pc = "unlock" /\ Head(Running.out) \in Controls => buffer = << >>
  /\ Running.pc = "halt" => buffer = << >> /\ EndsWith(accepted, Report(Running))
  /\ machine = "halted" => Running.pc = "halt"

LEMMA EndsWithAppend ==
  ASSUME NEW S, NEW s \in Seq(S), NEW e \in Seq(S), NEW c \in S, EndsWith(s, e)
  PROVE  EndsWith(Append(s, c), Append(e, c))
<1> DEFINE n == Len(s)
           m == Len(e)
           t == Append(s, c)
           f == Append(e, c)
<1>1. n \in Nat /\ m \in Nat /\ m <= n /\ SubSeq(s, n - m + 1, n) = e
  BY DEF EndsWith
<1>2. /\ t \in Seq(S) /\ Len(t) = n + 1 /\ t[n + 1] = c /\ \A i \in 1 .. n : t[i] = s[i]
      /\ f \in Seq(S) /\ Len(f) = m + 1 /\ f[m + 1] = c /\ \A i \in 1 .. m : f[i] = e[i]
  BY AppendProperties
<1>3. \A i \in 1 .. m : e[i] = s[n - m + i]
  <2>1. \A i \in n - m + 1 .. n : s[i] \in S
    BY <1>1
  <2>2. n - m + 1 \in Int /\ n \in Int
    BY <1>1
  <2> HIDE DEF n, m
  <2>3. \A i \in 1 .. n - (n - m + 1) + 1 : SubSeq(s, n - m + 1, n)[i] = s[(n - m + 1) + i - 1]
    BY <2>1, <2>2, SubSeqProperties
  <2> QED
    BY <1>1, <2>3
<1> HIDE DEF n, m, t, f
<1> DEFINE u == SubSeq(t, n - m + 1, n + 1)
<1>4. u \in Seq(S) /\ Len(u) = m + 1 /\ \A i \in 1 .. m + 1 : u[i] = t[n - m + i]
  <2>1. \A i \in n - m + 1 .. n + 1 : t[i] \in S
    BY <1>1, <1>2, ElementOfSeq
  <2>2. n - m + 1 \in Int /\ n + 1 \in Int
    BY <1>1
  <2>3. /\ u \in Seq(S)
        /\ Len(u) = IF n - m + 1 <= n + 1 THEN (n + 1) - (n - m + 1) + 1 ELSE 0
        /\ \A i \in 1 .. (n + 1) - (n - m + 1) + 1 : u[i] = t[(n - m + 1) + i - 1]
    BY SMTT(40), <2>1, <2>2, SubSeqProperties
  <2> HIDE DEF u
  <2> QED
    BY <1>1, <2>3
<1> HIDE DEF u
<1>5. \A i \in 1 .. m + 1 : u[i] = f[i]
  <2> SUFFICES ASSUME NEW i \in 1 .. m + 1 PROVE u[i] = f[i]
    OBVIOUS
  <2>1. CASE i = m + 1
    <3>1. n - m + i = n + 1
      BY <1>1, <2>1
    <3> QED
      BY <1>1, <1>2, <1>4, <2>1, <3>1
  <2>2. CASE i # m + 1
    <3>1. i \in 1 .. m /\ n - m + i \in 1 .. n
      BY <1>1, <2>2
    <3> QED
      BY <1>2, <1>3, <1>4, <3>1
  <2> QED
    BY <2>1, <2>2
<1>6. u = f
  BY <1>2, <1>4, <1>5, SeqEqual
<1>7. (n + 1) - (m + 1) + 1 = n - m + 1 /\ m + 1 <= n + 1
  BY <1>1
<1> QED
  BY <1>2, <1>6, <1>7 DEF EndsWith, u, t, f

LEMMA GotoRunning ==
  ASSUME StackInv, NEW from, NEW to, Goto(from, to)
  PROVE  /\ Running.pc = from /\ Running \in Frames
         /\ Running' = [Running EXCEPT !.pc = to] /\ Running'.pc = to
         /\ Running'.op = Running.op /\ Running'.out = Running.out /\ Running'.then = Running.then
<1>1. Running \in Frames /\ 1 \in DOMAIN frames
  BY RunningIsFrame, LenProperties DEF StackInv
<1>2. Running' = [Running EXCEPT !.pc = to] /\ Running.pc = from
  BY <1>1 DEF Goto, Running
<1> QED
  BY <1>1, <1>2 DEF Frames

(* Nothing is said of frames that do not write or have written.            *)
LEMMA ReportElsewhere ==
  ASSUME Running'.pc \notin WritePCs \cup {"finish", "halt"}, machine' # "halted"
  PROVE  ReportInv'
BY DEF ReportInv

(* ... or that only begin to write, or that are about something else.      *)
LEMMA ReportOfOthers ==
  ASSUME Running'.pc \in {"lock", "write", "clear"}, Running'.then \notin {"finish", "halt"},
         machine' # "halted"
  PROVE  ReportInv'
BY DEF ReportInv

LEMMA TextsWithPieces ==
  /\ Failure = <<"fail1", "fail2">> /\ Halted = <<"halted">>
  /\ KOutWrite(Failure) = <<"fail1", "fail2", "NUL">>
  /\ KOutWriteLine(Halted) = <<"halted", "NUL", "LF">>
  /\ Failure = Append(<<"fail1">>, "fail2") /\ Failure \o Halted = Append(Failure, "halted")
<1> USE DEF Failure, Halted, KOutWrite, KOutWriteLine
<1>1. /\ <<"fail1", "fail2">> \in Seq(Chars) /\ <<"NUL">> \in Seq(Chars)
      /\ <<"halted">> \in Seq(Chars) /\ <<"NUL", "LF">> \in Seq(Chars)
  BY DEF Chars, Controls
<1>2. <<"fail1", "fail2">> \o <<"NUL">> = <<"fail1", "fail2", "NUL">>
  <2> DEFINE s == <<"fail1", "fail2">>
             t == <<"NUL">>
             u == s \o t
  <2>1. /\ s \in Seq(Chars) /\ Len(s) = 2 /\ s[1] = "fail1" /\ s[2] = "fail2"
        /\ t \in Seq(Chars) /\ Len(t) = 1 /\ t[1] = "NUL"
    BY <1>1
  <2> HIDE DEF s, t
  <2>2. u \in Seq(Chars) /\ Len(u) = 3 /\ u[1] = "fail1" /\ u[2] = "fail2" /\ u[3] = "NUL"
    BY SMTT(40), <2>1, ConcatProperties
  <2> HIDE DEF u
  <2>3. u = <<"fail1", "fail2", "NUL">>
    BY <2>2
  <2> QED
    BY <2>3 DEF s, t, u
<1>3. <<"halted">> \o <<"NUL", "LF">> = <<"halted", "NUL", "LF">>
  <2> DEFINE s == <<"halted">>
             t == <<"NUL", "LF">>
             u == s \o t
  <2>1. /\ s \in Seq(Chars) /\ Len(s) = 1 /\ s[1] = "halted"
        /\ t \in Seq(Chars) /\ Len(t) = 2 /\ t[1] = "NUL" /\ t[2] = "LF"
    BY <1>1
  <2> HIDE DEF s, t
  <2>2. /\ u \in Seq(Chars) /\ Len(u) = Len(s) + Len(t)
        /\ \A i \in 1 .. Len(s) + Len(t) : u[i] = IF i <= Len(s) THEN s[i] ELSE t[i - Len(s)]
    BY <2>1, ConcatProperties
  <2> HIDE DEF u
  <2>3. u \in Seq(Chars) /\ Len(u) = 3 /\ u[1] = "halted" /\ u[2] = "NUL" /\ u[3] = "LF"
    BY <2>1, <2>2
  <2>4. u = <<"halted", "NUL", "LF">>
    BY ONLY <2>3
  <2> QED
    BY <2>4 DEF s, t, u
<1>4. <<"fail1", "fail2">> = Append(<<"fail1">>, "fail2")
  OBVIOUS
<1>5. Failure \o Halted = Append(Failure, "halted")
  BY <1>1, AppendIsConcat DEF Chars
<1> QED
  BY <1>2, <1>3, <1>4, <1>5

(* Steps of writing that leave what is accepted alone, before the unlock.  *)
LEMMA TextLengths ==
  /\ Len(<<"fail1", "fail2", "NUL">>) = 3 /\ Len(<<"fail2", "NUL">>) = 2 /\ Len(<<"NUL">>) = 1
  /\ Len(<<"halted", "NUL", "LF">>) = 3 /\ Len(<<"NUL", "LF">>) = 2 /\ Len(<<"LF">>) = 1
OBVIOUS

LEMMA ReportKept ==
  ASSUME StackInv, ReportInv, NEW from \in {"lock", "write", "clear"},
         NEW to \in {"write", "clear", "unlock"}, Goto(from, to),
         to = "unlock" => buffer' = << >> /\ Head(Running.out) \in Controls,
         UNCHANGED accepted, machine' # "halted"
  PROVE  ReportInv'
<1>1. /\ Running.pc = from /\ Running'.pc = to
      /\ Running'.op = Running.op /\ Running'.out = Running.out /\ Running'.then = Running.then
  BY GotoRunning
<1>2. ToGo(Running) = Running.out /\ ToGo(Running)' = Running.out
      /\ Report(Running)' = Report(Running)
  BY <1>1 DEF ToGo, Report
<1>3. Running.then = "finish" => Running.op = "fail" /\ FailureInv'
  BY <1>1, <1>2 DEF ReportInv, FailureInv
<1>4. Running.then = "halt" => HaltedInv'
  BY <1>1, <1>2 DEF ReportInv, HaltedInv
<1> QED
  BY <1>1, <1>3, <1>4 DEF ReportInv

LEMMA ReportOfStore ==
  ASSUME IInv, ReportInv, Store, machine' # "halted"
  PROVE  ReportInv'
<1> DEFINE c == Head(Running.out)
<1>1. /\ Running.pc = "write" /\ Running'.pc = "unlock" /\ Running \in Frames /\ c \notin Controls
      /\ Running'.op = Running.op /\ Running'.out = Running.out /\ Running'.then = Running.then
  BY GotoRunning DEF IInv, Store, NeedsFlush
<1>2. ToGo(Running) = Running.out /\ ToGo(Running)' = Tail(Running.out)
      /\ Report(Running)' = Report(Running)
  BY <1>1 DEF ToGo, Report
<1>3. accepted' = Append(accepted, c) /\ accepted \in Seq(Chars)
  BY DEF Store, IInv, DataOK
<1>4. CASE Running.then = "finish"
  <2>1. Running.op = "fail" /\ FailureInv
    BY <1>1, <1>4 DEF ReportInv
  <2>2. CASE Running.out = <<"fail1", "fail2", "NUL">>
    <3>1. c = "fail1" /\ Tail(Running.out) = <<"fail2", "NUL">>
      BY <2>2
    <3>2. EndsWith(accepted, << >>)
      BY <1>3 DEF EndsWith
    <3>3. EndsWith(accepted', <<"fail1">>)
      <4>1. << >> \in Seq(Chars) /\ "fail1" \in Chars /\ Append(<< >>, "fail1") = <<"fail1">>
        BY DEF Chars
      <4> QED
        BY <1>3, <3>1, <3>2, <4>1, EndsWithAppend
    <3> QED
      BY <1>1, <1>2, <1>4, <2>1, <3>1, <3>3 DEF ReportInv, FailureInv
  <2>3. CASE Running.out = <<"fail2", "NUL">> /\ EndsWith(accepted, <<"fail1">>)
    <3>1. c = "fail2" /\ Tail(Running.out) = <<"NUL">>
      BY <2>3
    <3>2. EndsWith(accepted', Failure)
      <4>1. <<"fail1">> \in Seq(Chars) /\ "fail2" \in Chars
        BY DEF Chars
      <4> QED
        BY <1>3, <2>3, <3>1, <4>1, EndsWithAppend, TextsWithPieces
    <3> QED
      BY <1>1, <1>2, <1>4, <2>1, <3>1, <3>2 DEF ReportInv, FailureInv
  <2>4. CASE Running.out = <<"NUL">>
    BY <1>1, <2>4 DEF Controls
  <2> QED
    BY <1>2, <2>1, <2>2, <2>3, <2>4 DEF FailureInv
<1>5. CASE Running.then = "halt"
  <2>1. HaltedInv
    BY <1>1, <1>5 DEF ReportInv
  <2>2. CASE /\ Running.out = <<"halted", "NUL", "LF">>
             /\ Running.op = "fail" => EndsWith(accepted, Failure)
    <3>1. c = "halted" /\ Tail(Running.out) = <<"NUL", "LF">>
      BY <2>2
    <3>2. << >> \in Seq(Chars) /\ "halted" \in Chars /\ Failure \in Seq(Chars)
          /\ Append(<< >>, "halted") = Halted
      BY DEF Chars, Failure, Halted
    <3>3. EndsWith(accepted, << >>)
      BY <1>3 DEF EndsWith
    <3>4. EndsWith(accepted', Report(Running))
      BY <1>3, <2>2, <3>1, <3>2, <3>3, EndsWithAppend, TextsWithPieces DEF Report
    <3> QED
      BY <1>1, <1>2, <1>5, <3>1, <3>4 DEF ReportInv, HaltedInv
  <2>3. CASE Running.out \in {<<"NUL", "LF">>, <<"LF">>}
    BY <1>1, <2>3 DEF Controls
  <2> QED
    BY <1>2, <2>1, <2>2, <2>3 DEF HaltedInv
<1> QED
  BY <1>1, <1>4, <1>5 DEF ReportInv

(* The last control character of a text has emptied the buffer, and then   *)
(* the text is complete.                                                   *)
LEMMA ReportOfUnlock ==
  ASSUME IInv, ReportInv, Unlock, machine' # "halted"
  PROVE  ReportInv'
<1> DEFINE c == Head(Running.out)
<1>1. /\ Running.pc = "unlock" /\ Running \in Frames /\ 1 \in DOMAIN frames
      /\ Running.out \in Seq(Chars) /\ Len(Running.out) \in Nat \ {0}
  BY RunningIsFrame, LenProperties DEF IInv, StackInv, Unlock, Frames, FrameOK
<1>2. Running' = [Running EXCEPT !.pc = IF Len(Running.out) = 1 THEN Running.then ELSE "lock",
                                 !.out = Tail(@)]
  BY <1>1 DEF Unlock, WriteNext, Running
<1>3. /\ Running'.op = Running.op /\ Running'.out = Tail(Running.out)
      /\ Running'.then = Running.then
      /\ Running'.pc = IF Len(Running.out) = 1 THEN Running.then ELSE "lock"
  BY <1>1, <1>2 DEF Frames
<1>4. UNCHANGED <<buffer, accepted>> /\ Report(Running)' = Report(Running)
  BY <1>3 DEF Unlock, Report
<1>5. Running'.pc # "unlock" /\ (Running'.pc \in {"finish", "halt"} => Running'.pc = Running.then)
  BY <1>1, <1>3 DEF Frames
<1>6. ToGo(Running)' = Tail(Running.out)
  BY <1>3, <1>5 DEF ToGo
<1>7. CASE Running.then = "finish"
  <2>1. Running.op = "fail" /\ FailureInv
    BY <1>1, <1>7 DEF ReportInv
  <2>2. CASE c \notin Controls
    <3>1. ToGo(Running) = Tail(Running.out)
      BY <1>1, <2>2 DEF ToGo
    <3>2. Len(Running.out) # 1
      <4>1. Len(ToGo(Running)) >= 1
        <5>1. \/ ToGo(Running) = <<"fail1", "fail2", "NUL">>
              \/ ToGo(Running) = <<"fail2", "NUL">>
              \/ ToGo(Running) = <<"NUL">>
          BY <2>1 DEF FailureInv
        <5>2. Len(ToGo(Running)) \in {1, 2, 3}
          BY ONLY <5>1, TextLengths
        <5> QED
          BY <5>2
      <4>2. Running.out # << >> /\ Len(Tail(Running.out)) = Len(Running.out) - 1
        BY <1>1, HeadTailProperties
      <4> HIDE DEF c
      <4> QED
        BY <1>1, <3>1, <4>1, <4>2
    <3> QED
      BY <1>3, <1>4, <1>6, <1>7, <2>1, <3>1, <3>2 DEF ReportInv, FailureInv
  <2>3. CASE c \in Controls
    <3>1. ToGo(Running) = Running.out
      BY <1>1, <2>3 DEF ToGo
    <3>2. Running.out = <<"NUL">> /\ EndsWith(accepted, Failure)
      BY <2>1, <2>3, <3>1 DEF FailureInv, Controls
    <3>3. Running'.pc = "finish"
      BY <1>3, <1>7, <3>2
    <3> QED
      BY <1>4, <3>2, <3>3 DEF ReportInv
  <2> QED
    BY <2>2, <2>3
<1>8. CASE Running.then = "halt"
  <2>1. HaltedInv
    BY <1>1, <1>8 DEF ReportInv
  <2>2. CASE c \notin Controls
    <3>1. ToGo(Running) = Tail(Running.out)
      BY <1>1, <2>2 DEF ToGo
    <3>2. Len(Running.out) # 1
      <4>1. Len(ToGo(Running)) >= 1
        <5>1. \/ ToGo(Running) = <<"halted", "NUL", "LF">>
              \/ ToGo(Running) = <<"NUL", "LF">>
              \/ ToGo(Running) = <<"LF">>
          BY <2>1 DEF HaltedInv
        <5>2. Len(ToGo(Running)) \in {1, 2, 3}
          BY ONLY <5>1, TextLengths
        <5> QED
          BY <5>2
      <4>2. Running.out # << >> /\ Len(Tail(Running.out)) = Len(Running.out) - 1
        BY <1>1, HeadTailProperties
      <4> HIDE DEF c
      <4> QED
        BY <1>1, <3>1, <4>1, <4>2
    <3> QED
      BY <1>3, <1>4, <1>6, <1>8, <2>1, <3>1, <3>2 DEF ReportInv, HaltedInv
  <2>3. CASE c \in Controls
    <3>1. ToGo(Running) = Running.out /\ buffer = << >>
      BY <1>1, <2>3 DEF ToGo, ReportInv
    <3>2. Running.out \in {<<"NUL", "LF">>, <<"LF">>} /\ EndsWith(accepted, Report(Running))
      BY <2>1, <2>3, <3>1 DEF HaltedInv, Controls
    <3>3. CASE Running.out = <<"NUL", "LF">>
      <4>1. Tail(Running.out) = <<"LF">> /\ Running'.pc = "lock"
        BY <1>3, <3>3
      <4> QED
        BY <1>3, <1>4, <1>6, <1>8, <3>2, <4>1 DEF ReportInv, HaltedInv
    <3>4. CASE Running.out = <<"LF">>
      <4>1. Running'.pc = "halt"
        BY <1>3, <1>8, <3>4
      <4> QED
        BY <1>4, <3>1, <3>2, <4>1 DEF ReportInv
    <3> QED
      BY <3>2, <3>3, <3>4
  <2> QED
    BY <2>2, <2>3
<1> QED
  BY <1>3, <1>5, <1>7, <1>8 DEF ReportInv

LEMMA ReportOfWrite ==
  ASSUME IInv, ReportInv, Write, machine = "running", UNCHANGED machine
  PROVE  ReportInv'
<1>1. CASE Lock
  BY <1>1, ReportKept DEF IInv, Lock
<1>2. CASE PrintBuffer
  BY <1>2, ReportKept DEF IInv, PrintBuffer
<1>3. CASE ClearBuffer
  BY <1>3, ReportKept DEF IInv, ClearBuffer
<1> QED
  BY <1>1, <1>2, <1>3, ReportOfStore, ReportOfUnlock DEF Write

(* The texts of the report begin where the ones before them have ended.    *)
LEMMA ReportOfResetClear ==
  ASSUME IInv, ReportInv, machine = "running", ResetClear
  PROVE  ReportInv'
<1>1. /\ Running.pc = "resetClear" /\ 1 \in DOMAIN frames /\ machine' = "running"
      /\ Running' = IF Running.op = "fail" THEN Frame("fail", "lock", KOutWrite(Failure), "finish")
                                           ELSE Frame(Running.op, "finish", << >>, "idle")
  BY RunningIsFrame, LenProperties DEF IInv, StackInv, ResetClear, Running
<1> QED
  BY <1>1, TextsWithPieces DEF ReportInv, FailureInv, ToGo, Frame

LEMMA ReportOfFinish ==
  ASSUME IInv, ReportInv, machine = "running", Finish
  PROVE  ReportInv'
<1>1. /\ Running.pc = "finish" /\ 1 \in DOMAIN frames /\ UNCHANGED <<machine, accepted>>
      /\ Running \in Frames
  BY RunningIsFrame, LenProperties DEF IInv, StackInv, Finish
<1>2. \/ Running' = Frame(Running.op, "lock", KOutWriteLine(Halted), "halt")
      \/ \E out : Running' = Frame(Running.op, "lock", out, "reboot")
      \/ Running'.pc = "reboot"
  BY ZenonT(40), <1>1, GotoRunning DEF IInv, Finish, Running
<1>3. CASE Running' = Frame(Running.op, "lock", KOutWriteLine(Halted), "halt")
  BY <1>1, <1>3, TextsWithPieces DEF ReportInv, HaltedInv, ToGo, Frame
<1>4. CASE \E out : Running' = Frame(Running.op, "lock", out, "reboot")
  BY <1>1, <1>4 DEF ReportInv, Frame
<1>5. CASE Running'.pc = "reboot"
  BY <1>1, <1>5 DEF ReportInv
<1> QED
  BY <1>2, <1>3, <1>4, <1>5

(* Frames that begin, or go on below one that has ended, are not about the *)
(* report; those under a new one never go on.                              *)
LEMMA ReportOfFrames ==
  ASSUME IInv, ReportInv, machine = "running",
         Boot \/ Kmain \/ ReturnFromInterrupt \/ Interrupt \/ Exception
  PROVE  ReportInv'
<1>1. /\ Running \in Frames /\ Running = frames[1] /\ StackInv /\ 1 \in DOMAIN frames
      /\ Len(frames) \in Nat \ {0}
  BY RunningIsFrame, LenProperties DEF IInv, StackInv
<1>2. CASE Boot
  BY <1>2, GotoRunning, ReportElsewhere
  DEF IInv, Boot, DisplayTextStreamInit, KShutdownInit, ExceptionDispatcherInit
<1>3. CASE Kmain
  <2>1. CASE UNCHANGED <<frames, machine>> /\ Running.pc = "idle"
    BY <2>1, ReportElsewhere DEF Running
  <2>2. CASE Say
    <3>1. Running' = Frame("kmain", "lock", KOutWriteLine(Greeting), "idle") /\ machine' = machine
      BY <2>2 DEF Say, Running
    <3> QED
      BY <3>1, ReportOfOthers DEF Frame
  <2>3. CASE \E op \in {"fail", "halt", "reboot"} : ShutDown(op)
    <3>1. Running'.pc = "initiate" /\ machine' = machine
      BY <2>3 DEF ShutDown, Running, Frame
    <3> QED
      BY <3>1, ReportElsewhere
  <2> QED
    BY <1>3, <2>1, <2>2, <2>3
    DEF Kmain, SetRebootOnFailEnabled, SetRebootDelayInMilliseconds, SetInterrupts, streamVars
<1>4. CASE ReturnFromInterrupt
  <2>1. Running.op = "interrupt" /\ machine' = machine /\ frames' = Tail(frames)
    BY <1>1, <1>4 DEF ReturnFromInterrupt, Frames, FrameOK
  <2>2. Running' = frames[2] /\ Len(frames) = 2 /\ frames[2] \in Frames
    BY <1>1, <2>1, TopPopped, ElementOfSeq DEF StackInv
  <2>3. Preemptible(Running')
    BY <2>1, <2>2 DEF IInv, InterruptInv
  <2> QED
    BY <2>1, <2>2, <2>3, ReportElsewhere, ReportOfOthers DEF Preemptible, Frames, FrameOK
<1>5. CASE Interrupt
  <2> DEFINE f == Frame("interrupt", "lock", KOutWrite(IrqLine), "return")
  <2>1. frames' = << f >> \o frames /\ machine' = machine
    BY <1>5 DEF Interrupt
  <2>2. Running' = f
    BY <1>1, <2>1 DEF Running, StackInv
  <2> QED
    BY <2>1, <2>2, ReportOfOthers DEF Frame
<1>6. CASE Exception
  <2> DEFINE f == Frame("fail", "initiate", << >>, "idle")
  <2>1. CASE frames' = << f >> \o frames /\ machine' = machine
    <3>1. Running' = f
      BY <1>1, <2>1 DEF Running, StackInv
    <3> QED
      BY <2>1, <3>1, ReportElsewhere DEF Frame
  <2>2. CASE UNCHANGED <<frames, accepted, buffer>> /\ machine' = "reset"
    BY <2>2 DEF ReportInv, FailureInv, HaltedInv, ToGo, Report, Running
  <2> QED
    BY <1>6, <2>1, <2>2 DEF Exception
<1> QED
  BY <1>2, <1>3, <1>4, <1>5, <1>6

LEMMA ReportOfControl ==
  ASSUME IInv, ReportInv, machine = "running",
         Initiate \/ TakeDisplay \/ AssertDisabled \/ ResetPrint
  PROVE  ReportInv'
<1>1. StackInv
  BY DEF IInv
<1>2. CASE Initiate
  BY <1>1, <1>2, GotoRunning DEF Initiate, ReportInv
<1>3. CASE TakeDisplay
  BY <1>1, <1>3, GotoRunning, ReportElsewhere DEF TakeDisplay
<1>4. CASE AssertDisabled
  <2>1. CASE Exception
    BY <2>1, ReportOfFrames
  <2>2. CASE Goto("assertDisabled", "resetPrint") /\ UNCHANGED machine
    BY <1>1, <2>2, GotoRunning, ReportElsewhere
  <2> QED
    BY <1>4, <2>1, <2>2 DEF AssertDisabled
<1>5. CASE ResetPrint
  BY <1>1, <1>5, GotoRunning, ReportElsewhere DEF ResetPrint
<1> QED
  BY <1>2, <1>3, <1>4, <1>5

LEMMA ReportOfEnd ==
  ASSUME ReportInv, machine = "running", Halt \/ Reboot
  PROVE  ReportInv'
BY DEF ReportInv, FailureInv, HaltedInv, ToGo, Report, Running, Halt, Reboot, streamVars

LEMMA ReportPreserved == IInv /\ ReportInv /\ [Next]_vars => ReportInv'
<1> SUFFICES ASSUME IInv, ReportInv, [Next]_vars PROVE ReportInv'
  OBVIOUS
<1>1. CASE UNCHANGED vars
  BY <1>1 DEF ReportInv, FailureInv, HaltedInv, ToGo, Report, Running, vars, streamVars
<1>2. CASE machine = "running" /\ Continue
  BY <1>2, ReportOfWrite, ReportOfFrames, ReportOfControl, ReportOfResetClear, ReportOfFinish,
     ReportOfEnd
  DEF Continue
<1>3. CASE machine = "running" /\ (Boot \/ Kmain \/ Interrupt \/ Fault)
  BY <1>3, ReportOfFrames DEF Fault
<1> QED
  BY <1>1, <1>2, <1>3 DEF Next

(* A machine that halts shows all of its message in one piece at the end   *)
(* of the text, whatever was interrupted in the middle of a line.          *)
THEOREM ReportCompleteAlways == Spec => []ReportComplete
<1>1. Init => ReportInv
  <2> SUFFICES ASSUME Init PROVE ReportInv
    OBVIOUS
  <2>1. Running = Frame("kmain", "DisplayTextStream_init", << >>, "idle") /\ machine = "running"
    BY DEF Init, Running
  <2> QED
    BY <2>1 DEF ReportInv, Frame
<1>2. IInv /\ ReportInv => ReportComplete
  <2> SUFFICES ASSUME IInv, ReportInv, machine = "halted"
               PROVE  EndsWith(display, Report(Running))
    BY DEF ReportComplete, Report
  <2>1. Running.pc = "halt" /\ buffer = << >> /\ EndsWith(accepted, Report(Running))
    BY DEF ReportInv
  <2>2. display = accepted
    BY <2>1, ConcatEmptySeq DEF IInv, DataOK, DropInv, Printed
  <2> QED
    BY <2>1, <2>2
<1> QED
  BY <1>1, <1>2, ReportPreserved, InductiveInvariant, PTL DEF Spec
=============================================================================
