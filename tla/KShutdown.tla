------------------------------ MODULE KShutdown ------------------------------
(***************************************************************************)
(* KShutdown.c: how the kernel goes down, from whatever code, with what it *)
(* tells the user.  Exceptions in the kernel end in KShutdown_fail() (see  *)
(* ExceptionDispatcher.c), and so do failed asserts, which are breakpoint  *)
(* exceptions in a checked build; device interrupts write a line, which    *)
(* only checked builds do.  The layout of the display is left out.         *)
(***************************************************************************)
EXTENDS DisplayTextStream

CONSTANTS
  DefaultDelay,       \* of a reboot: 10000 ms
  Delays,             \* those that kmain() sets
  FaultsHappen,       \* whether there are exceptions other than asserts
  MaxOutput,          \* bounds: characters written before a shutdown,
  MaxFrames           \* and frames

ASSUME ShutdownAssumption ==
  /\ DefaultDelay \in Nat
  /\ Delays \subseteq Nat
  /\ FaultsHappen \in BOOLEAN

VARIABLES
  rebootOnFail, rebootDelay,    \* m_rebootOnFail, m_rebootDelayInMilliseconds
  handlersRegistered,           \* by ExceptionDispatcher_initForCurrentProcessor()
  machine,                      \* "running", or how it went down
  wanted                        \* history: IF, as kmain() last set it

settings == <<rebootOnFail, rebootDelay, handlersRegistered>>
vars     == <<streamVars, settings, machine, wanted>>

(* KOut_write() and KOut_writeLine()                                       *)
KOutWrite(text)     == text \o <<"NUL">>
KOutWriteLine(text) == text \o <<"NUL", "LF">>

Greeting  == <<"boot1", "boot2">>
IrqLine   == <<"irq">>
Failure   == <<"fail1", "fail2">>
Halted    == <<"halted">>
Rebooting == <<"rebooting">>

Frame(op, pc, out, then) == [op |-> op, pc |-> pc, out |-> out, then |-> then]

(* All of this is in the bss segment, which is zero.                       *)
Init ==
  /\ interruptsEnabled = FALSE
  /\ lock = FALSE
  /\ buffer = << >>
  /\ display = << >>
  /\ shutdownProcessorID = 0
  /\ frames = << Frame("kmain", "DisplayTextStream_init", << >>, "idle") >>
  /\ accepted = << >>
  /\ rebootOnFail = FALSE
  /\ rebootDelay = 0
  /\ handlersRegistered = FALSE
  /\ machine = "running"
  /\ wanted = FALSE
-----------------------------------------------------------------------------
(* kmain(): initialization, and then whatever the kernel may do.           *)

DisplayTextStreamInit ==
  /\ Goto("DisplayTextStream_init", "KShutdown_init")
  /\ buffer' = << >>
  /\ display' = << >>
  /\ lock' = FALSE
  /\ UNCHANGED <<interruptsEnabled, shutdownProcessorID, accepted, settings, machine, wanted>>

KShutdownInit ==
  /\ Goto("KShutdown_init", "ExceptionDispatcher_init")
  /\ shutdownProcessorID' = -1
  /\ rebootOnFail' = TRUE
  /\ rebootDelay' = DefaultDelay
  /\ UNCHANGED <<interruptsEnabled, lock, buffer, display, accepted, handlersRegistered,
                 machine, wanted>>

ExceptionDispatcherInit ==
  /\ Goto("ExceptionDispatcher_init", "idle")
  /\ handlersRegistered' = TRUE
  /\ UNCHANGED <<interruptsEnabled, lock, buffer, display, shutdownProcessorID, accepted,
                 rebootOnFail, rebootDelay, machine, wanted>>

SetRebootOnFailEnabled ==
  /\ Running.pc = "idle"
  /\ rebootOnFail' \in BOOLEAN
  /\ UNCHANGED <<streamVars, rebootDelay, handlersRegistered, machine, wanted>>

SetRebootDelayInMilliseconds ==
  /\ Running.pc = "idle"
  /\ rebootDelay' \in Delays
  /\ UNCHANGED <<streamVars, rebootOnFail, handlersRegistered, machine, wanted>>

SetInterrupts(enabled) ==
  /\ Running.pc = "idle"
  /\ interruptsEnabled' = enabled
  /\ wanted' = enabled
  /\ UNCHANGED <<lock, buffer, display, shutdownProcessorID, frames, accepted, settings, machine>>

Say ==
  /\ Running.pc = "idle" /\ Len(accepted) < MaxOutput
  /\ frames' = << Frame("kmain", "lock", KOutWriteLine(Greeting), "idle") >>
  /\ UNCHANGED <<interruptsEnabled, lock, buffer, display, shutdownProcessorID, accepted,
                 settings, machine, wanted>>

(* KShutdown_fail(), KShutdown_halt(), KShutdown_reboot()                  *)
ShutDown(op) ==
  /\ Running.pc = "idle"
  /\ frames' = << Frame(op, "initiate", << >>, "idle") >>
  /\ UNCHANGED <<interruptsEnabled, lock, buffer, display, shutdownProcessorID, accepted,
                 settings, machine, wanted>>
-----------------------------------------------------------------------------
(* Interrupts and exceptions: both come through interrupt gates.           *)

Interrupt ==
  /\ interruptsEnabled /\ Len(accepted) < MaxOutput
  /\ interruptsEnabled' = FALSE
  /\ frames' = << Frame("interrupt", "lock", KOutWrite(IrqLine), "return") >> \o frames
  /\ UNCHANGED <<lock, buffer, display, shutdownProcessorID, accepted, settings, machine, wanted>>

ReturnFromInterrupt ==
  /\ Running.pc = "return"
  /\ interruptsEnabled' = TRUE
  /\ frames' = Tail(frames)
  /\ UNCHANGED <<lock, buffer, display, shutdownProcessorID, accepted, settings, machine, wanted>>

(* Without a handler of its own, an exception resets the machine.          *)
Exception ==
  /\ interruptsEnabled' = FALSE
  /\ \/ /\ handlersRegistered
        /\ frames' = << Frame("fail", "initiate", << >>, "idle") >> \o frames
        /\ UNCHANGED machine
     \/ /\ ~ handlersRegistered
        /\ machine' = "reset"
        /\ UNCHANGED frames
  /\ UNCHANGED <<lock, buffer, display, shutdownProcessorID, accepted, settings, wanted>>

(* A fault or an NMI, or an assert in whatever code runs.                  *)
Fault == FaultsHappen /\ Len(frames) < MaxFrames /\ Exception
-----------------------------------------------------------------------------
(* KShutdown_initiateShutdownMode()                                        *)

(* Bug: the processor that is already shutting down waits, too.            *)
InitiateWaiting ==
  /\ Goto("initiate", IF InShutdownMode THEN "waiting" ELSE "takeDisplay")
  /\ shutdownProcessorID' = 0
  /\ UNCHANGED <<interruptsEnabled, lock, buffer, display, accepted, settings, machine, wanted>>

(* Bug: the result of the compare-and-swap is ignored.                     *)
InitiateAgain ==
  /\ Goto("initiate", "takeDisplay")
  /\ shutdownProcessorID' = 0
  /\ UNCHANGED <<interruptsEnabled, lock, buffer, display, accepted, settings, machine, wanted>>

(* Only one call gets past this.  Another one comes from the same          *)
(* processor, since there is no other, and resets the machine.             *)
Initiate ==
  /\ \/ /\ Goto("initiate", "takeDisplay")
        /\ shutdownProcessorID = -1
        /\ shutdownProcessorID' = 0
        /\ UNCHANGED machine
     \/ /\ Goto("initiate", "initiate")
        /\ shutdownProcessorID # -1
        /\ machine' = "reset"
        /\ UNCHANGED shutdownProcessorID
  /\ UNCHANGED <<interruptsEnabled, lock, buffer, display, accepted, settings, wanted>>

(* DisplayTextStream_reset(): KernelDisplay_reset() clears the display ... *)
TakeDisplay ==
  /\ Goto("takeDisplay", "assertDisabled")
  /\ display' = << >>
  /\ accepted' = buffer
  /\ UNCHANGED <<interruptsEnabled, lock, buffer, shutdownProcessorID, settings, machine, wanted>>

(* Bug: as in a build without asserts.                                     *)
DontAssertDisabled ==
  /\ Goto("assertDisabled", "resetPrint")
  /\ UNCHANGED <<interruptsEnabled, lock, buffer, display, shutdownProcessorID, accepted,
                 settings, machine, wanted>>

(* ... then it is asserted that interrupts are disabled ...                *)
AssertDisabled ==
  \/ /\ Running.pc = "assertDisabled" /\ interruptsEnabled
     /\ Exception
  \/ /\ Goto("assertDisabled", "resetPrint") /\ ~ interruptsEnabled
     /\ UNCHANGED <<interruptsEnabled, lock, buffer, display, shutdownProcessorID, accepted,
                    settings, machine, wanted>>

(* ... and what was in the buffer is flushed.                              *)
ResetPrint ==
  /\ Goto("resetPrint", "resetClear")
  /\ display' = display \o buffer
  /\ UNCHANGED <<interruptsEnabled, lock, buffer, shutdownProcessorID, accepted, settings,
                 machine, wanted>>

ResetClear ==
  /\ Running.pc = "resetClear"
  /\ buffer' = << >>
  /\ frames' = [frames EXCEPT ![1] =
       IF Running.op = "fail" THEN Frame("fail", "lock", KOutWrite(Failure), "finish")
                              ELSE Frame(Running.op, "finish", << >>, "idle")]
  /\ UNCHANGED <<interruptsEnabled, lock, display, shutdownProcessorID, accepted, settings,
                 machine, wanted>>

Dots(n) == [k \in 1 .. 2 * n |-> IF k % 2 = 1 THEN "." ELSE "NUL"]

DelayInSeconds == rebootDelay \div 1000

(* doHalt() and doReboot(), which says nothing if there is no delay.       *)
Finish ==
  LET reboots == Running.op = "reboot" \/ (Running.op = "fail" /\ rebootOnFail) IN
  /\ Running.pc = "finish"
  /\ \/ /\ ~ reboots
        /\ frames' = [frames EXCEPT ![1] =
             Frame(Running.op, "lock", KOutWriteLine(Halted), "halt")]
     \/ /\ reboots /\ DelayInSeconds > 0
        /\ frames' = [frames EXCEPT ![1] =
             Frame(Running.op, "lock", KOutWriteLine(Rebooting) \o Dots(DelayInSeconds), "reboot")]
     \/ /\ reboots /\ DelayInSeconds = 0
        /\ Goto("finish", "reboot")
  /\ UNCHANGED <<interruptsEnabled, lock, buffer, display, shutdownProcessorID, accepted,
                 settings, machine, wanted>>

(* ShutdownHardware_halt()                                                 *)
Halt ==
  /\ Running.pc = "halt"
  /\ interruptsEnabled' = FALSE
  /\ machine' = "halted"
  /\ UNCHANGED <<lock, buffer, display, shutdownProcessorID, frames, accepted, settings, wanted>>

(* ShutdownHardware_reboot()                                               *)
Reboot ==
  /\ Running.pc = "reboot"
  /\ machine' = "rebooted"
  /\ UNCHANGED <<streamVars, settings, wanted>>
-----------------------------------------------------------------------------
Boot == DisplayTextStreamInit \/ KShutdownInit \/ ExceptionDispatcherInit

Kmain ==
  \/ SetRebootOnFailEnabled \/ SetRebootDelayInMilliseconds
  \/ \E enabled \in BOOLEAN : SetInterrupts(enabled)
  \/ Say
  \/ \E op \in {"fail", "halt", "reboot"} : ShutDown(op)

(* The steps of a call or a handler under way.                             *)
Continue ==
  \/ Write /\ UNCHANGED <<settings, machine, wanted>>
  \/ ReturnFromInterrupt
  \/ Initiate \/ TakeDisplay \/ AssertDisabled \/ ResetPrint \/ ResetClear
  \/ Finish \/ Halt \/ Reboot

Next ==
  /\ machine = "running"
  /\ Boot \/ Kmain \/ Continue \/ Interrupt \/ Fault

Spec     == Init /\ [][Next]_vars
FairSpec == Spec /\ WF_vars(machine = "running" /\ Continue)
-----------------------------------------------------------------------------
PCs == {"DisplayTextStream_init", "KShutdown_init", "ExceptionDispatcher_init", "idle",
        "lock", "write", "clear", "unlock", "return", "initiate", "takeDisplay",
        "assertDisabled", "resetPrint", "resetClear", "finish", "halt", "reboot"}

(* The buffer never overflows, whoever's characters are in it.             *)
TypeOK ==
  /\ interruptsEnabled \in BOOLEAN /\ lock \in BOOLEAN /\ wanted \in BOOLEAN
  /\ Len(buffer) \in 0 .. BufferSize
  /\ shutdownProcessorID \in {-1, 0}
  /\ \A k \in DOMAIN frames :
       frames[k].op \in {"kmain", "interrupt", "fail", "halt", "reboot"} /\ frames[k].pc \in PCs
  /\ rebootOnFail \in BOOLEAN /\ rebootDelay \in Nat /\ handlersRegistered \in BOOLEAN
  /\ machine \in {"running", "halted", "rebooted", "reset"}

(* Locks leave interrupts as the caller had them: handlers run with        *)
(* interrupts disabled although they take the lock, too, and between its   *)
(* calls kmain() finds them as it last set them.                           *)
InterruptsAsLeft ==
  /\ Len(frames) > 1 => ~ interruptsEnabled
  /\ Running.pc = "idle" /\ machine = "running" => interruptsEnabled = wanted

(* No character is lost, shown twice or out of order, however the lines of *)
(* kmain() and of handlers interleave, and wherever the kernel crashes:    *)
(* all that was not on the display by then is still shown.                 *)
NothingDropped ==
  \/ display \o buffer = accepted
  \/ display = accepted /\ \E k \in DOMAIN frames : frames[k].pc \in {"clear", "resetClear"}

(* A frame past the compare-and-swap: it owns the machine.                 *)
InControl(k) ==
  frames[k].pc \in {"takeDisplay", "assertDisabled", "resetPrint", "resetClear", "finish",
                    "halt", "reboot"}
    \/ frames[k].then \in {"finish", "halt", "reboot"}

(* However often shutting down fails in its turn, only the call that came  *)
(* first ever works on the display without a lock.                         *)
OneInControl ==
  \A j, k \in DOMAIN frames : InControl(j) /\ InControl(k) => j = k

EndsWith(seq, end) ==
  /\ Len(end) <= Len(seq)
  /\ SubSeq(seq, Len(seq) - Len(end) + 1, Len(seq)) = end

(* A machine that halts shows all of its message in one piece, whatever    *)
(* code was interrupted in the middle of a line of its own.                *)
ReportComplete ==
  machine = "halted" =>
    EndsWith(display, IF Running.op = "fail" THEN Failure \o Halted ELSE Halted)

(* A shutdown gets to its end, whatever fails on the way.                  *)
GoesDown == handlersRegistered /\ InShutdownMode ~> machine # "running"

(* KShutdown.h: "Instructs the kernel to enter shutdown mode, outputs a    *)
(* stock message to the kernel display, and halts all processors": if      *)
(* there are no faults, nothing resets the machine instead.                *)
GoesDownAsAsked == machine # "reset"
=============================================================================
