------------------------------ MODULE Processor ------------------------------
(***************************************************************************)
(* Processor_x86_uni.c and its assembler, with TrapFrame_x86.h and the     *)
(* handlers of ExceptionDispatcher_x86.c and WritableTrapFrame_x86.c: the  *)
(* tables of the processor, how it gets into the kernel and out again, and *)
(* what the report of a failure says of the program it interrupted.        *)
(*                                                                         *)
(* A kernel stack is the sequence of words pushed on it, so its addresses  *)
(* are lengths, and a TrapFrame is where the stack ended when it was       *)
(* complete.  The work of the handlers for device interrupts is left to    *)
(* InterruptDispatcher; they are taken for what IInterruptHandler.h says   *)
(* of any handler, so that they may switch contexts.                       *)
(***************************************************************************)
EXTENDS ProtectedMode, SequencesExt, FiniteSets

CONSTANTS
  KernelThreads, UserThreads,   \* for which somebody made up a TrapFrame
  StubAddress,                  \* of IntNHandler or ErrorIntNHandler, for each N
  TssAddress,                   \* of m_tss
  Lines, Exceptions,            \* vectors of device interrupts and exceptions raised
  MaxTraps                      \* bound: entries into the kernel

Boot     == "boot"              \* the stack of StartPrecursor
Threads  == KernelThreads \cup UserThreads
Contexts == {Boot} \cup Threads

Vectors  == 0 .. 48             \* NUM_IDT_ENTRIES

ASSUME ProcessorAssumption ==
  /\ Boot \notin Threads /\ KernelThreads \cap UserThreads = {}
  /\ StubAddress \in [Vectors -> Nat] /\ TssAddress \in Nat
  /\ {TssAddress} \cup {StubAddress[v] : v \in Vectors} \subseteq 0 .. WordValues * WordValues - 1
  /\ Lines \subseteq 32 .. 47 /\ Exceptions \subseteq (0 .. 31 \ {3}) \cup {48}
  /\ \A v, w \in Vectors : StubAddress[v] = StubAddress[w] => v = w

VARIABLES
  gdt, idt, tss, dispatchTable,   \* the Processor
  idtIsLoaded,                    \* whether IDTR has it, not the IDT of size zero
  regs,                           \* of the processor
  stack,                          \* kernel stacks
  running,                        \* context that they belong to
  suspended,                      \* history: TrapFrames in use on each stack, and
                                  \*   the registers when they were made
  calling,                        \* handler to be called, or "none"
  traps,                          \* history: number of entries
  cause,                          \*   and the last one, as the hardware has it
  report,                         \* of a failure
  machine                         \* "running", "failed" or "reset"

tables        == <<gdt, idt, tss, dispatchTable, idtIsLoaded>>
processorVars == <<tables, regs, stack, running, suspended, calling, traps, cause, report, machine>>

KernelCode == SegmentSelector(2, 0)     \* KERNEL_CODESEG_SELECTOR, CS0_SEL
KernelData == SegmentSelector(3, 0)     \* KERNEL_DATASEG_SELECTOR, SS0_SEL
TssSelector == SegmentSelector(1, 0)
UserCode   == SegmentSelector(4, 3)
UserData   == SegmentSelector(5, 3)

(* Words are numbers, selectors, flags, or values told apart by the name   *)
(* of a register and by who gave it.                                       *)
Number(n) == [number |-> n]
Value(r, by) == [register |-> r, by |-> by]

Gprs     == {"eax", "ecx", "edx", "ebx", "ebp", "esi", "edi"}
DataSegs == {"ss", "ds", "es", "fs", "gs"}

RegisterNames == Gprs \cup DataSegs \cup {"cs", "eip", "esp", "eflags", "cr2"}

(* In a context of the kernel or of a user.                                *)
Registers(by, code, data, enabled, esp) ==
  [r \in RegisterNames |->
     CASE r = "esp"     -> esp
       [] r = "eflags"  -> [by |-> by, interruptFlag |-> enabled]
       [] r = "cs"      -> code
       [] r \in DataSegs -> data
       [] OTHER         -> Value(r, by)]

ByContext(c) == [context |-> c]
ByHandler(n) == [trap |-> n]
-----------------------------------------------------------------------------
(* TrapFrameStruct, from its lowest address, where the stack ends.         *)
Layout ==
  <<"gs", "fs", "es", "ds", "cr2", "edi", "esi", "ebp", "esp", "ebx", "edx", "ecx", "eax",
    "interruptVectorNumber", "errorCode", "eip", "cs", "eflags", "esp3", "ss3">>

(* Beyond a stack is what was in that memory before.                       *)
Word(s, frame, k) ==
  IF frame - k + 1 \in DOMAIN s THEN s[frame - k + 1] ELSE [beyond |-> k - frame]

Field(s, frame, name) == Word(s, frame, CHOOSE k \in 1 .. Len(Layout) : Layout[k] = name)

IsKernelInterrupted(s, frame) == Field(s, frame, "cs").rpl = 0

(* Exceptions for which the processor pushes an error code.                *)
HasErrorCode == {8, 10, 11, 12, 13, 14, 17}

(* The stubs, by what they find on the stack: IntHandler pushes a 0.       *)
ErrorIntHandlers == {8, 10, 11, 12, 13, 14, 17}

PushVector(v) == IF v \in ErrorIntHandlers THEN <<Number(v)>> ELSE <<Number(0), Number(v)>>

Pushad(r, esp) == <<r.eax, r.ecx, r.edx, r.ebx, Number(esp), r.ebp, r.esi, r.edi>>

(* Bug: cr2 takes the place of the registers, and they that of cr2.        *)
EnterKernelSwapped(s, r, v) ==
  LET pushed == s \o PushVector(v) IN
  pushed \o <<IF v = 14 THEN r.cr2 ELSE Number(0)>> \o Pushad(r, Len(pushed))
         \o <<r.ds, r.es, r.fs, r.gs>>

(* From the stub of the vector to EnterKernel or PFEnterKernel, with the   *)
(* registers as they were.                                                 *)
EnterKernel(s, r, v) ==
  LET pushed == s \o PushVector(v) IN
  pushed \o Pushad(r, Len(pushed)) \o <<IF v = 14 THEN r.cr2 ELSE Number(0)>>
         \o <<r.ds, r.es, r.fs, r.gs>>

(* What the processor pushes, on the stack that it has chosen.             *)
Interrupted(s, r, v, errorCode) ==
  s \o (IF r.cs.rpl = 3 THEN <<r.ss, r.esp>> ELSE << >>)
    \o <<r.eflags, r.cs, r.eip>>
    \o (IF v \in HasErrorCode THEN <<errorCode>> ELSE << >>)

(* Bug: two words are taken for the stack pointer in every frame.          *)
LeaveKernelAsUser(s, frame) ==
  [r \in RegisterNames |->
     CASE r = "cr2" -> regs.cr2
       [] r = "esp" -> Field(s, frame, "esp3")
       [] r = "ss"  -> Field(s, frame, "ss3")
       [] OTHER     -> Field(s, frame, r)]

(* The end of EnterKernel: the words are popped where Layout has them.  In *)
(* a frame of the kernel there is no stack pointer to pop; CR2 stays.      *)
LeaveKernel(s, frame) ==
  LET isKernel == IsKernelInterrupted(s, frame) IN
  [r \in RegisterNames |->
     CASE r = "cr2" -> regs.cr2
       [] r = "esp" -> IF isKernel THEN Number(frame - Len(Layout) + 2) ELSE Field(s, frame, "esp3")
       [] r = "ss"  -> IF isKernel THEN KernelData ELSE Field(s, frame, "ss3")
       [] OTHER     -> Field(s, frame, r)]

(* Whoever makes up a thread makes up its TrapFrame.                       *)
NewFrame(r) ==
  Reverse([k \in 1 .. Len(Layout) |->
             CASE Layout[k] = "esp3" -> r.esp [] Layout[k] = "ss3" -> r.ss
               [] Layout[k] \in {"interruptVectorNumber", "errorCode", "cr2", "esp"} -> Number(0)
               [] OTHER -> r[Layout[k]]])

NewThread(t) ==
  IF t \in KernelThreads
    THEN Registers(ByContext(t), KernelCode, KernelData, TRUE, Number(2))
    ELSE Registers(ByContext(t), UserCode, UserData, TRUE, Value("esp", ByContext(t)))

ProcessorInit ==
  /\ gdt = [k \in 0 .. 5 |-> NotPresent]
  /\ idt = [v \in Vectors |-> ZeroInterruptGate]
  /\ tss = ZeroTaskStateSegment
  /\ dispatchTable = [v \in Vectors |-> "none"]
  /\ idtIsLoaded = FALSE
  /\ regs = Registers(ByContext(Boot), SegmentSelector(1, 0), SegmentSelector(2, 0), FALSE,
                      Number(0))
  /\ stack = [c \in Contexts |-> IF c = Boot THEN << >> ELSE NewFrame(NewThread(c))]
  /\ running = Boot
  /\ suspended = [c \in Contexts |->
       IF c = Boot THEN << >> ELSE << [at |-> Len(Layout), regs |-> NewThread(c)] >>]
  /\ calling = "none"
  /\ traps = 0
  /\ cause = << >> /\ report = << >>
  /\ machine = "running"
-----------------------------------------------------------------------------
(* Initialization                                                          *)

(* Processor_initGdt(), _initIdt() and _initTss()                          *)
InitGdt ==
  [k \in 0 .. 5 |->
     CASE k = 0 -> NotPresent
       [] k = TssSelector.index -> CreateTssDescriptor(TssAddress)
       [] k = KernelCode.index  -> CreateCodeSegment(TRUE)
       [] k = KernelData.index  -> CreateDataSegment(TRUE)
       [] k = UserCode.index    -> CreateCodeSegment(FALSE)
       [] k = UserData.index    -> CreateDataSegment(FALSE)]

InitIdt == [v \in Vectors |-> CreateInterruptGate(StubAddress[v], KernelCode)]

InitTss == [ZeroTaskStateSegment EXCEPT !.ss0 = KernelCode]

(* Processor_initPrimary(): what lgdt, ltr and the new selectors find in   *)
(* the tables is fit for it, or else the machine resets.                   *)
InitPrimary ==
  /\ gdt' = InitGdt /\ idt' = InitIdt /\ tss' = InitTss
  /\ dispatchTable' = [v \in Vectors |-> "default"]
  /\ idtIsLoaded' = TRUE
  /\ regs' = Registers(ByContext(Boot), KernelCode, KernelData, FALSE, Number(0))
  /\ machine' = IF /\ IsTss(gdt'[TssSelector.index])
                   /\ Base(gdt'[TssSelector.index]) = TssAddress
                   /\ IsCode(gdt'[KernelCode.index], 0) /\ IsStack(gdt'[KernelData.index], 0)
                  THEN machine ELSE "reset"
  /\ UNCHANGED <<stack, running, suspended, calling, traps, cause, report>>

(* Processor_registerHandler() for each vector of a list.                  *)
RegisterHandler(table, vectors, handler) ==
  [v \in Vectors |-> IF v \in vectors THEN handler ELSE table[v]]

Deliverable   == {0, 3, 4, 5, 6, 7, 11, 12, 13, 14, 16, 17, 19, 48}

(* Bug: the reserved vectors are left to the default handler.              *)
UnrecoverableUnreserved == {1, 2, 8, 9, 10, 18}

Unrecoverable == {1, 2, 8, 9, 10, 15, 18} \cup 20 .. 31

OnlyTables ==
  UNCHANGED <<gdt, idt, tss, idtIsLoaded, regs, stack, running, suspended, calling, traps, cause,
              report, machine>>

(* ExceptionDispatcher_ and InterruptDispatcher_initForCurrentProcessor()  *)
RegisterExceptionHandlers ==
  /\ dispatchTable' = RegisterHandler(RegisterHandler(dispatchTable, Deliverable, "deliverable"),
                                      Unrecoverable, "unrecoverable")
  /\ OnlyTables

RegisterInterruptHandlers ==
  /\ dispatchTable' = RegisterHandler(dispatchTable, 32 .. 47, "interrupt")
  /\ OnlyTables
-----------------------------------------------------------------------------
(* Into the kernel                                                         *)

IsUser == regs.cs.rpl = 3

(* Where the processor finds the stack to use, if it can use it.           *)
KernelStack ==
  IF IsUser THEN SubSeq(stack[tss.esp0.context], 1, tss.esp0.at) ELSE stack[running]

StackIsUsable == IsUser => IsStack(gdt[tss.ss0.index], 0)

(* Any interrupt or exception that finds the registers r and the stack s.  *)
(* What the handler does with the general-purpose registers is up to it.   *)
Trap(s, r, v, assertion) ==
  LET gate  == idt[v]
      error == [error |-> traps]
      stub  == CHOOSE w \in Vectors : StubAddress[w] = GateOffset(gate)
      saved == EnterKernel(Interrupted(s, r, v, error), r, stub)
      where == IF IsUser THEN tss.esp0.context ELSE running
  IN
  /\ cause' = [vector |-> v, error |-> IF v \in HasErrorCode THEN error ELSE Number(0),
               user |-> IsUser, assertion |-> assertion]
  /\ traps' = traps + 1
  /\ IF /\ idtIsLoaded /\ IsInterruptGate(gate) /\ IsCode(gdt[gate.segSelector.index], 0)
          /\ StackIsUsable
       THEN /\ stack' = [stack EXCEPT ![where] =
                           saved \o <<Number(Len(saved)), [argument |-> "this"]>>]
            /\ suspended' = [suspended EXCEPT ![where] =
                               Append(@, [at |-> Len(saved), regs |-> r])]
            /\ regs' = [Registers(ByHandler(traps'), KernelCode, KernelData, FALSE,
                                 Number(Len(saved) + 2))
                          EXCEPT !.cr2 = r.cr2]
            /\ running' = where
            /\ calling' = dispatchTable[Field(saved, Len(saved), "interruptVectorNumber").number]
            /\ UNCHANGED machine
       ELSE machine' = "reset" /\ UNCHANGED <<stack, suspended, regs, running, calling>>
  /\ UNCHANGED <<tables, report>>

MayTrap == machine = "running" /\ traps < MaxTraps /\ calling \in {"none", "interrupt"}

DeviceInterrupt ==
  /\ MayTrap /\ regs.eflags.interruptFlag
  /\ \E v \in Lines : Trap(KernelStack, regs, v, << >>)

(* Exceptions other than breakpoints, and int 30h.                         *)
Exception ==
  /\ MayTrap
  /\ \E v \in Exceptions : Trap(KernelStack, regs, v, << >>)

(* A failed assert calls KDebug_triggerDebugTrap().                        *)
FailedAssert(assertion) ==
  /\ MayTrap /\ ~ IsUser
  /\ LET s == stack[running] \o
                <<assertion.line, assertion.file, assertion.message,
                  Value("eip", "assertion")>> IN
     Trap(s, [regs EXCEPT !.esp = Number(Len(s)),
                          !.eip = Value("eip", "KDebug_triggerDebugTrap")], 3, assertion)
-----------------------------------------------------------------------------
(* The handlers                                                            *)

(* Not to be confused by what is deeper in the stack.                      *)
ActiveFrame == Last(suspended[running]).at

(* Processor_hardReset()                                                   *)
DefaultHandler ==
  /\ machine = "running" /\ calling = "default"
  /\ machine' = "reset"
  /\ UNCHANGED <<tables, regs, stack, running, suspended, calling, traps, cause, report>>

(* WritableTrapFrame_writeInterruptVectorNumberTo(): exceptions by name.   *)
VectorText(v) ==
  CASE v \in {15} \cup 20 .. 31 -> <<"Reserved">>
    [] v \in (0 .. 19) \ {15}   -> <<"Exception", v>>
    [] v \in 32 .. 47           -> <<"Hardware Interrupt", v - 32>>
    [] v = 48                   -> <<"System Call Vector">>
    [] OTHER                    -> <<"Unrecognized Interrupt Vector">>

(* WritableTrapFrame_writeTo(), as far as a frame of the kernel has them:  *)
(* the registers by their labels.                                          *)
Labels ==
  [EAX |-> "eax", EBX |-> "ebx", ECX |-> "ecx", EDX |-> "edx", EDI |-> "edi", ESI |-> "esi",
   EBP |-> "ebp", ESP |-> "esp", EIP |-> "eip", EFLAGS |-> "eflags", CR2 |-> "cr2", CS |-> "cs",
   DS |-> "ds", ES |-> "es", FS |-> "fs", GS |-> "gs", ErrorCode |-> "errorCode"]

MachineState(s, frame) == [label \in DOMAIN Labels |-> Field(s, frame, Labels[label])]

(* Bug: the padding is as large as the whole TrapFrame.                    *)
AssertionInfoBehindUser(s, frame) ==
  [message |-> Word(s, frame, Len(Layout) + 2), file |-> Word(s, frame, Len(Layout) + 3),
   line |-> Word(s, frame, Len(Layout) + 4)]

(* AssertionInfo lies over the frame, whose last two words the processor   *)
(* has not pushed.                                                         *)
AssertionInfo(s, frame) ==
  [message |-> Word(s, frame, Len(Layout)), file |-> Word(s, frame, Len(Layout) + 1),
   line |-> Word(s, frame, Len(Layout) + 2)]

(* Both handlers of exceptions end in KShutdown_fail().  That of exceptions*)
(* in user mode is not implemented yet.                                    *)
ExceptionHandler ==
  LET s == stack[running]
      vector == Field(s, ActiveFrame, "interruptVectorNumber")
  IN
  /\ machine = "running" /\ calling \in {"deliverable", "unrecoverable"}
  /\ IsKernelInterrupted(s, ActiveFrame)
  /\ report' = [interrupt |-> VectorText(vector.number),
                machineState |-> MachineState(s, ActiveFrame),
                assertion |-> IF calling = "deliverable" /\ vector = Number(3)
                                THEN AssertionInfo(s, ActiveFrame) ELSE << >>]
  /\ machine' = "failed"
  /\ UNCHANGED <<tables, regs, stack, running, suspended, calling, traps, cause>>

(* Handlers of interrupts may enable them, and disable them in the end.    *)
SetInterruptFlag(enabled) ==
  /\ machine = "running" /\ ~ IsUser
  /\ regs.eflags.interruptFlag # enabled
  /\ regs' = [regs EXCEPT !.eflags.interruptFlag = enabled]
  /\ UNCHANGED <<tables, stack, running, suspended, calling, traps, cause, report, machine>>

HandlerSetsInterruptFlag ==
  calling = "interrupt" /\ \E enabled \in BOOLEAN : SetInterruptFlag(enabled)

(* Bug: ESP0 stays where it was.                                           *)
NextTssKeeping(to, frame) == tss

(* A switch to a user gives the processor the bottom of the user's kernel  *)
(* stack.                                                                  *)
NextTss(to, frame) ==
  IF IsKernelInterrupted(stack[to], frame)
    THEN tss
    ELSE [tss EXCEPT !.esp0 = [context |-> to, at |-> frame - Len(Layout)]]

(* Processor_dispatchToHandler() when the handler has returned the frame   *)
(* of a context, NULL meaning the one that was interrupted.                *)
Return(to) ==
  LET frame == Last(suspended[to]).at
      left  == [stack EXCEPT ![running] = SubSeq(@, 1, ActiveFrame)]
  IN
  /\ machine = "running" /\ calling = "interrupt" /\ ~ regs.eflags.interruptFlag
  /\ suspended[to] # << >>
  /\ regs' = LeaveKernel(stack[to], frame)
  /\ tss' = IF to = running THEN tss ELSE NextTss(to, frame)
  /\ stack' = [left EXCEPT ![to] = SubSeq(@, 1, frame - Len(Layout)
                                     + IF IsKernelInterrupted(@, frame) THEN 2 ELSE 0)]
  /\ suspended' = [suspended EXCEPT ![to] = Front(@)]
  /\ running' = to
  /\ calling' = IF suspended'[to] = << >> THEN "none" ELSE "interrupt"
  /\ UNCHANGED <<gdt, idt, dispatchTable, idtIsLoaded, traps, cause, report, machine>>
-----------------------------------------------------------------------------
(* Whatever happened in between, on this stack and on others, a context    *)
(* goes on with the registers it was interrupted with, the stack as it was *)
(* then, and, in user mode, with its own kernel stack in the TSS.          *)
ResumesAsInterrupted ==
  [][Len(suspended'[running']) < Len(suspended[running']) =>
       /\ regs' = [Last(suspended[running']).regs EXCEPT !.cr2 = regs'.cr2]
       /\ regs'.cs = KernelCode => regs'.esp = Number(Len(stack'[running']))
       /\ regs'.cs = UserCode => tss'.esp0 = [context |-> running', at |-> 0]]_processorVars

(* What the report says of a failure is true: the exception, the registers *)
(* of the code that raised it, and what assert failed.  ESP is what it was *)
(* when the processor and the stub had pushed five words.                  *)
ReportTellsTruth ==
  machine = "failed" /\ report # << >> =>
    LET r == Last(suspended[running]).regs
        m == report.machineState
    IN
    /\ report.interrupt = VectorText(cause.vector) /\ m.ErrorCode = cause.error
    /\ \A label \in DOMAIN Labels \ {"ErrorCode", "CR2", "ESP"} :
         m[label] = r[Labels[label]]
    /\ m.CR2 = IF cause.vector = 14 THEN r.cr2 ELSE Number(0)
    /\ m.ESP = Number(r.esp.number + 5)
    /\ report.assertion = cause.assertion
=============================================================================
