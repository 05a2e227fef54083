----------------------------- MODULE KernelEntry -----------------------------
(***************************************************************************)
(* Boot_x86_uni.s and main.c: the way of the kernel from its entry point   *)
(* to its idle loop, with exceptions, and once interrupts are enabled with *)
(* these and with switches between contexts.                               *)
(***************************************************************************)
EXTENDS Processor, BootLoaderInfoTranslator

CONSTANT Assertions     \* message, file and line of asserts that may fail, as words

ASSUME AssertionAssumption ==
  \A a \in Assertions : a = [message |-> a.message, file |-> a.file, line |-> a.line]

VARIABLE boot           \* where StartPrecursor or kmain() is

vars == <<boot, processorVars, translatorVars>>

Init ==
  /\ boot = "StartPrecursor"
  /\ ProcessorInit
  /\ TranslatorInit

(* The code of StartPrecursor and kmain() is running, uninterrupted.       *)
At(place) == boot = place /\ running = Boot /\ calling = "none" /\ machine = "running"

CallInitPrimary ==
  /\ At("StartPrecursor") /\ boot' = "translate"
  /\ InitPrimary
  /\ UNCHANGED translatorVars

CallTranslate ==
  /\ At("translate")
  /\ Translate
  /\ boot' = IF step' = "done" THEN "kmain" ELSE boot
  /\ UNCHANGED processorVars

InitExceptionDispatcher ==
  /\ At("kmain") /\ boot' = "exceptions"
  /\ RegisterExceptionHandlers
  /\ UNCHANGED translatorVars

InitInterruptDispatcher ==
  /\ At("exceptions") /\ boot' = "interrupts"
  /\ RegisterInterruptHandlers
  /\ UNCHANGED translatorVars

(* Without information about the memory, kmain() gives up.                 *)
CheckBootInfo ==
  /\ At("interrupts")
  /\ IF result = "NULL"
       THEN /\ machine' = "failed"
            /\ UNCHANGED <<boot, tables, regs, stack, running, suspended, calling, traps, cause,
                           report>>
       ELSE boot' = "idle" /\ SetInterruptFlag(TRUE)
  /\ UNCHANGED translatorVars

(* Exceptions and failed asserts come at any moment, device interrupts     *)
(* once they are enabled.                                                  *)
Traps ==
  /\ DeviceInterrupt \/ Exception \/ \E assertion \in Assertions : FailedAssert(assertion)
  /\ UNCHANGED <<boot, translatorVars>>

Handlers ==
  /\ \/ DefaultHandler \/ ExceptionHandler
     \/ HandlerSetsInterruptFlag \/ \E to \in Contexts : Return(to)
  /\ UNCHANGED <<boot, translatorVars>>

Next ==
  \/ CallInitPrimary \/ CallTranslate
  \/ InitExceptionDispatcher \/ InitInterruptDispatcher \/ CheckBootInfo
  \/ Traps \/ Handlers

Spec == Init /\ [][Next]_vars

(* The machine resets only if an exception comes before kmain() has its    *)
(* handlers, or if anything comes in user mode, which has a property of its*)
(* own; from then on all that comes in the kernel gets to a handler.       *)
ResetsOnlyUnprepared ==
  machine = "reset" =>
    cause # << >> /\ (cause.user \/ boot \in {"StartPrecursor", "translate", "kmain"})

(* IInterruptHandler.h:61-62 says that a thread enters the kernel from user*)
(* mode on the kernel stack that it left the kernel from.                  *)
UserEntersOnKernelStack ==
  [][traps' # traps /\ IsUser =>
       /\ machine' = machine /\ running' = running
       /\ Len(suspended'[running]) = Len(suspended[running]) + 1]_vars
=============================================================================
