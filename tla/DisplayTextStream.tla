-------------------------- MODULE DisplayTextStream --------------------------
(***************************************************************************)
(* DisplayTextStream.c with the lock of the uniprocessor build: how the    *)
(* characters of KOut's calls get to the display.                          *)
(*                                                                         *)
(* One processor runs a stack of frames: kmain(), an interrupt handler on  *)
(* top of it, exception handlers on top of those.  The one on top runs.    *)
(* Interrupts and exceptions come in between any two steps below.          *)
(***************************************************************************)
EXTENDS Integers, Sequences

CONSTANT BufferSize     \* BUFFER_SIZE

ASSUME BufferAssumption == BufferSize \in Nat \ {0}

VARIABLES
  interruptsEnabled,      \* IF
  lock,                   \* m_lock: the IF that acquire() saved
  buffer,                 \* m_buffer, up to m_currentBufferIndex
  display,                \* what was printed since the display was last cleared
  shutdownProcessorID,    \* of KShutdown: -1 until a processor shuts down
  frames,                 \* op: what runs; pc: its next step; out: characters it has
                          \*   still to write; then: its next step after those
  accepted                \* history: what the display should show, in that order

streamVars == <<interruptsEnabled, lock, buffer, display, shutdownProcessorID, frames, accepted>>

Running == frames[1]

Goto(from, to) ==
  /\ Running.pc = from
  /\ frames' = [frames EXCEPT ![1].pc = to]

(* KShutdown_isInShutdownMode()                                            *)
InShutdownMode == shutdownProcessorID # -1

(* '\0' flushes the buffer, '\n' also begins a line.                       *)
Controls == {"NUL", "LF"}

(* Bug: the buffer is flushed by control characters only.                  *)
NeedsFlushForControls(char) == char \in Controls

NeedsFlush(char) == char \in Controls \/ Len(buffer) = BufferSize

(* Bug: Lock_acquire() leaves interrupts enabled.                          *)
LockWithoutCli ==
  /\ Goto("lock", "write")
  /\ lock' = IF InShutdownMode THEN lock ELSE interruptsEnabled
  /\ UNCHANGED <<interruptsEnabled, buffer, display, shutdownProcessorID, accepted>>

(* DisplayTextStream_lock().  Who gets in between the test of the mode and *)
(* Lock_acquire() either leaves the mode alone or does not return.         *)
Lock ==
  /\ Goto("lock", "write")
  /\ \/ InShutdownMode /\ UNCHANGED <<lock, interruptsEnabled>>
     \/ ~ InShutdownMode /\ lock' = interruptsEnabled /\ interruptsEnabled' = FALSE
  /\ UNCHANGED <<buffer, display, shutdownProcessorID, accepted>>

(* DisplayTextStream_flush(), for the next character: print the buffer ... *)
PrintBuffer ==
  /\ Goto("write", "clear")
  /\ NeedsFlush(Head(Running.out))
  /\ display' = display \o buffer
  /\ UNCHANGED <<interruptsEnabled, lock, buffer, shutdownProcessorID, accepted>>

(* ... and reset m_currentBufferIndex.                                     *)
ClearBuffer ==
  /\ Goto("clear", IF Head(Running.out) \in Controls THEN "unlock" ELSE "write")
  /\ buffer' = << >>
  /\ UNCHANGED <<interruptsEnabled, lock, display, shutdownProcessorID, accepted>>

(* DisplayTextStream_write() of a character that is not a control.         *)
Store ==
  /\ Goto("write", "unlock")
  /\ ~ NeedsFlush(Head(Running.out))
  /\ buffer' = Append(buffer, Head(Running.out))
  /\ accepted' = Append(accepted, Head(Running.out))
  /\ UNCHANGED <<interruptsEnabled, lock, display, shutdownProcessorID>>

WriteNext ==
  frames' = [frames EXCEPT
    ![1].pc = IF Len(Running.out) = 1 THEN Running.then ELSE "lock",
    ![1].out = Tail(@)]

(* Bug: Lock_release() enables interrupts whatever they were before.       *)
UnlockWithSti ==
  /\ Running.pc = "unlock"
  /\ WriteNext
  /\ interruptsEnabled' = (InShutdownMode => interruptsEnabled)
  /\ UNCHANGED <<lock, buffer, display, shutdownProcessorID, accepted>>

(* DisplayTextStream_unlock(), and on to the next character.               *)
Unlock ==
  /\ Running.pc = "unlock"
  /\ WriteNext
  /\ interruptsEnabled' = IF InShutdownMode THEN interruptsEnabled ELSE lock
  /\ UNCHANGED <<lock, buffer, display, shutdownProcessorID, accepted>>

Write == Lock \/ PrintBuffer \/ ClearBuffer \/ Store \/ Unlock
=============================================================================
