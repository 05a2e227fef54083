\* A buffer of two characters, so that lines of kmain() and handlers share it;
\* frames for kmain(), a handler and two exceptions on top of each other.
CONSTANTS
  BufferSize = 2
  DefaultDelay = 1000
  Delays = {0, 999}
  FaultsHappen = TRUE
  MaxOutput = 4
  MaxFrames = 4
SPECIFICATION FairSpec
INVARIANTS InterruptsAsLeft NothingDropped OneInControl ReportComplete
PROPERTY GoesDown
\* The machine stops when it has gone down.
CHECK_DEADLOCK FALSE
