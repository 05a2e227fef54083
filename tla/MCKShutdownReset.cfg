\* No fault anywhere: what calling KShutdown with interrupts enabled does.
CONSTANTS
  BufferSize = 2
  DefaultDelay = 1000
  Delays = {0}
  FaultsHappen = FALSE
  MaxOutput = 2
  MaxFrames = 4
SPECIFICATION Spec
INVARIANT GoesDownAsAsked
CHECK_DEADLOCK FALSE
