\* One CPU alone: what the failure of allocate() says according to its doc.
CONSTANTS
  CPU = {c1}
  NumBlocks = 2
  BitsPerBlock = 2
  BaseFrame = 4
SPECIFICATION Spec
INVARIANT NullMeansNoFrames
