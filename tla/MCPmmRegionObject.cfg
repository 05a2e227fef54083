\* All regions of an address space of four pages of four bytes.
CONSTANTS
  MaxPhysAddr = 15
  PageSize = 4
SPECIFICATION ObjectSpec
PROPERTIES AdvanceSlides ClipIntersects AlignCoversPages
