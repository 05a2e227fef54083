---------------------------- MODULE KernelDisplay ----------------------------
(***************************************************************************)
(* KernelDisplay_x86_Vga.c: the text on the screen.  Operators that take   *)
(* the fields of the KernelDisplay, with the video memory, to what the     *)
(* functions of the class leave.  The memory of the model includes a line  *)
(* before the screen and one behind it.                                    *)
(***************************************************************************)
EXTENDS Integers, Sequences

CONSTANTS
  Columns, Rows,        \* KDISPLAY_NUM_COLUMNS, KDISPLAY_NUM_ROWS
  TabSize               \* TAB_SIZE

ASSUME DisplayAssumption ==
  /\ Columns \in Nat \ {0} /\ Rows \in Nat \ {0}
  /\ TabSize \in 0 .. Columns - 1

Colors == {"BLACK", "WHITE", "LIGHTBLUE", "DARKRED", "YELLOW"}

DefaultBackground == "LIGHTBLUE"
DefaultForeground == "WHITE"

Cells  == 0 .. Columns * Rows - 1
VideoMemory == -Columns .. Columns * (Rows + 1) - 1      \* from VIDEO_MEM_BASE

(* makeAttributeMask() and makeDisplayData()                               *)
AttributeMask(d) == <<d.backgroundColor, d.foregroundColor>>
DisplayData(ch, mask) == <<ch, mask>>

Blank(d) == DisplayData("SP", AttributeMask(d))

(* Bug: the last line stays where it was.                                  *)
ScrollLeavingLast(d, numLines) ==
  [d EXCEPT !.memory = [i \in VideoMemory |->
     IF i \in Cells /\ i + Columns * numLines \in Cells THEN d.memory[i + Columns * numLines]
                                                         ELSE d.memory[i]]]

Scroll(d, numLines) ==
  [d EXCEPT !.memory = [i \in VideoMemory |->
     IF i \notin Cells                             THEN d.memory[i]
     ELSE IF i + Columns * numLines \in Cells      THEN d.memory[i + Columns * numLines]
                                                   ELSE Blank(d)]]

Clear(d) ==
  [d EXCEPT !.memory = [i \in VideoMemory |-> IF i \in Cells THEN Blank(d) ELSE @[i]],
            !.column = 0, !.row = 0]

MaxChars == Columns * Rows - 1

Position(d) == d.row * Columns + d.column

(* The loop that writes the text, and where it leaves the position: C's    *)
(* division, of a number that is not negative.                             *)
PrintAt(d, dest, text) ==
  [d EXCEPT !.memory = [i \in VideoMemory |->
              IF i \in dest .. dest + Len(text) - 1
                THEN DisplayData(text[i - dest + 1], AttributeMask(d)) ELSE @[i]],
            !.row    = (dest + Len(text)) \div Columns,
            !.column = (dest + Len(text)) % Columns]

(* Bug: a line is scrolled out only if the characters are more than a line *)
(* too many.                                                               *)
LinesTooManyShort(d, text) == (Len(text) + Position(d) - MaxChars) \div Columns

LinesTooMany(d, text) == (Len(text) + Position(d) - MaxChars) \div Columns + 1

(* KernelDisplay_print(): room for all, room after scrolling, no room.     *)
(* Scrolling by more lines than the position is below the top makes it     *)
(* begin before the memory of the screen.                                  *)
PrintText(d, text) ==
  IF Len(text) + Position(d) <= MaxChars
    THEN PrintAt(d, Position(d), text)
  ELSE IF Len(text) <= MaxChars
    THEN LET lines == LinesTooMany(d, text)
         IN  PrintAt(Scroll(d, lines), Position(d) - lines * Columns, text)
  ELSE PrintAt(d, 0, SubSeq(text, Len(text) - MaxChars + 1, Len(text)))

NewLine(d) ==
  IF d.row + 1 < Rows
    THEN [d EXCEPT !.column = 0, !.row = @ + 1]
    ELSE Scroll([d EXCEPT !.column = 0], 1)

Tab(d) ==
  LET there == IF d.column + TabSize >= Columns THEN NewLine(d) ELSE d
  IN  [there EXCEPT !.column = @ + TabSize]

SetColors(d, background, foreground) ==
  [d EXCEPT !.backgroundColor = background, !.foregroundColor = foreground]
=============================================================================
