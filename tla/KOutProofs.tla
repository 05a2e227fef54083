------------------------------ MODULE KOutProofs ------------------------------
(***************************************************************************)
(* Proofs about KOut: however long texts are, and wherever they begin, the *)
(* screen shows the end of the paper, only texts nearly as long as the     *)
(* screen are written outside of it, and what a call writes is what KOut.h *)
(* says of its format.                                                     *)
(*                                                                         *)
(* The first two rest on one relation of display, paper and pending text,  *)
(* Shows, and on what each function of the display makes of it.  The third *)
(* rests on another, Writes: the output is what is to be written of all    *)
(* that has been read but for the specifier that has been begun.           *)
(***************************************************************************)
EXTENDS KOut, FiniteSetTheorems, WellFoundedInduction, SequenceTheorems, TLAPS


(* The assumptions on the screen, multiplied out.                          *)
LEMMA Screen ==
  /\ Columns \in Nat /\ Rows \in Nat /\ 0 < Columns /\ 0 < Rows
  /\ TabSize \in Nat /\ TabSize < Columns
  /\ Columns * Rows \in Nat /\ Columns <= Columns * Rows
  /\ Columns * (Rows + 1) = Columns * Rows + Columns
  /\ MaxChars = Columns * Rows - 1 /\ MaxChars \in Nat
<1>1. /\ Columns \in Nat /\ Rows \in Nat /\ 0 < Columns /\ 0 < Rows
      /\ TabSize \in Nat /\ TabSize < Columns
  BY DisplayAssumption
<1>2. /\ Columns * Rows \in Nat /\ Columns <= Columns * Rows
      /\ Columns * (Rows + 1) = Columns * Rows + Columns
  BY <1>1
<1> QED BY <1>1, <1>2 DEF MaxChars

(* Lines and columns: division by the number of columns.                   *)
LEMMA LineDivMod ==
  ASSUME NEW n \in Nat
  PROVE  /\ n \div Columns \in Nat /\ n % Columns \in 0 .. Columns - 1
         /\ Columns * (n \div Columns) \in Nat
         /\ n = Columns * (n \div Columns) + (n % Columns)
<1>1. Columns \in Nat /\ Columns > 0
  BY Screen
<1>2. /\ n = Columns * (n \div Columns) + (n % Columns)
      /\ n % Columns \in 0 .. Columns - 1 /\ n \div Columns \in Nat
  BY <1>1
<1> QED BY <1>1, <1>2

(* So many lines have so many cells.                                       *)
LEMMA Lines ==
  ASSUME NEW p \in Nat, NEW q \in Nat
  PROVE  /\ Columns * p \in Nat /\ Columns * q \in Nat
         /\ Columns * (p + 1) = Columns * p + Columns
         /\ Columns * (p + q) = Columns * p + Columns * q
         /\ p <= q => Columns * p <= Columns * q
BY Screen

(* A place is in one line only.                                            *)
LEMMA LineUnique ==
  ASSUME NEW p \in Nat, NEW q \in Nat, NEW r \in 0 .. Columns - 1, NEW s \in 0 .. Columns - 1,
         Columns * p + r = Columns * q + s
  PROVE  p = q /\ r = s
<1>1. Columns \in Nat /\ Columns > 0
  BY Screen
<1>2. ASSUME NEW a \in Nat, NEW b \in Nat, NEW t \in 0 .. Columns - 1,
             NEW u \in 0 .. Columns - 1, Columns * a + t = Columns * b + u, a < b
      PROVE  FALSE
  <2>1. a + 1 \in Nat /\ a + 1 <= b
    BY <1>2
  <2>2. Columns * (a + 1) = Columns * a + Columns /\ Columns * (a + 1) <= Columns * b
    BY <2>1, Lines
  <2>3. Columns * a \in Nat /\ Columns * b \in Nat
    BY Lines
  <2> QED BY ONLY <1>1, <1>2, <2>2, <2>3
<1>3. ~ (p < q) /\ ~ (q < p)
  BY <1>2
<1>4. p = q
  BY <1>3
<1>5. Columns * p \in Nat
  BY Lines
<1> QED BY <1>1, <1>4, <1>5

(* A place is in a line and a column.                                      *)
LEMMA InLine ==
  ASSUME NEW q \in Nat, NEW r \in 0 .. Columns - 1
  PROVE  /\ (Columns * q + r) \div Columns = q
         /\ (Columns * q + r) % Columns = r
<1>1. Columns * q + r \in Nat
  BY Lines, Screen
<1> DEFINE n == Columns * q + r
<1>2. /\ n \div Columns \in Nat /\ n % Columns \in 0 .. Columns - 1
      /\ n = Columns * (n \div Columns) + (n % Columns)
  BY <1>1, LineDivMod
<1>3. Columns * q + r = Columns * (n \div Columns) + (n % Columns)
  BY <1>2
<1> HIDE DEF n
<1>4. q = n \div Columns /\ r = n % Columns
  BY <1>2, <1>3, LineUnique
<1> QED BY <1>4 DEF n

(* A place on the screen is in a line of the screen.                       *)
LEMMA OnScreenLine ==
  ASSUME NEW n \in Nat, n < Columns * Rows
  PROVE  n \div Columns \in 0 .. Rows - 1
<1>1. /\ n \div Columns \in Nat /\ n % Columns \in 0 .. Columns - 1
      /\ Columns * (n \div Columns) \in Nat
      /\ n = Columns * (n \div Columns) + (n % Columns)
  BY LineDivMod
<1>2. Rows <= n \div Columns => Columns * Rows <= Columns * (n \div Columns)
  BY <1>1, Screen, Lines
<1>3. Columns * Rows \in Nat /\ Rows \in Nat /\ Columns \in Nat
  BY Screen
<1>4. ASSUME Rows <= n \div Columns PROVE FALSE
  <2> DEFINE a == Columns * (n \div Columns)
             b == Columns * Rows
             r == n % Columns
  <2>1. b <= a /\ n = a + r /\ n < b /\ a \in Nat /\ b \in Nat /\ r \in Nat
    BY <1>1, <1>2, <1>3, <1>4
  <2> HIDE DEF a, b, r
  <2> QED BY ONLY <2>1, n \in Nat
<1> QED BY <1>1, <1>3, <1>4
-----------------------------------------------------------------------------
(* The cursor on the screen, and a memory.                                 *)
IsDisplay(d) ==
  /\ d = [backgroundColor |-> d.backgroundColor, foregroundColor |-> d.foregroundColor,
          column |-> d.column, row |-> d.row, memory |-> d.memory]
  /\ d.row \in 0 .. Rows - 1 /\ d.column \in 0 .. Columns - 1
  /\ DOMAIN d.memory = VideoMemory

Char(d, i) == d.memory[i][1]

(* The cursor is on the screen, and its position tells row and column.     *)
LEMMA PositionFacts ==
  ASSUME NEW d, IsDisplay(d)
  PROVE  /\ Position(d) \in Nat /\ Position(d) <= MaxChars
         /\ Position(d) = Columns * d.row + d.column
         /\ Position(d) % Columns = d.column /\ Position(d) \div Columns = d.row
<1>1. /\ d.row \in Nat /\ d.row + 1 <= Rows /\ d.column \in 0 .. Columns - 1 /\ d.row + 1 \in Nat
  BY Screen DEF IsDisplay
<1>2. Position(d) = Columns * d.row + d.column
  BY <1>1, Screen DEF Position
<1>3. /\ Columns * (d.row + 1) <= Columns * Rows /\ Columns * d.row \in Nat
      /\ Columns * (d.row + 1) = Columns * d.row + Columns
  BY <1>1, Screen, Lines
<1>4. Columns \in Nat /\ MaxChars = Columns * Rows - 1 /\ Columns * Rows \in Nat
  BY Screen
<1>5. Position(d) \in Nat /\ Position(d) <= MaxChars
  BY ONLY <1>1, <1>2, <1>3, <1>4
<1> QED BY <1>1, <1>2, <1>5, InLine

(* The cells of the screen and those around them, as intervals.            *)
LEMMA Video ==
  /\ Cells \subseteq VideoMemory /\ VideoMemory \subseteq Int
  /\ \A i \in Int : i \in Cells <=> 0 <= i /\ i <= MaxChars
  /\ \A i \in Int : i \in VideoMemory <=> -Columns <= i /\ i <= MaxChars + Columns
BY Screen DEF Cells, VideoMemory

(* What the loop of KernelDisplay_print() leaves, and where.               *)
LEMMA PrintedAt ==
  ASSUME NEW d, IsDisplay(d), NEW text, Len(text) \in Nat,
         NEW dest \in Int, dest + Len(text) \in 0 .. MaxChars
  PROVE  /\ IsDisplay(PrintAt(d, dest, text))
         /\ Position(PrintAt(d, dest, text)) = dest + Len(text)
         /\ \A i \in VideoMemory : Char(PrintAt(d, dest, text), i) =
              IF dest <= i /\ i < dest + Len(text) THEN text[i - dest + 1] ELSE Char(d, i)
         /\ \A i \in VideoMemory : i < dest \/ dest + Len(text) <= i
              => PrintAt(d, dest, text).memory[i] = d.memory[i]
<1> DEFINE e == PrintAt(d, dest, text)
           n == dest + Len(text)
<1>1. n \in Nat /\ n < Columns * Rows
  BY Screen
<1>2. /\ n \div Columns \in 0 .. Rows - 1 /\ n % Columns \in 0 .. Columns - 1
      /\ n = Columns * (n \div Columns) + (n % Columns)
  BY <1>1, OnScreenLine, LineDivMod
<1> DEFINE m == [i \in VideoMemory |->
                   IF i \in dest .. dest + Len(text) - 1
                     THEN DisplayData(text[i - dest + 1], AttributeMask(d)) ELSE d.memory[i]]
<1>3. e = [backgroundColor |-> d.backgroundColor, foregroundColor |-> d.foregroundColor,
           column |-> n % Columns, row |-> n \div Columns, memory |-> m]
  <2>1. e = [d EXCEPT !.memory = m, !.row = n \div Columns, !.column = n % Columns]
    BY DEF PrintAt
  <2> HIDE DEF e, m, n
  <2> QED BY <2>1 DEF IsDisplay
<1>4. IsDisplay(e)
  <2>1. e.row = n \div Columns /\ e.column = n % Columns /\ DOMAIN e.memory = VideoMemory
    BY <1>3
  <2>2. e = [backgroundColor |-> e.backgroundColor, foregroundColor |-> e.foregroundColor,
             column |-> e.column, row |-> e.row, memory |-> e.memory]
    BY <1>3
  <2> HIDE DEF e, n
  <2> QED BY <1>2, <2>1, <2>2 DEF IsDisplay
<1>5. Position(e) = n
  <2>1. e.row = n \div Columns /\ e.column = n % Columns
    BY <1>3
  <2> HIDE DEF e, n
  <2> QED BY <1>2, <2>1, Screen DEF Position
<1>6. ASSUME NEW i \in VideoMemory
      PROVE  e.memory[i] = IF dest <= i /\ i < dest + Len(text)
                             THEN DisplayData(text[i - dest + 1], AttributeMask(d))
                             ELSE d.memory[i]
  <2>1. i \in Int
    BY Video
  <2>2. i \in dest .. dest + Len(text) - 1 <=> dest <= i /\ i < dest + Len(text)
    BY <2>1
  <2> QED BY <1>3, <2>2
<1> HIDE DEF e
<1>7. ASSUME NEW i \in VideoMemory
      PROVE  /\ Char(e, i) = IF dest <= i /\ i < dest + Len(text)
                               THEN text[i - dest + 1] ELSE Char(d, i)
             /\ i < dest \/ dest + Len(text) <= i => e.memory[i] = d.memory[i]
  <2>1. i \in Int
    BY Video
  <2>2. DisplayData(text[i - dest + 1], AttributeMask(d))[1] = text[i - dest + 1]
    BY DEF DisplayData
  <2> QED BY <1>6, <2>1, <2>2 DEF Char
<1> QED BY <1>4, <1>5, <1>7 DEF e, n

(* scroll(): lines move up, blank ones follow, and nothing else changes.   *)
LEMMA Scrolled ==
  ASSUME NEW d, IsDisplay(d), NEW lines \in Nat
  PROVE  /\ IsDisplay(Scroll(d, lines))
         /\ Position(Scroll(d, lines)) = Position(d)
         /\ Scroll(d, lines).row = d.row /\ Scroll(d, lines).column = d.column
         /\ \A i \in Cells : Char(Scroll(d, lines), i) =
              IF i + Columns * lines <= MaxChars THEN Char(d, i + Columns * lines) ELSE "SP"
         /\ \A i \in VideoMemory \ Cells : Scroll(d, lines).memory[i] = d.memory[i]
<1> DEFINE e == Scroll(d, lines)
<1>1. e = [backgroundColor |-> d.backgroundColor, foregroundColor |-> d.foregroundColor,
           column |-> d.column, row |-> d.row,
           memory |-> [i \in VideoMemory |->
             IF i \notin Cells                             THEN d.memory[i]
             ELSE IF i + Columns * lines \in Cells      THEN d.memory[i + Columns * lines]
                                                         ELSE Blank(d)]]
  BY DEF Scroll, IsDisplay
<1>2. e.row = d.row /\ e.column = d.column /\ DOMAIN e.memory = VideoMemory
  BY <1>1
<1>3. e = [backgroundColor |-> e.backgroundColor, foregroundColor |-> e.foregroundColor,
             column |-> e.column, row |-> e.row, memory |-> e.memory]
  BY <1>1
<1>4. ASSUME NEW i \in VideoMemory
      PROVE  e.memory[i] = IF i \notin Cells                        THEN d.memory[i]
                           ELSE IF i + Columns * lines \in Cells THEN d.memory[i + Columns * lines]
                                                                 ELSE Blank(d)
  BY <1>1
<1> HIDE DEF e
<1>5. ASSUME NEW i \in Cells
      PROVE  Char(e, i) = IF i + Columns * lines <= MaxChars
                            THEN Char(d, i + Columns * lines) ELSE "SP"
  <2>1. i \in Int /\ i \in VideoMemory /\ Columns * lines \in Nat /\ 0 <= i
    BY Video, Lines, Screen
  <2>2. i + Columns * lines \in Cells <=> i + Columns * lines <= MaxChars
    BY <2>1, Video
  <2>3. Blank(d)[1] = "SP"
    BY DEF Blank, DisplayData
  <2> QED BY <1>4, <2>1, <2>2, <2>3 DEF Char
<1> QED BY <1>2, <1>3, <1>4, <1>5 DEF e, IsDisplay, Position
-----------------------------------------------------------------------------
(* A text: something with a length, and a character at each place.         *)
IsText(s) == Len(s) \in Nat /\ s = [k \in 1 .. Len(s) |-> s[k]]

(* What is a text is a sequence of its characters, and of any more.        *)
LEMMA TextOf ==
  ASSUME NEW s, IsText(s), NEW S, \A k \in 1 .. Len(s) : s[k] \in S
  PROVE  s \in Seq(S)
<1>1. s \in [1 .. Len(s) -> S]
  BY DEF IsText
<1> QED BY <1>1 DEF IsText

(* Sequences in the sense of the standard modules are texts.               *)
LEMMA SeqIsText ==
  ASSUME NEW S, NEW s \in Seq(S)
  PROVE  IsText(s)
BY LenProperties DEF IsText

(* A text behind a text.                                                   *)
LEMMA Joined ==
  ASSUME NEW s, NEW t, IsText(s), IsText(t)
  PROVE  /\ IsText(s \o t) /\ Len(s \o t) = Len(s) + Len(t)
         /\ \A k \in 1 .. Len(s) : (s \o t)[k] = s[k]
         /\ \A k \in 1 .. Len(t) : (s \o t)[Len(s) + k] = t[k]
<1> DEFINE S == {s[k] : k \in 1 .. Len(s)} \cup {t[k] : k \in 1 .. Len(t)}
<1>1. s \in Seq(S) /\ t \in Seq(S)
  BY TextOf
<1>2. Len(s) \in Nat /\ Len(t) \in Nat
  BY DEF IsText
<1> HIDE DEF S
<1>3. /\ s \o t \in Seq(S) /\ Len(s \o t) = Len(s) + Len(t)
      /\ \A i \in 1 .. Len(s) + Len(t) :
           (s \o t)[i] = IF i <= Len(s) THEN s[i] ELSE t[i - Len(s)]
  BY <1>1, ConcatProperties
<1>4. IsText(s \o t)
  BY <1>3, SeqIsText
<1>5. ASSUME NEW k \in 1 .. Len(s) PROVE (s \o t)[k] = s[k]
  BY <1>2, <1>3
<1>6. ASSUME NEW k \in 1 .. Len(t) PROVE (s \o t)[Len(s) + k] = t[k]
  <2>1. Len(s) + k \in 1 .. Len(s) + Len(t) /\ ~ (Len(s) + k <= Len(s))
        /\ Len(s) + k - Len(s) = k
    BY <1>2
  <2> QED BY <1>3, <2>1
<1> QED BY <1>3, <1>4, <1>5, <1>6

(* A character behind a text.                                              *)
LEMMA Appended ==
  ASSUME NEW s, IsText(s), NEW c
  PROVE  /\ IsText(Append(s, c)) /\ Len(Append(s, c)) = Len(s) + 1
         /\ \A k \in 1 .. Len(s) : Append(s, c)[k] = s[k]
         /\ Append(s, c)[Len(s) + 1] = c
<1> DEFINE S == {s[k] : k \in 1 .. Len(s)} \cup {c}
<1>1. s \in Seq(S) /\ c \in S
  BY TextOf
<1> HIDE DEF S
<1>2. /\ Append(s, c) \in Seq(S) /\ Len(Append(s, c)) = Len(s) + 1
      /\ \A k \in 1 .. Len(s) : Append(s, c)[k] = s[k]
      /\ Append(s, c)[Len(s) + 1] = c
  BY <1>1, AppendProperties
<1> QED BY <1>2, SeqIsText

(* The last characters of a text.                                          *)
LEMMA EndOfText ==
  ASSUME NEW s, IsText(s), NEW n \in 0 .. Len(s)
  PROVE  /\ IsText(SubSeq(s, Len(s) - n + 1, Len(s)))
         /\ Len(SubSeq(s, Len(s) - n + 1, Len(s))) = n
         /\ \A k \in 1 .. n : SubSeq(s, Len(s) - n + 1, Len(s))[k] = s[Len(s) - n + k]
<1> DEFINE m == Len(s) - n + 1
           l == Len(s)
           S == {s[k] : k \in 1 .. Len(s)}
<1>1. Len(s) \in Nat
  BY DEF IsText
<1>2. m \in Int /\ l \in Int /\ l - m + 1 = n /\ m \in 1 .. l + 1 /\ (m <= l <=> n # 0)
  BY <1>1
<1>3. \A i \in m .. l : s[i] \in S
  BY <1>1, <1>2
<1> HIDE DEF m, l, S
<1>4. /\ SubSeq(s, m, l) \in Seq(S)
      /\ Len(SubSeq(s, m, l)) = IF m <= l THEN l - m + 1 ELSE 0
      /\ \A i \in 1 .. l - m + 1 : SubSeq(s, m, l)[i] = s[m + i - 1]
  BY <1>2, <1>3, SubSeqProperties
<1>5. Len(SubSeq(s, m, l)) = n
  BY <1>2, <1>4
<1>6. ASSUME NEW k \in 1 .. n PROVE SubSeq(s, m, l)[k] = s[Len(s) - n + k]
  <2>1. m + k - 1 = Len(s) - n + k /\ k \in 1 .. l - m + 1
    BY <1>1, <1>2 DEF m
  <2> QED BY <1>4, <2>1
<1> QED BY <1>4, <1>5, <1>6, SeqIsText DEF m, l

(* Spaces() is a text of spaces.                                           *)
LEMMA SpacesFacts ==
  ASSUME NEW n \in Int
  PROVE  /\ IsText(Spaces(n)) /\ Len(Spaces(n)) = IF n < 0 THEN 0 ELSE n
         /\ \A k \in 1 .. Len(Spaces(n)) : Spaces(n)[k] = "SP"
<1> DEFINE m == IF n < 0 THEN 0 ELSE n
           s == [k \in 1 .. m |-> "SP"]
<1>1. m \in Nat
  OBVIOUS
<1>2. Spaces(n) = s
  BY DEF Spaces
<1> HIDE DEF m
<1>3. s \in [1 .. m -> {"SP"}]
  OBVIOUS
<1>4. s \in Seq({"SP"})
  BY <1>1, <1>3, SeqDef
<1>5. Len(s) = m
  BY <1>1
<1>6. \A k \in 1 .. m : s[k] = "SP"
  OBVIOUS
<1>7. IsText(s)
  BY <1>4, SeqIsText
<1> QED BY <1>2, <1>5, <1>6, <1>7 DEF m
-----------------------------------------------------------------------------
(* The screen shows what the page has behind the lines lost and before the *)
(* pending text.                                                           *)
Shows(d, page, pending, lost) ==
  /\ IsDisplay(d) /\ IsText(page) /\ IsText(pending)
  /\ lost \in Nat
  /\ Len(page) = Columns * lost + Position(d) + Len(pending)
  /\ lost > 0 => Position(d) >= MaxChars - Columns
  /\ \A k \in 1 .. Position(d) : Char(d, k - 1) = page[Columns * lost + k]
  /\ \A k \in 1 .. Len(pending) : pending[k] = page[Columns * lost + Position(d) + k]
  /\ \A i \in Cells : Position(d) <= i => Char(d, i) = "SP"

(* What Shows says, in numbers.                                            *)
LEMMA ShownNumbers ==
  ASSUME NEW d, NEW page, NEW pending, NEW lost, Shows(d, page, pending, lost)
  PROVE  /\ IsDisplay(d) /\ IsText(page) /\ IsText(pending)
         /\ lost \in Nat /\ Columns * lost \in Nat
         /\ Position(d) \in Nat /\ Position(d) <= MaxChars
         /\ Len(pending) \in Nat /\ Len(page) \in Nat
         /\ Len(page) = Columns * lost + Position(d) + Len(pending)
         /\ lost > 0 => Position(d) >= MaxChars - Columns
<1>1. /\ IsDisplay(d) /\ IsText(page) /\ IsText(pending) /\ lost \in Nat
      /\ Len(page) = Columns * lost + Position(d) + Len(pending)
      /\ lost > 0 => Position(d) >= MaxChars - Columns
  BY DEF Shows
<1>2. Columns * lost \in Nat /\ Position(d) \in Nat /\ Position(d) <= MaxChars
  BY <1>1, Lines, PositionFacts
<1>3. Len(pending) \in Nat /\ Len(page) \in Nat
  BY <1>1 DEF IsText
<1> QED BY <1>1, <1>2, <1>3

(* Everything on the screen comes from the page, so a screen with the same *)
(* characters on it shows the page as well.                                *)
LEMMA ShowsIntro ==
  ASSUME NEW d, IsDisplay(d), NEW page, IsText(page), NEW lost \in Nat, NEW p, p = Position(d),
         Len(page) = Columns * lost + p,
         lost > 0 => p >= MaxChars - Columns,
         \A i \in Cells : Char(d, i) = IF i < p THEN page[Columns * lost + i + 1] ELSE "SP"
  PROVE  Shows(d, page, << >>, lost)
<1>1. p \in Nat /\ p <= MaxChars /\ Columns * lost \in Nat /\ MaxChars \in Nat
  BY PositionFacts, Lines, Screen
<1>2. IsText(<< >>) /\ Len(<< >>) = 0
  BY EmptySeq, SeqIsText
<1>3. ASSUME NEW k \in 1 .. p PROVE Char(d, k - 1) = page[Columns * lost + k]
  <2>1. k - 1 \in Cells /\ k - 1 < p /\ Columns * lost + (k - 1) + 1 = Columns * lost + k
    BY <1>1, Video
  <2> QED BY <2>1
<1>4. ASSUME NEW i \in Cells, p <= i PROVE Char(d, i) = "SP"
  <2>1. i \in Int /\ ~ (i < p)
    BY <1>1, <1>4, Video
  <2> QED BY <2>1
<1>5. Len(page) = Columns * lost + p + 0 /\ \A k \in 1 .. 0 : FALSE
  BY <1>1
<1> QED BY <1>1, <1>2, <1>3, <1>4, <1>5 DEF Shows

(* The same the other way.                                                 *)
LEMMA ShowsElim ==
  ASSUME NEW d, NEW page, NEW text, NEW lost, Shows(d, page, text, lost)
  PROVE  /\ \A i \in Cells :
              Char(d, i) = IF i < Position(d) THEN page[Columns * lost + i + 1] ELSE "SP"
         /\ \A k \in 1 .. Len(text) : text[k] = page[Columns * lost + Position(d) + k]
<1>1. Columns * lost \in Nat /\ Position(d) \in Nat
  BY ShownNumbers
<1>2. ASSUME NEW i \in Cells, i < Position(d) PROVE Char(d, i) = page[Columns * lost + i + 1]
  <2>1. /\ i + 1 \in 1 .. Position(d) /\ (i + 1) - 1 = i
        /\ Columns * lost + (i + 1) = Columns * lost + i + 1
    BY <1>1, <1>2, Video
  <2> QED BY <2>1 DEF Shows
<1>3. ASSUME NEW i \in Cells, ~ (i < Position(d)) PROVE Char(d, i) = "SP"
  <2>1. Position(d) <= i
    BY <1>1, <1>3, Video
  <2> QED BY <2>1 DEF Shows
<1>4. \A k \in 1 .. Len(text) : text[k] = page[Columns * lost + Position(d) + k]
  BY DEF Shows
<1> QED BY <1>2, <1>3, <1>4

(* KernelDisplay_print(): if there is room.                                *)
LEMMA PrintsBehind ==
  ASSUME NEW d, NEW page, NEW text, NEW lost, Shows(d, page, text, lost),
         Len(text) + Position(d) <= MaxChars
  PROVE  /\ Shows(PrintText(d, text), page, << >>, lost)
         /\ \A i \in VideoMemory \ Cells : PrintText(d, text).memory[i] = d.memory[i]
<1> DEFINE e == PrintAt(d, Position(d), text)
           p == Position(d)
           g == Columns * lost
           n == Len(text)
<1>1. /\ IsDisplay(d) /\ IsText(page) /\ lost \in Nat /\ g \in Nat /\ p \in Nat /\ n \in Nat
      /\ Len(page) = g + p + n /\ (lost > 0 => p >= MaxChars - Columns)
      /\ MaxChars \in Nat /\ Columns \in Nat /\ n + p <= MaxChars
  BY ShownNumbers, Screen
<1>2. p \in Int /\ p + n \in 0 .. MaxChars
  BY <1>1
<1>3. /\ \A i \in Cells : Char(d, i) = IF i < p THEN page[g + i + 1] ELSE "SP"
      /\ \A k \in 1 .. n : text[k] = page[g + p + k]
  BY ShowsElim
<1>4. /\ IsDisplay(e) /\ Position(e) = p + n
      /\ \A i \in VideoMemory : Char(e, i) =
           IF p <= i /\ i < p + n THEN text[i - p + 1] ELSE Char(d, i)
      /\ \A i \in VideoMemory : i < p \/ p + n <= i => e.memory[i] = d.memory[i]
  BY <1>1, <1>2, PrintedAt
<1>5. PrintText(d, text) = e
  BY DEF PrintText
<1> HIDE DEF e, p, g, n
<1>6. ASSUME NEW i \in Cells
      PROVE  Char(e, i) = IF i < p + n THEN page[g + i + 1] ELSE "SP"
  <2>1. i \in Int /\ i \in VideoMemory
    BY Video
  <2>2. CASE p <= i /\ i < p + n
    <3>1. i - p + 1 \in 1 .. n /\ g + p + (i - p + 1) = g + i + 1
      BY <1>1, <2>1, <2>2
    <3> QED BY <1>3, <1>4, <2>1, <2>2, <3>1
  <2>3. CASE i < p
    <3>1. i < p + n /\ ~ (p <= i)
      BY <1>1, <2>1, <2>3
    <3> QED BY <1>3, <1>4, <2>1, <2>3, <3>1
  <2>4. CASE p + n <= i
    <3>1. ~ (i < p + n) /\ ~ (i < p)
      BY <1>1, <2>1, <2>4
    <3> QED BY <1>3, <1>4, <2>1, <3>1
  <2> QED BY <1>1, <2>1, <2>2, <2>3, <2>4
<1>7. Shows(e, page, << >>, lost)
  <2>1. Len(page) = g + (p + n) /\ (lost > 0 => p + n >= MaxChars - Columns)
    BY <1>1
  <2> QED BY <1>1, <1>4, <1>6, <2>1, ShowsIntro DEF g
<1>8. ASSUME NEW i \in VideoMemory \ Cells PROVE e.memory[i] = d.memory[i]
  <2>1. i \in Int /\ (i < 0 \/ MaxChars < i)
    BY <1>1, Video
  <2>2. i < p \/ p + n <= i
    BY <1>1, <2>1
  <2> QED BY <1>4, <2>2
<1> QED BY <1>5, <1>7, <1>8

(* If there is room after scrolling: the lines are as many as it takes,    *)
(* and no more.                                                            *)
LEMMA ScrolledBy ==
  ASSUME NEW d, IsDisplay(d), NEW text, Len(text) \in Nat,
         Len(text) <= MaxChars, Len(text) + Position(d) > MaxChars
  PROVE  /\ LinesTooMany(d, text) \in Nat \ {0}
         /\ Columns * LinesTooMany(d, text) \in Nat
         /\ Position(d) - Columns * LinesTooMany(d, text) + Len(text) \in 0 .. MaxChars
         /\ Position(d) - Columns * LinesTooMany(d, text) + Len(text) >= MaxChars - Columns
         /\ Len(text) <= MaxChars - Columns => Position(d) - Columns * LinesTooMany(d, text) >= 0
<1> DEFINE n == Len(text)
           p == Position(d)
           M == MaxChars
           x == n + p - M
           q == x \div Columns
           r == x % Columns
           lines == LinesTooMany(d, text)
<1>1. n \in Nat /\ p \in Nat /\ p <= M /\ M \in Nat /\ n <= M /\ n + p > M
  BY PositionFacts, Screen
<1>2. x \in Nat /\ x >= 1
  BY <1>1
<1>3. q \in Nat /\ r \in 0 .. Columns - 1 /\ Columns * q \in Nat /\ x = Columns * q + r
  BY <1>2, LineDivMod
<1>4. lines = q + 1
  BY DEF LinesTooMany
<1>5. Columns * (q + 1) = Columns * q + Columns /\ Columns \in Nat /\ Columns > 0
  BY <1>3, Lines, Screen
<1>6. M + 1 >= Columns
  BY Screen
<1>7. x = n + p - M
  OBVIOUS
<1> HIDE DEF n, p, M, x, q, r, lines
<1>8. p - Columns * lines + n = M + r - Columns
  BY <1>1, <1>3, <1>4, <1>5, <1>7
<1>9. q = 0 => Columns * q = 0
  BY <1>5
<1>10. q # 0 => Columns * q >= Columns
  <2>1. ASSUME q # 0 PROVE Columns * 1 <= Columns * q
    <3>1. 1 <= q /\ 1 \in Nat
      BY <1>3, <2>1
    <3> QED BY <1>3, <3>1, Lines
  <2> QED BY <2>1, <1>5
<1>11. M + r - Columns >= 0
  <2>1. CASE q = 0
    BY <1>1, <1>2, <1>3, <1>5, <1>6, <1>9, <2>1
  <2>2. CASE q # 0
    BY <1>1, <1>2, <1>3, <1>5, <1>7, <1>10, <2>2
  <2> QED BY <2>1, <2>2
<1>12. M + r - Columns <= M
  BY <1>1, <1>3, <1>5
<1>13. lines \in Nat \ {0} /\ Columns * lines \in Nat
  BY <1>3, <1>4, <1>5
<1>14. n <= M - Columns => p - Columns * lines >= 0
  BY <1>1, <1>3, <1>5, <1>8, <1>13
<1>15. M + r - Columns >= M - Columns
  BY <1>1, <1>3, <1>5
<1>16. M + r - Columns \in 0 .. M
  BY <1>1, <1>3, <1>5, <1>11, <1>12
<1> QED BY <1>8, <1>13, <1>14, <1>15, <1>16 DEF n, p, M, lines

(* The same, if there is room after scrolling.                             *)
LEMMA PrintsScrolling ==
  ASSUME NEW d, NEW page, NEW text, NEW lost, Shows(d, page, text, lost),
         Len(text) + Position(d) > MaxChars, Len(text) <= MaxChars
  PROVE  /\ Shows(PrintText(d, text), page, << >>, lost + LinesTooMany(d, text))
         /\ Len(text) <= MaxChars - Columns =>
              \A i \in VideoMemory \ Cells : PrintText(d, text).memory[i] = d.memory[i]
<1> DEFINE lines == LinesTooMany(d, text)
           s == Scroll(d, lines)
           p == Position(d)
           dest == p - lines * Columns
           e == PrintAt(s, dest, text)
           g == Columns * lost
           h == Columns * lines
           n == Len(text)
           M == MaxChars
<1>1. /\ IsDisplay(d) /\ IsText(page) /\ lost \in Nat /\ g \in Nat /\ p \in Nat /\ n \in Nat
      /\ Len(page) = g + p + n /\ p <= M /\ M \in Nat /\ Columns \in Nat /\ n + p > M
  BY ShownNumbers, Screen
<1>2. /\ lines \in Nat \ {0} /\ h \in Nat /\ (p - h) + n \in 0 .. M /\ (p - h) + n >= M - Columns
      /\ n <= M - Columns => p - h >= 0
  BY <1>1, ScrolledBy
<1>3. /\ \A i \in Cells : Char(d, i) = IF i < p THEN page[g + i + 1] ELSE "SP"
      /\ \A k \in 1 .. n : text[k] = page[g + p + k]
  BY ShowsElim
<1> HIDE DEF lines
<1>4. /\ IsDisplay(s)
      /\ \A i \in Cells : Char(s, i) = IF i + h <= M THEN Char(d, i + h) ELSE "SP"
      /\ \A i \in VideoMemory \ Cells : s.memory[i] = d.memory[i]
  BY <1>1, <1>2, Scrolled
<1>5. dest = p - h /\ dest \in Int
  BY <1>1, <1>2
<1> HIDE DEF s, dest
<1>6. /\ IsDisplay(e) /\ Position(e) = dest + n
      /\ \A i \in VideoMemory : Char(e, i) =
           IF dest <= i /\ i < dest + n THEN text[i - dest + 1] ELSE Char(s, i)
      /\ \A i \in VideoMemory : i < dest \/ dest + n <= i => e.memory[i] = s.memory[i]
  BY ZenonT(40), <1>1, <1>2, <1>4, <1>5, PrintedAt
<1>7. PrintText(d, text) = e
  <2>1. ~ (n + p <= M)
    BY <1>1
  <2> QED BY <2>1 DEF PrintText, s, dest, lines
<1>8. Columns * (lost + lines) = g + h
  BY <1>1, <1>2, Lines
<1> HIDE DEF e, p, g, n, h, M
<1>9. ASSUME NEW i \in Cells
      PROVE  Char(e, i) = IF i < dest + n THEN page[(g + h) + i + 1] ELSE "SP"
  <2>1. i \in Int /\ i \in VideoMemory /\ 0 <= i
    BY Video
  <2>2. CASE dest <= i /\ i < dest + n
    <3>1. i - dest + 1 \in 1 .. n /\ g + p + (i - dest + 1) = (g + h) + i + 1
      BY <1>1, <1>2, <1>5, <2>1, <2>2
    <3> QED BY <1>3, <1>6, <2>1, <2>2, <3>1
  <2>3. CASE i < dest
    <3>1. /\ i < dest + n /\ ~ (dest <= i) /\ i + h < p /\ i + h <= M /\ 0 <= i + h /\ i + h \in Int
          /\ g + (i + h) + 1 = (g + h) + i + 1
      BY <1>1, <1>2, <1>5, <2>1, <2>3
    <3>2. i + h \in Cells
      BY <3>1, Video DEF M
    <3>3. Char(d, i + h) = page[g + (i + h) + 1]
      BY <1>3, <3>1, <3>2
    <3>4. Char(e, i) = Char(d, i + h)
      BY <1>4, <1>6, <2>1, <3>1
    <3> QED BY <3>1, <3>3, <3>4
  <2>4. CASE dest + n <= i
    <3>1. ~ (i < dest + n) /\ i + h \in Int /\ 0 <= i + h /\ ~ (i + h < p)
      BY <1>1, <1>2, <1>5, <2>1, <2>4
    <3>2. Char(e, i) = IF i + h <= M THEN Char(d, i + h) ELSE "SP"
      BY <1>4, <1>6, <2>1, <3>1
    <3>3. ASSUME i + h <= M PROVE Char(d, i + h) = "SP"
      <4>1. i + h \in Cells
        BY <3>1, <3>3, Video DEF M
      <4> QED BY <1>3, <3>1, <4>1
    <3> QED BY <3>1, <3>2, <3>3
  <2> QED BY <1>1, <1>2, <1>5, <2>1, <2>2, <2>3, <2>4
<1>10. Shows(e, page, << >>, lost + lines)
  <2>1. /\ Len(page) = (g + h) + (dest + n) /\ dest + n >= M - Columns /\ lost + lines \in Nat
    BY <1>1, <1>2, <1>5
  <2> QED BY <1>1, <1>6, <1>8, <1>9, <2>1, ShowsIntro DEF M
<1>11. ASSUME n <= M - Columns, NEW i \in VideoMemory \ Cells PROVE e.memory[i] = d.memory[i]
  <2>1. i \in Int /\ (i < 0 \/ M < i)
    BY <1>1, Video DEF M
  <2>2. i < dest \/ dest + n <= i
    BY <1>1, <1>2, <1>5, <1>11, <2>1
  <2> QED BY <1>4, <1>6, <2>2
<1> QED BY <1>7, <1>10, <1>11 DEF n, M, lines

(* If the text is longer than the screen: only its end is printed.         *)
LEMMA PrintsPage ==
  ASSUME NEW d, NEW page, NEW text, NEW lost, Shows(d, page, text, lost), IsText(text),
         Len(text) > MaxChars
  PROVE  /\ Shows(PrintText(d, text), PageBreak(page, text), << >>, 0)
         /\ \A i \in VideoMemory \ Cells : PrintText(d, text).memory[i] = d.memory[i]
<1> DEFINE p == Position(d)
           g == Columns * lost
           n == Len(text)
           M == MaxChars
           t == SubSeq(text, n - M + 1, n)
           page2 == SubSeq(page, Len(page) - M + 1, Len(page))
           e == PrintAt(d, 0, t)
<1>1. /\ IsDisplay(d) /\ IsText(page) /\ lost \in Nat /\ g \in Nat /\ p \in Nat /\ n \in Nat
      /\ Len(page) = g + p + n /\ p <= M /\ M \in Nat /\ n > M
  BY ShownNumbers, Screen
<1>2. /\ \A i \in Cells : Char(d, i) = IF i < p THEN page[g + i + 1] ELSE "SP"
      /\ \A k \in 1 .. n : text[k] = page[g + p + k]
  BY ShowsElim
<1>3. PrintText(d, text) = e /\ PageBreak(page, text) = page2
  <2>1. ~ (n + p <= M) /\ ~ (n <= M)
    BY <1>1
  <2> QED BY <2>1 DEF PrintText, PageBreak
<1>4. /\ IsText(t) /\ Len(t) = M /\ \A k \in 1 .. M : t[k] = text[n - M + k]
  <2>1. M \in 0 .. n
    BY <1>1
  <2> QED BY <2>1, EndOfText
<1>5. /\ IsText(page2) /\ Len(page2) = M /\ \A k \in 1 .. M : page2[k] = page[Len(page) - M + k]
  <2>1. M \in 0 .. Len(page)
    BY <1>1
  <2> QED BY <1>1, <2>1, EndOfText
<1> HIDE DEF t, page2
<1>6. /\ IsDisplay(e) /\ Position(e) = 0 + Len(t)
      /\ \A i \in VideoMemory : Char(e, i) =
           IF 0 <= i /\ i < 0 + Len(t) THEN t[i - 0 + 1] ELSE Char(d, i)
      /\ \A i \in VideoMemory : i < 0 \/ 0 + Len(t) <= i => e.memory[i] = d.memory[i]
  <2>1. Len(t) \in Nat /\ 0 \in Int /\ 0 + Len(t) \in 0 .. MaxChars
    BY <1>1, <1>4
  <2> QED BY <1>1, <2>1, PrintedAt
<1> HIDE DEF e, p, g, n, M
<1>7. ASSUME NEW i \in Cells
      PROVE  Char(e, i) = IF i < M THEN page2[Columns * 0 + i + 1] ELSE "SP"
  <2>1. i \in Int /\ i \in VideoMemory /\ 0 <= i /\ i <= M
    BY Video DEF M
  <2>2. CASE i < M
    <3>1. /\ i + 1 \in 1 .. M /\ i - 0 + 1 = i + 1 /\ Columns * 0 + i + 1 = i + 1
      BY <1>1, <2>1, <2>2, Screen
    <3>2. /\ n - M + (i + 1) \in 1 .. n
          /\ g + p + (n - M + (i + 1)) = Len(page) - M + (i + 1)
      BY <1>1, <2>1, <2>2
    <3>3. Char(e, i) = t[i + 1]
      BY <1>4, <1>6, <2>1, <2>2, <3>1
    <3>4. t[i + 1] = text[n - M + (i + 1)]
      BY <1>4, <3>1
    <3>5. text[n - M + (i + 1)] = page[Len(page) - M + (i + 1)]
      BY <1>2, <3>2
    <3>6. page2[i + 1] = page[Len(page) - M + (i + 1)]
      BY <1>5, <3>1
    <3> QED BY <2>2, <3>1, <3>3, <3>4, <3>5, <3>6
  <2>3. CASE ~ (i < M)
    <3>1. ~ (i < 0 + Len(t)) /\ ~ (i < p)
      BY <1>1, <1>4, <2>1, <2>3
    <3> QED BY <1>2, <1>6, <2>1, <2>3, <3>1
  <2> QED BY <2>2, <2>3
<1>8. Shows(e, page2, << >>, 0)
  <2>1. Len(page2) = Columns * 0 + M /\ 0 \in Nat /\ ~ (0 > 0) /\ Position(e) = M
    BY <1>1, <1>4, <1>5, <1>6, Screen
  <2> QED BY <1>5, <1>6, <1>7, <2>1, ShowsIntro DEF M
<1>9. ASSUME NEW i \in VideoMemory \ Cells PROVE e.memory[i] = d.memory[i]
  <2>1. i \in Int /\ (i < 0 \/ M < i)
    BY <1>1, Video DEF M
  <2>2. i < 0 \/ 0 + Len(t) <= i
    BY <1>1, <1>4, <2>1
  <2> QED BY <1>6, <2>2
<1> QED BY <1>3, <1>8, <1>9

(* Whatever the length of the text.                                        *)
OffScreenKept(d, e) == \A i \in VideoMemory \ Cells : e.memory[i] = d.memory[i]

(* Whatever the length of the text is, the screen shows the page with it.  *)
LEMMA Prints ==
  ASSUME NEW d, NEW page, NEW text, NEW lost, Shows(d, page, text, lost)
  PROVE  /\ \E l \in Nat : Shows(PrintText(d, text), PageBreak(page, text), << >>, l)
         /\ Len(text) <= MaxChars - Columns \/ MaxChars < Len(text)
              => OffScreenKept(d, PrintText(d, text))
<1>1. /\ IsDisplay(d) /\ IsText(text) /\ lost \in Nat /\ Position(d) \in Nat /\ Len(text) \in Nat
      /\ MaxChars \in Nat /\ Columns \in Nat
  BY ShownNumbers, Screen
<1>2. CASE Len(text) + Position(d) <= MaxChars
  <2>1. PageBreak(page, text) = page
    BY <1>1, <1>2 DEF PageBreak
  <2> QED BY ZenonT(40), <1>1, <1>2, <2>1, PrintsBehind DEF OffScreenKept
<1>3. CASE Len(text) + Position(d) > MaxChars /\ Len(text) <= MaxChars
  <2>1. PageBreak(page, text) = page
    BY <1>3 DEF PageBreak
  <2>2. LinesTooMany(d, text) \in Nat \ {0}
    BY <1>1, <1>3, ScrolledBy
  <2>3. lost + LinesTooMany(d, text) \in Nat
    BY <1>1, <2>2
  <2>4. /\ Shows(PrintText(d, text), page, << >>, lost + LinesTooMany(d, text))
        /\ Len(text) <= MaxChars - Columns => OffScreenKept(d, PrintText(d, text))
    BY ZenonT(40), <1>3, PrintsScrolling DEF OffScreenKept
  <2>5. ~ (MaxChars < Len(text))
    BY <1>1, <1>3
  <2> QED BY <2>1, <2>3, <2>4, <2>5
<1>4. CASE Len(text) > MaxChars
  BY <1>1, <1>4, PrintsPage DEF OffScreenKept
<1> QED BY <1>1, <1>2, <1>3, <1>4
-----------------------------------------------------------------------------
(* Room that is left free is blank.                                        *)
LEMMA Pads ==
  ASSUME NEW d, NEW page, NEW lost, Shows(d, page, << >>, lost),
         NEW e, IsDisplay(e), \A i \in Cells : Char(e, i) = Char(d, i),
         NEW k \in Nat, Position(e) = Position(d) + k
  PROVE  Shows(e, page \o Spaces(k), << >>, lost)
<1> DEFINE p == Position(d)
           g == Columns * lost
           page2 == page \o Spaces(k)
<1>1. /\ IsText(page) /\ lost \in Nat /\ g \in Nat /\ p \in Nat
      /\ Len(page) = g + p /\ (lost > 0 => p >= MaxChars - Columns)
      /\ MaxChars \in Nat /\ Columns \in Nat
  <2>1. Len(<< >>) = 0
    BY EmptySeq
  <2> QED BY <2>1, ShownNumbers, Screen
<1>2. \A i \in Cells : Char(d, i) = IF i < p THEN page[g + i + 1] ELSE "SP"
  BY ShowsElim
<1>3. IsText(Spaces(k)) /\ Len(Spaces(k)) = k /\ \A j \in 1 .. k : Spaces(k)[j] = "SP"
  BY SpacesFacts
<1>4. /\ IsText(page2) /\ Len(page2) = Len(page) + k
      /\ \A j \in 1 .. Len(page) : page2[j] = page[j]
      /\ \A j \in 1 .. k : page2[Len(page) + j] = Spaces(k)[j]
  <2> DEFINE t == Spaces(k)
  <2>1. IsText(page) /\ IsText(t) /\ Len(t) = k
    BY <1>1, <1>3
  <2> HIDE DEF t
  <2>2. /\ IsText(page \o t) /\ Len(page \o t) = Len(page) + Len(t)
        /\ \A j \in 1 .. Len(page) : (page \o t)[j] = page[j]
        /\ \A j \in 1 .. Len(t) : (page \o t)[Len(page) + j] = t[j]
    BY ONLY <2>1, Joined
  <2> QED BY <2>1, <2>2 DEF t
<1> HIDE DEF p, g, page2
<1>5. ASSUME NEW i \in Cells
      PROVE  Char(e, i) = IF i < p + k THEN page2[g + i + 1] ELSE "SP"
  <2>1. i \in Int /\ 0 <= i
    BY Video
  <2>2. CASE i < p
    <3>1. g + i + 1 \in 1 .. Len(page) /\ i < p + k
      BY <1>1, <2>1, <2>2
    <3> QED BY <1>2, <1>4, <2>2, <3>1
  <2>3. CASE p <= i /\ i < p + k
    <3>1. i - p + 1 \in 1 .. k /\ Len(page) + (i - p + 1) = g + i + 1 /\ ~ (i < p)
      BY <1>1, <2>1, <2>3
    <3> QED BY <1>2, <1>3, <1>4, <2>3, <3>1
  <2>4. CASE p + k <= i
    <3>1. ~ (i < p) /\ ~ (i < p + k)
      BY <1>1, <2>1, <2>4
    <3> QED BY <1>2, <3>1
  <2> QED BY <1>1, <2>1, <2>2, <2>3, <2>4
<1>6. Len(page2) = g + (p + k) /\ (lost > 0 => p + k >= MaxChars - Columns) /\ Position(e) = p + k
  BY <1>1, <1>4 DEF p
<1> QED BY <1>1, <1>4, <1>5, <1>6, ShowsIntro DEF g, page2

(* A position on the screen, moved.                                        *)
Placed(d, row, column) == [d EXCEPT !.column = column, !.row = row]

(* A cursor that is moved stays on the screen.                             *)
LEMMA Moved ==
  ASSUME NEW d, IsDisplay(d), NEW row \in 0 .. Rows - 1, NEW column \in 0 .. Columns - 1
  PROVE  /\ IsDisplay(Placed(d, row, column)) /\ Placed(d, row, column).memory = d.memory
         /\ Placed(d, row, column).row = row /\ Placed(d, row, column).column = column
         /\ Position(Placed(d, row, column)) = Columns * row + column
<1> DEFINE e == Placed(d, row, column)
<1>1. e = [backgroundColor |-> d.backgroundColor, foregroundColor |-> d.foregroundColor,
           column |-> column, row |-> row, memory |-> d.memory]
  <2>1. e = [d EXCEPT !.column = column, !.row = row]
    BY DEF Placed
  <2> HIDE DEF e
  <2> QED BY <2>1 DEF IsDisplay
<1>2. e.memory = d.memory /\ e.row = row /\ e.column = column
  BY <1>1
<1>3. e = [backgroundColor |-> e.backgroundColor, foregroundColor |-> e.foregroundColor,
           column |-> e.column, row |-> e.row, memory |-> e.memory]
  BY <1>1
<1> HIDE DEF e
<1>4. IsDisplay(e)
  BY <1>2, <1>3 DEF IsDisplay
<1>5. Position(e) = Columns * row + column
  BY <1>2, Screen DEF Position
<1> QED BY <1>2, <1>4, <1>5 DEF e

(* Where the page ends is where the cursor is.                             *)
LEMMA PageColumn ==
  ASSUME NEW d, NEW page, NEW lost, Shows(d, page, << >>, lost)
  PROVE  /\ Len(page) % Columns = d.column
         /\ d.column \in 0 .. Columns - 1 /\ d.row \in 0 .. Rows - 1
         /\ Position(d) = Columns * d.row + d.column /\ d.row \in Nat
<1>1. /\ IsDisplay(d) /\ lost \in Nat /\ Len(page) = Columns * lost + Position(d)
      /\ Position(d) \in Nat /\ Columns * lost \in Nat
  <2>1. Len(<< >>) = 0
    BY EmptySeq
  <2> QED BY <2>1, ShownNumbers
<1>2. d.row \in 0 .. Rows - 1 /\ d.column \in 0 .. Columns - 1 /\ d.row \in Nat
  BY <1>1, Screen DEF IsDisplay
<1>3. Position(d) = Columns * d.row + d.column
  BY <1>1, PositionFacts
<1>4. Columns * (lost + d.row) = Columns * lost + Columns * d.row /\ Columns * d.row \in Nat
  BY <1>1, <1>2, Lines
<1>5. Len(page) = Columns * (lost + d.row) + d.column
  BY <1>1, <1>2, <1>3, <1>4
<1>6. lost + d.row \in Nat
  BY <1>1, <1>2
<1>7. (Columns * (lost + d.row) + d.column) % Columns = d.column
  BY <1>2, <1>6, InLine
<1> QED BY <1>2, <1>3, <1>5, <1>7

(* newLine(): below the last line, or with a line scrolled out.            *)
LEMMA StartsLine ==
  ASSUME NEW d, NEW page, NEW lost, Shows(d, page, << >>, lost)
  PROVE  /\ \E l \in Nat : Shows(NewLine(d), LineOnPaper(page), << >>, l)
         /\ OffScreenKept(d, NewLine(d)) /\ NewLine(d).column = 0
<1>1. /\ IsDisplay(d) /\ IsText(page) /\ lost \in Nat /\ Len(page) = Columns * lost + Position(d)
      /\ Position(d) \in Nat /\ Position(d) <= MaxChars /\ Columns * lost \in Nat
      /\ Columns \in Nat /\ Rows \in Nat /\ 0 < Columns
  <2>1. Len(<< >>) = 0
    BY EmptySeq
  <2> QED BY <2>1, ShownNumbers, Screen
<1>2. /\ d.column \in 0 .. Columns - 1 /\ d.row \in 0 .. Rows - 1 /\ d.row \in Nat
      /\ Position(d) = Columns * d.row + d.column
  BY PageColumn
<1> DEFINE k == Columns - d.column
           page2 == page \o Spaces(k)
<1>3. k \in Nat /\ LineOnPaper(page) = page2
  <2>1. Len(page) % Columns = d.column
    BY PageColumn
  <2>2. k \in Nat
    BY SMTT(40), <1>1, <1>2
  <2> QED BY <2>1, <2>2 DEF LineOnPaper
<1>4. Columns * (d.row + 1) = Columns * d.row + Columns /\ Columns * d.row \in Nat
  BY <1>2, Lines
<1>5. CASE d.row + 1 < Rows
  <2> DEFINE e == Placed(d, d.row + 1, 0)
  <2>1. NewLine(d) = e
    BY <1>5 DEF NewLine, Placed
  <2>2. d.row + 1 \in 0 .. Rows - 1 /\ 0 \in 0 .. Columns - 1
    BY SMTT(40), <1>1, <1>2, <1>5
  <2>3. /\ IsDisplay(e) /\ e.memory = d.memory /\ e.column = 0
        /\ Position(e) = Columns * (d.row + 1) + 0
    BY SMTT(40), <1>1, <2>2, Moved
  <2> HIDE DEF e
  <2>4. Position(e) = Position(d) + k
    BY SMTT(40), <1>1, <1>2, <1>4, <2>3
  <2>5. \A i \in Cells : Char(e, i) = Char(d, i)
    BY <2>3 DEF Char
  <2> HIDE DEF k
  <2>6. Shows(e, page2, << >>, lost)
    BY <1>3, <2>3, <2>4, <2>5, Pads
  <2> QED BY <1>1, <1>3, <2>1, <2>3, <2>6 DEF OffScreenKept
<1>6. CASE ~ (d.row + 1 < Rows)
  <2> DEFINE f == Placed(d, d.row, 0)
             e == Scroll(f, 1)
             g == Columns * lost
             p == Position(d)
  <2>1. d.row + 1 = Rows
    BY SMTT(40), <1>1, <1>2, <1>6
  <2>2. [d EXCEPT !.column = 0] = f
    <3>1. d = [backgroundColor |-> d.backgroundColor, foregroundColor |-> d.foregroundColor,
               column |-> d.column, row |-> d.row, memory |-> d.memory]
      BY <1>1 DEF IsDisplay
    <3> QED BY <3>1 DEF Placed
  <2>3. NewLine(d) = e
    BY <1>6, <2>2 DEF NewLine
  <2>4. 0 \in 0 .. Columns - 1
    BY <1>1
  <2>5. /\ IsDisplay(f) /\ f.memory = d.memory /\ f.column = 0
        /\ Position(f) = Columns * d.row + 0
    <3>1. IsDisplay(d) /\ d.row \in 0 .. Rows - 1
      BY <1>1, <1>2
    <3> QED BY ONLY <2>4, <3>1, Moved
  <2> HIDE DEF f
  <2>6. 1 \in Nat /\ Columns * 1 = Columns
    BY <1>1
  <2>7. /\ IsDisplay(e) /\ Position(e) = Position(f) /\ e.column = f.column
        /\ \A i \in Cells : Char(e, i) =
             IF i + Columns <= MaxChars THEN Char(f, i + Columns) ELSE "SP"
        /\ \A i \in VideoMemory \ Cells : e.memory[i] = f.memory[i]
    BY <2>5, <2>6, Scrolled
  <2>8. \A i \in Cells : Char(d, i) = IF i < p THEN page[g + i + 1] ELSE "SP"
    BY ShowsElim
  <2>9. IsText(Spaces(k)) /\ Len(Spaces(k)) = k /\ \A j \in 1 .. k : Spaces(k)[j] = "SP"
    BY <1>3, SpacesFacts
  <2>10. /\ IsText(page2) /\ Len(page2) = Len(page) + k
         /\ \A j \in 1 .. Len(page) : page2[j] = page[j]
         /\ \A j \in 1 .. k : page2[Len(page) + j] = "SP"
    <3> DEFINE t == Spaces(k)
    <3>1. IsText(page) /\ IsText(t) /\ Len(t) = k /\ \A j \in 1 .. k : t[j] = "SP"
      BY <1>1, <2>9
    <3> HIDE DEF t, k
    <3>2. /\ IsText(page \o t) /\ Len(page \o t) = Len(page) + Len(t)
          /\ \A j \in 1 .. Len(page) : (page \o t)[j] = page[j]
          /\ \A j \in 1 .. Len(t) : (page \o t)[Len(page) + j] = t[j]
      BY ONLY <3>1, Joined
    <3> QED BY <3>1, <3>2 DEF t
  <2>11. Columns * (lost + 1) = g + Columns
    BY <1>1, Lines
  <2>12. p + k = MaxChars + 1 /\ Position(e) + Columns = p + k
    <3>1. MaxChars + 1 = Columns * (d.row + 1)
      BY <2>1, Screen
    <3> QED BY SMTT(40), <1>1, <1>2, <1>4, <2>5, <2>7, <3>1
  <2>13. p \in Nat /\ g \in Nat /\ Position(e) \in Nat /\ Len(page) = g + p
    BY <1>1, <2>7, PositionFacts
  <2> HIDE DEF e, g, p, k, page2
  <2>14. ASSUME NEW i \in Cells
         PROVE  Char(e, i) = IF i < Position(e) THEN page2[(g + Columns) + i + 1] ELSE "SP"
    <3>0. i \in Int /\ 0 <= i /\ MaxChars \in Nat
      BY Video, Screen
    <3>1. i \in Int /\ 0 <= i /\ (i < Position(e) <=> i + Columns <= MaxChars)
      BY ONLY <1>1, <1>3, <2>12, <2>13, <3>0
    <3>2. ASSUME i < Position(e), i + Columns < p PROVE Char(e, i) = page2[(g + Columns) + i + 1]
      <4>1. /\ i + Columns \in Cells /\ g + (i + Columns) + 1 = (g + Columns) + i + 1
            /\ (g + Columns) + i + 1 \in 1 .. Len(page)
        BY <1>1, <2>13, <3>1, <3>2, Video
      <4>2. Char(e, i) = Char(d, i + Columns)
        BY <2>5, <2>7, <3>1, <3>2 DEF Char
      <4> QED BY <2>8, <2>10, <3>2, <4>1, <4>2
    <3>3. ASSUME i < Position(e), ~ (i + Columns < p)
          PROVE  Char(e, i) = page2[(g + Columns) + i + 1]
      <4>1. /\ i + Columns \in Cells
            /\ i + Columns - p + 1 \in 1 .. k
            /\ Len(page) + (i + Columns - p + 1) = (g + Columns) + i + 1
        BY SMTT(40), <1>1, <1>3, <2>12, <2>13, <3>1, <3>3, Video
      <4>2. Char(e, i) = Char(d, i + Columns)
        BY <2>5, <2>7, <3>1, <3>3 DEF Char
      <4> QED BY <2>8, <2>10, <3>3, <4>1, <4>2
    <3>4. ASSUME ~ (i < Position(e)) PROVE Char(e, i) = "SP"
      BY <2>7, <3>1, <3>4
    <3> QED BY <3>2, <3>3, <3>4
  <2>15. Shows(e, page2, << >>, lost + 1)
    <3>0. MaxChars \in Nat
      BY Screen
    <3>1. Len(page2) = (g + Columns) + Position(e) /\ Position(e) >= MaxChars - Columns
          /\ lost + 1 \in Nat
      <4>1. /\ Len(page2) = Len(page) + k /\ k \in Nat /\ Columns \in Nat /\ lost \in Nat
            /\ MaxChars \in Nat
        BY <1>1, <1>3, <2>10, <3>0
      <4> QED BY ONLY <2>12, <2>13, <4>1
    <3> QED BY <2>7, <2>10, <2>11, <2>14, <3>1, ShowsIntro
  <2>16. OffScreenKept(d, e)
    BY <2>5, <2>7 DEF OffScreenKept
  <2>17. lost + 1 \in Nat
    BY <1>1
  <2> QED BY <1>3, <2>3, <2>5, <2>7, <2>15, <2>16, <2>17
<1> QED BY <1>5, <1>6

(* tab(): in the line, or in the next one if there is no room.             *)
LEMMA Tabs ==
  ASSUME NEW d, NEW page, NEW lost, Shows(d, page, << >>, lost)
  PROVE  /\ \E l \in Nat : Shows(Tab(d), TabOnPaper(page), << >>, l)
         /\ OffScreenKept(d, Tab(d))
<1> DEFINE there == IF d.column + TabSize >= Columns THEN NewLine(d) ELSE d
           page1 == IF d.column + TabSize >= Columns THEN LineOnPaper(page) ELSE page
<1>1. /\ Len(page) % Columns = d.column /\ d.column \in 0 .. Columns - 1
      /\ Columns \in Nat /\ TabSize \in Nat /\ TabSize < Columns /\ lost \in Nat
  BY PageColumn, Screen, ShownNumbers
<1>2. TabOnPaper(page) = page1 \o Spaces(TabSize)
  BY <1>1 DEF TabOnPaper
<1>3. /\ \E l \in Nat : Shows(there, page1, << >>, l)
      /\ OffScreenKept(d, there) /\ there.column + TabSize < Columns
  <2>1. CASE d.column + TabSize >= Columns
    <3>1. /\ \E l \in Nat : Shows(NewLine(d), LineOnPaper(page), << >>, l)
          /\ OffScreenKept(d, NewLine(d)) /\ NewLine(d).column = 0
      BY StartsLine
    <3> QED BY <1>1, <2>1, <3>1
  <2>2. CASE ~ (d.column + TabSize >= Columns)
    <3>1. d.column + TabSize < Columns
      BY <1>1, <2>2
    <3>2. OffScreenKept(d, d)
      BY DEF OffScreenKept
    <3> QED BY <1>1, <2>2, <3>1, <3>2
  <2> QED BY <2>1, <2>2
<1>4. Tab(d) = [there EXCEPT !.column = @ + TabSize]
  BY DEF Tab
<1> HIDE DEF there, page1
<1>5. PICK l \in Nat : Shows(there, page1, << >>, l)
  BY <1>3
<1>6. /\ IsDisplay(there) /\ there.row \in 0 .. Rows - 1 /\ there.column \in 0 .. Columns - 1
      /\ Position(there) = Columns * there.row + there.column /\ there.row \in Nat
  BY <1>5, PageColumn, ShownNumbers
<1> DEFINE e == Placed(there, there.row, there.column + TabSize)
<1>7. Tab(d) = e
  <2>1. there = [backgroundColor |-> there.backgroundColor,
                 foregroundColor |-> there.foregroundColor,
                 column |-> there.column, row |-> there.row, memory |-> there.memory]
    BY <1>6 DEF IsDisplay
  <2>2. [there EXCEPT !.column = there.column + TabSize]
          = [there EXCEPT !.column = there.column + TabSize, !.row = there.row]
    BY <2>1
  <2> QED BY <1>4, <2>2 DEF Placed
<1>8. there.column + TabSize \in 0 .. Columns - 1
  BY SMTT(40), <1>1, <1>3, <1>6
<1>9. /\ IsDisplay(e) /\ e.memory = there.memory
      /\ Position(e) = Columns * there.row + (there.column + TabSize)
  BY <1>6, <1>8, Moved
<1> HIDE DEF e
<1>10. Position(e) = Position(there) + TabSize
  <2>1. Columns * there.row \in Nat
    BY <1>6, Lines
  <2> QED BY <1>1, <1>6, <1>9, <2>1
<1>11. \A i \in Cells : Char(e, i) = Char(there, i)
  BY <1>9 DEF Char
<1>12. Shows(e, page1 \o Spaces(TabSize), << >>, l)
  BY <1>1, <1>5, <1>9, <1>10, <1>11, Pads
<1>13. OffScreenKept(d, e)
  BY <1>3, <1>9 DEF OffScreenKept
<1> QED BY <1>2, <1>7, <1>12, <1>13

(* clear() and setColors()                                                 *)
LEMMA Cleared ==
  ASSUME NEW d, IsDisplay(d), NEW pending, IsText(pending)
  PROVE  Shows(Clear(d), pending, pending, 0) /\ OffScreenKept(d, Clear(d))
<1> DEFINE m == [i \in VideoMemory |-> IF i \in Cells THEN Blank(d) ELSE d.memory[i]]
           e == Clear(d)
<1>1. e = [backgroundColor |-> d.backgroundColor, foregroundColor |-> d.foregroundColor,
           column |-> 0, row |-> 0, memory |-> m]
  <2>1. e = [d EXCEPT !.memory = m, !.column = 0, !.row = 0]
    BY DEF Clear
  <2> HIDE DEF e, m
  <2> QED BY <2>1 DEF IsDisplay
<1>2. e.row = 0 /\ e.column = 0 /\ e.memory = m
  BY <1>1
<1>3. e = [backgroundColor |-> e.backgroundColor, foregroundColor |-> e.foregroundColor,
           column |-> e.column, row |-> e.row, memory |-> e.memory]
  BY <1>1
<1>4. /\ \A i \in Cells : Char(e, i) = "SP"
      /\ \A i \in VideoMemory \ Cells : e.memory[i] = d.memory[i]
  <2>1. Blank(d)[1] = "SP"
    BY DEF Blank, DisplayData
  <2>2. Cells \subseteq VideoMemory
    BY Video
  <2> QED BY <1>2, <2>1, <2>2 DEF Char
<1>5. DOMAIN e.memory = VideoMemory
  BY <1>2
<1> HIDE DEF e, m
<1>6. Columns \in Nat /\ Rows \in Nat /\ 0 < Columns /\ 0 < Rows /\ Columns * 0 = 0
  BY Screen
<1>7. IsDisplay(e) /\ Position(e) = 0
  <2>1. 0 \in 0 .. Rows - 1 /\ 0 \in 0 .. Columns - 1 /\ 0 * Columns + 0 = 0
    BY <1>6
  <2> QED BY <1>2, <1>3, <1>5, <2>1 DEF IsDisplay, Position
<1>8. Len(pending) \in Nat
  BY DEF IsText
<1>9. Shows(e, pending, pending, 0)
  <2>1. /\ Len(pending) = Columns * 0 + Position(e) + Len(pending)
        /\ 0 \in Nat /\ ~ (0 > 0) /\ \A k \in 1 .. Position(e) : FALSE
    BY <1>6, <1>7, <1>8
  <2>2. ASSUME NEW k \in 1 .. Len(pending)
        PROVE  Columns * 0 + Position(e) + k = k
    BY <1>6, <1>7, <1>8
  <2> QED BY <1>4, <1>7, <2>1, <2>2 DEF Shows
<1> QED BY <1>4, <1>9 DEF e, OffScreenKept

(* setColors() leaves text and cursor.                                     *)
LEMMA Colored ==
  ASSUME NEW d, IsDisplay(d), NEW b, NEW f
  PROVE  /\ IsDisplay(SetColors(d, b, f)) /\ SetColors(d, b, f).memory = d.memory
         /\ Position(SetColors(d, b, f)) = Position(d)
<1> DEFINE e == SetColors(d, b, f)
<1>1. e = [backgroundColor |-> b, foregroundColor |-> f,
           column |-> d.column, row |-> d.row, memory |-> d.memory]
  <2>1. e = [d EXCEPT !.backgroundColor = b, !.foregroundColor = f]
    BY DEF SetColors
  <2> HIDE DEF e
  <2> QED BY <2>1 DEF IsDisplay
<1>2. e.row = d.row /\ e.column = d.column /\ e.memory = d.memory
  BY <1>1
<1>3. e = [backgroundColor |-> e.backgroundColor, foregroundColor |-> e.foregroundColor,
           column |-> e.column, row |-> e.row, memory |-> e.memory]
  BY <1>1
<1> HIDE DEF e
<1> QED BY <1>2, <1>3 DEF e, IsDisplay, Position

(* So the screen shows what it did.                                        *)
LEMMA ColorsShow ==
  ASSUME NEW d, NEW page, NEW pending, NEW lost, Shows(d, page, pending, lost), NEW b, NEW f
  PROVE  /\ Shows(SetColors(d, b, f), page, pending, lost)
         /\ OffScreenKept(d, SetColors(d, b, f))
<1>1. IsDisplay(d)
  BY DEF Shows
<1> DEFINE e == SetColors(d, b, f)
<1>2. IsDisplay(e) /\ e.memory = d.memory /\ Position(e) = Position(d)
  BY <1>1, Colored
<1> HIDE DEF e
<1>3. \A i : Char(e, i) = Char(d, i)
  BY <1>2 DEF Char
<1>4. Shows(e, page, pending, lost)
  BY <1>2, <1>3 DEF Shows
<1> QED BY <1>2, <1>4 DEF OffScreenKept, e
-----------------------------------------------------------------------------
(* A nonempty set of small naturals has a minimum.                         *)
LEMMA LeastExists ==
  ASSUME NEW n \in Nat, NEW S \in SUBSET (0 .. n), S # {}
  PROVE  \E x \in S : \A y \in S : x <= y
<1> DEFINE U == 0 .. n
           T == {0 .. x : x \in S}
<1>1. IsFiniteSet(U)
  BY FS_Interval
<1>2. IsWellFoundedOn(StrictSubsetOrdering(U), FiniteSubsetsOf(U))
  BY FS_StrictSubsetOrderingWellFounded
<1>3. T \subseteq FiniteSubsetsOf(U) /\ T # {}
  <2>1. ASSUME NEW x \in S PROVE 0 .. x \in FiniteSubsetsOf(U)
    <3>1. 0 .. x \in SUBSET U
      OBVIOUS
    <3>2. IsFiniteSet(0 .. x)
      BY <1>1, <3>1, FS_Subset
    <3> QED BY <3>1, <3>2 DEF FiniteSubsetsOf
  <2> HIDE DEF U
  <2> QED BY <2>1
<1>4. PICK t \in T : \A s \in T : <<s, t>> \notin StrictSubsetOrdering(U)
  <2> HIDE DEF T, U
  <2> QED BY <1>2, <1>3, WFMin
<1>5. PICK x \in S : t = 0 .. x
  BY <1>4
<1>6. \A y \in S : x <= y
  <2> SUFFICES ASSUME NEW y \in S, y < x PROVE FALSE
    OBVIOUS
  <2>1. (0 .. y) \subseteq (0 .. x) /\ x \in 0 .. x /\ x \notin 0 .. y
    OBVIOUS
  <2>2. <<0 .. y, 0 .. x>> \in StrictSubsetOrdering(U)
    BY <2>1 DEF StrictSubsetOrdering
  <2> QED BY <2>2, <1>4, <1>5
<1> QED BY <1>6

(* Induction, up to a bound and over a set.                                *)
LEMMA SetInduction ==
  ASSUME NEW n \in Nat, NEW S, 0 \in S, \A k \in 0 .. n - 1 : k \in S => k + 1 \in S
  PROVE  0 .. n \subseteq S
<1> DEFINE U == (0 .. n) \ S
<1> SUFFICES ASSUME U # {} PROVE FALSE
  OBVIOUS
<1>1. PICK x \in U : \A y \in U : x <= y
  <2>1. U \in SUBSET (0 .. n)
    OBVIOUS
  <2> HIDE DEF U
  <2> QED BY <2>1, LeastExists
<1>2. x \in 1 .. n /\ x \notin S
  BY <1>1
<1>3. x - 1 \in 0 .. n - 1 /\ x - 1 \notin U
  BY <1>1, <1>2
<1>4. x - 1 \in S
  BY <1>3
<1>5. (x - 1) + 1 \in S
  BY <1>3, <1>4
<1> QED BY <1>2, <1>5

-----------------------------------------------------------------------------
(* A stream whose display shows what was flushed to it.                    *)
IsStream(s) ==
  /\ s = [buffer |-> s.buffer, display |-> s.display, paper |-> s.paper]
  /\ IsText(s.buffer) /\ Len(s.buffer) <= BufferSize
  /\ \E lost \in Nat : Shows(s.display, s.paper, s.buffer, lost)

(* How the parts make a stream.                                            *)
LEMMA StreamIs ==
  ASSUME NEW d, NEW page, NEW pending, NEW lost \in Nat, Shows(d, page, pending, lost),
         Len(pending) <= BufferSize
  PROVE  IsStream([buffer |-> pending, display |-> d, paper |-> page])
<1>1. IsText(pending)
  BY DEF Shows
<1> DEFINE s == [buffer |-> pending, display |-> d, paper |-> page]
<1>2. s.buffer = pending /\ s.display = d /\ s.paper = page
  OBVIOUS
<1>3. s = [buffer |-> s.buffer, display |-> s.display, paper |-> s.paper]
  OBVIOUS
<1> HIDE DEF s
<1> QED BY <1>1, <1>2, <1>3 DEF IsStream, s

(* flush() puts the pending text on the screen.                            *)
LEMMA Flushed ==
  ASSUME NEW s, IsStream(s)
  PROVE  /\ IsStream(Flush(s)) /\ Flush(s).buffer = << >>
         /\ Len(s.buffer) <= MaxChars - Columns => OffScreenKept(s.display, Flush(s).display)
<1> DEFINE d == PrintText(s.display, s.buffer)
           page == PageBreak(s.paper, s.buffer)
<1>1. PICK lost \in Nat : Shows(s.display, s.paper, s.buffer, lost)
  BY DEF IsStream
<1>2. /\ \E l \in Nat : Shows(d, page, << >>, l)
      /\ Len(s.buffer) <= MaxChars - Columns => OffScreenKept(s.display, d)
  BY <1>1, Prints
<1>3. Flush(s) = [buffer |-> << >>, display |-> d, paper |-> page]
  <2>1. Flush(s) = [s EXCEPT !.display = d, !.paper = page, !.buffer = << >>]
    BY DEF Flush
  <2> HIDE DEF d, page
  <2> QED BY <2>1 DEF IsStream
<1> HIDE DEF d, page
<1>4. Len(<< >>) <= BufferSize
  BY EmptySeq, OutputAssumption
<1> QED BY <1>2, <1>3, <1>4, StreamIs

(* A character that is stored is pending, and on the paper.                *)
LEMMA Stored ==
  ASSUME NEW s, IsStream(s), Len(s.buffer) < BufferSize, NEW c
  PROVE  /\ IsStream(Store(s, c)) /\ Store(s, c).display = s.display
         /\ Len(Store(s, c).buffer) = Len(s.buffer) + 1
<1> DEFINE d == s.display
           text == s.buffer
           page == s.paper
           text2 == Append(text, c)
           page2 == Append(page, c)
<1>1. PICK lost \in Nat : Shows(d, page, text, lost)
  BY DEF IsStream
<1>2. Store(s, c) = [buffer |-> text2, display |-> d, paper |-> page2]
  <2>1. Store(s, c) = [s EXCEPT !.buffer = text2, !.paper = page2]
    BY DEF Store
  <2>2. s = [buffer |-> text, display |-> d, paper |-> page]
    BY DEF IsStream
  <2> HIDE DEF text2, page2
  <2> QED BY <2>1, <2>2
<1>3. Len(text) < BufferSize /\ BufferSize \in Nat
  BY OutputAssumption
<1> HIDE DEF d, text, page
<1> DEFINE p == Position(d)
           g == Columns * lost
<1>4. /\ IsDisplay(d) /\ IsText(page) /\ IsText(text) /\ g \in Nat /\ p \in Nat
      /\ Len(text) \in Nat /\ Len(page) \in Nat
      /\ Len(page) = g + p + Len(text) /\ (lost > 0 => p >= MaxChars - Columns)
  BY <1>1, ShownNumbers
<1>5. /\ IsText(text2) /\ Len(text2) = Len(text) + 1
      /\ \A k \in 1 .. Len(text) : text2[k] = text[k]
      /\ text2[Len(text) + 1] = c
  BY <1>4, Appended
<1>6. /\ IsText(page2) /\ Len(page2) = Len(page) + 1
      /\ \A k \in 1 .. Len(page) : page2[k] = page[k]
      /\ page2[Len(page) + 1] = c
  BY <1>4, Appended
<1>7. /\ \A k \in 1 .. p : Char(d, k - 1) = page[g + k]
      /\ \A k \in 1 .. Len(text) : text[k] = page[g + p + k]
      /\ \A i \in Cells : p <= i => Char(d, i) = "SP"
  BY <1>1 DEF Shows
<1> HIDE DEF p, g, text2, page2
<1>8. Len(page2) = g + p + Len(text2)
  BY <1>4, <1>5, <1>6
<1>9. ASSUME NEW k \in 1 .. p PROVE Char(d, k - 1) = page2[g + k]
  <2>1. g + k \in 1 .. Len(page)
    BY <1>4
  <2> QED BY <1>6, <1>7, <2>1
<1>10. ASSUME NEW k \in 1 .. Len(text2) PROVE text2[k] = page2[g + p + k]
  <2>1. CASE k \in 1 .. Len(text)
    <3>1. g + p + k \in 1 .. Len(page)
      BY <1>4, <2>1
    <3> QED BY <1>5, <1>6, <1>7, <2>1, <3>1
  <2>2. CASE k = Len(text) + 1
    <3>1. g + p + k = Len(page) + 1
      BY <1>4, <2>2
    <3> QED BY <1>5, <1>6, <2>2, <3>1
  <2> QED BY <1>4, <1>5, <2>1, <2>2
<1>11. Shows(d, page2, text2, lost)
  BY <1>4, <1>5, <1>6, <1>7, <1>8, <1>9, <1>10 DEF Shows, p, g
<1>12. Len(text2) <= BufferSize
  BY <1>3, <1>4, <1>5
<1>13. /\ Store(s, c).display = d /\ Store(s, c).buffer = text2
  BY <1>2
<1> QED BY <1>2, <1>5, <1>11, <1>12, <1>13, StreamIs DEF d, text

(* DisplayTextStream_write(), with any character.                          *)
LEMMA StreamWritten ==
  ASSUME NEW s, IsStream(s), NEW c
  PROVE  /\ IsStream(StreamWrite(s, c))
         /\ Len(StreamWrite(s, c).buffer) <= Len(s.buffer) + 1
         /\ Len(s.buffer) <= MaxChars - Columns
              => OffScreenKept(s.display, StreamWrite(s, c).display)
<1>1. /\ Len(s.buffer) \in Nat /\ Len(s.buffer) <= BufferSize /\ BufferSize \in Nat
      /\ BufferSize > 0 /\ Len(<< >>) = 0
  BY EmptySeq, OutputAssumption DEF IsStream, IsText
<1> DEFINE f == Flush(s)
<1>2. /\ IsStream(f) /\ f.buffer = << >>
      /\ Len(s.buffer) <= MaxChars - Columns => OffScreenKept(s.display, f.display)
  BY Flushed
<1>3. PICK lost \in Nat : Shows(f.display, f.paper, << >>, lost)
  BY <1>2 DEF IsStream
<1>4. Len(f.buffer) = 0 /\ f = [buffer |-> << >>, display |-> f.display, paper |-> f.paper]
  BY <1>1, <1>2 DEF IsStream
<1> DEFINE line == [f EXCEPT !.display = NewLine(@), !.paper = LineOnPaper(@)]
           tab == [f EXCEPT !.display = Tab(@), !.paper = TabOnPaper(@)]
           there == IF Len(s.buffer) = BufferSize THEN f ELSE s
           stored == Store(there, c)
<1>5. StreamWrite(s, c) = CASE c = "TAB" -> tab
                            [] c = "LF"  -> line
                            [] c = "NUL" -> f
                            [] OTHER     -> stored
  BY DEF StreamWrite
<1> HIDE DEF f
<1>6. IsStream(line) /\ line.buffer = << >> /\ OffScreenKept(f.display, line.display)
  <2> DEFINE d == NewLine(f.display)
             page == LineOnPaper(f.paper)
  <2>1. PICK l \in Nat : Shows(d, page, << >>, l)
    BY <1>3, StartsLine
  <2>2. OffScreenKept(f.display, d)
    BY <1>3, StartsLine
  <2>3. line = [buffer |-> << >>, display |-> d, paper |-> page]
    <3>1. line = [f EXCEPT !.display = d, !.paper = page]
      OBVIOUS
    <3>2. f = [buffer |-> f.buffer, display |-> f.display, paper |-> f.paper]
      BY <1>2 DEF IsStream
    <3> HIDE DEF line, d, page
    <3>3. line = [buffer |-> f.buffer, display |-> d, paper |-> page]
      BY <3>1, <3>2
    <3> QED BY <1>2, <3>3
  <2> HIDE DEF line, d, page
  <2>4. IsStream(line)
    BY <1>1, <2>1, <2>3, StreamIs
  <2> QED BY <2>2, <2>3, <2>4
<1>7. IsStream(tab) /\ tab.buffer = << >> /\ OffScreenKept(f.display, tab.display)
  <2> DEFINE d == Tab(f.display)
             page == TabOnPaper(f.paper)
  <2>1. PICK l \in Nat : Shows(d, page, << >>, l)
    BY <1>3, Tabs
  <2>2. OffScreenKept(f.display, d)
    BY <1>3, Tabs
  <2>3. tab = [buffer |-> << >>, display |-> d, paper |-> page]
    <3>1. tab = [f EXCEPT !.display = d, !.paper = page]
      OBVIOUS
    <3>2. f = [buffer |-> f.buffer, display |-> f.display, paper |-> f.paper]
      BY <1>2 DEF IsStream
    <3> HIDE DEF tab, d, page
    <3>3. tab = [buffer |-> f.buffer, display |-> d, paper |-> page]
      BY <3>1, <3>2
    <3> QED BY <1>2, <3>3
  <2> HIDE DEF tab, d, page
  <2>4. IsStream(tab)
    BY <1>1, <2>1, <2>3, StreamIs
  <2> QED BY <2>2, <2>3, <2>4
<1>8. /\ IsStream(stored) /\ Len(stored.buffer) <= Len(s.buffer) + 1
      /\ stored.display = there.display
  <2>1. IsStream(there) /\ Len(there.buffer) < BufferSize
        /\ Len(there.buffer) <= Len(s.buffer) /\ Len(there.buffer) \in Nat
    <3>1. CASE Len(s.buffer) = BufferSize
      BY <1>1, <1>2, <1>4, <3>1
    <3>2. CASE ~ (Len(s.buffer) = BufferSize)
      BY <1>1, <3>2
    <3> QED BY <3>1, <3>2
  <2> HIDE DEF there
  <2>2. /\ IsStream(stored) /\ stored.display = there.display
        /\ Len(stored.buffer) = Len(there.buffer) + 1
    BY <2>1, Stored
  <2> QED BY <1>1, <2>1, <2>2
<1>9. OffScreenKept(s.display, s.display)
  BY DEF OffScreenKept
<1>10. Len(s.buffer) <= MaxChars - Columns => OffScreenKept(s.display, stored.display)
  BY <1>2, <1>8, <1>9
<1> HIDE DEF line, tab, stored
<1>11. CASE c = "TAB"
  BY <1>1, <1>2, <1>5, <1>7, <1>11 DEF OffScreenKept
<1>12. CASE c = "LF"
  <2>1. StreamWrite(s, c) = line
    BY <1>5, <1>12
  <2> QED BY <1>1, <1>2, <1>6, <2>1 DEF OffScreenKept
<1>13. CASE c = "NUL"
  <2>1. StreamWrite(s, c) = f
    BY <1>5, <1>13
  <2> QED BY <1>1, <1>2, <2>1
<1>14. CASE c \notin {"TAB", "LF", "NUL"}
  <2>1. StreamWrite(s, c) = stored
    BY <1>5, <1>14
  <2> QED BY <1>8, <1>10, <2>1
<1> QED BY <1>11, <1>12, <1>13, <1>14

(* The states of a stream to which characters are written.                 *)
AreStates(f, n, s, chars) ==
  f = [k \in 0 .. n |-> IF k = 0 THEN s ELSE StreamWrite(f[k - 1], chars[k])]

(* There are such states.                                                  *)
LEMMA StatesExist ==
  ASSUME NEW n \in Nat, NEW s, NEW chars
  PROVE  \E f : AreStates(f, n, s, chars)
<1> DEFINE S == {m \in 0 .. n : \E f : AreStates(f, m, s, chars)}
<1>1. 0 \in S
  <2>1. AreStates([k \in 0 .. 0 |-> s], 0, s, chars)
    BY DEF AreStates
  <2> QED BY <2>1
<1>2. ASSUME NEW m \in 0 .. n - 1, m \in S PROVE m + 1 \in S
  <2>1. PICK f : AreStates(f, m, s, chars)
    BY <1>2
  <2> DEFINE g == [k \in 0 .. m + 1 |->
                     IF k = m + 1 THEN StreamWrite(f[m], chars[m + 1]) ELSE f[k]]
  <2>2. ASSUME NEW k \in 0 .. m + 1
        PROVE  g[k] = IF k = 0 THEN s ELSE StreamWrite(g[k - 1], chars[k])
    <3>1. CASE k = m + 1
      <4>1. k # 0 /\ k - 1 = m /\ m \in 0 .. m + 1 /\ m # m + 1
        BY <3>1
      <4>2. g[k - 1] = f[m] /\ g[k] = StreamWrite(f[m], chars[k])
        BY <3>1, <4>1
      <4> QED BY <4>1, <4>2
    <3>2. CASE k = 0
      <4>1. 0 \in 0 .. m /\ 0 # m + 1
        OBVIOUS
      <4>2. f[0] = s
        BY <2>1, <4>1 DEF AreStates
      <4> QED BY <3>2, <4>1, <4>2
    <3>3. CASE k \in 1 .. m
      <4>1. k \in 0 .. m /\ k # 0 /\ k - 1 \in 0 .. m + 1 /\ k - 1 # m + 1 /\ k # m + 1
        BY <3>3
      <4>2. f[k] = StreamWrite(f[k - 1], chars[k])
        BY <2>1, <4>1 DEF AreStates
      <4>3. g[k] = f[k] /\ g[k - 1] = f[k - 1]
        BY <4>1
      <4> QED BY <4>1, <4>2, <4>3
    <3> QED BY <3>1, <3>2, <3>3
  <2>3. g = [k \in 0 .. m + 1 |-> IF k = 0 THEN s ELSE StreamWrite(g[k - 1], chars[k])]
    <3>1. g = [k \in 0 .. m + 1 |-> g[k]]
      OBVIOUS
    <3> HIDE DEF g
    <3> QED BY <2>2, <3>1
  <2>4. AreStates(g, m + 1, s, chars)
    BY <2>3 DEF AreStates
  <2> QED BY <2>4
<1>3. n \in S
  <2> HIDE DEF S
  <2> QED BY <1>1, <1>2, SetInduction
<1> QED BY <1>3

(* A text that is written, of any length.                                  *)
LEMMA AllWritten ==
  ASSUME NEW s, IsStream(s), NEW chars, Len(chars) \in Nat
  PROVE  /\ IsStream(StreamWriteAll(s, chars))
         /\ Len(s.buffer) + Len(chars) <= MaxChars - Columns
              => OffScreenKept(s.display, StreamWriteAll(s, chars).display)
<1> DEFINE n == Len(chars)
           Step(f) == f = [k \in 0 .. n |-> IF k = 0 THEN s ELSE StreamWrite(f[k - 1], chars[k])]
           after == CHOOSE f : Step(f)
<1>1. StreamWriteAll(s, chars) = after[n]
  BY DEF StreamWriteAll
<1>2. \E f : Step(f)
  <2>1. PICK f : AreStates(f, n, s, chars)
    BY StatesExist
  <2>2. Step(f)
    BY <2>1 DEF AreStates
  <2> QED BY <2>2
<1>3. Step(after)
  <2> HIDE DEF Step
  <2> QED BY <1>2
<1> HIDE DEF after
<1>4. /\ after[0] = s
      /\ \A k \in 0 .. n - 1 : after[k + 1] = StreamWrite(after[k], chars[k + 1])
  <2>1. after[0] = s
    BY <1>3
  <2>2. ASSUME NEW k \in 0 .. n - 1 PROVE after[k + 1] = StreamWrite(after[k], chars[k + 1])
    <3>1. k + 1 \in 0 .. n /\ k + 1 # 0 /\ (k + 1) - 1 = k
      OBVIOUS
    <3> QED BY <1>3, <3>1
  <2> QED BY <2>1, <2>2
<1> HIDE DEF Step
<1>5. Len(s.buffer) \in Nat /\ MaxChars - Columns \in Int
  BY Screen DEF IsStream, IsText
<1> DEFINE S == {k \in 0 .. n : /\ IsStream(after[k]) /\ Len(after[k].buffer) <= Len(s.buffer) + k
                                /\ Len(s.buffer) + n <= MaxChars - Columns
                                     => OffScreenKept(s.display, after[k].display)}
<1>6. 0 \in S
  BY <1>4, <1>5 DEF OffScreenKept
<1>7. ASSUME NEW k \in 0 .. n - 1, k \in S PROVE k + 1 \in S
  <2> DEFINE old == after[k]
             new == after[k + 1]
  <2>1. /\ IsStream(old) /\ Len(old.buffer) <= Len(s.buffer) + k
        /\ Len(s.buffer) + n <= MaxChars - Columns => OffScreenKept(s.display, old.display)
    BY <1>7
  <2>2. new = StreamWrite(old, chars[k + 1])
    BY <1>4
  <2> HIDE DEF old, new
  <2>3. Len(old.buffer) \in Nat
    BY <2>1 DEF IsStream, IsText
  <2>4. /\ IsStream(new) /\ Len(new.buffer) <= Len(old.buffer) + 1
        /\ Len(old.buffer) <= MaxChars - Columns => OffScreenKept(old.display, new.display)
    BY <2>1, <2>2, StreamWritten
  <2>5. Len(new.buffer) \in Nat
    BY <2>4 DEF IsStream, IsText
  <2>6. Len(new.buffer) <= Len(s.buffer) + (k + 1)
    <3>1. k \in Nat
      OBVIOUS
    <3> DEFINE a == Len(s.buffer)
               b == Len(old.buffer)
               e == Len(new.buffer)
    <3>2. a \in Nat /\ b \in Nat /\ e \in Nat /\ b <= a + k /\ e <= b + 1
      BY <1>5, <2>1, <2>3, <2>4, <2>5
    <3> HIDE DEF a, b, e
    <3>3. e <= a + (k + 1)
      BY ONLY <3>1, <3>2
    <3> QED BY <3>3 DEF a, e
  <2>7. ASSUME Len(s.buffer) + n <= MaxChars - Columns
        PROVE  OffScreenKept(s.display, new.display)
    <3>1. Len(old.buffer) <= MaxChars - Columns
      BY <1>5, <2>1, <2>3, <2>7
    <3> QED BY <2>1, <2>4, <2>7, <3>1 DEF OffScreenKept
  <2>8. k + 1 \in 0 .. n
    OBVIOUS
  <2> QED BY <2>4, <2>6, <2>7, <2>8 DEF new
<1>8. n \in S
  <2>1. n \in Nat /\ n \in 0 .. n
    OBVIOUS
  <2> HIDE DEF S, n
  <2> QED BY <1>6, <1>7, <2>1, SetInduction
<1> QED BY <1>1, <1>8
-----------------------------------------------------------------------------
(* Texts that the writer makes                                             *)

(* A single character is a text.                                           *)
LEMMA One ==
  ASSUME NEW c
  PROVE  IsText(<<c>>) /\ Len(<<c>>) = 1 /\ <<c>>[1] = c
<1>1. <<c>> \in Seq({c})
  OBVIOUS
<1> QED BY <1>1, SeqIsText

(* Functions on 1 .. n are texts.                                          *)
LEMMA FunctionIsText ==
  ASSUME NEW n \in Nat, NEW s, s = [k \in 1 .. n |-> s[k]]
  PROVE  IsText(s) /\ Len(s) = n
<1> DEFINE S == {s[k] : k \in 1 .. n}
<1>1. s \in [1 .. n -> S]
  OBVIOUS
<1> HIDE DEF S
<1>2. s \in Seq(S)
  BY <1>1, SeqDef
<1>3. Len(s) = n
  BY <1>1
<1> QED BY <1>2, <1>3, SeqIsText

(* What the functions of the writer rely on.                               *)
IsWriter(w) == w.width \in Int

(* What writeString() sends is a text; so is what the others send.         *)
LEMMA StringWritten ==
  ASSUME NEW w, IsWriter(w), NEW str, IsText(str)
  PROVE  IsText(WriteString(w, str))
<1> DEFINE padding == Spaces(w.width - Len(str))
<1>1. w.width - Len(str) \in Int
  BY DEF IsWriter, IsText
<1>2. IsText(padding)
  BY <1>1, SpacesFacts
<1>3. WriteString(w, str) = IF w.leftAlign THEN str \o padding ELSE padding \o str
  BY DEF WriteString
<1> HIDE DEF padding
<1>4. IsText(str \o padding) /\ IsText(padding \o str)
  BY <1>2, Joined
<1> QED BY <1>3, <1>4

(* writeChar()                                                             *)
LEMMA CharWritten ==
  ASSUME NEW w, IsWriter(w), NEW c
  PROVE  IsText(WriteChar(w, c))
<1> DEFINE s == <<c>>
<1>1. IsText(s)
  BY One
<1>2. WriteChar(w, c) = WriteString(w, s)
  BY DEF WriteChar
<1> HIDE DEF s
<1> QED BY <1>1, <1>2, StringWritten

(* writeHex()                                                              *)
LEMMA HexWritten ==
  ASSUME NEW w, IsWriter(w), NEW i, NEW n \in Nat
  PROVE  IsText(WriteHex(w, i, n))
<1> DEFINE s == <<"0", "x">>
           t == [k \in 1 .. n |-> Digits[((i \div 16^(n - k)) % 16) + 1]]
           u == s \o t
<1>1. IsText(s)
  <2>1. s \in Seq({"0", "x"})
    OBVIOUS
  <2> QED BY <2>1, SeqIsText
<1>2. IsText(t)
  <2>1. t = [k \in 1 .. n |-> t[k]]
    OBVIOUS
  <2> HIDE DEF t
  <2> QED BY <2>1, FunctionIsText
<1>3. WriteHex(w, i, n) = WriteString(w, u)
  BY DEF WriteHex
<1>4. IsText(u)
  <2> HIDE DEF s, t
  <2> QED BY <1>1, <1>2, Joined
<1> HIDE DEF u
<1> QED BY <1>3, <1>4, StringWritten

MostInteger == 16^8      \* the values that an integer of the processor can have

(* The powers of ten and sixteen that there are.                           *)
LEMMA Powers ==
  /\ MostInteger \in Nat /\ MostInteger < 10^10
  /\ \A n \in 1 .. 8 : 16^n \in Nat /\ 16 <= 16^n /\ 16^n <= MostInteger
  /\ \A n \in 1 .. 9 : 10^n \in Nat
<1>1. MostInteger \in Nat /\ MostInteger < 10^10
  BY SMT DEF MostInteger
<1>2. ASSUME NEW n \in 1 .. 8 PROVE 16^n \in Nat /\ 16 <= 16^n /\ 16^n <= MostInteger
  <2>1. n = 1 \/ n = 2 \/ n = 3 \/ n = 4 \/ n = 5 \/ n = 6 \/ n = 7 \/ n = 8
    OBVIOUS
  <2>2. 16^1 \in Nat /\ 16 <= 16^1 /\ 16^1 <= MostInteger
    BY SMT DEF MostInteger
  <2>3. 16^2 \in Nat /\ 16 <= 16^2 /\ 16^2 <= MostInteger
    BY SMT DEF MostInteger
  <2>4. 16^3 \in Nat /\ 16 <= 16^3 /\ 16^3 <= MostInteger
    BY SMT DEF MostInteger
  <2>5. 16^4 \in Nat /\ 16 <= 16^4 /\ 16^4 <= MostInteger
    BY SMT DEF MostInteger
  <2>6. 16^5 \in Nat /\ 16 <= 16^5 /\ 16^5 <= MostInteger
    BY SMT DEF MostInteger
  <2>7. 16^6 \in Nat /\ 16 <= 16^6 /\ 16^6 <= MostInteger
    BY SMT DEF MostInteger
  <2>8. 16^7 \in Nat /\ 16 <= 16^7 /\ 16^7 <= MostInteger
    BY SMT DEF MostInteger
  <2>9. 16^8 \in Nat /\ 16 <= 16^8 /\ 16^8 <= MostInteger
    BY SMT DEF MostInteger
  <2> QED BY <2>1, <2>2, <2>3, <2>4, <2>5, <2>6, <2>7, <2>8, <2>9, Zenon
<1>3. ASSUME NEW n \in 1 .. 9 PROVE 10^n \in Nat
  <2>1. n = 1 \/ n = 2 \/ n = 3 \/ n = 4 \/ n = 5 \/ n = 6 \/ n = 7 \/ n = 8 \/ n = 9
    OBVIOUS
  <2>2. /\ 10^1 \in Nat /\ 10^2 \in Nat /\ 10^3 \in Nat /\ 10^4 \in Nat /\ 10^5 \in Nat
        /\ 10^6 \in Nat /\ 10^7 \in Nat /\ 10^8 \in Nat /\ 10^9 \in Nat
    BY SMT
  <2> QED BY <2>1, <2>2, Zenon
<1> QED BY <1>1, <1>2, <1>3

(* The number of values of a type.                                         *)
LEMMA Wraps ==
  ASSUME NEW type \in Types
  PROVE  /\ HexDigits[type] \in 1 .. 8 /\ MostInteger \in Nat
         /\ Wrap(type) \in Nat /\ Wrap(type) >= 16 /\ Wrap(type) <= MostInteger
<1>1. HexDigits[type] \in 1 .. 8
  BY HexDigitsAssumption
<1> QED BY <1>1, Powers DEF Wrap

(* The number of digits of a number that the processor has.                *)
LEMMA NumDigitsIs ==
  ASSUME NEW i \in 0 .. MostInteger
  PROVE  /\ NumDigits(i) \in 1 .. 10 /\ i < 10^NumDigits(i)
         /\ \A m \in 1 .. NumDigits(i) - 1 : 10^m <= i
<1> DEFINE Is(n) == i < 10^n /\ \A m \in 1 .. n - 1 : 10^m <= i
<1>1. ASSUME NEW n \in 1 .. 9, \A m \in 1 .. n - 1 : 10^m <= i, ~ Is(n)
      PROVE  \A m \in 1 .. (n + 1) - 1 : 10^m <= i
  <2>1. ~ (i < 10^n)
    BY <1>1
  <2>2. 10^n \in Nat
    BY Powers
  <2>3. 10^n <= i
    BY <2>1, <2>2
  <2>4. \A m \in 1 .. (n + 1) - 1 : m = n \/ m \in 1 .. n - 1
    OBVIOUS
  <2> QED BY <1>1, <2>3, <2>4
<1>2. \E n \in 1 .. 10 : Is(n)
  <2> SUFFICES ASSUME \A n \in 1 .. 10 : ~ Is(n) PROVE FALSE
    OBVIOUS
  <2> DEFINE S == {k \in 0 .. 9 : \A m \in 1 .. (k + 1) - 1 : 10^m <= i}
  <2>1. 0 \in S
    OBVIOUS
  <2>2. ASSUME NEW k \in 0 .. 9 - 1, k \in S PROVE k + 1 \in S
    <3>1. k + 1 \in 1 .. 9 /\ k + 1 \in 1 .. 10 /\ k + 1 \in 0 .. 9
      OBVIOUS
    <3>2. \A m \in 1 .. (k + 1) - 1 : 10^m <= i
      BY <2>2
    <3>3. ~ Is(k + 1)
      BY <3>1
    <3> HIDE DEF Is
    <3>4. \A m \in 1 .. ((k + 1) + 1) - 1 : 10^m <= i
      BY <1>1, <3>1, <3>2, <3>3
    <3> QED BY <3>1, <3>4
  <2>3. 9 \in S
    <3>1. 9 \in Nat /\ 9 \in 0 .. 9
      OBVIOUS
    <3> HIDE DEF S
    <3> QED BY <2>1, <2>2, <3>1, SetInduction
  <2>4. \A m \in 1 .. 10 - 1 : 10^m <= i
    BY <2>3
  <2>5. i < 10^10
    BY Powers
  <2> QED BY <2>4, <2>5
<1>3. NumDigits(i) = CHOOSE n \in 1 .. 10 : Is(n)
  BY DEF NumDigits
<1>4. NumDigits(i) \in 1 .. 10 /\ Is(NumDigits(i))
  <2> HIDE DEF Is
  <2> QED BY <1>2, <1>3
<1> QED BY <1>4

(* writeDecimal()                                                          *)
LEMMA DecimalWritten ==
  ASSUME NEW w, IsWriter(w), NEW i \in 0 .. MostInteger, NEW negative
  PROVE  IsText(WriteDecimal(w, i, negative))
<1> DEFINE n == NumDigits(i)
           s == IF negative THEN <<"-">> ELSE << >>
           t == [k \in 1 .. n |-> Digits[((i \div 10^(n - k)) % 10) + 1]]
           u == s \o t
<1>1. IsText(s)
  <2>1. IsText(<<"-">>)
    BY One
  <2>2. IsText(<< >>)
    BY EmptySeq, SeqIsText
  <2> QED BY <2>1, <2>2
<1>2. WriteDecimal(w, i, negative) = WriteString(w, u)
  BY DEF WriteDecimal
<1>3. n \in Nat
  BY NumDigitsIs
<1> HIDE DEF n
<1>4. IsText(t)
  <2>1. t = [k \in 1 .. n |-> t[k]]
    OBVIOUS
  <2> HIDE DEF t
  <2> QED BY <1>3, <2>1, FunctionIsText
<1>5. IsText(u)
  <2> HIDE DEF s, t
  <2> QED BY <1>1, <1>4, Joined
<1> HIDE DEF u
<1> QED BY <1>2, <1>5, StringWritten

(* A signed number has an absolute value no larger than the type.          *)
LEMMA SignedIs ==
  ASSUME NEW i \in Nat, NEW type \in Types
  PROVE  Signed(i, type) \in Int /\ Abs(Signed(i, type)) \in 0 .. MostInteger
<1> DEFINE W == Wrap(type)
           bits == i % W
           half == W \div 2
<1>1. W \in Nat /\ W >= 16 /\ W <= MostInteger
  BY Wraps
<1>2. Signed(i, type) = IF bits < half THEN bits ELSE bits - W
  BY DEF Signed
<1> HIDE DEF W
<1>3. bits \in 0 .. W - 1 /\ half \in 0 .. W
  BY <1>1
<1> HIDE DEF bits, half
<1>4. MostInteger \in Nat
  BY Wraps
<1>5. Signed(i, type) \in Int /\ Signed(i, type) < W /\ -W <= Signed(i, type)
  BY <1>1, <1>2, <1>3
<1> QED BY <1>1, <1>4, <1>5 DEF Abs

(* writeInt8() to writeUIntPtr()                                           *)
LEMMA IntWritten ==
  ASSUME NEW w, IsWriter(w), NEW i \in Nat, NEW type \in Types
  PROVE  IsText(WriteInt(w, i, type)) /\ IsText(WriteUInt(w, i, type))
<1> DEFINE W == Wrap(type)
           n == HexDigits[type]
<1>1. W \in Nat /\ W >= 16 /\ W <= MostInteger /\ n \in Nat
  BY Wraps
<1>2. \A v : IsText(WriteHex(w, v, n))
  BY <1>1, HexWritten
<1>3. \A negative : IsText(WriteDecimal(w, Abs(Signed(i, type)), negative))
  BY SignedIs, DecimalWritten
<1>4. \A negative : IsText(WriteDecimal(w, i % W, negative))
  <2>1. i % W \in 0 .. MostInteger
    <3> HIDE DEF W
    <3>1. i % W \in 0 .. W - 1
      BY <1>1
    <3> DEFINE v == i % W
    <3> HIDE DEF v
    <3>2. v \in 0 .. MostInteger
      BY <1>1, <3>1, Wraps DEF v
    <3> QED BY <3>2 DEF v
  <2> DEFINE v == i % W
  <2> HIDE DEF v
  <2>2. \A negative : IsText(WriteDecimal(w, v, negative))
    BY <2>1, DecimalWritten DEF v
  <2> QED BY <2>2 DEF v
<1>5. IsText(WriteInt(w, i, type))
  BY <1>2, <1>3 DEF WriteInt
<1>6. IsText(WriteUInt(w, i, type))
  BY <1>2, <1>4 DEF WriteUInt
<1> QED BY <1>5, <1>6
-----------------------------------------------------------------------------
(* Texts made of texts.                                                    *)
AreFlattened(f, n, seqs) ==
  f = [i \in 1 .. n |-> IF i = 1 THEN seqs[i] ELSE f[i - 1] \o seqs[i]]

(* There is such a function.                                               *)
LEMMA FlattenedExist ==
  ASSUME NEW n \in Nat, NEW seqs
  PROVE  \E f : AreFlattened(f, n, seqs)
<1> DEFINE S == {m \in 0 .. n : \E f : AreFlattened(f, m, seqs)}
<1>1. 0 \in S
  <2> DEFINE f == [i \in 1 .. 0 |-> << >>]
  <2>1. \A i \in 1 .. 0 : FALSE
    OBVIOUS
  <2>2. f = [i \in 1 .. 0 |-> IF i = 1 THEN seqs[i] ELSE f[i - 1] \o seqs[i]]
    BY <2>1
  <2>3. AreFlattened(f, 0, seqs)
    BY <2>2 DEF AreFlattened
  <2> QED BY <2>3
<1>2. ASSUME NEW m \in 0 .. n - 1, m \in S PROVE m + 1 \in S
  <2>1. PICK f : AreFlattened(f, m, seqs)
    BY <1>2
  <2> DEFINE g == [i \in 1 .. m + 1 |->
                     IF i = m + 1 THEN (IF i = 1 THEN seqs[i] ELSE f[m] \o seqs[i]) ELSE f[i]]
  <2>2. ASSUME NEW i \in 1 .. m + 1
        PROVE  g[i] = IF i = 1 THEN seqs[i] ELSE g[i - 1] \o seqs[i]
    <3>1. CASE i = m + 1 /\ i = 1
      BY SMTT(40), <3>1
    <3>2. CASE i = m + 1 /\ i # 1
      <4>1. i - 1 = m /\ m \in 1 .. m + 1 /\ m # m + 1
        BY <3>2
      <4>2. g[i - 1] = f[m] /\ g[i] = f[m] \o seqs[i]
        BY <3>2, <4>1
      <4> QED BY <3>2, <4>2
    <3>3. CASE i \in 1 .. m
      <4>1. i # m + 1 /\ i - 1 # m + 1 /\ (i # 1 => i - 1 \in 1 .. m + 1)
        BY <3>3
      <4>2. f[i] = IF i = 1 THEN seqs[i] ELSE f[i - 1] \o seqs[i]
        BY <2>1, <3>3 DEF AreFlattened
      <4>3. g[i] = f[i] /\ (i # 1 => g[i - 1] = f[i - 1])
        BY <4>1
      <4> QED BY <4>2, <4>3
    <3> QED BY <3>1, <3>2, <3>3
  <2>3. g = [i \in 1 .. m + 1 |-> IF i = 1 THEN seqs[i] ELSE g[i - 1] \o seqs[i]]
    <3>1. g = [i \in 1 .. m + 1 |-> g[i]]
      OBVIOUS
    <3> HIDE DEF g
    <3> QED BY <2>2, <3>1
  <2>4. AreFlattened(g, m + 1, seqs)
    BY <2>3 DEF AreFlattened
  <2> QED BY <2>4
<1>3. n \in S
  <2>1. n \in 0 .. n
    OBVIOUS
  <2> HIDE DEF S
  <2> QED BY <1>1, <1>2, <2>1, SetInduction
<1> QED BY <1>3

(* Texts one after the other are a text.                                   *)
LEMMA FlattenedIsText ==
  ASSUME NEW seqs, IsText(seqs), \A i \in 1 .. Len(seqs) : IsText(seqs[i])
  PROVE  IsText(FlattenSeq(seqs))
<1> DEFINE n == Len(seqs)
           Step(f) == f = [i \in 1 .. n |-> IF i = 1 THEN seqs[i] ELSE f[i - 1] \o seqs[i]]
           flatten == CHOOSE f : Step(f)
<1>1. FlattenSeq(seqs) = IF n = 0 THEN seqs ELSE flatten[n]
  BY DEF FlattenSeq
<1>2. n \in Nat
  BY DEF IsText
<1>3. \E f : Step(f)
  <2>1. PICK f : AreFlattened(f, n, seqs)
    BY <1>2, FlattenedExist
  <2>2. Step(f)
    BY <2>1 DEF AreFlattened
  <2> QED BY <2>2
<1>4. Step(flatten)
  <2> HIDE DEF Step
  <2> QED BY <1>3
<1> HIDE DEF flatten
<1>5. \A i \in 1 .. n : flatten[i] = IF i = 1 THEN seqs[i] ELSE flatten[i - 1] \o seqs[i]
  BY <1>4
<1> HIDE DEF Step
<1> DEFINE S == {k \in 0 .. n : k = 0 \/ IsText(flatten[k])}
<1>6. 0 \in S
  BY <1>2
<1>7. ASSUME NEW k \in 0 .. n - 1, k \in S PROVE k + 1 \in S
  <2>1. k + 1 \in 1 .. n /\ k + 1 \in 0 .. n /\ (k + 1) - 1 = k /\ (k = 0 <=> k + 1 = 1)
    BY <1>2
  <2>2. IsText(seqs[k + 1])
    BY <2>1
  <2>3. flatten[k + 1] = IF k = 0 THEN seqs[k + 1] ELSE flatten[k] \o seqs[k + 1]
    BY <1>5, <2>1
  <2>4. k # 0 => IsText(flatten[k])
    BY <1>7
  <2>5. k # 0 => IsText(flatten[k] \o seqs[k + 1])
    BY <2>2, <2>4, Joined
  <2> QED BY <2>1, <2>2, <2>3, <2>5
<1>8. n \in S
  <2>1. n \in 0 .. n
    BY <1>2
  <2> HIDE DEF S, n
  <2> QED BY <1>2, <1>6, <1>7, <2>1, SetInduction
<1> QED BY <1>1, <1>8

(* writeObject()                                                           *)
LEMMA ObjectWritten ==
  ASSUME NEW w, IsWriter(w), NEW text, IsText(text)
  PROVE  IsText(WriteObject(w, text))
<1> DEFINE seqs == [k \in 1 .. Len(text) |-> WriteChar(w, text[k])]
           flat == FlattenSeq(seqs)
           end == WriteChar(w, "NUL")
<1>1. WriteObject(w, text) = flat \o end
  BY DEF WriteObject
<1>2. Len(text) \in Nat
  BY DEF IsText
<1>3. IsText(seqs) /\ Len(seqs) = Len(text)
  <2>1. seqs = [k \in 1 .. Len(text) |-> seqs[k]]
    OBVIOUS
  <2> HIDE DEF seqs
  <2> QED BY <1>2, <2>1, FunctionIsText
<1>4. \A k \in 1 .. Len(text) : IsText(seqs[k])
  BY CharWritten
<1> HIDE DEF seqs
<1>5. IsText(flat)
  BY <1>3, <1>4, FlattenedIsText
<1>6. IsText(end)
  BY CharWritten
<1> HIDE DEF flat, end
<1> QED BY <1>1, <1>5, <1>6, Joined
-----------------------------------------------------------------------------
(* What the parser's actions rely on: a type is one, and so is a modifier. *)
LEMMA Transitions ==
  ASSUME NEW state, NEW c
  PROVE  /\ ConvertInputChar(c) = "type" => c \in TypeChars
         /\ Transition(state, ConvertInputChar(c)) = "modifier" => c \in Modifiers
<1>1. ConvertInputChar(c) = "type" => c \in TypeChars
  BY DEF ConvertInputChar, Modifiers
<1>2. ASSUME Transition(state, ConvertInputChar(c)) = "modifier" PROVE c \in Modifiers
  <2>1. ConvertInputChar(c) = "mod"
    BY <1>2 DEF Transition
  <2> QED BY <2>1 DEF ConvertInputChar
<1> QED BY <1>1, <1>2

FormatSpecs == [leftAlign : BOOLEAN, modifier : Types, width : Int]

(* KOut_writeNextArg(), for each type.                                     *)
LEMMA ArgumentWritten ==
  ASSUME NEW w, IsWriter(w), NEW type \in TypeChars, NEW modifier \in Types,
         NEW arg \in Arguments(type)
  PROVE  IsText(Formatted(w, type, modifier, arg))
<1>1. CASE type = "c"
  BY <1>1, CharWritten DEF Formatted
<1>2. CASE type \in {"d", "i", "u", "x", "p"}
  <2>1. arg \in Nat
    <3>1. arg \in Integers
      BY <1>2 DEF Arguments
    <3>2. Wrap("intptr") \in Nat
      BY Wraps DEF Types
    <3> QED BY <3>1, <3>2, OutputAssumption
  <2>2. IsText(WriteInt(w, arg, modifier)) /\ IsText(WriteUInt(w, arg, modifier))
    BY <2>1, IntWritten
  <2>3. IsText(WritePointer(w, arg))
    <3>1. HexDigits["intptr"] \in Nat
      BY Wraps DEF Types
    <3> QED BY <3>1, HexWritten DEF WritePointer
  <2> QED BY <1>2, <2>2, <2>3 DEF Formatted
<1>3. CASE type = "s"
  <2>1. arg \in Strings
    BY <1>3 DEF Arguments
  <2>2. IsText(arg)
    BY <2>1, OutputAssumption, SeqIsText
  <2> QED BY <1>3, <2>2, StringWritten DEF Formatted
<1>4. CASE type = "O"
  <2>1. arg = Object
    BY <1>4 DEF Arguments
  <2>2. IsText(arg)
    BY <2>1, OutputAssumption, SeqIsText
  <2> QED BY <1>4, <2>2, ObjectWritten DEF Formatted
<1> QED BY <1>1, <1>2, <1>3, <1>4 DEF TypeChars
-----------------------------------------------------------------------------
(* KernelDisplay_reset(): what its accesses are, one after the other.      *)

(* The table of the mode has a number of registers.                        *)
LEMMA ModeIsText ==
  ASSUME NEW group \in {"seq", "crtc", "gc", "ac"}
  PROVE  Len(Mode[group]) \in Nat
<1>1. CASE group = "seq"
  BY <1>1 DEF Mode
<1>2. CASE group = "crtc"
  BY <1>2 DEF Mode
<1>3. CASE group = "gc"
  BY <1>3 DEF Mode
<1>4. CASE group = "ac"
  BY <1>4 DEF Mode
<1> QED BY <1>1, <1>2, <1>3, <1>4

(* Lists of accesses, one after the other.                                 *)
LEMMA Both ==
  ASSUME NEW s, NEW t, IsText(s), IsText(t)
  PROVE  IsText(s \o t)
BY Joined

(* Texts of the same length one after the other.                           *)
LEMMA FlattenedAt ==
  ASSUME NEW seqs, IsText(seqs), NEW m \in {2, 3},
         \A i \in 1 .. Len(seqs) : IsText(seqs[i]) /\ Len(seqs[i]) = m
  PROVE  /\ IsText(FlattenSeq(seqs)) /\ Len(FlattenSeq(seqs)) = m * Len(seqs)
         /\ \A i \in 1 .. Len(seqs) : \A j \in 1 .. m :
              FlattenSeq(seqs)[m * (i - 1) + j] = seqs[i][j]
<1> DEFINE n == Len(seqs)
           Step(f) == f = [i \in 1 .. n |-> IF i = 1 THEN seqs[i] ELSE f[i - 1] \o seqs[i]]
           flatten == CHOOSE f : Step(f)
<1>1. FlattenSeq(seqs) = IF n = 0 THEN seqs ELSE flatten[n]
  BY DEF FlattenSeq
<1>2. n \in Nat
  BY DEF IsText
<1>3. \E f : Step(f)
  <2>1. PICK f : AreFlattened(f, n, seqs)
    BY <1>2, FlattenedExist
  <2>2. Step(f)
    BY <2>1 DEF AreFlattened
  <2> QED BY <2>2
<1>4. Step(flatten)
  <2> HIDE DEF Step
  <2> QED BY <1>3
<1> HIDE DEF flatten
<1>5. \A i \in 1 .. n : flatten[i] = IF i = 1 THEN seqs[i] ELSE flatten[i - 1] \o seqs[i]
  BY <1>4
<1> HIDE DEF Step
<1> DEFINE IsFlat(f, k) ==
             /\ IsText(f) /\ Len(f) = m * k
             /\ \A i \in 1 .. k : \A j \in 1 .. m : f[m * (i - 1) + j] = seqs[i][j]
           S == {k \in 0 .. n : k = 0 \/ IsFlat(flatten[k], k)}
<1>6. 0 \in S
  BY <1>2
<1>7. ASSUME NEW k \in 0 .. n - 1, k \in S PROVE k + 1 \in S
  <2>1. k + 1 \in 1 .. n /\ k + 1 \in 0 .. n /\ (k + 1) - 1 = k /\ (k = 0 <=> k + 1 = 1)
    BY <1>2
  <2>2. IsText(seqs[k + 1]) /\ Len(seqs[k + 1]) = m
    BY <2>1
  <2>3. flatten[k + 1] = IF k = 0 THEN seqs[k + 1] ELSE flatten[k] \o seqs[k + 1]
    BY <1>5, <2>1
  <2>4. CASE k = 0
    <3>1. IsFlat(seqs[1], 1)
      BY <2>2, <2>4
    <3> QED BY <2>1, <2>3, <2>4, <3>1
  <2>5. CASE k # 0
    <3>1. IsFlat(flatten[k], k) /\ k \in Nat
      BY SMTT(40), <1>7, <2>5
    <3> DEFINE f == flatten[k]
               t == seqs[k + 1]
               u == f \o t
    <3>2. IsText(f) /\ IsText(t) /\ Len(f) = m * k /\ Len(t) = m
      BY <2>2, <3>1
    <3>3. flatten[k + 1] = u
      BY <2>3, <2>5
    <3>4. \A i \in 1 .. k : \A j \in 1 .. m : f[m * (i - 1) + j] = seqs[i][j]
      BY <3>1
    <3> HIDE DEF f, S, IsFlat
    <3>5. /\ IsText(u) /\ Len(u) = Len(f) + Len(t)
          /\ \A i \in 1 .. Len(f) : u[i] = f[i]
          /\ \A j \in 1 .. Len(t) : u[Len(f) + j] = t[j]
      BY SMTT(40), <3>2, Joined
    <3>6. t = seqs[k + 1]
      OBVIOUS
    <3> HIDE DEF u, t
    <3>7. Len(u) = m * (k + 1)
      BY <3>1, <3>2, <3>5
    <3>8. ASSUME NEW i \in 1 .. k + 1, NEW j \in 1 .. m
          PROVE  u[m * (i - 1) + j] = seqs[i][j]
      <4>1. CASE i = k + 1
        <5>1. u[Len(f) + j] = t[j]
          BY <3>2, <3>5
        <5>2. m * (i - 1) + j = Len(f) + j
          BY <3>1, <3>2, <4>1
        <5> QED BY <3>6, <4>1, <5>1, <5>2
      <4>2. CASE i <= k
        <5>1. f[m * (i - 1) + j] = seqs[i][j]
          BY <3>4, <4>2
        <5>2. m * (i - 1) + j \in 1 .. m * k
          <6>1. CASE m = 2
            BY ONLY <3>1, <4>2, <6>1, i \in 1 .. k + 1, j \in 1 .. m
          <6>2. CASE m = 3
            BY ONLY <3>1, <4>2, <6>2, i \in 1 .. k + 1, j \in 1 .. m
          <6> QED BY <6>1, <6>2
        <5>3. u[m * (i - 1) + j] = f[m * (i - 1) + j]
          BY <3>2, <3>5, <5>2
        <5> QED BY <5>1, <5>3
      <4> QED BY <3>1, <4>1, <4>2
    <3>9. IsFlat(u, k + 1)
      BY <3>5, <3>7, <3>8 DEF IsFlat
    <3> QED BY <2>1, <3>3, <3>9 DEF S
  <2> QED BY <2>4, <2>5
<1>8. n \in S
  <2>1. n \in 0 .. n
    BY <1>2
  <2> HIDE DEF S, n
  <2> QED BY <1>2, <1>6, <1>7, <2>1, SetInduction
<1>9. CASE n = 0
  BY <1>1, <1>9
<1>10. CASE n # 0
  <2>1. IsFlat(flatten[n], n)
    BY <1>8, <1>10
  <2> QED BY <1>1, <1>10, <2>1
<1> QED BY <1>9, <1>10

(* A list of one access.                                                   *)
IsAccess(s) == IsText(s) /\ Len(s) = 1

(* Each of the operators for accesses lists one.                           *)
LEMMA AccessIsOne ==
  /\ IsAccess(Status)
  /\ \A v : IsAccess(Attribute(v)) /\ IsAccess(Misc(v)) /\ IsAccess(Memory(v))
  /\ \A g, v : IsAccess(Index(g, v)) /\ IsAccess(Put(g, v)) /\ IsAccess(Save(g, v))
  /\ \A g, b, t : IsAccess(Change(g, b, t))
<1>1. IsAccess(Status)
  BY One DEF Status, IsAccess
<1>2. \A v : IsAccess(Attribute(v)) /\ IsAccess(Misc(v)) /\ IsAccess(Memory(v))
  BY One DEF Attribute, Misc, Memory, IsAccess
<1>3. \A g, v : IsAccess(Index(g, v)) /\ IsAccess(Put(g, v)) /\ IsAccess(Save(g, v))
  BY One DEF Index, Put, Save, IsAccess
<1>4. \A g, b, t : IsAccess(Change(g, b, t))
  BY One DEF Change, IsAccess
<1> QED BY <1>1, <1>2, <1>3, <1>4

(* One access and another.                                                 *)
LEMMA TwoAccesses ==
  ASSUME NEW s, NEW t, IsAccess(s), IsAccess(t)
  PROVE  IsText(s \o t) /\ Len(s \o t) = 2 /\ (s \o t)[1] = s[1] /\ (s \o t)[2] = t[1]
<1> DEFINE u == s \o t
<1>a. IsText(s) /\ IsText(t)
  BY DEF IsAccess
<1>b. Len(s) = 1 /\ Len(t) = 1
  BY DEF IsAccess
<1>1. /\ IsText(u) /\ Len(u) = Len(s) + Len(t)
      /\ \A k \in 1 .. Len(s) : u[k] = s[k]
      /\ \A k \in 1 .. Len(t) : u[Len(s) + k] = t[k]
  BY ONLY <1>a, Joined
<1> HIDE DEF u
<1>2. IsText(u) /\ Len(u) = 2 /\ u[1] = s[1] /\ u[2] = t[1]
  BY <1>b, <1>1
<1> QED BY <1>2 DEF u

(* A list of accesses with one more at its end.                            *)
LEMMA OneMore ==
  ASSUME NEW v, IsText(v), NEW u, IsAccess(u)
  PROVE  /\ IsText(v \o u) /\ Len(v \o u) = Len(v) + 1 /\ (v \o u)[Len(v) + 1] = u[1]
         /\ \A k \in 1 .. Len(v) : (v \o u)[k] = v[k]
<1>1. IsText(u) /\ IsText(v)
  BY DEF IsAccess
<1>2. Len(u) = 1
  BY DEF IsAccess
<1>3. /\ IsText(v \o u) /\ Len(v \o u) = Len(v) + Len(u)
      /\ \A k \in 1 .. Len(v) : (v \o u)[k] = v[k]
      /\ \A k \in 1 .. Len(u) : (v \o u)[Len(v) + k] = u[k]
  BY ONLY <1>1, Joined
<1> QED BY <1>2, <1>3

(* The table of the mode has a value for every register.                   *)
LEMMA ModeLengths ==
  Len(Mode.seq) = 5 /\ Len(Mode.crtc) = 25 /\ Len(Mode.gc) = 9 /\ Len(Mode.ac) = 21
BY DEF Mode

(* All registers of a group: each takes two accesses.                      *)
LEMMA WriteAllIs ==
  ASSUME NEW group \in {"seq", "crtc", "gc"}
  PROVE  /\ IsText(WriteAll(group)) /\ Len(WriteAll(group)) = 2 * Len(Mode[group])
         /\ \A k \in 1 .. Len(Mode[group]) :
              /\ WriteAll(group)[2 * k - 1] = Index(group, k - 1)[1]
              /\ WriteAll(group)[2 * k] = Put(group, Mode[group][k])[1]
<1> DEFINE n == Len(Mode[group])
           seqs == [k \in 1 .. n |-> Index(group, k - 1) \o Put(group, Mode[group][k])]
<1>1. n \in Nat
  BY ModeIsText
<1>2. WriteAll(group) = FlattenSeq(seqs)
  BY DEF WriteAll
<1> HIDE DEF n
<1>3. ASSUME NEW k \in 1 .. n
      PROVE  /\ IsText(seqs[k]) /\ Len(seqs[k]) = 2
             /\ seqs[k][1] = Index(group, k - 1)[1]
             /\ seqs[k][2] = Put(group, Mode[group][k])[1]
  <2> DEFINE i == Index(group, k - 1)
             p == Put(group, Mode[group][k])
  <2>1. IsAccess(i) /\ IsAccess(p)
    BY AccessIsOne
  <2>2. seqs[k] = i \o p
    OBVIOUS
  <2> HIDE DEF seqs, i, p
  <2>3. IsText(i \o p) /\ Len(i \o p) = 2 /\ (i \o p)[1] = i[1] /\ (i \o p)[2] = p[1]
    BY ONLY <2>1, TwoAccesses
  <2> QED BY <2>2, <2>3 DEF i, p
<1>4. seqs = [k \in 1 .. n |-> seqs[k]]
  OBVIOUS
<1> HIDE DEF seqs
<1>5. IsText(seqs) /\ Len(seqs) = n
  BY <1>1, <1>4, FunctionIsText
<1> DEFINE flat == FlattenSeq(seqs)
<1>6. /\ IsText(flat) /\ Len(flat) = 2 * n
      /\ \A i \in 1 .. n : \A j \in 1 .. 2 : flat[2 * (i - 1) + j] = seqs[i][j]
  <2>1. \A i \in 1 .. Len(seqs) : IsText(seqs[i]) /\ Len(seqs[i]) = 2
    BY <1>3, <1>5
  <2>2. /\ IsText(flat) /\ Len(flat) = 2 * Len(seqs)
        /\ \A i \in 1 .. Len(seqs) : \A j \in 1 .. 2 : flat[2 * (i - 1) + j] = seqs[i][j]
    BY ZenonT(40), <1>5, <2>1, FlattenedAt
  <2> QED BY <1>5, <2>2
<1> HIDE DEF flat
<1>7. ASSUME NEW k \in 1 .. n
      PROVE  flat[2 * k - 1] = Index(group, k - 1)[1] /\ flat[2 * k] = Put(group, Mode[group][k])[1]
  <2>1. flat[2 * (k - 1) + 1] = seqs[k][1] /\ flat[2 * (k - 1) + 2] = seqs[k][2]
    BY <1>6
  <2>2. 2 * (k - 1) + 1 = 2 * k - 1 /\ 2 * (k - 1) + 2 = 2 * k
    OBVIOUS
  <2> QED BY <1>3, <2>1, <2>2
<1> QED BY <1>2, <1>6, <1>7 DEF flat, n

(* The registers of the attribute controller: three accesses each.         *)
LEMMA WriteAttributesIs ==
  /\ IsText(WriteAttributes) /\ Len(WriteAttributes) = 63
  /\ \A k \in 1 .. 21 :
       /\ WriteAttributes[3 * k - 2] = Status[1]
       /\ WriteAttributes[3 * k - 1] = Attribute(k - 1)[1]
       /\ WriteAttributes[3 * k] = Attribute(Mode.ac[k])[1]
<1> DEFINE n == Len(Mode.ac)
           seqs == [k \in 1 .. n |-> Status \o Attribute(k - 1) \o Attribute(Mode.ac[k])]
<1>1. n = 21
  BY ModeLengths
<1>2. WriteAttributes = FlattenSeq(seqs)
  BY DEF WriteAttributes
<1> HIDE DEF n
<1>3. ASSUME NEW k \in 1 .. n
      PROVE  /\ IsText(seqs[k]) /\ Len(seqs[k]) = 3
             /\ seqs[k][1] = Status[1]
             /\ seqs[k][2] = Attribute(k - 1)[1]
             /\ seqs[k][3] = Attribute(Mode.ac[k])[1]
  <2> DEFINE i == Attribute(k - 1)
             p == Attribute(Mode.ac[k])
             s == Status
  <2>1. IsAccess(s) /\ IsAccess(i) /\ IsAccess(p)
    BY AccessIsOne
  <2>2. seqs[k] = s \o i \o p
    OBVIOUS
  <2> HIDE DEF seqs, i, p, s
  <2>3. IsText(s \o i) /\ Len(s \o i) = 2 /\ (s \o i)[1] = s[1] /\ (s \o i)[2] = i[1]
    BY ONLY <2>1, TwoAccesses
  <2> DEFINE v == s \o i
  <2>4. IsText(v) /\ Len(v) = 2 /\ v[1] = s[1] /\ v[2] = i[1]
    BY <2>3
  <2>5. seqs[k] = v \o p
    BY <2>2
  <2> HIDE DEF v
  <2>6. IsText(v) /\ IsText(p)
    BY <2>1, <2>4 DEF IsAccess
  <2>7. Len(p) = 1
    BY <2>1 DEF IsAccess
  <2>8. /\ IsText(v \o p) /\ Len(v \o p) = Len(v) + Len(p)
        /\ \A j \in 1 .. Len(v) : (v \o p)[j] = v[j]
        /\ \A j \in 1 .. Len(p) : (v \o p)[Len(v) + j] = p[j]
    BY ONLY <2>6, Joined
  <2> QED BY <2>4, <2>5, <2>7, <2>8 DEF i, p, s
<1>4. seqs = [k \in 1 .. n |-> seqs[k]]
  OBVIOUS
<1> HIDE DEF seqs
<1>5. IsText(seqs) /\ Len(seqs) = n
  BY <1>1, <1>4, FunctionIsText
<1> DEFINE flat == FlattenSeq(seqs)
<1>6. /\ IsText(flat) /\ Len(flat) = 3 * n
      /\ \A i \in 1 .. n : \A j \in 1 .. 3 : flat[3 * (i - 1) + j] = seqs[i][j]
  <2>1. \A i \in 1 .. Len(seqs) : IsText(seqs[i]) /\ Len(seqs[i]) = 3
    BY <1>3, <1>5
  <2>2. /\ IsText(flat) /\ Len(flat) = 3 * Len(seqs)
        /\ \A i \in 1 .. Len(seqs) : \A j \in 1 .. 3 : flat[3 * (i - 1) + j] = seqs[i][j]
    BY SMTT(40), <1>5, <2>1, FlattenedAt
  <2> QED BY <1>5, <2>2
<1> HIDE DEF flat
<1>7. ASSUME NEW k \in 1 .. 21
      PROVE  /\ flat[3 * k - 2] = Status[1]
             /\ flat[3 * k - 1] = Attribute(k - 1)[1]
             /\ flat[3 * k] = Attribute(Mode.ac[k])[1]
  <2>1. /\ flat[3 * (k - 1) + 1] = seqs[k][1] /\ flat[3 * (k - 1) + 2] = seqs[k][2]
        /\ flat[3 * (k - 1) + 3] = seqs[k][3]
    BY <1>1, <1>6
  <2>2. 3 * (k - 1) + 1 = 3 * k - 2 /\ 3 * (k - 1) + 2 = 3 * k - 1 /\ 3 * (k - 1) + 3 = 3 * k
    OBVIOUS
  <2> QED BY <1>1, <1>3, <2>1, <2>2
<1>8. WriteAttributes = flat /\ Len(flat) = 63
  BY <1>1, <1>2, <1>6 DEF flat
<1> QED BY <1>6, <1>7, <1>8

(* restore of a register                                                   *)
Restoring(g, r) == << [op |-> "restore", group |-> g, r |-> r] >>

(* A register is selected, and gets its saved value.                       *)
LEMMA RestoreIs ==
  ASSUME NEW g, NEW r
  PROVE  /\ IsText(Restore(g, r)) /\ Len(Restore(g, r)) = 2
         /\ Restore(g, r)[1] = Index(g, r)[1] /\ Restore(g, r)[2] = Restoring(g, r)[1]
<1> DEFINE s == Index(g, r)
           t == Restoring(g, r)
<1>1. IsAccess(s) /\ IsAccess(t)
  BY AccessIsOne, One DEF Restoring, IsAccess
<1>2. Restore(g, r) = s \o t
  BY DEF Restore, Restoring
<1> HIDE DEF s, t
<1>3. IsText(s \o t) /\ Len(s \o t) = 2 /\ (s \o t)[1] = s[1] /\ (s \o t)[2] = t[1]
  BY ONLY <1>1, TwoAccesses
<1> QED BY <1>2, <1>3 DEF s, t

(* The end of initFont(), access by access.                                *)
LEMMA RestoreRegistersIs ==
  /\ IsText(RestoreRegisters) /\ Len(RestoreRegisters) = 10
  /\ RestoreRegisters[1] = Index("seq", 2)[1] /\ RestoreRegisters[2] = Restoring("seq", 2)[1]
  /\ RestoreRegisters[3] = Index("seq", 4)[1] /\ RestoreRegisters[4] = Restoring("seq", 4)[1]
  /\ RestoreRegisters[5] = Index("gc", 4)[1] /\ RestoreRegisters[6] = Restoring("gc", 4)[1]
  /\ RestoreRegisters[7] = Index("gc", 5)[1] /\ RestoreRegisters[8] = Restoring("gc", 5)[1]
  /\ RestoreRegisters[9] = Index("gc", 6)[1] /\ RestoreRegisters[10] = Restoring("gc", 6)[1]
<1> DEFINE r1 == Restore("seq", 2)
           p2 == Restore("seq", 4)
           p3 == Restore("gc", 4)
           p4 == Restore("gc", 5)
           p5 == Restore("gc", 6)
<1>1. IsText(r1) /\ Len(r1) = 2 /\ r1[1] = Index("seq", 2)[1] /\ r1[2] = Restoring("seq", 2)[1]
  BY RestoreIs
<1>a2. IsText(p2) /\ Len(p2) = 2 /\ p2[1] = Index("seq", 4)[1] /\ p2[2] = Restoring("seq", 4)[1]
  BY RestoreIs
<1>a3. IsText(p3) /\ Len(p3) = 2 /\ p3[1] = Index("gc", 4)[1] /\ p3[2] = Restoring("gc", 4)[1]
  BY RestoreIs
<1>a4. IsText(p4) /\ Len(p4) = 2 /\ p4[1] = Index("gc", 5)[1] /\ p4[2] = Restoring("gc", 5)[1]
  BY RestoreIs
<1>a5. IsText(p5) /\ Len(p5) = 2 /\ p5[1] = Index("gc", 6)[1] /\ p5[2] = Restoring("gc", 6)[1]
  BY RestoreIs
<1> HIDE DEF r1, p2, p3, p4, p5
<1> DEFINE r2 == r1 \o p2
<1>b2. IsText(r1) /\ IsText(p2)
  BY <1>1, <1>a2
<1>2. /\ IsText(r2) /\ Len(r2) = Len(r1) + Len(p2)
      /\ \A k \in 1 .. Len(r1) : r2[k] = r1[k]
      /\ \A k \in 1 .. Len(p2) : r2[Len(r1) + k] = p2[k]
  BY ONLY <1>b2, Joined
<1> HIDE DEF r2
<1> DEFINE r3 == r2 \o p3
<1>b3. IsText(r2) /\ IsText(p3)
  BY <1>2, <1>a3
<1>3. /\ IsText(r3) /\ Len(r3) = Len(r2) + Len(p3)
      /\ \A k \in 1 .. Len(r2) : r3[k] = r2[k]
      /\ \A k \in 1 .. Len(p3) : r3[Len(r2) + k] = p3[k]
  BY ONLY <1>b3, Joined
<1> HIDE DEF r3
<1> DEFINE r4 == r3 \o p4
<1>b4. IsText(r3) /\ IsText(p4)
  BY <1>3, <1>a4
<1>4. /\ IsText(r4) /\ Len(r4) = Len(r3) + Len(p4)
      /\ \A k \in 1 .. Len(r3) : r4[k] = r3[k]
      /\ \A k \in 1 .. Len(p4) : r4[Len(r3) + k] = p4[k]
  BY ONLY <1>b4, Joined
<1> HIDE DEF r4
<1> DEFINE r5 == r4 \o p5
<1>b5. IsText(r4) /\ IsText(p5)
  BY <1>4, <1>a5
<1>5. /\ IsText(r5) /\ Len(r5) = Len(r4) + Len(p5)
      /\ \A k \in 1 .. Len(r4) : r5[k] = r4[k]
      /\ \A k \in 1 .. Len(p5) : r5[Len(r4) + k] = p5[k]
  BY ONLY <1>b5, Joined
<1> HIDE DEF r5
<1>6. RestoreRegisters = r5
  BY DEF RestoreRegisters, r1, p2, r2, p3, r3, p4, r4, p5, r5
<1> QED BY <1>1, <1>2, <1>3, <1>4, <1>5, <1>6, <1>a2, <1>a3, <1>a4, <1>a5

(* initFont(), access by access.                                           *)
LEMMA InitFontIs ==
  /\ IsText(InitFont) /\ Len(InitFont) = 26
  /\ InitFont[1] = Index("seq", 4)[1] /\ InitFont[2] = Save("seq", 4)[1]
  /\ InitFont[3] = Change("seq", 2, TRUE)[1] /\ InitFont[4] = Index("gc", 5)[1]
  /\ InitFont[5] = Save("gc", 5)[1] /\ InitFont[6] = Change("gc", 4, FALSE)[1]
  /\ InitFont[7] = Index("gc", 6)[1] /\ InitFont[8] = Save("gc", 6)[1]
  /\ InitFont[9] = Change("gc", 1, FALSE)[1] /\ InitFont[10] = Index("gc", 4)[1]
  /\ InitFont[11] = Save("gc", 4)[1] /\ InitFont[12] = Put("gc", 2)[1]
  /\ InitFont[13] = Index("seq", 2)[1] /\ InitFont[14] = Save("seq", 2)[1]
  /\ InitFont[15] = Put("seq", BitSet(0, 2))[1] /\ InitFont[16] = Memory("8x8")[1]
  /\ InitFont[17] = Index("seq", 2)[1] /\ InitFont[18] = Restoring("seq", 2)[1]
  /\ InitFont[19] = Index("seq", 4)[1] /\ InitFont[20] = Restoring("seq", 4)[1]
  /\ InitFont[21] = Index("gc", 4)[1] /\ InitFont[22] = Restoring("gc", 4)[1]
  /\ InitFont[23] = Index("gc", 5)[1] /\ InitFont[24] = Restoring("gc", 5)[1]
  /\ InitFont[25] = Index("gc", 6)[1] /\ InitFont[26] = Restoring("gc", 6)[1]
<1> DEFINE a1 == Index("seq", 4)
           a2 == Save("seq", 4)
           a3 == Change("seq", 2, TRUE)
           a4 == Index("gc", 5)
           a5 == Save("gc", 5)
           a6 == Change("gc", 4, FALSE)
           a7 == Index("gc", 6)
           a8 == Save("gc", 6)
           a9 == Change("gc", 1, FALSE)
           a10 == Index("gc", 4)
           a11 == Save("gc", 4)
           a12 == Put("gc", 2)
           a13 == Index("seq", 2)
           a14 == Save("seq", 2)
           a15 == Put("seq", BitSet(0, 2))
           a16 == Memory("8x8")
           q1 == a1
<1>a. /\ IsAccess(a1) /\ IsAccess(a2) /\ IsAccess(a3) /\ IsAccess(a4)
      /\ IsAccess(a5) /\ IsAccess(a6) /\ IsAccess(a7) /\ IsAccess(a8)
      /\ IsAccess(a9) /\ IsAccess(a10) /\ IsAccess(a11) /\ IsAccess(a12)
      /\ IsAccess(a13) /\ IsAccess(a14) /\ IsAccess(a15) /\ IsAccess(a16)
  BY AccessIsOne
<1>1. IsText(q1) /\ Len(q1) = 1 /\ q1[1] = a1[1]
  BY <1>a DEF IsAccess
<1> HIDE DEF q1, a1, a2, a3, a4, a5, a6, a7, a8,
            a9, a10, a11, a12, a13, a14, a15, a16
<1> DEFINE q2 == q1 \o a2
<1>2. /\ IsText(q2) /\ Len(q2) = Len(q1) + 1 /\ q2[Len(q1) + 1] = a2[1]
      /\ \A k \in 1 .. Len(q1) : q2[k] = q1[k]
  <2>1. IsText(q1) /\ IsAccess(a2)
    BY <1>a, <1>1
  <2> QED BY ONLY <2>1, OneMore
<1> HIDE DEF q2
<1> DEFINE q3 == q2 \o a3
<1>3. /\ IsText(q3) /\ Len(q3) = Len(q2) + 1 /\ q3[Len(q2) + 1] = a3[1]
      /\ \A k \in 1 .. Len(q2) : q3[k] = q2[k]
  <2>1. IsText(q2) /\ IsAccess(a3)
    BY <1>a, <1>2
  <2> QED BY ONLY <2>1, OneMore
<1> HIDE DEF q3
<1> DEFINE q4 == q3 \o a4
<1>4. /\ IsText(q4) /\ Len(q4) = Len(q3) + 1 /\ q4[Len(q3) + 1] = a4[1]
      /\ \A k \in 1 .. Len(q3) : q4[k] = q3[k]
  <2>1. IsText(q3) /\ IsAccess(a4)
    BY <1>a, <1>3
  <2> QED BY ONLY <2>1, OneMore
<1> HIDE DEF q4
<1> DEFINE q5 == q4 \o a5
<1>5. /\ IsText(q5) /\ Len(q5) = Len(q4) + 1 /\ q5[Len(q4) + 1] = a5[1]
      /\ \A k \in 1 .. Len(q4) : q5[k] = q4[k]
  <2>1. IsText(q4) /\ IsAccess(a5)
    BY <1>a, <1>4
  <2> QED BY ONLY <2>1, OneMore
<1> HIDE DEF q5
<1> DEFINE q6 == q5 \o a6
<1>6. /\ IsText(q6) /\ Len(q6) = Len(q5) + 1 /\ q6[Len(q5) + 1] = a6[1]
      /\ \A k \in 1 .. Len(q5) : q6[k] = q5[k]
  <2>1. IsText(q5) /\ IsAccess(a6)
    BY <1>a, <1>5
  <2> QED BY ONLY <2>1, OneMore
<1> HIDE DEF q6
<1> DEFINE q7 == q6 \o a7
<1>7. /\ IsText(q7) /\ Len(q7) = Len(q6) + 1 /\ q7[Len(q6) + 1] = a7[1]
      /\ \A k \in 1 .. Len(q6) : q7[k] = q6[k]
  <2>1. IsText(q6) /\ IsAccess(a7)
    BY <1>a, <1>6
  <2> QED BY ONLY <2>1, OneMore
<1> HIDE DEF q7
<1> DEFINE q8 == q7 \o a8
<1>8. /\ IsText(q8) /\ Len(q8) = Len(q7) + 1 /\ q8[Len(q7) + 1] = a8[1]
      /\ \A k \in 1 .. Len(q7) : q8[k] = q7[k]
  <2>1. IsText(q7) /\ IsAccess(a8)
    BY <1>a, <1>7
  <2> QED BY ONLY <2>1, OneMore
<1> HIDE DEF q8
<1> DEFINE q9 == q8 \o a9
<1>9. /\ IsText(q9) /\ Len(q9) = Len(q8) + 1 /\ q9[Len(q8) + 1] = a9[1]
      /\ \A k \in 1 .. Len(q8) : q9[k] = q8[k]
  <2>1. IsText(q8) /\ IsAccess(a9)
    BY <1>a, <1>8
  <2> QED BY ONLY <2>1, OneMore
<1> HIDE DEF q9
<1> DEFINE q10 == q9 \o a10
<1>10. /\ IsText(q10) /\ Len(q10) = Len(q9) + 1 /\ q10[Len(q9) + 1] = a10[1]
      /\ \A k \in 1 .. Len(q9) : q10[k] = q9[k]
  <2>1. IsText(q9) /\ IsAccess(a10)
    BY <1>a, <1>9
  <2> QED BY ONLY <2>1, OneMore
<1> HIDE DEF q10
<1> DEFINE q11 == q10 \o a11
<1>11. /\ IsText(q11) /\ Len(q11) = Len(q10) + 1 /\ q11[Len(q10) + 1] = a11[1]
      /\ \A k \in 1 .. Len(q10) : q11[k] = q10[k]
  <2>1. IsText(q10) /\ IsAccess(a11)
    BY <1>a, <1>10
  <2> QED BY ONLY <2>1, OneMore
<1> HIDE DEF q11
<1> DEFINE q12 == q11 \o a12
<1>12. /\ IsText(q12) /\ Len(q12) = Len(q11) + 1 /\ q12[Len(q11) + 1] = a12[1]
      /\ \A k \in 1 .. Len(q11) : q12[k] = q11[k]
  <2>1. IsText(q11) /\ IsAccess(a12)
    BY <1>a, <1>11
  <2> QED BY ONLY <2>1, OneMore
<1> HIDE DEF q12
<1> DEFINE q13 == q12 \o a13
<1>13. /\ IsText(q13) /\ Len(q13) = Len(q12) + 1 /\ q13[Len(q12) + 1] = a13[1]
      /\ \A k \in 1 .. Len(q12) : q13[k] = q12[k]
  <2>1. IsText(q12) /\ IsAccess(a13)
    BY <1>a, <1>12
  <2> QED BY ONLY <2>1, OneMore
<1> HIDE DEF q13
<1> DEFINE q14 == q13 \o a14
<1>14. /\ IsText(q14) /\ Len(q14) = Len(q13) + 1 /\ q14[Len(q13) + 1] = a14[1]
      /\ \A k \in 1 .. Len(q13) : q14[k] = q13[k]
  <2>1. IsText(q13) /\ IsAccess(a14)
    BY <1>a, <1>13
  <2> QED BY ONLY <2>1, OneMore
<1> HIDE DEF q14
<1> DEFINE q15 == q14 \o a15
<1>15. /\ IsText(q15) /\ Len(q15) = Len(q14) + 1 /\ q15[Len(q14) + 1] = a15[1]
      /\ \A k \in 1 .. Len(q14) : q15[k] = q14[k]
  <2>1. IsText(q14) /\ IsAccess(a15)
    BY <1>a, <1>14
  <2> QED BY ONLY <2>1, OneMore
<1> HIDE DEF q15
<1> DEFINE q16 == q15 \o a16
<1>16. /\ IsText(q16) /\ Len(q16) = Len(q15) + 1 /\ q16[Len(q15) + 1] = a16[1]
      /\ \A k \in 1 .. Len(q15) : q16[k] = q15[k]
  <2>1. IsText(q15) /\ IsAccess(a16)
    BY <1>a, <1>15
  <2> QED BY ONLY <2>1, OneMore
<1> HIDE DEF q16
<1>b. /\ Len(q1) = 1 /\ Len(q2) = 2 /\ Len(q3) = 3 /\ Len(q4) = 4
      /\ Len(q5) = 5 /\ Len(q6) = 6 /\ Len(q7) = 7 /\ Len(q8) = 8
      /\ Len(q9) = 9 /\ Len(q10) = 10 /\ Len(q11) = 11 /\ Len(q12) = 12
      /\ Len(q13) = 13 /\ Len(q14) = 14 /\ Len(q15) = 15 /\ Len(q16) = 16
  BY <1>1, <1>2, <1>3, <1>4, <1>5, <1>6, <1>7, <1>8, <1>9, <1>10, <1>11, <1>12, <1>13,
     <1>14, <1>15, <1>16
<1>c. /\ q16[1] = a1[1] /\ q16[2] = a2[1] /\ q16[3] = a3[1] /\ q16[4] = a4[1]
      /\ q16[5] = a5[1] /\ q16[6] = a6[1] /\ q16[7] = a7[1] /\ q16[8] = a8[1]
      /\ q16[9] = a9[1] /\ q16[10] = a10[1] /\ q16[11] = a11[1] /\ q16[12] = a12[1]
      /\ q16[13] = a13[1] /\ q16[14] = a14[1] /\ q16[15] = a15[1] /\ q16[16] = a16[1]
  BY <1>b, <1>1, <1>2, <1>3, <1>4, <1>5, <1>6, <1>7, <1>8, <1>9, <1>10, <1>11, <1>12, <1>13,
     <1>14, <1>15, <1>16
<1> DEFINE t == RestoreRegisters
           q17 == q16 \o t
<1>17. IsText(t) /\ Len(t) = 10
  BY RestoreRegistersIs
<1> HIDE DEF t
<1>e. IsText(q16) /\ IsText(t)
  BY <1>16, <1>17
<1>18. /\ IsText(q17) /\ Len(q17) = Len(q16) + Len(t)
       /\ \A k \in 1 .. Len(q16) : q17[k] = q16[k]
       /\ \A k \in 1 .. Len(t) : q17[Len(q16) + k] = t[k]
  BY ONLY <1>e, Joined
<1>d. InitFont = q17
  BY DEF InitFont, t, q17, q1, q2, q3, q4, q5, q6, q7, q8, q9, q10, q11, q12, q13, q14, q15, q16,
            a1, a2, a3, a4, a5, a6, a7, a8,
            a9, a10, a11, a12, a13, a14, a15, a16
<1> HIDE DEF q17
<1>19. /\ IsText(q17) /\ Len(q17) = 26
       /\ \A k \in 1 .. 16 : q17[k] = q16[k]
       /\ \A k \in 1 .. 10 : q17[16 + k] = t[k]
  BY <1>b, <1>17, <1>18
<1>20. /\ q17[1] = a1[1] /\ q17[2] = a2[1] /\ q17[3] = a3[1] /\ q17[4] = a4[1]
       /\ q17[5] = a5[1] /\ q17[6] = a6[1] /\ q17[7] = a7[1] /\ q17[8] = a8[1]
       /\ q17[9] = a9[1] /\ q17[10] = a10[1] /\ q17[11] = a11[1] /\ q17[12] = a12[1]
       /\ q17[13] = a13[1] /\ q17[14] = a14[1] /\ q17[15] = a15[1] /\ q17[16] = a16[1]
  BY <1>c, <1>19
<1>21. /\ q17[17] = t[1] /\ q17[18] = t[2] /\ q17[19] = t[3] /\ q17[20] = t[4]
       /\ q17[21] = t[5] /\ q17[22] = t[6] /\ q17[23] = t[7] /\ q17[24] = t[8]
       /\ q17[25] = t[9] /\ q17[26] = t[10]
  BY <1>19
<1> QED BY <1>d, <1>19, <1>20, <1>21, RestoreRegistersIs DEF t, a1, a2, a3, a4, a5, a6, a7, a8,
            a9, a10, a11, a12, a13, a14, a15, a16

(* The unlocking of the CRT controller, access by access.                  *)
LEMMA UnlockCrtcIs ==
  /\ IsText(UnlockCrtc) /\ Len(UnlockCrtc) = 4
  /\ UnlockCrtc[1] = Index("crtc", 3)[1] /\ UnlockCrtc[2] = Change("crtc", 7, TRUE)[1]
  /\ UnlockCrtc[3] = Index("crtc", 17)[1] /\ UnlockCrtc[4] = Change("crtc", 7, FALSE)[1]
<1> DEFINE a == Index("crtc", 3)
           b == Change("crtc", 7, TRUE)
           c == Index("crtc", 17)
           d == Change("crtc", 7, FALSE)
           s == a \o b
<1>a. IsAccess(a) /\ IsAccess(b) /\ IsAccess(c) /\ IsAccess(d)
  BY AccessIsOne
<1> HIDE DEF a, b, c, d
<1>1. IsText(s) /\ Len(s) = 2 /\ s[1] = a[1] /\ s[2] = b[1]
  BY <1>a, TwoAccesses
<1> HIDE DEF s
<1> DEFINE t == s \o c
<1>2. /\ IsText(t) /\ Len(t) = Len(s) + 1 /\ t[Len(s) + 1] = c[1]
      /\ \A k \in 1 .. Len(s) : t[k] = s[k]
  BY ZenonT(40), <1>a, <1>1, OneMore
<1> HIDE DEF t
<1> DEFINE u == t \o d
<1>3. /\ IsText(u) /\ Len(u) = Len(t) + 1 /\ u[Len(t) + 1] = d[1]
      /\ \A k \in 1 .. Len(t) : u[k] = t[k]
  BY ZenonT(40), <1>a, <1>2, OneMore
<1>4. UnlockCrtc = u
  BY DEF UnlockCrtc, u, t, s, a, b, c, d
<1> HIDE DEF u
<1>5. IsText(u) /\ Len(u) = 4 /\ u[1] = a[1] /\ u[2] = b[1] /\ u[3] = c[1] /\ u[4] = d[1]
  BY <1>1, <1>2, <1>3
<1> QED BY <1>4, <1>5 DEF a, b, c, d

(* Lists of known lengths one after the other.                             *)
AreJoined(list, s, t, m, n) ==
  /\ IsText(list) /\ Len(list) = m + n
  /\ \A k \in 1 .. m : list[k] = s[k]
  /\ \A k \in 1 .. n : list[m + k] = t[k]

(* Both lists are found in the whole.                                      *)
LEMMA JoinedParts ==
  ASSUME NEW s, NEW t, IsText(s), IsText(t)
  PROVE  AreJoined(s \o t, s, t, Len(s), Len(t))
<1>1. IsText(s) /\ IsText(t)
  OBVIOUS
<1>2. /\ IsText(s \o t) /\ Len(s \o t) = Len(s) + Len(t)
      /\ \A k \in 1 .. Len(s) : (s \o t)[k] = s[k]
      /\ \A k \in 1 .. Len(t) : (s \o t)[Len(s) + k] = t[k]
  BY ONLY <1>1, Joined
<1> QED BY ONLY <1>2 DEF AreJoined

(* KernelDisplay_reset(), access by access.                                *)
LEMMA ResetParts ==
  /\ Len(Reset) = 177 /\ IsText(Reset)
  /\ Reset[1] = Status[1] /\ Reset[2] = Attribute(0)[1] /\ Reset[3] = Misc(Mode.misc)[1]
  /\ \A k \in 1 .. 10 : Reset[3 + k] = WriteAll("seq")[k]
  /\ \A k \in 1 .. 4 : Reset[13 + k] = UnlockCrtc[k]
  /\ \A k \in 1 .. 50 : Reset[17 + k] = WriteAll("crtc")[k]
  /\ \A k \in 1 .. 18 : Reset[67 + k] = WriteAll("gc")[k]
  /\ \A k \in 1 .. 63 : Reset[85 + k] = WriteAttributes[k]
  /\ \A k \in 1 .. 26 : Reset[148 + k] = InitFont[k]
  /\ Reset[175] = Memory("cleared")[1]
  /\ Reset[176] = Status[1] /\ Reset[177] = Attribute(32)[1]
<1> DEFINE a1 == BlankScreen
           a2 == Misc(Mode.misc)
           a3 == WriteAll("seq")
           a4 == UnlockCrtc
           a5 == WriteAll("crtc")
           a6 == WriteAll("gc")
           a7 == WriteAttributes
           a8 == InitFont
           a9 == Memory("cleared")
           a10 == UnblankScreen
           q1 == a1
<1>s. IsAccess(Status) /\ IsAccess(Attribute(0)) /\ IsAccess(Attribute(32))
  BY AccessIsOne
<1>a1. IsText(a1) /\ Len(a1) = 2 /\ a1[1] = Status[1] /\ a1[2] = Attribute(0)[1]
  BY <1>s, TwoAccesses DEF BlankScreen
<1>a2. IsText(a2) /\ Len(a2) = 1
  BY AccessIsOne DEF IsAccess
<1>a3. IsText(a3) /\ Len(a3) = 10
  <2>1. IsText(WriteAll("seq")) /\ Len(WriteAll("seq")) = 2 * Len(Mode["seq"])
    BY WriteAllIs
  <2>2. Len(Mode["seq"]) = 5
    BY ModeLengths
  <2> QED BY <2>1, <2>2
<1>a4. IsText(a4) /\ Len(a4) = 4
  BY UnlockCrtcIs
<1>a5. IsText(a5) /\ Len(a5) = 50
  <2>1. IsText(WriteAll("crtc")) /\ Len(WriteAll("crtc")) = 2 * Len(Mode["crtc"])
    BY WriteAllIs
  <2>2. Len(Mode["crtc"]) = 25
    BY ModeLengths
  <2> QED BY <2>1, <2>2
<1>a6. IsText(a6) /\ Len(a6) = 18
  <2>1. IsText(WriteAll("gc")) /\ Len(WriteAll("gc")) = 2 * Len(Mode["gc"])
    BY WriteAllIs
  <2>2. Len(Mode["gc"]) = 9
    BY ModeLengths
  <2> QED BY <2>1, <2>2
<1>a7. IsText(a7) /\ Len(a7) = 63
  BY WriteAttributesIs
<1>a8. IsText(a8) /\ Len(a8) = 26
  BY InitFontIs
<1>a9. IsText(a9) /\ Len(a9) = 1
  BY AccessIsOne DEF IsAccess
<1>a10. IsText(a10) /\ Len(a10) = 2 /\ a10[1] = Status[1] /\ a10[2] = Attribute(32)[1]
  BY <1>s, TwoAccesses DEF UnblankScreen
<1>1. IsText(q1) /\ Len(q1) = 2
  BY <1>a1
<1> HIDE DEF q1, a1, a2, a3, a4, a5, a6, a7, a8, a9, a10
<1> DEFINE q2 == q1 \o a2
<1>c2. IsText(q1) /\ Len(q1) = 2
  BY <1>1
<1>b2. IsText(q1) /\ IsText(a2)
  BY <1>c2, <1>a2
<1>e2. AreJoined(q2, q1, a2, Len(q1), Len(a2))
  BY ONLY <1>b2, JoinedParts, Zenon
<1> HIDE DEF q2
<1>2. AreJoined(q2, q1, a2, 2, 1)
  BY ONLY <1>c2, <1>a2, <1>e2
<1> DEFINE q3 == q2 \o a3
<1>c3. IsText(q2) /\ Len(q2) = 3
  BY <1>2 DEF AreJoined
<1>b3. IsText(q2) /\ IsText(a3)
  BY <1>c3, <1>a3
<1>e3. AreJoined(q3, q2, a3, Len(q2), Len(a3))
  BY ONLY <1>b3, JoinedParts, Zenon
<1> HIDE DEF q3
<1>3. AreJoined(q3, q2, a3, 3, 10)
  BY ONLY <1>c3, <1>a3, <1>e3
<1> DEFINE q4 == q3 \o a4
<1>c4. IsText(q3) /\ Len(q3) = 13
  BY <1>3 DEF AreJoined
<1>b4. IsText(q3) /\ IsText(a4)
  BY <1>c4, <1>a4
<1>e4. AreJoined(q4, q3, a4, Len(q3), Len(a4))
  BY ONLY <1>b4, JoinedParts, Zenon
<1> HIDE DEF q4
<1>4. AreJoined(q4, q3, a4, 13, 4)
  BY ONLY <1>c4, <1>a4, <1>e4
<1> DEFINE q5 == q4 \o a5
<1>c5. IsText(q4) /\ Len(q4) = 17
  BY <1>4 DEF AreJoined
<1>b5. IsText(q4) /\ IsText(a5)
  BY <1>c5, <1>a5
<1>e5. AreJoined(q5, q4, a5, Len(q4), Len(a5))
  BY ONLY <1>b5, JoinedParts, Zenon
<1> HIDE DEF q5
<1>5. AreJoined(q5, q4, a5, 17, 50)
  BY ONLY <1>c5, <1>a5, <1>e5
<1> DEFINE q6 == q5 \o a6
<1>c6. IsText(q5) /\ Len(q5) = 67
  BY <1>5 DEF AreJoined
<1>b6. IsText(q5) /\ IsText(a6)
  BY <1>c6, <1>a6
<1>e6. AreJoined(q6, q5, a6, Len(q5), Len(a6))
  BY ONLY <1>b6, JoinedParts, Zenon
<1> HIDE DEF q6
<1>6. AreJoined(q6, q5, a6, 67, 18)
  BY ONLY <1>c6, <1>a6, <1>e6
<1> DEFINE q7 == q6 \o a7
<1>c7. IsText(q6) /\ Len(q6) = 85
  BY <1>6 DEF AreJoined
<1>b7. IsText(q6) /\ IsText(a7)
  BY <1>c7, <1>a7
<1>e7. AreJoined(q7, q6, a7, Len(q6), Len(a7))
  BY ONLY <1>b7, JoinedParts, Zenon
<1> HIDE DEF q7
<1>7. AreJoined(q7, q6, a7, 85, 63)
  BY ONLY <1>c7, <1>a7, <1>e7
<1> DEFINE q8 == q7 \o a8
<1>c8. IsText(q7) /\ Len(q7) = 148
  BY <1>7 DEF AreJoined
<1>b8. IsText(q7) /\ IsText(a8)
  BY <1>c8, <1>a8
<1>e8. AreJoined(q8, q7, a8, Len(q7), Len(a8))
  BY ONLY <1>b8, JoinedParts, Zenon
<1> HIDE DEF q8
<1>8. AreJoined(q8, q7, a8, 148, 26)
  BY ONLY <1>c8, <1>a8, <1>e8
<1> DEFINE q9 == q8 \o a9
<1>c9. IsText(q8) /\ Len(q8) = 174
  BY <1>8 DEF AreJoined
<1>b9. IsText(q8) /\ IsText(a9)
  BY <1>c9, <1>a9
<1>e9. AreJoined(q9, q8, a9, Len(q8), Len(a9))
  BY ONLY <1>b9, JoinedParts, Zenon
<1> HIDE DEF q9
<1>9. AreJoined(q9, q8, a9, 174, 1)
  BY ONLY <1>c9, <1>a9, <1>e9
<1> DEFINE q10 == q9 \o a10
<1>c10. IsText(q9) /\ Len(q9) = 175
  BY <1>9 DEF AreJoined
<1>b10. IsText(q9) /\ IsText(a10)
  BY <1>c10, <1>a10
<1>e10. AreJoined(q10, q9, a10, Len(q9), Len(a10))
  BY ONLY <1>b10, JoinedParts, Zenon
<1> HIDE DEF q10
<1>10. AreJoined(q10, q9, a10, 175, 2)
  BY ONLY <1>c10, <1>a10, <1>e10
<1>11. Reset = q10
  BY DEF Reset, SwitchToPreferredVideoMode, q1, q2, q3, q4, q5, q6, q7, q8, q9, q10,
         a1, a2, a3, a4, a5, a6, a7, a8, a9, a10
<1>f9. \A k \in 1 .. 175 : q10[k] = q9[k]
  BY <1>10 DEF AreJoined
<1>f8. \A k \in 1 .. 174 : q10[k] = q8[k]
  BY <1>f9, <1>9 DEF AreJoined
<1>f7. \A k \in 1 .. 148 : q10[k] = q7[k]
  BY <1>f8, <1>8 DEF AreJoined
<1>f6. \A k \in 1 .. 85 : q10[k] = q6[k]
  BY <1>f7, <1>7 DEF AreJoined
<1>f5. \A k \in 1 .. 67 : q10[k] = q5[k]
  BY <1>f6, <1>6 DEF AreJoined
<1>f4. \A k \in 1 .. 17 : q10[k] = q4[k]
  BY <1>f5, <1>5 DEF AreJoined
<1>f3. \A k \in 1 .. 13 : q10[k] = q3[k]
  BY <1>f4, <1>4 DEF AreJoined
<1>f2. \A k \in 1 .. 3 : q10[k] = q2[k]
  BY <1>f3, <1>3 DEF AreJoined
<1>f1. \A k \in 1 .. 2 : q10[k] = q1[k]
  BY <1>f2, <1>2 DEF AreJoined
<1>d1. \A k \in 1 .. 2 : q10[k] = a1[k]
  BY <1>f1 DEF q1
<1>d2. \A k \in 1 .. 1 : q10[2 + k] = a2[k]
  BY <1>f2, <1>2 DEF AreJoined
<1>d3. \A k \in 1 .. 10 : q10[3 + k] = a3[k]
  BY <1>f3, <1>3 DEF AreJoined
<1>d4. \A k \in 1 .. 4 : q10[13 + k] = a4[k]
  BY <1>f4, <1>4 DEF AreJoined
<1>d5. \A k \in 1 .. 50 : q10[17 + k] = a5[k]
  BY <1>f5, <1>5 DEF AreJoined
<1>d6. \A k \in 1 .. 18 : q10[67 + k] = a6[k]
  BY <1>f6, <1>6 DEF AreJoined
<1>d7. \A k \in 1 .. 63 : q10[85 + k] = a7[k]
  BY <1>f7, <1>7 DEF AreJoined
<1>d8. \A k \in 1 .. 26 : q10[148 + k] = a8[k]
  BY <1>f8, <1>8 DEF AreJoined
<1>d9. \A k \in 1 .. 1 : q10[174 + k] = a9[k]
  BY <1>f9, <1>9 DEF AreJoined
<1>d10. \A k \in 1 .. 2 : q10[175 + k] = a10[k]
  BY <1>10 DEF AreJoined
<1> QED BY <1>10, <1>11, <1>d1, <1>d2, <1>d3, <1>d4, <1>d5, <1>d6, <1>d7, <1>d8, <1>d9, <1>d10,
           <1>a1, <1>a10 DEF a2, a3, a4, a5, a6, a7, a8, a9, AreJoined

(* The screen is cleared by the last access but two.                       *)
ClearedAt == 175

(* What follows only shows the picture.                                    *)
LEMMA ClearsBeforeUnblank ==
  /\ ClearedAt \in Nat /\ ClearedAt > 0
  /\ Len(Reset) = ClearedAt + 2 /\ Reset[ClearedAt] = Memory("cleared")[1]
BY ResetParts DEF ClearedAt
-----------------------------------------------------------------------------
(* The invariant of display and stream: from the access on that clears the *)
(* screen, it shows the paper.                                             *)
ScreenInv ==
  /\ IsDisplay(display) /\ IsText(buffer) /\ Len(buffer) <= BufferSize
  /\ access \in 0 .. Len(Reset)
  /\ access < Len(Reset) => buffer = << >> /\ result # "running"
  /\ ClearedAt <= access => \E lost \in Nat : Shows(display, paper, buffer, lost)

(* The invariant of the writer and what it has sent.                       *)
WriterInv == writer = NewWriter /\ formatSpec \in FormatSpecs /\ IsText(output)

OutInv == ScreenInv /\ WriterInv

(* Where something was written off the screen, and why.                    *)
OffScreenStep ==
  (\E i \in VideoMemory \ Cells : display.memory[i] # display'.memory[i]) =>
    \/ Len(buffer) + Len(output') - Len(output) > MaxChars - Columns
    \/ Len(paper') - Len(paper) > MaxChars - Columns

(* The settings that a call begins with are settings.                      *)
LEMMA WriterIs ==
  /\ IsWriter(NewWriter) /\ NewFormatSpec \in FormatSpecs
<1>1. NewWriter.width = 0
  BY DEF NewWriter
<1> QED BY <1>1 DEF IsWriter, NewFormatSpec, FormatSpecs, Types

(* The invariant holds in the beginning, when nothing is shown yet.        *)
LEMMA InitEstablishes == Init => OutInv
<1> SUFFICES ASSUME Init PROVE OutInv
  OBVIOUS
<1>1. IsDisplay(display)
  <2>1. 0 \in 0 .. Rows - 1 /\ 0 \in 0 .. Columns - 1
    BY Screen
  <2> DEFINE m == [i \in VideoMemory |-> <<"?", << >> >>]
  <2>2. DOMAIN m = VideoMemory
    OBVIOUS
  <2>3. display = [backgroundColor |-> "BLACK", foregroundColor |-> "BLACK",
                   column |-> 0, row |-> 0, memory |-> m]
    BY DEF Init
  <2> HIDE DEF m
  <2> QED BY <2>1, <2>2, <2>3 DEF IsDisplay
<1>2. IsText(<< >>) /\ Len(<< >>) = 0
  BY EmptySeq, SeqIsText
<1>3. Len(<< >>) <= BufferSize
  BY <1>2, OutputAssumption
<1>4. access \in 0 .. Len(Reset) /\ ~ (ClearedAt <= access)
  BY ClearsBeforeUnblank DEF Init
<1>5. buffer = << >> /\ output = << >> /\ result # "running"
  BY DEF Init
<1>6. ScreenInv
  BY <1>1, <1>2, <1>3, <1>4, <1>5 DEF ScreenInv
<1>7. WriterInv
  BY <1>2, <1>5, WriterIs DEF WriterInv, Init
<1> QED BY <1>6, <1>7 DEF OutInv

(* A step that sends characters to the stream.                             *)
LEMMA SendStep ==
  ASSUME OutInv, access = Len(Reset), NEW chars, IsText(chars), Send(chars),
         UNCHANGED access
  PROVE  /\ ScreenInv' /\ IsText(output)' /\ OffScreenStep
<1> DEFINE after == StreamWriteAll(Stream, chars)
<1>1. /\ buffer' = after.buffer /\ display' = after.display /\ paper' = after.paper
      /\ output' = output \o chars
  BY DEF Send
<1>2. ClearedAt <= access /\ ClearedAt \in Nat /\ Len(Reset) \in Nat
  BY ClearsBeforeUnblank
<1>3. PICK lost \in Nat : Shows(display, paper, buffer, lost)
  BY <1>2 DEF OutInv, ScreenInv
<1>4. IsStream(Stream) /\ Stream.buffer = buffer /\ Stream.display = display
  BY <1>3, StreamIs DEF OutInv, ScreenInv, Stream
<1>5. Len(chars) \in Nat /\ IsText(output) /\ Len(output) \in Nat /\ Len(buffer) \in Nat
  BY DEF OutInv, ScreenInv, WriterInv, IsText
<1>6. /\ IsStream(after)
      /\ Len(buffer) + Len(chars) <= MaxChars - Columns => OffScreenKept(display, after.display)
  BY <1>4, <1>5, AllWritten
<1> HIDE DEF after
<1>7. PICK l \in Nat : Shows(after.display, after.paper, after.buffer, l)
  BY <1>6 DEF IsStream
<1>8. ScreenInv'
  <2>1. IsDisplay(display') /\ IsText(buffer') /\ Len(buffer') <= BufferSize
    BY <1>1, <1>6, <1>7 DEF Shows, IsStream
  <2>2. access' \in 0 .. Len(Reset) /\ ~ (access' < Len(Reset))
    BY <1>2
  <2>3. Shows(display', paper', buffer', l)
    BY <1>1, <1>7
  <2> QED BY <2>1, <2>2, <2>3 DEF ScreenInv
<1>9. IsText(output)' /\ Len(output') = Len(output) + Len(chars)
  BY <1>1, <1>5, Joined
<1>10. OffScreenStep
  <2> SUFFICES ASSUME NEW i \in VideoMemory \ Cells, display.memory[i] # display'.memory[i]
               PROVE  Len(buffer) + Len(output') - Len(output) > MaxChars - Columns
    BY DEF OffScreenStep
  <2>1. ~ OffScreenKept(display, after.display)
    BY <1>1 DEF OffScreenKept
  <2>2. ~ (Len(buffer) + Len(chars) <= MaxChars - Columns)
    BY <1>6, <2>1
  <2>3. MaxChars - Columns \in Int
    BY Screen
  <2> QED BY <1>5, <1>9, <2>2, <2>3
<1> QED BY <1>8, <1>9, <1>10

(* A step of KernelDisplay_reset(), which may be the clearing.             *)
LEMMA AccessAdapterStep ==
  ASSUME OutInv, AccessAdapter
  PROVE  OutInv' /\ OffScreenStep
<1>1. /\ access \in 0 .. Len(Reset) /\ access # Len(Reset) /\ Len(Reset) \in Nat
      /\ ClearedAt \in Nat /\ ClearedAt > 0 /\ Reset[ClearedAt] = Memory("cleared")[1]
      /\ access' = access + 1
  BY ClearsBeforeUnblank DEF OutInv, ScreenInv, AccessAdapter, DisplayIsUp
<1>2. buffer = << >> /\ result # "running" /\ UNCHANGED <<buffer, callVars>>
  BY <1>1 DEF OutInv, ScreenInv, AccessAdapter
<1>3. WriterInv'
  BY <1>2 DEF OutInv, WriterInv, callVars
<1>4. IsText(buffer') /\ Len(buffer') <= BufferSize /\ result' # "running" /\ buffer' = << >>
  BY <1>2 DEF OutInv, ScreenInv, callVars
<1>5. access' \in 0 .. Len(Reset)
  BY <1>1
<1>6. CASE Reset[access + 1] = Memory("cleared")[1]
  <2> DEFINE d == SetColors(display, DefaultBackground, DefaultForeground)
             e == Clear(d)
  <2>1. display' = e /\ paper' = buffer
    BY <1>6 DEF AccessAdapter
  <2>2. IsDisplay(d) /\ d.memory = display.memory
    BY Colored DEF OutInv, ScreenInv
  <2> HIDE DEF d
  <2>3. Shows(e, buffer, buffer, 0) /\ OffScreenKept(d, e)
    BY <1>2, <1>4, <2>2, Cleared DEF OutInv, ScreenInv
  <2> HIDE DEF e
  <2>4. Shows(display', paper', buffer', 0) /\ IsDisplay(display')
    BY <1>2, <2>1, <2>3 DEF Shows
  <2>5. OffScreenStep
    BY <2>1, <2>2, <2>3 DEF OffScreenStep, OffScreenKept
  <2>6. 0 \in Nat
    OBVIOUS
  <2> QED BY <1>3, <1>4, <1>5, <2>4, <2>5, <2>6 DEF OutInv, ScreenInv
<1>7. CASE ~ (Reset[access + 1] = Memory("cleared")[1])
  <2>1. UNCHANGED <<display, paper>>
    BY <1>7 DEF AccessAdapter
  <2>2. ClearedAt <= access' => ClearedAt <= access
    <3>1. access + 1 # ClearedAt
      BY <1>1, <1>7
    <3> QED BY <1>1, <3>1
  <2>3. ClearedAt <= access' => \E lost \in Nat : Shows(display', paper', buffer', lost)
    BY <1>2, <2>1, <2>2 DEF OutInv, ScreenInv
  <2>4. OffScreenStep
    BY <2>1 DEF OffScreenStep
  <2>5. IsDisplay(display')
    BY <2>1 DEF OutInv, ScreenInv
  <2> QED BY <1>3, <1>4, <1>5, <2>3, <2>4, <2>5 DEF OutInv, ScreenInv
<1> QED BY <1>6, <1>7

(* A text to be printed, on the paper already.                             *)
LEMMA LongText ==
  ASSUME NEW d, NEW page, NEW lost, Shows(d, page, << >>, lost), NEW text, IsText(text)
  PROVE  /\ Shows(d, page \o text, text, lost)
         /\ IsText(page \o text) /\ Len(page \o text) = Len(page) + Len(text)
<1> DEFINE p == Position(d)
           g == Columns * lost
           page2 == page \o text
<1>1. /\ IsDisplay(d) /\ IsText(page) /\ lost \in Nat /\ g \in Nat /\ p \in Nat
      /\ Len(page) = g + p + 0 /\ (lost > 0 => p >= MaxChars - Columns) /\ Len(text) \in Nat
  <2>1. Len(<< >>) = 0
    BY EmptySeq
  <2> QED BY <2>1, ShownNumbers DEF IsText
<1>2. /\ \A k \in 1 .. p : Char(d, k - 1) = page[g + k]
      /\ \A i \in Cells : p <= i => Char(d, i) = "SP"
  BY DEF Shows
<1>3. IsText(page2) /\ Len(page2) = Len(page) + Len(text)
  BY <1>1, Joined
<1>4. \A k \in 1 .. Len(page) : page2[k] = page[k]
  BY <1>1, Joined
<1>5. \A k \in 1 .. Len(text) : page2[Len(page) + k] = text[k]
  BY SMTT(40), <1>1, Joined
<1> HIDE DEF p, g, page2
<1>6. ASSUME NEW k \in 1 .. p PROVE Char(d, k - 1) = page2[g + k]
  <2>1. g + k \in 1 .. Len(page)
    BY <1>1
  <2> QED BY <1>2, <1>4, <2>1
<1>7. ASSUME NEW k \in 1 .. Len(text) PROVE text[k] = page2[g + p + k]
  <2>1. g + p + k = Len(page) + k
    BY <1>1
  <2> QED BY <1>5, <2>1
<1>8. Len(page2) = g + p + Len(text)
  BY <1>1, <1>3
<1>9. Shows(d, page2, text, lost)
  BY <1>1, <1>2, <1>3, <1>6, <1>7, <1>8 DEF Shows, p, g
<1> QED BY <1>3, <1>9 DEF page2

(* A client prints, clears or sets colours itself.                         *)
LEMMA UseDisplayStep ==
  ASSUME OutInv, UseDisplay
  PROVE  OutInv' /\ OffScreenStep
<1>1. access = Len(Reset) /\ result # "running" /\ ClearedAt <= access /\ Len(Reset) \in Nat
  BY ClearsBeforeUnblank DEF UseDisplay, Idle, DisplayIsUp
<1>2. UNCHANGED <<access, buffer, writer, formatSpec, output, result>>
  BY DEF UseDisplay, deviceVars
<1>3. PICK lost \in Nat : Shows(display, paper, buffer, lost)
  BY <1>1 DEF OutInv, ScreenInv
<1>4. WriterInv'
  BY <1>2 DEF OutInv, WriterInv
<1>5. IsText(buffer) /\ Len(buffer) <= BufferSize /\ IsDisplay(display)
  BY DEF OutInv, ScreenInv
<1>6. ASSUME NEW l \in Nat, Shows(display', paper', buffer', l) PROVE OutInv'
  <2>1. IsDisplay(display') /\ IsText(buffer') /\ Len(buffer') <= BufferSize
    BY <1>2, <1>5, <1>6 DEF Shows
  <2>2. access' \in 0 .. Len(Reset) /\ ~ (access' < Len(Reset))
    BY <1>1, <1>2
  <2> QED BY <1>4, <1>6, <2>1, <2>2 DEF OutInv, ScreenInv
<1>7. CASE display' = SetColors(display, "DARKRED", "YELLOW") /\ UNCHANGED paper
  <2>1. /\ Shows(display', paper, buffer, lost) /\ OffScreenKept(display, display')
    BY <1>3, <1>7, ColorsShow
  <2>2. OffScreenStep
    BY <2>1 DEF OffScreenStep, OffScreenKept
  <2>3. Shows(display', paper', buffer', lost)
    BY <1>2, <1>7, <2>1
  <2> QED BY <1>6, <2>2, <2>3
<1>8. CASE display' = Clear(display) /\ paper' = buffer
  <2>1. Shows(display', buffer, buffer, 0) /\ OffScreenKept(display, display')
    BY <1>5, <1>8, Cleared
  <2>2. OffScreenStep
    BY <2>1 DEF OffScreenStep, OffScreenKept
  <2>3. Shows(display', paper', buffer', 0) /\ 0 \in Nat
    BY <1>2, <1>8, <2>1
  <2> QED BY <1>6, <2>2, <2>3
<1>9. CASE /\ buffer = << >>
           /\ \E length \in LongTexts :
                LET text == [k \in 1 .. length |-> Digits[(k % 16) + 1]] IN
                display' = PrintText(display, text) /\ paper' = PageBreak(paper \o text, text)
  <2>1. PICK length \in LongTexts :
          LET text == [k \in 1 .. length |-> Digits[(k % 16) + 1]] IN
          display' = PrintText(display, text) /\ paper' = PageBreak(paper \o text, text)
    BY <1>9
  <2> DEFINE text == [k \in 1 .. length |-> Digits[(k % 16) + 1]]
             page == paper \o text
  <2>2. display' = PrintText(display, text) /\ paper' = PageBreak(page, text)
    BY <2>1
  <2>3. length \in Nat
    BY OutputAssumption
  <2>4. IsText(text) /\ Len(text) = length
    <3>1. text = [k \in 1 .. length |-> text[k]]
      OBVIOUS
    <3> HIDE DEF text
    <3> QED BY <2>3, <3>1, FunctionIsText
  <2> HIDE DEF text
  <2>5. /\ Shows(display, page, text, lost) /\ Len(page) = Len(paper) + Len(text)
        /\ IsText(paper)
    <3>1. Shows(display, paper, << >>, lost)
      BY <1>3, <1>9
    <3>2. IsText(paper)
      BY <3>1 DEF Shows
    <3> QED BY <2>4, <3>1, <3>2, LongText
  <2>6. Len(paper) \in Nat
    BY <2>5 DEF IsText
  <2> HIDE DEF page
  <2>7. PICK l \in Nat : Shows(display', paper', << >>, l)
    BY <2>2, <2>5, Prints
  <2>8. Len(text) <= MaxChars - Columns \/ MaxChars < Len(text)
          => OffScreenKept(display, display')
    BY <2>2, <2>5, Prints
  <2>9. OffScreenStep
    <3> SUFFICES ASSUME NEW i \in VideoMemory \ Cells, display.memory[i] # display'.memory[i]
                 PROVE  Len(paper') - Len(paper) > MaxChars - Columns
      BY DEF OffScreenStep
    <3>1. MaxChars \in Nat /\ Columns \in Nat
      BY Screen
    <3>2. ~ (Len(text) <= MaxChars - Columns \/ MaxChars < Len(text))
      BY <2>8 DEF OffScreenKept
    <3>3. paper' = page
      BY <2>2, <2>3, <2>4, <3>1, <3>2 DEF PageBreak
    <3> QED BY <2>3, <2>4, <2>5, <2>6, <3>1, <3>2, <3>3
  <2>10. Shows(display', paper', buffer', l)
    BY <1>2, <1>9, <2>7
  <2> QED BY <1>6, <2>9, <2>10
<1> QED BY <1>7, <1>8, <1>9 DEF UseDisplay

(* The beginning of a call leaves display and stream alone.                *)
LEMMA CallStep ==
  ASSUME OutInv, NEW which, Call(which)
  PROVE  OutInv' /\ OffScreenStep
<1>1. /\ access = Len(Reset) /\ Len(Reset) \in Nat /\ access' = access
      /\ UNCHANGED streamVars /\ output' = << >>
      /\ writer' = NewWriter /\ formatSpec' = NewFormatSpec
  BY ClearsBeforeUnblank DEF Call, Idle, DisplayIsUp, deviceVars
<1>2. IsText(<< >>)
  BY EmptySeq, SeqIsText
<1>3. WriterInv'
  BY <1>1, <1>2, WriterIs DEF WriterInv
<1>4. ScreenInv'
  <2>1. access' \in 0 .. Len(Reset) /\ ~ (access' < Len(Reset))
    BY <1>1
  <2> QED BY <1>1, <2>1 DEF OutInv, ScreenInv, streamVars
<1>5. OffScreenStep
  BY <1>1 DEF OffScreenStep, streamVars
<1> QED BY <1>3, <1>4, <1>5 DEF OutInv

(* While a call is under way the display is up.                            *)
LEMMA RunningIsUp ==
  ASSUME OutInv, NEW c, Read(c)
  PROVE  /\ access = Len(Reset) /\ Len(Reset) \in Nat /\ access' = access
         /\ writer = NewWriter /\ writer' = NewWriter
         /\ parserState' = Transition(parserState, ConvertInputChar(c))
<1>1. Len(Reset) \in Nat
  BY ClearsBeforeUnblank
<1>2. result = "running" /\ UNCHANGED <<deviceVars, call, writer>>
      /\ parserState' = Transition(parserState, ConvertInputChar(c))
  BY DEF Read
<1>3. access = Len(Reset)
  BY <1>1, <1>2 DEF OutInv, ScreenInv
<1> QED BY <1>1, <1>2, <1>3 DEF OutInv, WriterInv, deviceVars

(* Inside a specifier nothing is written.                                  *)
LEMMA ReadSpecifierStep ==
  ASSUME OutInv, NEW c, ReadSpecifier(c)
  PROVE  OutInv' /\ OffScreenStep
<1>1. /\ access = Len(Reset) /\ Len(Reset) \in Nat /\ access' = access /\ writer' = NewWriter
      /\ parserState' = Transition(parserState, ConvertInputChar(c))
  BY RunningIsUp DEF ReadSpecifier
<1>2. UNCHANGED <<streamVars, output, result>> /\ formatSpec \in FormatSpecs
  BY DEF ReadSpecifier, OutInv, WriterInv
<1>3. formatSpec' \in FormatSpecs
  <2>1. CASE UNCHANGED formatSpec
    BY <1>2, <2>1
  <2>2. CASE formatSpec' = [formatSpec EXCEPT !.leftAlign = TRUE]
    BY <1>2, <2>2 DEF FormatSpecs
  <2>3. CASE \E width \in Widths : formatSpec' = [formatSpec EXCEPT !.width = width]
    BY <1>2, <2>3, OutputAssumption DEF FormatSpecs
  <2>4. CASE parserState' = "modifier"
             /\ formatSpec' = [formatSpec EXCEPT !.modifier = ConvertModifier(c)]
    <3>1. c \in Modifiers
      BY <1>1, <2>4, Transitions
    <3>2. ConvertModifier(c) \in Types
      BY <3>1 DEF ConvertModifier, Modifiers, Types
    <3> QED BY <1>2, <2>4, <3>2 DEF FormatSpecs
  <2> QED BY <2>1, <2>2, <2>3, <2>4 DEF ReadSpecifier
<1>4. WriterInv'
  BY <1>1, <1>2, <1>3 DEF WriterInv, OutInv
<1>5. ScreenInv'
  BY <1>1, <1>2 DEF OutInv, ScreenInv, streamVars
<1>6. OffScreenStep
  BY <1>2 DEF OffScreenStep, streamVars
<1> QED BY <1>4, <1>5, <1>6 DEF OutInv

(* The end of a specifier: an argument is written.                         *)
LEMMA ReadTypeStep ==
  ASSUME OutInv, NEW c, ReadType(c)
  PROVE  OutInv' /\ OffScreenStep
<1>1. access = Len(Reset) /\ access' = access /\ writer' = NewWriter
  BY RunningIsUp DEF ReadType
<1>2. c \in TypeChars
  BY Transitions DEF ReadType
<1>3. PICK arg \in Arguments(c) : WriteNextArg(c, arg)
  BY DEF ReadType
<1> DEFINE w == [hexMode |-> c = "x", leftAlign |-> formatSpec.leftAlign,
                 width |-> formatSpec.width]
           chars == Formatted(w, c, formatSpec.modifier, arg)
<1>4. Send(chars) /\ formatSpec' = NewFormatSpec
  BY <1>3 DEF WriteNextArg
<1>5. formatSpec.modifier \in Types /\ formatSpec.width \in Int
  BY DEF OutInv, WriterInv, FormatSpecs
<1>6. IsWriter(w)
  BY <1>5 DEF IsWriter
<1> HIDE DEF w
<1>7. IsText(chars)
  BY <1>2, <1>5, <1>6, ArgumentWritten
<1> HIDE DEF chars
<1>8. ScreenInv' /\ IsText(output)' /\ OffScreenStep
  BY <1>1, <1>4, <1>7, SendStep
<1>9. WriterInv'
  BY <1>1, <1>4, <1>8, WriterIs DEF WriterInv
<1> QED BY <1>8, <1>9 DEF OutInv

(* A character of the format is written.                                   *)
LEMMA ReadTextStep ==
  ASSUME OutInv, NEW c, ReadText(c)
  PROVE  OutInv' /\ OffScreenStep
<1>1. access = Len(Reset) /\ access' = access /\ writer = NewWriter /\ writer' = NewWriter
  BY RunningIsUp DEF ReadText
<1> DEFINE chars == WriteChar(writer, c)
<1>2. Send(chars) /\ UNCHANGED formatSpec
  BY DEF ReadText
<1>3. IsText(chars)
  BY <1>1, WriterIs, CharWritten
<1> HIDE DEF chars
<1>4. ScreenInv' /\ IsText(output)' /\ OffScreenStep
  BY <1>1, <1>2, <1>3, SendStep
<1>5. WriterInv'
  BY <1>1, <1>2, <1>4 DEF WriterInv, OutInv
<1> QED BY <1>4, <1>5 DEF OutInv

(* The end of a call, with its new line.                                   *)
LEMMA ReturnStep ==
  ASSUME OutInv, access = Len(Reset), UNCHANGED <<access, writer, formatSpec>>,
         NEW how, NEW rest, IsText(rest), Return(how, rest)
  PROVE  OutInv' /\ OffScreenStep
<1> DEFINE line == IF call = "writeLine" THEN WriteChar(writer, "LF") ELSE << >>
           chars == rest \o line
<1>1. writer = NewWriter /\ writer' = NewWriter
  BY DEF OutInv, WriterInv
<1>2. Send(chars)
  BY DEF Return
<1>3. IsText(line)
  <2>1. IsText(<< >>)
    BY EmptySeq, SeqIsText
  <2> QED BY <1>1, <2>1, WriterIs, CharWritten
<1> HIDE DEF line
<1>4. IsText(chars)
  BY <1>3, Both
<1> HIDE DEF chars
<1>5. ScreenInv' /\ IsText(output)' /\ OffScreenStep
  BY <1>2, <1>4, SendStep
<1>6. WriterInv'
  BY <1>1, <1>5 DEF WriterInv, OutInv
<1> QED BY <1>5, <1>6 DEF OutInv

(* The end of the format.                                                  *)
LEMMA ReadEndStep ==
  ASSUME OutInv, NEW c, ReadEnd(c)
  PROVE  OutInv' /\ OffScreenStep
<1>1. access = Len(Reset) /\ access' = access /\ writer = NewWriter /\ writer' = NewWriter
  BY RunningIsUp DEF ReadEnd
<1> DEFINE rest == WriteChar(writer, "NUL")
<1>2. IsText(rest)
  BY <1>1, WriterIs, CharWritten
<1>3. Return("ok", rest) /\ UNCHANGED <<access, writer, formatSpec>>
  BY <1>1 DEF ReadEnd
<1> HIDE DEF rest
<1> QED BY <1>1, <1>2, <1>3, ReturnStep

(* A malformed specifier.                                                  *)
LEMMA ReadMalformedStep ==
  ASSUME OutInv, NEW c, ReadMalformed(c)
  PROVE  OutInv' /\ OffScreenStep
<1>1. access = Len(Reset) /\ access' = access /\ writer = NewWriter /\ writer' = NewWriter
  BY RunningIsUp DEF ReadMalformed
<1>2. IsText(<< >>)
  BY EmptySeq, SeqIsText
<1>3. Return("malformed", << >>) /\ UNCHANGED <<access, writer, formatSpec>>
  BY <1>1 DEF ReadMalformed
<1> QED BY <1>1, <1>2, <1>3, ReturnStep

(* The invariant is inductive, and steps write off the screen only for a   *)
(* reason.                                                                 *)
LEMMA OutStep == OutInv /\ [Next]_vars => OutInv' /\ [OffScreenStep]_vars
<1> SUFFICES ASSUME OutInv, [Next]_vars PROVE OutInv' /\ [OffScreenStep]_vars
  OBVIOUS
<1>1. CASE AccessAdapter
  BY <1>1, AccessAdapterStep
<1>2. CASE UseDisplay
  BY <1>2, UseDisplayStep
<1>3. ASSUME NEW which \in {"write", "writeLine"}, Call(which)
      PROVE  OutInv' /\ [OffScreenStep]_vars
  BY <1>3, CallStep
<1>4. ASSUME NEW c \in NextChars,
             ReadSpecifier(c) \/ ReadType(c) \/ ReadText(c) \/ ReadEnd(c) \/ ReadMalformed(c)
      PROVE  OutInv' /\ [OffScreenStep]_vars
  BY <1>4, ReadSpecifierStep, ReadTypeStep, ReadTextStep, ReadEndStep, ReadMalformedStep
<1>5. CASE UNCHANGED vars
  <2>1. UNCHANGED <<access, display, buffer, paper, writer, formatSpec, output, result>>
    BY <1>5 DEF vars, deviceVars, streamVars, callVars
  <2> QED BY <1>5, <2>1 DEF OutInv, ScreenInv, WriterInv
<1> QED BY <1>1, <1>2, <1>3, <1>4, <1>5 DEF Next

(* Display, stream and writer are in order in every reachable state.       *)
THEOREM OutCorrect == Spec => []OutInv
<1>1. OutInv /\ [Next]_vars => OutInv'
  BY OutStep
<1> QED BY <1>1, InitEstablishes, PTL DEF Spec

(* A text that agrees with the end of another is its suffix.               *)
LEMMA SuffixIntro ==
  ASSUME NEW s, NEW t, IsText(s), IsText(t), Len(s) <= Len(t),
         \A k \in 1 .. Len(s) : s[k] = t[Len(t) - Len(s) + k]
  PROVE  IsSuffix(s, t)
<1> DEFINE m == Len(s)
           n == Len(t)
           a == Reverse(s)
           b == Reverse(t)
<1>1. m \in Nat /\ n \in Nat /\ m <= n
  BY DEF IsText
<1>2. /\ a = [i \in 1 .. m |-> s[(m - i) + 1]] /\ b = [i \in 1 .. n |-> t[(n - i) + 1]]
  BY DEF Reverse
<1> HIDE DEF a, b, m, n
<1>3. IsText(a) /\ Len(a) = m /\ IsText(b) /\ Len(b) = n
  <2>1. a = [i \in 1 .. m |-> a[i]] /\ b = [i \in 1 .. n |-> b[i]]
    BY <1>2
  <2> QED BY <1>1, <2>1, FunctionIsText
<1>4. ASSUME NEW i \in 1 .. m PROVE a[i] = b[i]
  <2>1. /\ (m - i) + 1 \in 1 .. m /\ i \in 1 .. n
        /\ n - m + ((m - i) + 1) = (n - i) + 1
    BY <1>1
  <2>2. s[(m - i) + 1] = t[n - m + ((m - i) + 1)]
    BY <2>1 DEF m, n
  <2> QED BY <1>2, <2>1, <2>2
<1>5. ASSUME NEW u, IsText(u), m <= Len(u)
      PROVE  SubSeq(u, 1, m) = [i \in 1 .. m |-> u[i]]
  <2> DEFINE S == {u[k] : k \in 1 .. Len(u)}
  <2>1. Len(u) \in Nat /\ \A k \in 1 .. m : u[k] \in S
    BY <1>1, <1>5 DEF IsText
  <2> HIDE DEF S
  <2>2. /\ SubSeq(u, 1, m) \in Seq(S)
        /\ Len(SubSeq(u, 1, m)) = IF 1 <= m THEN m - 1 + 1 ELSE 0
        /\ \A i \in 1 .. m - 1 + 1 : SubSeq(u, 1, m)[i] = u[1 + i - 1]
    BY <1>1, <2>1, SubSeqProperties
  <2>3. Len(SubSeq(u, 1, m)) = m /\ \A i \in 1 .. m : SubSeq(u, 1, m)[i] = u[i]
    BY <1>1, <2>2
  <2>4. SubSeq(u, 1, m) = [i \in 1 .. m |-> SubSeq(u, 1, m)[i]]
    BY <2>2, <2>3, LenProperties
  <2> QED BY <2>3, <2>4
<1>6. SubSeq(a, 1, m) = SubSeq(b, 1, m)
  BY <1>1, <1>3, <1>4, <1>5
<1>7. IsPrefix(a, b)
  BY <1>1, <1>3, <1>6 DEF IsPrefix
<1> QED BY <1>7 DEF IsSuffix, a, b

(* The invariant, in the words of ScreenShowsPaper.                        *)
LEMMA ShowsThePaper ==
  ASSUME OutInv
  PROVE  ScreenShowsPaper
<1> SUFFICES ASSUME DisplayIsUp PROVE ScreenShowsPaper
  BY DEF ScreenShowsPaper
<1>1. ClearedAt <= access
  BY ClearsBeforeUnblank DEF DisplayIsUp
<1>2. PICK lost \in Nat : Shows(display, paper, buffer, lost)
  BY <1>1 DEF OutInv, ScreenInv
<1> DEFINE p == Position(display)
           g == Columns * lost
           text == Shown \o buffer
<1>3. /\ IsDisplay(display) /\ IsText(paper) /\ IsText(buffer) /\ g \in Nat /\ p \in Nat
      /\ Len(buffer) \in Nat /\ Len(paper) = g + p + Len(buffer)
      /\ lost > 0 => p >= MaxChars - Columns
  BY <1>2, ShownNumbers
<1>4. IsText(Shown) /\ Len(Shown) = p /\ \A k \in 1 .. p : Shown[k] = Char(display, k - 1)
  <2>1. Shown = [k \in 1 .. p |-> Char(display, k - 1)]
    BY DEF Shown, Char
  <2>2. Shown = [k \in 1 .. p |-> Shown[k]]
    BY <2>1
  <2> HIDE DEF p
  <2> QED BY <1>3, <2>1, <2>2, FunctionIsText
<1>5. /\ IsText(text) /\ Len(text) = p + Len(buffer)
      /\ \A k \in 1 .. p : text[k] = Shown[k]
      /\ \A k \in 1 .. Len(buffer) : text[p + k] = buffer[k]
  <2> DEFINE s == Shown
  <2>1. IsText(s) /\ Len(s) = p
    BY <1>4
  <2> HIDE DEF s, p
  <2>2. /\ IsText(s \o buffer) /\ Len(s \o buffer) = Len(s) + Len(buffer)
        /\ \A k \in 1 .. Len(s) : (s \o buffer)[k] = s[k]
        /\ \A k \in 1 .. Len(buffer) : (s \o buffer)[Len(s) + k] = buffer[k]
    BY ZenonT(40), <1>3, <2>1, Joined
  <2> QED BY <2>1, <2>2 DEF s
<1>6. /\ \A k \in 1 .. p : Char(display, k - 1) = paper[g + k]
      /\ \A k \in 1 .. Len(buffer) : buffer[k] = paper[g + p + k]
      /\ \A i \in Cells : p <= i => Char(display, i) = "SP"
  BY <1>2 DEF Shows
<1> HIDE DEF p, g, text
<1>7. IsSuffix(text, paper)
  <2>1. ASSUME NEW k \in 1 .. Len(text) PROVE text[k] = paper[Len(paper) - Len(text) + k]
    <3>1. Len(paper) - Len(text) + k = g + k
      BY <1>3, <1>5
    <3>2. CASE k \in 1 .. p
      BY <1>4, <1>5, <1>6, <3>1, <3>2
    <3>3. CASE k \notin 1 .. p
      <4>1. k - p \in 1 .. Len(buffer) /\ p + (k - p) = k /\ g + p + (k - p) = g + k
        BY <1>3, <1>5, <3>3
      <4>2. text[p + (k - p)] = buffer[k - p] /\ buffer[k - p] = paper[g + p + (k - p)]
        BY <1>5, <1>6, <4>1
      <4> QED BY <3>1, <4>1, <4>2
    <3> QED BY <3>2, <3>3
  <2>2. Len(text) <= Len(paper)
    BY <1>3, <1>5
  <2> QED BY <1>3, <1>5, <2>1, <2>2, SuffixIntro
<1>8. LET gone == Len(paper) - Len(Shown) - Len(buffer) IN
      /\ gone % Columns = 0
      /\ gone > 0 => Position(display) >= MaxChars - Columns
  <2>1. Len(paper) - Len(Shown) - Len(buffer) = g
    BY <1>3, <1>4
  <2>2. g % Columns = 0
    <3>1. 0 \in 0 .. Columns - 1
      BY Screen
    <3>2. (Columns * lost + 0) % Columns = 0
      BY <3>1, InLine
    <3>3. Columns * lost + 0 = Columns * lost
      BY <1>3 DEF g
    <3> QED BY <3>2, <3>3 DEF g
  <2>3. g > 0 => lost > 0
    BY Screen DEF g
  <2> QED BY <1>3, <2>1, <2>2, <2>3 DEF p
<1>9. display.row \in 0 .. Rows - 1 /\ display.column \in 0 .. Columns - 1
  BY <1>3 DEF IsDisplay
<1>10. \A i \in Cells : i >= Position(display) => display.memory[i][1] = "SP"
  <2> TAKE i \in Cells
  <2> HAVE i >= Position(display)
  <2>1. p <= i
    BY <1>3, Video DEF p
  <2> QED BY <1>6, <2>1 DEF Char
<1> QED BY <1>7, <1>8, <1>9, <1>10 DEF ScreenShowsPaper, text

(* KernelDisplay and DisplayTextStream: whatever is printed, however long, *)
(* and wherever lines, tabs and flushes fall, the screen shows the end of  *)
(* it, line by line, and the buffer what is missing.                       *)
THEOREM ScreenShowsPaperAlways == Spec => []ScreenShowsPaper
BY OutCorrect, ShowsThePaper, PTL

(* KernelDisplay_print(): no step writes outside of the screen unless a    *)
(* text was printed that fills the screen but for less than a line.        *)
THEOREM OffScreenOnlyIfLongAlways == Spec => OffScreenOnlyIfLong
<1>1. OutInv /\ [Next]_vars => [OffScreenStep]_vars
  BY OutStep
<1>2. Spec => [][OffScreenStep]_vars
  BY <1>1, OutCorrect, PTL DEF Spec
<1> QED BY <1>2 DEF OffScreenOnlyIfLong, OffScreenStep
-----------------------------------------------------------------------------
(* Texts that are the same.                                                *)
LEMMA SameText ==
  ASSUME NEW s, NEW t, IsText(s), IsText(t), Len(s) = Len(t),
         \A k \in 1 .. Len(s) : s[k] = t[k]
  PROVE  s = t
<1>1. s = [k \in 1 .. Len(s) |-> s[k]] /\ t = [k \in 1 .. Len(s) |-> t[k]]
  BY DEF IsText
<1> QED BY <1>1

(* The text with nothing in it.                                            *)
LEMMA EmptyText == IsText(<< >>) /\ Len(<< >>) = 0
BY EmptySeq, SeqIsText

(* What joining does: nothing, if one of the texts is empty.               *)
LEMMA JoinedWithEmpty ==
  ASSUME NEW s, IsText(s)
  PROVE  << >> \o s = s /\ s \o << >> = s
<1>1. IsText(<< >>) /\ Len(<< >>) = 0 /\ Len(s) \in Nat
  BY EmptyText DEF IsText
<1>2. /\ IsText(<< >> \o s) /\ Len(<< >> \o s) = 0 + Len(s)
      /\ \A k \in 1 .. Len(s) : (<< >> \o s)[0 + k] = s[k]
  BY <1>1, Joined
<1>3. /\ IsText(s \o << >>) /\ Len(s \o << >>) = Len(s) + 0
      /\ \A k \in 1 .. Len(s) : (s \o << >>)[k] = s[k]
  BY <1>1, Joined
<1> QED BY <1>1, <1>2, <1>3, SameText

(* In which order texts are joined makes no difference.                    *)
LEMMA JoinedThree ==
  ASSUME NEW s, NEW t, NEW u, IsText(s), IsText(t), IsText(u)
  PROVE  (s \o t) \o u = s \o (t \o u)
<1> DEFINE S == {s[k] : k \in 1 .. Len(s)} \cup {t[k] : k \in 1 .. Len(t)}
                  \cup {u[k] : k \in 1 .. Len(u)}
<1>1. s \in Seq(S) /\ t \in Seq(S) /\ u \in Seq(S)
  BY TextOf
<1> HIDE DEF S
<1> QED BY SMTT(40), <1>1, ConcatAssociative

(* What has been read of a format and its arguments, from each place on.   *)
Continued(f, fmt, arguments, k) ==
  [a \in Nat |->
     LET d == Directive(fmt, arguments, k, a) IN
     IF d.kind = "writes"
       THEN [text |-> d.text \o f[d.next][d.arg].text, ok |-> f[d.next][d.arg].ok]
       ELSE [text |-> << >>, ok |-> d.kind = "end"]]

IsReading(f, fmt, arguments) ==
  f = [k \in 1 .. Len(fmt) + 1 |-> Continued(f, fmt, arguments, k)]

From(fmt, arguments) == CHOOSE f : IsReading(f, fmt, arguments)

Lefts == {<< >>, <<"-">>}
Stars == {<< >>, <<"*">>}
Mods  == {<< >>, <<"b">>, <<"h">>, <<"l">>}

(* The parts of a specifier, and where they are in its text.               *)
LEMMA PartsOf ==
  ASSUME NEW left \in Lefts, NEW star \in Stars, NEW modifier \in Mods
  PROVE  LET text == <<"%">> \o left \o star \o modifier
             l == Len(left)
             s == Len(star)
             m == Len(modifier)
         IN  /\ l \in 0 .. 1 /\ s \in 0 .. 1 /\ m \in 0 .. 1
             /\ (l = 0 <=> left = << >>) /\ (s = 0 <=> star = << >>) /\ (m = 0 <=> modifier = << >>)
             /\ IsText(left) /\ IsText(star) /\ IsText(modifier)
             /\ IsText(text) /\ Len(text) = 1 + l + s + m
             /\ text[1] = "%"
             /\ l = 1 => text[2] = "-"
             /\ s = 1 => text[2 + l] = "*"
             /\ m = 1 => text[2 + l + s] = modifier[1] /\ modifier[1] \in Modifiers
<1> DEFINE p == <<"%">>
           a == p \o left
           b == a \o star
           c == b \o modifier
<1>1. IsText(p) /\ Len(p) = 1 /\ p[1] = "%"
  BY One
<1>2. /\ IsText(left) /\ Len(left) \in 0 .. 1 /\ (Len(left) = 0 <=> left = << >>)
      /\ Len(left) = 1 => left[1] = "-"
  BY One, EmptyText DEF Lefts
<1>3. /\ IsText(star) /\ Len(star) \in 0 .. 1 /\ (Len(star) = 0 <=> star = << >>)
      /\ Len(star) = 1 => star[1] = "*"
  BY One, EmptyText DEF Stars
<1>4. /\ IsText(modifier) /\ Len(modifier) \in 0 .. 1 /\ (Len(modifier) = 0 <=> modifier = << >>)
      /\ Len(modifier) = 1 => modifier[1] \in Modifiers
  BY One, EmptyText DEF Mods, Modifiers
<1> HIDE DEF p
<1>5. /\ IsText(a) /\ Len(a) = 1 + Len(left) /\ a[1] = "%"
      /\ Len(left) = 1 => a[2] = "-"
  <2>1. /\ IsText(a) /\ Len(a) = 1 + Len(left)
        /\ \A k \in 1 .. 1 : a[k] = p[k]
        /\ \A k \in 1 .. Len(left) : a[1 + k] = left[k]
    <3>1. /\ IsText(a) /\ Len(a) = Len(p) + Len(left)
          /\ \A k \in 1 .. Len(p) : a[k] = p[k]
          /\ \A k \in 1 .. Len(left) : a[Len(p) + k] = left[k]
      <4>1. IsText(p) /\ IsText(left)
        BY <1>1, <1>2
      <4> QED BY ONLY <4>1, Joined
    <3> QED BY <1>1, <3>1
  <2>2. Len(left) = 1 => a[1 + 1] = left[1]
    BY <2>1
  <2> QED BY <1>1, <1>2, <2>1, <2>2
<1> HIDE DEF a
<1>6. /\ IsText(b) /\ Len(b) = 1 + Len(left) + Len(star) /\ b[1] = "%"
      /\ Len(left) = 1 => b[2] = "-"
      /\ Len(star) = 1 => b[2 + Len(left)] = "*"
  <2>1. /\ IsText(b) /\ Len(b) = Len(a) + Len(star)
        /\ \A k \in 1 .. Len(a) : b[k] = a[k]
        /\ \A k \in 1 .. Len(star) : b[Len(a) + k] = star[k]
    BY <1>3, <1>5, Joined
  <2>2. Len(star) = 1 => b[(1 + Len(left)) + 1] = star[1]
    BY <2>1, <1>5
  <2> QED BY <1>2, <1>3, <1>5, <2>1, <2>2
<1> HIDE DEF b
<1>7. /\ IsText(c) /\ Len(c) = 1 + Len(left) + Len(star) + Len(modifier) /\ c[1] = "%"
      /\ Len(left) = 1 => c[2] = "-"
      /\ Len(star) = 1 => c[2 + Len(left)] = "*"
      /\ Len(modifier) = 1 => c[2 + Len(left) + Len(star)] = modifier[1]
  <2>1. /\ IsText(c) /\ Len(c) = Len(b) + Len(modifier)
        /\ \A k \in 1 .. Len(b) : c[k] = b[k]
        /\ \A k \in 1 .. Len(modifier) : c[Len(b) + k] = modifier[k]
    BY <1>4, <1>6, Joined
  <2>2. Len(modifier) = 1 => c[(1 + Len(left) + Len(star)) + 1] = modifier[1]
    BY <2>1, <1>6
  <2> QED BY <1>2, <1>3, <1>4, <1>6, <2>1, <2>2
<1> HIDE DEF c
<1> QED BY <1>2, <1>3, <1>4, <1>7 DEF c, b, a, p

(* A specifier made of its parts.                                          *)
SpecOf(left, star, modifier, type) ==
  [text |-> <<"%">> \o left \o star \o modifier \o <<type>>,
   left |-> left # << >>, star |-> star # << >>, type |-> type,
   modifier |-> IF modifier = << >> THEN "intptr" ELSE ConvertModifier(modifier[1])]

(* A specifier is its parts.                                               *)
LEMMA SpecifiersAre ==
  /\ \A s \in Specifiers :
       \E left \in Lefts, star \in Stars, modifier \in Mods, type \in TypeChars :
         s = SpecOf(left, star, modifier, type)
  /\ \A left \in Lefts, star \in Stars, modifier \in Mods, type \in TypeChars :
       SpecOf(left, star, modifier, type) \in Specifiers
<1> DEFINE S(left, star, modifier, type) == SpecOf(left, star, modifier, type)
<1>1. Specifiers = {S(left, star, modifier, type) :
                      left \in Lefts, star \in Stars, modifier \in Mods, type \in TypeChars}
  BY DEF Specifiers, SpecOf, Lefts, Stars, Mods
<1> HIDE DEF S
<1>2. /\ \A s \in Specifiers : \E left \in Lefts, star \in Stars, modifier \in Mods,
                                   type \in TypeChars : s = S(left, star, modifier, type)
      /\ \A left \in Lefts, star \in Stars, modifier \in Mods, type \in TypeChars :
           S(left, star, modifier, type) \in Specifiers
  BY <1>1
<1> QED BY <1>2 DEF S

(* Where the parts are in the text of a specifier.                         *)
HasParts(text, left, star, modifier, type) ==
  /\ text = (<<"%">> \o left \o star \o modifier) \o <<type>> /\ IsText(text)
  /\ Len(text) = 2 + Len(left) + Len(star) + Len(modifier)
  /\ text[1] = "%"
  /\ Len(left) = 1 => text[2] = "-"
  /\ Len(star) = 1 => text[2 + Len(left)] = "*"
  /\ Len(modifier) = 1 => /\ text[2 + Len(left) + Len(star)] = modifier[1]
                          /\ modifier[1] \in Modifiers
  /\ text[2 + Len(left) + Len(star) + Len(modifier)] = type

(* Every specifier has its parts there.                                    *)
LEMMA SpecText ==
  ASSUME NEW left \in Lefts, NEW star \in Stars, NEW modifier \in Mods, NEW type \in TypeChars
  PROVE  HasParts(SpecOf(left, star, modifier, type).text, left, star, modifier, type)
<1> DEFINE b == <<"%">> \o left \o star \o modifier
           t == <<type>>
           c == b \o t
           l == Len(left)
           s == Len(star)
           m == Len(modifier)
<1>1. /\ l \in 0 .. 1 /\ s \in 0 .. 1 /\ m \in 0 .. 1
      /\ IsText(b) /\ Len(b) = 1 + l + s + m
      /\ b[1] = "%"
      /\ l = 1 => b[2] = "-"
      /\ s = 1 => b[2 + l] = "*"
      /\ m = 1 => b[2 + l + s] = modifier[1] /\ modifier[1] \in Modifiers
  BY PartsOf
<1>2. IsText(t) /\ Len(t) = 1 /\ t[1] = type
  BY One
<1>3. SpecOf(left, star, modifier, type).text = c
  BY DEF SpecOf
<1> HIDE DEF b, t
<1>4. /\ IsText(c) /\ Len(c) = Len(b) + 1
      /\ \A k \in 1 .. Len(b) : c[k] = b[k]
      /\ \A k \in 1 .. 1 : c[Len(b) + k] = t[k]
  <2>1. /\ IsText(c) /\ Len(c) = Len(b) + Len(t)
        /\ \A k \in 1 .. Len(b) : c[k] = b[k]
        /\ \A k \in 1 .. Len(t) : c[Len(b) + k] = t[k]
    <3>1. IsText(b) /\ IsText(t)
      BY <1>1, <1>2
    <3> QED BY ONLY <3>1, Joined
  <2> QED BY <1>2, <2>1
<1> HIDE DEF c, l, s, m
<1>5. c[(1 + l + s + m) + 1] = type
  BY <1>1, <1>2, <1>4
<1>6. 1 \in 1 .. Len(b) /\ (l = 1 => 2 \in 1 .. Len(b)) /\ (s = 1 => 2 + l \in 1 .. Len(b))
      /\ (m = 1 => 2 + l + s \in 1 .. Len(b)) /\ (1 + l + s + m) + 1 = 2 + l + s + m
      /\ Len(b) + 1 = 2 + l + s + m
  BY <1>1
<1>7. /\ c[1] = "%" /\ (l = 1 => c[2] = "-") /\ (s = 1 => c[2 + l] = "*")
      /\ (m = 1 => c[2 + l + s] = modifier[1] /\ modifier[1] \in Modifiers)
  BY <1>1, <1>4, <1>6
<1>8. c = (<<"%">> \o left \o star \o modifier) \o <<type>>
  BY DEF c, b, t
<1>9. HasParts(c, left, star, modifier, type)
  BY <1>1, <1>4, <1>5, <1>6, <1>7, <1>8 DEF l, s, m, HasParts
<1> QED BY <1>3, <1>9

(* What a format has where a specifier begins tells its parts.             *)
LEMMA SpecAt ==
  ASSUME NEW left \in Lefts, NEW star \in Stars, NEW modifier \in Mods, NEW type \in TypeChars,
         NEW fmt, IsText(fmt), NEW k \in 1 .. Len(fmt),
         BeginsAt(SpecOf(left, star, modifier, type).text, fmt, k)
  PROVE  LET l == Len(left)
             s == Len(star)
             m == Len(modifier)
         IN  /\ l \in 0 .. 1 /\ s \in 0 .. 1 /\ m \in 0 .. 1
             /\ (l = 0 <=> left = << >>) /\ (s = 0 <=> star = << >>) /\ (m = 0 <=> modifier = << >>)
             /\ k + 1 + l + s + m \in 1 .. Len(fmt)
             /\ IF l = 1 THEN fmt[k + 1] = "-"
                         ELSE fmt[k + 1] \in {"*"} \cup Modifiers \cup TypeChars
             /\ IF s = 1 THEN fmt[k + 1 + l] = "*" ELSE fmt[k + 1 + l] \in Modifiers \cup TypeChars
             /\ IF m = 1 THEN fmt[k + 1 + l + s] = modifier[1] /\ modifier[1] \in Modifiers
                         ELSE fmt[k + 1 + l + s] \in TypeChars
             /\ fmt[k + 1 + l + s + m] = type
<1> DEFINE l == Len(left)
           s == Len(star)
           m == Len(modifier)
           text == SpecOf(left, star, modifier, type).text
<1>1. /\ l \in 0 .. 1 /\ s \in 0 .. 1 /\ m \in 0 .. 1
      /\ (l = 0 <=> left = << >>) /\ (s = 0 <=> star = << >>) /\ (m = 0 <=> modifier = << >>)
  BY PartsOf
<1>2. /\ Len(text) = 2 + l + s + m
      /\ (l = 1 => text[2] = "-") /\ (s = 1 => text[2 + l] = "*")
      /\ (m = 1 => text[2 + l + s] = modifier[1] /\ modifier[1] \in Modifiers)
      /\ text[2 + l + s + m] = type
  <2>1. HasParts(text, left, star, modifier, type)
    BY SpecText
  <2> HIDE DEF text
  <2> QED BY <2>1 DEF HasParts
<1>3. k + Len(text) <= Len(fmt) + 1 /\ \A j \in 1 .. Len(text) : fmt[k + j - 1] = text[j]
  BY DEF BeginsAt
<1> HIDE DEF l, s, m, text
<1>4. k \in Nat /\ Len(fmt) \in Nat
  BY DEF IsText
<1>5. \A j \in 1 .. Len(text) : fmt[k + (j - 1)] = text[j]
  <2> TAKE j \in 1 .. Len(text)
  <2>1. k + j - 1 = k + (j - 1)
    BY <1>1, <1>2, <1>4
  <2> QED BY <1>3, <2>1
<1>6. /\ 2 \in 1 .. Len(text) /\ 2 + l \in 1 .. Len(text) /\ 2 + l + s \in 1 .. Len(text)
      /\ 2 + l + s + m \in 1 .. Len(text)
  BY <1>1, <1>2
<1>7. /\ fmt[k + (2 - 1)] = text[2] /\ fmt[k + ((2 + l) - 1)] = text[2 + l]
      /\ fmt[k + ((2 + l + s) - 1)] = text[2 + l + s]
      /\ fmt[k + ((2 + l + s + m) - 1)] = text[2 + l + s + m]
  BY <1>5, <1>6
<1>8. /\ k + (2 - 1) = k + 1 /\ k + ((2 + l) - 1) = k + 1 + l
      /\ k + ((2 + l + s) - 1) = k + 1 + l + s /\ k + ((2 + l + s + m) - 1) = k + 1 + l + s + m
  BY <1>1, <1>4
<1>9. /\ fmt[k + 1] = text[2] /\ fmt[k + 1 + l] = text[2 + l]
      /\ fmt[k + 1 + l + s] = text[2 + l + s] /\ fmt[k + 1 + l + s + m] = type
  BY <1>2, <1>7, <1>8
<1>10. IF m = 1 THEN fmt[k + 1 + l + s] = modifier[1] /\ modifier[1] \in Modifiers
                ELSE fmt[k + 1 + l + s] \in TypeChars
  <2>1. m = 0 => k + 1 + l + s + m = k + 1 + l + s
    BY <1>1, <1>4
  <2> QED BY <1>1, <1>2, <1>9, <2>1
<1>11. IF s = 1 THEN fmt[k + 1 + l] = "*" ELSE fmt[k + 1 + l] \in Modifiers \cup TypeChars
  <2>1. s = 0 => k + 1 + l + s = k + 1 + l
    BY <1>1, <1>4
  <2> QED BY <1>1, <1>2, <1>9, <1>10, <2>1
<1>12. IF l = 1 THEN fmt[k + 1] = "-" ELSE fmt[k + 1] \in {"*"} \cup Modifiers \cup TypeChars
  <2>1. l = 0 => k + 1 + l = k + 1
    BY <1>1, <1>4
  <2> QED BY <1>1, <1>2, <1>9, <1>11, <2>1
<1>13. k + 1 + l + s + m \in 1 .. Len(fmt)
  BY <1>1, <1>2, <1>3, <1>4
<1> QED BY <1>1, <1>9, <1>10, <1>11, <1>12, <1>13 DEF l, s, m

(* Only one begins at a place.                                             *)
LEMMA SpecUnique ==
  ASSUME NEW left1 \in Lefts, NEW star1 \in Stars, NEW modifier1 \in Mods, NEW type1 \in TypeChars,
         NEW left2 \in Lefts, NEW star2 \in Stars, NEW modifier2 \in Mods, NEW type2 \in TypeChars,
         NEW fmt, IsText(fmt), NEW k \in 1 .. Len(fmt),
         BeginsAt(SpecOf(left1, star1, modifier1, type1).text, fmt, k),
         BeginsAt(SpecOf(left2, star2, modifier2, type2).text, fmt, k)
  PROVE  left1 = left2 /\ star1 = star2 /\ modifier1 = modifier2 /\ type1 = type2
<1> DEFINE Are(l, s, m, left, star, modifier, type) ==
             /\ l \in 0 .. 1 /\ s \in 0 .. 1 /\ m \in 0 .. 1
             /\ (l = 0 <=> left = << >>) /\ (s = 0 <=> star = << >>) /\ (m = 0 <=> modifier = << >>)
             /\ IF l = 1 THEN fmt[k + 1] = "-"
                         ELSE fmt[k + 1] \in {"*"} \cup Modifiers \cup TypeChars
             /\ IF s = 1 THEN fmt[k + 1 + l] = "*" ELSE fmt[k + 1 + l] \in Modifiers \cup TypeChars
             /\ IF m = 1 THEN fmt[k + 1 + l + s] = modifier[1] /\ modifier[1] \in Modifiers
                         ELSE fmt[k + 1 + l + s] \in TypeChars
             /\ fmt[k + 1 + l + s + m] = type
<1>1. PICK l1, s1, m1 : Are(l1, s1, m1, left1, star1, modifier1, type1)
  <2>1. Are(Len(left1), Len(star1), Len(modifier1), left1, star1, modifier1, type1)
    BY SpecAt
  <2> HIDE DEF Are
  <2> QED BY <2>1
<1>2. PICK l2, s2, m2 : Are(l2, s2, m2, left2, star2, modifier2, type2)
  <2>1. Are(Len(left2), Len(star2), Len(modifier2), left2, star2, modifier2, type2)
    BY SpecAt
  <2> HIDE DEF Are
  <2> QED BY <2>1
<1>3. "-" \notin {"*"} \cup Modifiers \cup TypeChars /\ "*" \notin Modifiers \cup TypeChars
      /\ Modifiers \cap TypeChars = {}
  BY DEF Modifiers, TypeChars
<1>4. l1 = l2
  BY <1>1, <1>2, <1>3
<1>5. s1 = s2
  BY <1>1, <1>2, <1>3, <1>4
<1>6. m1 = m2
  BY <1>1, <1>2, <1>3, <1>4, <1>5
<1>7. type1 = type2
  BY <1>1, <1>2, <1>4, <1>5, <1>6
<1>8. m1 = 1 => modifier1[1] = modifier2[1]
  BY <1>1, <1>2, <1>4, <1>5, <1>6
<1>9. left1 = left2 /\ star1 = star2
  BY <1>1, <1>2, <1>4, <1>5 DEF Lefts, Stars
<1>10. modifier1 = modifier2
  <2>1. CASE m1 = 0
    BY <1>1, <1>2, <1>6, <2>1
  <2>2. CASE m1 = 1
    <3>1. modifier1[1] = modifier2[1] /\ modifier1 # << >> /\ modifier2 # << >>
      BY <1>1, <1>2, <1>6, <1>8, <2>2
    <3>2. <<"b">>[1] = "b" /\ <<"h">>[1] = "h" /\ <<"l">>[1] = "l"
      OBVIOUS
    <3> QED BY ONLY <3>1, <3>2, modifier1 \in Mods, modifier2 \in Mods DEF Mods
  <2> QED BY <1>1, <2>1, <2>2
<1> QED BY <1>7, <1>9, <1>10

(* The specifier that begins at a place is the one there is.               *)
LEMMA SpecChosen ==
  ASSUME NEW left \in Lefts, NEW star \in Stars, NEW modifier \in Mods, NEW type \in TypeChars,
         NEW fmt, IsText(fmt), NEW k \in 1 .. Len(fmt),
         BeginsAt(SpecOf(left, star, modifier, type).text, fmt, k)
  PROVE  /\ \E s \in Specifiers : BeginsAt(s.text, fmt, k)
         /\ (CHOOSE s \in Specifiers : BeginsAt(s.text, fmt, k))
              = SpecOf(left, star, modifier, type)
<1> DEFINE t == SpecOf(left, star, modifier, type)
           c == CHOOSE s \in Specifiers : BeginsAt(s.text, fmt, k)
<1>1. t \in Specifiers /\ BeginsAt(t.text, fmt, k)
  BY SpecifiersAre
<1>2. c \in Specifiers /\ BeginsAt(c.text, fmt, k)
  <2> HIDE DEF t
  <2> QED BY <1>1
<1> HIDE DEF c
<1>3. PICK left2 \in Lefts, star2 \in Stars, modifier2 \in Mods, type2 \in TypeChars :
        c = SpecOf(left2, star2, modifier2, type2)
  BY <1>2, SpecifiersAre
<1>4. BeginsAt(SpecOf(left2, star2, modifier2, type2).text, fmt, k)
  BY <1>2, <1>3
<1>5. left2 = left /\ star2 = star /\ modifier2 = modifier /\ type2 = type
  BY <1>4, SpecUnique
<1>6. c = t
  BY <1>3, <1>5
<1> QED BY <1>1, <1>6 DEF c

(* The first character of a specifier is a percent sign, the second is not.*)
LEMMA SpecBegins ==
  ASSUME NEW left \in Lefts, NEW star \in Stars, NEW modifier \in Mods, NEW type \in TypeChars,
         NEW fmt, IsText(fmt), NEW k \in 1 .. Len(fmt),
         BeginsAt(SpecOf(left, star, modifier, type).text, fmt, k)
  PROVE  fmt[k] = "%" /\ ~ BeginsAt(<<"%", "%">>, fmt, k)
<1> DEFINE text == SpecOf(left, star, modifier, type).text
<1>1. HasParts(text, left, star, modifier, type)
  BY SpecText
<1>2. \A j \in 1 .. Len(text) : fmt[k + j - 1] = text[j]
  BY DEF BeginsAt
<1>3. Len(left) \in 0 .. 1 /\ Len(star) \in 0 .. 1 /\ Len(modifier) \in 0 .. 1
  BY PartsOf
<1> HIDE DEF text
<1>4. 1 \in 1 .. Len(text) /\ text[1] = "%" /\ k \in Nat
  BY <1>1, <1>3 DEF HasParts, IsText
<1>5. fmt[k + 1 - 1] = "%" /\ k + 1 - 1 = k
  BY <1>2, <1>4
<1>6. fmt[k + 1] # "%"
  <2>1. IF Len(left) = 1 THEN fmt[k + 1] = "-"
                         ELSE fmt[k + 1] \in {"*"} \cup Modifiers \cup TypeChars
    BY SpecAt
  <2> QED BY <2>1 DEF Modifiers, TypeChars
<1>7. BeginsAt(<<"%", "%">>, fmt, k) => fmt[k + 1] = "%"
  <2> DEFINE p == <<"%", "%">>
  <2>1. Len(p) = 2 /\ p[2] = "%" /\ 2 \in 1 .. 2 /\ k + 2 - 1 = k + 1
    BY <1>4
  <2> HIDE DEF p
  <2> QED BY <2>1 DEF BeginsAt, p
<1> QED BY <1>5, <1>6, <1>7

(* Where something begins there is a percent sign.                         *)
LEMMA NothingBegins ==
  ASSUME NEW fmt, IsText(fmt), NEW k \in Nat \ {0}, k > Len(fmt) \/ fmt[k] # "%"
  PROVE  ~ BeginsAt(<<"%", "%">>, fmt, k) /\ ~ \E s \in Specifiers : BeginsAt(s.text, fmt, k)
<1>1. Len(fmt) \in Nat
  BY DEF IsText
<1>2. ASSUME NEW text, Len(text) \in Nat, Len(text) >= 1, text[1] = "%", BeginsAt(text, fmt, k)
      PROVE  FALSE
  <2>1. k + Len(text) <= Len(fmt) + 1 /\ fmt[k + 1 - 1] = text[1] /\ k + 1 - 1 = k
    BY <1>1, <1>2 DEF BeginsAt
  <2> QED BY <1>1, <1>2, <2>1
<1>3. ~ BeginsAt(<<"%", "%">>, fmt, k)
  <2> DEFINE p == <<"%", "%">>
  <2>1. Len(p) = 2 /\ p[1] = "%"
    OBVIOUS
  <2> HIDE DEF p
  <2> QED BY <1>2, <2>1 DEF p
<1>4. ASSUME NEW s \in Specifiers, BeginsAt(s.text, fmt, k) PROVE FALSE
  <2>1. PICK left \in Lefts, star \in Stars, modifier \in Mods, type \in TypeChars :
          s = SpecOf(left, star, modifier, type)
    BY SpecifiersAre
  <2> DEFINE text == SpecOf(left, star, modifier, type).text
  <2>2. HasParts(text, left, star, modifier, type) /\ BeginsAt(text, fmt, k)
    BY <1>4, <2>1, SpecText
  <2>3. Len(left) \in 0 .. 1 /\ Len(star) \in 0 .. 1 /\ Len(modifier) \in 0 .. 1
    BY PartsOf
  <2> HIDE DEF text
  <2>4. Len(text) \in Nat /\ Len(text) >= 1 /\ text[1] = "%"
    BY <2>2, <2>3 DEF HasParts
  <2> QED BY <1>2, <2>2, <2>4
<1> QED BY <1>3, <1>4

(* Directive(), with what it makes of a specifier left open.               *)
LEMMA DirectiveIs ==
  ASSUME NEW fmt, NEW arguments, NEW k, NEW a
  PROVE  \E written : Directive(fmt, arguments, k, a) =
           CASE k > Len(fmt) \/ fmt[k] = "NUL" -> [kind |-> "end"]
             [] k <= Len(fmt) /\ fmt[k] \notin {"%", "NUL"} ->
                  [kind |-> "writes", text |-> <<fmt[k]>>, next |-> k + 1, arg |-> a]
             [] BeginsAt(<<"%", "%">>, fmt, k) ->
                  [kind |-> "writes", text |-> <<"%">>, next |-> k + 2, arg |-> a]
             [] \E spec \in Specifiers : BeginsAt(spec.text, fmt, k) -> written
             [] OTHER -> [kind |-> "malformed"]
BY Zenon DEF Directive

(* What Directive() makes of the end, ...                                  *)
LEMMA DirectiveOfEnd ==
  ASSUME NEW fmt, IsText(fmt), NEW arguments, NEW k \in Nat \ {0}, NEW a \in Nat,
         k > Len(fmt) \/ fmt[k] = "NUL"
  PROVE  Directive(fmt, arguments, k, a) = [kind |-> "end"]
<1>1. Len(fmt) \in Nat /\ (k > Len(fmt) => ~ (k <= Len(fmt)))
  BY DEF IsText
<1>2. ~ BeginsAt(<<"%", "%">>, fmt, k) /\ ~ \E s \in Specifiers : BeginsAt(s.text, fmt, k)
  BY NothingBegins
<1>3. ~ (k <= Len(fmt) /\ fmt[k] \notin {"%", "NUL"})
  BY <1>1
<1> QED BY <1>2, <1>3, DirectiveIs

(* ... of a character, ...                                                 *)
LEMMA DirectiveOfChar ==
  ASSUME NEW fmt, IsText(fmt), NEW arguments, NEW k \in 1 .. Len(fmt), NEW a \in Nat,
         fmt[k] \notin {"%", "NUL"}
  PROVE  Directive(fmt, arguments, k, a)
           = [kind |-> "writes", text |-> <<fmt[k]>>, next |-> k + 1, arg |-> a]
<1>1. k \in Nat /\ Len(fmt) \in Nat /\ ~ (k > Len(fmt))
  BY DEF IsText
<1>2. ~ BeginsAt(<<"%", "%">>, fmt, k) /\ ~ \E s \in Specifiers : BeginsAt(s.text, fmt, k)
  BY <1>1, NothingBegins
<1>3. k <= Len(fmt)
  BY <1>1
<1> QED BY <1>1, <1>2, <1>3, DirectiveIs

(* ... of two percent signs, ...                                           *)
LEMMA DirectiveOfPercent ==
  ASSUME NEW fmt, IsText(fmt), NEW arguments, NEW k \in 1 .. Len(fmt), NEW a \in Nat,
         BeginsAt(<<"%", "%">>, fmt, k)
  PROVE  Directive(fmt, arguments, k, a)
           = [kind |-> "writes", text |-> <<"%">>, next |-> k + 2, arg |-> a]
<1>1. k \in Nat /\ Len(fmt) \in Nat /\ ~ (k > Len(fmt))
  BY DEF IsText
<1>2. fmt[k] = "%"
  <2> DEFINE p == <<"%", "%">>
  <2>1. Len(p) = 2 /\ p[1] = "%" /\ 1 \in 1 .. 2 /\ k + 1 - 1 = k
    BY <1>1
  <2> HIDE DEF p
  <2> QED BY <2>1 DEF BeginsAt, p
<1>3. ~ \E s \in Specifiers : BeginsAt(s.text, fmt, k)
  BY SpecBegins, SpecifiersAre
<1> QED BY <1>1, <1>2, <1>3, DirectiveIs

(* ... and of a specifier.                                                 *)
LEMMA DirectiveOfSpec ==
  ASSUME NEW left \in Lefts, NEW star \in Stars, NEW modifier \in Mods, NEW type \in TypeChars,
         NEW fmt, IsText(fmt), NEW arguments, NEW k \in 1 .. Len(fmt), NEW a \in Nat,
         BeginsAt(SpecOf(left, star, modifier, type).text, fmt, k)
  PROVE  LET spec  == SpecOf(left, star, modifier, type)
             first == IF star = << >> THEN a ELSE a + 1
         IN  Directive(fmt, arguments, k, a) =
               [kind |-> "writes",
                text |-> Written(type, spec.modifier, arguments[first],
                                 IF star = << >> THEN 0 ELSE arguments[a], left # << >>),
                next |-> k + Len(spec.text), arg |-> first + 1]
<1> DEFINE spec == SpecOf(left, star, modifier, type)
           chosen == CHOOSE s \in Specifiers : BeginsAt(s.text, fmt, k)
           first == IF spec.star THEN a + 1 ELSE a
           result2 == [kind |-> "writes",
              text |-> Written(spec.type, spec.modifier, arguments[first],
                               IF spec.star THEN arguments[a] ELSE 0, spec.left),
              next |-> k + Len(spec.text), arg |-> first + 1]
<1>1. k \in Nat /\ Len(fmt) \in Nat /\ ~ (k > Len(fmt))
  BY DEF IsText
<1>2. fmt[k] = "%" /\ ~ BeginsAt(<<"%", "%">>, fmt, k)
  BY SpecBegins
<1>3. (\E s \in Specifiers : BeginsAt(s.text, fmt, k)) /\ chosen = spec
  BY SpecChosen
<1>4. Directive(fmt, arguments, k, a) = result2
  <2> HIDE DEF spec
  <2> DEFINE other == [kind |-> "writes",
              text |-> Written(chosen.type, chosen.modifier,
                               arguments[IF chosen.star THEN a + 1 ELSE a],
                               IF chosen.star THEN arguments[a] ELSE 0, chosen.left),
              next |-> k + Len(chosen.text), arg |-> (IF chosen.star THEN a + 1 ELSE a) + 1]
  <2>1. Directive(fmt, arguments, k, a) = other
    <3> HIDE DEF other
    <3> QED BY <1>1, <1>2, <1>3 DEF Directive, other
  <2> HIDE DEF chosen
  <2> QED BY <1>3, <2>1
<1>5. spec.star = (star # << >>) /\ spec.left = (left # << >>) /\ spec.type = type
  BY DEF SpecOf
<1> HIDE DEF spec
<1> QED BY <1>4, <1>5 DEF spec

(* A directive that writes something moves on in the format.               *)
LEMMA DirectiveMoves ==
  ASSUME NEW fmt, IsText(fmt), NEW arguments, NEW k \in 1 .. Len(fmt) + 1, NEW a \in Nat,
         Directive(fmt, arguments, k, a).kind = "writes"
  PROVE  /\ Directive(fmt, arguments, k, a).next \in k + 1 .. Len(fmt) + 1
         /\ Directive(fmt, arguments, k, a).arg \in Nat
<1> DEFINE d == Directive(fmt, arguments, k, a)
<1>1. k \in Nat /\ Len(fmt) \in Nat
  BY DEF IsText
<1>2. CASE k > Len(fmt) \/ fmt[k] = "NUL"
  <2>1. d = [kind |-> "end"]
    BY <1>1, <1>2, DirectiveOfEnd
  <2> QED BY <2>1
<1>3. CASE k \in 1 .. Len(fmt) /\ fmt[k] \notin {"%", "NUL"}
  <2>1. d = [kind |-> "writes", text |-> <<fmt[k]>>, next |-> k + 1, arg |-> a]
    BY <1>3, DirectiveOfChar
  <2>2. k + 1 \in k + 1 .. Len(fmt) + 1
    BY <1>1, <1>3
  <2> HIDE DEF d
  <2> QED BY <2>1, <2>2 DEF d
<1>4. CASE k \in 1 .. Len(fmt) /\ BeginsAt(<<"%", "%">>, fmt, k)
  <2>1. d = [kind |-> "writes", text |-> <<"%">>, next |-> k + 2, arg |-> a]
    BY <1>4, DirectiveOfPercent
  <2>2. k + 2 \in k + 1 .. Len(fmt) + 1
    <3>1. k + Len(<<"%", "%">>) <= Len(fmt) + 1
      BY <1>4 DEF BeginsAt
    <3> QED BY <1>1, <3>1
  <2> HIDE DEF d
  <2> QED BY <2>1, <2>2 DEF d
<1>5. CASE k \in 1 .. Len(fmt) /\ \E s \in Specifiers : BeginsAt(s.text, fmt, k)
  <2>1. PICK s \in Specifiers : BeginsAt(s.text, fmt, k)
    BY <1>5
  <2>2. PICK left \in Lefts, star \in Stars, modifier \in Mods, type \in TypeChars :
          s = SpecOf(left, star, modifier, type)
    BY SpecifiersAre
  <2> DEFINE spec == SpecOf(left, star, modifier, type)
             first == IF star = << >> THEN a ELSE a + 1
             text == Written(type, spec.modifier, arguments[first],
                             IF star = << >> THEN 0 ELSE arguments[a], left # << >>)
  <2>3. BeginsAt(spec.text, fmt, k)
    BY <2>1, <2>2
  <2>4. d = [kind |-> "writes", text |-> text, next |-> k + Len(spec.text), arg |-> first + 1]
    BY <1>5, <2>3, DirectiveOfSpec
  <2>5. HasParts(spec.text, left, star, modifier, type)
    BY SpecText
  <2>6. Len(left) \in 0 .. 1 /\ Len(star) \in 0 .. 1 /\ Len(modifier) \in 0 .. 1
    BY PartsOf
  <2> HIDE DEF spec, text
  <2>7. k + Len(spec.text) \in k + 1 .. Len(fmt) + 1
    BY <1>1, <2>3, <2>5, <2>6 DEF BeginsAt, HasParts
  <2>8. first + 1 \in Nat
    OBVIOUS
  <2> HIDE DEF d, first
  <2> QED BY <2>4, <2>7, <2>8 DEF d
<1>6. CASE ~ (k > Len(fmt) \/ fmt[k] = "NUL") /\ fmt[k] = "%" /\ ~ BeginsAt(<<"%", "%">>, fmt, k)
           /\ ~ \E s \in Specifiers : BeginsAt(s.text, fmt, k)
  <2>1. d = [kind |-> "malformed"]
    BY <1>6 DEF Directive
  <2> QED BY <2>1
<1>7. k > Len(fmt) \/ k \in 1 .. Len(fmt)
  BY <1>1
<1> QED BY <1>2, <1>3, <1>4, <1>5, <1>6, <1>7
-----------------------------------------------------------------------------
(* What is written from each place of a format on.                         *)
LEMMA ContinuedSame ==
  ASSUME NEW fmt, IsText(fmt), NEW arguments, NEW k \in 1 .. Len(fmt) + 1, NEW f, NEW g,
         \A j \in k + 1 .. Len(fmt) + 1 : f[j] = g[j]
  PROVE  Continued(f, fmt, arguments, k) = Continued(g, fmt, arguments, k)
<1> DEFINE d(a) == Directive(fmt, arguments, k, a)
           E(h, a) == IF d(a).kind = "writes"
                        THEN [text |-> d(a).text \o h[d(a).next][d(a).arg].text,
                              ok |-> h[d(a).next][d(a).arg].ok]
                        ELSE [text |-> << >>, ok |-> d(a).kind = "end"]
<1>1. Continued(f, fmt, arguments, k) = [a \in Nat |-> E(f, a)]
      /\ Continued(g, fmt, arguments, k) = [a \in Nat |-> E(g, a)]
  BY SMTT(40) DEF Continued
<1>2. ASSUME NEW a \in Nat PROVE E(f, a) = E(g, a)
  <2>1. d(a).kind = "writes" => d(a).next \in k + 1 .. Len(fmt) + 1
    BY DirectiveMoves
  <2> HIDE DEF d
  <2>2. d(a).kind = "writes" => f[d(a).next] = g[d(a).next]
    BY <2>1
  <2> QED BY <2>2
<1> HIDE DEF E
<1> QED BY <1>1, <1>2

(* There is such a function.                                               *)
LEMMA ReadingExists ==
  ASSUME NEW fmt, IsText(fmt), NEW arguments
  PROVE  \E f : IsReading(f, fmt, arguments)
<1> DEFINE n == Len(fmt)
           C(f, k) == Continued(f, fmt, arguments, k)
           S == {m \in 0 .. n + 1 : \E f : \A k \in n + 2 - m .. n + 1 : f[k] = C(f, k)}
<1>1. n \in Nat
  BY DEF IsText
<1>2. \A k \in 1 .. n + 1 : \A f, g : (\A j \in k + 1 .. n + 1 : f[j] = g[j]) => C(f, k) = C(g, k)
  BY ContinuedSame
<1> HIDE DEF n, C
<1>3. 0 \in S
  <2>1. \A k \in n + 2 - 0 .. n + 1 : FALSE
    BY <1>1
  <2> QED BY <1>1, <2>1
<1>4. ASSUME NEW m \in 0 .. (n + 1) - 1, m \in S PROVE m + 1 \in S
  <2>1. PICK f : \A k \in n + 2 - m .. n + 1 : f[k] = C(f, k)
    BY <1>4
  <2> DEFINE p == n + 1 - m
             g == [k \in 1 .. n + 1 |-> IF k = p THEN C(f, p) ELSE f[k]]
  <2>2. p \in 1 .. n + 1 /\ n + 2 - (m + 1) = p /\ n + 2 - m = p + 1 /\ m + 1 \in 0 .. n + 1
    BY <1>1
  <2> HIDE DEF p
  <2>3. \A j \in p + 1 .. n + 1 : g[j] = f[j]
    BY <1>1, <2>2
  <2>4. g[p] = C(f, p)
    BY <2>2
  <2> HIDE DEF g
  <2>5. ASSUME NEW k \in p .. n + 1 PROVE g[k] = C(g, k)
    <3>1. k \in 1 .. n + 1 /\ \A j \in k + 1 .. n + 1 : j \in p + 1 .. n + 1
      BY <1>1, <2>2
    <3>2. C(f, k) = C(g, k)
      BY <1>2, <2>3, <3>1
    <3>3. CASE k = p
      BY <2>4, <3>2, <3>3
    <3>4. CASE k # p
      <4>1. k \in p + 1 .. n + 1
        BY <1>1, <2>2, <3>4
      <4> QED BY <2>1, <2>2, <2>3, <3>2, <4>1
    <3> QED BY <3>3, <3>4
  <2> QED BY <2>2, <2>5
<1>5. n + 1 \in S
  <2>1. n + 1 \in 0 .. n + 1 /\ n + 1 \in Nat
    BY <1>1
  <2> HIDE DEF S
  <2> QED BY <1>3, <1>4, <2>1, SetInduction
<1>6. PICK f : \A k \in 1 .. n + 1 : f[k] = C(f, k)
  <2>1. n + 2 - (n + 1) = 1
    BY <1>1
  <2> QED BY <1>5, <2>1
<1> DEFINE h == [k \in 1 .. n + 1 |-> f[k]]
<1>7. ASSUME NEW k \in 1 .. n + 1 PROVE h[k] = C(h, k)
  <2>1. \A j \in k + 1 .. n + 1 : f[j] = h[j]
    BY <1>1
  <2> HIDE DEF h
  <2>2. C(f, k) = C(h, k)
    BY <1>2, <2>1
  <2> QED BY <1>6, <2>2 DEF h
<1>8. h = [k \in 1 .. n + 1 |-> C(h, k)]
  <2>1. h = [k \in 1 .. n + 1 |-> h[k]]
    OBVIOUS
  <2> HIDE DEF h
  <2> QED BY <1>7, <2>1
<1> HIDE DEF h
<1> QED BY <1>8 DEF IsReading, C, n

(* Documented(), unfolded by a directive.                                  *)
Unfolds(f, fmt, arguments, k, a) ==
  LET d == Directive(fmt, arguments, k, a) IN
  f[k][a] = IF d.kind = "writes"
              THEN [text |-> d.text \o f[d.next][d.arg].text, ok |-> f[d.next][d.arg].ok]
              ELSE [text |-> << >>, ok |-> d.kind = "end"]

(* What is documented of a format is unfolded from its beginning.          *)
LEMMA FromIs ==
  ASSUME NEW fmt, IsText(fmt), NEW arguments
  PROVE  /\ Documented(fmt, arguments) = From(fmt, arguments)[1][1]
         /\ \A k \in 1 .. Len(fmt) + 1, a \in Nat :
              Unfolds(From(fmt, arguments), fmt, arguments, k, a)
<1> DEFINE g == From(fmt, arguments)
<1>1. IsReading(g, fmt, arguments)
  BY ReadingExists DEF From
<1>2. Documented(fmt, arguments) = g[1][1]
  BY SMTT(40) DEF Documented, From, IsReading, Continued
<1> HIDE DEF g
<1>3. ASSUME NEW k \in 1 .. Len(fmt) + 1, NEW a \in Nat PROVE Unfolds(g, fmt, arguments, k, a)
  <2>1. g[k] = Continued(g, fmt, arguments, k)
    BY <1>1 DEF IsReading
  <2> QED BY <2>1 DEF Continued, Unfolds
<1> QED BY <1>2, <1>3 DEF g

(* However a format and its arguments go on that begin with base and with  *)
(* the arguments first, out is what is to be written of these.             *)
Writes(base, first, out) ==
  \A rest, more : IsText(rest) /\ IsText(more) =>
    LET f == From(base \o rest, first \o more)
        g == f[Len(base) + 1][Len(first) + 1]
    IN  IsText(g.text) => f[1][1].text = out \o g.text /\ f[1][1].ok = g.ok

(* Of nothing, nothing is.                                                 *)
LEMMA WritesNothing == Writes(<< >>, << >>, << >>)
<1>1. IsText(<< >>) /\ Len(<< >>) + 1 = 1
  BY EmptyText
<1>2. ASSUME NEW rest, NEW more, IsText(rest), IsText(more),
             IsText(From(<< >> \o rest, << >> \o more)[1][1].text)
      PROVE  From(<< >> \o rest, << >> \o more)[1][1].text
               = << >> \o From(<< >> \o rest, << >> \o more)[1][1].text
  BY SMTT(40), <1>2, JoinedWithEmpty
<1> QED BY <1>1, <1>2 DEF Writes

(* The next piece of a format.                                             *)
LEMMA WritesMore ==
  ASSUME NEW base, IsText(base), NEW first, IsText(first), NEW out, IsText(out),
         Writes(base, first, out),
         NEW piece, IsText(piece), NEW given, IsText(given), NEW text, IsText(text),
         \A rest, more : IsText(rest) /\ IsText(more) =>
           Directive((base \o piece) \o rest, (first \o given) \o more,
                     Len(base) + 1, Len(first) + 1)
             = [kind |-> "writes", text |-> text, next |-> Len(base) + 1 + Len(piece),
                arg |-> Len(first) + 1 + Len(given)]
  PROVE  Writes(base \o piece, first \o given, out \o text)
<1> DEFINE k == Len(base) + 1
           a == Len(first) + 1
           k2 == Len(base \o piece) + 1
           a2 == Len(first \o given) + 1
<1>1. /\ Len(base) \in Nat /\ Len(first) \in Nat /\ Len(piece) \in Nat /\ Len(given) \in Nat
      /\ Len(base \o piece) = Len(base) + Len(piece)
      /\ Len(first \o given) = Len(first) + Len(given)
      /\ IsText(base \o piece) /\ IsText(first \o given)
  BY ZenonT(40), Joined DEF IsText
<1>2. ASSUME NEW rest, NEW more, IsText(rest), IsText(more),
             IsText(From((base \o piece) \o rest, (first \o given) \o more)[k2][a2].text)
      PROVE  LET f == From((base \o piece) \o rest, (first \o given) \o more)
                 g == f[k2][a2]
             IN  f[1][1].text = (out \o text) \o g.text /\ f[1][1].ok = g.ok
  <2> DEFINE fmt == (base \o piece) \o rest
             ar == (first \o given) \o more
             f == From(fmt, ar)
             g == f[k2][a2]
             h == f[k][a]
  <2>1. IsText(piece \o rest) /\ IsText(given \o more)
        /\ fmt = base \o (piece \o rest) /\ ar = first \o (given \o more)
    <3>1. IsText(base) /\ IsText(piece) /\ IsText(rest)
      BY <1>2
    <3>2. IsText(first) /\ IsText(given) /\ IsText(more)
      BY <1>2
    <3>3. IsText(piece \o rest) /\ (base \o piece) \o rest = base \o (piece \o rest)
      BY ONLY SMTT(40), <3>1, Joined, JoinedThree
    <3>4. IsText(given \o more) /\ (first \o given) \o more = first \o (given \o more)
      BY ONLY SMTT(40), <3>2, Joined, JoinedThree
    <3> QED BY <3>3, <3>4
  <2>2. IsText(fmt) /\ Len(fmt) = Len(base) + Len(piece) + Len(rest) /\ Len(rest) \in Nat
    <3>1. IsText(base \o piece) /\ IsText(rest)
      BY <1>1, <1>2
    <3>2. IsText(fmt) /\ Len(fmt) = Len(base \o piece) + Len(rest)
      BY ONLY <3>1, Joined
    <3> QED BY <1>1, <3>1, <3>2 DEF IsText
  <2>3. k2 = Len(base) + 1 + Len(piece) /\ a2 = Len(first) + 1 + Len(given)
        /\ k \in Nat /\ a \in Nat
    BY <1>1
  <2>4. IsText(h.text) => f[1][1].text = out \o h.text /\ f[1][1].ok = h.ok
    <3>1. \A r, m : IsText(r) /\ IsText(m) /\ IsText(From(base \o r, first \o m)[k][a].text) =>
                      /\ From(base \o r, first \o m)[1][1].text
                           = out \o From(base \o r, first \o m)[k][a].text
                      /\ From(base \o r, first \o m)[1][1].ok = From(base \o r, first \o m)[k][a].ok
      BY DEF Writes
    <3> HIDE DEF k, a
    <3> QED BY <2>1, <3>1
  <2>5. Directive(fmt, ar, k, a) = [kind |-> "writes", text |-> text, next |-> k2, arg |-> a2]
    <3>1. Directive(fmt, ar, k, a) = [kind |-> "writes", text |-> text,
                                      next |-> Len(base) + 1 + Len(piece),
                                      arg |-> Len(first) + 1 + Len(given)]
      BY <1>2
    <3> QED BY <2>3, <3>1
  <2>6. k \in 1 .. Len(fmt) + 1
    BY <1>1, <2>2
  <2> HIDE DEF k, a, k2, a2
  <2>7. h = [text |-> text \o g.text, ok |-> g.ok]
    <3> HIDE DEF fmt, ar
    <3>1. Unfolds(f, fmt, ar, k, a)
      BY <2>2, <2>3, <2>6, FromIs
    <3> HIDE DEF f
    <3> QED BY <2>5, <3>1 DEF Unfolds
  <2>8. IsText(g.text)
    BY <1>2
  <2> HIDE DEF fmt, ar, f, g, h
  <2>9. h.text = text \o g.text /\ h.ok = g.ok
    BY <2>7
  <2>10. IsText(h.text)
    BY <2>8, <2>9, Joined
  <2>11. f[1][1].text = out \o (text \o g.text) /\ f[1][1].ok = g.ok
    BY <2>4, <2>9, <2>10
  <2>12. out \o (text \o g.text) = (out \o text) \o g.text
    <3>1. IsText(out) /\ IsText(text) /\ IsText(g.text)
      BY <2>8
    <3>2. \A t : IsText(t) => (out \o text) \o t = out \o (text \o t)
      BY ONLY <3>1, JoinedThree
    <3> QED BY <3>1, <3>2
  <2> QED BY <2>11, <2>12 DEF f, g, fmt, ar
<1> HIDE DEF k, a, k2, a2
<1>3. \A rest, more : IsText(rest) /\ IsText(more) =>
        LET f == From((base \o piece) \o rest, (first \o given) \o more)
            g == f[k2][a2]
        IN  IsText(g.text) => f[1][1].text = (out \o text) \o g.text /\ f[1][1].ok = g.ok
  BY ZenonT(40), <1>2
<1> QED BY <1>3 DEF Writes, k2, a2

(* The end of a format, or of what is well-formed of it.                   *)
LEMMA WritesAll ==
  ASSUME NEW base, IsText(base), NEW first, IsText(first), NEW out, IsText(out),
         Writes(base, first, out), NEW rest, IsText(rest), NEW more, IsText(more),
         NEW kind, kind # "writes",
         Directive(base \o rest, first \o more, Len(base) + 1, Len(first) + 1) = [kind |-> kind]
  PROVE  /\ Documented(base \o rest, first \o more).text = out
         /\ Documented(base \o rest, first \o more).ok = (kind = "end")
<1> DEFINE fmt == base \o rest
           ar == first \o more
           f == From(fmt, ar)
           k == Len(base) + 1
           a == Len(first) + 1
<1>1. IsText(fmt) /\ k \in 1 .. Len(fmt) + 1 /\ a \in Nat
  <2>1. /\ Len(base) \in Nat /\ Len(first) \in Nat /\ Len(rest) \in Nat
        /\ IsText(fmt) /\ Len(fmt) = Len(base) + Len(rest)
    BY ZenonT(40), Joined DEF IsText
  <2> QED BY <2>1
<1>2. Directive(fmt, ar, k, a) = [kind |-> kind]
  OBVIOUS
<1>3. IsText(f[k][a].text) => f[1][1].text = out \o f[k][a].text /\ f[1][1].ok = f[k][a].ok
  BY DEF Writes
<1> HIDE DEF fmt, ar, k, a
<1>4. Documented(fmt, ar) = f[1][1] /\ Unfolds(f, fmt, ar, k, a)
  BY <1>1, FromIs
<1> HIDE DEF f
<1>5. f[k][a].text = << >> /\ f[k][a].ok = (kind = "end")
  BY <1>2, <1>4 DEF Unfolds
<1>6. Documented(fmt, ar).text = out /\ Documented(fmt, ar).ok = (kind = "end")
  BY <1>3, <1>4, <1>5, EmptyText, JoinedWithEmpty
<1> QED BY <1>6 DEF fmt, ar

(* Dividing twice.                                                         *)
LEMMA DivDiv ==
  ASSUME NEW n \in Nat, NEW a \in Nat \ {0}, NEW b \in Nat \ {0}
  PROVE  (n \div a) \div b = n \div (a * b)
<1> DEFINE q == n \div a
           r == n % a
           s == q \div b
           t == q % b
           c == a * b
<1>1. n = a * q + r /\ r \in 0 .. a - 1 /\ q \in Nat
  OBVIOUS
<1> HIDE DEF q, r
<1>2. q = b * s + t /\ t \in 0 .. b - 1 /\ s \in Nat
  BY <1>1
<1> HIDE DEF s, t
<1>3. c \in Nat \ {0}
  OBVIOUS
<1>4. a * q = c * s + a * t
  BY <1>1, <1>2
<1>5. a * t + r \in 0 .. c - 1
  <2>1. a * t <= a * (b - 1) /\ a * (b - 1) = c - a /\ a * t \in Nat
    BY <1>2
  <2>2. c \in Int
    BY <1>3
  <2> HIDE DEF c
  <2> QED BY <1>1, <2>1, <2>2
<1>6. a * t \in Nat /\ c * s \in Nat
  BY <1>2, <1>3
<1> DEFINE u == a * t + r
<1>7. n = c * s + u /\ u \in 0 .. c - 1
  <2> DEFINE x == a * q
             y == a * t
             z == c * s
  <2>1. x = z + y /\ n = x + r /\ y \in Nat /\ z \in Nat /\ r \in Nat
    BY <1>1, <1>4, <1>6
  <2>2. n = z + (y + r)
    <3> HIDE DEF x, y, z
    <3> QED BY <2>1
  <2> QED BY <1>5, <2>2
<1> HIDE DEF c, u
<1>8. n \div c = s
  BY <1>2, <1>3, <1>7
<1> QED BY <1>8 DEF s, q, c

(* Powers, step by step.                                                   *)
LEMMA PowersStep ==
  /\ 16^0 = 1 /\ \A m \in 0 .. 7 : 16^m \in Nat \ {0} /\ 16^(m + 1) = 16 * 16^m
  /\ 10^0 = 1 /\ \A m \in 0 .. 9 : 10^m \in Nat \ {0} /\ 10^(m + 1) = 10 * 10^m
<1>1. /\ 16^0 = 1 /\ 10^0 = 1
  BY SMT
<1>2. ASSUME NEW m \in 0 .. 7 PROVE 16^m \in Nat \ {0} /\ 16^(m + 1) = 16 * 16^m
  <2>1. m = 0 \/ m = 1 \/ m = 2 \/ m = 3 \/ m = 4 \/ m = 5 \/ m = 6 \/ m = 7
    OBVIOUS
  <2>2. /\ 16^0 \in Nat \ {0} /\ 16^1 \in Nat \ {0} /\ 16^2 \in Nat \ {0} /\ 16^3 \in Nat \ {0}
        /\ 16^4 \in Nat \ {0} /\ 16^5 \in Nat \ {0} /\ 16^6 \in Nat \ {0} /\ 16^7 \in Nat \ {0}
    BY SMT
  <2>3. /\ 16^(0 + 1) = 16 * 16^0 /\ 16^(1 + 1) = 16 * 16^1 /\ 16^(2 + 1) = 16 * 16^2
        /\ 16^(3 + 1) = 16 * 16^3 /\ 16^(4 + 1) = 16 * 16^4 /\ 16^(5 + 1) = 16 * 16^5
        /\ 16^(6 + 1) = 16 * 16^6 /\ 16^(7 + 1) = 16 * 16^7
    BY SMT
  <2> QED BY <2>1, <2>2, <2>3, Zenon
<1>3. ASSUME NEW m \in 0 .. 9 PROVE 10^m \in Nat \ {0} /\ 10^(m + 1) = 10 * 10^m
  <2>1. m = 0 \/ m = 1 \/ m = 2 \/ m = 3 \/ m = 4 \/ m = 5 \/ m = 6 \/ m = 7 \/ m = 8 \/ m = 9
    OBVIOUS
  <2>2. /\ 10^0 \in Nat \ {0} /\ 10^1 \in Nat \ {0} /\ 10^2 \in Nat \ {0} /\ 10^3 \in Nat \ {0}
        /\ 10^4 \in Nat \ {0} /\ 10^5 \in Nat \ {0} /\ 10^6 \in Nat \ {0} /\ 10^7 \in Nat \ {0}
        /\ 10^8 \in Nat \ {0} /\ 10^9 \in Nat \ {0}
    BY SMT
  <2>3. /\ 10^(0 + 1) = 10 * 10^0 /\ 10^(1 + 1) = 10 * 10^1 /\ 10^(2 + 1) = 10 * 10^2
        /\ 10^(3 + 1) = 10 * 10^3 /\ 10^(4 + 1) = 10 * 10^4 /\ 10^(5 + 1) = 10 * 10^5
        /\ 10^(6 + 1) = 10 * 10^6 /\ 10^(7 + 1) = 10 * 10^7 /\ 10^(8 + 1) = 10 * 10^8
        /\ 10^(9 + 1) = 10 * 10^9
    BY SMT
  <2> QED BY <2>1, <2>2, <2>3, Zenon
<1> QED BY <1>1, <1>2, <1>3

(* The widest type is the processor's.                                     *)
LEMMA WrapLargest ==
  ASSUME NEW type \in Types
  PROVE  Wrap(type) <= Wrap("intptr")
<1>1. HexDigits[type] \in 1 .. 8 /\ HexDigits["intptr"] \in 1 .. 8
      /\ HexDigits[type] <= HexDigits["intptr"]
  BY HexDigitsAssumption DEF Types
<1> DEFINE p == [m \in 1 .. 8 |-> 16^m]
<1>2. \A m \in 1 .. 8 : p[m] = 16^m /\ p[m] \in Nat
  BY PowersStep, Powers
<1>3. \A m \in 1 .. 7 : p[m] <= p[m + 1]
  <2> TAKE m \in 1 .. 7
  <2>1. 16^m \in Nat /\ 16^(m + 1) = 16 * 16^m
    <3>1. m \in 0 .. 7
      OBVIOUS
    <3> QED BY <3>1, PowersStep, Zenon
  <2> DEFINE x == 16^m
             y == 16^(m + 1)
  <2>2. p[m] = x /\ p[m + 1] = y
    BY <1>2
  <2>3. x \in Nat /\ y = 16 * x
    BY <2>1
  <2> HIDE DEF x, y, p
  <2> QED BY <2>2, <2>3
<1> HIDE DEF p
<1>4. ASSUME NEW m \in 1 .. 8, NEW n \in 1 .. 8, m <= n PROVE p[m] <= p[n]
  <2>1. /\ p[1] <= p[2] /\ p[2] <= p[3] /\ p[3] <= p[4] /\ p[4] <= p[5] /\ p[5] <= p[6]
        /\ p[6] <= p[7] /\ p[7] <= p[8]
    BY <1>3
  <2>2. /\ p[1] \in Nat /\ p[2] \in Nat /\ p[3] \in Nat /\ p[4] \in Nat /\ p[5] \in Nat
        /\ p[6] \in Nat /\ p[7] \in Nat /\ p[8] \in Nat
    BY <1>2
  <2>3. m = 1 \/ m = 2 \/ m = 3 \/ m = 4 \/ m = 5 \/ m = 6 \/ m = 7 \/ m = 8
    OBVIOUS
  <2>4. n = 1 \/ n = 2 \/ n = 3 \/ n = 4 \/ n = 5 \/ n = 6 \/ n = 7 \/ n = 8
    OBVIOUS
  <2> QED BY <1>4, <2>1, <2>2, <2>3, <2>4
<1> QED BY <1>1, <1>2, <1>4 DEF Wrap

-----------------------------------------------------------------------------
(* Hexadecimal digits.                                                     *)
HexOf(h, d) ==
  [n \in Nat |-> IF d = 0 THEN << >> ELSE Append(h[d - 1][n \div 16], Digits[(n % 16) + 1])]

(* The definition of the hexadecimal digits has a solution, ...            *)
LEMMA HexadecimalExists == \E h : h = [d \in 0 .. 8 |-> HexOf(h, d)]
<1> DEFINE S == {m \in 0 .. 8 : \E h : \A d \in 0 .. m : h[d] = HexOf(h, d)}
<1>1. 0 \in S
  <2> DEFINE h == [d \in 0 .. 0 |-> [n \in Nat |-> << >>]]
  <2>1. \A d \in 0 .. 0 : d = 0 /\ h[d] = HexOf(h, d)
    BY DEF HexOf
  <2> HIDE DEF h
  <2> QED BY <2>1
<1>2. ASSUME NEW m \in 0 .. 8 - 1, m \in S PROVE m + 1 \in S
  <2>1. PICK h : \A d \in 0 .. m : h[d] = HexOf(h, d)
    BY <1>2
  <2> DEFINE g == [d \in 0 .. m + 1 |-> IF d = m + 1 THEN HexOf(h, d) ELSE h[d]]
  <2>2. \A d \in 0 .. m : g[d] = h[d]
    OBVIOUS
  <2>3. g[m + 1] = HexOf(h, m + 1)
    OBVIOUS
  <2> HIDE DEF g
  <2>4. ASSUME NEW d \in 0 .. m + 1 PROVE HexOf(h, d) = HexOf(g, d)
    <3>1. d # 0 => g[d - 1] = h[d - 1]
      BY <2>2
    <3> QED BY <3>1 DEF HexOf
  <2>5. ASSUME NEW d \in 0 .. m + 1 PROVE g[d] = HexOf(g, d)
    <3>1. CASE d = m + 1
      BY <2>3, <2>4, <3>1
    <3>2. CASE d \in 0 .. m
      BY <2>1, <2>2, <2>4, <3>2
    <3> QED BY <3>1, <3>2
  <2> QED BY <2>5
<1>3. 8 \in S
  <2>1. 8 \in Nat /\ 8 \in 0 .. 8
    OBVIOUS
  <2> HIDE DEF S
  <2> QED BY <1>1, <1>2, <2>1, SetInduction
<1>4. PICK h : \A d \in 0 .. 8 : h[d] = HexOf(h, d)
  BY <1>3
<1> DEFINE g == [d \in 0 .. 8 |-> h[d]]
<1>5. \A d \in 0 .. 8 : g[d] = h[d]
  OBVIOUS
<1>6. g = [d \in 0 .. 8 |-> g[d]]
  OBVIOUS
<1> HIDE DEF g
<1>7. ASSUME NEW d \in 0 .. 8 PROVE g[d] = HexOf(g, d)
  <2>1. d # 0 => g[d - 1] = h[d - 1]
    BY <1>5
  <2>2. HexOf(h, d) = HexOf(g, d)
    BY <2>1 DEF HexOf
  <2> QED BY <1>4, <1>5, <2>2
<1>8. g = [d \in 0 .. 8 |-> HexOf(g, d)]
  BY SMTT(40), <1>6, <1>7
<1> QED BY <1>8

(* ... which is the one with one digit more, or none.                      *)
LEMMA HexadecimalUnfolds ==
  ASSUME NEW n \in Nat
  PROVE  /\ HexadecimalDigits[0][n] = << >>
         /\ \A d \in 0 .. 7 : HexadecimalDigits[d + 1][n]
              = Append(HexadecimalDigits[d][n \div 16], Digits[(n % 16) + 1])
<1> DEFINE Is(h) == h = [d \in 0 .. 8 |-> HexOf(h, d)]
           g == CHOOSE h : Is(h)
<1>1. HexadecimalDigits = g
  BY DEF HexadecimalDigits, HexOf
<1>2. Is(g)
  <2>1. \E h : Is(h)
    BY HexadecimalExists
  <2> HIDE DEF Is
  <2> QED BY <2>1
<1> HIDE DEF g
<1>3. \A d \in 0 .. 8 : g[d] = HexOf(g, d)
  BY <1>2
<1>4. g[0][n] = << >>
  <2>1. g[0] = HexOf(g, 0)
    BY <1>3
  <2> QED BY <2>1 DEF HexOf
<1>5. ASSUME NEW d \in 0 .. 7
      PROVE  g[d + 1][n] = Append(g[d][n \div 16], Digits[(n % 16) + 1])
  <2>1. g[d + 1] = HexOf(g, d + 1) /\ d + 1 # 0 /\ (d + 1) - 1 = d
    BY <1>3
  <2> QED BY <2>1 DEF HexOf
<1> QED BY <1>1, <1>4, <1>5

(* What writeHex() makes of a number is what is documented.                *)
HexText(n, d) == [k \in 1 .. d |-> Digits[((n \div 16^(d - k)) % 16) + 1]]

(* The digits of HexText() are those that KOut.h speaks of.                *)
LEMMA HexadecimalIs ==
  ASSUME NEW d \in 0 .. 8, NEW n \in Nat
  PROVE  HexadecimalDigits[d][n] = HexText(n, d)
<1> DEFINE S == {m \in 0 .. 8 : \A i \in Nat : HexadecimalDigits[m][i] = HexText(i, m)}
<1>1. 0 \in S
  <2>1. ASSUME NEW i \in Nat PROVE HexText(i, 0) = << >>
    <3>1. HexText(i, 0) = [k \in 1 .. 0 |-> HexText(i, 0)[k]]
      BY DEF HexText
    <3>2. IsText(HexText(i, 0)) /\ Len(HexText(i, 0)) = 0
      BY <3>1, FunctionIsText
    <3> QED BY <3>2, EmptyText, SameText
  <2>2. \A i \in Nat : HexadecimalDigits[0][i] = HexText(i, 0)
    BY <2>1, HexadecimalUnfolds, Zenon
  <2>3. 0 \in 0 .. 8
    OBVIOUS
  <2> QED BY <2>2, <2>3
<1>2. ASSUME NEW m \in 0 .. 8 - 1, m \in S PROVE m + 1 \in S
  <2>1. ASSUME NEW i \in Nat PROVE HexadecimalDigits[m + 1][i] = HexText(i, m + 1)
    <3> DEFINE j == i \div 16
               c == Digits[(i % 16) + 1]
               s == HexText(j, m)
               t == HexText(i, m + 1)
    <3>1. j \in Nat
      BY <2>1
    <3>2. HexadecimalDigits[m][j] = s
      BY <1>2, <3>1
    <3>3. HexadecimalDigits[m + 1][i] = Append(s, c)
      <4>1. m \in 0 .. 7
        OBVIOUS
      <4>2. HexadecimalDigits[m + 1][i] = Append(HexadecimalDigits[m][j], c)
        BY <4>1, HexadecimalUnfolds, Zenon
      <4> QED BY <3>2, <4>2, Zenon
    <3>4. IsText(s) /\ Len(s) = m
      <4>1. s = [k \in 1 .. m |-> s[k]]
        BY DEF HexText
      <4> HIDE DEF s
      <4> QED BY <4>1, FunctionIsText
    <3>5. IsText(t) /\ Len(t) = m + 1
      <4>1. t = [k \in 1 .. m + 1 |-> t[k]]
        BY DEF HexText
      <4> HIDE DEF t
      <4> QED BY <4>1, FunctionIsText
    <3>6. ASSUME NEW k \in 1 .. m PROVE s[k] = t[k]
      <4>1. m - k \in 0 .. 7 /\ (m + 1) - k = (m - k) + 1
        BY <3>6
      <4>2. 16^(m - k) \in Nat \ {0} /\ 16^((m + 1) - k) = 16 * 16^(m - k)
        BY <4>1, PowersStep
      <4>3. (i \div 16) \div 16^(m - k) = i \div (16 * 16^(m - k))
        <5> DEFINE x == 16^(m - k)
        <5>1. x \in Nat \ {0} /\ 16 \in Nat \ {0}
          BY <4>2
        <5> HIDE DEF x
        <5>2. (i \div 16) \div x = i \div (16 * x)
          BY <5>1, DivDiv
        <5> QED BY <5>2 DEF x
      <4>4. s[k] = Digits[((j \div 16^(m - k)) % 16) + 1]
        BY DEF HexText
      <4>5. t[k] = Digits[((i \div 16^((m + 1) - k)) % 16) + 1]
        BY DEF HexText
      <4> HIDE DEF s, t
      <4> QED BY <4>2, <4>3, <4>4, <4>5, Zenon
    <3>7. t[m + 1] = c
      <4>1. t[m + 1] = Digits[((i \div 16^((m + 1) - (m + 1))) % 16) + 1]
        BY DEF HexText
      <4>2. (m + 1) - (m + 1) = 0 /\ 16^0 = 1 /\ i \div 1 = i
        BY PowersStep
      <4> HIDE DEF t
      <4> QED BY <4>1, <4>2
    <3> HIDE DEF s, t, c
    <3>8. /\ IsText(Append(s, c)) /\ Len(Append(s, c)) = m + 1
          /\ \A k \in 1 .. m : Append(s, c)[k] = s[k] /\ Append(s, c)[m + 1] = c
      BY <3>4, Appended
    <3>9. \A k \in 1 .. m + 1 : Append(s, c)[k] = t[k]
      <4> TAKE k \in 1 .. m + 1
      <4>1. k = m + 1 \/ k \in 1 .. m
        OBVIOUS
      <4>2. Append(s, c)[m + 1] = c
        BY <3>4, Appended
      <4> QED BY <3>6, <3>7, <3>8, <4>1, <4>2
    <3>10. Append(s, c) = t
      BY <3>5, <3>8, <3>9, SameText
    <3> QED BY <3>3, <3>10 DEF t
  <2> QED BY <2>1
<1>3. 0 .. 8 \subseteq S
  <2> HIDE DEF S
  <2> QED BY <1>1, <1>2, SetInduction
<1> QED BY <1>3

(* The number of digits is the only one that fits.                         *)
LEMMA NumDigitsUnique ==
  ASSUME NEW i \in 0 .. MostInteger, NEW n \in 1 .. 10, i < 10^n,
         \A m \in 1 .. n - 1 : 10^m <= i
  PROVE  NumDigits(i) = n
<1> DEFINE d == NumDigits(i)
<1>1. d \in 1 .. 10 /\ i < 10^d /\ \A m \in 1 .. d - 1 : 10^m <= i
  BY NumDigitsIs
<1>2. MostInteger \in Nat
  BY Powers
<1> HIDE DEF d
<1>3. ASSUME NEW a \in 1 .. 10, NEW b \in 1 .. 10, a < b, i < 10^a,
             \A m \in 1 .. b - 1 : 10^m <= i
      PROVE  FALSE
  <2>1. a \in 1 .. b - 1 /\ a \in 1 .. 9
    BY <1>3
  <2>2. 10^a <= i /\ 10^a \in Nat
    BY <1>3, <2>1, Powers
  <2> DEFINE x == 10^a
  <2>3. i < x /\ x <= i /\ x \in Nat /\ i \in Nat
    BY <1>2, <1>3, <2>2
  <2> HIDE DEF x
  <2> QED BY <2>3
<1>4. ~ (d < n) /\ ~ (n < d)
  BY <1>1, <1>3
<1>5. d = n
  BY <1>1, <1>4
<1> QED BY <1>5 DEF d

(* Without its last digit a number has one less.                           *)
LEMMA NumDigitsStep ==
  ASSUME NEW i \in 0 .. MostInteger
  PROVE  /\ i < 10 => NumDigits(i) = 1
         /\ 10 <= i => /\ i \div 10 \in 0 .. i - 1 /\ NumDigits(i \div 10) \in 1 .. 9
                       /\ NumDigits(i) = NumDigits(i \div 10) + 1
<1>1. MostInteger \in Nat /\ i \in Nat
  BY Powers
<1>2. 10^0 = 1 /\ 10^1 = 10
  BY SMT
<1>3. ASSUME i < 10 PROVE NumDigits(i) = 1
  <2>1. i < 10^1 /\ 1 \in 1 .. 10 /\ \A m \in 1 .. 1 - 1 : FALSE
    BY <1>2, <1>3
  <2> QED BY <2>1, NumDigitsUnique
<1>4. ASSUME 10 <= i
      PROVE  /\ i \div 10 \in 0 .. i - 1 /\ NumDigits(i \div 10) \in 1 .. 9
             /\ NumDigits(i) = NumDigits(i \div 10) + 1
  <2> DEFINE n == NumDigits(i)
             p == n - 1
             j == i \div 10
  <2>1. n \in 1 .. 10 /\ i < 10^n /\ \A m \in 1 .. n - 1 : 10^m <= i
    BY NumDigitsIs
  <2> HIDE DEF n
  <2>2. n # 1
    <3> SUFFICES ASSUME n = 1 PROVE FALSE
      OBVIOUS
    <3>1. i < 10^1
      BY <2>1
    <3> QED BY <1>1, <1>2, <1>4, <3>1
  <2>3. p \in 1 .. 9 /\ p \in 0 .. 9 /\ n = p + 1 /\ p \in 1 .. 10
    BY <2>1, <2>2
  <2>4. j \in 0 .. i - 1
    BY <1>1, <1>4
  <2>5. j \in 0 .. MostInteger
    <3> HIDE DEF j
    <3> QED BY <1>1, <2>4
  <2>6. j < 10^p
    <3>1. 10^p \in Nat /\ 10^(p + 1) = 10 * 10^p
      BY <2>3, PowersStep
    <3> DEFINE x == 10^p
    <3>2. x \in Nat /\ i < 10 * x
      BY <2>1, <2>3, <3>1
    <3> HIDE DEF x
    <3>3. i \div 10 < x
      BY <1>1, <3>2
    <3> QED BY <3>3 DEF x
  <2>7. ASSUME NEW m \in 1 .. p - 1 PROVE 10^m <= j
    <3>1. m \in 0 .. 9 /\ m + 1 \in 1 .. n - 1
      BY <2>3
    <3>2. 10^m \in Nat /\ 10^(m + 1) = 10 * 10^m /\ 10^(m + 1) <= i
      BY <2>1, <3>1, PowersStep
    <3> DEFINE x == 10^m
    <3>3. x \in Nat /\ 10 * x <= i
      BY <3>2
    <3> HIDE DEF x
    <3>4. x <= i \div 10
      BY <1>1, <3>3
    <3> QED BY <3>4 DEF x
  <2> HIDE DEF j, p
  <2>8. NumDigits(j) = p
    BY <2>3, <2>5, <2>6, <2>7, NumDigitsUnique
  <2> QED BY <2>3, <2>4, <2>8 DEF j, n
<1> QED BY <1>3, <1>4
-----------------------------------------------------------------------------
(* Decimal digits.                                                         *)
DecimalOf(f, i) ==
  IF i < 10 THEN <<Digits[i + 1]>> ELSE Append(f[i \div 10], Digits[(i % 10) + 1])

(* There is such a function.                                               *)
LEMMA DecimalExists ==
  ASSUME NEW n \in Nat
  PROVE  \E f : f = [i \in 0 .. n |-> DecimalOf(f, i)]
<1> DEFINE S == {m \in 0 .. n : \E f : \A i \in 0 .. m : f[i] = DecimalOf(f, i)}
<1>1. ASSUME NEW i \in 0 .. n, NEW f, NEW g, \A j \in 0 .. i - 1 : f[j] = g[j]
      PROVE  DecimalOf(f, i) = DecimalOf(g, i)
  <2>1. 10 <= i => i \div 10 \in 0 .. i - 1
    OBVIOUS
  <2>2. 10 <= i => f[i \div 10] = g[i \div 10]
    BY <1>1, <2>1
  <2>3. i < 10 \/ 10 <= i
    OBVIOUS
  <2> QED BY <2>2, <2>3 DEF DecimalOf
<1>2. 0 \in S
  <2> DEFINE f == [i \in 0 .. 0 |-> <<Digits[0 + 1]>>]
  <2>1. \A i \in 0 .. 0 : f[i] = DecimalOf(f, i)
    BY DEF DecimalOf
  <2> HIDE DEF f
  <2> QED BY <2>1
<1>3. ASSUME NEW m \in 0 .. n - 1, m \in S PROVE m + 1 \in S
  <2>1. PICK f : \A i \in 0 .. m : f[i] = DecimalOf(f, i)
    BY <1>3
  <2> DEFINE g == [i \in 0 .. m + 1 |-> IF i = m + 1 THEN DecimalOf(f, i) ELSE f[i]]
  <2>2. \A i \in 0 .. m : g[i] = f[i]
    OBVIOUS
  <2>3. g[m + 1] = DecimalOf(f, m + 1)
    OBVIOUS
  <2> HIDE DEF g
  <2>4. ASSUME NEW i \in 0 .. m + 1 PROVE g[i] = DecimalOf(g, i)
    <3>1. i \in 0 .. n /\ \A j \in 0 .. i - 1 : f[j] = g[j]
      BY <2>2
    <3>2. DecimalOf(f, i) = DecimalOf(g, i)
      BY <1>1, <3>1
    <3>3. CASE i = m + 1
      BY <2>3, <3>2, <3>3
    <3>4. CASE i \in 0 .. m
      BY <2>1, <2>2, <3>2, <3>4
    <3> QED BY <3>3, <3>4
  <2> QED BY <2>4
<1>4. n \in S
  <2>1. n \in 0 .. n
    OBVIOUS
  <2> HIDE DEF S
  <2> QED BY <1>2, <1>3, <2>1, SetInduction
<1>5. PICK f : \A i \in 0 .. n : f[i] = DecimalOf(f, i)
  BY <1>4
<1> DEFINE g == [i \in 0 .. n |-> f[i]]
<1>6. (\A i \in 0 .. n : g[i] = f[i]) /\ g = [i \in 0 .. n |-> g[i]]
  OBVIOUS
<1> HIDE DEF g
<1>7. ASSUME NEW i \in 0 .. n PROVE g[i] = DecimalOf(g, i)
  <2>1. \A j \in 0 .. i - 1 : f[j] = g[j]
    BY <1>6
  <2>2. DecimalOf(f, i) = DecimalOf(g, i)
    BY <1>1, <2>1
  <2> QED BY <1>5, <1>6, <2>2
<1>8. g = [i \in 0 .. n |-> DecimalOf(g, i)]
  BY <1>6, <1>7
<1> QED BY <1>8

(* Decimal digits, one at a time.                                          *)
LEMMA DecimalUnfolds ==
  ASSUME NEW i \in 0 .. Wrap("intptr")
  PROVE  /\ i < 10 => DecimalDigits[i] = <<Digits[i + 1]>>
         /\ 10 <= i => DecimalDigits[i] = Append(DecimalDigits[i \div 10], Digits[(i % 10) + 1])
<1> DEFINE n == Wrap("intptr")
           Is(f) == f = [k \in 0 .. n |-> DecimalOf(f, k)]
           g == CHOOSE f : Is(f)
<1>1. DecimalDigits = g
  BY DEF DecimalDigits, DecimalOf
<1>2. n \in Nat
  BY Wraps DEF Types
<1> HIDE DEF n
<1>3. Is(g)
  <2>1. \E f : Is(f)
    BY <1>2, DecimalExists
  <2> HIDE DEF Is
  <2> QED BY <2>1
<1> HIDE DEF g
<1>4. i \in 0 .. n
  BY DEF n
<1>5. g[i] = DecimalOf(g, i)
  BY <1>3, <1>4
<1>6. 10 <= i => ~ (i < 10)
  BY <1>2, <1>4
<1> QED BY <1>1, <1>5, <1>6 DEF DecimalOf

(* What writeDecimal() makes of a number is what is documented.            *)
DecimalText(i, n) == [k \in 1 .. n |-> Digits[((i \div 10^(n - k)) % 10) + 1]]

(* The digits of DecimalText() are those that KOut.h speaks of.            *)
LEMMA DecimalIs ==
  ASSUME NEW i \in 0 .. Wrap("intptr")
  PROVE  DecimalDigits[i] = DecimalText(i, NumDigits(i))
<1> DEFINE n == Wrap("intptr")
           Is(m) == DecimalDigits[m] = DecimalText(m, NumDigits(m))
           S == {m \in 0 .. n : \A j \in 0 .. m : Is(j)}
<1>1. n \in Nat /\ n <= MostInteger /\ MostInteger \in Nat /\ i \in 0 .. n
  BY Wraps DEF Types
<1>2. ASSUME NEW m \in 0 .. n, m < 10 PROVE Is(m)
  <2>1. NumDigits(m) = 1
    <3>1. m \in 0 .. MostInteger
      BY <1>1, <1>2
    <3> QED BY <1>2, <3>1, NumDigitsStep
  <2>2. DecimalDigits[m] = <<Digits[m + 1]>>
    BY <1>2, DecimalUnfolds
  <2> DEFINE t == DecimalText(m, 1)
             s == <<Digits[m + 1]>>
  <2>3. IsText(t) /\ Len(t) = 1
    <3>1. t = [k \in 1 .. 1 |-> t[k]]
      BY DEF DecimalText
    <3> HIDE DEF t
    <3> QED BY <3>1, FunctionIsText
  <2>4. t[1] = Digits[m + 1]
    <3>1. t[1] = Digits[((m \div 10^(1 - 1)) % 10) + 1]
      BY DEF DecimalText
    <3>2. 1 - 1 = 0 /\ 10^0 = 1 /\ m \div 1 = m /\ m % 10 = m
      BY <1>2, PowersStep
    <3> HIDE DEF t
    <3> QED BY <3>1, <3>2
  <2>5. IsText(s) /\ Len(s) = 1 /\ s[1] = Digits[m + 1]
    BY One
  <2> HIDE DEF s, t
  <2>6. s = t
    BY <2>3, <2>4, <2>5, SameText
  <2> QED BY <2>1, <2>2, <2>6 DEF s, t
<1>3. ASSUME NEW m \in 0 .. n, 10 <= m, Is(m \div 10) PROVE Is(m)
  <2> DEFINE j == m \div 10
             p == NumDigits(j)
             c == Digits[(m % 10) + 1]
             s == DecimalText(j, p)
             t == DecimalText(m, p + 1)
  <2>1. j \in Nat /\ p \in 1 .. 9 /\ NumDigits(m) = p + 1
    <3>1. m \in 0 .. MostInteger
      BY <1>1, <1>3
    <3> QED BY <1>3, <3>1, NumDigitsStep
  <2>2. DecimalDigits[m] = Append(s, c)
    <3>1. DecimalDigits[m] = Append(DecimalDigits[j], c)
      BY <1>3, DecimalUnfolds
    <3> QED BY <1>3, <3>1, Zenon
  <2> HIDE DEF p
  <2>4. IsText(s) /\ Len(s) = p
    <3>1. s = [k \in 1 .. p |-> s[k]]
      BY DEF DecimalText
    <3> HIDE DEF s
    <3> QED BY SMTT(40), <2>1, <3>1, FunctionIsText
  <2>5. IsText(t) /\ Len(t) = p + 1
    <3>1. t = [k \in 1 .. p + 1 |-> t[k]]
      BY DEF DecimalText
    <3> HIDE DEF t
    <3> QED BY SMTT(40), <2>1, <3>1, FunctionIsText
  <2>6. ASSUME NEW k \in 1 .. p PROVE s[k] = t[k]
    <3>1. p - k \in 0 .. 9 /\ (p + 1) - k = (p - k) + 1
      BY <2>1
    <3>2. 10^(p - k) \in Nat \ {0} /\ 10^((p + 1) - k) = 10 * 10^(p - k)
      BY <3>1, PowersStep
    <3>3. (m \div 10) \div 10^(p - k) = m \div (10 * 10^(p - k))
      <4> DEFINE x == 10^(p - k)
      <4>1. x \in Nat \ {0} /\ 10 \in Nat \ {0} /\ m \in Nat
        BY <3>2
      <4> HIDE DEF x
      <4>2. (m \div 10) \div x = m \div (10 * x)
        BY <4>1, DivDiv
      <4> QED BY <4>2 DEF x
    <3>4. s[k] = Digits[((j \div 10^(p - k)) % 10) + 1]
      BY DEF DecimalText
    <3>5. t[k] = Digits[((m \div 10^((p + 1) - k)) % 10) + 1]
      <4>1. k \in 1 .. p + 1
        BY <2>1
      <4> QED BY <4>1 DEF DecimalText
    <3> HIDE DEF s, t
    <3> QED BY <3>2, <3>3, <3>4, <3>5, Zenon
  <2>7. t[p + 1] = c
    <3>1. t[p + 1] = Digits[((m \div 10^((p + 1) - (p + 1))) % 10) + 1]
      <4>1. p + 1 \in 1 .. p + 1
        BY <2>1
      <4> QED BY <4>1 DEF DecimalText
    <3>2. (p + 1) - (p + 1) = 0 /\ 10^0 = 1 /\ m \div 1 = m
      BY <2>1, PowersStep
    <3> HIDE DEF t
    <3> QED BY <3>1, <3>2
  <2> HIDE DEF s, t, c, j
  <2>8. /\ IsText(Append(s, c)) /\ Len(Append(s, c)) = p + 1
        /\ \A k \in 1 .. p : Append(s, c)[k] = s[k]
        /\ Append(s, c)[p + 1] = c
    BY <2>4, Appended
  <2>9. \A k \in 1 .. p + 1 : Append(s, c)[k] = t[k]
    <3> TAKE k \in 1 .. p + 1
    <3>1. k = p + 1 \/ k \in 1 .. p
      BY <2>1
    <3> QED BY <2>6, <2>7, <2>8, <3>1
  <2>10. Append(s, c) = t
    BY <2>5, <2>8, <2>9, SameText
  <2> QED BY <2>1, <2>2, <2>10 DEF t
<1> HIDE DEF Is, n
<1>4. 0 \in S
  <2>1. 0 \in 0 .. n /\ 0 < 10 /\ \A j \in 0 .. 0 : j = 0
    BY <1>1
  <2>2. Is(0)
    BY <1>2, <2>1
  <2> QED BY <2>1, <2>2
<1>5. ASSUME NEW m \in 0 .. n - 1, m \in S PROVE m + 1 \in S
  <2>1. m + 1 \in 0 .. n /\ \A j \in 0 .. m + 1 : j = m + 1 \/ j \in 0 .. m
    BY <1>1
  <2>2. Is(m + 1)
    <3>1. 10 <= m + 1 => (m + 1) \div 10 \in 0 .. m
      BY <1>1
    <3>2. 10 <= m + 1 \/ m + 1 < 10
      BY <1>1
    <3> QED BY <1>2, <1>3, <1>5, <2>1, <3>1, <3>2
  <2> QED BY <1>5, <2>1, <2>2
<1>6. n \in S
  <2>1. n \in 0 .. n
    BY <1>1
  <2> HIDE DEF S
  <2> QED BY <1>1, <1>4, <1>5, <2>1, SetInduction
<1>7. Is(i)
  BY <1>1, <1>6
<1> QED BY <1>7 DEF Is

(* What is a multiple leaves nothing, and the other way round.             *)
LEMMA Multiples ==
  ASSUME NEW w \in Nat \ {0}, NEW a \in Int
  PROVE  a % w = 0 <=> \E k \in Int : a = w * k
<1> DEFINE q == a \div w
           r == a % w
<1>1. a = w * q + r /\ q \in Int /\ r \in 0 .. w - 1
  OBVIOUS
<1>2. r = 0 => a = w * q
  BY <1>1
<1>3. ASSUME NEW k \in Int, a = w * k PROVE r = 0
  <2> HIDE DEF q, r
  <2>1. w * k = w * q + r
    BY <1>1, <1>3
  <2>2. w * (k - q) = w * k - w * q
    BY <1>1
  <2> DEFINE d == k - q
             x == w * d
             y == w * k
             z == w * q
  <2>3. d \in Int /\ x = y - z /\ y = z + r /\ y \in Int /\ z \in Int
    BY <1>1, <2>1, <2>2
  <2>4. x = r
    <3> HIDE DEF x, y, z
    <3> QED BY <1>1, <2>3
  <2>5. (d >= 1 => x >= w) /\ (d <= -1 => x <= -w) /\ (d = 0 => x = 0)
    <3> HIDE DEF d
    <3> QED BY <2>3
  <2> HIDE DEF x, d
  <2> QED BY <1>1, <2>3, <2>4, <2>5
<1> QED BY <1>1, <1>2, <1>3

(* Of the integers that mean the same, one is in a range.                  *)
LEMMA CongruentUnique ==
  ASSUME NEW w \in Nat \ {0}, NEW a \in Int, NEW u \in Int, NEW v \in Int,
         (u - a) % w = 0, (v - a) % w = 0, u - v < w, v - u < w
  PROVE  u = v
<1>1. u - a \in Int /\ v - a \in Int
  OBVIOUS
<1>2. PICK k \in Int : u - a = w * k
  BY <1>1, Multiples
<1>3. PICK l \in Int : v - a = w * l
  BY <1>1, Multiples
<1>4. u - v = w * (k - l)
  <2>1. w * (k - l) = w * k - w * l /\ w * k \in Int /\ w * l \in Int
    OBVIOUS
  <2> DEFINE y == w * k
             z == w * l
  <2>2. u - a = y /\ v - a = z /\ y \in Int /\ z \in Int
    BY <1>2, <1>3, <2>1
  <2>3. u - v = y - z
    <3> HIDE DEF y, z
    <3> QED BY <2>2
  <2> QED BY <2>1, <2>3
<1> DEFINE d == k - l
           x == w * d
<1>5. (d >= 1 => x >= w) /\ (d <= -1 => x <= -w) /\ (d = 0 => x = 0) /\ d \in Int
  <2>1. d \in Int
    OBVIOUS
  <2> HIDE DEF d
  <2> QED BY <2>1
<1>6. u - v = x
  BY <1>4
<1> HIDE DEF x, d
<1> QED BY <1>5, <1>6

(* The types have so many values that half of them are negative.           *)
LEMMA WrapEven ==
  ASSUME NEW type \in Types
  PROVE  Wrap(type) = 2 * (Wrap(type) \div 2)
<1>1. HexDigits[type] - 1 \in 0 .. 7 /\ (HexDigits[type] - 1) + 1 = HexDigits[type]
  BY HexDigitsAssumption
<1> DEFINE n == HexDigits[type] - 1
           x == 16^n
<1>2. x \in Nat /\ 16^(n + 1) = 16 * 16^n
  BY <1>1, PowersStep
<1>3. Wrap(type) = 16 * x
  BY <1>1, <1>2 DEF Wrap
<1> HIDE DEF x
<1> DEFINE y == Wrap(type)
<1>4. y = 16 * x
  BY <1>3
<1> HIDE DEF y
<1>5. y = 2 * (y \div 2)
  BY <1>2, <1>4
<1> QED BY <1>5 DEF y

(* What an integer is interpreted as.                                      *)
LEMMA InterpretedIs ==
  ASSUME NEW arg \in Nat, NEW modifier \in Types
  PROVE  /\ \A type \in {"d", "i"} : Interpreted(arg, type, modifier) = Signed(arg, modifier)
         /\ \A type : type \notin {"d", "i"} =>
              Interpreted(arg, type, modifier) = arg % Wrap(modifier)
<1> DEFINE W == Wrap("intptr")
           w == Wrap(modifier)
           bits == arg % w
           half == w \div 2
           s == Signed(arg, modifier)
<1>1. w \in Nat /\ w >= 16 /\ w <= W /\ W \in Nat /\ w = 2 * half
  BY Wraps, WrapLargest, WrapEven DEF Types
<1>2. s = IF bits < half THEN bits ELSE bits - w
  BY DEF Signed
<1> HIDE DEF w, W
<1>3. half \in Nat
  BY <1>1
<1>4. bits \in 0 .. w - 1 /\ (bits - arg) % w = 0 /\ ((bits - w) - arg) % w = 0
  <2> DEFINE q == arg \div w
  <2>1. arg = w * q + bits /\ bits \in 0 .. w - 1 /\ q \in Int
    BY <1>1
  <2>2. w * (-q) = -(w * q) /\ w * (-q - 1) = -(w * q) - w /\ w * q \in Int
    BY <1>1, <2>1
  <2>3. bits - arg = w * (-q) /\ (bits - w) - arg = w * (-q - 1)
    <3> DEFINE x == w * q
               y == w * (-q)
               z == w * (-q - 1)
    <3>1. arg = x + bits /\ x \in Int /\ y = -x /\ z = -x - w /\ bits \in Int /\ w \in Int
      BY <1>1, <2>1, <2>2
    <3>2. bits - arg = y /\ (bits - w) - arg = z
      <4> HIDE DEF x, y, z, bits
      <4> QED BY <3>1
    <3> QED BY <3>2
  <2>4. -q \in Int /\ -q - 1 \in Int /\ bits - arg \in Int /\ (bits - w) - arg \in Int
        /\ w \in Nat \ {0}
    BY <1>1, <2>1
  <2> HIDE DEF q, bits
  <2>5. \A a \in Int : (\E k \in Int : a = w * k) => a % w = 0
    BY <2>4, Multiples
  <2> QED BY <2>1, <2>3, <2>4, <2>5
<1> HIDE DEF bits, half, s
<1>5. s \in -W .. W /\ (s - arg) % w = 0 /\ -w <= 2 * s /\ 2 * s < w
  <2>1. bits < half \/ bits >= half
    BY <1>3, <1>4
  <2>2. s \in Int /\ -w <= 2 * s /\ 2 * s < w /\ -w <= s /\ s <= w
    BY <1>1, <1>2, <1>3, <1>4, <2>1
  <2>3. (s - arg) % w = 0
    BY <1>2, <1>4
  <2> QED BY <1>1, <2>2, <2>3
<1>6. bits \in -W .. W /\ 0 <= bits /\ bits < w
  BY <1>1, <1>4
<1>7. ASSUME NEW u \in -W .. W, NEW v \in -W .. W, (u - arg) % w = 0, (v - arg) % w = 0,
             u - v < w, v - u < w
      PROVE  u = v
  <2>1. w \in Nat \ {0} /\ arg \in Int /\ u \in Int /\ v \in Int
    BY <1>1
  <2> QED BY <1>7, <2>1, CongruentUnique
<1>8. ASSUME NEW type \in {"d", "i"} PROVE Interpreted(arg, type, modifier) = s
  <2> DEFINE Is(v) == (v - arg) % w = 0 /\ -w <= 2 * v /\ 2 * v < w
             c == CHOOSE v \in -W .. W : Is(v)
  <2>1. Interpreted(arg, type, modifier) = c
    BY <1>8 DEF Interpreted, w, W
  <2>2. c \in -W .. W /\ Is(c)
    <3>1. s \in -W .. W /\ Is(s)
      BY <1>5
    <3> HIDE DEF Is
    <3> QED BY <3>1
  <2> HIDE DEF c
  <2>3. c - s < w /\ s - c < w
    BY <1>1, <1>5, <2>2
  <2>4. c = s
    BY <1>5, <1>7, <2>2, <2>3
  <2> QED BY <2>1, <2>4
<1>9. ASSUME NEW type, type \notin {"d", "i"} PROVE Interpreted(arg, type, modifier) = bits
  <2> DEFINE Is(v) == (v - arg) % w = 0 /\ 0 <= v /\ v < w
             c == CHOOSE v \in -W .. W : Is(v)
  <2>1. Interpreted(arg, type, modifier) = c
    BY <1>9 DEF Interpreted, w, W
  <2>2. c \in -W .. W /\ Is(c)
    <3>1. bits \in -W .. W /\ Is(bits)
      BY <1>4, <1>6
    <3> HIDE DEF Is
    <3> QED BY <3>1
  <2> HIDE DEF c
  <2>3. c - bits < w /\ bits - c < w
    BY <1>1, <1>6, <2>2
  <2>4. c = bits
    BY <1>4, <1>6, <1>7, <2>2, <2>3
  <2> QED BY <2>1, <2>4
<1> QED BY <1>8, <1>9 DEF s, bits, w

(* A signed number has its range.                                          *)
LEMMA SignedRange ==
  ASSUME NEW i \in Nat, NEW type \in Types
  PROVE  /\ Signed(i, type) \in Int
         /\ Signed(i, type) < 0 => -Signed(i, type) \in 0 .. Wrap("intptr")
         /\ ~ (Signed(i, type) < 0) => Signed(i, type) \in 0 .. Wrap("intptr")
<1> DEFINE W == Wrap(type)
           V == Wrap("intptr")
           bits == i % W
           half == W \div 2
           s == Signed(i, type)
<1>1. W \in Nat /\ W >= 16 /\ V \in Nat /\ W <= V
  BY Wraps, WrapLargest DEF Types
<1>2. s = IF bits < half THEN bits ELSE bits - W
  BY DEF Signed
<1> HIDE DEF W, V
<1>3. bits \in 0 .. W - 1 /\ half \in 0 .. W
  BY <1>1
<1> HIDE DEF bits, half, s
<1>4. s \in Int /\ -W <= s /\ s <= W
  BY <1>1, <1>2, <1>3
<1> QED BY <1>1, <1>4 DEF s, V

(* Texts as wide as they should be are not padded.                         *)
LEMMA NotPadded ==
  ASSUME NEW str, IsText(str), NEW width \in Int, width <= Len(str), NEW left
  PROVE  Padded(str, width, left) = str
<1> DEFINE missing == Spaces(width - Len(str))
<1>1. missing = << >>
  <2>1. width - Len(str) \in Int /\ width - Len(str) <= 0
    BY DEF IsText
  <2> DEFINE n == width - Len(str)
  <2>2. IsText(Spaces(n)) /\ Len(Spaces(n)) = 0
    <3> HIDE DEF n
    <3> DEFINE s == Spaces(n)
    <3>1. s = [k \in 1 .. 0 |-> s[k]]
      <4>1. (IF n < 0 THEN 0 ELSE n) = 0
        BY <2>1 DEF n
      <4>2. Spaces(n) = [k \in 1 .. 0 |-> "SP"]
        BY <4>1 DEF Spaces
      <4> QED BY <4>2
    <3> HIDE DEF s
    <3>2. IsText(s) /\ Len(s) = 0
      BY <3>1, FunctionIsText
    <3> QED BY <3>2 DEF s
  <2> HIDE DEF n
  <2>3. Spaces(n) = << >>
    BY <2>2, EmptyText, SameText
  <2> QED BY <2>3 DEF n
<1>2. Padded(str, width, left) = IF left THEN str \o missing ELSE missing \o str
  BY DEF Padded
<1> HIDE DEF missing
<1> QED BY <1>1, <1>2, JoinedWithEmpty

(* writeString() pads as documented.                                       *)
LEMMA StringIs ==
  ASSUME NEW w, NEW str
  PROVE  WriteString(w, str) = Padded(str, w.width, w.leftAlign)
BY DEF WriteString, Padded

(* Characters one after the other are the text.                            *)
LEMMA FlattenedSingles ==
  ASSUME NEW text, IsText(text), NEW seqs, IsText(seqs), Len(seqs) = Len(text),
         \A k \in 1 .. Len(text) : seqs[k] = <<text[k]>>
  PROVE  FlattenSeq(seqs) = text
<1> DEFINE n == Len(seqs)
           Step(f) == f = [i \in 1 .. n |-> IF i = 1 THEN seqs[i] ELSE f[i - 1] \o seqs[i]]
           flatten == CHOOSE f : Step(f)
<1>1. FlattenSeq(seqs) = IF n = 0 THEN seqs ELSE flatten[n]
  BY DEF FlattenSeq
<1>2. n \in Nat /\ Len(text) = n
  BY DEF IsText
<1>3. \E f : Step(f)
  <2>1. PICK f : AreFlattened(f, n, seqs)
    BY <1>2, FlattenedExist
  <2>2. Step(f)
    BY <2>1 DEF AreFlattened
  <2> QED BY <2>2
<1>4. Step(flatten)
  <2> HIDE DEF Step
  <2> QED BY <1>3
<1> HIDE DEF flatten
<1>5. \A i \in 1 .. n : flatten[i] = IF i = 1 THEN seqs[i] ELSE flatten[i - 1] \o seqs[i]
  BY <1>4
<1> HIDE DEF Step
<1> DEFINE Is(k) == /\ IsText(flatten[k]) /\ Len(flatten[k]) = k
                    /\ \A j \in 1 .. k : flatten[k][j] = text[j]
           S == {k \in 0 .. n : k = 0 \/ Is(k)}
<1>6. 0 \in S
  BY <1>2
<1>7. ASSUME NEW k \in 0 .. n - 1, k \in S PROVE k + 1 \in S
  <2> DEFINE c == <<text[k + 1]>>
             g == flatten[k + 1]
             f == flatten[k]
  <2>1. k + 1 \in 1 .. n /\ k + 1 \in 0 .. n /\ (k + 1) - 1 = k /\ (k = 0 <=> k + 1 = 1)
    BY <1>2
  <2>2. seqs[k + 1] = c
    BY <1>2, <2>1
  <2>3. g = IF k = 0 THEN c ELSE f \o c
    BY <1>5, <2>1, <2>2
  <2>4. IsText(c) /\ Len(c) = 1 /\ c[1] = text[k + 1]
    BY One
  <2> HIDE DEF c
  <2>5. CASE k = 0
    <3>1. g = c /\ \A j \in 1 .. k + 1 : j = 1
      BY <2>3, <2>5
    <3> QED BY <2>1, <2>4, <2>5, <3>1
  <2>6. CASE k # 0
    <3>1. IsText(f) /\ Len(f) = k /\ \A j \in 1 .. k : f[j] = text[j]
      BY <1>7, <2>6
    <3> HIDE DEF f
    <3>2. /\ IsText(f \o c) /\ Len(f \o c) = k + 1 /\ (f \o c)[k + 1] = text[k + 1]
          /\ \A j \in 1 .. k : (f \o c)[j] = text[j]
      <4>1. /\ IsText(f \o c) /\ Len(f \o c) = Len(f) + Len(c)
            /\ \A j \in 1 .. Len(f) : (f \o c)[j] = f[j]
            /\ \A j \in 1 .. Len(c) : (f \o c)[Len(f) + j] = c[j]
        <5>1. IsText(f) /\ IsText(c)
          BY <2>4, <3>1
        <5> QED BY ONLY <5>1, Joined
      <4> QED BY <2>4, <3>1, <4>1
    <3>3. g = f \o c
      BY <2>3, <2>6
    <3> HIDE DEF g
    <3>4. IsText(g) /\ Len(g) = k + 1 /\ \A j \in 1 .. k + 1 : g[j] = text[j]
      <4>1. \A j \in 1 .. k + 1 : j = k + 1 \/ j \in 1 .. k
        BY <1>2
      <4> QED BY <3>2, <3>3, <4>1
    <3> QED BY <2>1, <3>4 DEF g
  <2> QED BY <2>5, <2>6
<1>8. n \in S
  <2>1. n \in 0 .. n
    BY <1>2
  <2> HIDE DEF S, n
  <2> QED BY <1>2, <1>6, <1>7, <2>1, SetInduction
<1>9. CASE n = 0
  <2>1. \A k \in 1 .. Len(seqs) : FALSE
    BY <1>9
  <2>2. seqs = text
    BY ONLY IsText(seqs), IsText(text), Len(seqs) = Len(text), <2>1, SameText
  <2> QED BY <1>1, <1>9, <2>2
<1>10. CASE n # 0
  <2>1. flatten[n] = text
    BY <1>2, <1>8, <1>10, SameText
  <2> QED BY <1>1, <1>10, <2>1
<1> QED BY <1>9, <1>10

(* An object that is not padded is written as it is.                       *)
LEMMA ObjectIs ==
  ASSUME NEW w, w.width = 0, NEW text, IsText(text)
  PROVE  WriteObject(w, text) = Append(text, "NUL")
<1> DEFINE seqs == [k \in 1 .. Len(text) |-> WriteChar(w, text[k])]
           flat == FlattenSeq(seqs)
           end == <<"NUL">>
           a == Append(text, "NUL")
<1>1. \A c : WriteChar(w, c) = <<c>>
  <2> TAKE c
  <2> DEFINE s == <<c>>
  <2>1. IsText(s) /\ Len(s) = 1
    BY One
  <2>2. WriteChar(w, c) = Padded(s, 0, w.leftAlign)
    BY StringIs DEF WriteChar
  <2> HIDE DEF s
  <2>3. Padded(s, 0, w.leftAlign) = s
    BY <2>1, NotPadded
  <2> QED BY <2>2, <2>3 DEF s
<1>2. WriteObject(w, text) = flat \o end
  BY <1>1 DEF WriteObject
<1>3. Len(text) \in Nat
  BY DEF IsText
<1>4. IsText(seqs) /\ Len(seqs) = Len(text)
  <2>1. seqs = [k \in 1 .. Len(text) |-> seqs[k]]
    OBVIOUS
  <2> HIDE DEF seqs
  <2> QED BY <1>3, <2>1, FunctionIsText
<1>5. \A k \in 1 .. Len(text) : seqs[k] = <<text[k]>>
  BY <1>1
<1> HIDE DEF seqs
<1>6. flat = text
  BY <1>4, <1>5, FlattenedSingles
<1>7. IsText(end) /\ Len(end) = 1 /\ end[1] = "NUL"
  BY One
<1> HIDE DEF end, flat
<1>8. /\ IsText(text \o end) /\ Len(text \o end) = Len(text) + 1
      /\ (\A k \in 1 .. Len(text) : (text \o end)[k] = text[k])
      /\ (text \o end)[Len(text) + 1] = "NUL"
  <2>1. /\ IsText(text \o end) /\ Len(text \o end) = Len(text) + Len(end)
        /\ \A k \in 1 .. Len(text) : (text \o end)[k] = text[k]
        /\ \A k \in 1 .. Len(end) : (text \o end)[Len(text) + k] = end[k]
    <3>1. IsText(text) /\ IsText(end)
      BY <1>7
    <3> QED BY ONLY <3>1, Joined
  <2> QED BY <1>3, <1>7, <2>1
<1>9. /\ IsText(a) /\ Len(a) = Len(text) + 1
      /\ (\A k \in 1 .. Len(text) : a[k] = text[k]) /\ a[Len(text) + 1] = "NUL"
  BY Appended
<1> HIDE DEF a
<1>10. \A k \in 1 .. Len(text) + 1 : (text \o end)[k] = a[k]
  <2>1. \A k \in 1 .. Len(text) + 1 : k = Len(text) + 1 \/ k \in 1 .. Len(text)
    BY <1>3
  <2> QED BY <1>8, <1>9, <2>1
<1>11. text \o end = a
  BY <1>8, <1>9, <1>10, SameText
<1> QED BY <1>2, <1>6, <1>11 DEF a

(* The digits of a number are a text.                                      *)
LEMMA DigitsAreText ==
  ASSUME NEW i \in 0 .. Wrap("intptr")
  PROVE  IsText(DecimalText(i, NumDigits(i)))
<1> DEFINE n == NumDigits(i)
           t == DecimalText(i, n)
<1>1. n \in Nat
  <2>1. i \in 0 .. MostInteger
    BY Wraps DEF Types
  <2> QED BY <2>1, NumDigitsIs
<1> HIDE DEF n
<1>2. t = [k \in 1 .. n |-> t[k]]
  BY DEF DecimalText
<1> HIDE DEF t
<1>3. IsText(t)
  BY <1>1, <1>2, FunctionIsText
<1> QED BY <1>3 DEF t, n

(* Arguments are written as documented, but for objects.                 *)
LEMMA PlainIs ==
  ASSUME NEW w, NEW type \in TypeChars, type # "O", w.hexMode = (type = "x"),
         NEW modifier \in Types, NEW arg \in Arguments(type)
  PROVE  Formatted(w, type, modifier, arg)
           = Padded(Plain(type, modifier, arg), w.width, w.leftAlign)
<1>0. type \in {"d", "i", "u", "x", "p"} => arg \in Nat
  <2> SUFFICES ASSUME type \in {"d", "i", "u", "x", "p"} PROVE arg \in Nat
    OBVIOUS
  <2>1. arg \in Integers
    BY DEF Arguments
  <2>2. Wrap("intptr") \in Nat
    BY Wraps DEF Types
  <2> QED BY <2>1, <2>2, OutputAssumption
<1>1. CASE type = "c"
  BY <1>1, StringIs DEF Formatted, WriteChar, Plain
<1>2. CASE type = "s"
  BY <1>2, StringIs DEF Formatted, Plain
<1>4. \A i \in Nat, n \in 0 .. 8 : WriteHex(w, i, n)
        = Padded(<<"0", "x">> \o HexadecimalDigits[n][i], w.width, w.leftAlign)
  <2> TAKE i \in Nat, n \in 0 .. 8
  <2>1. HexadecimalDigits[n][i] = HexText(i, n)
    BY HexadecimalIs
  <2>2. WriteHex(w, i, n) = WriteString(w, <<"0", "x">> \o HexText(i, n))
    BY DEF WriteHex, HexText
  <2> QED BY <2>1, <2>2, StringIs
<1>5. \A i \in 0 .. Wrap("intptr") :
        /\ WriteDecimal(w, i, TRUE) = Padded(<<"-">> \o DecimalDigits[i], w.width, w.leftAlign)
        /\ WriteDecimal(w, i, FALSE) = Padded(DecimalDigits[i], w.width, w.leftAlign)
  <2> TAKE i \in 0 .. Wrap("intptr")
  <2> DEFINE t == DecimalText(i, NumDigits(i))
  <2>1. DecimalDigits[i] = t /\ IsText(t)
    BY DecimalIs, DigitsAreText
  <2>2. WriteDecimal(w, i, TRUE) = WriteString(w, <<"-">> \o t)
        /\ WriteDecimal(w, i, FALSE) = WriteString(w, << >> \o t)
    BY DEF WriteDecimal, DecimalText
  <2> HIDE DEF t
  <2>3. << >> \o t = t
    BY <2>1, JoinedWithEmpty
  <2> QED BY <2>1, <2>2, <2>3, StringIs
<1>6. HexDigits[modifier] \in 0 .. 8 /\ HexDigits["intptr"] \in 0 .. 8
  BY HexDigitsAssumption DEF Types
<1>7. CASE type = "p"
  BY <1>0, <1>4, <1>6, <1>7 DEF Formatted, WritePointer, Plain
<1>8. type \in {"u", "x"} => /\ Interpreted(arg, type, modifier) = arg % Wrap(modifier)
                             /\ arg % Wrap(modifier) \in 0 .. Wrap("intptr")
  <2> SUFFICES ASSUME type \in {"u", "x"}
               PROVE  /\ Interpreted(arg, type, modifier) = arg % Wrap(modifier)
                      /\ arg % Wrap(modifier) \in 0 .. Wrap("intptr")
    OBVIOUS
  <2>1. Interpreted(arg, type, modifier) = arg % Wrap(modifier)
    BY <1>0, InterpretedIs
  <2> DEFINE W == Wrap(modifier)
             V == Wrap("intptr")
  <2>2. W \in Nat /\ W >= 16 /\ V \in Nat /\ W <= V
    BY Wraps, WrapLargest DEF Types
  <2> HIDE DEF W, V
  <2>3. arg % W \in 0 .. V
    BY <1>0, <2>2
  <2> QED BY <2>1, <2>3 DEF W, V
<1>9. CASE type = "x"
  <2> DEFINE v == arg % Wrap(modifier)
  <2>1. Interpreted(arg, type, modifier) = v /\ v \in Nat
    BY <1>8, <1>9
  <2>2. Formatted(w, type, modifier, arg) = WriteHex(w, v, HexDigits[modifier])
    BY <1>9 DEF Formatted, WriteUInt
  <2>3. Plain(type, modifier, arg)
          = <<"0", "x">> \o HexadecimalDigits[HexDigits[modifier]][v]
    BY <1>9, <2>1 DEF Plain
  <2> HIDE DEF v
  <2> QED BY <1>4, <1>6, <2>1, <2>2, <2>3
<1>10. CASE type = "u"
  <2> DEFINE v == arg % Wrap(modifier)
  <2>1. Interpreted(arg, type, modifier) = v /\ v \in 0 .. Wrap("intptr")
    BY <1>8, <1>10
  <2>2. Formatted(w, type, modifier, arg) = WriteDecimal(w, v, FALSE)
    BY <1>10 DEF Formatted, WriteUInt
  <2> HIDE DEF v
  <2>3. ~ (v < 0)
    BY <2>1
  <2>4. Plain(type, modifier, arg) = DecimalDigits[v]
    BY <1>10, <2>1, <2>3 DEF Plain
  <2> QED BY <1>5, <2>1, <2>2, <2>4
<1>11. CASE type \in {"d", "i"}
  <2> DEFINE v == Signed(arg, modifier)
  <2>1. Interpreted(arg, type, modifier) = v
    BY <1>0, <1>11, InterpretedIs
  <2>2. /\ v < 0 => -v \in 0 .. Wrap("intptr")
        /\ ~ (v < 0) => v \in 0 .. Wrap("intptr")
    <3>1. arg \in Nat
      BY <1>0, <1>11
    <3> QED BY <3>1, SignedRange
  <2>3. Formatted(w, type, modifier, arg) = WriteDecimal(w, Abs(v), v < 0)
    BY <1>11 DEF Formatted, WriteInt
  <2>4. Plain(type, modifier, arg)
          = IF v < 0 THEN <<"-">> \o DecimalDigits[-v] ELSE DecimalDigits[v]
    BY <1>11, <2>1 DEF Plain
  <2> HIDE DEF v
  <2>5. CASE v < 0
    <3>1. Abs(v) = -v /\ (v < 0) = TRUE
      BY <2>5 DEF Abs
    <3> QED BY <1>5, <2>2, <2>3, <2>4, <2>5, <3>1
  <2>6. CASE ~ (v < 0)
    <3>1. Abs(v) = v /\ (v < 0) = FALSE
      BY <2>6 DEF Abs
    <3> QED BY <1>5, <2>2, <2>3, <2>4, <2>6, <3>1
  <2> QED BY <2>5, <2>6
<1> QED BY <1>1, <1>2, <1>7, <1>9, <1>10, <1>11 DEF TypeChars

(* Objects are, too, unless they are padded.                               *)
LEMMA FormattedIs ==
  ASSUME NEW w, NEW type \in TypeChars, w.hexMode = (type = "x"),
         NEW modifier \in Types, NEW arg \in Arguments(type), ~ (type = "O" /\ w.width # 0)
  PROVE  Formatted(w, type, modifier, arg)
           = Written(type, modifier, arg, w.width, w.leftAlign)
<1>1. CASE type # "O"
  BY <1>1, PlainIs DEF Written
<1>2. CASE type = "O"
  <2>0. w.width = 0
    BY <1>2
  <2>1. IsText(arg)
    <3>1. arg = Object
      BY <1>2 DEF Arguments
    <3> QED BY <3>1, OutputAssumption, SeqIsText
  <2>2. Formatted(w, type, modifier, arg) = Append(arg, "NUL")
    BY <1>2, <2>0, <2>1, ObjectIs DEF Formatted
  <2>3. Plain(type, modifier, arg) = arg
    BY <1>2 DEF Plain
  <2>4. 0 <= Len(arg)
    BY <2>1 DEF IsText
  <2>5. Padded(arg, w.width, w.leftAlign) = arg
    BY <2>0, <2>1, <2>4, NotPadded
  <2> QED BY <1>2, <2>2, <2>3, <2>5 DEF Written
<1> QED BY <1>1, <1>2

(* What is to be written is a text, however it is padded.                  *)
LEMMA WrittenIsText ==
  ASSUME NEW type \in TypeChars, NEW modifier \in Types, NEW arg \in Arguments(type),
         NEW width \in Int, NEW left
  PROVE  IsText(Written(type, modifier, arg, width, left))
<1> DEFINE w == [hexMode |-> type = "x", leftAlign |-> left, width |-> width]
<1>1. IsWriter(w) /\ w.hexMode = (type = "x") /\ w.width = width /\ w.leftAlign = left
  BY DEF IsWriter
<1> HIDE DEF w
<1>2. CASE type # "O"
  <2>1. IsText(Formatted(w, type, modifier, arg))
    BY <1>1, ArgumentWritten
  <2>2. Formatted(w, type, modifier, arg) = Written(type, modifier, arg, width, left)
    BY <1>1, <1>2, FormattedIs
  <2> QED BY <2>1, <2>2
<1>3. CASE type = "O"
  <2>1. IsText(arg)
    <3>1. arg = Object
      BY <1>3 DEF Arguments
    <3> QED BY <3>1, OutputAssumption, SeqIsText
  <2>2. Plain(type, modifier, arg) = arg
    BY <1>3 DEF Plain
  <2> DEFINE text == Padded(arg, width, left)
  <2>3. IsText(text)
    <3>1. WriteString(w, arg) = Padded(arg, w.width, w.leftAlign)
      BY StringIs
    <3>2. IsText(WriteString(w, arg))
      BY <1>1, <2>1, StringWritten
    <3> QED BY <1>1, <3>1, <3>2
  <2>4. Written(type, modifier, arg, width, left) = Append(text, "NUL")
    BY <1>3, <2>2 DEF Written
  <2> HIDE DEF text
  <2> QED BY <2>3, <2>4, Appended
<1> QED BY <1>2, <1>3

(* A line feed or the end of a text leaves nothing in the buffer.          *)
LEMMA FlushedAtEnd ==
  ASSUME NEW s, IsStream(s), NEW chars, Len(chars) \in Nat \ {0},
         chars[Len(chars)] \in {"NUL", "LF"}
  PROVE  StreamWriteAll(s, chars).buffer = << >>
<1> DEFINE n == Len(chars)
           Step(f) == f = [k \in 0 .. n |-> IF k = 0 THEN s ELSE StreamWrite(f[k - 1], chars[k])]
           after == CHOOSE f : Step(f)
<1>1. StreamWriteAll(s, chars) = after[n]
  BY DEF StreamWriteAll
<1>2. \E f : Step(f)
  <2>1. PICK f : AreStates(f, n, s, chars)
    BY StatesExist
  <2>2. Step(f)
    BY <2>1 DEF AreStates
  <2> QED BY <2>2
<1>3. Step(after)
  <2> HIDE DEF Step
  <2> QED BY <1>2
<1> HIDE DEF after
<1>4. /\ after[0] = s
      /\ \A k \in 0 .. n - 1 : after[k + 1] = StreamWrite(after[k], chars[k + 1])
  <2>1. after[0] = s
    BY <1>3
  <2>2. ASSUME NEW k \in 0 .. n - 1 PROVE after[k + 1] = StreamWrite(after[k], chars[k + 1])
    <3>1. k + 1 \in 0 .. n /\ k + 1 # 0 /\ (k + 1) - 1 = k
      OBVIOUS
    <3> QED BY <1>3, <3>1
  <2> QED BY <2>1, <2>2
<1> HIDE DEF Step
<1> DEFINE S == {k \in 0 .. n : IsStream(after[k])}
<1>5. 0 \in S
  BY <1>4
<1>6. ASSUME NEW k \in 0 .. n - 1, k \in S PROVE k + 1 \in S
  <2>1. IsStream(StreamWrite(after[k], chars[k + 1]))
    BY <1>6, StreamWritten
  <2>2. k + 1 \in 0 .. n
    OBVIOUS
  <2> QED BY <1>4, <2>1, <2>2
<1>7. n - 1 \in S
  <2>1. n \in Nat /\ n - 1 \in 0 .. n
    OBVIOUS
  <2> HIDE DEF S, n
  <2> QED BY <1>5, <1>6, <2>1, SetInduction
<1>8. after[n] = StreamWrite(after[n - 1], chars[n])
  <2>1. n - 1 \in 0 .. n - 1 /\ (n - 1) + 1 = n
    OBVIOUS
  <2> HIDE DEF n
  <2> QED BY <1>4, <2>1
<1> DEFINE t == after[n - 1]
<1>9. IsStream(t)
  BY <1>7
<1> HIDE DEF t
<1>10. StreamWrite(t, "NUL").buffer = << >> /\ StreamWrite(t, "LF").buffer = << >>
  <2> DEFINE f == Flush(t)
  <2>1. f.buffer = << >> /\ f = [buffer |-> f.buffer, display |-> f.display, paper |-> f.paper]
    BY <1>9, Flushed DEF IsStream
  <2>2. StreamWrite(t, "NUL") = f
    BY DEF StreamWrite
  <2>3. StreamWrite(t, "LF") = [f EXCEPT !.display = NewLine(@), !.paper = LineOnPaper(@)]
    BY DEF StreamWrite
  <2> HIDE DEF f
  <2>4. StreamWrite(t, "LF").buffer = << >>
    BY <2>1, <2>3
  <2> QED BY <2>1, <2>2, <2>4
<1> QED BY <1>1, <1>8, <1>10 DEF t

(* Appending is joining.                                                   *)
LEMMA AppendIsJoined ==
  ASSUME NEW s, IsText(s), NEW c
  PROVE  Append(s, c) = s \o <<c>>
<1> DEFINE a == Append(s, c)
           e == <<c>>
           b == s \o e
<1>1. IsText(e) /\ Len(e) = 1 /\ e[1] = c
  BY One
<1>2. Len(s) \in Nat
  BY DEF IsText
<1>3. /\ IsText(a) /\ Len(a) = Len(s) + 1
      /\ (\A k \in 1 .. Len(s) : a[k] = s[k]) /\ a[Len(s) + 1] = c
  BY Appended
<1> HIDE DEF e
<1>4. /\ IsText(b) /\ Len(b) = Len(s) + 1
      /\ (\A k \in 1 .. Len(s) : b[k] = s[k]) /\ b[Len(s) + 1] = c
  <2>1. /\ IsText(b) /\ Len(b) = Len(s) + Len(e)
        /\ \A k \in 1 .. Len(s) : b[k] = s[k]
        /\ \A k \in 1 .. Len(e) : b[Len(s) + k] = e[k]
    <3>1. IsText(s) /\ IsText(e)
      BY <1>1
    <3> QED BY ONLY <3>1, Joined
  <2> QED BY <1>1, <1>2, <2>1
<1> HIDE DEF a, b
<1>5. \A k \in 1 .. Len(s) + 1 : a[k] = b[k]
  <2>1. \A k \in 1 .. Len(s) + 1 : k = Len(s) + 1 \/ k \in 1 .. Len(s)
    BY <1>2
  <2> QED BY <1>3, <1>4, <2>1
<1>6. a = b
  BY <1>3, <1>4, <1>5, SameText
<1> QED BY <1>6 DEF a, b, e

(* A piece of a format begins behind what is before it.                    *)
LEMMA PieceAt ==
  ASSUME NEW base, IsText(base), NEW piece, IsText(piece), NEW rest, IsText(rest)
  PROVE  /\ IsText((base \o piece) \o rest)
         /\ Len((base \o piece) \o rest) = Len(base) + Len(piece) + Len(rest)
         /\ BeginsAt(piece, (base \o piece) \o rest, Len(base) + 1)
         /\ Len(piece) > 0 => /\ Len(base) + 1 \in 1 .. Len((base \o piece) \o rest)
                              /\ ((base \o piece) \o rest)[Len(base) + 1] = piece[1]
<1> DEFINE b == base \o piece
           fmt == b \o rest
           k == Len(base) + 1
<1>1. Len(base) \in Nat /\ Len(piece) \in Nat /\ Len(rest) \in Nat
  BY DEF IsText
<1>2. /\ IsText(b) /\ Len(b) = Len(base) + Len(piece)
      /\ \A j \in 1 .. Len(piece) : b[Len(base) + j] = piece[j]
  <2>1. IsText(base) /\ IsText(piece)
    OBVIOUS
  <2> QED BY ONLY <2>1, Joined
<1> HIDE DEF b
<1>3. /\ IsText(fmt) /\ Len(fmt) = Len(b) + Len(rest)
      /\ \A j \in 1 .. Len(b) : fmt[j] = b[j]
  <2>1. IsText(b) /\ IsText(rest)
    BY <1>2
  <2> QED BY ONLY <2>1, Joined
<1> HIDE DEF fmt, k
<1>4. ASSUME NEW j \in 1 .. Len(piece) PROVE fmt[k + j - 1] = piece[j]
  <2>1. k + j - 1 = Len(base) + j /\ Len(base) + j \in 1 .. Len(b)
    BY <1>1, <1>2 DEF k
  <2> QED BY <1>2, <1>3, <2>1
<1>5. k + Len(piece) <= Len(fmt) + 1
  BY <1>1, <1>2, <1>3 DEF k
<1>6. BeginsAt(piece, fmt, k)
  BY <1>4, <1>5 DEF BeginsAt
<1>7. ASSUME Len(piece) > 0 PROVE k \in 1 .. Len(fmt) /\ fmt[k] = piece[1]
  <2>1. k + 1 - 1 = k /\ 1 \in 1 .. Len(piece) /\ k \in 1 .. Len(fmt)
    BY <1>1, <1>2, <1>3, <1>7 DEF k
  <2> QED BY <1>4, <2>1
<1> QED BY <1>1, <1>2, <1>3, <1>6, <1>7 DEF fmt, k, b

(* Three pieces, in the order in which they are read.                      *)
IsPiece(base, first, piece, given, text) ==
  \A rest, more : IsText(rest) /\ IsText(more) =>
    Directive((base \o piece) \o rest, (first \o given) \o more, Len(base) + 1, Len(first) + 1)
      = [kind |-> "writes", text |-> text, next |-> Len(base) + 1 + Len(piece),
         arg |-> Len(first) + 1 + Len(given)]

(* Where a piece is read the format is further on.                         *)
LEMMA WritesPiece ==
  ASSUME NEW base, IsText(base), NEW first, IsText(first), NEW out, IsText(out),
         Writes(base, first, out),
         NEW piece, IsText(piece), NEW given, IsText(given), NEW text, IsText(text),
         IsPiece(base, first, piece, given, text)
  PROVE  Writes(base \o piece, first \o given, out \o text)
BY WritesMore DEF IsPiece

(* A character is a piece, ...                                             *)
LEMMA CharPiece ==
  ASSUME NEW base, IsText(base), NEW first, IsText(first), NEW c, c \notin {"%", "NUL"}
  PROVE  IsPiece(base, first, <<c>>, << >>, <<c>>)
<1> DEFINE piece == <<c>>
<1>1. IsText(piece) /\ Len(piece) = 1 /\ piece[1] = c
  BY One
<1>2. Len(<< >>) = 0 /\ Len(base) \in Nat /\ Len(first) \in Nat
  BY EmptyText DEF IsText
<1> SUFFICES ASSUME NEW rest, NEW more, IsText(rest), IsText(more)
             PROVE  Directive((base \o piece) \o rest, (first \o << >>) \o more, Len(base) + 1,
                              Len(first) + 1)
                      = [kind |-> "writes", text |-> piece, next |-> Len(base) + 1 + Len(piece),
                         arg |-> Len(first) + 1 + Len(<< >>)]
  BY DEF IsPiece
<1> HIDE DEF piece
<1> DEFINE fmt == (base \o piece) \o rest
           k == Len(base) + 1
<1>3. IsText(fmt) /\ k \in 1 .. Len(fmt) /\ fmt[k] = c
  <2>1. IsText(base) /\ IsText(piece) /\ IsText(rest) /\ Len(piece) > 0 /\ piece[1] = c
    BY <1>1
  <2> QED BY ONLY <2>1, PieceAt
<1> HIDE DEF fmt
<1>4. Directive(fmt, (first \o << >>) \o more, k, Len(first) + 1)
        = [kind |-> "writes", text |-> <<fmt[k]>>, next |-> k + 1, arg |-> Len(first) + 1]
  BY <1>2, <1>3, DirectiveOfChar
<1>5. Len(first) + 1 + Len(<< >>) = Len(first) + 1
  BY <1>2
<1> QED BY <1>1, <1>3, <1>4, <1>5 DEF fmt, piece

(* ... and so are two percent signs, ...                                   *)
LEMMA PercentPiece ==
  ASSUME NEW base, IsText(base), NEW first, IsText(first)
  PROVE  IsPiece(base, first, <<"%", "%">>, << >>, <<"%">>)
<1> DEFINE piece == <<"%", "%">>
<1>1. IsText(piece) /\ Len(piece) = 2
  <2>1. piece \in Seq({"%"})
    OBVIOUS
  <2> QED BY <2>1, SeqIsText
<1>2. Len(<< >>) = 0 /\ Len(base) \in Nat /\ Len(first) \in Nat
  BY EmptyText DEF IsText
<1> SUFFICES ASSUME NEW rest, NEW more, IsText(rest), IsText(more)
             PROVE  Directive((base \o piece) \o rest, (first \o << >>) \o more, Len(base) + 1,
                              Len(first) + 1)
                      = [kind |-> "writes", text |-> <<"%">>, next |-> Len(base) + 1 + Len(piece),
                         arg |-> Len(first) + 1 + Len(<< >>)]
  BY DEF IsPiece
<1> HIDE DEF piece
<1> DEFINE fmt == (base \o piece) \o rest
           k == Len(base) + 1
<1>3. IsText(fmt) /\ k \in 1 .. Len(fmt) /\ BeginsAt(piece, fmt, k)
  <2>1. IsText(base) /\ IsText(piece) /\ IsText(rest) /\ Len(piece) > 0
    BY <1>1
  <2> QED BY ONLY <2>1, PieceAt
<1> HIDE DEF fmt
<1>4. Directive(fmt, (first \o << >>) \o more, k, Len(first) + 1)
        = [kind |-> "writes", text |-> <<"%">>, next |-> k + 2, arg |-> Len(first) + 1]
  BY <1>2, <1>3, DirectiveOfPercent DEF piece
<1>5. Len(first) + 1 + Len(<< >>) = Len(first) + 1
  BY <1>2
<1> QED BY <1>1, <1>4, <1>5 DEF fmt

(* The arguments of a specifier: a width, and what is written.             *)
Given(star, width) == IF star = << >> THEN << >> ELSE <<width>>

(* ... and a specifier.                                                    *)
LEMMA SpecPiece ==
  ASSUME NEW base, IsText(base), NEW first, IsText(first),
         NEW left \in Lefts, NEW star \in Stars, NEW modifier \in Mods, NEW type \in TypeChars,
         NEW width, star = << >> => width = 0, NEW arg
  PROVE  IsPiece(base, first, SpecOf(left, star, modifier, type).text,
                 Given(star, width) \o <<arg>>,
                 Written(type, SpecOf(left, star, modifier, type).modifier, arg,
                         width, left # << >>))
<1> DEFINE spec == SpecOf(left, star, modifier, type)
           piece == spec.text
           g == Given(star, width)
           e == <<arg>>
           given == g \o e
           text == Written(type, spec.modifier, arg, width, left # << >>)
<1>1. IsText(piece) /\ Len(piece) > 0
  <2>1. HasParts(piece, left, star, modifier, type)
    BY SpecText
  <2>2. Len(left) \in 0 .. 1 /\ Len(star) \in 0 .. 1 /\ Len(modifier) \in 0 .. 1
    BY PartsOf
  <2> HIDE DEF piece
  <2> QED BY <2>1, <2>2 DEF HasParts
<1>2. /\ IsText(g) /\ Len(g) = IF star = << >> THEN 0 ELSE 1
      /\ star # << >> => g[1] = width
  BY EmptyText, One DEF Given
<1>3. IsText(e) /\ Len(e) = 1 /\ e[1] = arg
  BY One
<1> HIDE DEF g, e
<1>4. /\ IsText(given) /\ Len(given) = Len(g) + 1 /\ given[Len(g) + 1] = arg
      /\ star # << >> => given[1] = width
  <2>1. /\ IsText(given) /\ Len(given) = Len(g) + Len(e)
        /\ \A k \in 1 .. Len(g) : given[k] = g[k]
        /\ \A k \in 1 .. Len(e) : given[Len(g) + k] = e[k]
    <3>1. IsText(g) /\ IsText(e)
      BY <1>2, <1>3
    <3> QED BY ONLY <3>1, Joined
  <2> QED BY <1>2, <1>3, <2>1
<1> HIDE DEF given
<1> SUFFICES ASSUME NEW rest, NEW more, IsText(rest), IsText(more)
             PROVE  Directive((base \o piece) \o rest, (first \o given) \o more, Len(base) + 1,
                              Len(first) + 1)
                      = [kind |-> "writes", text |-> text, next |-> Len(base) + 1 + Len(piece),
                         arg |-> Len(first) + 1 + Len(given)]
  BY DEF IsPiece, given, g, e
<1> DEFINE fmt == (base \o piece) \o rest
           k == Len(base) + 1
           ar == (first \o given) \o more
           a == Len(first) + 1
           at == IF star = << >> THEN a ELSE a + 1
<1>5. IsText(fmt) /\ k \in 1 .. Len(fmt) /\ BeginsAt(piece, fmt, k)
  <2> HIDE DEF piece
  <2> QED BY <1>1, PieceAt
<1>6. Len(first) \in Nat /\ a \in Nat
  BY DEF IsText
<1>7. ar[at] = arg /\ (star # << >> => ar[a] = width) /\ at + 1 = a + Len(given)
  <2> DEFINE b == first \o given
  <2>1. /\ IsText(b) /\ Len(b) = Len(first) + Len(given)
        /\ \A j \in 1 .. Len(given) : b[Len(first) + j] = given[j]
    <3>1. IsText(first) /\ IsText(given)
      BY <1>4
    <3> QED BY ONLY <3>1, Joined
  <2> HIDE DEF b
  <2>2. \A j \in 1 .. Len(b) : ar[j] = b[j]
    <3>1. IsText(b) /\ IsText(more)
      BY <2>1
    <3>2. \A j \in 1 .. Len(b) : (b \o more)[j] = b[j]
      BY ONLY <3>1, Joined
    <3> QED BY <3>2 DEF b
  <2> HIDE DEF ar
  <2>3. \A j \in 1 .. Len(given) : ar[Len(first) + j] = given[j]
    <3> TAKE j \in 1 .. Len(given)
    <3>1. Len(first) + j \in 1 .. Len(b)
      BY <1>2, <1>4, <1>6, <2>1
    <3> QED BY <2>1, <2>2, <3>1
  <2>4. Len(g) + 1 \in 1 .. Len(given) /\ at = Len(first) + (Len(g) + 1)
        /\ at + 1 = a + Len(given)
    BY <1>2, <1>4, <1>6
  <2>5. star # << >> => 1 \in 1 .. Len(given)
    BY <1>2, <1>4
  <2> QED BY <1>4, <2>3, <2>4, <2>5
<1>8. Directive(fmt, ar, k, a) =
        [kind |-> "writes",
         text |-> Written(type, spec.modifier, ar[at],
                          IF star = << >> THEN 0 ELSE ar[a], left # << >>),
         next |-> k + Len(piece), arg |-> at + 1]
  <2> HIDE DEF fmt, ar, k, a
  <2>1. /\ left \in Lefts /\ star \in Stars /\ modifier \in Mods /\ type \in TypeChars
        /\ IsText(fmt) /\ k \in 1 .. Len(fmt) /\ a \in Nat
        /\ BeginsAt(SpecOf(left, star, modifier, type).text, fmt, k)
    BY <1>5, <1>6
  <2> QED BY ONLY <2>1, DirectiveOfSpec
<1> HIDE DEF fmt, ar, k, a, at, spec
<1>9. (IF star = << >> THEN 0 ELSE ar[a]) = width
  <2>1. (star = << >> => width = 0) /\ (star # << >> => ar[a] = width)
    BY <1>7
  <2> QED BY ONLY <2>1
<1>10. Directive(fmt, ar, k, a) = [kind |-> "writes", text |-> text,
                                   next |-> k + Len(piece), arg |-> a + Len(given)]
  BY <1>7, <1>8, <1>9
<1> QED BY <1>10 DEF fmt, ar, k, a, spec

(* A specifier of which this has been read, and the parser's state then.   *)
Begun(left, star, modifier) == <<"%">> \o left \o star \o modifier

StateOf(left, star, modifier) ==
  IF modifier # << >> THEN "modifier"
  ELSE IF star # << >> THEN "width" ELSE IF left # << >> THEN "leftAlign" ELSE "percent"

ModifierOf(modifier) == IF modifier = << >> THEN "intptr" ELSE ConvertModifier(modifier[1])

(* What characters make of the parser's state, outside of specifiers ...   *)
LEMMA TransitionOutside ==
  ASSUME NEW c
  PROVE  LET next == Transition("nothing", ConvertInputChar(c)) IN
         /\ next \in {"percent", "end", "nothing"}
         /\ next = "percent" => c = "%"
         /\ next = "end" => c = "NUL"
         /\ next = "nothing" => c \notin {"%", "NUL"}
<1>1. ConvertInputChar(c) = "%" <=> c = "%"
  BY DEF ConvertInputChar, Modifiers, TypeChars
<1>2. ConvertInputChar(c) = "null" <=> c = "NUL"
  BY DEF ConvertInputChar, Modifiers, TypeChars
<1> DEFINE k == ConvertInputChar(c)
<1> HIDE DEF k
<1>3. Transition("nothing", k) = CASE k = "%" -> "percent" [] k = "null" -> "end"
                                   [] OTHER -> "nothing"
  BY DEF Transition
<1>4. (k = "%" <=> c = "%") /\ (k = "null" <=> c = "NUL")
  BY <1>1, <1>2 DEF k
<1>5. /\ Transition("nothing", k) \in {"percent", "end", "nothing"}
      /\ Transition("nothing", k) = "percent" => c = "%"
      /\ Transition("nothing", k) = "end" => c = "NUL"
      /\ Transition("nothing", k) = "nothing" => c \notin {"%", "NUL"}
  BY <1>3, <1>4
<1> QED BY <1>5 DEF k

(* ... and inside.                                                         *)
LEMMA TransitionInside ==
  ASSUME NEW left \in Lefts, NEW star \in Stars, NEW modifier \in Mods, NEW c
  PROVE  LET next == Transition(StateOf(left, star, modifier), ConvertInputChar(c)) IN
         /\ next \in {"leftAlign", "width", "modifier", "nothing", "abort"}
         /\ next = "leftAlign" => /\ left = << >> /\ star = << >> /\ modifier = << >>
                                  /\ c = "-"
         /\ next = "width" => star = << >> /\ modifier = << >> /\ c = "*"
         /\ next = "modifier" => modifier = << >> /\ c \in Modifiers
         /\ next = "nothing" => \/ ConvertInputChar(c) = "type" /\ c \in TypeChars
                                \/ /\ left = << >> /\ star = << >> /\ modifier = << >>
                                   /\ c = "%" /\ ConvertInputChar(c) # "type"
         /\ next = "abort" => /\ c \notin TypeChars
                              /\ modifier = << >> => c \notin Modifiers
                              /\ modifier = << >> /\ star = << >> => c # "*"
                              /\ modifier = << >> /\ star = << >> /\ left = << >>
                                   => c \notin {"-", "%"}
<1> DEFINE k == ConvertInputChar(c)
           state == StateOf(left, star, modifier)
<1>1. /\ k \in {"%", "-", "*", "mod", "type", "null", "normal"}
      /\ k = "%" <=> c = "%"
      /\ k = "-" <=> c = "-"
      /\ k = "*" <=> c = "*"
      /\ k = "mod" <=> c \in Modifiers
      /\ k = "type" <=> c \in TypeChars
  BY DEF ConvertInputChar, Modifiers, TypeChars
<1>2. /\ state \in {"percent", "leftAlign", "width", "modifier"}
      /\ state = "modifier" <=> modifier # << >>
      /\ state = "width" <=> modifier = << >> /\ star # << >>
      /\ state = "leftAlign" <=> modifier = << >> /\ star = << >> /\ left # << >>
      /\ state = "percent" <=> modifier = << >> /\ star = << >> /\ left = << >>
  BY DEF StateOf
<1> HIDE DEF k, state
<1> DEFINE next == Transition(state, k)
<1>3. /\ k = "type" => next = "nothing"
      /\ k = "mod"  => next = IF state = "modifier" THEN "abort" ELSE "modifier"
      /\ k = "*"    => next = IF state \in {"percent", "leftAlign"} THEN "width" ELSE "abort"
      /\ k = "-"    => next = IF state = "percent" THEN "leftAlign" ELSE "abort"
      /\ k = "%"    => next = IF state = "percent" THEN "nothing" ELSE "abort"
      /\ k \in {"null", "normal"} => next = "abort"
  BY <1>2 DEF Transition
<1> HIDE DEF next
<1>4. /\ next \in {"leftAlign", "width", "modifier", "nothing", "abort"}
      /\ next = "leftAlign" => k = "-" /\ state = "percent"
      /\ next = "width" => k = "*" /\ state \in {"percent", "leftAlign"}
      /\ next = "modifier" => k = "mod" /\ state # "modifier"
      /\ next = "nothing" => k = "type" \/ (k = "%" /\ state = "percent")
      /\ next = "abort" => /\ k # "type" /\ (state # "modifier" => k # "mod")
                           /\ state \in {"percent", "leftAlign"} => k # "*"
                           /\ state = "percent" => k \notin {"-", "%"}
  BY <1>1, <1>2, <1>3
<1>5. /\ next = "leftAlign" => left = << >> /\ star = << >> /\ modifier = << >> /\ c = "-"
      /\ next = "width" => star = << >> /\ modifier = << >> /\ c = "*"
      /\ next = "modifier" => modifier = << >> /\ c \in Modifiers
  BY <1>1, <1>2, <1>4
<1>6. next = "nothing" => \/ k = "type" /\ c \in TypeChars
                          \/ /\ left = << >> /\ star = << >> /\ modifier = << >>
                             /\ c = "%" /\ k # "type"
  BY <1>1, <1>2, <1>4
<1>7. next = "abort" => /\ c \notin TypeChars
                        /\ modifier = << >> => c \notin Modifiers
                        /\ modifier = << >> /\ star = << >> => c # "*"
                        /\ modifier = << >> /\ star = << >> /\ left = << >> => c \notin {"-", "%"}
  BY <1>1, <1>2, <1>4
<1> QED BY <1>4, <1>5, <1>6, <1>7 DEF next, state, k

(* At k a specifier with so many parts is cut off by a character.          *)
IsCutOff(fmt, k, l, s, m, c) ==
  /\ Len(fmt) = k + 1 + l + s + m /\ fmt[k] = "%"
  /\ l = 1 => fmt[k + 1] = "-"
  /\ s = 1 => fmt[k + 1 + l] = "*"
  /\ m = 1 => fmt[k + 1 + l + s] \in Modifiers
  /\ fmt[k + 1 + l + s + m] = c

(* Where a specifier is cut off none begins, nor do two percent signs.     *)
LEMMA MalformedAt ==
  ASSUME NEW left \in Lefts, NEW star \in Stars, NEW modifier \in Mods, NEW c,
         c \notin TypeChars, modifier = << >> => c \notin Modifiers,
         modifier = << >> /\ star = << >> => c # "*",
         modifier = << >> /\ star = << >> /\ left = << >> => c \notin {"-", "%"},
         NEW fmt, IsText(fmt), NEW k \in 1 .. Len(fmt),
         IsCutOff(fmt, k, Len(left), Len(star), Len(modifier), c),
         NEW arguments, NEW a
  PROVE  Directive(fmt, arguments, k, a) = [kind |-> "malformed"]
<1> DEFINE l == Len(left)
           s == Len(star)
           m == Len(modifier)
<1>1. /\ l \in 0 .. 1 /\ s \in 0 .. 1 /\ m \in 0 .. 1
      /\ (l = 0 <=> left = << >>) /\ (s = 0 <=> star = << >>) /\ (m = 0 <=> modifier = << >>)
  BY PartsOf
<1>2. /\ Len(fmt) = k + 1 + l + s + m /\ fmt[k] = "%"
      /\ l = 1 => fmt[k + 1] = "-"
      /\ s = 1 => fmt[k + 1 + l] = "*"
      /\ m = 1 => fmt[k + 1 + l + s] \in Modifiers
      /\ fmt[k + 1 + l + s + m] = c
  BY DEF IsCutOff
<1>3. k \in Nat /\ Len(fmt) \in Nat
  BY DEF IsText
<1>4. /\ m = 0 => c \notin Modifiers
      /\ m = 0 /\ s = 0 => c # "*"
      /\ m = 0 /\ s = 0 /\ l = 0 => c \notin {"-", "%"}
  BY <1>1
<1> HIDE DEF l, s, m
<1>5. /\ "-" \notin {"*"} \cup Modifiers \cup TypeChars /\ "*" \notin Modifiers \cup TypeChars
      /\ Modifiers \cap TypeChars = {} /\ "%" \notin {"-", "*"} \cup Modifiers \cup TypeChars
  BY DEF Modifiers, TypeChars
<1>6. ~ BeginsAt(<<"%", "%">>, fmt, k)
  <2>1. BeginsAt(<<"%", "%">>, fmt, k) => fmt[k + 1] = "%"
    <3> DEFINE p == <<"%", "%">>
    <3>1. Len(p) = 2 /\ p[2] = "%" /\ 2 \in 1 .. 2 /\ k + 2 - 1 = k + 1
      BY <1>3
    <3> HIDE DEF p
    <3> QED BY <3>1 DEF BeginsAt, p
  <2>2. CASE l = 1
    BY <1>2, <1>5, <2>1, <2>2
  <2>3. CASE l = 0 /\ s = 1
    <3>1. k + 1 + l = k + 1
      BY <1>3, <2>3
    <3> QED BY <1>2, <1>5, <2>1, <2>3, <3>1
  <2>4. CASE l = 0 /\ s = 0 /\ m = 1
    <3>1. k + 1 + l + s = k + 1
      BY <1>3, <2>4
    <3> QED BY <1>2, <1>5, <2>1, <2>4, <3>1
  <2>5. CASE l = 0 /\ s = 0 /\ m = 0
    <3>1. k + 1 + l + s + m = k + 1
      BY <1>3, <2>5
    <3> QED BY <1>2, <1>4, <2>1, <2>5, <3>1
  <2> QED BY <1>1, <2>2, <2>3, <2>4, <2>5
<1>7. ASSUME NEW left2 \in Lefts, NEW star2 \in Stars, NEW modifier2 \in Mods,
             NEW type2 \in TypeChars,
             BeginsAt(SpecOf(left2, star2, modifier2, type2).text, fmt, k)
      PROVE  FALSE
  <2> DEFINE Are(x, y, z) ==
        /\ x \in 0 .. 1 /\ y \in 0 .. 1 /\ z \in 0 .. 1
        /\ k + 1 + x + y + z \in 1 .. Len(fmt)
        /\ IF x = 1 THEN fmt[k + 1] = "-" ELSE fmt[k + 1] \in {"*"} \cup Modifiers \cup TypeChars
        /\ IF y = 1 THEN fmt[k + 1 + x] = "*" ELSE fmt[k + 1 + x] \in Modifiers \cup TypeChars
        /\ IF z = 1 THEN fmt[k + 1 + x + y] \in Modifiers ELSE fmt[k + 1 + x + y] \in TypeChars
        /\ fmt[k + 1 + x + y + z] \in TypeChars
  <2>1. PICK x, y, z : Are(x, y, z)
    <3>1. Are(Len(left2), Len(star2), Len(modifier2))
      BY <1>7, SpecAt
    <3> HIDE DEF Are
    <3> QED BY <3>1
  <2>2. (l = 1 => x = 1) /\ (l = 0 /\ s = 0 /\ m = 0 => FALSE)
    <3>1. l = 1 => x = 1
      BY <1>2, <1>5, <2>1
    <3>2. ASSUME l = 0, s = 0, m = 0 PROVE FALSE
      <4>1. k + 1 + l + s + m = k + 1
        BY <1>3, <3>2
      <4> QED BY <1>2, <1>4, <2>1, <3>2, <4>1
    <3> QED BY <3>1, <3>2
  <2>3. l = x
    <3>1. CASE l = 0 /\ s = 1
      <4>1. k + 1 + l = k + 1
        BY <1>3, <3>1
      <4> QED BY <1>2, <1>5, <2>1, <3>1, <4>1
    <3>2. CASE l = 0 /\ s = 0 /\ m = 1
      <4>1. k + 1 + l + s = k + 1
        BY <1>3, <3>2
      <4> QED BY <1>2, <1>5, <2>1, <3>2, <4>1
    <3> QED BY <1>1, <2>1, <2>2, <3>1, <3>2
  <2>4. fmt[k + 1 + l] = fmt[k + 1 + x] /\ fmt[k + 1 + l + s] = fmt[k + 1 + x + s]
        /\ fmt[k + 1 + l + s + m] = fmt[k + 1 + x + s + m]
    BY <2>3
  <2>5. s = y
    <3>1. CASE s = 1
      BY <1>2, <1>5, <2>1, <2>4, <3>1
    <3>2. CASE s = 0 /\ m = 1
      <4>1. k + 1 + l + s = k + 1 + l
        BY <1>1, <1>3, <3>2
      <4> QED BY <1>2, <1>5, <2>1, <2>4, <3>2, <4>1
    <3>3. CASE s = 0 /\ m = 0
      <4>1. k + 1 + l + s + m = k + 1 + l
        BY <1>1, <1>3, <3>3
      <4>2. c # "*" /\ c \notin Modifiers \cup TypeChars
        BY <1>4, <3>3
      <4> QED BY <1>2, <2>1, <2>4, <3>3, <4>1, <4>2
    <3> QED BY <1>1, <3>1, <3>2, <3>3
  <2>6. m = z
    <3>1. CASE m = 1
      <4>1. fmt[k + 1 + x + y] \in Modifiers
        BY <1>2, <2>4, <2>5, <3>1
      <4> QED BY <1>5, <2>1, <3>1, <4>1
    <3>2. CASE m = 0
      <4>1. k + 1 + l + s + m = k + 1 + l + s
        BY <1>1, <1>3, <3>2
      <4>2. fmt[k + 1 + x + y] = c
        BY <1>2, <2>4, <2>5, <4>1
      <4>3. c \notin Modifiers \cup TypeChars
        BY <1>4, <3>2
      <4> QED BY <2>1, <4>2, <4>3
    <3> QED BY <1>1, <3>1, <3>2
  <2>7. fmt[k + 1 + x + y + z] = c
    BY <1>2, <2>3, <2>5, <2>6
  <2> QED BY <2>1, <2>7
<1>8. ~ \E spec \in Specifiers : BeginsAt(spec.text, fmt, k)
  <2> SUFFICES ASSUME NEW spec \in Specifiers, BeginsAt(spec.text, fmt, k) PROVE FALSE
    OBVIOUS
  <2>1. PICK left2 \in Lefts, star2 \in Stars, modifier2 \in Mods, type2 \in TypeChars :
          spec = SpecOf(left2, star2, modifier2, type2)
    BY SpecifiersAre
  <2> QED BY <1>7, <2>1
<1>9. ~ (k > Len(fmt) \/ fmt[k] = "NUL") /\ ~ (k <= Len(fmt) /\ fmt[k] \notin {"%", "NUL"})
  BY <1>2, <1>3
<1> QED BY <1>6, <1>8, <1>9, DirectiveIs

(* The texts of begun specifiers.                                          *)
LEMMA BegunIsText ==
  ASSUME NEW left \in Lefts, NEW star \in Stars, NEW modifier \in Mods
  PROVE  IsText(Begun(left, star, modifier))
BY PartsOf DEF Begun

(* One part after the other.                                               *)
LEMMA BegunMore ==
  ASSUME NEW left \in Lefts, NEW star \in Stars
  PROVE  /\ Begun(<< >>, << >>, << >>) = <<"%">>
         /\ Begun(<< >>, << >>, << >>) \o <<"-">> = Begun(<<"-">>, << >>, << >>)
         /\ Begun(left, << >>, << >>) \o <<"*">> = Begun(left, <<"*">>, << >>)
         /\ \A c : Begun(left, star, << >>) \o <<c>> = Begun(left, star, <<c>>)
<1> DEFINE p == <<"%">>
           d == <<"-">>
           w == <<"*">>
           e == << >>
<1>1. IsText(p) /\ IsText(d) /\ IsText(w) /\ IsText(left) /\ IsText(star)
  BY One, EmptyText DEF Lefts, Stars
<1>2. \A t : IsText(t) => t \o << >> = t
  BY JoinedWithEmpty
<1> HIDE DEF p, d, w
<1>3. IsText(p \o left) /\ IsText(p \o d)
  <2>1. IsText(p) /\ IsText(left) /\ IsText(d)
    BY <1>1
  <2> QED BY ONLY <2>1, Both
<1> DEFINE pl == p \o left
           pd == p \o d
<1> HIDE DEF pl, pd
<1>4. IsText(pl \o star) /\ IsText(pl \o w)
  <2>1. IsText(pl) /\ IsText(star) /\ IsText(w)
    BY <1>1, <1>3 DEF pl
  <2> QED BY ONLY <2>1, Both
<1> DEFINE pls == pl \o star
           plw == pl \o w
<1> HIDE DEF pls, plw
<1>5. p \o << >> = p /\ pl \o << >> = pl /\ pd \o << >> = pd /\ pls \o << >> = pls
      /\ plw \o << >> = plw
  BY <1>1, <1>2, <1>3, <1>4 DEF pl, pd, pls, plw
<1>6. Begun(<< >>, << >>, << >>) = p
  <2>1. Begun(<< >>, << >>, << >>) = ((p \o << >>) \o << >>) \o << >>
    BY DEF Begun, p
  <2> QED BY <1>5, <2>1
<1>7. Begun(<<"-">>, << >>, << >>) = pd
  <2>1. Begun(<<"-">>, << >>, << >>) = (pd \o << >>) \o << >>
    BY DEF Begun, p, d, pd
  <2> QED BY <1>5, <2>1
<1>8. Begun(left, << >>, << >>) = pl
  <2>1. Begun(left, << >>, << >>) = (pl \o << >>) \o << >>
    BY DEF Begun, p, pl
  <2> QED BY <1>5, <2>1
<1>9. Begun(left, <<"*">>, << >>) = plw
  <2>1. Begun(left, <<"*">>, << >>) = plw \o << >>
    BY DEF Begun, p, w, pl, plw
  <2> QED BY <1>5, <2>1
<1>10. Begun(left, star, << >>) = pls
  <2>1. Begun(left, star, << >>) = pls \o << >>
    BY DEF Begun, p, pl, pls
  <2> QED BY <1>5, <2>1
<1>11. \A c : Begun(left, star, <<c>>) = pls \o <<c>>
  BY DEF Begun, p, pl, pls
<1> QED BY <1>6, <1>7, <1>8, <1>9, <1>10, <1>11 DEF p, pd, d, plw, w

(* A format with a begun specifier, and a character that does not fit.     *)
LEMMA CutOff ==
  ASSUME NEW base, IsText(base), NEW left \in Lefts, NEW star \in Stars, NEW modifier \in Mods,
         NEW c, c \notin TypeChars, modifier = << >> => c \notin Modifiers,
         modifier = << >> /\ star = << >> => c # "*",
         modifier = << >> /\ star = << >> /\ left = << >> => c \notin {"-", "%"},
         NEW arguments, NEW a
  PROVE  Directive(base \o (Begun(left, star, modifier) \o <<c>>), arguments, Len(base) + 1, a)
           = [kind |-> "malformed"]
<1> DEFINE b == Begun(left, star, modifier)
           e == <<c>>
           p == b \o e
           fmt == base \o p
           k == Len(base) + 1
           l == Len(left)
           s == Len(star)
           m == Len(modifier)
<1>1. /\ l \in 0 .. 1 /\ s \in 0 .. 1 /\ m \in 0 .. 1
      /\ IsText(b) /\ Len(b) = 1 + l + s + m
      /\ b[1] = "%"
      /\ l = 1 => b[2] = "-"
      /\ s = 1 => b[2 + l] = "*"
      /\ m = 1 => b[2 + l + s] \in Modifiers
  BY PartsOf DEF Begun
<1>2. IsText(e) /\ Len(e) = 1 /\ e[1] = c
  BY One
<1> HIDE DEF b, e, l, s, m
<1>3. /\ IsText(p) /\ Len(p) = Len(b) + 1
      /\ \A j \in 1 .. Len(b) : p[j] = b[j]
      /\ p[Len(b) + 1] = c
  <2>1. /\ IsText(p) /\ Len(p) = Len(b) + Len(e)
        /\ \A j \in 1 .. Len(b) : p[j] = b[j]
        /\ \A j \in 1 .. Len(e) : p[Len(b) + j] = e[j]
    <3>1. IsText(b) /\ IsText(e)
      BY <1>1, <1>2
    <3> QED BY ONLY <3>1, Joined
  <2> QED BY <1>2, <2>1
<1> HIDE DEF p
<1>4. /\ IsText(fmt) /\ Len(fmt) = Len(base) + Len(p)
      /\ \A j \in 1 .. Len(p) : fmt[Len(base) + j] = p[j]
  <2>1. IsText(base) /\ IsText(p)
    BY <1>3
  <2> QED BY ONLY <2>1, Joined
<1>5. Len(base) \in Nat
  BY DEF IsText
<1> HIDE DEF fmt
<1>6. \A j \in 1 .. Len(b) : fmt[Len(base) + j] = b[j]
  BY <1>1, <1>3, <1>4
<1>7. fmt[Len(base) + (Len(b) + 1)] = c
  BY <1>1, <1>3, <1>4
<1>8. /\ 1 \in 1 .. Len(b) /\ (l = 1 => 2 \in 1 .. Len(b)) /\ (s = 1 => 2 + l \in 1 .. Len(b))
      /\ (m = 1 => 2 + l + s \in 1 .. Len(b))
  BY <1>1
<1>9. /\ fmt[Len(base) + 1] = "%"
      /\ l = 1 => fmt[Len(base) + 2] = "-"
      /\ s = 1 => fmt[Len(base) + (2 + l)] = "*"
      /\ m = 1 => fmt[Len(base) + (2 + l + s)] \in Modifiers
  BY <1>1, <1>6, <1>8
<1>10. /\ Len(base) + 2 = k + 1 /\ Len(base) + (2 + l) = k + 1 + l
       /\ Len(base) + (2 + l + s) = k + 1 + l + s
       /\ Len(base) + (Len(b) + 1) = k + 1 + l + s + m
       /\ k \in 1 .. Len(fmt) /\ Len(fmt) = k + 1 + l + s + m
  BY <1>1, <1>3, <1>4, <1>5
<1>11. /\ fmt[k] = "%"
       /\ l = 1 => fmt[k + 1] = "-"
       /\ s = 1 => fmt[k + 1 + l] = "*"
       /\ m = 1 => fmt[k + 1 + l + s] \in Modifiers
       /\ fmt[k + 1 + l + s + m] = c
  BY <1>7, <1>9, <1>10
<1> HIDE DEF k
<1>12. IsCutOff(fmt, k, l, s, m, c)
  BY <1>10, <1>11 DEF IsCutOff
<1>13. Directive(fmt, arguments, k, a) = [kind |-> "malformed"]
  <2>1. IsCutOff(fmt, k, Len(left), Len(star), Len(modifier), c)
    BY <1>12 DEF l, s, m
  <2>2. IsText(fmt) /\ k \in 1 .. Len(fmt)
    BY <1>4, <1>10
  <2> QED BY <2>1, <2>2, MalformedAt
<1> QED BY <1>13 DEF fmt, p, b, e, k
-----------------------------------------------------------------------------
(* The invariant of the parser: what has been read is a format of which the*)
(* text is what is to be written, and perhaps a begun specifier.  The text *)
(* is the output, as long as no object is padded.                          *)
Known(base, first, text) ==
  /\ IsText(base) /\ IsText(first) /\ IsText(text)
  /\ Writes(base, first, text)
  /\ objectPadded \/ text = output

Outside(base, first) ==
  parserState = "nothing" /\ format = base /\ args = first /\ formatSpec = NewFormatSpec

Inside(base, first, left, star, modifier) ==
  /\ parserState = StateOf(left, star, modifier)
  /\ format = base \o Begun(left, star, modifier)
  /\ args = first \o Given(star, formatSpec.width)
  /\ formatSpec = [leftAlign |-> left # << >>, modifier |-> ModifierOf(modifier),
                   width |-> formatSpec.width]
  /\ star = << >> => formatSpec.width = 0

Parsing ==
  \E base, first, text :
    /\ Known(base, first, text)
    /\ \/ Outside(base, first)
       \/ \E left \in Lefts, star \in Stars, modifier \in Mods :
            Inside(base, first, left, star, modifier)

FormatInv ==
  /\ IsText(format)
  /\ result = "running" => Parsing
  /\ OutputAsDocumented

(* What is true of the step that reads a character, if it is not the last. *)
LEMMA StillRunning ==
  ASSUME FormatInv, NEW c, Read(c), UNCHANGED result, Parsing => Parsing'
  PROVE  FormatInv'
<1>1. result = "running" /\ result' = "running" /\ format' = Append(format, c)
  BY DEF Read
<1>2. IsText(format') /\ Parsing'
  BY <1>1, Appended DEF FormatInv
<1>3. OutputAsDocumented'
  BY <1>1 DEF OutputAsDocumented
<1> QED BY <1>2, <1>3 DEF FormatInv

(* Characters are written as they are.                                     *)
LEMMA CharIs ==
  ASSUME NEW c
  PROVE  WriteChar(NewWriter, c) = <<c>>
<1> DEFINE s == <<c>>
<1>1. IsText(s) /\ Len(s) = 1
  BY One
<1>2. NewWriter.width = 0
  BY DEF NewWriter
<1>3. WriteChar(NewWriter, c) = Padded(s, 0, NewWriter.leftAlign)
  BY <1>2, StringIs DEF WriteChar
<1> HIDE DEF s
<1>4. Padded(s, 0, NewWriter.leftAlign) = s
  BY <1>1, NotPadded
<1> QED BY <1>3, <1>4 DEF s

(* Reading on.                                                             *)
LEMMA ReadOn ==
  ASSUME NEW base, IsText(base), NEW b, IsText(b), NEW c, format = base \o b,
         format' = Append(format, c)
  PROVE  format' = base \o (b \o <<c>>) /\ IsText(b \o <<c>>)
<1> DEFINE e == <<c>>
<1>1. IsText(e) /\ IsText(base \o b)
  BY One, Both
<1>2. format' = (base \o b) \o e
  BY <1>1, AppendIsJoined
<1> HIDE DEF e
<1>3. IsText(b \o e)
  BY <1>1, Both
<1>4. (base \o b) \o e = base \o (b \o e)
  <2>1. IsText(base) /\ IsText(b) /\ IsText(e)
    BY <1>1
  <2> QED BY ONLY <2>1, JoinedThree
<1> QED BY <1>2, <1>3, <1>4 DEF e

(* A begun specifier, or more of it.                                       *)
LEMMA ReadSpecifierReads ==
  ASSUME OutInv, FormatInv, NEW c, ReadSpecifier(c)
  PROVE  FormatInv'
<1>1. /\ Read(c) /\ UNCHANGED <<output, objectPadded, result>> /\ format' = Append(format, c)
      /\ parserState' = Transition(parserState, ConvertInputChar(c))
      /\ formatSpec \in FormatSpecs
  BY DEF ReadSpecifier, Read, OutInv, WriterInv
<1>2. \/ parserState' = "percent" /\ UNCHANGED <<formatSpec, args>>
      \/ parserState' = "leftAlign" /\ UNCHANGED args
         /\ formatSpec' = [formatSpec EXCEPT !.leftAlign = TRUE]
      \/ parserState' = "width"
         /\ \E width \in Widths :
              args' = Append(args, width) /\ formatSpec' = [formatSpec EXCEPT !.width = width]
      \/ parserState' = "modifier" /\ UNCHANGED args
         /\ formatSpec' = [formatSpec EXCEPT !.modifier = ConvertModifier(c)]
  BY DEF ReadSpecifier
<1> SUFFICES ASSUME Parsing PROVE Parsing'
  BY <1>1, StillRunning
<1>3. PICK base, first, text :
        /\ Known(base, first, text)
        /\ \/ Outside(base, first)
           \/ \E left \in Lefts, star \in Stars, modifier \in Mods :
                Inside(base, first, left, star, modifier)
  BY DEF Parsing
<1>4. Known(base, first, text)' /\ IsText(base) /\ IsText(first)
  BY <1>1, <1>3 DEF Known
<1>5. IsText(<< >>) /\ first \o << >> = first /\ base \o << >> = base
  BY <1>4, EmptyText, JoinedWithEmpty
<1>6. << >> \in Lefts /\ << >> \in Stars /\ << >> \in Mods /\ <<"-">> \in Lefts /\ <<"*">> \in Stars
      /\ \A m \in Modifiers : <<m>> \in Mods
  BY DEF Lefts, Stars, Mods, Modifiers
<1>7. ASSUME NEW left \in Lefts, NEW star \in Stars, NEW modifier \in Mods,
             Inside(base, first, left, star, modifier)'
      PROVE  Parsing'
  BY <1>4, <1>7 DEF Parsing
<1>8. CASE Outside(base, first)
  <2>1. parserState = "nothing" /\ format = base /\ args = first /\ formatSpec = NewFormatSpec
    BY <1>8 DEF Outside
  <2>2. parserState' = "percent" /\ c = "%" /\ UNCHANGED <<formatSpec, args>>
    BY <1>1, <1>2, <2>1, TransitionOutside
  <2>3. format' = base \o Begun(<< >>, << >>, << >>)
    <3>1. format' = base \o <<"%">>
      BY <1>1, <1>4, <2>1, <2>2, AppendIsJoined
    <3> QED BY <1>6, <3>1, BegunMore
  <2>4. parserState' = StateOf(<< >>, << >>, << >>)
    BY <2>2 DEF StateOf
  <2>5. args' = first \o Given(<< >>, formatSpec'.width)
    BY <1>5, <2>1, <2>2 DEF Given
  <2>6. formatSpec' = [leftAlign |-> FALSE, modifier |-> "intptr", width |-> 0]
    BY <2>1, <2>2 DEF NewFormatSpec
  <2>7. /\ formatSpec' = [leftAlign |-> << >> # << >>, modifier |-> ModifierOf(<< >>),
                          width |-> formatSpec'.width]
        /\ formatSpec'.width = 0
    <3>1. (<< >> # << >>) = FALSE /\ ModifierOf(<< >>) = "intptr"
      BY DEF ModifierOf
    <3> QED BY <2>6, <3>1
  <2>8. Inside(base, first, << >>, << >>, << >>)'
    BY <2>3, <2>4, <2>5, <2>7 DEF Inside
  <2> QED BY <1>6, <1>7, <2>8
<1>9. CASE \E left \in Lefts, star \in Stars, modifier \in Mods :
             Inside(base, first, left, star, modifier)
  <2>1. PICK left \in Lefts, star \in Stars, modifier \in Mods :
          Inside(base, first, left, star, modifier)
    BY <1>9
  <2> DEFINE b == Begun(left, star, modifier)
             w == formatSpec.width
  <2>2. /\ parserState = StateOf(left, star, modifier) /\ format = base \o b
        /\ args = first \o Given(star, w)
        /\ formatSpec = [leftAlign |-> left # << >>, modifier |-> ModifierOf(modifier), width |-> w]
        /\ star = << >> => w = 0
    BY <2>1 DEF Inside
  <2>3. IsText(b)
    BY BegunIsText
  <2>4. format' = base \o (b \o <<c>>)
    BY <1>1, <1>4, <2>2, <2>3, ReadOn
  <2> DEFINE next == Transition(StateOf(left, star, modifier), ConvertInputChar(c))
  <2>5. /\ parserState' = next
        /\ next \in {"leftAlign", "width", "modifier", "nothing", "abort"}
        /\ next = "leftAlign" => left = << >> /\ star = << >> /\ modifier = << >> /\ c = "-"
        /\ next = "width" => star = << >> /\ modifier = << >> /\ c = "*"
        /\ next = "modifier" => modifier = << >> /\ c \in Modifiers
    BY <1>1, <2>2, TransitionInside
  <2> HIDE DEF b, w, next
  <2>6. CASE parserState' = "leftAlign"
    <3>1. left = << >> /\ star = << >> /\ modifier = << >> /\ c = "-"
          /\ UNCHANGED args /\ formatSpec' = [formatSpec EXCEPT !.leftAlign = TRUE]
      BY <1>2, <2>5, <2>6
    <3>2. format' = base \o Begun(<<"-">>, << >>, << >>)
      BY <1>6, <2>4, <3>1, BegunMore DEF b
    <3>3. parserState' = StateOf(<<"-">>, << >>, << >>)
      BY <2>6 DEF StateOf
    <3>4. formatSpec' = [leftAlign |-> TRUE, modifier |-> ModifierOf(<< >>), width |-> w]
      BY <2>2, <3>1
    <3>5. (<<"-">> # << >>) = TRUE
      OBVIOUS
    <3>6. formatSpec' = [leftAlign |-> <<"-">> # << >>, modifier |-> ModifierOf(<< >>),
                         width |-> formatSpec'.width]
          /\ formatSpec'.width = 0 /\ w = 0
      BY <2>2, <3>1, <3>4, <3>5
    <3>7. args' = first \o Given(<< >>, formatSpec'.width)
      BY <2>2, <3>1, <3>6
    <3>8. Inside(base, first, <<"-">>, << >>, << >>)'
      BY <3>2, <3>3, <3>6, <3>7 DEF Inside
    <3> QED BY <1>6, <1>7, <3>8
  <2>7. CASE parserState' = "width"
    <3>1. star = << >> /\ modifier = << >> /\ c = "*"
      BY <2>5, <2>7
    <3>2. PICK width \in Widths :
            args' = Append(args, width) /\ formatSpec' = [formatSpec EXCEPT !.width = width]
      BY <1>2, <2>7
    <3>3. format' = base \o Begun(left, <<"*">>, << >>)
      BY <2>4, <3>1, BegunMore DEF b
    <3>4. parserState' = StateOf(left, <<"*">>, << >>)
      BY <2>7 DEF StateOf
    <3>5. formatSpec' = [leftAlign |-> left # << >>, modifier |-> ModifierOf(<< >>),
                         width |-> formatSpec'.width]
          /\ formatSpec'.width = width
      <4> DEFINE left2 == left # << >>
      <4> HIDE DEF left2
      <4>1. formatSpec = [leftAlign |-> left2, modifier |-> ModifierOf(<< >>), width |-> w]
        BY <2>2, <3>1 DEF left2
      <4>2. formatSpec' = [leftAlign |-> left2, modifier |-> ModifierOf(<< >>), width |-> width]
        BY <3>2, <4>1
      <4> QED BY <4>2 DEF left2
    <3>6. args' = first \o Given(<<"*">>, formatSpec'.width)
      <4>1. args = first
        BY <1>5, <2>2, <3>1 DEF Given
      <4>2. args' = first \o <<width>>
        BY <1>4, <3>2, <4>1, AppendIsJoined
      <4>3. Given(<<"*">>, width) = <<width>>
        BY DEF Given
      <4> QED BY <3>5, <4>2, <4>3
    <3>7. <<"*">> # << >>
      OBVIOUS
    <3>8. Inside(base, first, left, <<"*">>, << >>)'
      BY <3>3, <3>4, <3>5, <3>6, <3>7 DEF Inside
    <3> QED BY <1>6, <1>7, <3>8
  <2>8. CASE parserState' = "modifier"
    <3>1. modifier = << >> /\ c \in Modifiers /\ UNCHANGED args
          /\ formatSpec' = [formatSpec EXCEPT !.modifier = ConvertModifier(c)]
      BY <1>2, <2>5, <2>8
    <3>2. format' = base \o Begun(left, star, <<c>>)
      BY <2>4, <3>1, BegunMore DEF b
    <3>3. parserState' = StateOf(left, star, <<c>>)
      BY <2>8 DEF StateOf
    <3>4. ModifierOf(<<c>>) = ConvertModifier(c)
      BY DEF ModifierOf
    <3>5. formatSpec' = [leftAlign |-> left # << >>, modifier |-> ModifierOf(<<c>>),
                         width |-> formatSpec'.width]
          /\ formatSpec'.width = w
      <4> DEFINE left2 == left # << >>
      <4> HIDE DEF left2
      <4>1. formatSpec = [leftAlign |-> left2, modifier |-> ModifierOf(<< >>), width |-> w]
        BY <2>2, <3>1 DEF left2
      <4>2. formatSpec' = [leftAlign |-> left2, modifier |-> ConvertModifier(c), width |-> w]
        BY <3>1, <4>1
      <4> QED BY <3>4, <4>2 DEF left2
    <3>6. args' = first \o Given(star, formatSpec'.width)
      BY <2>2, <3>1, <3>5
    <3>7. star = << >> => formatSpec'.width = 0
      BY <2>2, <3>5
    <3>8. Inside(base, first, left, star, <<c>>)'
      BY <3>2, <3>3, <3>5, <3>6, <3>7 DEF Inside
    <3> QED BY <1>6, <1>7, <3>1, <3>8
  <2> QED BY <1>2, <2>5, <2>6, <2>7, <2>8
<1> QED BY <1>3, <1>8, <1>9

(* A character of the format that is written.                              *)
LEMMA ReadTextReads ==
  ASSUME OutInv, FormatInv, NEW c, ReadText(c)
  PROVE  FormatInv'
<1>1. /\ Read(c) /\ UNCHANGED <<formatSpec, args, objectPadded, result>>
      /\ format' = Append(format, c)
      /\ parserState' = Transition(parserState, ConvertInputChar(c)) /\ parserState' = "nothing"
      /\ (parserState = "nothing" \/ c = "%")
      /\ writer = NewWriter
  BY RunningIsUp DEF ReadText, Read
<1>2. output' = output \o <<c>>
  <2>1. Send(WriteChar(NewWriter, c))
    BY <1>1 DEF ReadText
  <2> QED BY <2>1, CharIs DEF Send
<1> SUFFICES ASSUME Parsing PROVE Parsing'
  BY <1>1, StillRunning
<1>3. PICK base, first, text :
        /\ Known(base, first, text)
        /\ \/ Outside(base, first)
           \/ \E left \in Lefts, star \in Stars, modifier \in Mods :
                Inside(base, first, left, star, modifier)
  BY DEF Parsing
<1>4. /\ IsText(base) /\ IsText(first) /\ IsText(text) /\ Writes(base, first, text)
      /\ objectPadded \/ text = output
  BY <1>3 DEF Known
<1>5. IsText(<< >>) /\ first \o << >> = first
  BY <1>4, EmptyText, JoinedWithEmpty
<1>6. ASSUME NEW piece, IsText(piece), IsPiece(base, first, piece, << >>, <<c>>),
             format' = base \o piece, args = first, formatSpec = NewFormatSpec
      PROVE  Parsing'
  <2> DEFINE char == <<c>>
             none == << >>
  <2>1. IsText(char)
    BY One
  <2>2. IsPiece(base, first, piece, none, char) /\ IsText(none)
    BY <1>5, <1>6
  <2>3. output' = output \o char /\ first \o none = first
    BY <1>2, <1>5
  <2> HIDE DEF char, none
  <2>4. Writes(base \o piece, first \o none, text \o char)
    BY <1>4, <1>6, <2>1, <2>2, WritesPiece
  <2>5. Known(base \o piece, first, text \o char)'
    <3>1. IsText(base \o piece)
      BY <1>4, <1>6, Both
    <3>2. IsText(text \o char)
      BY <1>4, <2>1, Both
    <3>3. objectPadded' \/ text \o char = output'
      BY <1>1, <1>4, <2>3
    <3> QED BY <1>4, <2>3, <2>4, <3>1, <3>2, <3>3 DEF Known
  <2>6. Outside(base \o piece, first)'
    BY <1>1, <1>6 DEF Outside
  <2> QED BY <2>5, <2>6 DEF Parsing
<1>7. CASE Outside(base, first)
  <2>1. parserState = "nothing" /\ format = base /\ args = first /\ formatSpec = NewFormatSpec
    BY <1>7 DEF Outside
  <2>2. c \notin {"%", "NUL"}
    BY <1>1, <2>1, TransitionOutside
  <2> DEFINE piece == <<c>>
  <2>3. IsPiece(base, first, piece, << >>, <<c>>)
    BY <1>4, <2>2, CharPiece
  <2>4. IsText(piece) /\ format' = base \o piece
    BY <1>1, <1>4, <2>1, One, AppendIsJoined
  <2> HIDE DEF piece
  <2> QED BY <1>6, <2>1, <2>3, <2>4
<1>8. CASE \E left \in Lefts, star \in Stars, modifier \in Mods :
             Inside(base, first, left, star, modifier)
  <2>1. PICK left \in Lefts, star \in Stars, modifier \in Mods :
          Inside(base, first, left, star, modifier)
    BY <1>8
  <2>2. /\ parserState = StateOf(left, star, modifier)
        /\ format = base \o Begun(left, star, modifier)
        /\ args = first \o Given(star, formatSpec.width)
        /\ formatSpec = [leftAlign |-> left # << >>, modifier |-> ModifierOf(modifier),
                         width |-> formatSpec.width]
        /\ star = << >> => formatSpec.width = 0
    BY <2>1 DEF Inside
  <2>3. parserState # "nothing"
    BY <2>2 DEF StateOf
  <2>4. c = "%" /\ c \notin TypeChars
    BY <1>1, <2>3 DEF TypeChars
  <2>5. left = << >> /\ star = << >> /\ modifier = << >>
    <3> DEFINE next == Transition(StateOf(left, star, modifier), ConvertInputChar(c))
    <3>1. next = "nothing" => \/ ConvertInputChar(c) = "type" /\ c \in TypeChars
                              \/ /\ left = << >> /\ star = << >> /\ modifier = << >>
                                 /\ c = "%" /\ ConvertInputChar(c) # "type"
      BY TransitionInside
    <3>2. next = "nothing"
      BY <1>1, <2>2
    <3> HIDE DEF next
    <3> QED BY <2>4, <3>1, <3>2
  <2>6. Begun(left, star, modifier) = <<"%">>
    BY <2>5, BegunMore
  <2> DEFINE p == <<"%">>
             pp == <<"%", "%">>
  <2>7. IsText(p) /\ format = base \o p
    BY <2>2, <2>6, One
  <2>8. format' = base \o (p \o <<c>>)
    <3> HIDE DEF p
    <3> QED BY <1>1, <1>4, <2>7, ReadOn
  <2>9. IsText(pp) /\ Len(pp) = 2 /\ pp[1] = "%" /\ pp[2] = "%"
    <3>1. pp \in Seq({"%"}) /\ Len(pp) = 2 /\ pp[1] = "%" /\ pp[2] = "%"
      OBVIOUS
    <3> QED BY <3>1, SeqIsText
  <2>10. p \o <<c>> = pp
    <3>1. IsText(p) /\ Len(p) = 1 /\ p[1] = "%" /\ <<c>> = p
      BY <2>4, One
    <3> HIDE DEF p, pp
    <3>2. /\ IsText(p \o p) /\ Len(p \o p) = Len(p) + Len(p)
          /\ \A k \in 1 .. Len(p) : (p \o p)[k] = p[k]
          /\ \A k \in 1 .. Len(p) : (p \o p)[Len(p) + k] = p[k]
      <4>1. IsText(p)
        BY <3>1
      <4> QED BY ONLY <4>1, Joined
    <3>3. Len(p \o p) = 2 /\ (p \o p)[1] = "%" /\ (p \o p)[1 + 1] = "%"
      BY <3>1, <3>2
    <3>4. \A k \in 1 .. 2 : (p \o p)[k] = pp[k]
      <4>1. \A k \in 1 .. 2 : k = 1 \/ k = 2
        OBVIOUS
      <4> QED BY <2>9, <3>3, <4>1
    <3>5. p \o p = pp
      BY <2>9, <3>2, <3>3, <3>4, SameText
    <3> QED BY <3>1, <3>5
  <2>11. IsPiece(base, first, pp, << >>, <<c>>)
    BY <1>4, <2>4, PercentPiece
  <2>12. args = first
    BY <1>5, <2>2, <2>5 DEF Given
  <2>13. formatSpec = NewFormatSpec
    <3>1. (left # << >>) = FALSE /\ ModifierOf(modifier) = "intptr" /\ formatSpec.width = 0
      BY <2>2, <2>5 DEF ModifierOf
    <3> QED BY <2>2, <3>1 DEF NewFormatSpec
  <2> HIDE DEF p, pp
  <2> QED BY <1>6, <2>8, <2>9, <2>10, <2>11, <2>12, <2>13
<1> QED BY <1>3, <1>7, <1>8

(* The end of a specifier.                                                 *)
LEMMA ReadTypeReads ==
  ASSUME OutInv, FormatInv, NEW c, ReadType(c)
  PROVE  FormatInv'
<1>1. /\ Read(c) /\ UNCHANGED result /\ format' = Append(format, c)
      /\ parserState # "nothing" /\ parserState' = "nothing" /\ c \in TypeChars
  BY Transitions DEF ReadType, Read
<1>2. PICK arg \in Arguments(c) : WriteNextArg(c, arg)
  BY DEF ReadType
<1> DEFINE w == [hexMode |-> c = "x", leftAlign |-> formatSpec.leftAlign,
                 width |-> formatSpec.width]
           chars == Formatted(w, c, formatSpec.modifier, arg)
<1>3. /\ Send(chars) /\ formatSpec' = NewFormatSpec /\ args' = Append(args, arg)
      /\ objectPadded' = (objectPadded \/ (c = "O" /\ w.width # 0))
  BY <1>2 DEF WriteNextArg
<1>4. formatSpec.modifier \in Types /\ formatSpec.width \in Int
  BY DEF OutInv, WriterInv, FormatSpecs
<1>5. IsWriter(w) /\ w.hexMode = (c = "x") /\ w.width = formatSpec.width
      /\ w.leftAlign = formatSpec.leftAlign
  BY <1>4 DEF IsWriter
<1> HIDE DEF w
<1>6. IsText(chars)
  BY <1>1, <1>4, <1>5, ArgumentWritten
<1>7. output' = output \o chars
  BY <1>3 DEF Send
<1> SUFFICES ASSUME Parsing PROVE Parsing'
  BY <1>1, StillRunning
<1>8. PICK base, first, text :
        /\ Known(base, first, text)
        /\ \/ Outside(base, first)
           \/ \E left \in Lefts, star \in Stars, modifier \in Mods :
                Inside(base, first, left, star, modifier)
  BY DEF Parsing
<1>9. /\ IsText(base) /\ IsText(first) /\ IsText(text) /\ Writes(base, first, text)
      /\ objectPadded \/ text = output
  BY <1>8 DEF Known
<1>10. PICK left \in Lefts, star \in Stars, modifier \in Mods :
         Inside(base, first, left, star, modifier)
  BY <1>1, <1>8 DEF Outside
<1>16. PICK width : width = formatSpec.width
  OBVIOUS
<1> DEFINE b == Begun(left, star, modifier)
           spec == SpecOf(left, star, modifier, c)
           piece == spec.text
           g == Given(star, width)
           given == g \o <<arg>>
<1>11. /\ format = base \o b /\ args = first \o g
       /\ formatSpec.leftAlign = (left # << >>) /\ formatSpec.modifier = ModifierOf(modifier)
       /\ star = << >> => width = 0
  <2>1. /\ format = base \o b /\ args = first \o g
        /\ formatSpec = [leftAlign |-> left # << >>, modifier |-> ModifierOf(modifier),
                         width |-> formatSpec.width]
        /\ star = << >> => width = 0
    BY <1>10, <1>16 DEF Inside
  <2> DEFINE left2 == left # << >>
             f == formatSpec
  <2>2. f = [leftAlign |-> left2, modifier |-> ModifierOf(modifier), width |-> f.width]
    BY <2>1
  <2> HIDE DEF left2, f
  <2>3. f.leftAlign = left2 /\ f.modifier = ModifierOf(modifier)
    BY <2>2
  <2> QED BY <2>1, <2>3 DEF left2, f
<1>12. spec.modifier = formatSpec.modifier /\ piece = b \o <<c>>
  <2>1. spec.modifier = ModifierOf(modifier) /\ piece = b \o <<c>>
    BY DEF SpecOf, ModifierOf, Begun
  <2> QED BY <1>11, <2>1
<1>13. IsText(b)
  BY BegunIsText
<1>14. format' = base \o piece /\ IsText(piece)
  <2> HIDE DEF b
  <2>1. format' = base \o (b \o <<c>>) /\ IsText(b \o <<c>>)
    BY <1>1, <1>9, <1>11, <1>13, ReadOn
  <2> QED BY <1>12, <2>1
<1>15. IsText(g) /\ IsText(given) /\ args' = first \o given
  <2> DEFINE e == <<arg>>
  <2>1. IsText(g)
    BY EmptyText, One DEF Given
  <2>2. IsText(e)
    BY One
  <2> HIDE DEF g, e
  <2>3. IsText(first) /\ IsText(g) /\ IsText(e)
    BY <1>9, <2>1, <2>2
  <2>4. IsText(first \o g) /\ IsText(g \o e) /\ (first \o g) \o e = first \o (g \o e)
    BY ONLY SMTT(40), <2>3, Both, JoinedThree
  <2>5. args' = (first \o g) \o e
    BY <1>3, <1>11, <2>4, AppendIsJoined DEF e
  <2> QED BY <2>1, <2>4, <2>5 DEF e
<1> DEFINE more == Written(c, spec.modifier, arg, width, left # << >>)
<1>17. IsText(more)
  <2>1. spec.modifier \in Types /\ width \in Int
    BY <1>4, <1>12, <1>16
  <2> HIDE DEF spec
  <2> QED BY <1>1, <2>1, WrittenIsText
<1>18. objectPadded' \/ (text = output /\ more = chars)
  <2> SUFFICES ASSUME ~ objectPadded' PROVE text = output /\ more = chars
    OBVIOUS
  <2>1. ~ objectPadded /\ ~ (c = "O" /\ w.width # 0)
    BY <1>3
  <2>2. chars = Written(c, formatSpec.modifier, arg, w.width, w.leftAlign)
    BY <1>1, <1>4, <1>5, <2>1, FormattedIs
  <2>3. chars = more
    BY <1>5, <1>11, <1>12, <1>16, <2>2
  <2> QED BY <1>9, <2>1, <2>3
<1>19. IsPiece(base, first, piece, given, more)
  BY <1>1, <1>9, <1>11, SpecPiece
<1>20. ASSUME NEW p, IsText(p), NEW q, IsText(q), format' = base \o p, args' = first \o q,
             IsPiece(base, first, p, q, more)
      PROVE  Parsing'
  <2> HIDE DEF chars, more
  <2>1. Writes(base \o p, first \o q, text \o more)
    BY <1>9, <1>17, <1>20, WritesPiece
  <2>2. IsText(base \o p) /\ IsText(first \o q) /\ IsText(text \o more)
    <3>1. IsText(base \o p)
      BY <1>9, <1>20, Both
    <3>2. IsText(first \o q)
      BY <1>9, <1>20, Both
    <3>3. IsText(text \o more)
      BY <1>9, <1>17, Both
    <3> QED BY <3>1, <3>2, <3>3
  <2>3. objectPadded' \/ text \o more = output'
    BY <1>7, <1>18
  <2>4. Known(base \o p, first \o q, text \o more)'
    BY <2>1, <2>2, <2>3 DEF Known
  <2>5. Outside(base \o p, first \o q)'
    BY <1>1, <1>3, <1>20 DEF Outside
  <2> QED BY <2>4, <2>5 DEF Parsing
<1> HIDE DEF chars, more, piece, given
<1> QED BY <1>14, <1>15, <1>19, <1>20

(* While the display is up there is a stream.                              *)
LEMMA StreamNow ==
  ASSUME OutInv, access = Len(Reset)
  PROVE  IsStream(Stream)
<1>1. ClearedAt <= access
  BY ClearsBeforeUnblank
<1>2. PICK lost \in Nat : Shows(display, paper, buffer, lost)
  BY <1>1 DEF OutInv, ScreenInv
<1> QED BY <1>2, StreamIs DEF OutInv, ScreenInv, Stream

(* The end of a call, after a specifier that was cut off or none.          *)
LEMMA Returned ==
  ASSUME OutInv, NEW base, NEW first, NEW text, Known(base, first, text), NEW c, Read(c),
         UNCHANGED objectPadded,
         NEW rest, IsText(rest), NEW more, IsText(more),
         format' = base \o rest, args' = first \o more,
         NEW kind \in {"end", "malformed"},
         Directive(base \o rest, first \o more, Len(base) + 1, Len(first) + 1) = [kind |-> kind],
         NEW how, how = IF kind = "end" THEN "ok" ELSE "malformed",
         Return(how, IF kind = "end" THEN <<"NUL">> ELSE << >>)
  PROVE  OutputAsDocumented'
<1> DEFINE end == IF kind = "end" THEN <<"NUL">> ELSE << >>
           line == IF call = "writeLine" THEN <<"LF">> ELSE << >>
           chars == end \o line
<1>1. access = Len(Reset) /\ writer = NewWriter /\ call' = call
  BY RunningIsUp DEF Read
<1>2. result' = how /\ Send(chars)
  <2>1. WriteChar(writer, "LF") = <<"LF">>
    BY <1>1, CharIs
  <2> QED BY <2>1 DEF Return
<1>3. output' = output \o chars /\ buffer' = StreamWriteAll(Stream, chars).buffer
  BY <1>2 DEF Send
<1>4. /\ IsText(text) /\ IsText(base) /\ IsText(first) /\ Writes(base, first, text)
      /\ objectPadded \/ text = output
      /\ IsText(output)
  BY DEF Known, OutInv, WriterInv
<1>5. /\ Documented(format', args').text = text
      /\ Documented(format', args').ok = (kind = "end")
  BY <1>4, WritesAll
<1>6. (how = "ok") = (kind = "end")
  OBVIOUS
<1>7. IsText(end) /\ IsText(line)
  BY EmptyText, One
<1>8. output' = (output \o end) \o line
  <2> HIDE DEF end, line
  <2>1. IsText(output) /\ IsText(end) /\ IsText(line)
    BY <1>4, <1>7
  <2>2. (output \o end) \o line = output \o (end \o line)
    BY ONLY SMTT(40), <2>1, JoinedThree
  <2> QED BY <1>3, <2>2
<1>9. ASSUME kind = "end" PROVE buffer' = << >>
  <2>1. end = <<"NUL">>
    BY <1>9
  <2>2. Len(chars) \in Nat \ {0} /\ chars[Len(chars)] \in {"NUL", "LF"}
    <3> DEFINE n == <<"NUL">>
               f == <<"LF">>
    <3>1. CASE call = "writeLine"
      <4>1. chars = n \o f
        BY <2>1, <3>1
      <4>2. IsText(n) /\ Len(n) = 1 /\ IsText(f) /\ Len(f) = 1 /\ f[1] = "LF"
        BY One
      <4> HIDE DEF n, f, chars
      <4>3. Len(n \o f) = Len(n) + Len(f) /\ \A k \in 1 .. Len(f) : (n \o f)[Len(n) + k] = f[k]
        <5>1. IsText(n) /\ IsText(f)
          BY <4>2
        <5> QED BY ONLY <5>1, Joined
      <4>4. Len(n \o f) = 2 /\ (n \o f)[1 + 1] = "LF"
        BY <4>2, <4>3
      <4> QED BY <4>1, <4>4
    <3>2. CASE call # "writeLine"
      <4>1. chars = n \o << >>
        BY <2>1, <3>2
      <4>2. IsText(n) /\ Len(n) = 1 /\ n[1] = "NUL"
        BY One
      <4>3. n \o << >> = n
        BY <4>2, JoinedWithEmpty
      <4> HIDE DEF n, chars
      <4>4. chars = n /\ Len(n) \in Nat \ {0} /\ n[Len(n)] = "NUL"
        BY <4>1, <4>2, <4>3
      <4> QED BY <4>4
    <3> QED BY <3>1, <3>2
  <2> HIDE DEF chars
  <2>3. StreamWriteAll(Stream, chars).buffer = << >>
    BY <1>1, <2>2, StreamNow, FlushedAtEnd
  <2> QED BY <1>3, <2>3
<1> DEFINE documented == Documented(format', args')
<1>10. /\ (result' = "ok") = documented.ok
       /\ ~ objectPadded' =>
            output' = documented.text \o (IF documented.ok THEN <<"NUL">> ELSE << >>)
                                      \o (IF call' = "writeLine" THEN <<"LF">> ELSE << >>)
       /\ result' = "ok" => buffer' = << >>
  <2>1. (result' = "ok") = documented.ok
    BY <1>2, <1>5, <1>6
  <2>2. ASSUME ~ objectPadded'
        PROVE  output' = documented.text \o (IF documented.ok THEN <<"NUL">> ELSE << >>)
                                         \o (IF call' = "writeLine" THEN <<"LF">> ELSE << >>)
    <3>1. text = output
      BY <1>4, <2>2
    <3> QED BY <1>1, <1>5, <1>8, <3>1
  <2>3. result' = "ok" => buffer' = << >>
    BY <1>2, <1>6, <1>9
  <2> QED BY <2>1, <2>2, <2>3
<1> HIDE DEF documented
<1> QED BY <1>10 DEF OutputAsDocumented, documented

(* The end of the format.                                                  *)
LEMMA ReadEndReads ==
  ASSUME OutInv, FormatInv, NEW c, ReadEnd(c)
  PROVE  FormatInv'
<1>1. /\ Read(c) /\ UNCHANGED <<formatSpec, args, objectPadded>> /\ format' = Append(format, c)
      /\ result = "running" /\ result' = "ok" /\ IsText(format)
      /\ Transition(parserState, ConvertInputChar(c)) = "end"
      /\ writer = NewWriter /\ Return("ok", WriteChar(writer, "NUL"))
  BY RunningIsUp DEF ReadEnd, Read, Return, FormatInv
<1>2. IsText(format')
  BY <1>1, Appended
<1>3. Parsing
  BY <1>1 DEF FormatInv
<1>4. PICK base, first, text :
        /\ Known(base, first, text)
        /\ \/ Outside(base, first)
           \/ \E left \in Lefts, star \in Stars, modifier \in Mods :
                Inside(base, first, left, star, modifier)
  BY <1>3 DEF Parsing
<1>5. ASSUME NEW left \in Lefts, NEW star \in Stars, NEW modifier \in Mods,
             Inside(base, first, left, star, modifier)
      PROVE  FALSE
  <2>1. parserState = StateOf(left, star, modifier)
    BY <1>5 DEF Inside
  <2>2. Transition(StateOf(left, star, modifier), ConvertInputChar(c))
          \in {"leftAlign", "width", "modifier", "nothing", "abort"}
    BY TransitionInside
  <2> QED BY <1>1, <2>1, <2>2
<1>6. parserState = "nothing" /\ format = base /\ args = first
  BY <1>4, <1>5 DEF Outside
<1>7. c = "NUL"
  BY <1>1, <1>6, TransitionOutside
<1>8. IsText(base) /\ IsText(first)
  BY <1>4 DEF Known
<1> DEFINE rest == <<"NUL">>
           more == << >>
<1>9. IsText(rest) /\ Len(rest) = 1 /\ rest[1] = "NUL" /\ IsText(more)
  BY One, EmptyText
<1>10. format' = base \o rest /\ args' = first \o more
  BY <1>1, <1>6, <1>7, <1>8, AppendIsJoined, JoinedWithEmpty
<1>11. Return("ok", rest)
  <2>1. WriteChar(writer, "NUL") = rest
    BY <1>1, CharIs
  <2> HIDE DEF rest
  <2> QED BY <1>1, <2>1
<1> HIDE DEF rest, more
<1>12. /\ IsText(base \o rest) /\ Len(base) + 1 \in Nat \ {0} /\ Len(first) + 1 \in Nat
       /\ (base \o rest)[Len(base) + 1] = "NUL"
  <2>1. /\ IsText(base \o rest)
        /\ \A k \in 1 .. Len(rest) : (base \o rest)[Len(base) + k] = rest[k]
    <3>1. IsText(base) /\ IsText(rest)
      BY <1>8, <1>9
    <3> QED BY ONLY <3>1, Joined
  <2>2. Len(base) \in Nat /\ Len(first) \in Nat
    BY <1>8 DEF IsText
  <2> QED BY SMTT(40), <1>9, <2>1, <2>2
<1>13. Directive(base \o rest, first \o more, Len(base) + 1, Len(first) + 1) = [kind |-> "end"]
  BY <1>12, DirectiveOfEnd
<1>14. OutputAsDocumented'
  <2> DEFINE kind == "end"
             how == "ok"
  <2>1. /\ kind \in {"end", "malformed"}
        /\ how = IF kind = "end" THEN "ok" ELSE "malformed"
        /\ Directive(base \o rest, first \o more, Len(base) + 1, Len(first) + 1)
             = [kind |-> kind]
        /\ Return(how, IF kind = "end" THEN <<"NUL">> ELSE << >>)
    BY <1>11, <1>13 DEF rest
  <2> HIDE DEF kind, how
  <2> QED BY <1>1, <1>4, <1>9, <1>10, <2>1, Returned
<1> QED BY <1>1, <1>2, <1>14 DEF FormatInv

(* A specifier that is cut off.                                            *)
LEMMA ReadMalformedReads ==
  ASSUME OutInv, FormatInv, NEW c, ReadMalformed(c)
  PROVE  FormatInv'
<1>1. /\ Read(c) /\ UNCHANGED <<formatSpec, args, objectPadded>> /\ format' = Append(format, c)
      /\ result = "running" /\ result' = "malformed" /\ IsText(format)
      /\ Transition(parserState, ConvertInputChar(c)) = "abort"
      /\ Return("malformed", << >>)
  BY RunningIsUp DEF ReadMalformed, Read, Return, FormatInv
<1>2. IsText(format')
  BY <1>1, Appended
<1>3. Parsing
  BY <1>1 DEF FormatInv
<1>4. PICK base, first, text :
        /\ Known(base, first, text)
        /\ \/ Outside(base, first)
           \/ \E left \in Lefts, star \in Stars, modifier \in Mods :
                Inside(base, first, left, star, modifier)
  BY <1>3 DEF Parsing
<1>5. ~ Outside(base, first)
  <2>1. Transition("nothing", ConvertInputChar(c)) \in {"percent", "end", "nothing"}
    BY TransitionOutside
  <2> QED BY <1>1, <2>1 DEF Outside
<1>6. PICK left \in Lefts, star \in Stars, modifier \in Mods :
        Inside(base, first, left, star, modifier)
  BY <1>4, <1>5
<1>7. PICK width : width = formatSpec.width
  OBVIOUS
<1> DEFINE b == Begun(left, star, modifier)
           rest == b \o <<c>>
           more == Given(star, width)
<1>8. parserState = StateOf(left, star, modifier) /\ format = base \o b /\ args = first \o more
  BY <1>6, <1>7 DEF Inside
<1>9. IsText(base) /\ IsText(first) /\ IsText(b) /\ IsText(more)
  BY <1>4, BegunIsText, EmptyText, One DEF Known, Given
<1>10. /\ c \notin TypeChars
       /\ modifier = << >> => c \notin Modifiers
       /\ modifier = << >> /\ star = << >> => c # "*"
       /\ modifier = << >> /\ star = << >> /\ left = << >> => c \notin {"-", "%"}
  <2> DEFINE next == Transition(StateOf(left, star, modifier), ConvertInputChar(c))
  <2>1. next = "abort"
    BY <1>1, <1>8
  <2>2. next = "abort" =>
          /\ c \notin TypeChars
          /\ modifier = << >> => c \notin Modifiers
          /\ modifier = << >> /\ star = << >> => c # "*"
          /\ modifier = << >> /\ star = << >> /\ left = << >> => c \notin {"-", "%"}
    BY TransitionInside
  <2> HIDE DEF next
  <2> QED BY <2>1, <2>2
<1>11. Directive(base \o rest, first \o more, Len(base) + 1, Len(first) + 1)
        = [kind |-> "malformed"]
  BY <1>9, <1>10, CutOff
<1>12. format' = base \o rest /\ IsText(rest) /\ args' = first \o more
  <2> HIDE DEF b
  <2>1. format' = base \o (b \o <<c>>) /\ IsText(b \o <<c>>)
    BY <1>1, <1>8, <1>9, ReadOn
  <2> QED BY <1>1, <1>8, <2>1
<1> HIDE DEF rest, more
<1>13. OutputAsDocumented'
  <2> DEFINE kind == "malformed"
             how == "malformed"
  <2>1. /\ kind \in {"end", "malformed"}
        /\ how = IF kind = "end" THEN "ok" ELSE "malformed"
        /\ Directive(base \o rest, first \o more, Len(base) + 1, Len(first) + 1)
             = [kind |-> kind]
        /\ Return(how, IF kind = "end" THEN <<"NUL">> ELSE << >>)
    BY <1>1, <1>11
  <2> HIDE DEF kind, how
  <2> QED BY <1>1, <1>4, <1>9, <1>12, <2>1, Returned
<1> QED BY <1>1, <1>2, <1>13 DEF FormatInv

(* Nothing is being read when nothing has been called.                     *)
LEMMA FormatInit == Init => FormatInv
<1> SUFFICES ASSUME Init PROVE FormatInv
  OBVIOUS
<1>1. format = << >> /\ result = "ok" /\ call = "none"
  BY DEF Init
<1> QED BY <1>1, EmptyText DEF FormatInv, OutputAsDocumented

(* Whatever does not touch the call leaves it as it was.                   *)
LEMMA FormatKept ==
  ASSUME FormatInv,
         UNCHANGED <<buffer, call, parserState, formatSpec, format, args, output, objectPadded,
                     result>>
  PROVE  FormatInv'
<1>1. Parsing => Parsing'
  <2> SUFFICES ASSUME Parsing PROVE Parsing'
    OBVIOUS
  <2>1. PICK base, first, text :
          /\ Known(base, first, text)
          /\ \/ Outside(base, first)
             \/ \E left \in Lefts, star \in Stars, modifier \in Mods :
                  Inside(base, first, left, star, modifier)
    BY DEF Parsing
  <2>2. Known(base, first, text)' /\ (Outside(base, first) => Outside(base, first)')
    BY <2>1 DEF Known, Outside
  <2>3. \A left \in Lefts, star \in Stars, modifier \in Mods :
          Inside(base, first, left, star, modifier) => Inside(base, first, left, star, modifier)'
    BY DEF Inside
  <2> QED BY <2>1, <2>2, <2>3 DEF Parsing
<1>2. OutputAsDocumented => OutputAsDocumented'
  BY DEF OutputAsDocumented
<1> QED BY <1>1, <1>2 DEF FormatInv

(* A call begins with nothing read, and nothing written.                   *)
LEMMA CallReads ==
  ASSUME FormatInv, NEW which, Call(which)
  PROVE  FormatInv'
<1>1. /\ format' = << >> /\ args' = << >> /\ output' = << >> /\ result' = "running"
      /\ parserState' = "nothing" /\ formatSpec' = NewFormatSpec
  BY DEF Call
<1>2. Known(<< >>, << >>, << >>)'
  BY <1>1, EmptyText, WritesNothing DEF Known
<1>3. Outside(<< >>, << >>)'
  BY <1>1 DEF Outside
<1>4. Parsing'
  BY <1>2, <1>3 DEF Parsing
<1>5. OutputAsDocumented'
  BY <1>1 DEF OutputAsDocumented
<1> QED BY <1>1, <1>4, <1>5, EmptyText DEF FormatInv

(* Every step of the program.                                              *)
LEMMA FormatStep == OutInv /\ FormatInv /\ [Next]_vars => FormatInv'
<1> SUFFICES ASSUME OutInv, FormatInv, [Next]_vars PROVE FormatInv'
  OBVIOUS
<1>1. CASE AccessAdapter
  BY <1>1, FormatKept DEF AccessAdapter, callVars
<1>2. CASE UseDisplay
  BY <1>2, FormatKept DEF UseDisplay
<1>3. ASSUME NEW which \in {"write", "writeLine"}, Call(which) PROVE FormatInv'
  BY <1>3, CallReads
<1>4. ASSUME NEW c \in NextChars,
             ReadSpecifier(c) \/ ReadType(c) \/ ReadText(c) \/ ReadEnd(c) \/ ReadMalformed(c)
      PROVE  FormatInv'
  BY <1>4, ReadSpecifierReads, ReadTypeReads, ReadTextReads, ReadEndReads, ReadMalformedReads
<1>5. CASE UNCHANGED vars
  BY <1>5, FormatKept DEF vars, streamVars, callVars
<1> QED BY <1>1, <1>2, <1>3, <1>4, <1>5 DEF Next

(* KOut_vWrite() and KOut_vWriteLine(): whatever is to be printed, what a  *)
(* call writes is what KOut.h says of its format and its arguments: number *)
(* by number, digit by digit, padded on the side that was asked for, to    *)
(* the end of the format or to the first specifier that is malformed.      *)
THEOREM OutputAsDocumentedAlways == Spec => []OutputAsDocumented
<1>1. OutInv /\ [Next]_vars => OutInv'
  BY OutStep
<1>2. Init => OutInv /\ FormatInv
  BY InitEstablishes, FormatInit
<1>3. OutInv /\ FormatInv /\ [Next]_vars => FormatInv'
  BY FormatStep
<1>4. FormatInv => OutputAsDocumented
  BY DEF FormatInv
<1> QED BY <1>1, <1>2, <1>3, <1>4, PTL DEF Spec
-----------------------------------------------------------------------------
(* The adapter, access by access.  Whatever the BIOS left in it, after the *)
(* n-th access of KernelDisplay_reset() every register that has been       *)
(* written holds what the table says, or what initFont() put there, and    *)
(* nothing is said of the others.                                          *)

(* 1 << bit                                                                *)
LEMMA ShiftedBits ==
  /\ OneShifted[0] = 1 /\ OneShifted[1] = 2 /\ OneShifted[2] = 4 /\ OneShifted[3] = 8
  /\ OneShifted[4] = 16 /\ OneShifted[5] = 32 /\ OneShifted[6] = 64 /\ OneShifted[7] = 128
<1> DEFINE Step(f) == f = [bit \in 0 .. 7 |-> IF bit = 0 THEN 1 ELSE 2 * f[bit - 1]]
           power == CHOOSE f : Step(f)
           f == [bit \in 0 .. 7 |->
                   IF bit = 0 THEN 1 ELSE IF bit = 1 THEN 2 ELSE IF bit = 2 THEN 4
                   ELSE IF bit = 3 THEN 8 ELSE IF bit = 4 THEN 16 ELSE IF bit = 5 THEN 32
                   ELSE IF bit = 6 THEN 64 ELSE 128]
<1>1. Step(f)
  OBVIOUS
<1>2. OneShifted = power
  BY DEF OneShifted
<1>3. Step(power)
  <2> HIDE DEF Step, f
  <2> QED BY <1>1
<1> HIDE DEF power
<1>4. \A bit \in 0 .. 7 : power[bit] = IF bit = 0 THEN 1 ELSE 2 * power[bit - 1]
  BY <1>3
<1> HIDE DEF Step, f
<1>5. power[0] = 1
  BY <1>4
<1>6. power[1] = 2
  BY <1>4, <1>5
<1>7. power[2] = 4
  BY <1>4, <1>6
<1>8. power[3] = 8
  BY <1>4, <1>7
<1>9. power[4] = 16
  BY <1>4, <1>8
<1>10. power[5] = 32
  BY <1>4, <1>9
<1>11. power[6] = 64
  BY <1>4, <1>10
<1>12. power[7] = 128
  BY <1>4, <1>11
<1> QED BY <1>2, <1>5, <1>6, <1>7, <1>8, <1>9, <1>10, <1>11, <1>12

(* What an access makes of the adapter and of the saved values.            *)
Makes(v, s, a, w, t) ==
  Access([vga |-> v, saved |-> s], a) = [vga |-> w, saved |-> t]

(* The arms of IO_in8() and IO_out8(), one by one.                         *)
LEMMA Accesses ==
  ASSUME NEW v, NEW s
  PROVE  /\ Makes(v, s, Status[1], ReadStatus(v), s)
         /\ \A x : Makes(v, s, Attribute(x)[1], WriteAttribute(v, x), s)
         /\ \A x : Makes(v, s, Misc(x)[1], [v EXCEPT !.misc = x], s)
         /\ \A g, x : Makes(v, s, Index(g, x)[1], SetIndex(v, g, x), s)
         /\ \A g, x : Makes(v, s, Put(g, x)[1], WriteData(v, g, x), s)
         /\ \A g, r : Makes(v, s, Restoring(g, r)[1], WriteData(v, g, s[<<g, r>>]), s)
         /\ \A g, bit : /\ Makes(v, s, Change(g, bit, TRUE)[1],
                                 WriteData(v, g, BitSet(ReadData(v, g), bit)), s)
                        /\ Makes(v, s, Change(g, bit, FALSE)[1],
                                 WriteData(v, g, BitClear(ReadData(v, g), bit)), s)
         /\ \A g, r : Makes(v, s, Save(g, r)[1], v, [s EXCEPT ![<<g, r>>] = ReadData(v, g)])
         /\ \A what : Makes(v, s, Memory(what)[1], WriteMemory(v, what), s)
<1>1. Makes(v, s, Status[1], ReadStatus(v), s)
  BY DEF Makes, Access, Status
<1>2. ASSUME NEW x PROVE Makes(v, s, Attribute(x)[1], WriteAttribute(v, x), s)
  BY DEF Makes, Access, Attribute
<1>3. ASSUME NEW x PROVE Makes(v, s, Misc(x)[1], [v EXCEPT !.misc = x], s)
  BY DEF Makes, Access, Misc
<1>4. ASSUME NEW g, NEW x PROVE Makes(v, s, Index(g, x)[1], SetIndex(v, g, x), s)
  BY DEF Makes, Access, Index
<1>5. ASSUME NEW g, NEW x PROVE Makes(v, s, Put(g, x)[1], WriteData(v, g, x), s)
  BY DEF Makes, Access, Put
<1>6. ASSUME NEW g, NEW r PROVE Makes(v, s, Restoring(g, r)[1], WriteData(v, g, s[<<g, r>>]), s)
  BY DEF Makes, Access, Restoring
<1>7. ASSUME NEW g, NEW bit
      PROVE  /\ Makes(v, s, Change(g, bit, TRUE)[1],
                       WriteData(v, g, BitSet(ReadData(v, g), bit)), s)
             /\ Makes(v, s, Change(g, bit, FALSE)[1],
                       WriteData(v, g, BitClear(ReadData(v, g), bit)), s)
  BY DEF Makes, Access, Change
<1>8. ASSUME NEW g, NEW r
      PROVE  Makes(v, s, Save(g, r)[1], v, [s EXCEPT ![<<g, r>>] = ReadData(v, g)])
  BY DEF Makes, Access, Save
<1>9. ASSUME NEW what PROVE Makes(v, s, Memory(what)[1], WriteMemory(v, what), s)
  BY DEF Makes, Access, Memory
<1> QED BY <1>1, <1>2, <1>3, <1>4, <1>5, <1>6, <1>7, <1>8, <1>9

RegisterFiles ==
  [seq : [RegistersOf("seq") -> Bytes], crtc : [RegistersOf("crtc") -> Bytes],
   gc  : [RegistersOf("gc") -> Bytes],  ac   : [RegistersOf("ac") -> Bytes]]

(* The adapter while it is set up.                                         *)
Contents == {"none", "8x8", "cleared", "garbage"}

Adapters ==
  [misc : Bytes, index : [Groups -> Bytes], registers : RegisterFiles,
   acData : BOOLEAN, unblanked : BOOLEAN, font : Contents, text : Contents]

(* What two states of the adapter may differ in.                           *)
SameBut(v, w, fields) ==
  /\ w \in Adapters
  /\ "misc" \in fields \/ w.misc = v.misc
  /\ "index" \in fields \/ w.index = v.index
  /\ "registers" \in fields \/ w.registers = v.registers
  /\ "acData" \in fields \/ w.acData = v.acData
  /\ "unblanked" \in fields \/ w.unblanked = v.unblanked
  /\ "memory" \in fields \/ (w.font = v.font /\ w.text = v.text)

(* Reading the status only touches the flip-flop.                          *)
LEMMA StatusRead ==
  ASSUME NEW v \in Adapters
  PROVE  SameBut(v, ReadStatus(v), {"acData"}) /\ ~ ReadStatus(v).acData
BY DEF SameBut, ReadStatus, Adapters

(* Writing the miscellaneous register touches nothing else.                *)
LEMMA MiscWritten ==
  ASSUME NEW v \in Adapters, NEW x \in Bytes
  PROVE  SameBut(v, [v EXCEPT !.misc = x], {"misc"}) /\ [v EXCEPT !.misc = x].misc = x
BY DEF SameBut, Adapters

(* Selecting a register touches no register.                               *)
LEMMA IndexWritten ==
  ASSUME NEW v \in Adapters, NEW g \in Groups, NEW i \in Bytes
  PROVE  LET w == SetIndex(v, g, i) IN
         /\ SameBut(v, w, {"index"}) /\ w.index[g] = i
         /\ \A h \in Groups : h # g => w.index[h] = v.index[h]
BY DEF SameBut, Adapters, SetIndex

(* The first write to the port of the attribute controller selects a       *)
(* register, and shows or hides the picture.                               *)
LEMMA AttributeIndexWritten ==
  ASSUME NEW v \in Adapters, ~ v.acData, NEW x \in 0 .. 63
  PROVE  LET w == WriteAttribute(v, x) IN
         /\ SameBut(v, w, {"index", "acData", "unblanked"}) /\ w.acData
         /\ w.index.ac = x % 32 /\ w.unblanked = IsBitSet(x, 5)
         /\ \A h \in Groups : h # "ac" => w.index[h] = v.index[h]
<1> DEFINE i == x % 32
           u == IsBitSet(x, 5)
           v1 == SetIndex(v, "ac", i)
           w == [v1 EXCEPT !.unblanked = u, !.acData = TRUE]
<1>1. i \in Bytes
  BY DEF Bytes
<1>2. u \in BOOLEAN
  BY DEF IsBitSet
<1>3. WriteAttribute(v, x) = w
  BY DEF WriteAttribute, SetIndex
<1> HIDE DEF i, u
<1>4. /\ SameBut(v, v1, {"index"}) /\ v1.index["ac"] = i
      /\ \A h \in Groups : h # "ac" => v1.index[h] = v.index[h]
  BY <1>1, IndexWritten DEF Groups
<1> HIDE DEF v1
<1>5. SameBut(v1, w, {"acData", "unblanked"}) /\ w.acData /\ w.unblanked = u
  <2>1. v1 \in Adapters
    BY <1>4 DEF SameBut
  <2>2. CASE u = TRUE
    BY <2>1, <2>2 DEF SameBut, Adapters
  <2>3. CASE u = FALSE
    BY <2>1, <2>3 DEF SameBut, Adapters
  <2> QED BY <1>2, <2>2, <2>3
<1> HIDE DEF w
<1>6. SameBut(v, w, {"index", "acData", "unblanked"}) /\ w.index = v1.index
  BY <1>4, <1>5 DEF SameBut
<1> QED BY <1>3, <1>4, <1>5, <1>6 DEF u, i

(* One register has a value, and the others are as they were.              *)
RegisterWritten(v, w, g, r, x) ==
  /\ w.registers[g][r] = x
  /\ \A h \in Groups : \A q \in RegistersOf(h) :
       h # g \/ q # r => w.registers[h][q] = v.registers[h][q]

(* The second one writes it, unless a picture locks the palette.           *)
LEMMA AttributeDataWritten ==
  ASSUME NEW v \in Adapters, v.acData, ~ v.unblanked, NEW x \in Bytes,
         v.index.ac \in RegistersOf("ac")
  PROVE  LET w == WriteAttribute(v, x) IN
         /\ SameBut(v, w, {"registers", "acData"}) /\ ~ w.acData
         /\ RegisterWritten(v, w, "ac", v.index.ac, x)
<1> DEFINE i == v.index.ac
           w == [v EXCEPT !.acData = FALSE, !.registers.ac = [@ EXCEPT ![i] = x]]
<1>1. i \in DOMAIN v.registers.ac
  BY DEF Adapters, RegisterFiles
<1>2. WriteAttribute(v, x) = w
  BY <1>1 DEF WriteAttribute
<1>3. SameBut(v, w, {"registers", "acData"}) /\ ~ w.acData
  BY DEF SameBut, Adapters, RegisterFiles
<1>4. RegisterWritten(v, w, "ac", i, x)
  BY DEF RegisterWritten, Adapters, RegisterFiles, RegistersOf, Groups
<1> QED BY <1>2, <1>3, <1>4

(* A write to a data port writes the register that is selected, unless it  *)
(* is protected.                                                           *)
LEMMA DataWritten ==
  ASSUME NEW v \in Adapters, NEW g \in Groups \ {"ac"}, NEW x \in Bytes,
         v.index[g] \in RegistersOf(g),
         ~ (g = "crtc" /\ v.index.crtc < 8 /\ IsBitSet(v.registers.crtc[17], 7))
  PROVE  LET w == WriteData(v, g, x) IN
         SameBut(v, w, {"registers"}) /\ RegisterWritten(v, w, g, v.index[g], x)
<1> DEFINE i == v.index[g]
           w == [v EXCEPT !.registers[g][i] = x]
<1>1. WriteData(v, g, x) = w
  BY DEF WriteData
<1>2. v.registers[g] \in [RegistersOf(g) -> Bytes] /\ v.registers \in RegisterFiles
  BY DEF Adapters, RegisterFiles, Groups, RegistersOf
<1>3. w.registers = [v.registers EXCEPT ![g] = [v.registers[g] EXCEPT ![i] = x]]
  BY DEF Adapters
<1>4. w.registers[g] = [v.registers[g] EXCEPT ![i] = x]
      /\ \A h \in Groups : h # g => w.registers[h] = v.registers[h]
  BY <1>2, <1>3 DEF RegisterFiles, Groups
<1>5. w.registers \in RegisterFiles
  <2> DEFINE f == [v.registers[g] EXCEPT ![i] = x]
  <2>1. f \in [RegistersOf(g) -> Bytes]
    BY <1>2
  <2> HIDE DEF f, w
  <2>2. w.registers = [v.registers EXCEPT ![g] = f]
    BY <1>3 DEF f
  <2>3. CASE g = "seq"
    BY <1>2, <2>1, <2>2, <2>3 DEF RegisterFiles
  <2>4. CASE g = "gc"
    BY <1>2, <2>1, <2>2, <2>4 DEF RegisterFiles
  <2>5. CASE g = "crtc"
    BY <1>2, <2>1, <2>2, <2>5 DEF RegisterFiles
  <2> QED BY <2>3, <2>4, <2>5 DEF Groups
<1>6. SameBut(v, w, {"registers"})
  BY <1>5 DEF SameBut, Adapters
<1> HIDE DEF w
<1>7. w.registers[g][i] = x
  BY <1>2, <1>4
<1>8. ASSUME NEW h \in Groups, NEW q \in RegistersOf(h), h # g \/ q # i
      PROVE  w.registers[h][q] = v.registers[h][q]
  <2>1. CASE h # g
    BY <1>4, <2>1
  <2>2. CASE h = g
    BY SMTT(40), <1>2, <1>4, <1>8, <2>2
  <2> QED BY <2>1, <2>2
<1> QED BY <1>1, <1>6, <1>7, <1>8 DEF RegisterWritten

(* When a register gets the value of the table.                            *)
SetAt(group, r) ==
  CASE group = "seq" -> 5 + 2 * r  [] group = "crtc" -> 19 + 2 * r
    [] group = "gc" -> 69 + 2 * r  [] group = "ac" -> 88 + 3 * r

(* What a register holds from then on: initFont() changes five of them.    *)
HeldAt(group, r, n) ==
  CASE group = "seq" /\ r = 2 /\ n \in 163 .. 165 -> 4
    [] group = "seq" /\ r = 4 /\ n \in 151 .. 167 -> 6
    [] group = "gc" /\ r = 4 /\ n \in 160 .. 169 -> 2
    [] group = "gc" /\ r = 5 /\ n \in 154 .. 171 -> 0
    [] group = "gc" /\ r = 6 /\ n \in 157 .. 173 -> 12
    [] OTHER -> Mode[group][r + 1]

RegistersAt(v, n) ==
  \A group \in Groups : \A r \in RegistersOf(group) :
    SetAt(group, r) <= n => v.registers[group][r] = HeldAt(group, r, n)

(* The registers the accesses that follow go to.                           *)
IndexAt(v, n) ==
  /\ \A k \in 1 .. 5 : n = 2 + 2 * k => v.index["seq"] = k - 1
  /\ \A k \in 1 .. 25 : n = 16 + 2 * k => v.index["crtc"] = k - 1
  /\ \A k \in 1 .. 9 : n = 66 + 2 * k => v.index["gc"] = k - 1
  /\ \A k \in 1 .. 21 : /\ n = 83 + 3 * k => ~ v.acData
                        /\ n = 84 + 3 * k => v.acData /\ v.index["ac"] = k - 1
  /\ n \in {1, 176} => ~ v.acData
  /\ n = 14 => v.index["crtc"] = 3
  /\ n = 16 => v.index["crtc"] = 17
  /\ n \in 149 .. 160 \/ n \in 167 .. 168 => v.index["seq"] = 4
  /\ n \in 161 .. 166 => v.index["seq"] = 2
  /\ n \in 152 .. 154 \/ n \in 171 .. 172 => v.index["gc"] = 5
  /\ n \in 155 .. 157 \/ n \in 173 .. 174 => v.index["gc"] = 6
  /\ n \in 158 .. 170 => v.index["gc"] = 4

SavedAt(s, n) ==
  /\ s \in [{<<"seq", 2>>, <<"seq", 4>>, <<"gc", 4>>, <<"gc", 5>>, <<"gc", 6>>} -> Bytes]
  /\ n >= 150 => s[<<"seq", 4>>] = 2
  /\ n >= 153 => s[<<"gc", 5>>] = 16
  /\ n >= 156 => s[<<"gc", 6>>] = 14
  /\ n >= 159 => s[<<"gc", 4>>] = 0
  /\ n >= 162 => s[<<"seq", 2>>] = 3

(* Nothing to be seen until the last access, the CRT controller unlocked,  *)
(* and the planes filled in turn.                                          *)
PictureAt(v, n) ==
  /\ n \in 2 .. 176 => ~ v.unblanked
  /\ n = 177 => v.unblanked
  /\ n >= 3 => v.misc = Mode.misc
  /\ n >= 17 => ~ IsBitSet(v.registers["crtc"][17], 7)
  /\ n >= 164 => v.font = "8x8"
  /\ n >= 175 => v.text = "cleared"

AdapterAt(v, s, n) ==
  /\ n \in 0 .. 177 /\ v \in Adapters
  /\ PictureAt(v, n) /\ IndexAt(v, n) /\ RegistersAt(v, n) /\ SavedAt(s, n)

(* KernelDisplay_reset(), access by access: the mode, the font, the rest.  *)
LEMMA ResetOfMode ==
  /\ Reset[1] = Status[1] /\ Reset[2] = Attribute(0)[1] /\ Reset[3] = Misc(Mode.misc)[1]
  /\ \A k \in 1 .. 5 : /\ Reset[2 + 2 * k] = Index("seq", k - 1)[1]
                       /\ Reset[3 + 2 * k] = Put("seq", Mode["seq"][k])[1]
  /\ Reset[14] = Index("crtc", 3)[1] /\ Reset[15] = Change("crtc", 7, TRUE)[1]
  /\ Reset[16] = Index("crtc", 17)[1] /\ Reset[17] = Change("crtc", 7, FALSE)[1]
  /\ \A k \in 1 .. 25 : /\ Reset[16 + 2 * k] = Index("crtc", k - 1)[1]
                        /\ Reset[17 + 2 * k] = Put("crtc", Mode["crtc"][k])[1]
  /\ \A k \in 1 .. 9 : /\ Reset[66 + 2 * k] = Index("gc", k - 1)[1]
                       /\ Reset[67 + 2 * k] = Put("gc", Mode["gc"][k])[1]
  /\ \A k \in 1 .. 21 : /\ Reset[83 + 3 * k] = Status[1]
                        /\ Reset[84 + 3 * k] = Attribute(k - 1)[1]
                        /\ Reset[85 + 3 * k] = Attribute(Mode["ac"][k])[1]
<1>1. \A k \in 1 .. 5 : /\ Reset[2 + 2 * k] = Index("seq", k - 1)[1]
                       /\ Reset[3 + 2 * k] = Put("seq", Mode["seq"][k])[1]
  <2>1. \A k \in 1 .. Len(Mode["seq"]) :
          /\ WriteAll("seq")[2 * k - 1] = Index("seq", k - 1)[1]
          /\ WriteAll("seq")[2 * k] = Put("seq", Mode["seq"][k])[1]
    BY WriteAllIs
  <2>2. Len(Mode["seq"]) = 5
    BY ModeLengths
  <2>3. \A k \in 1 .. 10 : Reset[3 + k] = WriteAll("seq")[k]
    BY ResetParts
  <2> TAKE k \in 1 .. 5
  <2>4. 2 * k - 1 \in 1 .. 10 /\ 2 * k \in 1 .. 10
    OBVIOUS
  <2>5. /\ Reset[3 + (2 * k - 1)] = WriteAll("seq")[2 * k - 1]
       /\ Reset[3 + 2 * k] = WriteAll("seq")[2 * k]
    BY <2>3, <2>4
  <2>6. 3 + (2 * k - 1) = 2 + 2 * k
    OBVIOUS
  <2> QED BY <2>1, <2>2, <2>5, <2>6
<1>2. \A k \in 1 .. 25 : /\ Reset[16 + 2 * k] = Index("crtc", k - 1)[1]
                       /\ Reset[17 + 2 * k] = Put("crtc", Mode["crtc"][k])[1]
  <2>1. \A k \in 1 .. Len(Mode["crtc"]) :
          /\ WriteAll("crtc")[2 * k - 1] = Index("crtc", k - 1)[1]
          /\ WriteAll("crtc")[2 * k] = Put("crtc", Mode["crtc"][k])[1]
    BY WriteAllIs
  <2>2. Len(Mode["crtc"]) = 25
    BY ModeLengths
  <2>3. \A k \in 1 .. 50 : Reset[17 + k] = WriteAll("crtc")[k]
    BY ResetParts
  <2> TAKE k \in 1 .. 25
  <2>4. 2 * k - 1 \in 1 .. 50 /\ 2 * k \in 1 .. 50
    OBVIOUS
  <2>5. /\ Reset[17 + (2 * k - 1)] = WriteAll("crtc")[2 * k - 1]
       /\ Reset[17 + 2 * k] = WriteAll("crtc")[2 * k]
    BY <2>3, <2>4
  <2>6. 17 + (2 * k - 1) = 16 + 2 * k
    OBVIOUS
  <2> QED BY <2>1, <2>2, <2>5, <2>6
<1>3. \A k \in 1 .. 9 : /\ Reset[66 + 2 * k] = Index("gc", k - 1)[1]
                       /\ Reset[67 + 2 * k] = Put("gc", Mode["gc"][k])[1]
  <2>1. \A k \in 1 .. Len(Mode["gc"]) :
          /\ WriteAll("gc")[2 * k - 1] = Index("gc", k - 1)[1]
          /\ WriteAll("gc")[2 * k] = Put("gc", Mode["gc"][k])[1]
    BY WriteAllIs
  <2>2. Len(Mode["gc"]) = 9
    BY ModeLengths
  <2>3. \A k \in 1 .. 18 : Reset[67 + k] = WriteAll("gc")[k]
    BY ResetParts
  <2> TAKE k \in 1 .. 9
  <2>4. 2 * k - 1 \in 1 .. 18 /\ 2 * k \in 1 .. 18
    OBVIOUS
  <2>5. /\ Reset[67 + (2 * k - 1)] = WriteAll("gc")[2 * k - 1]
       /\ Reset[67 + 2 * k] = WriteAll("gc")[2 * k]
    BY <2>3, <2>4
  <2>6. 67 + (2 * k - 1) = 66 + 2 * k
    OBVIOUS
  <2> QED BY <2>1, <2>2, <2>5, <2>6
<1>4. \A k \in 1 .. 21 : /\ Reset[83 + 3 * k] = Status[1]
                        /\ Reset[84 + 3 * k] = Attribute(k - 1)[1]
                        /\ Reset[85 + 3 * k] = Attribute(Mode["ac"][k])[1]
  <2> TAKE k \in 1 .. 21
  <2>1. \A j \in 1 .. 63 : Reset[85 + j] = WriteAttributes[j]
    BY ResetParts
  <2>2. 3 * k - 2 \in 1 .. 63 /\ 3 * k - 1 \in 1 .. 63 /\ 3 * k \in 1 .. 63
    OBVIOUS
  <2>3. /\ Reset[85 + (3 * k - 2)] = WriteAttributes[3 * k - 2]
        /\ Reset[85 + (3 * k - 1)] = WriteAttributes[3 * k - 1]
        /\ Reset[85 + 3 * k] = WriteAttributes[3 * k]
    BY <2>1, <2>2
  <2>4. 85 + (3 * k - 2) = 83 + 3 * k /\ 85 + (3 * k - 1) = 84 + 3 * k
    OBVIOUS
  <2>5. /\ WriteAttributes[3 * k - 2] = Status[1]
        /\ WriteAttributes[3 * k - 1] = Attribute(k - 1)[1]
        /\ WriteAttributes[3 * k] = Attribute(Mode["ac"][k])[1]
    BY WriteAttributesIs
  <2> QED BY <2>3, <2>4, <2>5
<1>5. /\ Reset[14] = UnlockCrtc[1] /\ Reset[15] = UnlockCrtc[2]
      /\ Reset[16] = UnlockCrtc[3] /\ Reset[17] = UnlockCrtc[4]
  <2>1. \A k \in 1 .. 4 : Reset[13 + k] = UnlockCrtc[k]
    BY ResetParts
  <2> QED BY <2>1
<1>6. Reset[1] = Status[1] /\ Reset[2] = Attribute(0)[1] /\ Reset[3] = Misc(Mode.misc)[1]
  BY ResetParts
<1> QED BY <1>1, <1>2, <1>3, <1>4, <1>5, <1>6, UnlockCrtcIs

(* From the font to the end.                                               *)
LEMMA ResetOfFont ==
  /\ Reset[149] = Index("seq", 4)[1] /\ Reset[150] = Save("seq", 4)[1]
  /\ Reset[151] = Change("seq", 2, TRUE)[1] /\ Reset[152] = Index("gc", 5)[1]
  /\ Reset[153] = Save("gc", 5)[1] /\ Reset[154] = Change("gc", 4, FALSE)[1]
  /\ Reset[155] = Index("gc", 6)[1] /\ Reset[156] = Save("gc", 6)[1]
  /\ Reset[157] = Change("gc", 1, FALSE)[1] /\ Reset[158] = Index("gc", 4)[1]
  /\ Reset[159] = Save("gc", 4)[1] /\ Reset[160] = Put("gc", 2)[1]
  /\ Reset[161] = Index("seq", 2)[1] /\ Reset[162] = Save("seq", 2)[1]
  /\ Reset[163] = Put("seq", BitSet(0, 2))[1] /\ Reset[164] = Memory("8x8")[1]
  /\ Reset[165] = Index("seq", 2)[1] /\ Reset[166] = Restoring("seq", 2)[1]
  /\ Reset[167] = Index("seq", 4)[1] /\ Reset[168] = Restoring("seq", 4)[1]
  /\ Reset[169] = Index("gc", 4)[1] /\ Reset[170] = Restoring("gc", 4)[1]
  /\ Reset[171] = Index("gc", 5)[1] /\ Reset[172] = Restoring("gc", 5)[1]
  /\ Reset[173] = Index("gc", 6)[1] /\ Reset[174] = Restoring("gc", 6)[1]
  /\ Reset[175] = Memory("cleared")[1]
  /\ Reset[176] = Status[1] /\ Reset[177] = Attribute(32)[1]
<1>1. \A k \in 1 .. 26 : Reset[148 + k] = InitFont[k]
  BY ResetParts
<1>2. Reset[149] = InitFont[1] /\ Reset[150] = InitFont[2]
  BY <1>1
<1>4. Reset[151] = InitFont[3] /\ Reset[152] = InitFont[4]
  BY <1>1
<1>6. Reset[153] = InitFont[5] /\ Reset[154] = InitFont[6]
  BY <1>1
<1>8. Reset[155] = InitFont[7] /\ Reset[156] = InitFont[8]
  BY <1>1
<1>10. Reset[157] = InitFont[9] /\ Reset[158] = InitFont[10]
  BY <1>1
<1>12. Reset[159] = InitFont[11] /\ Reset[160] = InitFont[12]
  BY <1>1
<1>14. Reset[161] = InitFont[13] /\ Reset[162] = InitFont[14]
  BY <1>1
<1>16. Reset[163] = InitFont[15] /\ Reset[164] = InitFont[16]
  BY <1>1
<1>18. Reset[165] = InitFont[17] /\ Reset[166] = InitFont[18]
  BY <1>1
<1>20. Reset[167] = InitFont[19] /\ Reset[168] = InitFont[20]
  BY <1>1
<1>22. Reset[169] = InitFont[21] /\ Reset[170] = InitFont[22]
  BY <1>1
<1>24. Reset[171] = InitFont[23] /\ Reset[172] = InitFont[24]
  BY <1>1
<1>26. Reset[173] = InitFont[25] /\ Reset[174] = InitFont[26]
  BY <1>1
<1> QED BY <1>2, <1>4, <1>6, <1>8, <1>10, <1>12, <1>14, <1>16, <1>18, <1>20, <1>22, <1>24, <1>26,
         InitFontIs, ResetParts

(* The access writes no register, or this one only.                        *)
Quiet(n) ==
  \A group \in Groups : \A r \in RegistersOf(group) :
    SetAt(group, r) # n /\ HeldAt(group, r, n) = HeldAt(group, r, n - 1)

Only(group, r, n) ==
  \A h \in Groups : \A q \in RegistersOf(h) :
    h # group \/ q # r => SetAt(h, q) # n /\ HeldAt(h, q, n) = HeldAt(h, q, n - 1)

(* Every other register, in the order in which they are set.               *)
LEMMA Settings ==
  ASSUME NEW group \in Groups, NEW r \in RegistersOf(group)
  PROVE  /\ SetAt(group, r) \in Nat
         /\ group = "seq"  => r \in 0 .. 4 /\ SetAt(group, r) = 5 + 2 * r
         /\ group = "crtc" => r \in 0 .. 24 /\ SetAt(group, r) = 19 + 2 * r
         /\ group = "gc"   => r \in 0 .. 8 /\ SetAt(group, r) = 69 + 2 * r
         /\ group = "ac"   => r \in 0 .. 20 /\ SetAt(group, r) = 88 + 3 * r
         /\ group = "seq" \/ group = "crtc" \/ group = "gc" \/ group = "ac"
BY DEF Groups, RegistersOf, SetAt

(* When initFont() is not at work, the table is what registers hold.       *)
LEMMA HeldThen ==
  ASSUME NEW group, NEW r, NEW n \in Nat, n <= 150 \/ n >= 174
  PROVE  HeldAt(group, r, n) = Mode[group][r + 1]
BY DEF HeldAt

(* Registers keep what they hold where no register is written.             *)
LEMMA QuietThen ==
  ASSUME NEW n \in 1 .. 177, n <= 150 \/ n >= 175,
         \A group \in Groups : \A r \in RegistersOf(group) : SetAt(group, r) # n
  PROVE  Quiet(n)
<1>1. n \in Nat /\ n - 1 \in Nat /\ (n - 1 <= 150 \/ n - 1 >= 174)
  OBVIOUS
<1> QED BY <1>1, HeldThen DEF Quiet

(* And all others do where one is.                                         *)
LEMMA OnlyThen ==
  ASSUME NEW n \in 1 .. 150, NEW group, NEW r,
         \A h \in Groups : \A q \in RegistersOf(h) : h # group \/ q # r => SetAt(h, q) # n
  PROVE  Only(group, r, n)
<1>1. n \in Nat /\ n - 1 \in Nat /\ n <= 150 /\ n - 1 <= 150
  OBVIOUS
<1> QED BY <1>1, HeldThen DEF Only

(* What is known of registers stays known when none changes.               *)
LEMMA RegistersKept ==
  ASSUME NEW v, NEW w, NEW n \in 0 .. 176, RegistersAt(v, n), w.registers = v.registers,
         Quiet(n + 1)
  PROVE  RegistersAt(w, n + 1)
<1> SUFFICES ASSUME NEW group \in Groups, NEW r \in RegistersOf(group),
                    SetAt(group, r) <= n + 1
             PROVE  w.registers[group][r] = HeldAt(group, r, n + 1)
  BY DEF RegistersAt
<1>1. SetAt(group, r) # n + 1 /\ HeldAt(group, r, n + 1) = HeldAt(group, r, (n + 1) - 1)
  BY DEF Quiet
<1>2. (n + 1) - 1 = n /\ SetAt(group, r) <= n
  BY <1>1, Settings
<1> QED BY <1>1, <1>2 DEF RegistersAt

(* And becomes known of the one that is written.                           *)
LEMMA RegisterSet ==
  ASSUME NEW v, NEW w, NEW n \in 0 .. 176, RegistersAt(v, n),
         NEW g, NEW i, NEW x, RegisterWritten(v, w, g, i, x),
         SetAt(g, i) <= n + 1 => HeldAt(g, i, n + 1) = x, Only(g, i, n + 1)
  PROVE  RegistersAt(w, n + 1)
<1> SUFFICES ASSUME NEW group \in Groups, NEW r \in RegistersOf(group),
                    SetAt(group, r) <= n + 1
             PROVE  w.registers[group][r] = HeldAt(group, r, n + 1)
  BY DEF RegistersAt
<1>1. CASE group = g /\ r = i
  BY <1>1 DEF RegisterWritten
<1>2. CASE group # g \/ r # i
  <2>1. SetAt(group, r) # n + 1 /\ HeldAt(group, r, n + 1) = HeldAt(group, r, (n + 1) - 1)
    BY <1>2 DEF Only
  <2>2. (n + 1) - 1 = n /\ SetAt(group, r) <= n
    BY <2>1, Settings
  <2>3. w.registers[group][r] = v.registers[group][r]
    BY <1>2 DEF RegisterWritten
  <2> QED BY <2>1, <2>2, <2>3 DEF RegistersAt
<1> QED BY <1>1, <1>2

Moves(v, s, n) ==
  \E w, t : /\ Makes(v, s, Reset[n + 1], w, t) /\ AdapterAt(w, t, n + 1)
            /\ n < 2 => w.registers = v.registers

(* Bits of the bytes that are written.                                     *)
LEMMA BitValues ==
  /\ BitSet(2, 2) = 6 /\ BitClear(16, 4) = 0 /\ BitClear(14, 1) = 12 /\ BitSet(0, 2) = 4
  /\ ~ IsBitSet(12, 7) /\ ~ IsBitSet(0, 5) /\ IsBitSet(32, 5)
  /\ IsBitSet(4, 2) /\ ~ IsBitSet(4, 0) /\ ~ IsBitSet(4, 1)
  /\ IsBitSet(6, 2) /\ ~ IsBitSet(0, 4) /\ ~ IsBitSet(12, 1)
  /\ IsBitSet(3, 0) /\ ~ IsBitSet(3, 2) /\ ~ IsBitSet(2, 2) /\ IsBitSet(16, 4) /\ IsBitSet(14, 1)
<1>1. /\ BitSet(2, 2) = 6 /\ BitClear(16, 4) = 0 /\ BitClear(14, 1) = 12 /\ BitSet(0, 2) = 4
  BY ShiftedBits DEF BitSet, BitClear, IsBitSet
<1>2. ~ IsBitSet(12, 7) /\ ~ IsBitSet(0, 5) /\ IsBitSet(32, 5)
  BY ShiftedBits DEF IsBitSet
<1>3. IsBitSet(4, 2) /\ ~ IsBitSet(4, 0) /\ ~ IsBitSet(4, 1)
  BY ShiftedBits DEF IsBitSet
<1>4. IsBitSet(6, 2) /\ ~ IsBitSet(0, 4) /\ ~ IsBitSet(12, 1)
  BY ShiftedBits DEF IsBitSet
<1>5. IsBitSet(3, 0) /\ ~ IsBitSet(3, 2) /\ ~ IsBitSet(2, 2) /\ IsBitSet(16, 4) /\ IsBitSet(14, 1)
  BY ShiftedBits DEF IsBitSet
<1> QED BY <1>1, <1>2, <1>3, <1>4, <1>5

(* Bits of any byte: it stays one, and the bit has its new value.          *)
LEMMA BitsOfByte ==
  ASSUME NEW b \in Bytes
  PROVE  /\ BitSet(b, 7) \in Bytes /\ BitClear(b, 7) \in Bytes /\ ~ IsBitSet(BitClear(b, 7), 7)
         /\ b < 32 => ~ IsBitSet(b, 5)
BY ShiftedBits DEF IsBitSet, BitSet, BitClear, Bytes

(* What is known of picture and planes, when they stay as they are.        *)
LEMMA PictureKept ==
  ASSUME NEW v, NEW w, NEW n \in 3 .. 175, n \notin {16, 163, 174}, PictureAt(v, n),
         w.misc = v.misc, w.unblanked = v.unblanked,
         w.registers["crtc"][17] = v.registers["crtc"][17], w.font = v.font, w.text = v.text
  PROVE  PictureAt(w, n + 1)
BY DEF PictureAt

(* What is known of saved values, when none is saved.                      *)
LEMMA SavedKept ==
  ASSUME NEW s, NEW n \in 0 .. 176, n \notin {149, 152, 155, 158, 161}, SavedAt(s, n)
  PROVE  SavedAt(s, n + 1)
BY DEF SavedAt

(* A step that selects a register.                                         *)
LEMMA IndexStep ==
  ASSUME NEW v, NEW s, NEW n \in 3 .. 173, AdapterAt(v, s, n),
         n \notin {16, 163, 149, 152, 155, 158, 161},
         NEW g \in Groups, NEW i \in Bytes, Reset[n + 1] = Index(g, i)[1], Quiet(n + 1),
         \A w : /\ w.acData = v.acData /\ w.index[g] = i
                /\ \A h \in Groups : h # g => w.index[h] = v.index[h]
                => IndexAt(w, n + 1)
  PROVE  Moves(v, s, n)
<1> DEFINE w == SetIndex(v, g, i)
<1>1. v \in Adapters /\ PictureAt(v, n) /\ RegistersAt(v, n) /\ SavedAt(s, n)
  BY DEF AdapterAt
<1>2. /\ SameBut(v, w, {"index"}) /\ w.index[g] = i
      /\ \A h \in Groups : h # g => w.index[h] = v.index[h]
  BY <1>1, IndexWritten
<1>a. Makes(v, s, Index(g, i)[1], w, s)
  <2>1. \A h, y : Makes(v, s, Index(h, y)[1], SetIndex(v, h, y), s)
    BY ZenonT(40), Accesses
  <2> QED BY ONLY <2>1
<1>3. Makes(v, s, Reset[n + 1], w, s)
  BY <1>a
<1> HIDE DEF w
<1>4. /\ w \in Adapters /\ w.misc = v.misc /\ w.registers = v.registers /\ w.acData = v.acData
      /\ w.unblanked = v.unblanked /\ w.font = v.font /\ w.text = v.text
  BY <1>2 DEF SameBut
<1>5. PictureAt(w, n + 1)
  <2>1. n \in 3 .. 175 /\ n \notin {16, 163, 174}
    OBVIOUS
  <2>2. w.registers["crtc"][17] = v.registers["crtc"][17]
    BY <1>4
  <2> QED BY ONLY ZenonT(40), <1>1, <1>4, <2>1, <2>2, PictureKept
<1>6. SavedAt(s, n + 1)
  BY <1>1, SavedKept
<1>7. RegistersAt(w, n + 1)
  BY <1>1, <1>4, RegistersKept
<1>8. IndexAt(w, n + 1)
  BY <1>2, <1>4
<1>9. AdapterAt(w, s, n + 1)
  BY <1>4, <1>5, <1>6, <1>7, <1>8 DEF AdapterAt
<1> QED BY <1>3, <1>9 DEF Moves

(* Write n + 1 of the reset writes value x to register i of group g, which the    *)
(* index selects: all that is known of the write before it is made.                *)
WritesNext(v, s, n, g, i, x) ==
  /\ n \in 3 .. 173 /\ n \notin {163, 149, 152, 155, 158, 161}
  /\ n = 16 => g = "crtc" /\ i = 17
  /\ g \in Groups \ {"ac"} /\ x \in Bytes /\ i \in RegistersOf(g) /\ v.index[g] = i
  /\ ~ (g = "crtc" /\ i < 8 /\ IsBitSet(v.registers["crtc"][17], 7))
  /\ Makes(v, s, Reset[n + 1], WriteData(v, g, x), s)
  /\ Only(g, i, n + 1)
  /\ SetAt(g, i) <= n + 1 => HeldAt(g, i, n + 1) = x
  /\ g = "crtc" /\ i = 17 => ~ IsBitSet(x, 7)
  /\ \A w : w.acData = v.acData /\ w.index = v.index => IndexAt(w, n + 1)

(* A write to the register that the index selects.                         *)
LEMMA DataStep ==
  ASSUME NEW v, NEW s, NEW n, NEW g, NEW i, NEW x,
         AdapterAt(v, s, n), WritesNext(v, s, n, g, i, x)
  PROVE  Moves(v, s, n)
<1>h. /\ n \in 3 .. 173 /\ n \notin {163, 149, 152, 155, 158, 161}
      /\ n = 16 => g = "crtc" /\ i = 17
      /\ g \in Groups \ {"ac"} /\ x \in Bytes /\ i \in RegistersOf(g) /\ v.index[g] = i
      /\ ~ (g = "crtc" /\ i < 8 /\ IsBitSet(v.registers["crtc"][17], 7))
  BY DEF WritesNext
<1>o. /\ Only(g, i, n + 1)
      /\ SetAt(g, i) <= n + 1 => HeldAt(g, i, n + 1) = x
  BY DEF WritesNext
<1>p. g = "crtc" /\ i = 17 => ~ IsBitSet(x, 7)
  BY DEF WritesNext
<1>k. \A w : w.acData = v.acData /\ w.index = v.index => IndexAt(w, n + 1)
  BY DEF WritesNext
<1>l. n + 1 \in 0 .. 177 /\ ~ (n < 2)
  BY <1>h
<1> DEFINE w == WriteData(v, g, x)
<1>m. Makes(v, s, Reset[n + 1], w, s)
  BY DEF WritesNext
<1>1. v \in Adapters /\ PictureAt(v, n) /\ RegistersAt(v, n) /\ SavedAt(s, n)
  BY DEF AdapterAt
<1>2. SameBut(v, w, {"registers"}) /\ RegisterWritten(v, w, g, i, x)
  BY <1>1, <1>h, DataWritten
<1> HIDE DEF w
<1>3. /\ w \in Adapters /\ w.misc = v.misc /\ w.index = v.index /\ w.acData = v.acData
      /\ w.unblanked = v.unblanked /\ w.font = v.font /\ w.text = v.text
  BY <1>2 DEF SameBut
<1>4. PictureAt(w, n + 1)
  <2>1. CASE g = "crtc" /\ i = 17
    <3>1. w.registers["crtc"][17] = x
      BY SMTT(40), <1>h, <1>2, <2>1 DEF RegisterWritten
    <3> QED BY <1>h, <1>p, <1>1, <1>3, <2>1, <3>1 DEF PictureAt
  <2>2. CASE ~ (g = "crtc" /\ i = 17)
    <3>1. w.registers["crtc"][17] = v.registers["crtc"][17]
      BY <1>h, <1>2, <2>2 DEF RegisterWritten, Groups, RegistersOf
    <3>2. n \in 3 .. 175 /\ n \notin {16, 163, 174}
      BY <1>h, <2>2
    <3> QED BY ONLY ZenonT(40), <1>1, <1>3, <3>1, <3>2, PictureKept
  <2> QED BY <2>1, <2>2
<1>5. SavedAt(s, n + 1)
  BY <1>h, <1>1, SavedKept
<1>6. RegistersAt(w, n + 1)
  <2>1. n \in 0 .. 176
    BY <1>h
  <2>2. Only(g, i, n + 1) /\ (SetAt(g, i) <= n + 1 => HeldAt(g, i, n + 1) = x)
    BY <1>o
  <2>3. RegisterWritten(v, w, g, i, x) /\ RegistersAt(v, n)
    BY <1>1, <1>2
  <2> QED BY ONLY <2>1, <2>2, <2>3, RegisterSet
<1>7. IndexAt(w, n + 1)
  BY ONLY <1>k, <1>3
<1>8. AdapterAt(w, s, n + 1)
  BY ONLY <1>l, <1>3, <1>4, <1>5, <1>6, <1>7 DEF AdapterAt
<1>9. /\ Makes(v, s, Reset[n + 1], w, s) /\ AdapterAt(w, s, n + 1)
      /\ n < 2 => w.registers = v.registers
  BY ONLY <1>l, <1>m, <1>8
<1> QED BY ONLY <1>9 DEF Moves

(* The values of the table are bytes, and unlock the CRT controller.       *)
LEMMA ModeBytes ==
  /\ \A group \in Groups : \A r \in RegistersOf(group) : Mode[group][r + 1] \in Bytes
  /\ Mode.misc \in Bytes /\ Mode["crtc"][18] = 12
<1>1. \A group \in Groups : \A r \in RegistersOf(group) : Mode[group][r + 1] \in Bytes
  BY DEF RegistersOf, Mode, Groups, Bytes
<1> QED BY <1>1 DEF Mode, Bytes

(* Blank, and the miscellaneous register.                                  *)
LEMMA FirstSteps ==
  ASSUME NEW v, NEW s, NEW n \in 0 .. 2, AdapterAt(v, s, n)
  PROVE  Moves(v, s, n)
<1>1. v \in Adapters /\ PictureAt(v, n) /\ RegistersAt(v, n) /\ SavedAt(s, n) /\ IndexAt(v, n)
  BY DEF AdapterAt
<1>2. Quiet(n + 1)
  <2>1. n + 1 \in 1 .. 177 /\ n + 1 <= 150
    OBVIOUS
  <2>2. \A group \in Groups : \A r \in RegistersOf(group) : SetAt(group, r) # n + 1
    BY Settings
  <2> QED BY ONLY <2>1, <2>2, QuietThen
<1>3. SavedAt(s, n + 1)
  BY <1>1, SavedKept
<1>4. CASE n = 0
  <2> DEFINE w == ReadStatus(v)
  <2>1. Makes(v, s, Reset[n + 1], w, s)
    <3>1. Makes(v, s, Status[1], ReadStatus(v), s)
      BY Accesses
    <3>2. Reset[1] = Status[1] /\ n + 1 = 1
      BY <1>4, ResetOfMode
    <3> QED BY ONLY <3>1, <3>2
  <2>2. SameBut(v, w, {"acData"}) /\ ~ w.acData
    BY <1>1, StatusRead
  <2> HIDE DEF w
  <2>3. w \in Adapters /\ w.registers = v.registers /\ w.index = v.index
    BY <2>2 DEF SameBut
  <2>4. RegistersAt(w, n + 1)
    BY <1>1, <1>2, <2>3, RegistersKept
  <2>5. PictureAt(w, n + 1) /\ IndexAt(w, n + 1)
    BY <1>4, <2>2 DEF PictureAt, IndexAt
  <2>6. AdapterAt(w, s, n + 1)
    BY <1>3, <2>3, <2>4, <2>5 DEF AdapterAt
  <2> QED BY <2>1, <2>3, <2>6 DEF Moves
<1>5. CASE n = 1
  <2> DEFINE w == WriteAttribute(v, 0)
  <2>1. Makes(v, s, Reset[n + 1], w, s)
    <3>1. \A x : Makes(v, s, Attribute(x)[1], WriteAttribute(v, x), s)
      BY Accesses
    <3>2. Reset[2] = Attribute(0)[1] /\ n + 1 = 2
      BY <1>5, ResetOfMode
    <3> QED BY ONLY <3>1, <3>2
  <2>a. ~ v.acData
    BY <1>1, <1>5 DEF IndexAt
  <2>2. SameBut(v, w, {"index", "acData", "unblanked"}) /\ w.unblanked = IsBitSet(0, 5)
    BY <1>1, <2>a, AttributeIndexWritten
  <2> HIDE DEF w
  <2>3. w \in Adapters /\ w.registers = v.registers /\ ~ w.unblanked
    BY <2>2, BitValues DEF SameBut
  <2>4. RegistersAt(w, n + 1)
    BY <1>1, <1>2, <2>3, RegistersKept
  <2>5. PictureAt(w, n + 1) /\ IndexAt(w, n + 1)
    BY <1>5, <2>3 DEF PictureAt, IndexAt
  <2>6. AdapterAt(w, s, n + 1)
    BY <1>3, <2>3, <2>4, <2>5 DEF AdapterAt
  <2> QED BY <2>1, <2>3, <2>6 DEF Moves
<1>6. CASE n = 2
  <2> DEFINE w == [v EXCEPT !.misc = Mode.misc]
  <2>1. Makes(v, s, Reset[n + 1], w, s)
    <3>1. \A x : Makes(v, s, Misc(x)[1], [v EXCEPT !.misc = x], s)
      BY Accesses
    <3>2. Reset[3] = Misc(Mode.misc)[1] /\ n + 1 = 3
      BY <1>6, ResetOfMode
    <3> QED BY ONLY <3>1, <3>2
  <2>2. SameBut(v, w, {"misc"}) /\ w.misc = Mode.misc
    BY <1>1, MiscWritten, ModeBytes
  <2> HIDE DEF w
  <2>3. w \in Adapters /\ w.registers = v.registers /\ w.unblanked = v.unblanked
    BY <2>2 DEF SameBut
  <2>4. RegistersAt(w, n + 1)
    BY <1>1, <1>2, <2>3, RegistersKept
  <2>5. PictureAt(w, n + 1) /\ IndexAt(w, n + 1)
    BY <1>1, <1>6, <2>2, <2>3 DEF PictureAt, IndexAt
  <2>6. AdapterAt(w, s, n + 1)
    BY <1>3, <2>3, <2>4, <2>5 DEF AdapterAt
  <2> QED BY <1>6, <2>1, <2>6 DEF Moves
<1> QED BY <1>4, <1>5, <1>6

(* The sequencer.                                                          *)
LEMMA SequencerIndex ==
  ASSUME NEW v, NEW s, NEW k \in 1 .. 5, AdapterAt(v, s, 1 + 2 * k)
  PROVE  Moves(v, s, 1 + 2 * k)
<1> DEFINE n == 1 + 2 * k
           i == k - 1
<1>1. n \in 3 .. 173 /\ n \notin {16, 163, 149, 152, 155, 158, 161} /\ n + 1 = 2 + 2 * k
  OBVIOUS
<1>2. "seq" \in Groups /\ i \in Bytes
  BY DEF Groups, Bytes
<1>3. Reset[n + 1] = Index("seq", i)[1]
  <2>1. Reset[2 + 2 * k] = Index("seq", k - 1)[1]
    BY ResetOfMode
  <2> QED BY <1>1, <2>1
<1>4. Quiet(n + 1)
  <2>1. n + 1 \in 1 .. 177 /\ n + 1 <= 150
    OBVIOUS
  <2>2. \A group \in Groups : \A r \in RegistersOf(group) : SetAt(group, r) # n + 1
    BY Settings
  <2> HIDE DEF n
  <2> QED BY ONLY <2>1, <2>2, QuietThen
<1>5. ASSUME NEW w
      PROVE  /\ w.acData = v.acData /\ w.index["seq"] = i
             /\ \A h \in Groups : h # "seq" => w.index[h] = v.index[h]
             => IndexAt(w, n + 1)
  BY DEF IndexAt
<1>6. AdapterAt(v, s, n)
  BY SMTT(40)
<1> HIDE DEF n, i
<1>7. Moves(v, s, n)
  BY ONLY <1>1, <1>2, <1>3, <1>4, <1>5, <1>6, IndexStep
<1> QED BY <1>7 DEF n

(* Its registers, one by one.                                              *)
LEMMA SequencerData ==
  ASSUME NEW v, NEW s, NEW k \in 1 .. 5, AdapterAt(v, s, 2 + 2 * k)
  PROVE  Moves(v, s, 2 + 2 * k)
<1> DEFINE n == 2 + 2 * k
           x == Mode["seq"][k]
           i == k - 1
<1>1. n \in 3 .. 173 /\ n \notin {163, 149, 152, 155, 158, 161} /\ n + 1 = 3 + 2 * k /\ n # 16
  OBVIOUS
<1>2. "seq" \in Groups \ {"ac"} /\ i \in RegistersOf("seq") /\ i \in Nat /\ i + 1 = k
  BY DEF Groups, RegistersOf
<1>3. x \in Bytes
  BY <1>2, ModeBytes
<1>4. v.index["seq"] = i
  BY DEF AdapterAt, IndexAt
<1>5. "seq" # "crtc"
  OBVIOUS
<1>6. Makes(v, s, Reset[n + 1], WriteData(v, "seq", x), s)
  <2>1. Reset[3 + 2 * k] = Put("seq", x)[1]
    BY ResetOfMode
  <2>2. \A h, y : Makes(v, s, Put(h, y)[1], WriteData(v, h, y), s)
    BY Accesses
  <2> QED BY ONLY <1>1, <2>1, <2>2
<1>7. Only("seq", i, n + 1)
  <2>1. n + 1 \in 1 .. 150
    OBVIOUS
  <2>2. \A h \in Groups : \A q \in RegistersOf(h) : h # "seq" \/ q # i => SetAt(h, q) # n + 1
    BY Settings
  <2> HIDE DEF n, i
  <2> QED BY ONLY <2>1, <2>2, OnlyThen
<1>8. HeldAt("seq", i, n + 1) = x
  <2>1. n + 1 \in Nat /\ n + 1 <= 150
    OBVIOUS
  <2> HIDE DEF n
  <2>2. HeldAt("seq", i, n + 1) = Mode["seq"][i + 1]
    BY ONLY <2>1, HeldThen
  <2> QED BY <1>2, <2>2
<1>9. ASSUME NEW w, w.acData = v.acData, w.index = v.index
      PROVE  IndexAt(w, n + 1)
  BY DEF IndexAt
<1>10. AdapterAt(v, s, n)
  BY SMTT(40)
<1> HIDE DEF n, x, i
<1>12. WritesNext(v, s, n, "seq", i, x)
  BY ONLY <1>1, <1>2, <1>3, <1>4, <1>5, <1>6, <1>7, <1>8, <1>9 DEF WritesNext
<1>13. Moves(v, s, n)
  BY ONLY <1>10, <1>12, DataStep
<1> QED BY <1>13 DEF n

(* The CRT controller, unlocked by now.                                    *)
LEMMA CrtControllerIndex ==
  ASSUME NEW v, NEW s, NEW k \in 1 .. 25, AdapterAt(v, s, 15 + 2 * k)
  PROVE  Moves(v, s, 15 + 2 * k)
<1> DEFINE n == 15 + 2 * k
           i == k - 1
<1>1. n \in 3 .. 173 /\ n \notin {16, 163, 149, 152, 155, 158, 161} /\ n + 1 = 16 + 2 * k
  OBVIOUS
<1>2. "crtc" \in Groups /\ i \in Bytes
  BY DEF Groups, Bytes
<1>3. Reset[n + 1] = Index("crtc", i)[1]
  <2>1. Reset[16 + 2 * k] = Index("crtc", k - 1)[1]
    BY ResetOfMode
  <2> QED BY <1>1, <2>1
<1>4. Quiet(n + 1)
  <2>1. n + 1 \in 1 .. 177 /\ n + 1 <= 150
    OBVIOUS
  <2>2. \A group \in Groups : \A r \in RegistersOf(group) : SetAt(group, r) # n + 1
    BY Settings
  <2> HIDE DEF n
  <2> QED BY ONLY <2>1, <2>2, QuietThen
<1>5. ASSUME NEW w
      PROVE  /\ w.acData = v.acData /\ w.index["crtc"] = i
             /\ \A h \in Groups : h # "crtc" => w.index[h] = v.index[h]
             => IndexAt(w, n + 1)
  BY DEF IndexAt
<1>6. AdapterAt(v, s, n)
  BY SMTT(40)
<1> HIDE DEF n, i
<1>7. Moves(v, s, n)
  BY ONLY <1>1, <1>2, <1>3, <1>4, <1>5, <1>6, IndexStep
<1> QED BY <1>7 DEF n

(* Its registers, one by one: none is protected any more.                  *)
LEMMA CrtControllerData ==
  ASSUME NEW v, NEW s, NEW k \in 1 .. 25, AdapterAt(v, s, 16 + 2 * k)
  PROVE  Moves(v, s, 16 + 2 * k)
<1> DEFINE n == 16 + 2 * k
           x == Mode["crtc"][k]
           i == k - 1
<1>1. n \in 3 .. 173 /\ n \notin {163, 149, 152, 155, 158, 161} /\ n + 1 = 17 + 2 * k /\ n # 16
  OBVIOUS
<1>2. "crtc" \in Groups \ {"ac"} /\ i \in RegistersOf("crtc") /\ i \in Nat /\ i + 1 = k
  BY DEF Groups, RegistersOf
<1>3. x \in Bytes
  BY <1>2, ModeBytes
<1>4. v.index["crtc"] = i
  BY DEF AdapterAt, IndexAt
<1>5. ~ IsBitSet(v.registers["crtc"][17], 7)
  BY DEF AdapterAt, PictureAt
<1>6. Makes(v, s, Reset[n + 1], WriteData(v, "crtc", x), s)
  <2>1. Reset[17 + 2 * k] = Put("crtc", x)[1]
    BY ResetOfMode
  <2>2. \A h, y : Makes(v, s, Put(h, y)[1], WriteData(v, h, y), s)
    BY Accesses
  <2> QED BY ONLY <1>1, <2>1, <2>2
<1>7. Only("crtc", i, n + 1)
  <2>1. n + 1 \in 1 .. 150
    OBVIOUS
  <2>2. \A h \in Groups : \A q \in RegistersOf(h) : h # "crtc" \/ q # i => SetAt(h, q) # n + 1
    BY Settings
  <2> HIDE DEF n, i
  <2> QED BY ONLY <2>1, <2>2, OnlyThen
<1>8. HeldAt("crtc", i, n + 1) = x
  <2>1. n + 1 \in Nat /\ n + 1 <= 150
    OBVIOUS
  <2> HIDE DEF n
  <2>2. HeldAt("crtc", i, n + 1) = Mode["crtc"][i + 1]
    BY ONLY <2>1, HeldThen
  <2> QED BY <1>2, <2>2
<1>9. ASSUME NEW w, w.acData = v.acData, w.index = v.index
      PROVE  IndexAt(w, n + 1)
  BY DEF IndexAt
<1>10. AdapterAt(v, s, n)
  OBVIOUS
<1>11. i = 17 => ~ IsBitSet(x, 7)
  BY SMTT(40), ModeBytes, BitValues
<1> HIDE DEF n, x, i
<1>12. WritesNext(v, s, n, "crtc", i, x)
  BY ONLY <1>1, <1>2, <1>3, <1>4, <1>5, <1>6, <1>7, <1>8, <1>9, <1>11 DEF WritesNext
<1>13. Moves(v, s, n)
  BY ONLY <1>10, <1>12, DataStep
<1> QED BY <1>13 DEF n

(* The graphics controller.                                                *)
LEMMA GraphicsIndex ==
  ASSUME NEW v, NEW s, NEW k \in 1 .. 9, AdapterAt(v, s, 65 + 2 * k)
  PROVE  Moves(v, s, 65 + 2 * k)
<1> DEFINE n == 65 + 2 * k
           i == k - 1
<1>1. n \in 3 .. 173 /\ n \notin {16, 163, 149, 152, 155, 158, 161} /\ n + 1 = 66 + 2 * k
  OBVIOUS
<1>2. "gc" \in Groups /\ i \in Bytes
  BY DEF Groups, Bytes
<1>3. Reset[n + 1] = Index("gc", i)[1]
  <2>1. Reset[66 + 2 * k] = Index("gc", k - 1)[1]
    BY ResetOfMode
  <2> QED BY <1>1, <2>1
<1>4. Quiet(n + 1)
  <2>1. n + 1 \in 1 .. 177 /\ n + 1 <= 150
    OBVIOUS
  <2>2. \A group \in Groups : \A r \in RegistersOf(group) : SetAt(group, r) # n + 1
    BY Settings
  <2> HIDE DEF n
  <2> QED BY ONLY <2>1, <2>2, QuietThen
<1>5. ASSUME NEW w
      PROVE  /\ w.acData = v.acData /\ w.index["gc"] = i
             /\ \A h \in Groups : h # "gc" => w.index[h] = v.index[h]
             => IndexAt(w, n + 1)
  BY DEF IndexAt
<1>6. AdapterAt(v, s, n)
  BY SMTT(40)
<1> HIDE DEF n, i
<1>7. Moves(v, s, n)
  BY ONLY <1>1, <1>2, <1>3, <1>4, <1>5, <1>6, IndexStep
<1> QED BY <1>7 DEF n

(* Its registers, one by one.                                              *)
LEMMA GraphicsData ==
  ASSUME NEW v, NEW s, NEW k \in 1 .. 9, AdapterAt(v, s, 66 + 2 * k)
  PROVE  Moves(v, s, 66 + 2 * k)
<1> DEFINE n == 66 + 2 * k
           x == Mode["gc"][k]
           i == k - 1
<1>1. n \in 3 .. 173 /\ n \notin {163, 149, 152, 155, 158, 161} /\ n + 1 = 67 + 2 * k /\ n # 16
  OBVIOUS
<1>2. "gc" \in Groups \ {"ac"} /\ i \in RegistersOf("gc") /\ i \in Nat /\ i + 1 = k
  BY DEF Groups, RegistersOf
<1>3. x \in Bytes
  BY <1>2, ModeBytes
<1>4. v.index["gc"] = i
  BY DEF AdapterAt, IndexAt
<1>5. "gc" # "crtc"
  OBVIOUS
<1>6. Makes(v, s, Reset[n + 1], WriteData(v, "gc", x), s)
  <2>1. Reset[67 + 2 * k] = Put("gc", x)[1]
    BY ResetOfMode
  <2>2. \A h, y : Makes(v, s, Put(h, y)[1], WriteData(v, h, y), s)
    BY Accesses
  <2> QED BY ONLY <1>1, <2>1, <2>2
<1>7. Only("gc", i, n + 1)
  <2>1. n + 1 \in 1 .. 150
    OBVIOUS
  <2>2. \A h \in Groups : \A q \in RegistersOf(h) : h # "gc" \/ q # i => SetAt(h, q) # n + 1
    BY Settings
  <2> HIDE DEF n, i
  <2> QED BY ONLY <2>1, <2>2, OnlyThen
<1>8. HeldAt("gc", i, n + 1) = x
  <2>1. n + 1 \in Nat /\ n + 1 <= 150
    OBVIOUS
  <2> HIDE DEF n
  <2>2. HeldAt("gc", i, n + 1) = Mode["gc"][i + 1]
    BY ONLY <2>1, HeldThen
  <2> QED BY <1>2, <2>2
<1>9. ASSUME NEW w, w.acData = v.acData, w.index = v.index
      PROVE  IndexAt(w, n + 1)
  BY DEF IndexAt
<1>10. AdapterAt(v, s, n)
  BY SMTT(40)
<1> HIDE DEF n, x, i
<1>12. WritesNext(v, s, n, "gc", i, x)
  BY ONLY <1>1, <1>2, <1>3, <1>4, <1>5, <1>6, <1>7, <1>8, <1>9 DEF WritesNext
<1>13. Moves(v, s, n)
  BY ONLY <1>10, <1>12, DataStep
<1> QED BY <1>13 DEF n

(* Unlocking touches nothing that is known already.                        *)
LEMMA QuietUnlock ==
  ASSUME NEW n \in 14 .. 17
  PROVE  Quiet(n) /\ \A g, r : Only(g, r, n)
<1>1. n \in 1 .. 177 /\ n <= 150 /\ n \in 1 .. 150
  OBVIOUS
<1>2. \A group \in Groups : \A r \in RegistersOf(group) : SetAt(group, r) # n
  BY Settings
<1>3. Quiet(n)
  BY ONLY <1>1, <1>2, QuietThen
<1>4. ASSUME NEW g, NEW r PROVE Only(g, r, n)
  BY ONLY SMTT(40), <1>1, <1>2, OnlyThen
<1> QED BY <1>3, <1>4

(* The CRT controller is unlocked: its register 3 may still be protected.  *)
LEMMA UnlockIndexSteps ==
  ASSUME NEW v, NEW s, NEW n \in {13, 15}, AdapterAt(v, s, n)
  PROVE  Moves(v, s, n)
<1> DEFINE i == IF n = 13 THEN 3 ELSE 17
<1>1. n \in 3 .. 173 /\ n \notin {16, 163, 149, 152, 155, 158, 161}
  OBVIOUS
<1>2. "crtc" \in Groups /\ i \in Bytes
  BY DEF Groups, Bytes
<1>3. Reset[n + 1] = Index("crtc", i)[1]
  <2>1. CASE n = 13
    BY <2>1, ResetOfMode
  <2>2. CASE n = 15
    BY <2>2, ResetOfMode
  <2> QED BY <2>1, <2>2
<1>4. Quiet(n + 1)
  BY QuietUnlock
<1>5. ASSUME NEW w
      PROVE  /\ w.acData = v.acData /\ w.index["crtc"] = i
             /\ \A h \in Groups : h # "crtc" => w.index[h] = v.index[h]
             => IndexAt(w, n + 1)
  BY DEF IndexAt
<1>6. AdapterAt(v, s, n)
  OBVIOUS
<1> HIDE DEF i
<1> QED BY ONLY <1>1, <1>2, <1>3, <1>4, <1>5, <1>6, IndexStep

(* Bit 7 of register 11h is cleared, whatever the rest of it is.           *)
LEMMA UnlockDataSteps ==
  ASSUME NEW v, NEW s, NEW n \in {14, 16}, AdapterAt(v, s, n)
  PROVE  Moves(v, s, n)
<1> DEFINE i == IF n = 14 THEN 3 ELSE 17
           old == v.registers["crtc"][i]
           x == IF n = 14 THEN BitSet(old, 7) ELSE BitClear(old, 7)
<1>0. v \in Adapters /\ PictureAt(v, n) /\ RegistersAt(v, n) /\ SavedAt(s, n) /\ IndexAt(v, n)
  BY DEF AdapterAt
<1>1. n \in 3 .. 173 /\ n \notin {163, 149, 152, 155, 158, 161}
  OBVIOUS
<1>2. "crtc" \in Groups \ {"ac"} /\ i \in RegistersOf("crtc")
  BY DEF Groups, RegistersOf
<1>3. old \in Bytes
  BY <1>0, <1>2 DEF Adapters, RegisterFiles
<1>4. x \in Bytes
  BY <1>3, BitsOfByte
<1>5. v.index["crtc"] = i
  BY <1>0 DEF IndexAt
<1>6. Makes(v, s, Reset[n + 1], WriteData(v, "crtc", x), s)
  <2>1. ReadData(v, "crtc") = old
    BY <1>5 DEF ReadData
  <2>2. /\ Makes(v, s, Change("crtc", 7, TRUE)[1],
                  WriteData(v, "crtc", BitSet(ReadData(v, "crtc"), 7)), s)
        /\ Makes(v, s, Change("crtc", 7, FALSE)[1],
                  WriteData(v, "crtc", BitClear(ReadData(v, "crtc"), 7)), s)
    BY Accesses
  <2>3. CASE n = 14
    <3>1. x = BitSet(old, 7)
      BY <2>3
    <3>2. Reset[15] = Change("crtc", 7, TRUE)[1]
      BY ResetOfMode
    <3>3. n + 1 = 15
      BY <2>3
    <3> QED BY ONLY <2>1, <2>2, <3>1, <3>2, <3>3
  <2>4. CASE n = 16
    <3>1. x = BitClear(old, 7)
      BY <2>4
    <3>2. Reset[17] = Change("crtc", 7, FALSE)[1]
      BY ResetOfMode
    <3>3. n + 1 = 17
      BY <2>4
    <3> QED BY ONLY <2>1, <2>2, <3>1, <3>2, <3>3
  <2> QED BY <2>3, <2>4
<1>7. Only("crtc", i, n + 1)
  BY QuietUnlock
<1>8. SetAt("crtc", i) > n + 1
  BY DEF SetAt
<1>9. ASSUME NEW w, w.acData = v.acData, w.index = v.index
      PROVE  IndexAt(w, n + 1)
  BY DEF IndexAt
<1>10. AdapterAt(v, s, n)
  OBVIOUS
<1>11. i = 17 => n = 16 /\ ~ IsBitSet(x, 7)
  BY <1>3, BitsOfByte
<1>12. n = 16 => i = 17
  BY SMTT(40)
<1>13. CASE ~ (i < 8 /\ IsBitSet(v.registers["crtc"][17], 7))
  <2> HIDE DEF i, x
  <2>1. SetAt("crtc", i) <= n + 1 => HeldAt("crtc", i, n + 1) = x
    <3>1. SetAt("crtc", i) \in Nat
      BY <1>2, Settings
    <3> QED BY <1>8, <3>1
  <2> DEFINE g == "crtc"
  <2>2. g \in Groups \ {"ac"} /\ i \in RegistersOf(g) /\ v.index[g] = i
    BY ONLY <1>2, <1>5
  <2>3. ~ (g = "crtc" /\ i < 8 /\ IsBitSet(v.registers["crtc"][17], 7))
    BY ONLY <1>13
  <2>4. /\ Makes(v, s, Reset[n + 1], WriteData(v, g, x), s) /\ Only(g, i, n + 1)
        /\ SetAt(g, i) <= n + 1 => HeldAt(g, i, n + 1) = x
    BY ONLY <1>6, <1>7, <2>1
  <2>5. /\ g = "crtc" /\ i = 17 => ~ IsBitSet(x, 7)
        /\ n = 16 => g = "crtc" /\ i = 17
    BY ONLY <1>11, <1>12
  <2>6. \A w : w.acData = v.acData /\ w.index = v.index => IndexAt(w, n + 1)
    BY ONLY <1>9
  <2> HIDE DEF g
  <2>7. WritesNext(v, s, n, g, i, x)
    BY ONLY <1>1, <1>4, <2>2, <2>3, <2>4, <2>5, <2>6 DEF WritesNext
  <2> QED BY ONLY <1>10, <2>7, DataStep
<1>14. CASE i < 8 /\ IsBitSet(v.registers["crtc"][17], 7)
  <2>1. WriteData(v, "crtc", x) = v
    BY <1>5, <1>14 DEF WriteData
  <2>2. n # 16
    BY <1>12, <1>14
  <2>3. RegistersAt(v, n + 1)
    <3>1. Quiet(n + 1) /\ n \in 0 .. 176 /\ v.registers = v.registers /\ RegistersAt(v, n)
      BY <1>0, QuietUnlock
    <3> QED BY ONLY <3>1, RegistersKept
  <2>4. PictureAt(v, n + 1) /\ SavedAt(s, n + 1) /\ IndexAt(v, n + 1)
    BY <1>0, <1>9, <2>2 DEF PictureAt, SavedAt
  <2>5. AdapterAt(v, s, n + 1)
    BY <1>0, <2>3, <2>4 DEF AdapterAt
  <2>6. Makes(v, s, Reset[n + 1], v, s)
    BY ONLY <1>6, <2>1
  <2> QED BY <2>2, <2>5, <2>6 DEF Moves
<1> QED BY <1>13, <1>14

(* The attribute controller: the flip-flop, a register, its value.         *)
LEMMA AttributeSteps ==
  ASSUME NEW v, NEW s, NEW k \in 1 .. 21, NEW n \in {82 + 3 * k, 83 + 3 * k, 84 + 3 * k},
         AdapterAt(v, s, n)
  PROVE  Moves(v, s, n)
<1>0. v \in Adapters /\ PictureAt(v, n) /\ RegistersAt(v, n) /\ SavedAt(s, n) /\ IndexAt(v, n)
  BY DEF AdapterAt
<1>a. n \in 3 .. 147 /\ n \in 3 .. 175 /\ n \notin {16, 163, 174} /\ n \in 85 .. 147
  OBVIOUS
<1>b. ~ v.unblanked
  BY <1>0, <1>a DEF PictureAt
<1>1. SavedAt(s, n + 1)
  BY <1>0, <1>a, SavedKept
<1>c. n # 84 + 3 * k => Quiet(n + 1)
  <2> SUFFICES ASSUME n # 84 + 3 * k PROVE Quiet(n + 1)
    OBVIOUS
  <2>1. n + 1 \in 1 .. 177 /\ n + 1 <= 150
    BY <1>a
  <2>2. \A group \in Groups : \A r \in RegistersOf(group) : SetAt(group, r) # n + 1
    BY <1>a, Settings
  <2> QED BY ONLY <2>1, <2>2, QuietThen
<1>2. CASE n = 82 + 3 * k
  <2> DEFINE w == ReadStatus(v)
  <2>1. Makes(v, s, Reset[n + 1], w, s)
    <3>1. Makes(v, s, Status[1], ReadStatus(v), s)
      BY Accesses
    <3>2. Reset[83 + 3 * k] = Status[1] /\ n + 1 = 83 + 3 * k
      BY <1>2, ResetOfMode
    <3> QED BY ONLY <3>1, <3>2
  <2>2. SameBut(v, w, {"acData"}) /\ ~ w.acData
    BY <1>0, StatusRead
  <2> HIDE DEF w
  <2>3. /\ w \in Adapters /\ w.registers = v.registers /\ w.index = v.index /\ w.misc = v.misc
        /\ w.unblanked = v.unblanked /\ w.font = v.font /\ w.text = v.text
    BY <2>2 DEF SameBut
  <2>a. Quiet(n + 1) /\ n \in 0 .. 176
    BY <1>2, <1>a, <1>c
  <2>4. RegistersAt(w, n + 1)
    BY ONLY <1>0, <2>a, <2>3, RegistersKept
  <2>b. w.registers["crtc"][17] = v.registers["crtc"][17]
    BY SMTT(40), <2>3
  <2>5. PictureAt(w, n + 1)
    BY ONLY ZenonT(40), <1>0, <1>a, <2>3, <2>b, PictureKept
  <2>6. IndexAt(w, n + 1)
    BY <1>2, <2>2 DEF IndexAt
  <2>7. AdapterAt(w, s, n + 1)
    BY <1>1, <1>a, <2>3, <2>4, <2>5, <2>6 DEF AdapterAt
  <2> QED BY <1>a, <2>1, <2>7 DEF Moves
<1>3. CASE n = 83 + 3 * k
  <2> DEFINE w == WriteAttribute(v, k - 1)
  <2>1. Makes(v, s, Reset[n + 1], w, s)
    <3>1. \A x : Makes(v, s, Attribute(x)[1], WriteAttribute(v, x), s)
      BY Accesses
    <3>2. Reset[84 + 3 * k] = Attribute(k - 1)[1] /\ n + 1 = 84 + 3 * k
      BY <1>3, ResetOfMode
    <3> QED BY ONLY <3>1, <3>2
  <2>c. ~ v.acData /\ k - 1 \in 0 .. 63
    BY <1>0, <1>3 DEF IndexAt
  <2>2. /\ SameBut(v, w, {"index", "acData", "unblanked"}) /\ w.acData
        /\ w.index["ac"] = (k - 1) % 32 /\ w.unblanked = IsBitSet(k - 1, 5)
    <3> DEFINE y == k - 1
    <3>1. y \in 0 .. 63
      BY <2>c
    <3> HIDE DEF y
    <3>2. LET u == WriteAttribute(v, y) IN
          /\ SameBut(v, u, {"index", "acData", "unblanked"}) /\ u.acData
          /\ u.index["ac"] = y % 32 /\ u.unblanked = IsBitSet(y, 5)
      BY ONLY <1>0, <2>c, <3>1, AttributeIndexWritten
    <3> QED BY <3>2 DEF y
  <2> HIDE DEF w
  <2>d. (k - 1) % 32 = k - 1
    BY ONLY k \in 1 .. 21
  <2>e. ~ IsBitSet(k - 1, 5)
    <3>1. k - 1 \in Bytes /\ k - 1 < 32
      BY DEF Bytes
    <3> QED BY <3>1, BitsOfByte
  <2>3. /\ w \in Adapters /\ w.registers = v.registers /\ w.misc = v.misc
        /\ w.font = v.font /\ w.text = v.text
    BY <2>2 DEF SameBut
  <2>f. ~ w.unblanked /\ w.index["ac"] = k - 1
    BY ONLY <2>2, <2>d, <2>e
  <2>a. Quiet(n + 1) /\ n \in 0 .. 176
    BY <1>3, <1>a, <1>c
  <2>4. RegistersAt(w, n + 1)
    BY ONLY <1>0, <2>a, <2>3, RegistersKept
  <2>b. w.registers["crtc"][17] = v.registers["crtc"][17]
    BY <2>3
  <2>5. PictureAt(w, n + 1)
    BY <1>0, <1>a, <2>3, <2>b, <2>f DEF PictureAt
  <2>6. IndexAt(w, n + 1)
    BY <1>3, <2>2, <2>f DEF IndexAt
  <2>7. AdapterAt(w, s, n + 1)
    BY <1>1, <1>a, <2>3, <2>4, <2>5, <2>6 DEF AdapterAt
  <2> QED BY <1>a, <2>1, <2>7 DEF Moves
<1>4. CASE n = 84 + 3 * k
  <2> DEFINE i == k - 1
             x == Mode["ac"][k]
             w == WriteAttribute(v, x)
  <2>1. Makes(v, s, Reset[n + 1], w, s)
    <3>1. \A y : Makes(v, s, Attribute(y)[1], WriteAttribute(v, y), s)
      BY Accesses
    <3>2. Reset[85 + 3 * k] = Attribute(x)[1] /\ n + 1 = 85 + 3 * k
      BY <1>4, ResetOfMode
    <3> QED BY ONLY <3>1, <3>2
  <2>c. v.acData /\ v.index["ac"] = i
    BY <1>0, <1>4 DEF IndexAt
  <2>d. i \in RegistersOf("ac") /\ i + 1 = k /\ "ac" \in Groups
    BY DEF RegistersOf, Groups
  <2>e. x \in Bytes
    BY <2>d, ModeBytes
  <2>2. SameBut(v, w, {"registers", "acData"}) /\ ~ w.acData /\ RegisterWritten(v, w, "ac", i, x)
    <3> HIDE DEF i, x
    <3> QED BY <1>0, <1>b, <2>c, <2>d, <2>e, AttributeDataWritten
  <2>g. HeldAt("ac", i, n + 1) = x
    <3>1. n + 1 \in Nat /\ n + 1 <= 150
      BY <1>a
    <3>2. HeldAt("ac", i, n + 1) = Mode["ac"][i + 1]
      BY ONLY <3>1, HeldThen
    <3> QED BY <2>d, <3>2
  <2>h. Only("ac", i, n + 1)
    <3>1. n + 1 \in 1 .. 150
      BY <1>a
    <3>2. \A h \in Groups : \A q \in RegistersOf(h) : h # "ac" \/ q # i => SetAt(h, q) # n + 1
      BY <1>4, Settings
    <3> HIDE DEF i
    <3> QED BY ONLY <3>1, <3>2, OnlyThen
  <2> HIDE DEF w, i, x
  <2>3. /\ w \in Adapters /\ w.index = v.index /\ w.misc = v.misc
        /\ w.unblanked = v.unblanked /\ w.font = v.font /\ w.text = v.text
    BY <2>2 DEF SameBut
  <2>4. RegistersAt(w, n + 1)
    <3>1. n \in 0 .. 176 /\ (SetAt("ac", i) <= n + 1 => HeldAt("ac", i, n + 1) = x)
      BY <1>a, <2>g
    <3> QED BY ONLY <1>0, <2>2, <2>h, <3>1, RegisterSet
  <2>b. w.registers["crtc"][17] = v.registers["crtc"][17]
    BY <2>2 DEF RegisterWritten, Groups, RegistersOf
  <2>5. PictureAt(w, n + 1)
    BY ONLY ZenonT(40), <1>0, <1>a, <2>3, <2>b, PictureKept
  <2>6. IndexAt(w, n + 1)
    BY <1>4, <2>2 DEF IndexAt
  <2>7. AdapterAt(w, s, n + 1)
    BY <1>1, <1>a, <2>3, <2>4, <2>5, <2>6 DEF AdapterAt
  <2> QED BY <1>a, <2>1, <2>7 DEF Moves
<1> QED BY <1>2, <1>3, <1>4

(* initFont(): registers saved, registers written.                         *)
LEMMA FontQuiet ==
  ASSUME NEW n \in {149, 150, 152, 153, 155, 156, 158, 159, 161, 162, 164, 165, 167, 169, 171, 173,
                    175, 176, 177}
  PROVE  Quiet(n)
<1> SUFFICES ASSUME NEW group \in Groups, NEW r \in RegistersOf(group)
             PROVE  SetAt(group, r) # n /\ HeldAt(group, r, n) = HeldAt(group, r, n - 1)
  BY DEF Quiet
<1>1. SetAt(group, r) # n
  BY Settings
<1>2. HeldAt(group, r, n) = HeldAt(group, r, n - 1)
  BY DEF HeldAt
<1> QED BY <1>1, <1>2

(* The registers that initFont() writes, and when.                         *)
LEMMA FontOnly ==
  ASSUME NEW n, NEW g, NEW i,
         <<n, g, i>> \in {<<151, "seq", 4>>, <<154, "gc", 5>>, <<157, "gc", 6>>, <<160, "gc", 4>>,
                         <<163, "seq", 2>>, <<166, "seq", 2>>, <<168, "seq", 4>>, <<170, "gc", 4>>,
                         <<172, "gc", 5>>, <<174, "gc", 6>>}
  PROVE  Only(g, i, n)
<1> SUFFICES ASSUME NEW h \in Groups, NEW q \in RegistersOf(h), h # g \/ q # i
             PROVE  SetAt(h, q) # n /\ HeldAt(h, q, n) = HeldAt(h, q, n - 1)
  BY DEF Only
<1>1. SetAt(h, q) # n
  BY Settings
<1>2. HeldAt(h, q, n) = HeldAt(h, q, n - 1)
  BY DEF HeldAt
<1> QED BY <1>1, <1>2

(* What the table says of the registers that initFont() uses.              *)
LEMMA ModeOfFont ==
  /\ Mode["seq"][2 + 1] = 3 /\ Mode["seq"][4 + 1] = 2
  /\ Mode["gc"][4 + 1] = 0 /\ Mode["gc"][5 + 1] = 16 /\ Mode["gc"][6 + 1] = 14
BY DEF Mode

(* All registers hold what they should before and after.                   *)
LEMMA FontRegisters ==
  ASSUME NEW v, NEW n \in 148 .. 177, RegistersAt(v, n)
  PROVE  /\ v.registers["seq"][2] = HeldAt("seq", 2, n)
         /\ v.registers["seq"][4] = HeldAt("seq", 4, n)
         /\ v.registers["gc"][4] = HeldAt("gc", 4, n) /\ v.registers["gc"][5] = HeldAt("gc", 5, n)
         /\ v.registers["gc"][6] = HeldAt("gc", 6, n)
<1>1. ASSUME NEW g \in Groups, NEW r \in RegistersOf(g)
      PROVE  v.registers[g][r] = HeldAt(g, r, n)
  <2>1. SetAt(g, r) <= n
    BY Settings
  <2> QED BY <2>1 DEF RegistersAt
<1> QED BY <1>1 DEF Groups, RegistersOf

(* What is to be known of indexes while initFont() works.                  *)
LEMMA FontIndex ==
  ASSUME NEW v, NEW n \in 149 .. 175
  PROVE  IndexAt(v, n) <=>
           /\ n \in 149 .. 160 \/ n \in 167 .. 168 => v.index["seq"] = 4
           /\ n \in 161 .. 166 => v.index["seq"] = 2
           /\ n \in 152 .. 154 \/ n \in 171 .. 172 => v.index["gc"] = 5
           /\ n \in 155 .. 157 \/ n \in 173 .. 174 => v.index["gc"] = 6
           /\ n \in 158 .. 170 => v.index["gc"] = 4
BY DEF IndexAt

(* A register of sequencer or graphics controller is selected.             *)
LEMMA FontIndexSteps ==
  ASSUME NEW v, NEW s, NEW n, NEW g, NEW i,
         <<n, g, i>> \in {<<148, "seq", 4>>, <<151, "gc", 5>>, <<154, "gc", 6>>, <<157, "gc", 4>>,
                         <<160, "seq", 2>>, <<164, "seq", 2>>, <<166, "seq", 4>>, <<168, "gc", 4>>,
                         <<170, "gc", 5>>, <<172, "gc", 6>>},
         AdapterAt(v, s, n)
  PROVE  Moves(v, s, n)
<1>1. n \in 3 .. 173 /\ n \notin {16, 163, 149, 152, 155, 158, 161}
  OBVIOUS
<1>2. g \in Groups /\ i \in Bytes
  BY DEF Groups, Bytes
<1>3. Reset[n + 1] = Index(g, i)[1]
  BY ResetOfFont
<1>4. Quiet(n + 1)
  BY FontQuiet
<1>5. ASSUME NEW w
      PROVE  /\ w.acData = v.acData /\ w.index[g] = i
             /\ \A h \in Groups : h # g => w.index[h] = v.index[h]
             => IndexAt(w, n + 1)
  BY SMTT(40) DEF IndexAt, AdapterAt, Groups
<1>6. AdapterAt(v, s, n)
  OBVIOUS
<1> QED BY ONLY SMTT(40), <1>1, <1>2, <1>3, <1>4, <1>5, <1>6, IndexStep

(* It is written: with a bit changed, with a value, or with the saved one. *)
LEMMA FontDataSteps ==
  ASSUME NEW v, NEW s, NEW n, NEW g, NEW i, NEW x,
         <<n, g, i, x>> \in {<<150, "seq", 4, 6>>, <<153, "gc", 5, 0>>, <<156, "gc", 6, 12>>,
                            <<159, "gc", 4, 2>>, <<162, "seq", 2, 4>>, <<165, "seq", 2, 3>>,
                            <<167, "seq", 4, 2>>, <<169, "gc", 4, 0>>, <<171, "gc", 5, 16>>,
                            <<173, "gc", 6, 14>>},
         AdapterAt(v, s, n)
  PROVE  Moves(v, s, n)
<1>0. RegistersAt(v, n) /\ IndexAt(v, n) /\ SavedAt(s, n)
  BY DEF AdapterAt
<1>1. n \in 3 .. 173 /\ n \notin {163, 149, 152, 155, 158, 161} /\ n # 16
  OBVIOUS
<1>2. g \in Groups \ {"ac"} /\ i \in RegistersOf(g) /\ x \in Bytes /\ g # "crtc"
  BY DEF Groups, RegistersOf, Bytes
<1>3. v.index[g] = i
  BY <1>0 DEF IndexAt
<1>4. Only(g, i, n + 1)
  <2>1. <<n + 1, g, i>> \in
          {<<151, "seq", 4>>, <<154, "gc", 5>>, <<157, "gc", 6>>, <<160, "gc", 4>>,
                           <<163, "seq", 2>>, <<166, "seq", 2>>, <<168, "seq", 4>>,
                           <<170, "gc", 4>>, <<172, "gc", 5>>, <<174, "gc", 6>>}
    OBVIOUS
  <2> QED BY ONLY <2>1, FontOnly
<1>5. HeldAt(g, i, n + 1) = x
  BY ModeOfFont DEF HeldAt
<1>6. ASSUME NEW w, w.acData = v.acData, w.index = v.index
      PROVE  IndexAt(w, n + 1)
  <2>1. n \in 149 .. 175 /\ n + 1 \in 149 .. 175
    OBVIOUS
  <2> QED BY <1>0, <1>6, <2>1, FontIndex
<1>7. Makes(v, s, Reset[n + 1], WriteData(v, g, x), s)
  <2>1. ReadData(v, g) = v.registers[g][i]
    BY <1>3 DEF ReadData
  <2>2. /\ v.registers["seq"][2] = HeldAt("seq", 2, n)
        /\ v.registers["seq"][4] = HeldAt("seq", 4, n)
        /\ v.registers["gc"][4] = HeldAt("gc", 4, n) /\ v.registers["gc"][5] = HeldAt("gc", 5, n)
        /\ v.registers["gc"][6] = HeldAt("gc", 6, n)
    BY <1>0, FontRegisters
  <2>3. CASE n = 150
    <3>1. g = "seq" /\ i = 4 /\ x = 6
      BY <2>3
    <3>2. ReadData(v, "seq") = 2
      BY <2>1, <2>2, <2>3, <3>1, ModeOfFont DEF HeldAt
    <3>3. Reset[151] = Change("seq", 2, TRUE)[1]
      BY ResetOfFont
    <3>4. \A h, y : 
            Makes(v, s, Change(h, y, TRUE)[1],
                  WriteData(v, h, BitSet(ReadData(v, h), y)), s)
      BY ONLY Accesses
    <3>5. BitSet(2, 2) = 6 /\ n + 1 = 151
      BY <2>3, BitValues
    <3>6. Makes(v, s, Change("seq", 2, TRUE)[1],
                WriteData(v, "seq", BitSet(ReadData(v, "seq"), 2)), s)
      BY ONLY <3>4
    <3> QED BY ONLY <3>1, <3>2, <3>3, <3>5, <3>6
  <2>4. CASE n = 153
    <3>1. g = "gc" /\ i = 5 /\ x = 0
      BY <2>4
    <3>2. ReadData(v, "gc") = 16
      BY <2>1, <2>2, <2>4, <3>1, ModeOfFont DEF HeldAt
    <3>3. Reset[154] = Change("gc", 4, FALSE)[1]
      BY ResetOfFont
    <3>4. \A h, y : 
            Makes(v, s, Change(h, y, FALSE)[1],
                  WriteData(v, h, BitClear(ReadData(v, h), y)), s)
      BY ONLY Accesses
    <3>5. BitClear(16, 4) = 0 /\ n + 1 = 154
      BY <2>4, BitValues
    <3>6. Makes(v, s, Change("gc", 4, FALSE)[1],
                WriteData(v, "gc", BitClear(ReadData(v, "gc"), 4)), s)
      BY ONLY <3>4
    <3> QED BY ONLY <3>1, <3>2, <3>3, <3>5, <3>6
  <2>5. CASE n = 156
    <3>1. g = "gc" /\ i = 6 /\ x = 12
      BY <2>5
    <3>2. ReadData(v, "gc") = 14
      BY <2>1, <2>2, <2>5, <3>1, ModeOfFont DEF HeldAt
    <3>3. Reset[157] = Change("gc", 1, FALSE)[1]
      BY ResetOfFont
    <3>4. \A h, y : 
            Makes(v, s, Change(h, y, FALSE)[1],
                  WriteData(v, h, BitClear(ReadData(v, h), y)), s)
      BY ONLY Accesses
    <3>5. BitClear(14, 1) = 12 /\ n + 1 = 157
      BY <2>5, BitValues
    <3>6. Makes(v, s, Change("gc", 1, FALSE)[1],
                WriteData(v, "gc", BitClear(ReadData(v, "gc"), 1)), s)
      BY ONLY <3>4
    <3> QED BY ONLY <3>1, <3>2, <3>3, <3>5, <3>6
  <2>6. CASE n = 159
    <3>1. g = "gc" /\ x = 2 /\ n + 1 = 160
      BY <2>6
    <3>2. Reset[160] = Put("gc", 2)[1]
      BY ResetOfFont, BitValues
    <3>3. \A h, y : Makes(v, s, Put(h, y)[1], WriteData(v, h, y), s)
      BY ONLY Accesses
    <3> QED BY ONLY <3>1, <3>2, <3>3
  <2>7. CASE n = 162
    <3>1. g = "seq" /\ x = 4 /\ n + 1 = 163
      BY <2>7
    <3>2. Reset[163] = Put("seq", 4)[1]
      BY ResetOfFont, BitValues
    <3>3. \A h, y : Makes(v, s, Put(h, y)[1], WriteData(v, h, y), s)
      BY ONLY Accesses
    <3> QED BY ONLY <3>1, <3>2, <3>3
  <2>8. CASE n \in {165, 167, 169, 171, 173}
    <3>1. s[<<g, i>>] = x
      <4>1. /\ s[<<"seq", 4>>] = 2 /\ s[<<"gc", 5>>] = 16 /\ s[<<"gc", 6>>] = 14
            /\ s[<<"gc", 4>>] = 0 /\ s[<<"seq", 2>>] = 3
        BY <1>0, <2>8 DEF SavedAt
      <4> QED BY <2>8, <4>1
    <3>2. Reset[n + 1] = Restoring(g, i)[1]
      BY <2>8, ResetOfFont
    <3>3. Makes(v, s, Restoring(g, i)[1], WriteData(v, g, s[<<g, i>>]), s)
      BY ONLY Accesses
    <3> QED BY ONLY <3>1, <3>2, <3>3
  <2> QED BY <2>3, <2>4, <2>5, <2>6, <2>7, <2>8
<1>8. /\ ~ (g = "crtc" /\ i < 8 /\ IsBitSet(v.registers["crtc"][17], 7))
      /\ (g = "crtc" /\ i = 17 => ~ IsBitSet(x, 7)) /\ (n = 16 => g = "crtc" /\ i = 17)
  BY <1>1, <1>2
<1>9. AdapterAt(v, s, n)
  OBVIOUS
<1>10. WritesNext(v, s, n, g, i, x)
  BY ONLY <1>1, <1>2, <1>3, <1>4, <1>5, <1>6, <1>7, <1>8 DEF WritesNext
<1> QED BY ONLY <1>9, <1>10, DataStep

(* It is saved, and holds the value of the table then.                     *)
LEMMA FontSaveSteps ==
  ASSUME NEW v, NEW s, NEW n, NEW g, NEW i,
         <<n, g, i>> \in {<<149, "seq", 4>>, <<152, "gc", 5>>, <<155, "gc", 6>>, <<158, "gc", 4>>,
                         <<161, "seq", 2>>},
         AdapterAt(v, s, n)
  PROVE  Moves(v, s, n)
<1> DEFINE t == [s EXCEPT ![<<g, i>>] = ReadData(v, g)]
<1>0. v \in Adapters /\ PictureAt(v, n) /\ RegistersAt(v, n) /\ SavedAt(s, n) /\ IndexAt(v, n)
  BY DEF AdapterAt
<1>1. n \in 148 .. 177 /\ n \in 0 .. 176 /\ n \in {149, 152, 155, 158, 161}
  OBVIOUS
<1>2. v.index[g] = i
  BY <1>0 DEF IndexAt
<1>3. Makes(v, s, Reset[n + 1], v, t)
  <2>1. Reset[n + 1] = Save(g, i)[1]
    BY ResetOfFont
  <2>2. \A h, r : Makes(v, s, Save(h, r)[1], v, [s EXCEPT ![<<h, r>>] = ReadData(v, h)])
    BY ONLY Accesses
  <2> QED BY ONLY <2>1, <2>2
<1>4. /\ v.registers["seq"][2] = HeldAt("seq", 2, n) /\ v.registers["seq"][4] = HeldAt("seq", 4, n)
      /\ v.registers["gc"][4] = HeldAt("gc", 4, n) /\ v.registers["gc"][5] = HeldAt("gc", 5, n)
      /\ v.registers["gc"][6] = HeldAt("gc", 6, n)
  BY <1>0, <1>1, FontRegisters
<1>5. /\ n = 149 => ReadData(v, g) = 2
      /\ n = 152 => ReadData(v, g) = 16
      /\ n = 155 => ReadData(v, g) = 14
      /\ n = 158 => ReadData(v, g) = 0
      /\ n = 161 => ReadData(v, g) = 3
  BY <1>2, <1>4, ModeOfFont DEF ReadData, HeldAt
<1>6. SavedAt(t, n + 1)
  <2>1. ReadData(v, g) \in Bytes
    BY ONLY <1>1, <1>5 DEF Bytes
  <2>2. <<g, i>> \in {<<"seq", 2>>, <<"seq", 4>>, <<"gc", 4>>, <<"gc", 5>>, <<"gc", 6>>}
    OBVIOUS
  <2>3. /\ s \in [{<<"seq", 2>>, <<"seq", 4>>, <<"gc", 4>>, <<"gc", 5>>, <<"gc", 6>>} -> Bytes]
        /\ n >= 150 => s[<<"seq", 4>>] = 2
        /\ n >= 153 => s[<<"gc", 5>>] = 16
        /\ n >= 156 => s[<<"gc", 6>>] = 14
        /\ n >= 159 => s[<<"gc", 4>>] = 0
    BY <1>0 DEF SavedAt
  <2>4. t \in [{<<"seq", 2>>, <<"seq", 4>>, <<"gc", 4>>, <<"gc", 5>>, <<"gc", 6>>} -> Bytes]
    BY ONLY <2>1, <2>2, <2>3
  <2>5. /\ t[<<g, i>>] = ReadData(v, g)
        /\ \A h \in {<<"seq", 2>>, <<"seq", 4>>, <<"gc", 4>>, <<"gc", 5>>, <<"gc", 6>>} :
             h # <<g, i>> => t[h] = s[h]
    BY ONLY <2>2, <2>3
  <2> HIDE DEF t
  <2>6. /\ n + 1 >= 150 => t[<<"seq", 4>>] = 2
        /\ n + 1 >= 153 => t[<<"gc", 5>>] = 16
        /\ n + 1 >= 156 => t[<<"gc", 6>>] = 14
        /\ n + 1 >= 159 => t[<<"gc", 4>>] = 0
        /\ n + 1 >= 162 => t[<<"seq", 2>>] = 3
    <3>1. CASE n = 149
      <4>1. g = "seq" /\ i = 4
        BY <3>1
      <4> QED BY ONLY <3>1, <4>1, <1>5, <2>3, <2>5
    <3>2. CASE n = 152
      <4>1. g = "gc" /\ i = 5
        BY <3>2
      <4> QED BY ONLY <3>2, <4>1, <1>5, <2>3, <2>5
    <3>3. CASE n = 155
      <4>1. g = "gc" /\ i = 6
        BY <3>3
      <4> QED BY ONLY <3>3, <4>1, <1>5, <2>3, <2>5
    <3>4. CASE n = 158
      <4>1. g = "gc" /\ i = 4
        BY <3>4
      <4> QED BY ONLY <3>4, <4>1, <1>5, <2>3, <2>5
    <3>5. CASE n = 161
      <4>1. g = "seq" /\ i = 2
        BY <3>5
      <4> QED BY ONLY <3>5, <4>1, <1>5, <2>3, <2>5
    <3> QED BY ONLY <1>1, <3>1, <3>2, <3>3, <3>4, <3>5
  <2> QED BY ONLY <2>4, <2>6 DEF SavedAt
<1> HIDE DEF t
<1>7. RegistersAt(v, n + 1)
  <2>1. Quiet(n + 1)
    BY FontQuiet
  <2>2. v.registers = v.registers
    OBVIOUS
  <2> QED BY ONLY <1>0, <1>1, <2>1, <2>2, RegistersKept
<1>8. PictureAt(v, n + 1) /\ IndexAt(v, n + 1)
  BY <1>0, <1>1 DEF PictureAt, IndexAt
<1>9. AdapterAt(v, t, n + 1)
  BY <1>0, <1>1, <1>6, <1>7, <1>8 DEF AdapterAt
<1> QED BY <1>1, <1>3, <1>9 DEF Moves

(* The font is written to its plane when the addresses are flat.           *)
LEMMA FontWritten ==
  ASSUME NEW v \in Adapters, NEW what \in Contents,
         NEW w, w = WriteMemory(v, what),
         v.registers["seq"][2] = 4, v.registers["seq"][4] = 6,
         v.registers["gc"][5] = 0, v.registers["gc"][6] = 12
  PROVE  SameBut(v, w, {"memory"}) /\ w.font = what /\ w.text = v.text
<1>0. v \in Adapters
  OBVIOUS
<1>1. Flat(v)
  BY BitValues DEF Flat
<1>2. IsBitSet(v.registers["seq"][2], 2)
  BY BitValues
<1>3. ~ IsBitSet(v.registers["seq"][2], 0) /\ ~ IsBitSet(v.registers["seq"][2], 1)
  BY BitValues
<1>4. WriteMemory(v, what) = [v EXCEPT !.font = what, !.text = v.text]
  BY ONLY <1>0, <1>1, <1>2, <1>3 DEF WriteMemory, Adapters
<1> DEFINE font == what
           text == v.text
<1>5. font \in Contents /\ text \in Contents
  BY DEF Adapters
<1>6. w = [v EXCEPT !.font = font, !.text = text]
  BY ONLY <1>4, w = WriteMemory(v, what)
<1> HIDE DEF font, text
<1>7. SameBut(v, w, {"memory"}) /\ w.font = font /\ w.text = text
  BY ONLY <1>0, <1>5, <1>6 DEF SameBut, Adapters
<1> QED BY ONLY <1>7 DEF font, text

(* The text is written when the addresses are odd and even again.          *)
LEMMA TextWritten ==
  ASSUME NEW v \in Adapters, NEW what \in Contents,
         NEW w, w = WriteMemory(v, what),
         v.registers["seq"][2] = 3, v.registers["seq"][4] = 2,
         v.registers["gc"][5] = 16, v.registers["gc"][6] = 14
  PROVE  SameBut(v, w, {"memory"}) /\ w.font = v.font /\ w.text = what
<1>0. v \in Adapters
  OBVIOUS
<1>1. OddEven(v)
  BY BitValues DEF OddEven
<1>2. ~ IsBitSet(v.registers["seq"][2], 2)
  BY BitValues
<1>3. IsBitSet(v.registers["seq"][2], 0)
  BY BitValues
<1>4. WriteMemory(v, what) = [v EXCEPT !.font = v.font, !.text = what]
  BY ONLY <1>0, <1>1, <1>2, <1>3 DEF WriteMemory, Adapters
<1> DEFINE font == v.font
           text == what
<1>5. font \in Contents /\ text \in Contents
  BY DEF Adapters
<1>6. w = [v EXCEPT !.font = font, !.text = text]
  BY ONLY <1>4, w = WriteMemory(v, what)
<1> HIDE DEF font, text
<1>7. SameBut(v, w, {"memory"}) /\ w.font = font /\ w.text = text
  BY ONLY <1>0, <1>5, <1>6 DEF SameBut, Adapters
<1> QED BY ONLY <1>7 DEF font, text

(* The font is written in flat mode to its plane, and the text in text     *)
(* mode to the others.                                                     *)
LEMMA MemorySteps ==
  ASSUME NEW v, NEW s, NEW n \in {163, 174}, AdapterAt(v, s, n)
  PROVE  Moves(v, s, n)
<1> DEFINE what == IF n = 163 THEN "8x8" ELSE "cleared"
           w == WriteMemory(v, what)
<1>0. v \in Adapters /\ PictureAt(v, n) /\ RegistersAt(v, n) /\ SavedAt(s, n) /\ IndexAt(v, n)
  BY DEF AdapterAt
<1>1. n \in 148 .. 177 /\ n \in 0 .. 176 /\ n \in {163, 174}
  OBVIOUS
<1>2. Makes(v, s, Reset[n + 1], w, s)
  <2>1. Reset[n + 1] = Memory(what)[1]
    BY ResetOfFont
  <2>2. \A x : Makes(v, s, Memory(x)[1], WriteMemory(v, x), s)
    BY ONLY Accesses
  <2> QED BY ONLY <2>1, <2>2
<1>3. /\ v.registers["seq"][2] = HeldAt("seq", 2, n) /\ v.registers["seq"][4] = HeldAt("seq", 4, n)
      /\ v.registers["gc"][4] = HeldAt("gc", 4, n) /\ v.registers["gc"][5] = HeldAt("gc", 5, n)
      /\ v.registers["gc"][6] = HeldAt("gc", 6, n)
  BY <1>0, <1>1, FontRegisters
<1>4. /\ SameBut(v, w, {"memory"})
      /\ n = 163 => w.font = "8x8"
      /\ n = 174 => w.text = "cleared" /\ w.font = v.font
  <2>1. CASE n = 163
    <3>1. /\ v.registers["seq"][2] = 4 /\ v.registers["seq"][4] = 6
          /\ v.registers["gc"][5] = 0 /\ v.registers["gc"][6] = 12
      BY <1>3, <2>1 DEF HeldAt
    <3>2. what = "8x8"
      BY <2>1
    <3>3. what \in Contents
      BY <3>2 DEF Contents
    <3>4. w = WriteMemory(v, what)
      OBVIOUS
    <3> HIDE DEF what, w
    <3>5. SameBut(v, w, {"memory"}) /\ w.font = what /\ w.text = v.text
      BY ONLY <1>0, <3>1, <3>3, <3>4, FontWritten
    <3> QED BY ONLY <2>1, <3>2, <3>5
  <2>2. CASE n = 174
    <3>1. /\ v.registers["seq"][2] = 3 /\ v.registers["seq"][4] = 2
          /\ v.registers["gc"][5] = 16 /\ v.registers["gc"][6] = 14
      BY <1>3, <2>2, ModeOfFont DEF HeldAt
    <3>2. what = "cleared"
      BY <2>2
    <3>3. what \in Contents
      BY <3>2 DEF Contents
    <3>4. w = WriteMemory(v, what)
      OBVIOUS
    <3> HIDE DEF what, w
    <3>5. SameBut(v, w, {"memory"}) /\ w.font = v.font /\ w.text = what
      BY ONLY <1>0, <3>1, <3>3, <3>4, TextWritten
    <3> QED BY ONLY <2>2, <3>2, <3>5
  <2> QED BY <2>1, <2>2
<1> HIDE DEF w, what
<1>5. /\ w \in Adapters /\ w.registers = v.registers /\ w.index = v.index /\ w.misc = v.misc
      /\ w.unblanked = v.unblanked /\ w.acData = v.acData
  BY <1>4 DEF SameBut
<1>6. RegistersAt(w, n + 1)
  <2>1. Quiet(n + 1)
    BY FontQuiet
  <2> QED BY ONLY <1>0, <1>1, <1>5, <2>1, RegistersKept
<1>7. PictureAt(w, n + 1) /\ SavedAt(s, n + 1)
  BY <1>0, <1>1, <1>4, <1>5 DEF PictureAt, SavedAt
<1>8. IndexAt(w, n + 1)
  <2>1. n \in 149 .. 175 /\ n + 1 \in 149 .. 175
    BY <1>1
  <2> QED BY <1>0, <1>1, <1>5, <2>1, FontIndex
<1>9. AdapterAt(w, s, n + 1)
  BY <1>1, <1>5, <1>6, <1>7, <1>8 DEF AdapterAt
<1> QED BY <1>1, <1>2, <1>9 DEF Moves

(* unblankScreen()                                                         *)
LEMMA LastSteps ==
  ASSUME NEW v, NEW s, NEW n \in {175, 176}, AdapterAt(v, s, n)
  PROVE  Moves(v, s, n)
<1>0. v \in Adapters /\ PictureAt(v, n) /\ RegistersAt(v, n) /\ SavedAt(s, n) /\ IndexAt(v, n)
  BY DEF AdapterAt
<1>1. n \in 0 .. 176 /\ n \in {175, 176}
  OBVIOUS
<1>2. Quiet(n + 1) /\ SavedAt(s, n + 1)
  BY <1>0, FontQuiet DEF SavedAt
<1>3. CASE n = 175
  <2> DEFINE w == ReadStatus(v)
  <2>1. Makes(v, s, Reset[n + 1], w, s)
    <3>1. Makes(v, s, Status[1], ReadStatus(v), s)
      BY ONLY Accesses
    <3>2. Reset[176] = Status[1] /\ n + 1 = 176
      BY <1>3, ResetOfFont
    <3> QED BY ONLY <3>1, <3>2
  <2>2. SameBut(v, w, {"acData"}) /\ ~ w.acData
    BY <1>0, StatusRead
  <2> HIDE DEF w
  <2>3. /\ w \in Adapters /\ w.registers = v.registers /\ w.index = v.index /\ w.misc = v.misc
        /\ w.unblanked = v.unblanked /\ w.font = v.font /\ w.text = v.text
    BY <2>2 DEF SameBut
  <2>4. RegistersAt(w, n + 1)
    BY ONLY <1>0, <1>1, <1>2, <2>3, RegistersKept
  <2>5. PictureAt(w, n + 1) /\ IndexAt(w, n + 1)
    BY <1>0, <1>3, <2>2, <2>3 DEF PictureAt, IndexAt
  <2>6. AdapterAt(w, s, n + 1)
    BY <1>1, <1>2, <2>3, <2>4, <2>5 DEF AdapterAt
  <2> QED BY <1>1, <2>1, <2>6 DEF Moves
<1>4. CASE n = 176
  <2> DEFINE w == WriteAttribute(v, 32)
  <2>1. Makes(v, s, Reset[n + 1], w, s)
    <3>1. \A x : Makes(v, s, Attribute(x)[1], WriteAttribute(v, x), s)
      BY ONLY Accesses
    <3>2. Reset[177] = Attribute(32)[1] /\ n + 1 = 177
      BY <1>4, ResetOfFont
    <3> QED BY ONLY <3>1, <3>2
  <2>a. ~ v.acData
    BY <1>0, <1>4 DEF IndexAt
  <2>2. SameBut(v, w, {"index", "acData", "unblanked"}) /\ w.unblanked = IsBitSet(32, 5)
    BY <1>0, <2>a, AttributeIndexWritten
  <2> HIDE DEF w
  <2>3. /\ w \in Adapters /\ w.registers = v.registers /\ w.misc = v.misc
        /\ w.unblanked /\ w.font = v.font /\ w.text = v.text
    BY <2>2, BitValues DEF SameBut
  <2>4. RegistersAt(w, n + 1)
    BY ONLY <1>0, <1>1, <1>2, <2>3, RegistersKept
  <2>5. PictureAt(w, n + 1) /\ IndexAt(w, n + 1)
    BY <1>0, <1>4, <2>3 DEF PictureAt, IndexAt
  <2>6. AdapterAt(w, s, n + 1)
    BY <1>1, <1>2, <2>3, <2>4, <2>5 DEF AdapterAt
  <2> QED BY <1>1, <2>1, <2>6 DEF Moves
<1> QED BY <1>3, <1>4

(* Every access leads to what is known after it.                           *)
LEMMA EveryStep ==
  ASSUME NEW v, NEW s, NEW n \in 0 .. 176, AdapterAt(v, s, n)
  PROVE  Moves(v, s, n)
<1>a. AdapterAt(v, s, n)
  OBVIOUS
<1>1. CASE n \in 0 .. 2
  BY ONLY <1>a, <1>1, FirstSteps
<1>2. CASE n \in 3 .. 12
  <2> DEFINE k == (n - 1) \div 2
  <2>1. k \in 1 .. 5 /\ (n = 1 + 2 * k \/ n = 2 + 2 * k)
    BY ONLY <1>2
  <2> HIDE DEF k
  <2>2. CASE n = 1 + 2 * k
    <3>1. AdapterAt(v, s, 1 + 2 * k)
      BY ONLY <1>a, <2>2
    <3>2. Moves(v, s, 1 + 2 * k)
      BY ONLY <2>1, <3>1, SequencerIndex
    <3> QED BY ONLY <2>2, <3>2
  <2>3. CASE n = 2 + 2 * k
    <3>1. AdapterAt(v, s, 2 + 2 * k)
      BY ONLY <1>a, <2>3
    <3>2. Moves(v, s, 2 + 2 * k)
      BY ONLY <2>1, <3>1, SequencerData
    <3> QED BY ONLY <2>3, <3>2
  <2> QED BY ONLY <2>1, <2>2, <2>3
<1>3. CASE n \in 13 .. 16
  BY ONLY <1>a, <1>3, UnlockIndexSteps, UnlockDataSteps
<1>4. CASE n \in 17 .. 66
  <2> DEFINE k == (n - 15) \div 2
  <2>1. k \in 1 .. 25 /\ (n = 15 + 2 * k \/ n = 16 + 2 * k)
    BY ONLY <1>4
  <2> HIDE DEF k
  <2>2. CASE n = 15 + 2 * k
    <3>1. AdapterAt(v, s, 15 + 2 * k)
      BY ONLY <1>a, <2>2
    <3>2. Moves(v, s, 15 + 2 * k)
      BY ONLY <2>1, <3>1, CrtControllerIndex
    <3> QED BY ONLY <2>2, <3>2
  <2>3. CASE n = 16 + 2 * k
    <3>1. AdapterAt(v, s, 16 + 2 * k)
      BY ONLY <1>a, <2>3
    <3>2. Moves(v, s, 16 + 2 * k)
      BY ONLY <2>1, <3>1, CrtControllerData
    <3> QED BY ONLY <2>3, <3>2
  <2> QED BY ONLY <2>1, <2>2, <2>3
<1>5. CASE n \in 67 .. 84
  <2> DEFINE k == (n - 65) \div 2
  <2>1. k \in 1 .. 9 /\ (n = 65 + 2 * k \/ n = 66 + 2 * k)
    BY ONLY <1>5
  <2> HIDE DEF k
  <2>2. CASE n = 65 + 2 * k
    <3>1. AdapterAt(v, s, 65 + 2 * k)
      BY ONLY <1>a, <2>2
    <3>2. Moves(v, s, 65 + 2 * k)
      BY ONLY <2>1, <3>1, GraphicsIndex
    <3> QED BY ONLY <2>2, <3>2
  <2>3. CASE n = 66 + 2 * k
    <3>1. AdapterAt(v, s, 66 + 2 * k)
      BY ONLY <1>a, <2>3
    <3>2. Moves(v, s, 66 + 2 * k)
      BY ONLY <2>1, <3>1, GraphicsData
    <3> QED BY ONLY <2>3, <3>2
  <2> QED BY ONLY <2>1, <2>2, <2>3
<1>6. CASE n \in 85 .. 147
  <2> DEFINE k == (n - 82) \div 3
  <2>1. k \in 1 .. 21 /\ n \in {82 + 3 * k, 83 + 3 * k, 84 + 3 * k}
    BY ONLY <1>6
  <2> HIDE DEF k
  <2> QED BY ONLY <1>a, <2>1, AttributeSteps
<1>7. CASE n \in {148, 151, 154, 157, 160, 164, 166, 168, 170, 172}
  <2>1. \E g, i : <<n, g, i>> \in
          {<<148, "seq", 4>>, <<151, "gc", 5>>, <<154, "gc", 6>>, <<157, "gc", 4>>,
           <<160, "seq", 2>>, <<164, "seq", 2>>, <<166, "seq", 4>>, <<168, "gc", 4>>,
           <<170, "gc", 5>>, <<172, "gc", 6>>}
    BY <1>7
  <2> QED BY ONLY <1>a, <2>1, FontIndexSteps
<1>8. CASE n \in {149, 152, 155, 158, 161}
  <2>1. \E g, i : <<n, g, i>> \in
          {<<149, "seq", 4>>, <<152, "gc", 5>>, <<155, "gc", 6>>, <<158, "gc", 4>>,
           <<161, "seq", 2>>}
    BY <1>8
  <2> QED BY ONLY <1>a, <2>1, FontSaveSteps
<1>9. CASE n \in {150, 153, 156, 159, 162, 165, 167, 169, 171, 173}
  <2>1. \E g, i, x : <<n, g, i, x>> \in
          {<<150, "seq", 4, 6>>, <<153, "gc", 5, 0>>, <<156, "gc", 6, 12>>,
           <<159, "gc", 4, 2>>, <<162, "seq", 2, 4>>, <<165, "seq", 2, 3>>,
           <<167, "seq", 4, 2>>, <<169, "gc", 4, 0>>, <<171, "gc", 5, 16>>,
           <<173, "gc", 6, 14>>}
    BY <1>9
  <2> QED BY ONLY <1>a, <2>1, FontDataSteps
<1>10. CASE n \in {163, 174}
  BY ONLY <1>a, <1>10, MemorySteps
<1>11. CASE n \in {175, 176}
  BY ONLY <1>a, <1>11, LastSteps
<1> QED BY <1>1, <1>2, <1>3, <1>4, <1>5, <1>6, <1>7, <1>8, <1>9, <1>10, <1>11

(* The invariant of the adapter.                                           *)
AdapterInv == AdapterAt(vga, saved, access)

BlankStep ==
  /\ vga.registers # vga'.registers => ~ vga.unblanked
  /\ vga'.unblanked /\ access > 0 => vga.text = "cleared" /\ vga.font = "8x8"

(* Before the first access, nothing is known of any register.              *)
LEMMA AdapterInit == Init => AdapterInv
<1> SUFFICES ASSUME Init PROVE AdapterInv
  OBVIOUS
<1>1. vga \in AdapterStates /\ access = 0
  BY BiosAssumption DEF Init
<1>2. vga \in Adapters
  <2>1. \A v \in AdapterStates : v \in Adapters
    BY DEF AdapterStates, Adapters, RegisterFiles, Contents
  <2> QED BY <1>1, <2>1
<1>3. SavedAt(saved, 0)
  BY DEF Init, SavedAt, Bytes
<1>4. RegistersAt(vga, 0)
  <2>1. \A group \in Groups : \A r \in RegistersOf(group) : ~ (SetAt(group, r) <= 0)
    BY Settings
  <2> QED BY <2>1 DEF RegistersAt
<1>5. PictureAt(vga, 0) /\ IndexAt(vga, 0)
  BY DEF PictureAt, IndexAt
<1> QED BY <1>1, <1>2, <1>3, <1>4, <1>5 DEF AdapterInv, AdapterAt

(* A step of KernelDisplay_reset().                                        *)
LEMMA AdapterMoves ==
  ASSUME AdapterInv, AccessAdapter
  PROVE  AdapterInv' /\ BlankStep
<1> DEFINE a == Reset[access + 1]
<1>1. /\ ~ DisplayIsUp /\ access' = access + 1
      /\ vga' = Access([vga |-> vga, saved |-> saved], a).vga
      /\ saved' = Access([vga |-> vga, saved |-> saved], a).saved
  BY DEF AccessAdapter
<1> HIDE DEF a
<1>2. access \in 0 .. 176 /\ AdapterAt(vga, saved, access)
  BY <1>1, ResetParts DEF AdapterInv, AdapterAt, DisplayIsUp
<1>3. Moves(vga, saved, access)
  BY ONLY <1>2, EveryStep
<1>4. PICK w, t : /\ Makes(vga, saved, a, w, t) /\ AdapterAt(w, t, access + 1)
                  /\ access < 2 => w.registers = vga.registers
  BY <1>3 DEF Moves, a
<1>5. vga' = w /\ saved' = t
  BY ONLY <1>1, <1>4 DEF Makes
<1>6. AdapterAt(w, t, access + 1) = AdapterInv'
  BY <1>1, <1>5 DEF AdapterInv
<1>7. PictureAt(vga, access) /\ PictureAt(w, access + 1)
  BY <1>2, <1>4 DEF AdapterAt
<1>8. BlankStep
  <2>1. vga.registers # w.registers => ~ vga.unblanked
    BY <1>2, <1>4, <1>7 DEF PictureAt
  <2>2. w.unblanked /\ access > 0 => vga.text = "cleared" /\ vga.font = "8x8"
    BY <1>2, <1>7 DEF PictureAt
  <2> QED BY ONLY <1>5, <2>1, <2>2 DEF BlankStep
<1> QED BY <1>4, <1>6, <1>8

(* When the display is up, the adapter is as it was meant to be.           *)
LEMMA AdapterIsSet ==
  ASSUME AdapterInv
  PROVE  ModeIsSet
<1> SUFFICES ASSUME DisplayIsUp PROVE ModeIsSet
  BY DEF ModeIsSet
<1>1. access = 177 /\ AdapterAt(vga, saved, 177)
  BY ResetParts DEF DisplayIsUp, AdapterInv
<1>2. PictureAt(vga, 177) /\ RegistersAt(vga, 177)
  BY <1>1 DEF AdapterAt
<1>3. ASSUME NEW group \in Groups, NEW r \in RegistersOf(group)
      PROVE  vga.registers[group][r] = Mode[group][r + 1]
  <2>1. SetAt(group, r) <= 177
    BY <1>3, Settings
  <2>2. vga.registers[group][r] = HeldAt(group, r, 177)
    BY <1>2, <1>3, <2>1 DEF RegistersAt
  <2> QED BY <2>2, HeldThen
<1>4. vga.misc = Mode.misc /\ vga.font = "8x8" /\ vga.text = "cleared" /\ vga.unblanked
  BY <1>2 DEF PictureAt
<1> QED BY <1>3, <1>4 DEF ModeIsSet

(* What does not touch the adapter only happens when the display is up.    *)
LEMMA AdapterKept ==
  ASSUME AdapterInv, UNCHANGED deviceVars
  PROVE  AdapterInv' /\ (DisplayIsUp => BlankStep)
<1>1. vga' = vga /\ saved' = saved /\ access' = access
  BY DEF deviceVars
<1>2. DisplayIsUp => vga.text = "cleared" /\ vga.font = "8x8"
  BY AdapterIsSet DEF ModeIsSet
<1> QED BY <1>1, <1>2 DEF AdapterInv, BlankStep

(* Every step of the program.                                              *)
LEMMA AdapterStep == OutInv /\ AdapterInv /\ [Next]_vars => AdapterInv' /\ [BlankStep]_vars
<1> SUFFICES ASSUME OutInv, AdapterInv, [Next]_vars PROVE AdapterInv' /\ [BlankStep]_vars
  OBVIOUS
<1>1. CASE AccessAdapter
  BY <1>1, AdapterMoves
<1>2. CASE UseDisplay
  BY <1>2, AdapterKept DEF UseDisplay, Idle
<1>3. ASSUME NEW which \in {"write", "writeLine"}, Call(which)
      PROVE  AdapterInv' /\ [BlankStep]_vars
  BY <1>3, AdapterKept DEF Call, Idle
<1>4. ASSUME NEW c \in NextChars,
             ReadSpecifier(c) \/ ReadType(c) \/ ReadText(c) \/ ReadEnd(c) \/ ReadMalformed(c)
      PROVE  AdapterInv' /\ [BlankStep]_vars
  <2>1. Read(c)
    BY <1>4 DEF ReadSpecifier, ReadType, ReadText, ReadEnd, ReadMalformed
  <2>2. DisplayIsUp /\ UNCHANGED deviceVars
    BY <2>1, RunningIsUp DEF Read, DisplayIsUp
  <2> QED BY <2>2, AdapterKept
<1>5. CASE UNCHANGED vars
  BY <1>5, AdapterKept DEF vars
<1> QED BY <1>1, <1>2, <1>3, <1>4, <1>5 DEF Next

(* KernelDisplay_reset(): whatever state the BIOS left the adapter in, it  *)
(* ends up in the mode of the table, register by register, with the font   *)
(* in its plane, the text cleared, and the picture on.                     *)
THEOREM ModeIsSetAlways == Spec => []ModeIsSet
<1>1. Init => OutInv /\ AdapterInv
  BY InitEstablishes, AdapterInit
<1>2. OutInv /\ AdapterInv /\ [Next]_vars => OutInv' /\ AdapterInv'
  BY OutStep, AdapterStep
<1>3. AdapterInv => ModeIsSet
  BY AdapterIsSet
<1> QED BY <1>1, <1>2, <1>3, PTL DEF Spec

(* KernelDisplay_reset(): no register changes while there is a picture,    *)
(* and the picture only comes back when there is text and a font to show.  *)
THEOREM BlankMeanwhileAlways == Spec => BlankMeanwhile
<1>1. Init => OutInv /\ AdapterInv
  BY InitEstablishes, AdapterInit
<1>2. OutInv /\ AdapterInv /\ [Next]_vars => OutInv' /\ AdapterInv' /\ [BlankStep]_vars
  BY OutStep, AdapterStep
<1>3. Spec => [][BlankStep]_vars
  BY <1>1, <1>2, PTL DEF Spec
<1> QED BY <1>3 DEF BlankMeanwhile, BlankStep
=============================================================================
