------------------------------ MODULE TextWriter ------------------------------
(***************************************************************************)
(* TextWriter.c: the characters that a TextWriter sends to its stream for  *)
(* a value, as operators on the settings of the writer.  Characters are    *)
(* strings of length 1, and "NUL", "LF", "TAB", "SP".  Integers have fewer *)
(* digits than the processor's, so that all of them are within reach.      *)
(***************************************************************************)
EXTENDS Integers, Sequences

CONSTANT HexDigits      \* hexadecimal digits of an integer of each type:
                        \*   sizeof() * HEX_DIGITS_PER_BYTE

Types == {"int8", "int16", "int32", "intptr"}

ASSUME HexDigitsAssumption ==
  /\ HexDigits \in [Types -> 1 .. 8]      \* of the processor's integers, 8
  /\ \A type \in Types : HexDigits[type] <= HexDigits["intptr"]

Digits == <<"0", "1", "2", "3", "4", "5", "6", "7", "8", "9", "A", "B", "C", "D", "E", "F">>

Wrap(type) == 16^HexDigits[type]    \* values of the type, modulo

(* TextWriter_create()                                                     *)
NewWriter == [hexMode |-> FALSE, width |-> 0, leftAlign |-> FALSE]

Spaces(n) == [k \in 1 .. (IF n < 0 THEN 0 ELSE n) |-> "SP"]

WriteString(writer, str) ==
  LET padding == Spaces(writer.width - Len(str)) IN
  IF writer.leftAlign THEN str \o padding ELSE padding \o str

(* Every character is one, control characters and '\0' included.           *)
WriteChar(writer, c) == WriteString(writer, <<c>>)

(* The lowest numDigits digits of the integer, the last one first.         *)
WriteHex(writer, i, numDigits) ==
  WriteString(writer, <<"0", "x">> \o
    [k \in 1 .. numDigits |-> Digits[((i \div 16^(numDigits - k)) % 16) + 1]])

NumDigits(i) == CHOOSE n \in 1 .. 10 : i < 10^n /\ \A m \in 1 .. n - 1 : 10^m <= i

WriteDecimal(writer, i, isNegative) ==
  LET n == NumDigits(i) IN
  WriteString(writer, (IF isNegative THEN <<"-">> ELSE << >>) \o
    [k \in 1 .. n |-> Digits[((i \div 10^(n - k)) % 10) + 1]])

(* A signed integer of a type: its bits, and what they mean.               *)
Signed(i, type) ==
  LET bits == i % Wrap(type) IN IF bits < Wrap(type) \div 2 THEN bits ELSE bits - Wrap(type)

(* KMath_abs(): the smallest integer is its own, which as an unsigned      *)
(* integer is its absolute value all the same.                             *)
Abs(i) == IF i < 0 THEN -i ELSE i

(* writeInt8() to writeIntPtr(); integers are widened with their sign.     *)
WriteInt(writer, i, type) ==
  IF writer.hexMode
    THEN WriteHex(writer, Signed(i, type) % Wrap("intptr"), HexDigits[type])
    ELSE WriteDecimal(writer, Abs(Signed(i, type)), Signed(i, type) < 0)

(* writeUInt8() to writeUIntPtr()                                          *)
WriteUInt(writer, i, type) ==
  IF writer.hexMode THEN WriteHex(writer, i % Wrap(type), HexDigits[type])
                    ELSE WriteDecimal(writer, i % Wrap(type), FALSE)

WritePointer(writer, p) == WriteHex(writer, p, HexDigits["intptr"])
=============================================================================
