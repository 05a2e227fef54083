-------------------------------- MODULE MCKOut --------------------------------
(***************************************************************************)
(* The screen has three lines of three characters, and as in the code the  *)
(* buffer is as large.  A byte, a short and a word have one, two and three *)
(* hexadecimal digits.                                                     *)
(***************************************************************************)
EXTENDS KOut

MCHexDigits == [int8 |-> 1, int16 |-> 2, int32 |-> 3, intptr |-> 3]
MCStrings   == {<< >>, <<"s", "t">>}
MCObject    == <<"o">>

(* Every mode, represented by its extremes.                                *)
MCLeftByBios ==
  { [misc      |-> fill,
     index     |-> [group \in Groups |-> fill],
     registers |-> [group \in Groups |-> [r \in RegistersOf(group) |-> fill]],
     acData    |-> flipFlop,
     unblanked |-> TRUE,
     font      |-> "none",
     text      |-> "none"]
    : fill \in {0, 255}, flipFlop \in BOOLEAN }
=============================================================================
