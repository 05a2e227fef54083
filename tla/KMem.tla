--------------------------------- MODULE KMem ---------------------------------
(***************************************************************************)
(* KMem.h: bits of bytes and alignment of integers.  The variants for 16   *)
(* and 32 bits and for pointers differ in their types only.                *)
(***************************************************************************)
EXTENDS Integers

(* 1 << bit                                                                *)
OneShifted[bit \in 0 .. 7] == IF bit = 0 THEN 1 ELSE 2 * OneShifted[bit - 1]

(* KMem_isBitSet8() and its kin                                            *)
IsBitSet(value, bit) == (value \div OneShifted[bit]) % 2 = 1

BitSet(value, bit)   == IF IsBitSet(value, bit) THEN value ELSE value + OneShifted[bit]
BitClear(value, bit) == IF IsBitSet(value, bit) THEN value - OneShifted[bit] ELSE value

(* Alignments are powers of two, or 0 and 1, which nothing violates.       *)
IsAligned(value, alignment) == alignment > 1 => (value % alignment) = 0

(* Rounds up, in integers that wrap.                                       *)
MakeAligned(value, alignment, wrap) ==
  IF IsAligned(value, alignment)
    THEN value
    ELSE (value + alignment - (value % alignment)) % wrap
=============================================================================
