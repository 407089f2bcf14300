-------------------------------- MODULE Words --------------------------------
(***************************************************************************)
(* Machine words of WordBits bits (32 in the code), each the natural       *)
(* number of its bit pattern: the conversions and the bitwise operations   *)
(* that the arithmetic of the simulator and of the RTL is written with.    *)
(***************************************************************************)
EXTENDS Integers, FiniteSetsExt

CONSTANT WordBits     \* 32 in the code

ASSUME WordAssumption == WordBits \in Nat \ {0, 1}

WordSize == 2^WordBits
Word     == 0 .. WordSize - 1

(* Conversion of a mathematical integer to uint32_t. *)
Wrap(n) == n % WordSize

(* Conversion of a word to int32_t. *)
Signed(v) == IF 2 * v >= WordSize THEN v - WordSize ELSE v

Bit(v, k) == (v \div 2^k) % 2

(* The word whose k-th bit is f of the k-th bits of a and b. *)
BitMap(f(_, _), a, b) ==
  MapThenSumSet(LAMBDA k : f(Bit(a, k), Bit(b, k)) * 2^k, 0 .. WordBits - 1)

BitAnd(a, b) == BitMap(LAMBDA x, y : x * y, a, b)
BitOr(a, b)  == BitMap(LAMBDA x, y : x + y - x * y, a, b)
BitXor(a, b) == BitMap(LAMBDA x, y : (x + y) % 2, a, b)

(* The 5-bit shift amount "& 0x1F". *)
ShiftAmount(n) == n % WordBits
=============================================================================
