-------------------------------- MODULE CInt --------------------------------
(***************************************************************************)
(* The fixed-width integers the program computes with, on its only         *)
(* platform (64-bit Linux): int and uint32_t have 32 bits, std::size_t and *)
(* uint64_t have 64.  The moduli are constants so that TLC meets the edges *)
(* of a width on small numbers.                                            *)
(***************************************************************************)
EXTENDS Integers

CONSTANTS
  U32Mod,  \* 2^32 in the program
  U64Mod   \* 2^64 in the program

ASSUME WidthAssumption ==
  /\ U32Mod \in Nat \ {0} /\ U64Mod \in Nat \ {0}
  /\ U32Mod % 2 = 0
  /\ U64Mod % U32Mod = 0

ToU32(x) == x % U32Mod
ToU64(x) == x % U64Mod

\* Conversion to int: two's complement.
ToInt(x) ==
  LET low == x % U32Mod
  IN  IF low < U32Mod \div 2 THEN low ELSE low - U32Mod
=============================================================================
