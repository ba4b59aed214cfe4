---------------------------- MODULE WideProduct -----------------------------
(***************************************************************************)
(* src/wasm_runtime_core.cpp: umul64wide and __multi3, the product of two  *)
(* 128-bit integers that the compiler calls for, put together from 64-bit  *)
(* ones whose every sum and product wraps.                                 *)
(*                                                                         *)
(* Half is 2^32 in the code: a uint32_t is below Half, a uint64_t below    *)
(* Half^2, an unsigned __int128 below Half^4.                              *)
(***************************************************************************)
EXTENDS Integers

CONSTANTS
  Half,    (* the values of a uint32_t                 *)
  Operands (* the unsigned values of the operands      *)

Word64 == Half * Half

Wraps(n) == n % Word64
Low(n)   == n % Half    \* static_cast<uint32_t>
High(n)  == n \div Half \* n >> 32

ASSUME HalfAssumption == Half \in Nat \ {0}
ASSUME OperandsAssumption == Operands \subseteq 0 .. Word64 * Word64 - 1

VARIABLES left, right, product

productVars == <<left, right, product>>

-----------------------------------------------------------------------------

(* Faulty variants: the sum of the middle terms is kept in 32 bits, and    *)
(* its carry is left out.                                                  *)
MiddleInHalf(p0, p1, p2) == Low(High(p0) + Low(p1) + Low(p2))

Middle(p0, p1, p2) == Wraps(High(p0) + Low(p1) + Low(p2))

(* umul64wide: the product of two words as a high and a low word.          *)
Umul64Wide(l, r) ==
  LET p0     == Wraps(Low(l) * Low(r))
      p1     == Wraps(Low(l) * High(r))
      p2     == Wraps(High(l) * Low(r))
      p3     == Wraps(High(l) * High(r))
      middle == Middle(p0, p1, p2)
  IN [low  |-> Wraps(middle * Half) + Low(p0),
      high |-> Wraps(p3 + High(p1) + High(p2) + High(middle))]

(* Faulty variant: forgets one of the cross products.                      *)
ResultHighOneSided(wide, leftHigh, leftLow, rightHigh, rightLow) ==
  Wraps(wide.high + Wraps(leftHigh * rightLow))

ResultHigh(wide, leftHigh, leftLow, rightHigh, rightLow) ==
  Wraps(wide.high + Wraps(leftHigh * rightLow) + Wraps(leftLow * rightHigh))

(* __multi3, on the unsigned values of its operands. *)
Multi3(l, r) ==
  LET wide == Umul64Wide(Wraps(l), Wraps(r))
  IN ResultHigh(wide, l \div Word64, Wraps(l), r \div Word64, Wraps(r)) * Word64
       + wide.low

-----------------------------------------------------------------------------

None == -1

ProductInit ==
  /\ left \in Operands
  /\ right \in Operands
  /\ product = None

Multiply ==
  /\ product = None
  /\ product' = Multi3(left, right)
  /\ UNCHANGED <<left, right>>

-----------------------------------------------------------------------------
(* Properties. *)

(* An __int128, whose upper half of values are the negative numbers.       *)
Signed(n) == IF 2 * n < Word64 * Word64 THEN n ELSE n - Word64 * Word64

(* No carry is lost between the partial products: as unsigned and as       *)
(* signed numbers, the result is the product modulo 2^128.                 *)
ProductIsExact ==
  product # None =>
    /\ product = (left * right) % (Word64 * Word64)
    /\ product = (Signed(left) * Signed(right)) % (Word64 * Word64)
=============================================================================
