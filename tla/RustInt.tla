------------------------------ MODULE RustInt ------------------------------
(***************************************************************************)
(* Rust's fixed-width unsigned integers and the Result type, as the        *)
(* pricing crate uses them.  The widths are constants: the theorems hold   *)
(* for 64 and 128 bits, the configurations scale them down.                *)
(***************************************************************************)
EXTENDS Integers

CONSTANTS
    U64Max,     \* u64::MAX
    U128Max     \* u128::MAX

\* u128 is at least twice as wide as u64: a product of two u64 fits.
ASSUME WidthAssumption ==
    /\ U64Max \in Nat \ {0}
    /\ U128Max \in Nat \ {0}
    /\ U64Max * U64Max + U64Max <= U128Max

U64 == 0..U64Max
U128 == 0..U128Max

\* A Result: the value, or the name of the error variant.
Ok(v) == [ok |-> TRUE, val |-> v, err |-> "none"]
Err(e) == [ok |-> FALSE, val |-> 0, err |-> e]

Overflow == Err("MathOverflow")

\* a.checked_mul(b).is_some() for u128, stated without forming the product.
MulFits(a, b) == b = 0 \/ a <= U128Max \div b

\* u128 -> u64 by try_into, the failure mapped to MathOverflow.
Narrow(v) == IF v \in U64 THEN Ok(v) ELSE Overflow

\* checked_add of two u64.
CheckedAdd(a, b) == Narrow(a + b)

SatSub(a, b) == IF a >= b THEN a - b ELSE 0

\* saturating_mul of two u64, and of two u128.
SatMul64(a, b) == IF b = 0 \/ a <= U64Max \div b THEN a * b ELSE U64Max
SatMul128(a, b) == IF MulFits(a, b) THEN a * b ELSE U128Max

\* A value the code holds in a u128; what does not fit is held at the maximum.
Clamp128(v) == IF v \in U128 THEN v ELSE U128Max

Lesser(a, b) == IF a <= b THEN a ELSE b
Greater(a, b) == IF a >= b THEN a ELSE b

CeilDiv(a, b) == (a + b - 1) \div b
=============================================================================
