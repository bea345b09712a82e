------------------------------ MODULE Unsigned ------------------------------
(***************************************************************************)
(* u128 arithmetic as the pallets use it.  A checked_ operation followed   *)
(* by unwrap panics outside the type, and a panicking call changes         *)
(* nothing: the callers write it as a guard.  A plain + or - panics there  *)
(* in a build with overflow checks (cargo test) and wraps around in one    *)
(* without (cargo build --release).                                        *)
(***************************************************************************)
EXTENDS Integers

CONSTANTS
  U128,                   \* 2^128 in the code
  OverflowChecks          \* FALSE for a --release build, TRUE for a debug one

ASSUME WordAssumption ==
  /\ U128 \in Nat \ {0}
  /\ OverflowChecks \in BOOLEAN

Number == 0 .. U128 - 1

AddDefined(a, b) == OverflowChecks => a + b < U128

Add_M(a, b) == a + b

Add(a, b) == IF a + b < U128 THEN a + b ELSE a + b - U128

SubDefined(a, b) == OverflowChecks => a >= b

Sub_M(a, b) == a - b

Sub(a, b) == IF a >= b THEN a - b ELSE a - b + U128

=============================================================================
