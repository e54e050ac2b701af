------------------------------ MODULE Decimal ------------------------------
(***************************************************************************)
(* Fixed-point arithmetic of internal/money: a Decimal is an integer       *)
(* scaled by 10^18, and a product or quotient is rounded by an explicit    *)
(* policy.  One stands for 10^18, so that TLC can use a coarser scale.     *)
(* The 38-digit limit of a coefficient is left out: no amount comes near.  *)
(***************************************************************************)
EXTENDS Rounding

CONSTANT One

ASSUME OneAssumption == One \in Nat \ {0}

(* Round, Multiply and Divide keep the digits that are multiples of unit,  *)
(* which is 1 for a policy of 18 places.                                   *)
Round(d, unit, mode) == unit * roundRatio(d, unit, mode)

Multiply(d, other, unit, mode) == unit * roundRatio(d * other, One * unit, mode)

Divide(d, other, unit, mode) == unit * roundRatio(d * One, other * unit, mode)
=============================================================================
