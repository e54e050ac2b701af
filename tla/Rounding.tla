------------------------------ MODULE Rounding ------------------------------
(***************************************************************************)
(* Explicit rounding of internal/money: the digits that a policy drops     *)
(* round the magnitude of a quotient, and the sign is put back.            *)
(***************************************************************************)
EXTENDS Integers

RoundingMode == {"TOWARD_ZERO", "AWAY_FROM_ZERO", "HALF_EVEN", "HALF_AWAY_FROM_ZERO"}

shouldRoundUp(quotient, remainder, divisor, mode) ==
    /\ remainder # 0
    /\ \/ mode = "AWAY_FROM_ZERO"
       \/ /\ mode = "HALF_AWAY_FROM_ZERO"
          /\ 2 * remainder >= divisor
       \/ /\ mode = "HALF_EVEN"
          /\ \/ 2 * remainder > divisor
             \/ 2 * remainder = divisor /\ quotient % 2 = 1

Magnitude(n) == IF n < 0 THEN -n ELSE n

(* The magnitude is rounded and the sign put back. *)
roundRatio(numerator, denominator, mode) ==
    LET divisor   == Magnitude(denominator)
        quotient  == Magnitude(numerator) \div divisor
        remainder == Magnitude(numerator) % divisor
        rounded   == IF shouldRoundUp(quotient, remainder, divisor, mode)
                     THEN quotient + 1 ELSE quotient
    IN  IF (numerator < 0) # (denominator < 0) THEN -rounded ELSE rounded
=============================================================================
