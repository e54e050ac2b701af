------------------------------- MODULE MCCard -------------------------------
EXTENDS Card, TLC

CONSTANTS v1, v2, a1, a2, x1, x2, d1, d2, s1, s2

(* A purchase elsewhere spends settled cash, a withdrawal holds some.      *)
MCCashMoves ==
    {[SETTLED |-> -2, WITHDRAWABLE |-> -2]}

(* Cards and amounts apart, the instance has two of everything that races. *)
Interchangeable == 
    Permutations({v1, v2}) \cup Permutations({a1, a2}) \cup Permutations({x1, x2})
=============================================================================
