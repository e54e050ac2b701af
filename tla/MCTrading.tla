----------------------------- MODULE MCTrading ------------------------------
EXTENDS Trading, TLC

CONSTANTS o1, o2, o3, r1

(* A replay in which the market dips and then rises above its first quote: *)
(* buys and sells of limit 2 or 3 rest at some quote and fill at another.  *)
MCBid == <<1, 3>> @@ (0 :> 2)
MCAsk == <<2, 4>> @@ (0 :> 3)
=============================================================================
