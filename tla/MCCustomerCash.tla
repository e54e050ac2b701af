--------------------------- MODULE MCCustomerCash ---------------------------
EXTENDS CustomerCash, TLC

CONSTANTS o1, a1, f1, w1, w2, adm1, adm2

(* One quote, at which the opening cash buys once. *)
MCBid == 0 :> 1
MCAsk == 0 :> 2

(* And a quote later, at which a sale improves on it. *)
LaterBid == <<3>> @@ MCBid
LaterAsk == <<3>> @@ MCAsk

Symmetric == Permutations({w1, w2}) \cup Permutations({adm1, adm2})
=============================================================================
