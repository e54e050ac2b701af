------------------------------ MODULE MCLedger ------------------------------
(* Two callers; a provider event that is delivered twice under two keys, and *)
(* once with another payload; a key that is reused; reversals of everything, *)
(* reversals included.                                                       *)
EXTENDS Ledger, TLC

CONSTANTS k1, k2, k3, t1, t2, t3, e1, c1, c2

Request_(k, e, pl, a, b) ==
    [key |-> k, event |-> e, payload |-> pl, original |-> NoTx,
     change |-> (a :> -1) @@ (b :> 1)]

Deposit   == Request_(k1, e1, "settled", "clearing", "customer")
Redeliver == Request_(k2, e1, "settled", "clearing", "customer")
Altered   == Request_(k2, e1, "returned", "customer", "clearing")
Reused    == Request_(k1, NoEvent, NoEvent, "customer", "clearing")

Posts    == {Deposit, Redeliver, Altered, Reused}
Accounts == {"clearing", "customer"}

Symmetric == Permutations({t1, t2, t3}) \cup Permutations({c1, c2})
=============================================================================
