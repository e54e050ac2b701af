----------------------------- MODULE MCRwaAdmin -----------------------------
(***************************************************************************)
(* A small instance of RwaAdmin: two assets, two customers, who have also  *)
(* registered one address of the chain each, and one kind of activity      *)
(* beside the mints in each behaviour.                                     *)
(***************************************************************************)
EXTENDS RwaAdmin, TLC

CONSTANTS A, B, x1, x2, x3, chain1, chain2, l1, l2, c1, c2, d1, d2

MCAddressOwner == x1 :> c1 @@ x2 :> c1 @@ x3 :> c2
MCChainAddress == x1 :> chain1 @@ x2 :> chain2 @@ x3 :> chain1
MCLotOwner == l1 :> c1 @@ l2 :> c2
MCLotAsset == l1 :> A @@ l2 :> A
MCLotSize  == l1 :> 1 @@ l2 :> 3

Plan(registered, minted, announced, reconciled) ==
    [addresses |-> registered, lots |-> minted, dividends |-> announced,
     reconciled |-> reconciled]

Addressing == Plan({x1, x2}, {l1}, {}, {})
Sharing    == Plan({x1, x3}, {l2}, {}, {})
Paying     == Plan({}, {l1, l2}, {d1, d2}, {})
Comparing  == Plan({}, {l1}, {}, {A})

MCPlans      == {Addressing, Sharing, Paying, Comparing}
OnlyCompared == {Comparing}
=============================================================================
