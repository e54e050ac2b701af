------------------------------ MODULE MCCrypto ------------------------------
(***************************************************************************)
(* A small instance of Crypto: two assets, amounts in hundredths.  A plan  *)
(* says what the customer does in one behaviour, so that every pair of     *)
(* conversions is seen, and custody beside one sale, without their product.*)
(***************************************************************************)
EXTENDS Crypto, TLC

CONSTANTS A, B, k1, k2, a1, w1, e1, e2

Quote(bid, ask, fee, available) ==
    [bid |-> bid, ask |-> ask, fee |-> fee, available |-> available]

(* Prices that leave the products between two hundredths. *)
MCMarket ==
    A :> <<Quote(97, 103, 1, 200), Quote(95, 101, 4, 200), Quote(93, 107, 0, 100)>> @@
    B :> <<Quote(45, 51, 2, 300), Quote(49, 53, 2, 300), Quote(33, 67, 3, 900)>>

Working(quoting, failing, half) == [quoting |-> quoting, failing |-> failing, half |-> half]

(* All is well; the best venues fail or fill by half; nobody quotes. *)
MCBehaviours == {Working(Venues, {}, {}), Working({1, 2}, {1}, {2}), Working({}, {}, {})}

Convert(source, destination, amount, flagged) ==
    [source |-> source, destination |-> destination, amount |-> amount, flagged |-> flagged]

Commands(first, second) == k1 :> first @@ k2 :> second

(* Two conversions while cash is spent elsewhere; deposits and             *)
(* withdrawals alone, reconciled; withdrawals beside a sale.               *)
Converting(first, second) ==
    [commands |-> Commands(first, second), addresses |-> {}, deposits |-> {},
     reconciled |-> {}, spending |-> TRUE]

Custodial(first, receiving, reconciling) ==
    [commands |-> Commands(first, None), addresses |-> {a1}, deposits |-> receiving,
     reconciled |-> reconciling, spending |-> FALSE]

MCPlans ==
    {Converting(Convert(A, B, 200, FALSE), Convert("USD", A, 404, FALSE)),
     Converting(Convert(A, "USD", 200, FALSE), Convert(A, B, 200, FALSE)),
     Converting(Convert(A, "USD", 100, TRUE), Convert(A, B, 300, FALSE)),
     Custodial(None, {A}, {A}),
     Custodial(Convert(A, "USD", 200, FALSE), {}, {})}

MCInitialAssets == A :> 400 @@ B :> 0

MCAddressAsset == a1 :> A

Event(id, transaction, quantity, confirmed) ==
    [id |-> id, asset |-> A, transaction |-> transaction, quantity |-> quantity,
     confirmed |-> confirmed]

MCDepositEvents == {Event(e1, "t1", 100, FALSE), Event(e2, "t1", 100, TRUE)}

MCPolicy == "base" :> 1 @@ "device" :> 1 @@ "security" :> 1 @@ "recovery" :> 2 @@ "max" :> 2

MCRiskContexts == {{}, {"device", "recovery"}}
=============================================================================
