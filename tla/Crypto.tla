------------------------------- MODULE Crypto -------------------------------
(***************************************************************************)
(* The crypto module of one customer: conversions and custody over the     *)
(* same cash, assets and profile row (internal/crypto).                    *)
(***************************************************************************)
EXTENDS Conversion, Custody

cryptoVars == <<cash, assets, plan, reserving, conversionVars, custodyVars>>

TypeOK == BooksTypeOK /\ ConversionTypeOK /\ CustodyTypeOK

Init == BooksInit /\ ConversionInit /\ CustodyInit

Next ==
    /\ \/ ConversionNext /\ UNCHANGED custodyVars
       \/ CustodyNext /\ UNCHANGED conversionVars
    /\ UNCHANGED plan

Safety == Init /\ [][Next]_cryptoVars

Deliver(w, step) == ApplyWithdrawalEvent(w, step) /\ UNCHANGED <<plan, conversionVars>>

(* The custodian sends an event until it is accepted, and the transaction  *)
(* that holds the profile row ends; those that wait for the row take turns.*)
Spec ==
    /\ Safety
    /\ WF_cryptoVars(CommitReservation /\ UNCHANGED <<plan, custodyVars>>)
    /\ \A w \in Withdrawals, step \in Step : SF_cryptoVars(Deliver(w, step))

-----------------------------------------------------------------------------
(* What the tables say the books should hold *)

FromUSD == {k \in Keys : Created(k) /\ commands[k].source = "USD"}

FromAsset(a) == {k \in Keys : Created(k) /\ commands[k].source = a}

Of(a, status) == {w \in Withdrawals :
    /\ withdrawals[w] # None
    /\ withdrawals[w].status \in status
    /\ AddressAsset[withdrawals[w].address] = a}

Sales == {l \in legs : l.side = "SELL"}

Reviewed == {l \in Sales : conversions[l.key].reviewed}

SecondPurchases == {l \in legs : l.side = "BUY" /\ l.sequence = 2}

(* A reservation is open until its sale is settled, or its purchase, which *)
(* takes what it cost and gives back what the route did not spend.         *)
OpenSale(k) == IF ListLegs(k) = {} THEN commands[k].amount ELSE 0

OpenReservation(k) ==
    IF Routing(k) THEN commands[k].amount
    ELSE commands[k].amount - LegAt(k, 1).final - conversions[k].unspent

HeldCash == SumFunction([k \in FromUSD |-> OpenReservation(k)])

HeldAssets(a) ==
    SumFunction([k \in FromAsset(a) |-> OpenSale(k)])
    + SumFunction([w \in Of(a, {"APPROVED"}) |-> withdrawals[w].quantity])

SettledCash ==
    InitialCash - elsewhere
    - SumFunction([k \in FromUSD |-> commands[k].amount - conversions[k].unspent])
    + Finals(Sales \ Reviewed) - Finals(SecondPurchases)

Sold(k) == IF ListLegs(k) = {} THEN commands[k].amount ELSE LegAt(k, 1).filled

Received(a) == {d \in deposits : d.asset = a /\ d.confirmed}

Bought(a) == {l \in legs : l.side = "BUY" /\ l.asset = a}

SettledAssets(a) ==
    InitialAssets[a]
    + SumFunction([d \in Received(a) |-> d.quantity])
    - SumFunction([w \in Of(a, WithdrawalStatus \ {"FAILED"}) |-> withdrawals[w].quantity])
    - SumFunction([k \in FromAsset(a) |-> Sold(k)])
    + SumFunction([l \in Bought(a) |-> l.filled])

-----------------------------------------------------------------------------
(* Properties *)

(* Every balance is what the conversions, legs, deposits and withdrawals   *)
(* on record add up to, whatever calls raced or died: a leg is settled     *)
(* once, a reservation released once, a failed withdrawal given back once  *)
(* (finalizeSellLeg, finalizeBuyLeg, releaseReservation, ApplyDepositEvent,*)
(* transitionWithdrawalEvent).                                             *)
BooksExplained ==
    /\ cash["HELD"] = HeldCash
    /\ cash["SETTLED"] = SettledCash
    /\ cash["WITHDRAWABLE"] = SettledCash
    /\ cash["FROZEN"] = Finals(Reviewed)
    /\ \A a \in Assets : assets[a] = [settled |-> SettledAssets(a), held |-> HeldAssets(a)]

(* However conversions overlap, the sales that were not reviewed stay      *)
(* below the rolling limit together, and a reviewed sale buys nothing      *)
(* (finalizeSellLeg, SumRecentCryptoToUSD).                                *)
ReviewCap ==
    /\ Finals(Sales \ Reviewed) < RollingLimit
    /\ \A l \in Sales \ Reviewed : l.filled > 0 => l.final < SingleLimit
    /\ \A l \in SecondPurchases : conversions[l.key].reviewed => l.filled = 0

(* Conversions and withdrawals together never use more of an asset than    *)
(* there is.  Cash is not as safe: it can be overdrawn, by no more than    *)
(* other modules spent and purchases took out of the proceeds of a sale    *)
(* without looking at the balance (postBuy).                               *)
NothingOversold ==
    /\ \A a \in Assets : assets[a].settled >= 0 /\ assets[a].held >= 0
    /\ cash["SETTLED"] >= -elsewhere - Finals(SecondPurchases)

(* A withdrawal goes to an address that served its cooling period and that *)
(* no activation blocked, whatever two activations and a request did at    *)
(* the same time (ActivateWithdrawalAddress, RequestWithdrawal).           *)
CoolingServed ==
    \A w \in Withdrawals : withdrawals[w] # None =>
        LET address == addresses[withdrawals[w].address] IN
        /\ address.status = "ACTIVE" /\ address.risk # "BLOCKED"
        /\ withdrawals[w].createdAt >= address.createdAt + address.cooling

(* Half a unit on each of three amounts of a child order, and on two       *)
(* prices for every whole asset in it.                                     *)
RoundingUnits(children) ==
    SumFunction([i \in DOMAIN children |->
                    (3 * One + 2 * children[i].requested) \div (2 * One) + 1])

(* A purchase accounts for its budget: what it paid with all fees and what *)
(* it returns add up to it but for the rounding of each child order, and   *)
(* a route that fails for overrunning its budget overran it by rounding    *)
(* only (Buy, finalize).                                                   *)
RoutesWithinBudget ==
    \A p \in Callers : (calls[p] # None /\ calls[p].at = "BUY" /\ calls[p].budget > 0) =>
        \A b \in Behaviours :
            LET asset  == commands[calls[p].key].destination
                result == Buy(asset, calls[p].budget, b)
            IN  /\ result.unspent >= -RoundingUnits(result.children)
                /\ Magnitude(calls[p].budget - result.unspent - result.final)
                       <= RoundingUnits(result.children)

(* What becomes of a withdrawal at the custodian becomes of it in the      *)
(* books, in whatever order its events arrive and however often            *)
(* (ApplyWithdrawalEvent).                                                 *)
WithdrawalsFollowCustodian ==
    \A w \in Withdrawals, outcome \in {"CONFIRMED", "FAILED"} :
        (outcome \in custodian[w] /\ withdrawals[w] # None)
            ~> (withdrawals[w] # None /\ withdrawals[w].status = outcome)
=============================================================================
