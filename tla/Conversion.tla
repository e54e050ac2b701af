----------------------------- MODULE Conversion -----------------------------
(***************************************************************************)
(* Conversions between USD and crypto assets of one customer:              *)
(* internal/crypto/conversions.go over the queries of                      *)
(* internal/crypto/store/crypto.sql.go.                                    *)
(*                                                                         *)
(* A conversion reserves its source, sells it for USD unless it is USD,    *)
(* and buys the destination unless that is USD.  Routing a leg talks to    *)
(* the venues between two transactions, so a call of Convert is a process: *)
(* it may die at any point, and another call with the same idempotency     *)
(* key, concurrent or later, takes the conversion up where it is.          *)
(*                                                                         *)
(* A conversion is identified with its idempotency key: the request row    *)
(* and the conversion are inserted in one transaction.  The review window  *)
(* of 30 days is longer than a behaviour: every sale is recent.            *)
(***************************************************************************)
EXTENDS CryptoBooks, Router

CONSTANTS
    Keys,         \* idempotency keys
    Callers,      \* concurrent calls of Convert
    Behaviours,   \* external: how the venues may behave on an attempt
    SingleLimit, RollingLimit,  \* the review thresholds of the policy
    SpentElsewhere              \* what other modules may post to the cash account

VARIABLES
    conversions,  \* crypto.conversions
    legs,         \* crypto.legs with their child orders
    calls,        \* the calls of Convert under way
    elsewhere     \* cash the other modules have spent

conversionVars == <<conversions, legs, calls, elsewhere>>

(* The command sent with each key, None if none is. *)
commands == plan.commands

Command == [source : Assets \cup {"USD"}, destination : Assets \cup {"USD"},
            amount : Nat \ {0}, flagged : BOOLEAN]

Status == {"ROUTING", "FILLED", "PARTIALLY_FILLED", "REVIEW_REQUIRED", "FAILED"}

(* unspent is kept in the routing metadata of a purchase; reviewed is the  *)
(* compliance case a conversion points to.                                 *)
Row == [status : Status, unspent : Int, reviewed : BOOLEAN]

ChildOrder == [venue : Venues, requested : Int, filled : Int, gross : Int, venueFee : Int]

Leg == [key : Keys, sequence : 1 .. 2, side : {"SELL", "BUY"}, asset : Assets,
        filled : Int, final : Int, children : Seq(ChildOrder),
        status : {"FILLED", "PARTIALLY_FILLED", "FAILED", "BLOCKED"}]

RouteResult == [filled : Int, final : Int, unspent : Int, children : Seq(ChildOrder),
                status : {"FILLED", "PARTIALLY_FILLED", "FAILED"}]

Call == [at : {"LEGS", "SELL", "SOLD", "BUY", "BOUGHT"}, key : Keys,
         budget : Int, result : RouteResult \cup {None}]

ASSUME ConversionAssumption ==
    /\ IsFiniteSet(Keys) /\ None \notin Keys
    /\ Assets = DOMAIN Market
    /\ Behaviours \subseteq Behaviour
    /\ \A p \in Plans : p.commands \in [Keys -> Command \cup {None}]
    /\ SingleLimit \in Nat \ {0} /\ RollingLimit \in Nat \ {0}
    /\ SpentElsewhere \subseteq Nat
    /\ None \notin Command \cup Row \cup Call

ConversionTypeOK ==
    /\ \A k \in Keys : commands[k] = None \/ commands[k] \in Command
    /\ \A k \in Keys : conversions[k] = None \/ conversions[k] \in Row
    /\ \A l \in legs : l \in Leg
    /\ \A p \in Callers : calls[p] = None \/ calls[p] \in Call
    /\ reserving \in Keys \cup {None}
    /\ elsewhere \in Nat

ConversionInit ==
    /\ conversions = [k \in Keys |-> None]
    /\ legs = {}
    /\ calls = [p \in Callers |-> None]
    /\ elsewhere = 0

-----------------------------------------------------------------------------
(* The queries *)

Created(k) == conversions[k] # None

CreateConversion(k) ==
    conversions' = [conversions EXCEPT ![k] =
        [status |-> "ROUTING", unspent |-> 0, reviewed |-> FALSE]]

Routing(k) == conversions[k].status = "ROUTING"

CompleteConversion(k, status, unspent, reviewed) ==
    conversions' = [conversions EXCEPT ![k] =
        [status |-> status, unspent |-> unspent, reviewed |-> reviewed]]

ListLegs(k) == {l \in legs : l.key = k}

LegAt(k, sequence) == CHOOSE l \in ListLegs(k) : l.sequence = sequence

InsertLegs(rows) == legs' = legs \cup rows

persistRouteResult(k, sequence, side, asset, result) ==
    [key |-> k, sequence |-> sequence, side |-> side, asset |-> asset,
     filled |-> result.filled, final |-> result.final,
     children |-> result.children, status |-> result.status]

Finals(S) == SumFunction([l \in S |-> l.final])

(* Mutant: sales that were filled in part do not count. *)
SumRecentCryptoToUSDFilled ==
    Finals({l \in legs : l.side = "SELL" /\ l.status = "FILLED"})

(* The sales that count towards the rolling review threshold.              *)
SumRecentCryptoToUSD ==
    Finals({l \in legs : l.side = "SELL" /\ l.status \in {"FILLED", "PARTIALLY_FILLED"}})

-----------------------------------------------------------------------------
(* Reserving the source *)

Enter(p, k, step, budget) ==
    calls' = [calls EXCEPT ![p] = [at |-> step, key |-> k, budget |-> budget, result |-> None]]

Return(p) == calls' = [calls EXCEPT ![p] = None]

CashCovers(amount) ==
    cash["SETTLED"] >= amount /\ cash["WITHDRAWABLE"] >= amount

(* USD is reserved in two steps: the other modules post to the account     *)
(* between the check and the posting, the profile row does not stop them.  *)
BeginReservation(p, k) ==
    /\ ProfileFree /\ calls[p] = None
    /\ commands[k] # None /\ commands[k].source = "USD" /\ ~Created(k)
    /\ CashCovers(commands[k].amount)
    /\ reserving' = k
    /\ Enter(p, k, "LEGS", 0)
    /\ UNCHANGED <<cash, assets, conversions, legs, elsewhere>>

CommitReservation ==
    /\ reserving # None
    /\ LET amount == commands[reserving].amount
       IN  cash' = Post(cash, [SETTLED |-> -amount, WITHDRAWABLE |-> -amount, HELD |-> amount])
    /\ CreateConversion(reserving)
    /\ reserving' = None
    /\ UNCHANGED <<assets, legs, calls, elsewhere>>

ReserveAsset(p, k) ==
    /\ ProfileFree /\ calls[p] = None
    /\ commands[k] # None /\ commands[k].source # "USD" /\ ~Created(k)
    /\ AssetCovers(commands[k].source, commands[k].amount)
    /\ PostAsset(commands[k].source, -commands[k].amount, commands[k].amount)
    /\ CreateConversion(k)
    /\ Enter(p, k, "LEGS", 0)
    /\ UNCHANGED <<cash, reserving, legs, elsewhere>>

(* The same key again: a conversion that is still routing is taken up.     *)
Replay(p, k) ==
    /\ calls[p] = None
    /\ Created(k) /\ Routing(k)
    /\ Enter(p, k, "LEGS", 0)
    /\ UNCHANGED <<cash, assets, reserving, conversions, legs, elsewhere>>

-----------------------------------------------------------------------------
(* Routing *)

(* What a call does next once the sale is behind it.  The USD of a         *)
(* purchase are the reservation or what the sale brought.                  *)
TowardsPurchase(p, k) ==
    IF commands[k].destination = "USD" THEN Return(p)
    ELSE Enter(p, k, "BUY", IF commands[k].source = "USD" THEN commands[k].amount
                            ELSE LegAt(k, 1).final)

ReadProgress(p) ==
    LET k == calls[p].key IN
    /\ calls[p] # None /\ calls[p].at = "LEGS" /\ Created(k)
    /\ IF commands[k].source # "USD" /\ ListLegs(k) = {}
       THEN Enter(p, k, "SELL", commands[k].amount)
       ELSE TowardsPurchase(p, k)
    /\ UNCHANGED <<cash, assets, reserving, conversions, legs, elsewhere>>

(* Mutant: an error of the router is carried on like a result. *)
RoutedAnyway(p, step, result) ==
    calls' = [calls EXCEPT ![p].at = step, ![p].result = result]

(* The venues execute; an error of the router ends the call and leaves the *)
(* conversion as it is.  Buy refuses a budget that is not positive.        *)
Routed(p, step, result) ==
    IF result.status = "ERROR" THEN Return(p)
    ELSE calls' = [calls EXCEPT ![p].at = step, ![p].result = result]

RouteSell(p) ==
    /\ calls[p] # None /\ calls[p].at = "SELL"
    /\ \E b \in Behaviours :
           Routed(p, "SOLD", Sell(commands[calls[p].key].source, calls[p].budget, b))
    /\ UNCHANGED <<cash, assets, reserving, conversions, legs, elsewhere>>

RouteBuy(p) ==
    /\ calls[p] # None /\ calls[p].at = "BUY"
    /\ \/ calls[p].budget <= 0 /\ Return(p)
       \/ /\ calls[p].budget > 0
          /\ \E b \in Behaviours :
                 Routed(p, "BOUGHT", Buy(commands[calls[p].key].destination, calls[p].budget, b))
    /\ UNCHANGED <<cash, assets, reserving, conversions, legs, elsewhere>>

-----------------------------------------------------------------------------
(* Settling the sale *)

NeedsReview(command, result) ==
    /\ result.filled > 0
    /\ \/ command.flagged
       \/ result.final >= SingleLimit
       \/ SumRecentCryptoToUSD + result.final >= RollingLimit

(* What the sale left of its reservation. *)
releaseReservation(k, result) == commands[k].amount - result.filled

(* The proceeds of a sale under review are frozen, and the purchase they   *)
(* were meant for is recorded as blocked.                                  *)
postSell(k, result, review) ==
    /\ cash' = Post(cash, IF review THEN [FROZEN |-> result.final]
                                    ELSE SettledEntries(result.final))
    /\ PostAsset(commands[k].source,
                 releaseReservation(k, result),
                 -commands[k].amount)

BlockedResult == [filled |-> 0, final |-> 0, children |-> <<>>, status |-> "BLOCKED"]

SaleLegs(k, result, review) ==
    {persistRouteResult(k, 1, "SELL", commands[k].source, result)}
    \cup IF review /\ commands[k].destination # "USD"
         THEN {persistRouteResult(k, 2, "BUY", commands[k].destination, BlockedResult)}
         ELSE {}

SettleFirstSale(p, k, result) ==
    LET review   == NeedsReview(commands[k], result)
        finished == commands[k].destination = "USD" \/ result.status = "FAILED" \/ review
    IN  /\ postSell(k, result, review)
        /\ InsertLegs(SaleLegs(k, result, review))
        /\ IF finished
           THEN /\ CompleteConversion(k, IF review THEN "REVIEW_REQUIRED" ELSE result.status,
                                      0, review)
                /\ Return(p)
           ELSE /\ conversions' = conversions
                /\ Enter(p, k, "BUY", result.final)

(* Mutant: a sale is settled without reading what has become of it. *)
finalizeSellLegUnread(p) ==
    /\ ProfileFree
    /\ calls[p] # None /\ calls[p].at = "SOLD"
    /\ SettleFirstSale(p, calls[p].key, calls[p].result)
    /\ UNCHANGED <<reserving, elsewhere>>

finalizeSellLeg(p) ==
    LET k == calls[p].key IN
    /\ ProfileFree
    /\ calls[p] # None /\ calls[p].at = "SOLD"
    /\ \/ /\ Routing(k) /\ ListLegs(k) = {}
          /\ SettleFirstSale(p, k, calls[p].result)
       \/ /\ Routing(k) /\ ListLegs(k) # {}
          /\ TowardsPurchase(p, k)
          /\ UNCHANGED <<cash, assets, conversions, legs>>
       \/ /\ ~Routing(k)
          /\ Return(p)
          /\ UNCHANGED <<cash, assets, conversions, legs>>
    /\ UNCHANGED <<reserving, elsewhere>>

-----------------------------------------------------------------------------
(* Settling the purchase *)

(* A purchase out of the reservation is paid from held cash and releases   *)
(* what it did not spend; one out of a sale is paid from settled cash,     *)
(* whatever has become of the proceeds.                                    *)
postBuy(k, result) ==
    /\ cash' = Post(cash,
           IF commands[k].source # "USD" THEN SettledEntries(-result.final)
           ELSE [HELD         |-> -result.final - result.unspent,
                 SETTLED      |-> result.unspent,
                 WITHDRAWABLE |-> result.unspent])
    /\ PostAsset(commands[k].destination, result.filled, 0)

(* A conversion whose sale was partial is partial, however well it bought. *)
PurchaseStatus(k, sequence, result) ==
    IF /\ sequence = 2 /\ result.status = "FILLED"
       /\ \E l \in ListLegs(k) : l.sequence = 1 /\ l.status = "PARTIALLY_FILLED"
    THEN "PARTIALLY_FILLED" ELSE result.status

finalizeBuyLeg(p) ==
    LET k        == calls[p].key
        result   == calls[p].result
        sequence == IF commands[k].source = "USD" THEN 1 ELSE 2
        settled  == \E l \in ListLegs(k) : l.sequence = sequence
    IN  /\ ProfileFree
        /\ calls[p] # None /\ calls[p].at = "BOUGHT"
        /\ \/ /\ Routing(k) /\ ~settled
              /\ postBuy(k, result)
              /\ InsertLegs({persistRouteResult(k, sequence, "BUY", commands[k].destination, result)})
              /\ CompleteConversion(k, PurchaseStatus(k, sequence, result), result.unspent, FALSE)
           \/ /\ ~Routing(k) \/ settled
              /\ UNCHANGED <<cash, assets, legs, conversions>>
        /\ Return(p)
        /\ UNCHANGED <<reserving, elsewhere>>

-----------------------------------------------------------------------------
(* The call is cut off: its context ends or the process dies.  Its         *)
(* transaction, if it has one open, is rolled back.                        *)
CutOff(p) ==
    /\ calls[p] # None
    /\ Return(p)
    /\ reserving' = IF calls[p].at = "LEGS" /\ reserving = calls[p].key THEN None ELSE reserving
    /\ UNCHANGED <<cash, assets, conversions, legs, elsewhere>>

(* External: securities, banking or card spend the customer's cash.        *)
SpendElsewhere(amount) ==
    /\ elsewhere = 0 /\ plan.spending
    /\ cash["SETTLED"] >= amount
    /\ cash' = Post(cash, SettledEntries(-amount))
    /\ elsewhere' = amount
    /\ UNCHANGED <<assets, reserving, conversions, legs, calls>>

ConversionNext ==
    \/ \E p \in Callers, k \in Keys :
          BeginReservation(p, k) \/ ReserveAsset(p, k) \/ Replay(p, k)
    \/ CommitReservation
    \/ \E p \in Callers :
          \/ ReadProgress(p) \/ RouteSell(p) \/ finalizeSellLeg(p)
          \/ RouteBuy(p) \/ finalizeBuyLeg(p) \/ CutOff(p)
    \/ \E amount \in SpentElsewhere : SpendElsewhere(amount)
=============================================================================
