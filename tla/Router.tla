------------------------------- MODULE Router -------------------------------
(***************************************************************************)
(* The routing of one leg over the three USD venues:                       *)
(* internal/crypto/router/router.go with the simulated venues of           *)
(* internal/crypto/provider/local.go.  Pure operators: what a venue        *)
(* answers on one attempt is a parameter, the behaviour.                   *)
(*                                                                         *)
(* Left out: the average and reference prices and the price improvement,   *)
(* which are stored and read by nobody.                                    *)
(***************************************************************************)
EXTENDS Decimal, Sequences, FiniteSets, Functions

CONSTANTS
    Market,          \* Market[asset][venue]: what a venue quotes
    PlatformFeeRate,
    CompletionDust   \* 0.000001

(* New refuses to route over any other number of venues. *)
Venues == 1 .. 3

VenueQuote == [bid : Nat, ask : Nat, fee : 0 .. One, available : Nat]

(* New and a check of crypto.policies bound the platform's fee; that a     *)
(* venue does not charge more than it trades is a venue's part.            *)
ASSUME RouterAssumption ==
    /\ \A asset \in DOMAIN Market : Market[asset] \in [Venues -> VenueQuote]
    /\ PlatformFeeRate \in 0 .. One - 1
    /\ CompletionDust \in Nat

(* A behaviour of the venues: those that quote in time and are fresh,      *)
(* those that fail the order afterwards, those that fill half of it.       *)
Behaviour == [quoting : SUBSET Venues, failing : SUBSET Venues, half : SUBSET Venues]

calculation(x, y) == Multiply(x, y, 1, "HALF_EVEN")

effectivePrice(side, quote) ==
    IF side = "BUY" THEN quote.ask + calculation(quote.ask, quote.fee)
                    ELSE quote.bid - calculation(quote.bid, quote.fee)

(* Best price first, ties by venue. *)
Better(asset, side, v, w) ==
    LET pv == effectivePrice(side, Market[asset][v])
        pw == effectivePrice(side, Market[asset][w])
    IN  \/ IF side = "BUY" THEN pv < pw ELSE pv > pw
        \/ pv = pw /\ v < w

Candidates(asset, side, behaviour) ==
    {v \in behaviour.quoting : effectivePrice(side, Market[asset][v]) > 0}

quotes(asset, side, behaviour) ==
    LET S == Candidates(asset, side, behaviour)
    IN  CHOOSE ranking \in [1 .. Cardinality(S) -> S] :
            \A i, j \in DOMAIN ranking : i < j => Better(asset, side, ranking[i], ranking[j])

(* The venue's part: an order fills, fills by half, or fails. *)
Execute(venue, quantity, behaviour) ==
    IF venue \in behaviour.failing THEN 0
    ELSE IF venue \in behaviour.half THEN Divide(quantity, 2 * One, 1, "TOWARD_ZERO")
    ELSE quantity

minimum(left, right) == IF left <= right THEN left ELSE right

execute(asset, side, venue, quantity, behaviour) ==
    LET quote == Market[asset][venue]
        gross == calculation(Execute(venue, quantity, behaviour),
                             IF side = "BUY" THEN quote.ask ELSE quote.bid)
    IN  [venue |-> venue, requested |-> quantity,
         filled |-> Execute(venue, quantity, behaviour),
         gross |-> gross, venueFee |-> calculation(gross, quote.fee)]

(* What a route has done so far; remaining is what is left of its input.   *)
Start(input) ==
    [remaining |-> input, filled |-> 0, gross |-> 0, venueFee |-> 0, children |-> <<>>]

addChildTotals(route, child, used) ==
    [remaining |-> route.remaining - used,
     filled    |-> route.filled + child.filled,
     gross     |-> route.gross + child.gross,
     venueFee  |-> route.venueFee + child.venueFee,
     children  |-> Append(route.children, child)]

(* The loop of Sell: a venue gets what remains, up to what it offers. *)
SellAt(asset, behaviour, route, venue) ==
    LET child == execute(asset, "SELL", venue,
                         minimum(route.remaining, Market[asset][venue].available), behaviour)
    IN  IF route.remaining <= 0 THEN route
        ELSE addChildTotals(route, child, child.filled)

(* The loop of Buy: a venue gets what the remaining budget affords at its  *)
(* price with both fees; what it executed is charged to the budget.        *)
affordable(asset, venue, budget) ==
    Divide(budget, effectivePrice("BUY", Market[asset][venue])
                   + calculation(Market[asset][venue].ask, PlatformFeeRate), 1, "TOWARD_ZERO")

(* Mutant: the platform fee is not charged to the budget. *)
childCostUncharged(child) == child.gross + child.venueFee

childCost(child) ==
    child.gross + child.venueFee + calculation(child.gross, PlatformFeeRate)

BuyAt(asset, behaviour, route, venue) ==
    LET allocation == minimum(affordable(asset, venue, route.remaining),
                              Market[asset][venue].available)
        child      == execute(asset, "BUY", venue, allocation, behaviour)
    IN  IF \/ route.remaining < 0     \* the error has ended the route
           \/ route.remaining <= CompletionDust
           \/ allocation <= 0
        THEN route
        ELSE addChildTotals(route, child, childCost(child))

TradeAt(asset, side, behaviour, route, venue) ==
    IF side = "BUY" THEN BuyAt(asset, behaviour, route, venue)
                    ELSE SellAt(asset, behaviour, route, venue)

Loop(asset, side, input, behaviour) ==
    LET venues == quotes(asset, side, behaviour)
        after[n \in 0 .. Len(venues)] ==
            IF n = 0 THEN Start(input)
            ELSE TradeAt(asset, side, behaviour, after[n - 1], venues[n])
    IN  after[Len(venues)]

(* A route ends in an error when the purchase cost more than the budget or *)
(* nothing is left to the customer.                                        *)
finalize(side, route) ==
    LET platformFee == calculation(route.gross, PlatformFeeRate)
        final == IF side = "BUY" THEN route.gross + route.venueFee + platformFee
                                 ELSE route.gross - route.venueFee - platformFee
        complete == route.remaining <= IF side = "BUY" THEN CompletionDust ELSE 0
    IN  [filled   |-> route.filled,
         final    |-> IF route.filled > 0 THEN final ELSE 0,
         unspent  |-> route.remaining,
         children |-> route.children,
         status   |-> IF side = "BUY" /\ route.remaining < 0 THEN "ERROR"
                      ELSE IF route.filled = 0 THEN "FAILED"
                      ELSE IF final <= 0 THEN "ERROR"
                      ELSE IF complete THEN "FILLED" ELSE "PARTIALLY_FILLED"]

Sell(asset, quantity, behaviour) ==
    finalize("SELL", Loop(asset, "SELL", quantity, behaviour))

Buy(asset, usdBudget, behaviour) ==
    finalize("BUY", Loop(asset, "BUY", usdBudget, behaviour))
=============================================================================
