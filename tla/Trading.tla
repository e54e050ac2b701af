------------------------------ MODULE Trading -------------------------------
(***************************************************************************)
(* Orders, fills and custody of one paper account in one instrument:       *)
(* internal/securities/orders.go, fills.go, projections.go, custody.go,    *)
(* the deterministic broker of internal/securities/provider/local.go and   *)
(* the order state machine of db/migrations/000003.                        *)
(*                                                                         *)
(* SubmitOrder and applyAction lock the paper account for a transaction;   *)
(* ReserveSettledShares and ReleaseSettledShares run in a transaction of   *)
(* the rwa module and lock the position row.  Everything a transaction     *)
(* reads under its lock is one step with what it writes.  A buy also reads *)
(* the cash balances, which no lock protects: BeginBuy reads and decides,  *)
(* CommitBuy posts what was decided.                                       *)
(*                                                                         *)
(* Quantities and prices are in the smallest unit a decimal has, cash is   *)
(* in cents: the broker halves an order's units toward zero, and what a    *)
(* fill costs is rounded half even to a cent.  Left out: average cost and  *)
(* profit (rounded divisions), replays of an idempotency key, which answer *)
(* from the stored row and change nothing, and rejections, which the local *)
(* broker never sends.                                                     *)
(***************************************************************************)
EXTENDS CustomerAccount, Rounding, FiniteSets, Functions

CONSTANTS
    Orders,       \* order requests, each with an idempotency key of its own
    Reservations, \* calls of ReserveSettledShares
    Quantities,   \* quantities a customer asks for
    Limits,       \* limit prices a customer asks for
    Market,       \* the limit of a market order
    LastCursor,   \* last quote of the instrument's replay
    Bid, Ask,     \* price at each cursor
    WholeShare,   \* units of one share; only whole shares are reserved
    Cent,         \* products of a quantity and a price unit that make a cent
    NoOrder, NoBuy

Cursor == 0 .. LastCursor

ASSUME TradingAssumption ==
    /\ IsFiniteSet(Orders) /\ IsFiniteSet(Reservations)
    /\ Quantities \subseteq Nat \ {0}
    /\ Limits \subseteq Nat \ {0}
    /\ Market \notin Limits
    /\ LastCursor \in Nat
    /\ Bid \in [Cursor -> Nat \ {0}]
    /\ Ask \in [Cursor -> Nat \ {0}]
    /\ WholeShare \in Nat \ {0}
    /\ Cent \in Nat \ {0}

VARIABLES
    orders,       \* securities.orders; spent sums its fills' consideration
    position,     \* securities.positions.quantity
    shares,       \* the instrument's ledger accounts: customer's and RWA_LOCKED
    reserved,     \* securities.position_reservations
    buy           \* the transaction that read the balances and has not posted

tradingVars == <<cash, orders, position, shares, reserved, buy>>

Request == [side : {"BUY", "SELL"}, limit : Limits \cup {Market},
            tif : {"DAY", "GTC"}, qty : Quantities]

Final  == {"FILLED", "CANCELLED", "EXPIRED"}
Live   == {"OPEN", "PARTIALLY_FILLED"}

Order == [side : {"BUY", "SELL"}, limit : Limits \cup {Market},
          tif : {"DAY", "GTC"}, qty : Quantities, status : Live \cup Final,
          filled : Nat, spent : Nat, cursor : Cursor]

(* A buy that has been decided: the row it will write and what it pays. *)
Buy == [order : Orders, row : Order, qty : Nat \ {0}, cost : Nat \ {0},
        provisional : Int]

ASSUME AbsentOrders == NoOrder \notin Order /\ NoBuy \notin Buy

Reservation == [status : {"NONE", "ACTIVE", "RELEASED"}, qty : Nat]

TradingTypeOK ==
    /\ cash \in Balances
    /\ orders \in [Orders -> Order \cup {NoOrder}]
    /\ position \in Nat
    /\ shares \in [{"CUSTOMER", "LOCKED"} -> Int]
    /\ reserved \in [Reservations -> Reservation]
    /\ buy \in Buy \cup {NoBuy}

TradingInit ==
    /\ cash = Opened(InitialCash)
    /\ orders = [o \in Orders |-> NoOrder]
    /\ position = 0
    /\ shares = [a \in {"CUSTOMER", "LOCKED"} |-> 0]
    /\ reserved = [r \in Reservations |-> [status |-> "NONE", qty |-> 0]]
    /\ buy = NoBuy

-----------------------------------------------------------------------------
(* The broker.  A quote with a non-positive side does not occur. *)

(* notionalPolicy: what a quantity is worth at a price, in cents. *)
Worth(qty, price) == roundRatio(qty * price, Cent, "HALF_EVEN")

Price(side, c) == IF side = "BUY" THEN Ask[c] ELSE Bid[c]

(* Mutant: a limit is compared with the other side of the quote. *)
MarketableOtherSide(row, c) ==
    row.limit # Market =>
      IF row.side = "BUY" THEN row.limit >= Bid[c] ELSE row.limit =< Ask[c]

Marketable(row, c) ==
    row.limit # Market =>
      IF row.side = "BUY" THEN row.limit >= Ask[c] ELSE row.limit =< Bid[c]

(* The first fill is half of the order, rounded toward zero; the next one, *)
(* and the first of an order too small to halve, is all that remains.      *)
FillQuantity(row) ==
    IF row.filled = 0 /\ row.qty \div 2 > 0
    THEN row.qty \div 2
    ELSE row.qty - row.filled

(* A DAY order that does not fill at the third quote expires. *)
SessionEnd == 2

Expires(row, c) == ~Marketable(row, c) /\ row.tif = "DAY" /\ c >= SessionEnd

Rests(row, c) == ~Marketable(row, c) /\ ~Expires(row, c)

-----------------------------------------------------------------------------
(* Fills *)

(* The consideration of a fill.  One that rounds to nothing is refused,    *)
(* with all that its transaction did.                                      *)
Cost(row, c) == Worth(FillQuantity(row), Price(row.side, c))

(* ApplyOrderFill: the row after a fill at cursor c. *)
AfterFill(row, c) ==
    LET filled == row.filled + FillQuantity(row)
    IN [row EXCEPT !.filled = filled,
                   !.spent  = @ + Cost(row, c),
                   !.cursor = c,
                   !.status = IF filled = row.qty THEN "FILLED"
                                                  ELSE "PARTIALLY_FILLED"]

(* The row InsertOrder writes, before its first broker event. *)
NewRow(req) ==
    [side |-> req.side, limit |-> req.limit, tif |-> req.tif, qty |-> req.qty,
     status |-> "OPEN", filled |-> 0, spent |-> 0, cursor |-> 0]

(* Mutant: a sell that trusts the position seen when it was submitted. *)
FillSellUnheld(o, row, c) ==
    /\ Cost(row, c) > 0
    /\ position' = position - FillQuantity(row)
    /\ shares' = [shares EXCEPT !["CUSTOMER"] = @ - FillQuantity(row)]
    /\ cash' = Post(cash, [PROVISIONAL |-> Cost(row, c)])
    /\ orders' = [orders EXCEPT ![o] = AfterFill(row, c)]
    /\ UNCHANGED <<reserved, buy>>

(* A sell books the shares out of the customer's account, which the ledger *)
(* lets go negative, and the proceeds into provisional buying power.       *)
FillSell(o, row, c) ==
    /\ Cost(row, c) > 0
    /\ position >= FillQuantity(row)
    /\ position' = position - FillQuantity(row)
    /\ shares' = [shares EXCEPT !["CUSTOMER"] = @ - FillQuantity(row)]
    /\ cash' = Post(cash, [PROVISIONAL |-> Cost(row, c)])
    /\ orders' = [orders EXCEPT ![o] = AfterFill(row, c)]
    /\ UNCHANGED <<reserved, buy>>

Smaller(m, n) == IF m < n THEN m ELSE n
Positive(n)   == IF n > 0 THEN n ELSE 0

(* Mutant: a fill that trusts the check made when the order was submitted. *)
BeginBuyUnchecked(o, row, c) ==
    /\ Cost(row, c) > 0
    /\ buy' = [order |-> o, row |-> AfterFill(row, c), qty |-> FillQuantity(row),
               cost |-> Cost(row, c),
               provisional |-> Smaller(cash["PROVISIONAL"], Cost(row, c))]
    /\ UNCHANGED <<cash, orders, position, shares, reserved>>

(* applyFill of a buy up to its posting: buying power still covers the     *)
(* fill, and provisional cash is used before settled cash.                 *)
BeginBuy(o, row, c) ==
    /\ Cost(row, c) > 0
    /\ BuyingPower(cash) >= Cost(row, c)
    /\ buy' = [order |-> o, row |-> AfterFill(row, c), qty |-> FillQuantity(row),
               cost |-> Cost(row, c),
               provisional |-> Smaller(cash["PROVISIONAL"], Cost(row, c))]
    /\ UNCHANGED <<cash, orders, position, shares, reserved>>

(* Settled cash pays the rest and is withdrawn from withdrawable cash too. *)
CommitBuy ==
    /\ buy # NoBuy
    /\ LET rest == buy.cost - buy.provisional
       IN cash' = Post(cash, [PROVISIONAL  |-> -Positive(buy.provisional),
                              SETTLED      |-> -Positive(rest),
                              WITHDRAWABLE |-> -Positive(rest)])
    /\ position' = position + buy.qty
    /\ shares' = [shares EXCEPT !["CUSTOMER"] = @ + buy.qty]
    /\ orders' = [orders EXCEPT ![buy.order] = buy.row]
    /\ buy' = NoBuy
    /\ UNCHANGED reserved

(* Mutant: a rolled back posting that leaves its row. *)
RollBackBuyKeepsRow ==
    /\ buy # NoBuy
    /\ buy' = NoBuy
    /\ orders' = [orders EXCEPT ![buy.order] = buy.row]
    /\ UNCHANGED <<cash, position, shares, reserved>>

(* The broker times out, or the process dies: the transaction rolls back. *)
RollBackBuy ==
    /\ buy # NoBuy
    /\ buy' = NoBuy
    /\ UNCHANGED <<cash, orders, position, shares, reserved>>

-----------------------------------------------------------------------------
(* SubmitOrder *)

ActiveQuantity(r) == IF reserved[r].status = "ACTIVE" THEN reserved[r].qty ELSE 0

(* SumActivePositionReservations *)
Reserved == SumFunction([r \in Reservations |-> ActiveQuantity(r)])

Available(qty) == position - Reserved >= qty

(* What a buy must cover when it is submitted: a limit order its limit, a  *)
(* market order the first ask.                                             *)
Notional(req) ==
    Worth(req.qty, IF req.limit = Market THEN Ask[0] ELSE req.limit)

HasCapacity(req) ==
    IF req.side = "SELL"
    THEN position >= req.qty /\ Available(req.qty)
    ELSE BuyingPower(cash) >= Notional(req)

SubmitOrder(o, req) ==
    /\ buy = NoBuy
    /\ orders[o] = NoOrder
    /\ HasCapacity(req)
    /\ LET row == NewRow(req)
       IN \/ /\ Rests(row, 0)
             /\ orders' = [orders EXCEPT ![o] = row]
             /\ UNCHANGED <<cash, position, shares, reserved, buy>>
          \/ /\ Marketable(row, 0)
             /\ IF req.side = "SELL" THEN FillSell(o, row, 0) ELSE BeginBuy(o, row, 0)

-----------------------------------------------------------------------------
(* applyAction: AdvanceReplay asks the broker about the next quote, if the *)
(* replay has one, CancelOrder does not ask.                               *)

IsLive(o) == orders[o] # NoOrder /\ orders[o].status \in Live

AdvanceReplay(o) ==
    /\ buy = NoBuy
    /\ IsLive(o)
    /\ orders[o].cursor < LastCursor
    /\ LET row == orders[o]
           c   == row.cursor + 1
       IN \/ /\ ~Marketable(row, c)
             /\ orders' = [orders EXCEPT ![o].cursor = c,
                               ![o].status = IF Expires(row, c) THEN "EXPIRED" ELSE @]
             /\ UNCHANGED <<cash, position, shares, reserved, buy>>
          \/ /\ Marketable(row, c)
             /\ IF row.side = "SELL" THEN FillSell(o, row, c) ELSE BeginBuy(o, row, c)

(* Mutant: a cancellation that does not look at the status. *)
CancelAnyOrder(o) ==
    /\ buy = NoBuy
    /\ orders[o] # NoOrder
    /\ orders' = [orders EXCEPT ![o].status = "CANCELLED"]
    /\ UNCHANGED <<cash, position, shares, reserved, buy>>

CancelOrder(o) ==
    /\ buy = NoBuy
    /\ IsLive(o)
    /\ orders' = [orders EXCEPT ![o].status = "CANCELLED"]
    /\ UNCHANGED <<cash, position, shares, reserved, buy>>

-----------------------------------------------------------------------------
(* Custody for the rwa module *)

ReserveSettledShares(r, qty) ==
    /\ reserved[r].status = "NONE"
    /\ qty > 0 /\ qty % WholeShare = 0
    /\ Available(qty)
    /\ shares' = [shares EXCEPT !["CUSTOMER"] = @ - qty, !["LOCKED"] = @ + qty]
    /\ reserved' = [reserved EXCEPT ![r] = [status |-> "ACTIVE", qty |-> qty]]
    /\ UNCHANGED <<cash, orders, position, buy>>

ReleaseSettledShares(r) ==
    /\ reserved[r].status = "ACTIVE"
    /\ shares' = [shares EXCEPT !["CUSTOMER"] = @ + reserved[r].qty,
                                !["LOCKED"]   = @ - reserved[r].qty]
    /\ reserved' = [reserved EXCEPT ![r].status = "RELEASED"]
    /\ UNCHANGED <<cash, orders, position, buy>>

-----------------------------------------------------------------------------
TradingNext ==
    \/ \E o \in Orders, req \in Request : SubmitOrder(o, req)
    \/ \E o \in Orders : AdvanceReplay(o) \/ CancelOrder(o)
    \/ CommitBuy
    \/ RollBackBuy
    \/ \E r \in Reservations, qty \in Quantities : ReserveSettledShares(r, qty)
    \/ \E r \in Reservations : ReleaseSettledShares(r)

TradingSpec == TradingInit /\ [][TradingNext]_tradingVars

-----------------------------------------------------------------------------
(* Properties *)

(* Every share of the position projection is in the customer's ledger      *)
(* account or locked for the rwa module, through partial fills and custody *)
(* moves in any order (fills.go updates the projection and the ledger by   *)
(* separate statements, custody.go only the ledger).                       *)
SharesAddUp == position = shares["CUSTOMER"] + shares["LOCKED"]

Booked == {o \in Orders : orders[o] # NoOrder}

(* What an order has added to the position, and what it has cost. *)
Signed(row, n) == IF row.side = "BUY" THEN n ELSE -n
FillOf(row)    == IF row = NoOrder THEN 0 ELSE Signed(row, row.filled)
SpentOf(row)   == IF row = NoOrder THEN 0 ELSE Signed(row, row.spent)

Filled == SumFunction([o \in Orders |-> FillOf(orders[o])])
Spent  == SumFunction([o \in Orders |-> SpentOf(orders[o])])

(* The orders' fills explain the position and the cash: no fill is lost,   *)
(* booked twice, or half booked when a transaction rolls back; and what    *)
(* custody locked is what its active reservations say.                     *)
FillsExplainBalances ==
    /\ SharesAddUp
    /\ shares["LOCKED"] = Reserved
    /\ position = Filled
    /\ BuyingPower(cash) = InitialCash - Spent

(* As long as only orders spend, no balance they draw on goes negative,    *)
(* even though several open buys were each accepted against the same cash. *)
NeverOverspent ==
    \A d \in {"SETTLED", "WITHDRAWABLE", "PROVISIONAL"} : cash[d] >= 0

Fills(row) ==
    IF row.filled = 0 THEN 0
    ELSE IF row.filled = row.qty /\ row.qty \div 2 > 0 THEN 2 ELSE 1

(* An order's fills together never cost a buyer more than its limit, nor   *)
(* bring a seller less, but for the half cent that the rounding of each    *)
(* fill may add or take, whatever quotes the replay went through.  Two     *)
(* halves of one share at 10.03 do cost 10.04.                             *)
LimitHonoured ==
    \A o \in Booked :
        orders[o].limit # Market =>
          LET beyond == Cent * orders[o].spent - orders[o].limit * orders[o].filled
          IN  IF orders[o].side = "BUY"
              THEN 2 * beyond =< Cent * Fills(orders[o])
              ELSE -2 * beyond =< Cent * Fills(orders[o])

(* An order never leaves a final status, never loses a fill, never returns *)
(* to an earlier quote, and is never filled beyond its quantity.           *)
OrdersProgress ==
    [][ \A o \in Booked :
          /\ orders'[o] # NoOrder
          /\ orders[o].status \in Final => orders'[o] = orders[o]
          /\ orders'[o].filled >= orders[o].filled
          /\ orders'[o].filled =< orders[o].qty
          /\ orders'[o].cursor >= orders[o].cursor ]_tradingVars
=============================================================================
