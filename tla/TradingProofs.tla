---------------------------- MODULE TradingProofs ---------------------------
(***************************************************************************)
(* For any orders, quantities, limits and quotes: the trading model is     *)
(* type correct, orders only progress and honour their limit but for half  *)
(* a cent a fill, orders alone never overspend, and fills explain every    *)
(* balance.                                                                *)
(*                                                                         *)
(* None of these is inductive alone, because a buy is decided in one step  *)
(* and posted in another: OrdersSound says what the decision still means   *)
(* when it is posted (BuySound), whatever other modules post meanwhile;    *)
(* BuysCovered adds that nobody else posts; OrdersExplained adds what the  *)
(* posting will add to the totals, for any amount posted by others, and so *)
(* serves the securities module alone and next to banking.                 *)
(***************************************************************************)
EXTENDS Trading, MoneyTheorems

(* An order that has traded within its limit so far. *)
WithinLimit(row) ==
    row.limit # Market =>
      LET beyond == Cent * row.spent - row.limit * row.filled
      IN  IF row.side = "BUY" THEN 2 * beyond =< Cent * Fills(row)
                              ELSE -2 * beyond =< Cent * Fills(row)

(* What the database holds of an order, or is about to. *)
RowSound(row) ==
    /\ row \in Order
    /\ row.filled =< row.qty
    /\ row.status \in Live => row.filled < row.qty
    /\ WithinLimit(row)

(* The row a step may write over a row of an order. *)
Continues(new, old) ==
    /\ old.status \in Live
    /\ new.side = old.side /\ new.limit = old.limit /\ new.qty = old.qty
    /\ new.filled >= old.filled /\ new.spent >= old.spent
    /\ new.cursor >= old.cursor

(* A decided buy still applies to its order, and the provisional cash it   *)
(* counts on is still there.                                               *)
BuySound ==
    buy # NoBuy =>
      /\ RowSound(buy.row)
      /\ orders[buy.order] # NoOrder => Continues(buy.row, orders[buy.order])
      /\ 0 =< buy.provisional
      /\ buy.provisional =< buy.cost
      /\ buy.provisional =< cash["PROVISIONAL"]

(* What holds whatever other modules post to settled cash. *)
OrdersSound ==
    /\ TradingTypeOK
    /\ \A o \in Booked : RowSound(orders[o])
    /\ BuySound
    /\ cash["PROVISIONAL"] >= 0
    /\ SharesAddUp

(* And what needs that only orders post to the account: a decided buy is   *)
(* still covered by settled cash, all of which is withdrawable.            *)
BuysCovered ==
    /\ buy # NoBuy => buy.cost - buy.provisional =< cash["SETTLED"]
    /\ cash["WITHDRAWABLE"] = cash["SETTLED"]
    /\ NeverOverspent

-----------------------------------------------------------------------------
(* Arithmetic *)

(* What a quantity is worth is a number of cents, and at most half a cent   *)
(* away from the product it stands for.                                     *)
LEMMA WorthRounded ==
  ASSUME NEW q \in Nat, NEW p \in Nat
  PROVE  /\ Worth(q, p) \in Nat
         /\ 2 * (Cent * Worth(q, p) - q * p) =< Cent
         /\ -2 * (Cent * Worth(q, p) - q * p) =< Cent
<1>. DEFINE n == q * p
            k == roundRatio(n, Cent, "HALF_EVEN")
<1>1. n \in Nat /\ Cent \in Nat \ {0}
  BY TradingAssumption
<1>2. "HALF_EVEN" \in RoundingMode /\ "HALF_EVEN" \in HalfMode
  BY DEF RoundingMode, HalfMode
<1>. HIDE DEF n
<1>3. Magnitude(n) = n /\ Magnitude(Cent) = Cent /\ ~(n < 0) /\ ~(Cent < 0)
  BY <1>1 DEF Magnitude
<1>4. k \in Nat
  <2>1. k = Rounded(n, Cent, "HALF_EVEN")
    BY <1>3 DEF roundRatio, Rounded
  <2>. QED  BY <1>1, <1>2, <2>1, MagnitudeRounded
<1>5. 2 * Magnitude(k * Cent - n) =< Magnitude(Cent)
  BY <1>1, <1>2, RoundingError
<1>6. Worth(q, p) = k
  BY DEF Worth, n
<1>. HIDE DEF k
<1>7. k * Cent = Cent * k /\ k * Cent \in Int
  BY <1>1, <1>4
<1>8. 2 * (k * Cent - n) =< Cent /\ -2 * (k * Cent - n) =< Cent
  <2>. DEFINE e == k * Cent - n
  <2>1. e \in Int
    BY <1>1, <1>7
  <2>. HIDE DEF e
  <2>2. 2 * Magnitude(e) =< Cent
    BY <1>3, <1>5 DEF e
  <2>3. 2 * e =< Cent /\ -2 * e =< Cent
    BY <1>1, <2>1, <2>2 DEF Magnitude
  <2>. QED  BY <2>3 DEF e
<1>. QED  BY <1>4, <1>6, <1>7, <1>8 DEF n

(* Buying q more at a price not above the limit, for k cents, exceeds the  *)
(* limit by no more than before and the rounding of k.                     *)
LEMMA BoughtWithinLimit ==
  ASSUME NEW l \in Nat, NEW f \in Nat, NEW s \in Nat, NEW q \in Nat, NEW p \in Nat,
         NEW k \in Nat, NEW n \in Nat, NEW c \in Nat,
         2 * (c * s - l * f) =< c * n, p =< l, 2 * (c * k - q * p) =< c
  PROVE  2 * (c * (s + k) - l * (f + q)) =< c * (n + 1)
<1>1. /\ l * (f + q) = l * f + l * q /\ c * (s + k) = c * s + c * k
      /\ c * (n + 1) = c * n + c
  OBVIOUS
<1>2. q * p =< l * q
  <2>1. PICK d \in Nat : l = p + d
    <3>1. l - p \in Nat /\ l = p + (l - p)
      OBVIOUS
    <3>. QED  BY <3>1
  <2>2. l * q = q * p + d * q /\ d * q \in Nat /\ q * p \in Nat
    BY <2>1
  <2>. QED  BY <2>2
<1>3. /\ l * f \in Nat /\ l * q \in Nat /\ q * p \in Nat
      /\ c * s \in Nat /\ c * k \in Nat /\ c * n \in Nat
  OBVIOUS
<1>. QED  BY <1>1, <1>2, <1>3

(* And selling q more at a price not below it falls short by no more.      *)
LEMMA SoldWithinLimit ==
  ASSUME NEW l \in Nat, NEW f \in Nat, NEW s \in Nat, NEW q \in Nat, NEW p \in Nat,
         NEW k \in Nat, NEW n \in Nat, NEW c \in Nat,
         -2 * (c * s - l * f) =< c * n, p >= l, -2 * (c * k - q * p) =< c
  PROVE  -2 * (c * (s + k) - l * (f + q)) =< c * (n + 1)
<1>1. /\ l * (f + q) = l * f + l * q /\ c * (s + k) = c * s + c * k
      /\ c * (n + 1) = c * n + c
  OBVIOUS
<1>2. q * p >= l * q
  <2>1. PICK d \in Nat : p = l + d
    <3>1. p - l \in Nat /\ p = l + (p - l)
      OBVIOUS
    <3>. QED  BY <3>1
  <2>2. q * p = l * q + d * q /\ d * q \in Nat /\ l * q \in Nat
    BY <2>1
  <2>. QED  BY <2>2
<1>3. /\ l * f \in Nat /\ l * q \in Nat /\ q * p \in Nat
      /\ c * s \in Nat /\ c * k \in Nat /\ c * n \in Nat
  OBVIOUS
<1>. QED  BY <1>1, <1>2, <1>3

(* Posting settled and withdrawable entries and none, or one, of           *)
(* provisional cash.                                                       *)
LEMMA PostSell ==
  ASSUME cash \in Balances, NEW p \in Nat
  PROVE  /\ Post(cash, [PROVISIONAL |-> p]) \in Balances
         /\ Post(cash, [PROVISIONAL |-> p])["PROVISIONAL"] = cash["PROVISIONAL"] + p
         /\ \A d \in Dimension \ {"PROVISIONAL"} :
              Post(cash, [PROVISIONAL |-> p])[d] = cash[d]
BY DEF Post, Balances, Dimension

(* A buy takes provisional cash first and the rest from settled cash.      *)
LEMMA PostBuy ==
  ASSUME cash \in Balances, NEW p \in Int, NEW s \in Int
  PROVE  LET new == Post(cash, [PROVISIONAL |-> p, SETTLED |-> s, WITHDRAWABLE |-> s])
         IN /\ new \in Balances
            /\ new["PENDING"] = cash["PENDING"] /\ new["HELD"] = cash["HELD"]
            /\ new["PROVISIONAL"]  = cash["PROVISIONAL"] + p
            /\ new["SETTLED"]      = cash["SETTLED"] + s
            /\ new["WITHDRAWABLE"] = cash["WITHDRAWABLE"] + s
BY DEF Post, Balances, Dimension

-----------------------------------------------------------------------------
(* Fills *)

(* A fill takes at least one unit and no more than is left, costs some     *)
(* cents, and leaves a sound row that continues the old one.               *)
LEMMA FillSound ==
  ASSUME NEW row, RowSound(row), row.status \in Live,
         NEW c \in Cursor, row.cursor =< c, Marketable(row, c)
  PROVE  /\ FillQuantity(row) \in Nat \ {0}
         /\ Cost(row, c) \in Nat
         /\ RowSound(AfterFill(row, c))
         /\ Continues(AfterFill(row, c), row)
<1>. DEFINE q == FillQuantity(row)
            p == Price(row.side, c)
            new == AfterFill(row, c)
<1>1. /\ row \in Order /\ row.filled \in Nat /\ row.spent \in Nat
      /\ row.qty \in Nat \ {0} /\ row.filled < row.qty
      /\ row.side \in {"BUY", "SELL"} /\ row.limit \in Limits \cup {Market}
      /\ row.tif \in {"DAY", "GTC"} /\ row.cursor \in Cursor
  BY TradingAssumption DEF RowSound, Order
<1>2. q \in Nat \ {0} /\ row.filled + q =< row.qty
  BY <1>1 DEF FillQuantity
<1>3. p \in Nat \ {0}
  BY TradingAssumption DEF Price
<1>4. /\ Cost(row, c) \in Nat
      /\ 2 * (Cent * Cost(row, c) - q * p) =< Cent
      /\ -2 * (Cent * Cost(row, c) - q * p) =< Cent
  BY <1>2, <1>3, WorthRounded DEF Cost
<1>. HIDE DEF q, p
<1>5. /\ new.side = row.side /\ new.limit = row.limit /\ new.qty = row.qty
      /\ new.tif = row.tif /\ new.cursor = c
      /\ new.filled = row.filled + q
      /\ new.spent = row.spent + Cost(row, c)
      /\ new.status = IF row.filled + q = row.qty THEN "FILLED" ELSE "PARTIALLY_FILLED"
  BY <1>1 DEF AfterFill, q, Order
<1>6. new \in Order
  <2>1. /\ row.filled + q \in Nat /\ row.spent + Cost(row, c) \in Nat
        /\ (IF row.filled + q = row.qty THEN "FILLED" ELSE "PARTIALLY_FILLED")
             \in Live \cup Final
    BY <1>1, <1>2, <1>4 DEF Live, Final
  <2>. QED  BY <1>1, <2>1 DEF AfterFill, q, Order
<1>. HIDE DEF new
<1>7. WithinLimit(new)
  <2>. SUFFICES ASSUME row.limit # Market  PROVE WithinLimit(new)
    BY <1>5 DEF WithinLimit
  <2>1. row.limit \in Nat /\ Cent \in Nat
    BY <1>1, TradingAssumption
  <2>2. Fills(row) \in Nat /\ Fills(new) = Fills(row) + 1
    BY <1>1, <1>2, <1>5 DEF Fills, FillQuantity, q
  <2>3. CASE row.side = "BUY"
    <3>1. /\ 2 * (Cent * row.spent - row.limit * row.filled) =< Cent * Fills(row)
          /\ p =< row.limit
      BY <2>1, <2>3, TradingAssumption DEF RowSound, WithinLimit, Marketable, Price, p
    <3>2. 2 * (Cent * (row.spent + Cost(row, c)) - row.limit * (row.filled + q))
            =< Cent * (Fills(row) + 1)
      BY <1>1, <1>2, <1>3, <1>4, <2>1, <2>2, <3>1, BoughtWithinLimit
    <3>. QED  BY <1>5, <2>2, <2>3, <3>2 DEF WithinLimit
  <2>4. CASE row.side = "SELL"
    <3>1. /\ -2 * (Cent * row.spent - row.limit * row.filled) =< Cent * Fills(row)
          /\ p >= row.limit
      BY <2>1, <2>4, TradingAssumption DEF RowSound, WithinLimit, Marketable, Price, p
    <3>2. -2 * (Cent * (row.spent + Cost(row, c)) - row.limit * (row.filled + q))
            =< Cent * (Fills(row) + 1)
      BY <1>1, <1>2, <1>3, <1>4, <2>1, <2>2, <3>1, SoldWithinLimit
    <3>. QED  BY <1>5, <2>2, <2>4, <3>2 DEF WithinLimit
  <2>. QED  BY <1>1, <2>3, <2>4
<1>8. RowSound(new)
  <2>1. new.status \in Live => new.filled < new.qty
    BY <1>1, <1>2, <1>5 DEF Live
  <2>. QED  BY <1>1, <1>2, <1>5, <1>6, <1>7, <2>1 DEF RowSound
<1>9. Continues(new, row)
  <2>1. row.filled + q >= row.filled /\ row.spent + Cost(row, c) >= row.spent
    BY <1>1, <1>2, <1>4
  <2>2. c >= row.cursor
    BY <1>1, TradingAssumption DEF Cursor
  <2>. QED  BY <1>5, <2>1, <2>2 DEF Continues
<1>. QED  BY <1>2, <1>4, <1>8, <1>9 DEF q, new

(* A row that has just been inserted is sound. *)
LEMMA NewRowSound ==
  ASSUME NEW req \in Request
  PROVE  /\ RowSound(NewRow(req))
         /\ NewRow(req).status \in Live
         /\ NewRow(req).cursor = 0
<1>1. 0 \in Cursor /\ Quantities \subseteq Nat \ {0}
  BY TradingAssumption DEF Cursor
<1>2. NewRow(req) \in Order
  BY <1>1 DEF NewRow, Request, Order, Live, Final
<1>3. NewRow(req).limit # Market =>
        2 * (Cent * 0 - NewRow(req).limit * 0) = 0 /\ -2 * (Cent * 0 - NewRow(req).limit * 0) = 0
  <2>1. NewRow(req).limit = req.limit /\ req.limit \in Limits \cup {Market}
    BY DEF NewRow, Request
  <2>2. \A n \in Nat : n * 0 = 0 /\ 2 * (0 - n * 0) = 0 /\ -2 * (0 - n * 0) = 0
    OBVIOUS
  <2>3. Cent * 0 = 0
    BY TradingAssumption
  <2>. QED  BY <2>1, <2>2, <2>3, TradingAssumption
<1>4. WithinLimit(NewRow(req))
  <2>1. /\ NewRow(req).filled = 0 /\ NewRow(req).spent = 0
        /\ Fills(NewRow(req)) = 0 /\ Cent * 0 = 0
    BY TradingAssumption DEF NewRow, Fills
  <2>. QED  BY <1>3, <2>1 DEF WithinLimit
<1>5. NewRow(req).filled = 0 /\ NewRow(req).qty \in Nat \ {0}
  BY <1>1 DEF NewRow, Request
<1>6. NewRow(req).status \in Live /\ NewRow(req).cursor = 0
  BY DEF NewRow, Live
<1>. QED  BY <1>2, <1>4, <1>5, <1>6 DEF RowSound

-----------------------------------------------------------------------------
(* Steps *)

(* The invariant holds of an account that has just been funded. *)
LEMMA TradingInitSound == TradingInit => OrdersSound
<1>. SUFFICES ASSUME TradingInit  PROVE OrdersSound
  OBVIOUS
<1>1. TradingTypeOK
  BY TradingAssumption, InitialCashAssumption
  DEF TradingInit, TradingTypeOK, Balances, Opened, Dimension, Reservation
<1>2. Booked = {}
  BY DEF TradingInit, Booked
<1>3. cash["PROVISIONAL"] >= 0
  BY DEF TradingInit, Opened, Dimension
<1>4. SharesAddUp
  BY DEF TradingInit, SharesAddUp
<1>. QED  BY <1>1, <1>2, <1>3, <1>4 DEF TradingInit, OrdersSound, BuySound

(* While no buy is open, a step that gives an order a sound row and leaves *)
(* cash and shares alone keeps the invariant.                              *)
LEMMA RowStep ==
  ASSUME OrdersSound, buy = NoBuy, NEW o \in Orders, NEW row, RowSound(row),
         orders' = [orders EXCEPT ![o] = row],
         UNCHANGED <<cash, position, shares, reserved, buy>>
  PROVE  OrdersSound'
<1>1. TradingTypeOK'
  BY DEF OrdersSound, TradingTypeOK, RowSound
<1>2. \A p \in Booked' : RowSound(orders'[p])
  BY DEF OrdersSound, TradingTypeOK, Booked
<1>. QED
  BY <1>1, <1>2 DEF OrdersSound, BuySound, SharesAddUp, Booked, RowSound,
                    WithinLimit

(* A sell gives shares out of the customer's account and adds proceeds to  *)
(* the provisional cash.                                                   *)
LEMMA FillSellSound ==
  ASSUME OrdersSound, buy = NoBuy, NEW o \in Orders, NEW row, RowSound(row),
         row.status \in Live, NEW c \in Cursor, row.cursor =< c,
         Marketable(row, c), FillSell(o, row, c)
  PROVE  OrdersSound'
<1>. DEFINE q == FillQuantity(row)
            p == Cost(row, c)
<1>1. q \in Nat \ {0} /\ p \in Nat \ {0} /\ RowSound(AfterFill(row, c))
  BY FillSound DEF FillSell
<1>2. /\ position >= q /\ position' = position - q
      /\ shares' = [shares EXCEPT !["CUSTOMER"] = @ - q]
      /\ cash' = Post(cash, [PROVISIONAL |-> p])
      /\ orders' = [orders EXCEPT ![o] = AfterFill(row, c)]
      /\ reserved' = reserved /\ buy' = buy
  BY DEF FillSell
<1>. HIDE DEF q, p
<1>3. /\ cash' \in Balances
      /\ cash'["PROVISIONAL"] = cash["PROVISIONAL"] + p
  BY <1>1, <1>2, PostSell DEF OrdersSound, TradingTypeOK, Dimension
<1>4. position' \in Nat /\ shares' \in [{"CUSTOMER", "LOCKED"} -> Int] /\ SharesAddUp'
  BY <1>1, <1>2 DEF OrdersSound, TradingTypeOK, SharesAddUp
<1>5. orders' \in [Orders -> Order \cup {NoOrder}]
  BY <1>1, <1>2 DEF OrdersSound, TradingTypeOK, RowSound
<1>6. \A x \in Booked' : RowSound(orders'[x])
  BY <1>1, <1>2 DEF OrdersSound, TradingTypeOK, Booked
<1>7. cash'["PROVISIONAL"] >= 0
  BY <1>1, <1>3 DEF OrdersSound, TradingTypeOK, Balances, Dimension
<1>. QED
  BY <1>2, <1>3, <1>4, <1>5, <1>6, <1>7 DEF OrdersSound, TradingTypeOK, BuySound

(* A buy is decided: what it will write and pay is sound now. *)
LEMMA BeginBuySound ==
  ASSUME OrdersSound, NEW o \in Orders, NEW row, RowSound(row),
         row.status \in Live, NEW c \in Cursor, row.cursor =< c,
         Marketable(row, c), BeginBuy(o, row, c),
         orders[o] = NoOrder \/ orders[o] = row
  PROVE  OrdersSound'
<1>. DEFINE q   == FillQuantity(row)
            p   == Cost(row, c)
            new == AfterFill(row, c)
            pro == Smaller(cash["PROVISIONAL"], p)
<1>1. q \in Nat \ {0} /\ p \in Nat \ {0} /\ RowSound(new) /\ Continues(new, row)
  BY FillSound DEF BeginBuy
<1>2. /\ buy' = [order |-> o, row |-> new, qty |-> q, cost |-> p, provisional |-> pro]
      /\ BuyingPower(cash) >= p
      /\ UNCHANGED <<cash, orders, position, shares, reserved>>
  BY DEF BeginBuy
<1>3. cash["PROVISIONAL"] \in Nat
  BY DEF OrdersSound, TradingTypeOK, Balances, Dimension
<1>. HIDE DEF q, p, new
<1>4. pro \in Int /\ 0 =< pro /\ pro =< p /\ pro =< cash["PROVISIONAL"]
  BY <1>1, <1>3 DEF Smaller
<1>. HIDE DEF pro
<1>5. buy' \in Buy
  BY <1>1, <1>2, <1>4 DEF Buy, RowSound
<1>6. BuySound'
  <2>1. orders[o] # NoOrder => Continues(new, orders[o])
    BY <1>1
  <2>. QED  BY <1>1, <1>2, <1>4, <2>1 DEF BuySound
<1>. QED
  BY <1>2, <1>5, <1>6 DEF OrdersSound, TradingTypeOK, SharesAddUp, Booked

(* A posted buy pays what it decided, from provisional cash still there.   *)
LEMMA CommitBuySound ==
  ASSUME OrdersSound, CommitBuy
  PROVE  OrdersSound'
<1>. DEFINE rest == buy.cost - buy.provisional
            pro  == buy.provisional
<1>1. /\ buy \in Buy /\ RowSound(buy.row)
      /\ 0 =< pro /\ pro =< buy.cost /\ pro =< cash["PROVISIONAL"]
  BY DEF OrdersSound, TradingTypeOK, BuySound, CommitBuy
<1>2. /\ buy.order \in Orders /\ buy.qty \in Nat \ {0} /\ buy.cost \in Nat \ {0}
      /\ pro \in Int
  BY <1>1 DEF Buy
<1>3. Positive(pro) = pro /\ Positive(rest) = rest /\ rest \in Nat
  BY <1>1, <1>2 DEF Positive
<1>4. /\ cash' = Post(cash, [PROVISIONAL |-> -pro, SETTLED |-> -rest,
                             WITHDRAWABLE |-> -rest])
      /\ position' = position + buy.qty
      /\ shares' = [shares EXCEPT !["CUSTOMER"] = @ + buy.qty]
      /\ orders' = [orders EXCEPT ![buy.order] = buy.row]
      /\ buy' = NoBuy /\ reserved' = reserved
  BY <1>3 DEF CommitBuy
<1>. HIDE DEF rest, pro
<1>5. /\ cash' \in Balances
      /\ cash'["PROVISIONAL"] = cash["PROVISIONAL"] - pro
  <2>1. cash \in Balances /\ -pro \in Int /\ -rest \in Int
    BY <1>2, <1>3 DEF OrdersSound, TradingTypeOK
  <2>2. \A d \in Dimension : cash[d] \in Int
    BY <2>1 DEF Balances
  <2>. QED  BY <1>2, <1>3, <1>4, <2>1, <2>2, PostBuy DEF Dimension
<1>6. position' \in Nat /\ shares' \in [{"CUSTOMER", "LOCKED"} -> Int] /\ SharesAddUp'
  BY <1>2, <1>4 DEF OrdersSound, TradingTypeOK, SharesAddUp
<1>7. orders' \in [Orders -> Order \cup {NoOrder}]
  BY <1>1, <1>2, <1>4 DEF OrdersSound, TradingTypeOK, RowSound
<1>8. \A x \in Booked' : RowSound(orders'[x])
  BY <1>1, <1>2, <1>4 DEF OrdersSound, TradingTypeOK, Booked
<1>9. cash'["PROVISIONAL"] >= 0
  BY <1>1, <1>2, <1>5 DEF OrdersSound, TradingTypeOK, Balances, Dimension
<1>. QED
  BY <1>4, <1>5, <1>6, <1>7, <1>8, <1>9 DEF OrdersSound, TradingTypeOK, BuySound

(* A rolled back buy leaves what was there. *)
LEMMA RollBackSound ==
  ASSUME OrdersSound, RollBackBuy
  PROVE  OrdersSound'
BY DEF OrdersSound, RollBackBuy, TradingTypeOK, BuySound, Booked, SharesAddUp

(* Custody moves shares between the two accounts and nothing else. *)
LEMMA CustodySound ==
  ASSUME OrdersSound, NEW r \in Reservations,
         \/ \E qty \in Quantities : ReserveSettledShares(r, qty)
         \/ ReleaseSettledShares(r)
  PROVE  OrdersSound'
<1>1. UNCHANGED <<cash, orders, position, buy>>
  BY DEF ReserveSettledShares, ReleaseSettledShares
<1>2. /\ reserved' \in [Reservations -> Reservation]
      /\ shares' \in [{"CUSTOMER", "LOCKED"} -> Int]
      /\ SharesAddUp'
  <2>1. CASE \E qty \in Quantities : ReserveSettledShares(r, qty)
    <3>1. PICK qty \in Quantities : ReserveSettledShares(r, qty)
      BY <2>1
    <3>2. qty \in Nat
      BY TradingAssumption
    <3>. QED
      BY <3>1, <3>2 DEF OrdersSound, TradingTypeOK, Reservation, SharesAddUp, ReserveSettledShares
  <2>2. CASE ReleaseSettledShares(r)
    <3>1. reserved[r].qty \in Nat /\ reserved[r] \in Reservation
      BY DEF OrdersSound, TradingTypeOK, Reservation
    <3>. QED
      BY <2>2, <3>1 DEF OrdersSound, TradingTypeOK, Reservation, SharesAddUp, ReleaseSettledShares
  <2>. QED  BY <2>1, <2>2
<1>. QED
  BY <1>1, <1>2 DEF OrdersSound, TradingTypeOK, BuySound, Booked

(* A submitted order rests, fills, or opens a buy. *)
LEMMA SubmitSound ==
  ASSUME OrdersSound, NEW o \in Orders, NEW req \in Request, SubmitOrder(o, req)
  PROVE  OrdersSound'
<1>. DEFINE row == NewRow(req)
<1>1. RowSound(row) /\ row.status \in Live /\ row.cursor =< 0 /\ 0 \in Cursor
  BY NewRowSound, TradingAssumption DEF Cursor
<1>2. buy = NoBuy /\ orders[o] = NoOrder
  BY DEF SubmitOrder
<1>. HIDE DEF row
<1>3. CASE orders' = [orders EXCEPT ![o] = row]
           /\ UNCHANGED <<cash, position, shares, reserved, buy>>
  BY <1>1, <1>2, <1>3, RowStep
<1>4. CASE Marketable(row, 0) /\ FillSell(o, row, 0)
  BY <1>1, <1>2, <1>4, FillSellSound
<1>5. CASE Marketable(row, 0) /\ BeginBuy(o, row, 0)
  BY <1>1, <1>2, <1>5, BeginBuySound
<1>. QED  BY <1>3, <1>4, <1>5 DEF SubmitOrder, row

(* A live order that moves to the next quote expires, rests or fills. *)
LEMMA AdvanceSound ==
  ASSUME OrdersSound, NEW o \in Orders, AdvanceReplay(o)
  PROVE  OrdersSound'
<1>. DEFINE row   == orders[o]
            c     == row.cursor + 1
            moved == [row EXCEPT !.cursor = c,
                                 !.status = IF Expires(row, c) THEN "EXPIRED" ELSE @]
<1>1. /\ buy = NoBuy /\ RowSound(row) /\ row.status \in Live /\ row \in Order
      /\ row.cursor < LastCursor
  BY DEF AdvanceReplay, IsLive, OrdersSound, Booked, RowSound
<1>2. row.cursor \in Nat /\ c \in Cursor /\ row.cursor =< c
  <2>1. row.cursor \in Cursor /\ LastCursor \in Nat
    BY <1>1, TradingAssumption DEF Order
  <2>. QED  BY <1>1, <2>1 DEF Cursor
<1>3. RowSound(moved)
  <2>1. moved \in Order
    BY <1>1, <1>2 DEF Order, Final
  <2>2. /\ moved.limit = row.limit /\ moved.side = row.side /\ moved.qty = row.qty
        /\ moved.filled = row.filled /\ moved.spent = row.spent
        /\ moved.status \in Live => row.status \in Live
    BY <1>1 DEF Order
  <2>. HIDE DEF moved
  <2>3. WithinLimit(moved) <=> WithinLimit(row)
    BY <2>2 DEF WithinLimit, Fills
  <2>. QED  BY <1>1, <2>1, <2>2, <2>3 DEF RowSound
<1>4. CASE orders' = [orders EXCEPT ![o].cursor = c,
                               ![o].status = IF Expires(row, c) THEN "EXPIRED" ELSE @]
           /\ UNCHANGED <<cash, position, shares, reserved, buy>>
  <2>1. orders' = [orders EXCEPT ![o] = moved]
    BY <1>1, <1>4 DEF Order, OrdersSound, TradingTypeOK
  <2>. HIDE DEF moved, c
  <2>. QED  BY <1>1, <1>3, <1>4, <2>1, RowStep
<1>. HIDE DEF c
<1>5. CASE Marketable(row, c) /\ FillSell(o, row, c)
  BY <1>1, <1>2, <1>5, FillSellSound
<1>6. CASE Marketable(row, c) /\ BeginBuy(o, row, c)
  BY <1>1, <1>2, <1>6, BeginBuySound
<1>. QED  BY <1>4, <1>5, <1>6 DEF AdvanceReplay, c

(* A cancellation changes the status of a live order. *)
LEMMA CancelSound ==
  ASSUME OrdersSound, NEW o \in Orders, CancelOrder(o)
  PROVE  OrdersSound'
<1>. DEFINE row  == orders[o]
            gone == [row EXCEPT !.status = "CANCELLED"]
<1>1. buy = NoBuy /\ RowSound(row) /\ row \in Order
  BY DEF CancelOrder, IsLive, OrdersSound, Booked, RowSound
<1>2. RowSound(gone)
  <2>1. gone \in Order /\ gone.status \notin Live
    BY <1>1 DEF Order, Final, Live
  <2>2. /\ gone.limit = row.limit /\ gone.side = row.side /\ gone.qty = row.qty
        /\ gone.filled = row.filled /\ gone.spent = row.spent
    BY <1>1 DEF Order
  <2>. HIDE DEF gone
  <2>3. WithinLimit(gone) <=> WithinLimit(row)
    BY <2>2 DEF WithinLimit, Fills
  <2>. QED  BY <1>1, <2>1, <2>2, <2>3 DEF RowSound
<1>3. /\ orders' = [orders EXCEPT ![o] = gone]
      /\ UNCHANGED <<cash, position, shares, reserved, buy>>
  BY DEF CancelOrder
<1>. HIDE DEF gone
<1>. QED  BY <1>1, <1>2, <1>3, RowStep

(* Every step keeps the invariant. *)
LEMMA TradingNextSound == OrdersSound /\ [TradingNext]_tradingVars => OrdersSound'
<1>. SUFFICES ASSUME OrdersSound, [TradingNext]_tradingVars  PROVE OrdersSound'
  OBVIOUS
<1>1. CASE UNCHANGED tradingVars
  BY <1>1 DEF tradingVars, OrdersSound, TradingTypeOK, BuySound, Booked, SharesAddUp
<1>. QED
  BY <1>1, SubmitSound, AdvanceSound, CancelSound, CommitBuySound, RollBackSound,
     CustodySound DEF TradingNext

(* The inductive invariant of every behaviour. *)
LEMMA AlwaysSound == TradingSpec => []OrdersSound
BY TradingInitSound, TradingNextSound, PTL DEF TradingSpec

-----------------------------------------------------------------------------
(* What orders post *)

(* A marketable order of a live sound row fills and posts, or is decided.  *)
LEMMA FillPosts ==
  ASSUME OrdersSound, NEW o \in Orders, NEW row, RowSound(row), row.status \in Live,
         NEW c \in Cursor, row.cursor =< c, Marketable(row, c)
  PROVE  /\ FillSell(o, row, c) =>
               buy' = buy /\ \E n \in Nat : cash' = Post(cash, [PROVISIONAL |-> n])
         /\ BeginBuy(o, row, c) =>
               /\ cash' = cash
               /\ cash["SETTLED"] >= 0 => buy'.cost - buy'.provisional =< cash["SETTLED"]
<1>. DEFINE p == Cost(row, c)
<1>1. p \in Nat
  BY FillSound
<1>2. ASSUME FillSell(o, row, c)
      PROVE  buy' = buy /\ cash' = Post(cash, [PROVISIONAL |-> p])
  BY <1>2 DEF FillSell
<1>3. ASSUME BeginBuy(o, row, c)
      PROVE  /\ cash' = cash /\ BuyingPower(cash) >= p
             /\ buy'.cost = p /\ buy'.provisional = Smaller(cash["PROVISIONAL"], p)
  BY <1>3 DEF BeginBuy
<1>4. cash["PROVISIONAL"] \in Int /\ cash["SETTLED"] \in Int
  BY DEF OrdersSound, TradingTypeOK, Balances, Dimension
<1>. HIDE DEF p
<1>. QED  BY <1>1, <1>2, <1>3, <1>4 DEF Smaller, BuyingPower

(* Every step leaves the cash alone, books the proceeds of a sale, or      *)
(* posts the buy it decided.                                               *)
LEMMA StepPosts ==
  ASSUME OrdersSound, [TradingNext]_tradingVars
  PROVE  \/ cash' = cash /\ buy' \in {buy, NoBuy}
         \/ /\ cash' = cash
            /\ cash["SETTLED"] >= 0 => buy'.cost - buy'.provisional =< cash["SETTLED"]
         \/ buy' = buy /\ \E n \in Nat : cash' = Post(cash, [PROVISIONAL |-> n])
         \/ CommitBuy
<1>1. ASSUME NEW o \in Orders, NEW req \in Request, SubmitOrder(o, req),
             ~(cash' = cash /\ buy' = buy)
      PROVE  \/ /\ cash' = cash
                /\ cash["SETTLED"] >= 0 => buy'.cost - buy'.provisional =< cash["SETTLED"]
             \/ buy' = buy /\ \E n \in Nat : cash' = Post(cash, [PROVISIONAL |-> n])
  <2>. DEFINE row == NewRow(req)
  <2>1. RowSound(row) /\ row.status \in Live /\ row.cursor =< 0 /\ 0 \in Cursor
    BY NewRowSound, TradingAssumption DEF Cursor
  <2>. HIDE DEF row
  <2>2. Marketable(row, 0) /\ (FillSell(o, row, 0) \/ BeginBuy(o, row, 0))
    BY <1>1 DEF SubmitOrder, row
  <2>. QED  BY <2>1, <2>2, FillPosts
<1>2. ASSUME NEW o \in Orders, AdvanceReplay(o), ~(cash' = cash /\ buy' = buy)
      PROVE  \/ /\ cash' = cash
                /\ cash["SETTLED"] >= 0 => buy'.cost - buy'.provisional =< cash["SETTLED"]
             \/ buy' = buy /\ \E n \in Nat : cash' = Post(cash, [PROVISIONAL |-> n])
  <2>. DEFINE row == orders[o]
              c   == row.cursor + 1
  <2>1. /\ RowSound(row) /\ row.status \in Live /\ row \in Order
        /\ row.cursor < LastCursor
    BY <1>2 DEF AdvanceReplay, IsLive, OrdersSound, Booked, RowSound
  <2>2. c \in Cursor /\ row.cursor =< c
    <3>1. row.cursor \in Cursor /\ LastCursor \in Nat
      BY <2>1, TradingAssumption DEF Order
    <3>. QED  BY <2>1, <3>1 DEF Cursor
  <2>3. Marketable(row, c) /\ (FillSell(o, row, c) \/ BeginBuy(o, row, c))
    BY <1>2 DEF AdvanceReplay
  <2>. HIDE DEF row, c
  <2>. QED  BY <2>1, <2>2, <2>3, FillPosts
<1>3. CASE UNCHANGED tradingVars
  BY <1>3 DEF tradingVars
<1>4. ASSUME NEW o \in Orders, CancelOrder(o)
      PROVE  cash' = cash /\ buy' = buy
  BY <1>4 DEF CancelOrder
<1>5. CASE RollBackBuy
  BY <1>5 DEF RollBackBuy
<1>6. ASSUME NEW r \in Reservations,
             \/ \E qty \in Quantities : ReserveSettledShares(r, qty)
             \/ ReleaseSettledShares(r)
      PROVE  cash' = cash /\ buy' = buy
  BY <1>6 DEF ReserveSettledShares, ReleaseSettledShares
<1>. QED  BY <1>1, <1>2, <1>3, <1>4, <1>5, <1>6 DEF TradingNext

(* A posted buy takes what it decided out of three dimensions. *)
LEMMA CommitPosts ==
  ASSUME OrdersSound, CommitBuy
  PROVE  /\ buy.cost - buy.provisional \in Nat
         /\ cash' = Post(cash, [PROVISIONAL  |-> -buy.provisional,
                                SETTLED      |-> -(buy.cost - buy.provisional),
                                WITHDRAWABLE |-> -(buy.cost - buy.provisional)])
         /\ cash'["PENDING"] = cash["PENDING"] /\ cash'["HELD"] = cash["HELD"]
         /\ cash'["PROVISIONAL"] = cash["PROVISIONAL"] - buy.provisional
         /\ cash'["SETTLED"] = cash["SETTLED"] - (buy.cost - buy.provisional)
         /\ cash'["WITHDRAWABLE"] = cash["WITHDRAWABLE"] - (buy.cost - buy.provisional)
<1>. DEFINE rest == buy.cost - buy.provisional
            pro  == buy.provisional
<1>1. buy \in Buy /\ 0 =< pro /\ pro =< buy.cost
  BY DEF OrdersSound, TradingTypeOK, BuySound, CommitBuy
<1>2. buy.cost \in Nat /\ pro \in Int
  BY <1>1 DEF Buy
<1>3. Positive(pro) = pro /\ Positive(rest) = rest /\ rest \in Nat
  BY <1>1, <1>2 DEF Positive
<1>4. cash' = Post(cash, [PROVISIONAL |-> -pro, SETTLED |-> -rest, WITHDRAWABLE |-> -rest])
  BY <1>3 DEF CommitBuy
<1>. HIDE DEF rest, pro
<1>5. cash \in Balances /\ -pro \in Int /\ -rest \in Int
  BY <1>2, <1>3 DEF OrdersSound, TradingTypeOK
<1>6. \A d \in Dimension : cash[d] \in Int
  BY <1>5 DEF Balances
<1>7. /\ cash'["PENDING"] = cash["PENDING"] /\ cash'["HELD"] = cash["HELD"]
      /\ cash'["PROVISIONAL"] = cash["PROVISIONAL"] - pro
      /\ cash'["SETTLED"] = cash["SETTLED"] - rest
      /\ cash'["WITHDRAWABLE"] = cash["WITHDRAWABLE"] - rest
  BY <1>2, <1>3, <1>4, <1>5, <1>6, PostBuy DEF Dimension
<1>. QED  BY <1>3, <1>4, <1>7 DEF rest, pro

(* As long as only orders post, every step leaves open buys covered. *)
LEMMA StepCovered ==
  ASSUME OrdersSound, BuysCovered, [TradingNext]_tradingVars
  PROVE  BuysCovered'
<1>1. cash \in Balances /\ \A d \in Dimension : cash[d] \in Int
  BY DEF OrdersSound, TradingTypeOK, Balances
<1>2. CASE cash' = cash /\ buy' \in {buy, NoBuy}
  BY <1>2 DEF BuysCovered, NeverOverspent
<1>3. CASE /\ cash' = cash
           /\ cash["SETTLED"] >= 0 => buy'.cost - buy'.provisional =< cash["SETTLED"]
  BY <1>3 DEF BuysCovered, NeverOverspent
<1>4. CASE buy' = buy /\ \E n \in Nat : cash' = Post(cash, [PROVISIONAL |-> n])
  <2>1. PICK n \in Nat : cash' = Post(cash, [PROVISIONAL |-> n])
    BY <1>4
  <2>2. /\ cash'["PROVISIONAL"] = cash["PROVISIONAL"] + n
        /\ cash'["SETTLED"] = cash["SETTLED"]
        /\ cash'["WITHDRAWABLE"] = cash["WITHDRAWABLE"]
    BY <1>1, <2>1, PostSell DEF Dimension
  <2>. QED  BY <1>1, <1>4, <2>2 DEF BuysCovered, NeverOverspent, Dimension
<1>5. CASE CommitBuy
  <2>1. buy # NoBuy /\ buy' = NoBuy /\ buy.provisional =< cash["PROVISIONAL"]
        /\ buy.provisional \in Int
    BY <1>5 DEF CommitBuy, OrdersSound, TradingTypeOK, BuySound, Buy
  <2>2. /\ buy.cost - buy.provisional \in Nat
        /\ cash'["PROVISIONAL"] = cash["PROVISIONAL"] - buy.provisional
        /\ cash'["SETTLED"] = cash["SETTLED"] - (buy.cost - buy.provisional)
        /\ cash'["WITHDRAWABLE"] = cash["WITHDRAWABLE"] - (buy.cost - buy.provisional)
    BY <1>5, CommitPosts
  <2>3. cash["PROVISIONAL"] \in Int /\ cash["SETTLED"] \in Int
    BY <1>1 DEF Dimension
  <2>. QED  BY <2>1, <2>2, <2>3 DEF BuysCovered, NeverOverspent
<1>. QED  BY <1>2, <1>3, <1>4, <1>5, StepPosts

-----------------------------------------------------------------------------
(* Theorems *)

(* The state stays in its type: no order row, reservation or pending buy   *)
(* that the tables could not hold, however many orders there are.          *)
THEOREM TradingTypeCorrect == TradingSpec => []TradingTypeOK
<1>1. OrdersSound => TradingTypeOK
  BY DEF OrdersSound
<1>. QED  BY <1>1, AlwaysSound, PTL

(* Orders alone never take a balance below zero, for any number of orders, *)
(* prices and sizes (applyFill rechecks buying power at every fill).       *)
THEOREM OrdersNeverOverspend == TradingSpec => []NeverOverspent
<1>1. TradingInit => BuysCovered
  BY InitialCashAssumption
  DEF TradingInit, BuysCovered, NeverOverspent, Opened, Dimension
<1>2. OrdersSound /\ BuysCovered /\ [TradingNext]_tradingVars => BuysCovered'
  BY StepCovered
<1>3. BuysCovered => NeverOverspent
  BY DEF BuysCovered
<1>. QED  BY <1>1, <1>2, <1>3, AlwaysSound, PTL DEF TradingSpec

(* A sound row is within its order's limit. *)
LEMMA SoundWithinLimit == OrdersSound => LimitHonoured
BY DEF OrdersSound, RowSound, WithinLimit, LimitHonoured

(* No order trades beyond its limit by more than half a cent for each of    *)
(* its fills, for any sequence of quotes and any size of units: the error   *)
(* of rounding each fill's consideration is all there is.                   *)
THEOREM LimitsAreHonoured == TradingSpec => []LimitHonoured
BY SoundWithinLimit, AlwaysSound, PTL

(* The position projection and the share ledger accounts agree, for any    *)
(* sequence of fills and custody moves.                                    *)
THEOREM SharesAlwaysAddUp == TradingSpec => []SharesAddUp
<1>1. OrdersSound => SharesAddUp
  BY DEF OrdersSound
<1>. QED  BY <1>1, AlwaysSound, PTL

-----------------------------------------------------------------------------
(* What fills explain *)

(* A decided buy will add to its order what it will post. *)
BuyExplained ==
    buy # NoBuy =>
      /\ FillOf(buy.row)  = FillOf(orders[buy.order]) + buy.qty
      /\ SpentOf(buy.row) = SpentOf(orders[buy.order]) + buy.cost

(* The orders explain the position and the shares, and all of the buying   *)
(* power but `other'.  Alone they start from InitialCash; next to other    *)
(* modules, from whatever those have posted.                               *)
FillsExplain(other) ==
    /\ SharesAddUp
    /\ shares["LOCKED"] = Reserved
    /\ position = Filled
    /\ BuyingPower(cash) = other - Spent

OrdersExplained(other) == OrdersSound /\ FillsExplain(other) /\ BuyExplained

(* Rows count as integers. *)
LEMMA OrderCounts ==
  ASSUME NEW row \in Order \cup {NoOrder}
  PROVE  FillOf(row) \in Int /\ SpentOf(row) \in Int
<1>1. CASE row = NoOrder
  BY <1>1 DEF FillOf, SpentOf
<1>2. CASE row # NoOrder
  <2>1. row.filled \in Int /\ row.spent \in Int
    BY <1>2 DEF Order
  <2>. QED  BY <1>2, <2>1 DEF FillOf, SpentOf, Signed
<1>. QED  BY <1>1, <1>2

(* One row changes, and the totals change by what it adds. *)
LEMMA RowChange ==
  ASSUME TradingTypeOK, NEW o \in Orders, NEW row \in Order,
         orders' = [orders EXCEPT ![o] = row]
  PROVE  /\ Filled' = Filled - FillOf(orders[o]) + FillOf(row)
         /\ Spent'  = Spent - SpentOf(orders[o]) + SpentOf(row)
         /\ Filled \in Int /\ Spent \in Int
         /\ FillOf(orders[o]) \in Int /\ SpentOf(orders[o]) \in Int
<1>. DEFINE f  == [p \in Orders |-> FillOf(orders[p])]
            f1 == [p \in Orders |-> FillOf(orders'[p])]
            s  == [p \in Orders |-> SpentOf(orders[p])]
            s1 == [p \in Orders |-> SpentOf(orders'[p])]
<1>1. /\ orders \in [Orders -> Order \cup {NoOrder}]
      /\ orders'[o] = row /\ \A p \in Orders \ {o} : orders'[p] = orders[p]
      /\ \A p \in Orders : orders'[p] \in Order \cup {NoOrder}
  BY DEF TradingTypeOK
<1>2. f \in [Orders -> Int] /\ f1 \in [Orders -> Int]
      /\ s \in [Orders -> Int] /\ s1 \in [Orders -> Int]
  BY <1>1, OrderCounts
<1>3. /\ \A p \in Orders \ {o} : f1[p] = f[p] /\ s1[p] = s[p]
      /\ f[o] = FillOf(orders[o]) /\ f1[o] = FillOf(row)
      /\ s[o] = SpentOf(orders[o]) /\ s1[o] = SpentOf(row)
  BY <1>1
<1>4. Filled = SumFunction(f) /\ Filled' = SumFunction(f1)
      /\ Spent = SumFunction(s) /\ Spent' = SumFunction(s1)
  BY DEF Filled, Spent
<1>5. FillOf(orders[o]) \in Int /\ SpentOf(orders[o]) \in Int
  BY <1>1, OrderCounts
<1>. HIDE DEF f, f1, s, s1
<1>6. SumFunction(f1) = SumFunction(f) - f[o] + f1[o]
      /\ SumFunction(s1) = SumFunction(s) - s[o] + s1[o]
  BY <1>2, <1>3, SumChanged, TradingAssumption
<1>7. SumFunction(f) \in Int /\ SumFunction(s) \in Int
  BY <1>2, SumIsInt, TradingAssumption
<1>. QED  BY <1>3, <1>4, <1>5, <1>6, <1>7

(* A fill adds its quantity and its cost to the row, with the sign of its side. *)
LEMMA FillCounts ==
  ASSUME NEW row \in Order, NEW c \in Cursor,
         FillQuantity(row) \in Nat, Cost(row, c) \in Nat, AfterFill(row, c) \in Order
  PROVE  /\ FillOf(AfterFill(row, c))  = FillOf(row) + Signed(row, FillQuantity(row))
         /\ SpentOf(AfterFill(row, c)) = SpentOf(row) + Signed(row, Cost(row, c))
<1>. DEFINE new == AfterFill(row, c)
<1>1. /\ row.filled \in Int /\ row.spent \in Int /\ row # NoOrder /\ new # NoOrder
  BY AbsentOrders DEF Order
<1>2. /\ new.side = row.side
      /\ new.filled = row.filled + FillQuantity(row)
      /\ new.spent = row.spent + Cost(row, c)
  BY DEF AfterFill, Order
<1>. HIDE DEF new
<1>3. /\ FillOf(new) = Signed(row, row.filled + FillQuantity(row))
      /\ FillOf(row) = Signed(row, row.filled)
      /\ SpentOf(new) = Signed(row, row.spent + Cost(row, c))
      /\ SpentOf(row) = Signed(row, row.spent)
  BY <1>1, <1>2 DEF FillOf, SpentOf, Signed
<1>. QED  BY <1>1, <1>3 DEF Signed, new

(* A row just submitted adds nothing yet.                                  *)
LEMMA NewRowCounts ==
  ASSUME NEW req \in Request
  PROVE  FillOf(NewRow(req)) = 0 /\ SpentOf(NewRow(req)) = 0
<1>. DEFINE row == NewRow(req)
<1>1. row.filled = 0 /\ row.spent = 0
  BY DEF NewRow
<1>. HIDE DEF row
<1>2. Signed(row, 0) = 0
  <2>1. 0 \in Int /\ \A n \in Int : -n = 0 - n
    OBVIOUS
  <2>2. -0 = 0 - 0
    BY <2>1, Zenon
  <2>3. -0 = 0
    BY <2>2
  <2>. QED  BY <2>3, Zenon DEF Signed
<1>3. FillOf(row) = 0 /\ SpentOf(row) = 0
  BY <1>1, <1>2 DEF FillOf, SpentOf
<1>. QED  BY <1>3 DEF row

(* A step that gives an order a row that counts the same explains the same. *)
LEMMA SameCountExplains ==
  ASSUME NEW other \in Int, OrdersExplained(other),
         buy = NoBuy, NEW o \in Orders, NEW row \in Order,
         orders' = [orders EXCEPT ![o] = row],
         FillOf(row) = FillOf(orders[o]), SpentOf(row) = SpentOf(orders[o]),
         UNCHANGED <<cash, position, shares, reserved, buy>>
  PROVE  FillsExplain(other)' /\ BuyExplained'
<1>0. /\ Filled' = Filled - FillOf(orders[o]) + FillOf(row)
      /\ Spent'  = Spent - SpentOf(orders[o]) + SpentOf(row)
      /\ Filled \in Int /\ Spent \in Int
      /\ FillOf(orders[o]) \in Int /\ SpentOf(orders[o]) \in Int
  BY RowChange DEF OrdersExplained, OrdersSound
<1>1. Filled' = Filled /\ Spent' = Spent
  BY <1>0
<1>2. Reserved' = Reserved
  BY DEF Reserved, ActiveQuantity
<1>. QED  BY <1>1, <1>2 DEF OrdersExplained, FillsExplain, SharesAddUp, BuyExplained

(* A sell gives up the position it filled and earns what it was worth. *)
LEMMA SellExplains ==
  ASSUME NEW other \in Int, OrdersExplained(other),
         OrdersSound', buy = NoBuy,
         NEW o \in Orders, NEW row, RowSound(row), row.status \in Live, row.side = "SELL",
         NEW c \in Cursor, row.cursor =< c,
         Marketable(row, c), FillSell(o, row, c),
         FillOf(row) = FillOf(orders[o]), SpentOf(row) = SpentOf(orders[o])
  PROVE  FillsExplain(other)' /\ BuyExplained'
<1>. DEFINE q == FillQuantity(row)
            p == Cost(row, c)
            new == AfterFill(row, c)
<1>1. q \in Nat /\ p \in Nat /\ RowSound(new)
  BY FillSound
<1>2. /\ position' = position - q
      /\ shares' = [shares EXCEPT !["CUSTOMER"] = @ - q]
      /\ cash' = Post(cash, [PROVISIONAL |-> p])
      /\ orders' = [orders EXCEPT ![o] = new]
      /\ reserved' = reserved /\ buy' = buy
  BY DEF FillSell
<1>3. /\ new \in Order /\ row \in Order /\ cash \in Balances
      /\ cash["SETTLED"] \in Int /\ cash["PROVISIONAL"] \in Int /\ position \in Int
  BY <1>1 DEF RowSound, OrdersExplained, OrdersSound, TradingTypeOK, Balances, Dimension
<1>4. FillOf(new) = FillOf(orders[o]) + Signed(row, q)
      /\ SpentOf(new) = SpentOf(orders[o]) + Signed(row, p)
  BY <1>1, <1>3, FillCounts
<1>. HIDE DEF q, p, new
<1>5. Signed(row, q) = -q /\ Signed(row, p) = -p
  BY DEF Signed
<1>6. /\ Filled' = Filled - FillOf(orders[o]) + FillOf(new)
      /\ Spent' = Spent - SpentOf(orders[o]) + SpentOf(new)
      /\ Filled \in Int /\ Spent \in Int
      /\ FillOf(orders[o]) \in Int /\ SpentOf(orders[o]) \in Int
  BY <1>2, <1>3, RowChange DEF OrdersExplained, OrdersSound
<1>7. Filled' = Filled - q /\ Spent' = Spent - p
  BY <1>1, <1>4, <1>5, <1>6
<1>8. cash'["SETTLED"] = cash["SETTLED"] /\ cash'["PROVISIONAL"] = cash["PROVISIONAL"] + p
  BY <1>1, <1>2, <1>3, PostSell DEF Dimension
<1>9. BuyingPower(cash)' = BuyingPower(cash) + p /\ BuyingPower(cash) \in Int
  BY <1>1, <1>3, <1>8 DEF BuyingPower
<1>10. shares'["LOCKED"] = shares["LOCKED"] /\ Reserved' = Reserved
  BY <1>2 DEF OrdersExplained, OrdersSound, TradingTypeOK, Reserved, ActiveQuantity
<1>11. /\ position' = Filled' /\ BuyingPower(cash)' = other - Spent'
  BY <1>1, <1>2, <1>6, <1>7, <1>9, TradingAssumption DEF OrdersExplained, FillsExplain
<1>12. SharesAddUp'
  BY DEF OrdersSound
<1>13. BuyExplained'
  BY <1>2 DEF BuyExplained
<1>. QED  BY <1>10, <1>11, <1>12, <1>13 DEF OrdersExplained, FillsExplain

(* A buy is decided: nothing is posted, and the decision says what will be. *)
LEMMA BeginBuyExplains ==
  ASSUME NEW other \in Int, OrdersExplained(other),
         NEW o \in Orders, NEW row, RowSound(row),
         row.status \in Live, row.side = "BUY", NEW c \in Cursor, row.cursor =< c,
         Marketable(row, c), BeginBuy(o, row, c),
         FillOf(row) = FillOf(orders[o]), SpentOf(row) = SpentOf(orders[o])
  PROVE  FillsExplain(other)' /\ BuyExplained'
<1>1. FillQuantity(row) \in Nat /\ Cost(row, c) \in Nat /\ RowSound(AfterFill(row, c))
  BY FillSound
<1>2. AfterFill(row, c) \in Order /\ row \in Order
  BY <1>1 DEF RowSound
<1>3. /\ FillOf(AfterFill(row, c)) = FillOf(orders[o]) + FillQuantity(row)
      /\ SpentOf(AfterFill(row, c)) = SpentOf(orders[o]) + Cost(row, c)
  BY <1>1, <1>2, FillCounts DEF Signed
<1>4. BuyExplained'
  BY <1>3 DEF BuyExplained, BeginBuy
<1>5. FillsExplain(other)'
  BY DEF OrdersExplained, FillsExplain, BeginBuy, SharesAddUp, Reserved,
         ActiveQuantity, Filled, Spent
<1>. QED  BY <1>4, <1>5

(* The posting of a decided buy is what its row adds.                      *)
LEMMA CommitBuyExplains ==
  ASSUME NEW other \in Int, OrdersExplained(other),
         OrdersSound', CommitBuy
  PROVE  FillsExplain(other)' /\ BuyExplained'
<1>. DEFINE rest == buy.cost - buy.provisional
            pro  == buy.provisional
            o    == buy.order
<1>1. /\ buy \in Buy /\ RowSound(buy.row) /\ 0 =< pro /\ pro =< buy.cost
  BY DEF OrdersExplained, OrdersSound, TradingTypeOK, BuySound, CommitBuy
<1>2. /\ o \in Orders /\ buy.qty \in Nat /\ buy.cost \in Nat /\ pro \in Int
      /\ buy.row \in Order
  BY <1>1 DEF Buy
<1>3. Positive(pro) = pro /\ Positive(rest) = rest /\ rest \in Nat
  BY <1>1, <1>2 DEF Positive
<1>4. /\ cash' = Post(cash, [PROVISIONAL |-> -pro, SETTLED |-> -rest,
                             WITHDRAWABLE |-> -rest])
      /\ position' = position + buy.qty
      /\ shares' = [shares EXCEPT !["CUSTOMER"] = @ + buy.qty]
      /\ orders' = [orders EXCEPT ![o] = buy.row]
      /\ buy' = NoBuy /\ reserved' = reserved
  BY <1>3 DEF CommitBuy
<1>5. rest + pro = buy.cost
  BY <1>2
<1>6. FillOf(buy.row) = FillOf(orders[o]) + buy.qty
      /\ SpentOf(buy.row) = SpentOf(orders[o]) + buy.cost
  BY DEF OrdersExplained, BuyExplained, CommitBuy
<1>. HIDE DEF rest, pro, o
<1>7. /\ cash \in Balances /\ cash["SETTLED"] \in Int /\ cash["PROVISIONAL"] \in Int
      /\ position \in Int
  BY DEF OrdersExplained, OrdersSound, TradingTypeOK, Balances, Dimension
<1>8. cash'["PROVISIONAL"] = cash["PROVISIONAL"] - pro
      /\ cash'["SETTLED"] = cash["SETTLED"] - rest
  <2>1. -pro \in Int /\ -rest \in Int
    BY <1>2, <1>3
  <2>. QED  BY <1>2, <1>3, <1>4, <1>7, <2>1, PostBuy
<1>9. BuyingPower(cash)' = BuyingPower(cash) - buy.cost /\ BuyingPower(cash) \in Int
  BY <1>2, <1>3, <1>5, <1>7, <1>8 DEF BuyingPower
<1>10. /\ Filled' = Filled - FillOf(orders[o]) + FillOf(buy.row)
       /\ Spent' = Spent - SpentOf(orders[o]) + SpentOf(buy.row)
       /\ Filled \in Int /\ Spent \in Int
       /\ FillOf(orders[o]) \in Int /\ SpentOf(orders[o]) \in Int
  BY <1>2, <1>4, RowChange DEF OrdersExplained, OrdersSound
<1>11. Filled' = Filled + buy.qty /\ Spent' = Spent + buy.cost
  BY <1>2, <1>6, <1>10
<1>12. shares'["LOCKED"] = shares["LOCKED"] /\ Reserved' = Reserved
  BY <1>4 DEF OrdersExplained, OrdersSound, TradingTypeOK, Reserved, ActiveQuantity
<1>13. position' = Filled' /\ BuyingPower(cash)' = other - Spent'
  BY <1>2, <1>4, <1>9, <1>10, <1>11, TradingAssumption DEF OrdersExplained, FillsExplain
<1>. QED
  BY <1>4, <1>12, <1>13 DEF OrdersExplained, FillsExplain, BuyExplained, OrdersSound

(* Custody locks what a reservation says, and unlocks it when it ends. *)
LEMMA CustodyExplains ==
  ASSUME NEW other \in Int, OrdersExplained(other),
         OrdersSound', NEW r \in Reservations,
         \/ \E qty \in Quantities : ReserveSettledShares(r, qty)
         \/ ReleaseSettledShares(r)
  PROVE  FillsExplain(other)' /\ BuyExplained'
<1>. DEFINE f  == [x \in Reservations |-> ActiveQuantity(x)]
            f1 == [x \in Reservations |-> ActiveQuantity(x)']
<1>1. UNCHANGED <<cash, orders, position, buy>>
  BY DEF ReserveSettledShares, ReleaseSettledShares
<1>2. /\ reserved \in [Reservations -> Reservation] /\ reserved' \in [Reservations -> Reservation]
      /\ shares["LOCKED"] \in Int
      /\ \A x \in Reservations \ {r} : reserved'[x] = reserved[x]
  BY DEF OrdersExplained, OrdersSound, TradingTypeOK, ReserveSettledShares, ReleaseSettledShares
<1>3. \A x \in Reservations : ActiveQuantity(x) \in Int /\ ActiveQuantity(x)' \in Int
  BY <1>2 DEF ActiveQuantity, Reservation
<1>4. shares'["LOCKED"] = shares["LOCKED"] - ActiveQuantity(r) + ActiveQuantity(r)'
  <2>1. CASE \E qty \in Quantities : ReserveSettledShares(r, qty)
    <3>1. PICK qty \in Quantities : ReserveSettledShares(r, qty)
      BY <2>1
    <3>2. qty \in Nat /\ ActiveQuantity(r) = 0 /\ ActiveQuantity(r)' = qty
      BY <1>2, <3>1, TradingAssumption DEF ReserveSettledShares, ActiveQuantity
    <3>3. shares'["LOCKED"] = shares["LOCKED"] + qty
      BY <3>1 DEF ReserveSettledShares, OrdersExplained, OrdersSound, TradingTypeOK
    <3>. QED  BY <1>2, <3>2, <3>3
  <2>2. CASE ReleaseSettledShares(r)
    <3>1. ActiveQuantity(r) = reserved[r].qty /\ ActiveQuantity(r)' = 0
      BY <1>2, <2>2 DEF ReleaseSettledShares, ActiveQuantity, Reservation
    <3>2. shares'["LOCKED"] = shares["LOCKED"] - reserved[r].qty
      BY <2>2 DEF ReleaseSettledShares, OrdersExplained, OrdersSound, TradingTypeOK
    <3>. QED  BY <1>2, <1>3, <3>1, <3>2
  <2>. QED  BY <2>1, <2>2
<1>5. f \in [Reservations -> Int] /\ f1 \in [Reservations -> Int]
  BY <1>3
<1>6. /\ \A x \in Reservations \ {r} : f1[x] = f[x]
      /\ f[r] = ActiveQuantity(r) /\ f1[r] = ActiveQuantity(r)'
  BY <1>2 DEF ActiveQuantity
<1>7. Reserved = SumFunction(f) /\ Reserved' = SumFunction(f1)
  BY DEF Reserved
<1>. HIDE DEF f, f1
<1>8. SumFunction(f1) = SumFunction(f) - f[r] + f1[r] /\ SumFunction(f) \in Int
  BY <1>5, <1>6, SumChanged, SumIsInt, TradingAssumption
<1>9. shares'["LOCKED"] = Reserved'
  BY <1>2, <1>3, <1>4, <1>6, <1>7, <1>8 DEF OrdersExplained, FillsExplain
<1>10. Filled' = Filled /\ Spent' = Spent
  BY <1>1 DEF Filled, Spent
<1>. QED
  BY <1>1, <1>9, <1>10 DEF OrdersExplained, FillsExplain, BuyExplained, OrdersSound

(* Submitting an order, with a fill or a decided buy at once or without.   *)
LEMMA SubmitExplains ==
  ASSUME NEW other \in Int, OrdersExplained(other),
         OrdersSound', NEW o \in Orders, NEW req \in Request, SubmitOrder(o, req)
  PROVE  FillsExplain(other)' /\ BuyExplained'
<1>. DEFINE row == NewRow(req)
<1>1. RowSound(row) /\ row.status \in Live /\ row.cursor =< 0 /\ 0 \in Cursor
  BY NewRowSound, TradingAssumption DEF Cursor
<1>2. buy = NoBuy /\ orders[o] = NoOrder
  BY DEF SubmitOrder
<1>3. FillOf(row) = FillOf(orders[o]) /\ SpentOf(row) = SpentOf(orders[o])
  BY <1>2, NewRowCounts DEF FillOf, SpentOf
<1>4. row.side = req.side /\ req.side \in {"BUY", "SELL"} /\ row \in Order
  BY <1>1 DEF NewRow, Request, RowSound
<1>. HIDE DEF row
<1>5. CASE orders' = [orders EXCEPT ![o] = row]
           /\ UNCHANGED <<cash, position, shares, reserved, buy>>
  BY <1>2, <1>3, <1>4, <1>5, SameCountExplains
<1>6. CASE Marketable(row, 0) /\ req.side = "SELL" /\ FillSell(o, row, 0)
  BY <1>1, <1>2, <1>3, <1>4, <1>6, SellExplains
<1>7. CASE Marketable(row, 0) /\ req.side # "SELL" /\ BeginBuy(o, row, 0)
  BY <1>1, <1>2, <1>3, <1>4, <1>7, BeginBuyExplains
<1>. QED  BY <1>5, <1>6, <1>7 DEF SubmitOrder, row

(* A quote later: no fill, a sale, or a decided buy.                       *)
LEMMA AdvanceExplains ==
  ASSUME NEW other \in Int, OrdersExplained(other),
         OrdersSound', NEW o \in Orders, AdvanceReplay(o)
  PROVE  FillsExplain(other)' /\ BuyExplained'
<1>. DEFINE row   == orders[o]
            c     == row.cursor + 1
            moved == [row EXCEPT !.cursor = c,
                                 !.status = IF Expires(row, c) THEN "EXPIRED" ELSE @]
<1>1. /\ buy = NoBuy /\ RowSound(row) /\ row.status \in Live /\ row \in Order
      /\ row.cursor < LastCursor
  BY DEF AdvanceReplay, IsLive, OrdersExplained, OrdersSound, Booked, RowSound
<1>2. row.cursor \in Nat /\ c \in Cursor /\ row.cursor =< c
      /\ row.side \in {"BUY", "SELL"}
  <2>1. row.cursor \in Cursor /\ LastCursor \in Nat
    BY <1>1, TradingAssumption DEF Order
  <2>. QED  BY <1>1, <2>1 DEF Cursor, Order
<1>3. CASE orders' = [orders EXCEPT ![o].cursor = c,
                               ![o].status = IF Expires(row, c) THEN "EXPIRED" ELSE @]
           /\ UNCHANGED <<cash, position, shares, reserved, buy>>
  <2>1. orders' = [orders EXCEPT ![o] = moved]
    BY <1>1, <1>3 DEF Order, OrdersExplained, OrdersSound, TradingTypeOK
  <2>2. moved \in Order
    BY <1>1, <1>2 DEF Order, Final
  <2>3. FillOf(moved) = FillOf(row) /\ SpentOf(moved) = SpentOf(row)
    <3>1. moved.side = row.side /\ moved.filled = row.filled /\ moved.spent = row.spent
      BY <1>1 DEF Order
    <3>2. moved # NoOrder /\ row # NoOrder
      BY <1>1, <2>2, AbsentOrders
    <3>. HIDE DEF moved
    <3>. QED  BY <3>1, <3>2 DEF FillOf, SpentOf, Signed
  <2>. HIDE DEF moved, c
  <2>. QED  BY <1>1, <1>3, <2>1, <2>2, <2>3, SameCountExplains
<1>. HIDE DEF c
<1>4. CASE Marketable(row, c) /\ row.side = "SELL" /\ FillSell(o, row, c)
  BY <1>1, <1>2, <1>4, SellExplains
<1>5. CASE Marketable(row, c) /\ row.side # "SELL" /\ BeginBuy(o, row, c)
  BY <1>1, <1>2, <1>5, BeginBuyExplains
<1>. QED  BY <1>3, <1>4, <1>5 DEF AdvanceReplay, c

(* A cancelled order keeps what it traded.                                 *)
LEMMA CancelExplains ==
  ASSUME NEW other \in Int, OrdersExplained(other),
         NEW o \in Orders, CancelOrder(o)
  PROVE  FillsExplain(other)' /\ BuyExplained'
<1>. DEFINE row  == orders[o]
            gone == [row EXCEPT !.status = "CANCELLED"]
<1>1. buy = NoBuy /\ row \in Order
  BY DEF CancelOrder, IsLive, OrdersExplained, OrdersSound, Booked, RowSound
<1>2. gone \in Order
  BY <1>1 DEF Order, Final
<1>3. gone.side = row.side /\ gone.filled = row.filled /\ gone.spent = row.spent
  BY <1>1 DEF Order
<1>4. /\ orders' = [orders EXCEPT ![o] = gone]
      /\ UNCHANGED <<cash, position, shares, reserved, buy>>
  BY DEF CancelOrder
<1>5. gone # NoOrder /\ row # NoOrder
  BY <1>1, <1>2, AbsentOrders
<1>. HIDE DEF gone
<1>6. FillOf(gone) = FillOf(row) /\ SpentOf(gone) = SpentOf(row)
  BY <1>3, <1>5 DEF FillOf, SpentOf, Signed
<1>. QED  BY <1>1, <1>2, <1>4, <1>6, SameCountExplains

(* Nothing is traded at first, and every step books what it trades.        *)
LEMMA TradingInitExplains == TradingInit => OrdersExplained(InitialCash)
<1>. SUFFICES ASSUME TradingInit  PROVE OrdersExplained(InitialCash)
  OBVIOUS
<1>1. OrdersSound
  BY TradingInitSound
<1>. DEFINE none  == [o \in Orders |-> FillOf(orders[o])]
            spent == [o \in Orders |-> SpentOf(orders[o])]
            held  == [r \in Reservations |-> ActiveQuantity(r)]
<1>2. /\ \A o \in Orders : none[o] = 0 /\ spent[o] = 0
      /\ \A r \in Reservations : held[r] = 0
  BY DEF TradingInit, FillOf, SpentOf, ActiveQuantity
<1>3. DOMAIN none = Orders /\ DOMAIN spent = Orders /\ DOMAIN held = Reservations
  OBVIOUS
<1>4. /\ Filled = SumFunction(none) /\ Spent = SumFunction(spent)
      /\ Reserved = SumFunction(held)
  BY DEF Filled, Spent, Reserved
<1>. HIDE DEF none, spent, held
<1>5. Filled = 0 /\ Spent = 0 /\ Reserved = 0
  BY <1>2, <1>3, <1>4, SumOfZeros, TradingAssumption DEF SumFunction
<1>6. BuyingPower(cash) = InitialCash
  BY InitialCashAssumption DEF TradingInit, Opened, BuyingPower, Dimension
<1>7. position = 0 /\ shares["LOCKED"] = 0 /\ buy = NoBuy
  BY DEF TradingInit
<1>. QED
  BY <1>1, <1>5, <1>6, <1>7, InitialCashAssumption
  DEF OrdersExplained, FillsExplain, BuyExplained, OrdersSound

(* Whatever others posted, a step of an order explains its own change.     *)
LEMMA TradingNextExplains ==
  ASSUME NEW other \in Int, OrdersExplained(other), [TradingNext]_tradingVars
  PROVE  OrdersExplained(other)'
<1>1. OrdersSound'
  BY TradingNextSound DEF OrdersExplained
<1>2. CASE UNCHANGED tradingVars
  BY <1>1, <1>2
  DEF tradingVars, OrdersExplained, FillsExplain, SharesAddUp, BuyExplained, Filled, Spent,
      Reserved, ActiveQuantity
<1>3. CASE RollBackBuy
  BY <1>1, <1>3
  DEF RollBackBuy, OrdersExplained, FillsExplain, SharesAddUp, BuyExplained, Filled,
      Spent, Reserved, ActiveQuantity
<1>4. CASE TradingNext /\ ~RollBackBuy
  <2>. FillsExplain(other)' /\ BuyExplained'
    BY <1>1, <1>4, SubmitExplains, AdvanceExplains, CancelExplains, CommitBuyExplains,
       CustodyExplains DEF TradingNext
  <2>. QED  BY <1>1 DEF OrdersExplained
<1>. QED  BY <1>2, <1>3, <1>4

(* The fills explain the position, the cash and the share accounts, for any *)
(* orders, quotes, custody moves and rolled back buys (fills.go).           *)
THEOREM FillsAlwaysExplain == TradingSpec => []FillsExplainBalances
<1>1. OrdersExplained(InitialCash) => FillsExplainBalances
  BY DEF OrdersExplained, FillsExplain, FillsExplainBalances
<1>2. OrdersExplained(InitialCash) /\ [TradingNext]_tradingVars => OrdersExplained(InitialCash)'
  BY TradingNextExplains, InitialCashAssumption
<1>. QED  BY <1>1, <1>2, TradingInitExplains, PTL DEF TradingSpec

-----------------------------------------------------------------------------
(* What a step may do to the row of an order: leave it, or continue it     *)
(* while it is live.                                                       *)
MayBecome(new, old) ==
    new = old \/ (Continues(new, old) /\ new \in Order /\ new.filled =< new.qty)

(* Every step leaves every booked row or continues it. *)
LEMMA StepContinues ==
  ASSUME OrdersSound, TradingNext, NEW x \in Booked
  PROVE  MayBecome(orders'[x], orders[x])
<1>1. /\ x \in Orders /\ orders[x] # NoOrder /\ RowSound(orders[x])
      /\ orders \in [Orders -> Order \cup {NoOrder}]
  BY DEF OrdersSound, TradingTypeOK, Booked
<1>2. CASE orders' = orders
  BY <1>2 DEF MayBecome
<1>3. ASSUME NEW o \in Orders, NEW row, RowSound(row),
             orders[o] # NoOrder => Continues(row, orders[o]),
             orders' = [orders EXCEPT ![o] = row]
      PROVE  MayBecome(orders'[x], orders[x])
  BY <1>1, <1>3 DEF MayBecome, RowSound
<1>4. ASSUME NEW o \in Orders, NEW req \in Request, SubmitOrder(o, req)
      PROVE  MayBecome(orders'[x], orders[x])
  <2>1. CASE orders' = orders
    BY <1>2, <2>1
  <2>2. CASE \E row : orders' = [orders EXCEPT ![o] = row]
    BY <1>1, <1>4, <2>2 DEF SubmitOrder, MayBecome
  <2>. QED  BY <1>4, <2>1, <2>2 DEF SubmitOrder, FillSell, BeginBuy
<1>5. ASSUME NEW o \in Orders, AdvanceReplay(o)
      PROVE  MayBecome(orders'[x], orders[x])
  <2>. DEFINE row == orders[o]
              c   == row.cursor + 1
  <2>1. RowSound(row) /\ row.status \in Live /\ row \in Order
        /\ row.cursor < LastCursor
    BY <1>5 DEF AdvanceReplay, IsLive, OrdersSound, Booked, RowSound
  <2>2. row.cursor \in Nat /\ c \in Cursor /\ row.cursor =< c
    <3>1. row.cursor \in Cursor /\ LastCursor \in Nat
      BY <2>1, TradingAssumption DEF Order
    <3>. QED  BY <2>1, <3>1 DEF Cursor
  <2>3. CASE orders' = [orders EXCEPT ![o].cursor = c,
                 ![o].status = IF Expires(row, c) THEN "EXPIRED" ELSE @]
    <3>. DEFINE new == orders'[o]
    <3>1. CASE x # o
      BY <1>1, <2>3, <3>1 DEF MayBecome
    <3>2. CASE x = o
      <4>1. new = [row EXCEPT !.cursor = c,
                              !.status = IF Expires(row, c) THEN "EXPIRED" ELSE @]
        BY <1>1, <2>3
      <4>2. new \in Order
        BY <2>1, <2>2, <4>1 DEF Order, Final
      <4>3. /\ new.side = row.side /\ new.limit = row.limit /\ new.qty = row.qty
            /\ new.filled = row.filled /\ new.spent = row.spent /\ new.cursor = c
        BY <2>1, <4>1 DEF Order
      <4>4. row.filled \in Nat /\ row.spent \in Nat /\ row.filled =< row.qty
        BY <2>1 DEF Order, RowSound
      <4>. HIDE DEF new
      <4>5. Continues(new, row) /\ new.filled =< new.qty
        BY <2>1, <2>2, <4>3, <4>4 DEF Continues
      <4>. QED  BY <3>2, <4>2, <4>5 DEF MayBecome, new
    <3>. QED  BY <3>1, <3>2
  <2>. HIDE DEF c
  <2>4. CASE Marketable(row, c) /\ FillSell(o, row, c)
    <3>1. RowSound(AfterFill(row, c)) /\ Continues(AfterFill(row, c), row)
      BY <2>1, <2>2, <2>4, FillSound
    <3>. HIDE DEF row
    <3>2. orders' = [orders EXCEPT ![o] = AfterFill(row, c)]
      BY <2>4 DEF FillSell
    <3>. QED  BY <1>3, <3>1, <3>2 DEF row
  <2>5. CASE BeginBuy(o, row, c)
    BY <1>2, <2>5 DEF BeginBuy
  <2>. QED  BY <1>5, <2>3, <2>4, <2>5 DEF AdvanceReplay, c
<1>6. ASSUME NEW o \in Orders, CancelOrder(o)
      PROVE  MayBecome(orders'[x], orders[x])
  <2>1. /\ orders' = [orders EXCEPT ![o].status = "CANCELLED"]
        /\ orders[o].status \in Live /\ orders[o] \in Order /\ RowSound(orders[o])
    BY <1>6 DEF CancelOrder, IsLive, OrdersSound, Booked, RowSound
  <2>2. CASE x # o
    BY <1>1, <2>1, <2>2 DEF MayBecome
  <2>3. CASE x = o
    <3>1. orders'[o] = [orders[o] EXCEPT !.status = "CANCELLED"]
      BY <1>1, <2>1
    <3>2. orders[o].filled \in Nat /\ orders[o].cursor \in Nat
      BY <2>1, TradingAssumption DEF Order, Cursor
    <3>. QED  BY <2>1, <2>3, <3>1, <3>2 DEF MayBecome, Continues, Order, Final, RowSound
  <2>. QED  BY <2>2, <2>3
<1>7. ASSUME CommitBuy
      PROVE  MayBecome(orders'[x], orders[x])
  <2>1. /\ RowSound(buy.row) /\ buy.order \in Orders
        /\ orders[buy.order] # NoOrder => Continues(buy.row, orders[buy.order])
    BY <1>7 DEF OrdersSound, TradingTypeOK, BuySound, CommitBuy, Buy
  <2>2. orders' = [orders EXCEPT ![buy.order] = buy.row]
    BY <1>7 DEF CommitBuy
  <2>. QED  BY <1>3, <2>1, <2>2
<1>8. ASSUME RollBackBuy \/ \E r \in Reservations :
               \/ \E qty \in Quantities : ReserveSettledShares(r, qty)
               \/ ReleaseSettledShares(r)
      PROVE  MayBecome(orders'[x], orders[x])
  BY <1>2, <1>8 DEF RollBackBuy, ReserveSettledShares, ReleaseSettledShares
<1>. QED  BY <1>4, <1>5, <1>6, <1>7, <1>8 DEF TradingNext

(* What a step makes of every order that is booked. *)
OrdersProceed ==
    \A o \in Booked :
        /\ orders'[o] # NoOrder
        /\ orders[o].status \in Final => orders'[o] = orders[o]
        /\ orders'[o].filled >= orders[o].filled
        /\ orders'[o].filled =< orders[o].qty
        /\ orders'[o].cursor >= orders[o].cursor

(* Orders proceed in every step. *)
LEMMA OrderStep ==
  ASSUME OrdersSound, [TradingNext]_tradingVars
  PROVE  OrdersProceed
<1>1. ASSUME NEW x \in Booked
      PROVE  /\ orders'[x] # NoOrder
             /\ orders[x].status \in Final => orders'[x] = orders[x]
             /\ orders'[x].filled >= orders[x].filled
             /\ orders'[x].filled =< orders[x].qty
             /\ orders'[x].cursor >= orders[x].cursor
  <2>1. RowSound(orders[x]) /\ orders[x] # NoOrder
    BY <1>1 DEF OrdersSound, Booked
  <2>2. orders[x].filled \in Nat /\ orders[x].cursor \in Nat
    BY <2>1, TradingAssumption DEF RowSound, Order, Cursor
  <2>3. MayBecome(orders'[x], orders[x])
    <3>1. CASE UNCHANGED tradingVars
      BY <3>1 DEF tradingVars, MayBecome
    <3>2. CASE TradingNext
      BY <1>1, <3>2, StepContinues
    <3>. QED  BY <1>1, <3>1, <3>2
  <2>4. CASE orders'[x] = orders[x]
    BY <2>1, <2>2, <2>4 DEF RowSound
  <2>5. CASE /\ Continues(orders'[x], orders[x]) /\ orders'[x] \in Order
             /\ orders'[x].filled =< orders'[x].qty
    BY <2>5, AbsentOrders DEF Continues, Live, Final
  <2>. QED  BY <2>3, <2>4, <2>5 DEF MayBecome
<1>. QED  BY <1>1 DEF OrdersProceed

(* Orders only progress, for any interleaving of fills, cancellations and  *)
(* rolled back buys.                                                       *)
THEOREM OrdersOnlyProgress == TradingSpec => OrdersProgress
<1>1. OrdersSound /\ [TradingNext]_tradingVars => [OrdersProceed]_tradingVars
  BY OrderStep
<1>. QED  BY <1>1, AlwaysSound, PTL DEF TradingSpec, OrdersProgress, OrdersProceed
=============================================================================
