---------------------------- MODULE CryptoProofs ----------------------------
(***************************************************************************)
(* For any assets, keys, calls, addresses, withdrawals, quotes, fees and   *)
(* limits, finite numbers of each:                                         *)
(*                                                                         *)
(*   - a purchase accounts for its budget to the rounding of its orders;   *)
(*   - every balance is what the conversions, legs, deposits and           *)
(*     withdrawals on record add up to;                                    *)
(*   - sales that were not reviewed stay below the limits together;        *)
(*   - no asset is used twice, and cash is overdrawn only by what other    *)
(*     modules spent and purchases took out of the proceeds of sales;      *)
(*   - a withdrawal goes to an address that was cooled off and is not      *)
(*     blocked.                                                            *)
(*                                                                         *)
(* The argument goes from the router to the books.  A route spends no more *)
(* than it may, an order at a time (Loop, a recursive function, by its     *)
(* least counterexample).  A result that is carried to its settlement is   *)
(* still one of such a route (CallSound).  A settlement reads the          *)
(* conversion again, so a leg is the only one of its sequence (LegsSound)  *)
(* and a conversion is routing until its last leg (RowComplete): these are *)
(* what keeps two calls of one key from settling twice.  A transaction     *)
(* then moves the balances by what it changes in the sums over the tables  *)
(* (SaleTables, PurchaseTables, TakenMoves), and BooksInv is inductive.    *)
(* Affords is what NothingOversold needs besides: a reservation that was   *)
(* found to be covered is still covered by what is not reserved when it    *)
(* commits, although the cash itself may be gone by then.                  *)
(***************************************************************************)
EXTENDS Crypto, MoneyTheorems, SequenceTheorems

-----------------------------------------------------------------------------
(* Calculations of the router                                              *)

(* A calculation is rounded to the nearest unit.                           *)
LEMMA CalculationError ==
  ASSUME NEW x \in Nat, NEW y \in Nat
  PROVE  /\ calculation(x, y) \in Nat
         /\ 2 * (One * calculation(x, y)) =< 2 * (x * y) + One
         /\ 2 * (x * y) =< 2 * (One * calculation(x, y)) + One
         /\ x = 0 => calculation(x, y) = 0
<1>. DEFINE n == x * y
            k == Rounded(n, One, "HALF_EVEN")
<1>1. n \in Nat /\ One \in Nat \ {0} /\ "HALF_EVEN" \in RoundingMode /\ (x = 0 => n = 0)
  BY OneAssumption DEF RoundingMode
<1>. HIDE DEF n
<1>2. k \in Nat /\ -One =< 2 * (k * One - n) /\ 2 * (k * One - n) =< One
  BY <1>1, MagnitudeRounded DEF HalfMode
<1>3. roundRatio(n, One, "HALF_EVEN") = k
  BY <1>1 DEF roundRatio, Rounded, Magnitude
<1>. HIDE DEF k
<1>4. calculation(x, y) = k
  BY <1>1, <1>2, <1>3 DEF calculation, Multiply, n
<1>5. k * One = One * k /\ k * One \in Nat
  BY <1>1, <1>2
<1>6. n = 0 => k = 0
  <2>1. ASSUME n = 0, k # 0  PROVE FALSE
    <3>1. One =< k * One
      BY <1>1, <1>2, <2>1
    <3>. QED  BY <1>1, <1>2, <1>5, <2>1, <3>1
  <2>. QED  BY <2>1
<1>. QED  BY <1>1, <1>2, <1>4, <1>5, <1>6 DEF n

(* Truncating division of a magnitude. *)
LEMMA TruncatedQuotient ==
  ASSUME NEW x \in Nat, NEW d \in Nat \ {0}
  PROVE  /\ roundRatio(x, d, "TOWARD_ZERO") \in Nat
         /\ roundRatio(x, d, "TOWARD_ZERO") * d =< x
<1>1. roundRatio(x, d, "TOWARD_ZERO") = Rounded(x, d, "TOWARD_ZERO")
  BY DEF roundRatio, Rounded, Magnitude
<1>. QED  BY <1>1, MagnitudeRounded DEF RoundingMode

(* A venue fills no more than it is asked to.                              *)
LEMMA ExecuteBounds ==
  ASSUME NEW venue, NEW quantity \in Nat, NEW behaviour
  PROVE  Execute(venue, quantity, behaviour) \in 0 .. quantity
<1>. DEFINE k == Divide(quantity, 2 * One, 1, "TOWARD_ZERO")
<1>1. k \in 0 .. quantity
  <2>. DEFINE r == roundRatio(quantity * One, 2 * One, "TOWARD_ZERO")
  <2>1. quantity * One \in Nat /\ 2 * One \in Nat \ {0} /\ One \in Nat \ {0}
    BY OneAssumption
  <2>2. r \in Nat /\ r * (2 * One) =< quantity * One
    BY <2>1, TruncatedQuotient
  <2>3. k = r
    BY <2>1, <2>2 DEF Divide
  <2>. HIDE DEF r, k
  <2>4. r =< quantity
    <3>1. ASSUME r > quantity  PROVE FALSE
      <4>1. (quantity + 1) * (2 * One) =< r * (2 * One)
        BY <2>1, <2>2, <3>1
      <4>2. (quantity + 1) * (2 * One) = 2 * (quantity * One) + 2 * One
        BY <2>1
      <4>. QED  BY <2>1, <2>2, <4>1, <4>2
    <3>. QED  BY <2>2, <3>1
  <2>. QED  BY <2>2, <2>3, <2>4
<1>. QED  BY <1>1 DEF Execute

LEMMA QuoteTypes ==
  ASSUME NEW asset \in DOMAIN Market, NEW v \in Venues
  PROVE  /\ Market[asset][v] \in VenueQuote
         /\ \A side \in {"BUY", "SELL"} : effectivePrice(side, Market[asset][v]) \in Int
<1>1. Market[asset][v] \in VenueQuote
  BY RouterAssumption
<1>. DEFINE q == Market[asset][v]
<1>3. q.ask \in Nat /\ q.bid \in Nat /\ q.fee \in Nat
  BY <1>1, OneAssumption DEF VenueQuote
<1>. HIDE DEF q
<1>4. calculation(q.ask, q.fee) \in Nat /\ calculation(q.bid, q.fee) \in Nat
  BY <1>3, CalculationError
<1>. QED  BY <1>1, <1>3, <1>4 DEF effectivePrice, q

-----------------------------------------------------------------------------
(* The venues in order                                                     *)

LEMMA BetterOrder ==
  ASSUME NEW asset \in DOMAIN Market, NEW side \in {"BUY", "SELL"},
         NEW u \in Venues, NEW v \in Venues, NEW w \in Venues
  PROVE  /\ v # w => Better(asset, side, v, w) \/ Better(asset, side, w, v)
         /\ Better(asset, side, u, v) /\ Better(asset, side, v, w) => Better(asset, side, u, w)
<1>. DEFINE P(x) == effectivePrice(side, Market[asset][x])
<1>1. P(u) \in Int /\ P(v) \in Int /\ P(w) \in Int
  BY QuoteTypes
<1>2. \A x, y : Better(asset, side, x, y) <=>
          \/ IF side = "BUY" THEN P(x) < P(y) ELSE P(x) > P(y)
          \/ P(x) = P(y) /\ x < y
  BY DEF Better
<1>. HIDE DEF P
<1>. QED  BY <1>1, <1>2 DEF Venues

LEMMA BestVenue ==
  ASSUME NEW asset \in DOMAIN Market, NEW side \in {"BUY", "SELL"},
         NEW S \in SUBSET Venues, S # {}
  PROVE  \E v \in S : \A w \in S \ {v} : Better(asset, side, v, w)
<1>. DEFINE B(v, w) == Better(asset, side, v, w)
<1>1. \A u, v, w \in Venues : /\ v # w => B(v, w) \/ B(w, v)
                              /\ B(u, v) /\ B(v, w) => B(u, w)
  BY BetterOrder
<1>. HIDE DEF B
<1>2. PICK x \in S : TRUE
  OBVIOUS
<1>3. CASE \A w \in S \ {x} : B(x, w)
  BY <1>3 DEF B
<1>4. CASE ~ \A w \in S \ {x} : B(x, w)
  <2>1. PICK y \in S \ {x} : B(y, x) /\ ~B(x, y)
    BY <1>1, <1>4
  <2>2. CASE \A w \in S \ {y} : B(y, w)
    BY <2>2 DEF B
  <2>3. CASE ~ \A w \in S \ {y} : B(y, w)
    <3>1. PICK z \in S \ {y} : B(z, y) /\ ~B(y, z)
      BY <1>1, <2>3
    <3>2. z # x /\ B(z, x)
      BY <1>1, <2>1, <3>1
    <3>3. ASSUME NEW w \in S \ {z}  PROVE w = x \/ w = y
      BY <2>1, <3>1, <3>2 DEF Venues
    <3>. QED  BY <3>1, <3>2, <3>3 DEF B
  <2>. QED  BY <2>2, <2>3
<1>. QED  BY <1>3, <1>4

LEMMA RankingExists ==
  ASSUME NEW asset \in DOMAIN Market, NEW side \in {"BUY", "SELL"}, NEW S \in SUBSET Venues
  PROVE  /\ Cardinality(S) \in 0 .. 3
         /\ \E ranking \in [1 .. Cardinality(S) -> S] :
               \A i, j \in DOMAIN ranking : i < j => Better(asset, side, ranking[i], ranking[j])
<1>. DEFINE B(v, w) == Better(asset, side, v, w)
            Ranks(s, n) == /\ s \in [1 .. n -> S]
                           /\ \A i, j \in DOMAIN s : i < j => B(s[i], s[j])
<1>. HIDE DEF B
<1>1. CASE S = {}
  <2>1. Cardinality(S) = 0
    BY <1>1, FS_EmptySet
  <2>. DEFINE s == [i \in 1 .. 0 |-> i]
  <2>2. Ranks(s, 0)
    BY <1>1
  <2>. HIDE DEF s, Ranks
  <2>3. Ranks(s, Cardinality(S))
    BY <2>1, <2>2
  <2>4. /\ s \in [1 .. Cardinality(S) -> S]
        /\ \A i, j \in DOMAIN s : i < j => B(s[i], s[j])
    BY <2>3 DEF Ranks
  <2>5. Cardinality(S) \in 0 .. 3
    BY <2>1
  <2>. QED  BY <2>4, <2>5, Zenon DEF B
<1>2. CASE S # {}
  <2>1. PICK a \in S : \A w \in S \ {a} : B(a, w)
    BY <1>2, BestVenue DEF B
  <2>2. CASE S = {a}
    <3>1. Cardinality(S) = 1
      BY <2>2, FS_Singleton
    <3>. DEFINE s == [i \in 1 .. 1 |-> a]
    <3>2. Ranks(s, 1)
      OBVIOUS
    <3>. HIDE DEF s, Ranks
    <3>3. Ranks(s, Cardinality(S))
      BY <3>1, <3>2
    <3>. QED  BY <3>1, <3>3 DEF Ranks, B
  <2>3. CASE S # {a}
    <3>1. PICK b \in S \ {a} : \A w \in (S \ {a}) \ {b} : B(b, w)
      <4>1. S \ {a} # {} /\ S \ {a} \in SUBSET Venues
        BY <2>1, <2>3
      <4>. QED  BY <4>1, BestVenue DEF B
    <3>2. IsFiniteSet({a}) /\ Cardinality({a}) = 1
      BY FS_Singleton
    <3>3. IsFiniteSet({a} \cup {b}) /\ Cardinality({a} \cup {b}) = 2
      BY <3>1, <3>2, FS_AddElement
    <3>4. CASE S = {a} \cup {b}
      <4>. DEFINE s == [i \in 1 .. 2 |-> IF i = 1 THEN a ELSE b]
      <4>1. Ranks(s, 2)
        BY <2>1, <3>1
      <4>. HIDE DEF s, Ranks
      <4>2. Cardinality(S) = 2 /\ Ranks(s, Cardinality(S))
        BY <3>3, <3>4, <4>1
      <4>. QED  BY <4>2 DEF Ranks, B
    <3>5. CASE S # {a} \cup {b}
      <4>1. PICK c \in S : c # a /\ c # b
        BY <2>1, <3>1, <3>5
      <4>2. S = ({a} \cup {b}) \cup {c}
        <5>1. ASSUME NEW w \in S  PROVE w \in ({a} \cup {b}) \cup {c}
          BY <2>1, <3>1, <4>1 DEF Venues
        <5>. QED  BY <2>1, <3>1, <4>1, <5>1
      <4>3. Cardinality(S) = 3
        BY <3>3, <4>1, <4>2, FS_AddElement
      <4>. DEFINE s == [i \in 1 .. 3 |-> IF i = 1 THEN a ELSE IF i = 2 THEN b ELSE c]
      <4>4. Ranks(s, 3)
        <5>1. B(a, b) /\ B(a, c) /\ B(b, c)
          BY <2>1, <3>1, <4>1
        <5>. QED  BY <5>1, <2>1, <3>1, <4>1
      <4>. HIDE DEF s, Ranks
      <4>5. Ranks(s, Cardinality(S))
        BY <4>3, <4>4
      <4>. QED  BY <4>3, <4>5 DEF Ranks, B
    <3>. QED  BY <3>4, <3>5
  <2>. QED  BY <2>2, <2>3
<1>. QED  BY <1>1, <1>2

(* Every venue in the order was a candidate, and there are three at most.  *)
LEMMA QuotesType ==
  ASSUME NEW asset \in DOMAIN Market, NEW side \in {"BUY", "SELL"}, NEW b \in Behaviour
  PROVE  LET S == Candidates(asset, side, b)
             venues == quotes(asset, side, b)
         IN  /\ venues \in Seq(S) /\ Len(venues) \in 0 .. 3
             /\ \A i \in 1 .. Len(venues) :
                   /\ venues[i] \in Venues
                   /\ effectivePrice(side, Market[asset][venues[i]]) > 0
<1>. DEFINE S == Candidates(asset, side, b)
            venues == quotes(asset, side, b)
            n == Cardinality(S)
<1>1. S \in SUBSET Venues /\ \A v \in S : effectivePrice(side, Market[asset][v]) > 0
  BY DEF Candidates, Behaviour
<1>2. venues = CHOOSE ranking \in [1 .. n -> S] :
          \A i, j \in DOMAIN ranking : i < j => Better(asset, side, ranking[i], ranking[j])
  BY DEF quotes
<1>. HIDE DEF S, venues
<1>3. n \in 0 .. 3 /\ venues \in [1 .. n -> S]
  BY <1>1, <1>2, RankingExists
<1>. HIDE DEF n
<1>4. venues \in Seq(S) /\ Len(venues) = n
  BY <1>3
<1>. QED  BY <1>1, <1>3, <1>4 DEF S, venues

-----------------------------------------------------------------------------
(* A route is three steps at most                                          *)

(* The routes after each venue, which the loop is defined by.              *)
IsPath(path, asset, side, input, b) ==
    path = [m \in 0 .. Len(quotes(asset, side, b)) |->
               IF m = 0 THEN Start(input)
               ELSE TradeAt(asset, side, b, path[m - 1], quotes(asset, side, b)[m])]

LEMMA PathExists ==
  ASSUME NEW asset \in DOMAIN Market, NEW side \in {"BUY", "SELL"}, NEW b \in Behaviour, NEW input
  PROVE  \E path : IsPath(path, asset, side, input, b)
<1>. DEFINE venues == quotes(asset, side, b)
            n == Len(venues)
            r0 == Start(input)
            r1 == TradeAt(asset, side, b, r0, venues[1])
            r2 == TradeAt(asset, side, b, r1, venues[2])
            r3 == TradeAt(asset, side, b, r2, venues[3])
            path == [m \in 0 .. n |-> IF m = 0 THEN r0 ELSE IF m = 1 THEN r1
                                      ELSE IF m = 2 THEN r2 ELSE r3]
            next == [m \in 0 .. n |-> IF m = 0 THEN Start(input)
                                      ELSE TradeAt(asset, side, b, path[m - 1], venues[m])]
<1>1. n \in 0 .. 3
  BY QuotesType
<1>2. ASSUME NEW m \in 0 .. n  PROVE path[m] = next[m]
  <2>. HIDE DEF venues, n
  <2>1. CASE m = 0
    BY <2>1
  <2>2. CASE m = 1
    <3>1. path[m - 1] = r0 /\ path[m] = r1
      BY <1>1, <2>2
    <3>. QED  BY <2>2, <3>1
  <2>3. CASE m = 2
    <3>1. path[m - 1] = r1 /\ path[m] = r2
      BY <1>1, <2>3
    <3>. QED  BY <2>3, <3>1
  <2>4. CASE m = 3
    <3>1. path[m - 1] = r2 /\ path[m] = r3
      BY <1>1, <2>4
    <3>. QED  BY <2>4, <3>1
  <2>. QED  BY <1>1, <2>1, <2>2, <2>3, <2>4
<1>3. path = next
  <2>1. DOMAIN path = 0 .. n /\ DOMAIN next = 0 .. n
    OBVIOUS
  <2>. HIDE DEF n
  <2>. QED  BY <1>2, <2>1
<1>. QED  BY <1>3 DEF IsPath

LEMMA LoopUnfolds ==
  ASSUME NEW asset \in DOMAIN Market, NEW side \in {"BUY", "SELL"}, NEW b \in Behaviour, NEW input
  PROVE  LET venues == quotes(asset, side, b)
         IN  \E path : /\ path[0] = Start(input)
                       /\ \A m \in 1 .. Len(venues) :
                             path[m] = TradeAt(asset, side, b, path[m - 1], venues[m])
                       /\ Loop(asset, side, input, b) = path[Len(venues)]
<1>. DEFINE venues == quotes(asset, side, b)
            path == CHOOSE p : IsPath(p, asset, side, input, b)
<1>1. IsPath(path, asset, side, input, b)
  BY PathExists
<1>2. Loop(asset, side, input, b) = path[Len(venues)]
  BY DEF Loop, IsPath
<1>3. Len(venues) \in 0 .. 3
  BY QuotesType
<1>. HIDE DEF path
<1>4. path[0] = Start(input)
  BY <1>1, <1>3 DEF IsPath
<1>5. ASSUME NEW m \in 1 .. Len(venues)
      PROVE  path[m] = TradeAt(asset, side, b, path[m - 1], venues[m])
  BY <1>1, <1>3 DEF IsPath
<1>. QED  BY <1>2, <1>4, <1>5

-----------------------------------------------------------------------------
(* What every route keeps                                                  *)

(* A sale sells what is left of its quantity, and charges what it fills.   *)
SaleKept(route, quantity) ==
    /\ route.remaining \in Nat /\ route.filled \in Nat
    /\ route.gross \in Nat /\ route.venueFee \in Nat
    /\ route.children \in Seq(ChildOrder)
    /\ route.filled + route.remaining = quantity

LEMMA StartSale ==
  ASSUME NEW quantity \in Nat
  PROVE  SaleKept(Start(quantity), quantity)
<1>1. <<>> \in Seq(ChildOrder)
  OBVIOUS
<1>. QED  BY <1>1 DEF SaleKept, Start

(* A child order of a sale or purchase with what it is filled and charged. *)
LEMMA ExecuteTypes ==
  ASSUME NEW asset \in DOMAIN Market, NEW side \in {"BUY", "SELL"}, NEW v \in Venues,
         NEW quantity \in Nat, NEW b \in Behaviour
  PROVE  LET child == execute(asset, side, v, quantity, b)
         IN  /\ child \in ChildOrder
             /\ child.requested = quantity
             /\ child.filled \in 0 .. quantity
             /\ child.gross \in Nat /\ child.venueFee \in Nat
             /\ child.gross = calculation(child.filled, IF side = "BUY" THEN Market[asset][v].ask
                                                                        ELSE Market[asset][v].bid)
             /\ child.venueFee = calculation(child.gross, Market[asset][v].fee)
<1>. DEFINE q == Market[asset][v]
            price == IF side = "BUY" THEN q.ask ELSE q.bid
            filled == Execute(v, quantity, b)
            gross == calculation(filled, price)
            venueFee == calculation(gross, q.fee)
<1>1. price \in Nat /\ q.fee \in Nat
  BY QuoteTypes, OneAssumption DEF VenueQuote
<1>2. filled \in 0 .. quantity /\ filled \in Nat
  BY ExecuteBounds
<1>3. execute(asset, side, v, quantity, b) =
        [venue |-> v, requested |-> quantity, filled |-> filled, gross |-> gross,
         venueFee |-> venueFee]
  BY DEF execute
<1>. HIDE DEF filled, price
<1>4. gross \in Nat
  BY <1>1, <1>2, CalculationError
<1>. HIDE DEF gross
<1>5. venueFee \in Nat
  BY <1>1, <1>4, CalculationError
<1>. HIDE DEF venueFee
<1>6. execute(asset, side, v, quantity, b) \in ChildOrder
  BY <1>2, <1>3, <1>4, <1>5 DEF ChildOrder
<1>. QED  BY <1>2, <1>3, <1>4, <1>5, <1>6 DEF price, gross, venueFee

LEMMA SaleStep ==
  ASSUME NEW asset \in DOMAIN Market, NEW v \in Venues, NEW b \in Behaviour,
         NEW quantity \in Nat, NEW route, SaleKept(route, quantity)
  PROVE  SaleKept(SellAt(asset, b, route, v), quantity)
<1>. DEFINE n == minimum(route.remaining, Market[asset][v].available)
            child == execute(asset, "SELL", v, n, b)
<1>1. n \in 0 .. route.remaining /\ n \in Nat
  BY QuoteTypes DEF SaleKept, minimum, VenueQuote
<1>2. /\ child \in ChildOrder /\ child.filled \in 0 .. n
      /\ child.gross \in Nat /\ child.venueFee \in Nat
  BY <1>1, ExecuteTypes
<1>3. CASE route.remaining =< 0
  BY <1>3 DEF SellAt
<1>4. CASE ~(route.remaining =< 0)
  <2>1. SellAt(asset, b, route, v) = addChildTotals(route, child, child.filled)
    BY <1>4 DEF SellAt
  <2>. HIDE DEF child, n
  <2>2. Append(route.children, child) \in Seq(ChildOrder)
    BY <1>2, AppendProperties DEF SaleKept
  <2>. DEFINE k == child.filled
              after == SellAt(asset, b, route, v)
  <2>3. /\ after.remaining = route.remaining - k /\ after.filled = route.filled + k
        /\ after.gross = route.gross + child.gross
        /\ after.venueFee = route.venueFee + child.venueFee
        /\ after.children = Append(route.children, child)
    BY <2>1 DEF addChildTotals
  <2>4. k \in Nat /\ k =< route.remaining
    BY <1>1, <1>2 DEF SaleKept
  <2>. HIDE DEF k, after
  <2>5. /\ after.remaining \in Nat /\ after.filled \in Nat
        /\ after.filled + after.remaining = quantity
    BY <2>3, <2>4 DEF SaleKept
  <2>6. after.gross \in Nat /\ after.venueFee \in Nat
    <3>1. route.gross \in Nat /\ route.venueFee \in Nat
      BY DEF SaleKept
    <3>. QED  BY <1>2, <2>3, <3>1
  <2>. QED  BY <2>2, <2>3, <2>5, <2>6 DEF SaleKept, after
<1>. QED  BY <1>3, <1>4

LEMMA SaleRoute ==
  ASSUME NEW asset \in DOMAIN Market, NEW b \in Behaviour, NEW quantity \in Nat
  PROVE  SaleKept(Loop(asset, "SELL", quantity, b), quantity)
<1>. DEFINE venues == quotes(asset, "SELL", b)
            n == Len(venues)
<1>1. n \in 0 .. 3 /\ \A i \in 1 .. n : venues[i] \in Venues
  BY QuotesType
<1>2. PICK path : /\ path[0] = Start(quantity)
                  /\ \A m \in 1 .. n : path[m] = TradeAt(asset, "SELL", b, path[m - 1], venues[m])
                  /\ Loop(asset, "SELL", quantity, b) = path[n]
  BY LoopUnfolds
<1>. HIDE DEF venues, n
<1>3. SaleKept(path[0], quantity)
  BY <1>2, StartSale
<1>4. ASSUME NEW m \in 1 .. n, SaleKept(path[m - 1], quantity)  PROVE SaleKept(path[m], quantity)
  BY <1>1, <1>2, <1>4, SaleStep DEF TradeAt
<1>5. n >= 1 => SaleKept(path[1], quantity)
  BY <1>1, <1>3, <1>4
<1>6. n >= 2 => SaleKept(path[2], quantity)
  BY <1>1, <1>4, <1>5
<1>7. n >= 3 => SaleKept(path[3], quantity)
  BY <1>1, <1>4, <1>6
<1>. QED  BY <1>1, <1>2, <1>3, <1>5, <1>6, <1>7

(* What a sale returns: never more than was asked for, and some proceeds   *)
(* exactly when something was sold.                                        *)
LEMMA SellResult ==
  ASSUME NEW asset \in DOMAIN Market, NEW b \in Behaviour, NEW quantity \in Nat,
         Sell(asset, quantity, b).status # "ERROR"
  PROVE  LET result == Sell(asset, quantity, b)
         IN  /\ result \in RouteResult
             /\ result.filled \in 0 .. quantity
             /\ result.final \in Nat
             /\ result.filled = 0 => result.final = 0
             /\ result.status = "FAILED" <=> result.filled = 0
<1>. DEFINE route == Loop(asset, "SELL", quantity, b)
            fee == calculation(route.gross, PlatformFeeRate)
            final == route.gross - route.venueFee - fee
            result == finalize("SELL", route)
<1>1. SaleKept(route, quantity)
  BY SaleRoute
<1>. HIDE DEF route
<1>2. PlatformFeeRate \in Nat /\ fee \in Nat
  <2>1. PlatformFeeRate \in Nat
    BY RouterAssumption, OneAssumption
  <2>2. route.gross \in Nat
    BY <1>1 DEF SaleKept
  <2>. QED  BY <2>1, <2>2, CalculationError
<1>. HIDE DEF fee
<1>3. final \in Int
  BY <1>1, <1>2 DEF SaleKept
<1>4. Sell(asset, quantity, b) = result
  BY DEF Sell, route
<1>5. /\ result.filled = route.filled /\ result.unspent = route.remaining
      /\ result.children = route.children
      /\ result.final = IF route.filled > 0 THEN final ELSE 0
      /\ result.status = IF route.filled = 0 THEN "FAILED"
                         ELSE IF final <= 0 THEN "ERROR"
                         ELSE IF route.remaining <= 0 THEN "FILLED" ELSE "PARTIALLY_FILLED"
      /\ result = [filled |-> result.filled, final |-> result.final, unspent |-> result.unspent,
                   children |-> result.children, status |-> result.status]
  BY DEF finalize, fee
<1>. HIDE DEF result, final
<1>6. CASE route.filled = 0
  <2>1. result.filled = 0 /\ result.final = 0 /\ result.status = "FAILED"
    BY <1>5, <1>6
  <2>2. result \in RouteResult
    <3>1. result.unspent \in Int /\ result.children \in Seq(ChildOrder)
      BY <1>1, <1>5 DEF SaleKept
    <3>. QED  BY <1>5, <2>1, <3>1 DEF RouteResult
  <2>. QED  BY <1>4, <2>1, <2>2
<1>7. CASE route.filled # 0
  <2>1. route.filled > 0 /\ result.final = final
    BY <1>1, <1>5, <1>7 DEF SaleKept
  <2>2. final > 0 /\ result.status \in {"FILLED", "PARTIALLY_FILLED"}
    <3>1. result.status # "ERROR" /\ route.remaining \in Nat
      BY <1>1, <1>4 DEF SaleKept
    <3>2. result.status = IF final =< 0 THEN "ERROR"
                          ELSE IF route.remaining =< 0 THEN "FILLED" ELSE "PARTIALLY_FILLED"
      BY <1>5, <1>7
    <3>. QED  BY <1>3, <3>1, <3>2
  <2>3. result \in RouteResult
    <3>1. /\ result.unspent \in Int /\ result.children \in Seq(ChildOrder)
          /\ result.filled \in Int /\ result.final \in Int
      BY <1>1, <1>3, <1>5, <2>1 DEF SaleKept
    <3>. QED  BY <1>5, <2>2, <3>1 DEF RouteResult
  <2>4. result.filled \in 0 .. quantity /\ result.final \in Nat /\ result.filled # 0
    BY <1>1, <1>3, <1>5, <2>1, <2>2 DEF SaleKept
  <2>. QED  BY <1>4, <2>2, <2>3, <2>4
<1>. QED  BY <1>6, <1>7

-----------------------------------------------------------------------------
(* What a purchase keeps                                                   *)

UnitsOf(child) == (3 * One + 2 * child.requested) \div (2 * One) + 1

RequestsTyped(children) ==
    /\ children \in Seq(ChildOrder)
    /\ \A i \in 1 .. Len(children) : children[i].requested \in Nat

LEMMA UnitsType ==
  ASSUME NEW child, child.requested \in Nat
  PROVE  /\ UnitsOf(child) \in Nat /\ UnitsOf(child) >= 2
         /\ 3 * One + 2 * child.requested < 2 * One * UnitsOf(child)
<1>. DEFINE n == 3 * One + 2 * child.requested
            d == 2 * One
            q == n \div d
<1>1. n \in Nat /\ d \in Nat \ {0} /\ n > d /\ One \in Nat
  BY OneAssumption
<1>2. q \in Nat /\ n % d \in 0 .. d - 1 /\ n = d * q + (n % d)
  BY <1>1, Division
<1>3. UnitsOf(child) = q + 1
  BY DEF UnitsOf
<1>. HIDE DEF q, n
<1>4. q # 0
  BY <1>1, <1>2
<1>5. d * (q + 1) = d * q + d
  BY <1>1, <1>2
<1>6. n < d * (q + 1)
  BY <1>1, <1>2, <1>5
<1>. QED  BY <1>2, <1>3, <1>4, <1>6 DEF n

LEMMA UnitsOfNone == RoundingUnits(<<>>) = 0
<1>1. [i \in DOMAIN <<>> |-> UnitsOf(<<>>[i])] = <<>>
  OBVIOUS
<1>2. SumFunctionOnSet([i \in DOMAIN <<>> |-> UnitsOf(<<>>[i])], {}) = 0
  BY FS_EmptySet, SumOfZeros
<1>. QED  BY <1>2 DEF RoundingUnits, SumFunction, UnitsOf

LEMMA UnitsAppended ==
  ASSUME NEW children, RequestsTyped(children), NEW child \in ChildOrder, child.requested \in Nat
  PROVE  /\ RoundingUnits(children) \in Nat
         /\ RoundingUnits(Append(children, child)) = RoundingUnits(children) + UnitsOf(child)
<1>. DEFINE n == Len(children)
            after == Append(children, child)
            f == [i \in 1 .. n |-> UnitsOf(children[i])]
            g == [i \in 1 .. n + 1 |-> UnitsOf(after[i])]
<1>1. /\ n \in Nat /\ DOMAIN children = 1 .. n /\ DOMAIN after = 1 .. n + 1
      /\ \A i \in 1 .. n : after[i] = children[i]
      /\ after[n + 1] = child
  BY AppendProperties DEF RequestsTyped
<1>2. RoundingUnits(children) = SumFunctionOnSet(f, 1 .. n)
  <2>1. f = [i \in DOMAIN children |->
                (3 * One + 2 * children[i].requested) \div (2 * One) + 1]
    BY <1>1 DEF UnitsOf
  <2>. QED  BY <1>1, <2>1 DEF RoundingUnits, SumFunction
<1>3. RoundingUnits(after) = SumFunctionOnSet(g, 1 .. n + 1)
  <2>1. g = [i \in DOMAIN after |-> (3 * One + 2 * after[i].requested) \div (2 * One) + 1]
    BY <1>1 DEF UnitsOf
  <2>. QED  BY <1>1, <2>1 DEF RoundingUnits, SumFunction
<1>. HIDE DEF after, n
<1>4. \A i \in 1 .. n : f[i] \in Nat
  BY UnitsType DEF RequestsTyped, n
<1>5. g[n + 1] = UnitsOf(child) /\ g[n + 1] \in Nat /\ \A i \in 1 .. n : g[i] = f[i]
  BY <1>1, UnitsType
<1>6. IsFiniteSet(1 .. n) /\ IsFiniteSet(1 .. n + 1)
  BY <1>1, FS_Interval
<1>7. \A i \in 1 .. n + 1 : g[i] \in Int
  BY <1>1, <1>4, <1>5
<1>8. (1 .. n + 1) \ {n + 1} = 1 .. n /\ n + 1 \in 1 .. n + 1
  BY <1>1
<1>. HIDE DEF f, g
<1>9. SumFunctionOnSet(g, 1 .. n + 1) = g[n + 1] + SumFunctionOnSet(g, (1 .. n + 1) \ {n + 1})
  BY <1>6, <1>7, <1>8, SumRemove
<1>10. SumFunctionOnSet(g, 1 .. n) = SumFunctionOnSet(f, 1 .. n)
  BY <1>5, <1>6, SumSame
<1>11. SumFunctionOnSet(f, 1 .. n) \in Nat
  BY <1>4, <1>6, SumNat
<1>12. UnitsOf(child) \in Nat
  BY UnitsType
<1>13. RoundingUnits(after) = UnitsOf(child) + SumFunctionOnSet(f, 1 .. n)
  BY <1>3, <1>5, <1>8, <1>9, <1>10
<1>14. RoundingUnits(children) \in Nat
  BY <1>2, <1>11
<1>15. RoundingUnits(after) = UnitsOf(child) + RoundingUnits(children)
  BY <1>2, <1>13
<1>16. RoundingUnits(after) = RoundingUnits(children) + UnitsOf(child)
  <2>. HIDE DEF after
  <2>1. \A x, y \in Nat : x + y = y + x
    OBVIOUS
  <2>. QED  BY <1>12, <1>14, <1>15, <2>1, Zenon
<1>. QED  BY <1>14, <1>16 DEF after

(* The platform's fees of the children so far: what was spent beyond the   *)
(* gross amount and the venues' fees.                                      *)
FeesOf(route, budget) == budget - route.remaining - route.gross - route.venueFee

BuyKept(route, budget) ==
    /\ route.remaining \in Int /\ route.filled \in Nat
    /\ route.gross \in Nat /\ route.venueFee \in Nat
    /\ RequestsTyped(route.children)
    /\ RoundingUnits(route.children) >= 2 * Len(route.children)
    /\ route.remaining >= -RoundingUnits(route.children)
    /\ FeesOf(route, budget) \in Nat
    /\ 2 * (One * FeesOf(route, budget))
          =< 2 * (route.gross * PlatformFeeRate) + Len(route.children) * One
    /\ 2 * (route.gross * PlatformFeeRate)
          =< 2 * (One * FeesOf(route, budget)) + Len(route.children) * One
    /\ route.filled = 0 => route.gross = 0 /\ route.venueFee = 0 /\ FeesOf(route, budget) = 0

LEMMA StartPurchase ==
  ASSUME NEW budget \in Nat
  PROVE  BuyKept(Start(budget), budget)
<1>. DEFINE route == Start(budget)
<1>1. /\ route.remaining = budget /\ route.filled = 0 /\ route.gross = 0
      /\ route.venueFee = 0 /\ route.children = <<>>
  BY DEF Start
<1>2. RequestsTyped(<<>>) /\ Len(<<>>) = 0
  BY DEF RequestsTyped
<1>3. PlatformFeeRate \in Nat /\ One \in Nat
  BY RouterAssumption, OneAssumption
<1>. HIDE DEF route
<1>4. FeesOf(route, budget) = 0
  BY <1>1 DEF FeesOf
<1>. QED  BY <1>1, <1>2, <1>3, <1>4, UnitsOfNone DEF BuyKept, route

(* Products of an inequality. *)
LEMMA Scaled ==
  ASSUME NEW x \in Int, NEW y \in Int, x =< y, NEW z \in Nat
  PROVE  x * z =< y * z /\ z * x =< z * y
<1>1. (y - x) * z >= 0
  BY SMTT(20)
<1>2. (y - x) * z = y * z - x * z /\ z * x = x * z /\ z * y = y * z
  BY SMTT(20)
<1>3. x * z \in Int /\ y * z \in Int
  OBVIOUS
<1>. QED  BY <1>1, <1>2, <1>3

(* A child order bought with a budget that affords it at its price with    *)
(* both fees costs more than the budget by rounding only.                  *)
LEMMA CostBound ==
  ASSUME NEW ask \in Nat, NEW rate \in 0 .. One, NEW remaining \in Nat, NEW asked \in Nat,
         NEW filled \in 0 .. asked, NEW units \in Nat,
         3 * One + 2 * asked < 2 * One * units,
         asked * (ask + calculation(ask, rate) + calculation(ask, PlatformFeeRate))
            =< remaining * One
  PROVE  LET gross == calculation(filled, ask)
         IN  gross + calculation(gross, rate) + calculation(gross, PlatformFeeRate)
                =< remaining + units
<1>. DEFINE fee == PlatformFeeRate
            V == calculation(ask, rate)
            W == calculation(ask, fee)
            g == calculation(filled, ask)
            c == calculation(g, rate)
            e == calculation(g, fee)
<1>1. One \in Nat \ {0} /\ rate \in Nat /\ rate =< One /\ fee \in Nat /\ fee =< One - 1
      /\ filled \in Nat /\ filled =< asked
  BY OneAssumption, RouterAssumption
<1>2. /\ V \in Nat /\ 2 * (ask * rate) =< 2 * (One * V) + One
      /\ W \in Nat /\ 2 * (ask * fee) =< 2 * (One * W) + One
      /\ g \in Nat /\ 2 * (One * g) =< 2 * (filled * ask) + One
  BY <1>1, CalculationError
<1>. HIDE DEF V, W, g, fee
<1>3. /\ c \in Nat /\ 2 * (One * c) =< 2 * (g * rate) + One
      /\ e \in Nat /\ 2 * (One * e) =< 2 * (g * fee) + One
  BY <1>1, <1>2, CalculationError
<1>. HIDE DEF c, e
(* The fees of the venue and of the platform are charged alike. *)
<1>4. ASSUME NEW r \in Nat, r =< One, NEW k \in Nat, NEW u \in Nat,
             2 * (One * k) =< 2 * (g * r) + One, 2 * (ask * r) =< 2 * (One * u) + One
      PROVE  2 * (One * k) =< 2 * (filled * u) + filled + r + One
  <2>1. (2 * (One * g)) * r =< (2 * (filled * ask) + One) * r
    <3>1. 2 * (One * g) \in Int /\ 2 * (filled * ask) + One \in Int
      BY <1>1, <1>2
    <3>. QED  BY <1>2, <1>4, <3>1, Scaled
  <2>2. filled * (2 * (ask * r)) =< filled * (2 * (One * u) + One)
    <3>1. 2 * (ask * r) \in Int /\ 2 * (One * u) + One \in Int
      BY <1>1, <1>4
    <3>. QED  BY <1>1, <1>4, <3>1, Scaled
  <2>3. One * (2 * (One * k)) =< One * (2 * (g * r) + One)
    <3>1. 2 * (One * k) \in Int /\ 2 * (g * r) + One \in Int
      BY <1>1, <1>2, <1>4
    <3>. QED  BY <1>1, <1>4, <3>1, Scaled
  <2>. DEFINE x == One * (2 * (One * k))
              y == 2 * (filled * u) + filled + r + One
  <2>4. /\ (2 * (One * g)) * r = One * (2 * (g * r))
        /\ (2 * (filled * ask) + One) * r = filled * (2 * (ask * r)) + One * r
        /\ filled * (2 * (One * u) + One) = One * (2 * (filled * u)) + One * filled
        /\ One * (2 * (g * r) + One) = One * (2 * (g * r)) + One * One
    BY <1>1, <1>2, <1>4, SMTT(20)
  <2>5. One * y = One * (2 * (filled * u)) + One * filled + One * r + One * One
    BY <1>1, <1>4, SMTT(20)
  <2>6. /\ One * (2 * (g * r)) \in Int /\ filled * (2 * (ask * r)) \in Int /\ One * r \in Int
        /\ One * (2 * (filled * u)) \in Int /\ One * filled \in Int /\ One * One \in Int
        /\ x \in Int
    BY <1>1, <1>2, <1>4
  <2>7. x =< One * y
    <3>. DEFINE a1 == One * (2 * (g * r))
                a2 == filled * (2 * (ask * r))
                a3 == One * r
                a4 == One * (2 * (filled * u))
                a5 == One * filled
                a6 == One * One
    <3>1. /\ a1 =< a2 + a3 /\ a2 =< a4 + a5 /\ x =< a1 + a6
          /\ One * y = a4 + a5 + a3 + a6
      BY <2>1, <2>2, <2>3, <2>4, <2>5
    <3>2. a1 \in Int /\ a2 \in Int /\ a3 \in Int /\ a4 \in Int /\ a5 \in Int /\ a6 \in Int
      BY <2>6
    <3>. HIDE DEF a1, a2, a3, a4, a5, a6, x, y
    <3>3. x \in Int
      BY <2>6
    <3>. QED  BY <3>1, <3>2, <3>3
  <2>8. ASSUME 2 * (One * k) > y  PROVE FALSE
    <3>1. y \in Int /\ 2 * (One * k) \in Int /\ y + 1 =< 2 * (One * k)
      BY <1>1, <1>4, <2>8
    <3>. HIDE DEF y
    <3>2. One * (y + 1) =< x
      BY <1>1, <3>1, Scaled
    <3>3. One * (y + 1) = One * y + One /\ One * y \in Int
      BY <1>1, <3>1
    <3>. HIDE DEF x
    <3>. QED  BY <1>1, <2>6, <2>7, <3>2, <3>3
  <2>. QED  BY <1>1, <1>4, <2>8
<1>5. 2 * (One * c) =< 2 * (filled * V) + filled + rate + One
  BY <1>1, <1>2, <1>3, <1>4
<1>6. 2 * (One * e) =< 2 * (filled * W) + filled + fee + One
  BY <1>1, <1>2, <1>3, <1>4
<1>. DEFINE P == ask + V + W
            cost == g + c + e
<1>7. filled * P =< asked * P /\ asked * P =< remaining * One
  <2>1. P \in Nat
    BY <1>2
  <2>. HIDE DEF P
  <2>2. filled * P =< asked * P
    BY <1>1, <2>1, Scaled
  <2>. QED  BY <2>2 DEF P, V, W, fee
<1>8. /\ filled * P = filled * ask + filled * V + filled * W
      /\ One * cost = One * g + One * c + One * e
  BY <1>1, <1>2, <1>3, SMTT(20)
<1>9. 2 * (One * cost) =< 2 * (remaining * One) + 2 * asked + 5 * One - 1
  <2>. DEFINE b1 == filled * ask
              b2 == filled * V
              b3 == filled * W
              b4 == One * g
              b5 == One * c
              b6 == One * e
              b7 == remaining * One
              b8 == asked * P
  <2>1. /\ b1 \in Int /\ b2 \in Int /\ b3 \in Int /\ b4 \in Int /\ b5 \in Int /\ b6 \in Int
        /\ b7 \in Int /\ b8 \in Int
    BY <1>1, <1>2, <1>3
  <2>2. /\ 2 * b4 =< 2 * b1 + One
        /\ 2 * b5 =< 2 * b2 + filled + rate + One
        /\ 2 * b6 =< 2 * b3 + filled + fee + One
        /\ b1 + b2 + b3 =< b8 /\ b8 =< b7
        /\ One * cost = b4 + b5 + b6
    BY <1>2, <1>5, <1>6, <1>7, <1>8
  <2>. HIDE DEF b1, b2, b3, b4, b5, b6, b7, b8, cost, P
  <2>3. 2 * (b4 + b5 + b6) =< 2 * b7 + 2 * asked + 5 * One - 1
    BY <1>1, <2>1, <2>2
  <2>. QED  BY <2>2, <2>3 DEF b7
<1>10. cost \in Nat
  BY <1>2, <1>3
<1>. HIDE DEF cost, P
<1>11. cost =< remaining + units
  <2>. DEFINE over == cost - remaining - units
  <2>1. ASSUME over >= 1  PROVE FALSE
    <3>1. over \in Nat /\ cost = remaining + units + over
      BY <1>10, <2>1
    <3>. HIDE DEF over
    <3>2. One * cost = One * remaining + One * units + One * over
      BY <1>1, <3>1, SMTT(20)
    <3>3. One * 1 =< One * over /\ One * 1 = One
      BY <1>1, <2>1, <3>1, Scaled
    <3>4. 2 * One * units = 2 * (One * units) /\ remaining * One = One * remaining
      BY <1>1
    <3>. DEFINE d1 == One * remaining
                d2 == One * units
                d3 == One * over
                d4 == One * cost
    <3>5. d1 \in Int /\ d2 \in Int /\ d3 \in Int /\ d4 \in Int
      BY <1>1, <1>10, <3>1
    <3>6. /\ d4 = d1 + d2 + d3 /\ One =< d3
          /\ 2 * d4 =< 2 * d1 + 2 * asked + 5 * One - 1
          /\ 3 * One + 2 * asked < 2 * d2
      BY <1>9, <3>2, <3>3, <3>4
    <3>. HIDE DEF d1, d2, d3, d4
    <3>. QED  BY <1>1, <3>5, <3>6
  <2>. QED  BY <1>10, <2>1
<1>. QED  BY <1>11 DEF cost, g, c, e, fee

LEMMA BuyStep ==
  ASSUME NEW asset \in DOMAIN Market, NEW v \in Venues, NEW b \in Behaviour,
         effectivePrice("BUY", Market[asset][v]) > 0,
         NEW budget \in Nat, NEW route, BuyKept(route, budget)
  PROVE  BuyKept(BuyAt(asset, b, route, v), budget)
<1>. DEFINE q == Market[asset][v]
            P == effectivePrice("BUY", q) + calculation(q.ask, PlatformFeeRate)
            n == minimum(affordable(asset, v, route.remaining), q.available)
            child == execute(asset, "BUY", v, n, b)
            after == BuyAt(asset, b, route, v)
<1>1. CASE route.remaining < 0 \/ route.remaining =< CompletionDust \/ n =< 0
  BY <1>1 DEF BuyAt
<1>2. CASE ~(route.remaining < 0 \/ route.remaining =< CompletionDust \/ n =< 0)
  <2>1. after = addChildTotals(route, child, childCost(child))
    BY <1>2 DEF BuyAt
  <2>2. /\ One \in Nat \ {0} /\ PlatformFeeRate \in Nat /\ PlatformFeeRate \in 0 .. One - 1
        /\ q.ask \in Nat /\ q.fee \in Nat /\ q.fee \in 0 .. One /\ q.available \in Nat
    BY OneAssumption, RouterAssumption, QuoteTypes DEF VenueQuote
  <2>3. route.remaining \in Nat
    BY <1>2 DEF BuyKept
  <2>0. /\ route.filled \in Nat /\ route.gross \in Nat /\ route.venueFee \in Nat
        /\ FeesOf(route, budget) \in Nat
        /\ route.filled = 0 =>
              route.gross = 0 /\ route.venueFee = 0 /\ FeesOf(route, budget) = 0
    BY DEF BuyKept
  <2>4. P = q.ask + calculation(q.ask, q.fee) + calculation(q.ask, PlatformFeeRate) /\ P \in Nat \ {0}
    <3>1. calculation(q.ask, q.fee) \in Nat /\ calculation(q.ask, PlatformFeeRate) \in Nat
      BY <2>2, CalculationError
    <3>2. effectivePrice("BUY", q) = q.ask + calculation(q.ask, q.fee)
      BY DEF effectivePrice
    <3>. HIDE DEF q
    <3>. QED  BY <2>2, <3>1, <3>2 DEF q
  <2>5. /\ affordable(asset, v, route.remaining) \in Nat
        /\ affordable(asset, v, route.remaining) * P =< route.remaining * One
    <3>1. affordable(asset, v, route.remaining) = roundRatio(route.remaining * One, P, "TOWARD_ZERO")
      <4>1. affordable(asset, v, route.remaining)
              = 1 * roundRatio(route.remaining * One, P * 1, "TOWARD_ZERO")
        BY DEF affordable, Divide
      <4>. HIDE DEF P
      <4>2. P * 1 = P
        BY <2>4
      <4>3. route.remaining * One \in Nat
        BY <2>2, <2>3
      <4>. DEFINE m == roundRatio(route.remaining * One, P, "TOWARD_ZERO")
      <4>4. m \in Nat
        BY <2>4, <4>3, TruncatedQuotient
      <4>5. affordable(asset, v, route.remaining) = 1 * m
        BY <4>1, <4>2
      <4>. HIDE DEF m
      <4>6. 1 * m = m
        BY <4>4
      <4>. QED  BY <4>5, <4>6 DEF m
    <3>. HIDE DEF P
    <3>. QED  BY <2>2, <2>3, <2>4, <3>1, TruncatedQuotient
  <2>6. n \in Nat /\ n =< affordable(asset, v, route.remaining)
    BY <2>2, <2>5 DEF minimum
  <2>7. n * P =< route.remaining * One
    <3>. DEFINE m == affordable(asset, v, route.remaining)
    <3>. HIDE DEF P, n, m
    <3>1. n * P =< m * P
      BY <2>4, <2>5, <2>6, Scaled DEF m
    <3>. QED  BY <2>2, <2>3, <2>4, <2>5, <2>6, <3>1 DEF m
  <2>. HIDE DEF n
  <2>8. /\ child \in ChildOrder /\ child.requested = n
        /\ child.filled \in 0 .. n /\ child.filled \in Nat
        /\ child.gross \in Nat /\ child.venueFee \in Nat
        /\ child.gross = calculation(child.filled, q.ask)
        /\ child.venueFee = calculation(child.gross, q.fee)
    BY <2>6, ExecuteTypes
  <2>. DEFINE u == UnitsOf(child)
              fee == calculation(child.gross, PlatformFeeRate)
              cost == childCost(child)
              R == RoundingUnits(route.children)
  <2>9. /\ u \in Nat /\ u >= 2 /\ 3 * One + 2 * n < 2 * One * u
    BY <2>6, <2>8, UnitsType
  <2>10. cost = child.gross + child.venueFee + fee
    BY DEF childCost
  <2>11. /\ fee \in Nat
         /\ 2 * (One * fee) =< 2 * (child.gross * PlatformFeeRate) + One
         /\ 2 * (child.gross * PlatformFeeRate) =< 2 * (One * fee) + One
         /\ child.gross = 0 => fee = 0
    BY <2>2, <2>8, CalculationError
  <2>12. cost =< route.remaining + u
    <3>. HIDE DEF u, child, q
    <3>1. n * (q.ask + calculation(q.ask, q.fee) + calculation(q.ask, PlatformFeeRate))
             =< route.remaining * One
      BY <2>4, <2>7
    <3>2. 3 * One + 2 * n < 2 * One * u /\ u \in Nat
      BY <2>9
    <3>. DEFINE g == calculation(child.filled, q.ask)
    <3>3. g + calculation(g, q.fee) + calculation(g, PlatformFeeRate) =< route.remaining + u
      BY <2>2, <2>3, <2>6, <2>8, <3>1, <3>2, CostBound
    <3>4. cost = g + calculation(g, q.fee) + calculation(g, PlatformFeeRate)
      BY <2>8, <2>10
    <3>. HIDE DEF g, cost
    <3>. QED  BY <3>3, <3>4
  <2>13. child.filled = 0 => child.gross = 0 /\ child.venueFee = 0 /\ fee = 0
    <3>1. child.filled = 0 => child.gross = 0
      BY <2>2, <2>8, CalculationError
    <3>2. child.gross = 0 => child.venueFee = 0
      BY <2>2, <2>8, CalculationError
    <3>. QED  BY <2>11, <3>1, <3>2
  <2>14. /\ R \in Nat
         /\ RoundingUnits(Append(route.children, child)) = R + u
    BY <2>6, <2>8, UnitsAppended DEF BuyKept
  <2>15. /\ RequestsTyped(Append(route.children, child))
         /\ Len(Append(route.children, child)) = Len(route.children) + 1
         /\ Len(route.children) \in Nat
    <3>. HIDE DEF child
    <3>1. route.children \in Seq(ChildOrder)
          /\ \A i \in 1 .. Len(route.children) : route.children[i].requested \in Nat
      BY DEF BuyKept, RequestsTyped
    <3>2. /\ Append(route.children, child) \in Seq(ChildOrder)
          /\ Len(Append(route.children, child)) = Len(route.children) + 1
          /\ Append(route.children, child)[Len(route.children) + 1] = child
          /\ \A i \in 1 .. Len(route.children) :
                Append(route.children, child)[i] = route.children[i]
      BY <2>8, <3>1, AppendProperties
    <3>3. Len(route.children) \in Nat
      BY <3>1
    <3>4. ASSUME NEW i \in 1 .. Len(route.children) + 1
          PROVE  Append(route.children, child)[i].requested \in Nat
      BY <2>6, <2>8, <3>1, <3>2, <3>3
    <3>. QED  BY <3>2, <3>3, <3>4 DEF RequestsTyped
  <2>16. /\ after.remaining = route.remaining - cost
         /\ after.filled = route.filled + child.filled
         /\ after.gross = route.gross + child.gross
         /\ after.venueFee = route.venueFee + child.venueFee
         /\ after.children = Append(route.children, child)
    BY <2>1 DEF addChildTotals
  <2>17. FeesOf(after, budget) = FeesOf(route, budget) + fee
    <3>. DEFINE gr == child.gross
                vf == child.venueFee
    <3>1. /\ route.remaining \in Nat /\ route.gross \in Nat /\ route.venueFee \in Nat
          /\ gr \in Nat /\ vf \in Nat /\ fee \in Nat
      BY <2>3, <2>8, <2>11 DEF BuyKept
    <3>2. /\ after.remaining = route.remaining - (gr + vf + fee)
          /\ after.gross = route.gross + gr /\ after.venueFee = route.venueFee + vf
      BY <2>10, <2>16
    <3>. HIDE DEF gr, vf, fee, after
    <3>. QED  BY <3>1, <3>2 DEF FeesOf
  <2>. DEFINE F == FeesOf(route, budget)
              L == Len(route.children)
              r == PlatformFeeRate
  <2>18. /\ F \in Nat /\ L \in Nat /\ route.gross \in Nat
         /\ 2 * (One * F) =< 2 * (route.gross * r) + L * One
         /\ 2 * (route.gross * r) =< 2 * (One * F) + L * One
         /\ R >= 2 * L
    BY <2>15 DEF BuyKept
  <2>19. /\ One * (F + fee) = One * F + One * fee
         /\ (route.gross + child.gross) * r = route.gross * r + child.gross * r
         /\ (L + 1) * One = L * One + One
    <3>. HIDE DEF child, fee, F, L
    <3>. QED  BY <2>2, <2>8, <2>11, <2>18, SMTT(20)
  <2>20. /\ 2 * (One * (F + fee)) =< 2 * ((route.gross + child.gross) * r) + (L + 1) * One
         /\ 2 * ((route.gross + child.gross) * r) =< 2 * (One * (F + fee)) + (L + 1) * One
    <3>. DEFINE c1 == One * F
                c2 == One * fee
                c3 == route.gross * r
                c4 == child.gross * r
                c5 == L * One
    <3>1. c1 \in Int /\ c2 \in Int /\ c3 \in Int /\ c4 \in Int /\ c5 \in Int
      <4>. HIDE DEF child, fee, F, L, r
      <4>1. fee \in Nat /\ F \in Nat /\ r \in Nat /\ child.gross \in Nat
            /\ route.gross \in Nat /\ L \in Nat /\ One \in Nat
        BY <2>2, <2>8, <2>11, <2>18 DEF r
      <4>. QED  BY <4>1
    <3>2. /\ 2 * c1 =< 2 * c3 + c5 /\ 2 * c3 =< 2 * c1 + c5
          /\ 2 * c2 =< 2 * c4 + One /\ 2 * c4 =< 2 * c2 + One
      BY <2>11, <2>18
    <3>3. /\ One * (F + fee) = c1 + c2 /\ (route.gross + child.gross) * r = c3 + c4
          /\ (L + 1) * One = c5 + One
      BY <2>19
    <3>. HIDE DEF c1, c2, c3, c4, c5
    <3>4. /\ 2 * (c1 + c2) =< 2 * (c3 + c4) + (c5 + One)
          /\ 2 * (c3 + c4) =< 2 * (c1 + c2) + (c5 + One)
      BY <2>2, <3>1, <3>2
    <3>. QED  BY <3>3, <3>4
  <2>. HIDE DEF after, child, fee, cost, u, q, P, R, F, L, r
  <2>21. cost \in Nat
    BY <2>8, <2>10, <2>11
  <2>22. /\ after.remaining \in Int /\ after.filled \in Nat
         /\ after.gross \in Nat /\ after.venueFee \in Nat
    <3>1. after.remaining \in Int
      BY <2>3, <2>16, <2>21
    <3>2. after.filled \in Nat
      BY <2>0, <2>8, <2>16
    <3>3. after.gross \in Nat
      BY <2>0, <2>8, <2>16
    <3>4. after.venueFee \in Nat
      BY <2>0, <2>8, <2>16
    <3>. QED  BY <3>1, <3>2, <3>3, <3>4
  <2>23. /\ RoundingUnits(after.children) >= 2 * Len(after.children)
         /\ after.remaining >= -RoundingUnits(after.children)
    <3>1. RoundingUnits(after.children) = R + u /\ Len(after.children) = L + 1
      BY <2>14, <2>15, <2>16 DEF L
    <3>2. R + u >= 2 * (L + 1)
      BY <2>9, <2>14, <2>18
    <3>3. after.remaining >= -(R + u)
      <4>1. after.remaining >= -u
        BY <2>3, <2>9, <2>12, <2>16, <2>21
      <4>. QED  BY <2>3, <2>9, <2>14, <2>16, <2>21, <4>1
    <3>. QED  BY <3>1, <3>2, <3>3
  <2>24. FeesOf(after, budget) \in Nat
    BY <2>11, <2>17, <2>18 DEF F
  <2>25. /\ 2 * (One * FeesOf(after, budget))
              =< 2 * (after.gross * PlatformFeeRate) + Len(after.children) * One
         /\ 2 * (after.gross * PlatformFeeRate)
              =< 2 * (One * FeesOf(after, budget)) + Len(after.children) * One
    BY <2>15, <2>16, <2>17, <2>20 DEF F, L, r
  <2>26. after.filled = 0 => after.gross = 0 /\ after.venueFee = 0 /\ FeesOf(after, budget) = 0
    <3>1. after.filled = 0 => child.filled = 0 /\ route.filled = 0
      BY <2>0, <2>8, <2>16
    <3>. QED  BY <2>0, <2>13, <2>16, <2>17, <3>1
  <2>. QED  BY <2>15, <2>16, <2>22, <2>23, <2>24, <2>25, <2>26 DEF BuyKept, after
<1>. QED  BY <1>1, <1>2

LEMMA PurchaseRoute ==
  ASSUME NEW asset \in DOMAIN Market, NEW b \in Behaviour, NEW budget \in Nat
  PROVE  BuyKept(Loop(asset, "BUY", budget, b), budget)
<1>. DEFINE venues == quotes(asset, "BUY", b)
            n == Len(venues)
<1>1. /\ n \in 0 .. 3
      /\ \A i \in 1 .. n : venues[i] \in Venues /\ effectivePrice("BUY", Market[asset][venues[i]]) > 0
  BY QuotesType
<1>2. PICK path : /\ path[0] = Start(budget)
                  /\ \A m \in 1 .. n : path[m] = TradeAt(asset, "BUY", b, path[m - 1], venues[m])
                  /\ Loop(asset, "BUY", budget, b) = path[n]
  BY LoopUnfolds
<1>. HIDE DEF venues, n
<1>3. BuyKept(path[0], budget)
  BY <1>2, StartPurchase
<1>4. ASSUME NEW m \in 1 .. n, BuyKept(path[m - 1], budget)  PROVE BuyKept(path[m], budget)
  BY <1>1, <1>2, <1>4, BuyStep DEF TradeAt
<1>5. n >= 1 => BuyKept(path[1], budget)
  BY <1>1, <1>3, <1>4
<1>6. n >= 2 => BuyKept(path[2], budget)
  BY <1>1, <1>4, <1>5
<1>7. n >= 3 => BuyKept(path[3], budget)
  BY <1>1, <1>4, <1>6
<1>. QED  BY <1>1, <1>2, <1>3, <1>5, <1>6, <1>7

(* What a purchase returns: a fill costs something, nothing is spent       *)
(* without one, and an overrun ends in an error.                           *)
LEMMA BuyResult ==
  ASSUME NEW asset \in DOMAIN Market, NEW b \in Behaviour, NEW budget \in Nat,
         Buy(asset, budget, b).status # "ERROR"
  PROVE  LET result == Buy(asset, budget, b)
         IN  /\ result \in RouteResult
             /\ result.filled \in Nat /\ result.final \in Nat /\ result.unspent \in Nat
             /\ result.filled = 0 => result.final = 0
<1>. DEFINE route == Loop(asset, "BUY", budget, b)
            fee == calculation(route.gross, PlatformFeeRate)
            final == route.gross + route.venueFee + fee
            result == finalize("BUY", route)
<1>1. BuyKept(route, budget)
  BY PurchaseRoute
<1>. HIDE DEF route
<1>2. /\ route.remaining \in Int /\ route.filled \in Nat /\ route.gross \in Nat
      /\ route.venueFee \in Nat /\ route.children \in Seq(ChildOrder)
  BY <1>1 DEF BuyKept, RequestsTyped
<1>3. PlatformFeeRate \in Nat
  BY RouterAssumption, OneAssumption
<1>4. fee \in Nat
  BY <1>2, <1>3, CalculationError
<1>. HIDE DEF fee
<1>5. final \in Nat
  BY <1>2, <1>4
<1>6. Buy(asset, budget, b) = result
  BY DEF Buy, route
<1>7. /\ result.filled = route.filled /\ result.unspent = route.remaining
      /\ result.children = route.children
      /\ result.final = IF route.filled > 0 THEN final ELSE 0
      /\ result.status = IF route.remaining < 0 THEN "ERROR"
                         ELSE IF route.filled = 0 THEN "FAILED"
                         ELSE IF final <= 0 THEN "ERROR"
                         ELSE IF route.remaining <= CompletionDust
                              THEN "FILLED" ELSE "PARTIALLY_FILLED"
      /\ result = [filled |-> result.filled, final |-> result.final, unspent |-> result.unspent,
                   children |-> result.children, status |-> result.status]
  BY DEF finalize, fee
<1>. HIDE DEF result, final
<1>8. result.status # "ERROR"
  BY <1>6
<1>9. /\ route.remaining \in Nat
      /\ result.status \in {"FILLED", "PARTIALLY_FILLED", "FAILED"}
  BY <1>2, <1>7, <1>8
<1>10. result.final \in Nat /\ (result.filled = 0 => result.final = 0)
  BY <1>2, <1>5, <1>7
<1>11. result \in RouteResult
  <2>1. /\ result.unspent \in Int /\ result.children \in Seq(ChildOrder)
        /\ result.filled \in Int /\ result.final \in Int
    BY <1>2, <1>7, <1>10
  <2>. QED  BY <1>7, <1>9, <2>1 DEF RouteResult
<1>. QED  BY <1>2, <1>6, <1>7, <1>9, <1>10, <1>11

(* A purchase accounts for its budget up to the rounding of its child      *)
(* orders, whether it succeeds or overruns the budget.                     *)
LEMMA PurchaseWithinBudget ==
  ASSUME NEW asset \in DOMAIN Market, NEW b \in Behaviour, NEW budget \in Nat
  PROVE  LET result == Buy(asset, budget, b)
         IN  /\ result.unspent >= -RoundingUnits(result.children)
             /\ Magnitude(budget - result.unspent - result.final)
                    <= RoundingUnits(result.children)
<1>. DEFINE route == Loop(asset, "BUY", budget, b)
            fee == calculation(route.gross, PlatformFeeRate)
            final == route.gross + route.venueFee + fee
            result == finalize("BUY", route)
            R == RoundingUnits(route.children)
            F == FeesOf(route, budget)
            L == Len(route.children)
            p == route.gross * PlatformFeeRate
<1>1. BuyKept(route, budget)
  BY PurchaseRoute
<1>2. /\ Buy(asset, budget, b) = result
      /\ result.filled = route.filled /\ result.unspent = route.remaining
      /\ result.children = route.children
      /\ result.final = IF route.filled > 0 THEN final ELSE 0
  BY DEF Buy, finalize
<1>. HIDE DEF route, result
<1>3. One \in Nat \ {0} /\ PlatformFeeRate \in Nat
  BY RouterAssumption, OneAssumption
<1>4. /\ route.remaining \in Int /\ route.filled \in Nat /\ route.gross \in Nat
      /\ route.venueFee \in Nat /\ F \in Nat /\ L \in Nat
      /\ R >= 2 * L /\ route.remaining >= -R
      /\ 2 * (One * F) =< 2 * p + L * One
      /\ 2 * p =< 2 * (One * F) + L * One
      /\ route.filled = 0 => route.gross = 0 /\ route.venueFee = 0 /\ F = 0
  BY <1>1 DEF BuyKept, RequestsTyped
<1>5. R \in Nat
  <2>1. RequestsTyped(route.children)
    BY <1>1 DEF BuyKept
  <2>. DEFINE none == [venue |-> 1, requested |-> 0, filled |-> 0, gross |-> 0, venueFee |-> 0]
  <2>2. none \in ChildOrder /\ none.requested \in Nat
    BY DEF ChildOrder, Venues
  <2>. HIDE DEF none
  <2>. QED  BY <2>1, <2>2, UnitsAppended
<1>6. /\ fee \in Nat /\ p \in Nat
      /\ 2 * (One * fee) =< 2 * p + One /\ 2 * p =< 2 * (One * fee) + One
  <2>2. route.gross \in Nat
    BY <1>4
  <2>1. p \in Nat
    BY <1>3, <2>2
  <2>3. /\ fee \in Nat
        /\ 2 * (One * fee) =< 2 * (route.gross * PlatformFeeRate) + One
        /\ 2 * (route.gross * PlatformFeeRate) =< 2 * (One * fee) + One
    BY <1>3, <2>2, CalculationError
  <2>. QED  BY <2>1, <2>3
<1>7. route.remaining = budget - route.gross - route.venueFee - F
  BY <1>4 DEF FeesOf
<1>. HIDE DEF fee, p, F, L, R
<1>8. 2 * (F - fee) =< L + 1 /\ 2 * (fee - F) =< L + 1
  <2>1. ASSUME NEW x \in Nat, NEW y \in Nat, One * (2 * x) =< One * (2 * y) + (L + 1) * One
        PROVE  2 * (x - y) =< L + 1
    <3>. DEFINE k == 2 * y + L + 1
    <3>1. k \in Nat /\ One * k = One * (2 * y) + (L + 1) * One
      <4>1. One * (2 * y + (L + 1)) = One * (2 * y) + One * (L + 1)
        BY <1>3, <1>4, <2>1, SMTT(20)
      <4>2. One * (L + 1) = (L + 1) * One /\ k = 2 * y + (L + 1) /\ k \in Nat
        BY <1>3, <1>4, <2>1, SMTT(20)
      <4>. HIDE DEF k
      <4>. QED  BY <4>1, <4>2
    <3>2. ASSUME 2 * x > k  PROVE FALSE
      <4>. HIDE DEF k
      <4>1. One * (k + 1) =< One * (2 * x)
        BY <1>3, <2>1, <3>1, <3>2, Scaled
      <4>2. One * (k + 1) = One * k + One /\ One * k \in Int /\ One * (2 * x) \in Int
        BY <1>3, <2>1, <3>1, SMTT(20)
      <4>3. One * (2 * x) =< One * k
        BY <2>1, <3>1
      <4>. DEFINE d1 == One * (k + 1)
                  d2 == One * (2 * x)
                  d3 == One * k
      <4>4. d1 =< d2 /\ d2 =< d3 /\ d1 = d3 + One /\ d3 \in Int /\ d2 \in Int
        BY <4>1, <4>2, <4>3
      <4>. HIDE DEF d1, d2, d3
      <4>. QED  BY <1>3, <4>4
    <3>. QED  BY <1>4, <2>1, <3>1, <3>2
  <2>2. /\ 2 * (One * F) = One * (2 * F) /\ 2 * (One * fee) = One * (2 * fee)
        /\ (L + 1) * One = L * One + One
        /\ One * (2 * F) \in Int /\ One * (2 * fee) \in Int /\ L * One \in Int
    BY <1>3, <1>4, <1>6, SMTT(20)
  <2>3. /\ One * (2 * F) =< One * (2 * fee) + (L + 1) * One
        /\ One * (2 * fee) =< One * (2 * F) + (L + 1) * One
    <3>. DEFINE a1 == One * (2 * F)
                a2 == One * (2 * fee)
                a3 == L * One
                a4 == (L + 1) * One
    <3>1. /\ a1 \in Int /\ a2 \in Int /\ a3 \in Int /\ a4 = a3 + One
          /\ a1 =< 2 * p + a3 /\ 2 * p =< a1 + a3
          /\ a2 =< 2 * p + One /\ 2 * p =< a2 + One
      BY <1>4, <1>6, <2>2
    <3>. HIDE DEF a1, a2, a3, a4
    <3>2. a1 =< a2 + a4 /\ a2 =< a1 + a4
      BY <1>3, <1>6, <3>1
    <3>. QED  BY <3>2 DEF a1, a2, a3, a4
  <2>. QED  BY <1>4, <1>6, <2>1, <2>3
<1>9. /\ F - fee =< R /\ fee - F =< R
  BY <1>4, <1>5, <1>6, <1>8
<1>10. Magnitude(budget - result.unspent - result.final) =< R
  <2>. DEFINE d == budget - result.unspent - result.final
  <2>1. CASE route.filled > 0
    <3>1. d = F - fee
      BY <1>2, <1>4, <1>6, <1>7, <2>1
    <3>. HIDE DEF d
    <3>. QED  BY <1>4, <1>6, <1>9, <3>1 DEF Magnitude, d
  <2>2. CASE ~(route.filled > 0)
    <3>1. d = 0
      BY <1>2, <1>4, <1>7, <2>2
    <3>2. Magnitude(d) = 0
      <4>. HIDE DEF d
      <4>. QED  BY <3>1 DEF Magnitude
    <3>. QED  BY <1>5, <3>2
  <2>. QED  BY <2>1, <2>2
<1>. QED  BY <1>2, <1>4, <1>10 DEF R

-----------------------------------------------------------------------------
(* What conversions, legs and calls know of each other                     *)

(* What a route returns that did not end in an error. *)
Settleable(result) ==
    /\ result \in RouteResult
    /\ result.filled \in Nat /\ result.final \in Nat
    /\ result.filled = 0 => result.final = 0

SoldWithin(filled, status, amount) ==
    /\ filled =< amount
    /\ status \notin {"FILLED", "PARTIALLY_FILLED"} => filled = 0

HasFirstLeg(k) == \E l \in legs : l.key = k /\ l.sequence = 1

(* A leg is the only one of its sequence: a purchase out of a reservation, *)
(* a sale, or a purchase that follows one.                                 *)
LegSound(l) ==
    LET command == commands[l.key] IN
    /\ l \in Leg /\ Created(l.key)
    /\ l.filled \in Nat /\ l.final \in Nat
    /\ l.filled = 0 => l.final = 0
    /\ \/ /\ command.source = "USD" /\ l.sequence = 1
          /\ l.side = "BUY" /\ l.asset = command.destination
       \/ /\ command.source # "USD" /\ l.sequence = 1
          /\ l.side = "SELL" /\ l.asset = command.source
          /\ SoldWithin(l.filled, l.status, command.amount)
       \/ /\ command.source # "USD" /\ l.sequence = 2
          /\ l.side = "BUY" /\ l.asset = command.destination
          /\ HasFirstLeg(l.key)

LegsSound ==
    /\ IsFiniteSet(legs)
    /\ \A l \in legs : LegSound(l)
    /\ \A l, m \in legs : l.key = m.key /\ l.sequence = m.sequence => l = m

(* A conversion is completed by its last leg, and one under review buys    *)
(* nothing.                                                                *)
RowComplete(k) ==
    /\ commands[k] # None
    /\ conversions[k].unspent \in Nat
    /\ Routing(k) =>
          /\ conversions[k].unspent = 0 /\ ~conversions[k].reviewed
          /\ \A l \in legs : l.key = k => commands[k].source # "USD" /\ l.sequence = 1
    /\ ~Routing(k) => HasFirstLeg(k)
    /\ conversions[k].reviewed =>
          \A l \in legs : l.key = k /\ l.sequence = 2 => l.filled = 0

ConversionsSound ==
    /\ plan \in Plans
    /\ conversions \in [Keys -> Row \cup {None}]
    /\ elsewhere \in Nat
    /\ \A k \in Keys : Created(k) => RowComplete(k)

CallSound(c) ==
    LET command == commands[c.key] IN
    /\ command # None
    /\ c.at # "LEGS" => Created(c.key)
    /\ c.at \in {"SELL", "SOLD"} => command.source # "USD"
    /\ c.at = "SELL" => c.budget = command.amount
    /\ c.at \in {"BUY", "BOUGHT"} =>
          /\ command.destination # "USD"
          /\ command.source # "USD" => HasFirstLeg(c.key)
    /\ c.at \in {"SOLD", "BOUGHT"} => Settleable(c.result)
    /\ c.at = "SOLD" => SoldWithin(c.result.filled, c.result.status, command.amount)
    /\ c.at = "BOUGHT" => c.result.unspent \in Nat

CallsSound ==
    /\ calls \in [Callers -> Call \cup {None}]
    /\ \A p \in Callers : calls[p] # None => CallSound(calls[p])

ReservingSound ==
    reserving # None =>
      /\ reserving \in Keys /\ ~Created(reserving)
      /\ commands[reserving] # None /\ commands[reserving].source = "USD"

ConversionInv == LegsSound /\ ConversionsSound /\ CallsSound /\ ReservingSound

CustodyInv ==
    /\ depositAddresses \subseteq Assets
    /\ deposits \subseteq DepositEvents
    /\ addresses \in [Addresses -> AddressRow \cup {None}]
    /\ withdrawals \in [Withdrawals -> WithdrawalRow \cup {None}]
    /\ events \subseteq {e.id : e \in DepositEvents} \cup (Withdrawals \X Step)
    /\ requests \in [Requests -> Activation \cup Prepared \cup {None}]
    /\ differences \subseteq Assets
    /\ clock \in 0 .. MaxClock
    /\ custodian \in [Withdrawals -> SUBSET Step]

TypeInv == BooksTypeOK /\ ConversionInv /\ CustodyInv

-----------------------------------------------------------------------------
(* Calls                                                                   *)

LEMMA CommandTypes ==
  ASSUME plan \in Plans, NEW k \in Keys, commands[k] # None
  PROVE  /\ commands[k] \in Command
         /\ commands[k].source \in Assets \cup {"USD"}
         /\ commands[k].destination \in Assets \cup {"USD"}
         /\ commands[k].amount \in Nat \ {0}
<1>1. commands[k] \in Command \cup {None}
  BY ConversionAssumption DEF commands
<1>2. commands[k] \in Command
  BY <1>1
<1>. QED  BY <1>2 DEF Command

(* What every step leaves to the calls that are under way. *)
Grows ==
    /\ plan' = plan
    /\ \A k \in Keys : Created(k) => Created(k)'
    /\ legs \subseteq legs'

LEMMA CallStays ==
  ASSUME NEW c \in Call, CallSound(c), Grows
  PROVE  CallSound(c)'
<1>1. c.key \in Keys
  BY DEF Call
<1>2. commands' = commands
  BY DEF commands, Grows
<1>3. HasFirstLeg(c.key) => HasFirstLeg(c.key)'
  BY DEF HasFirstLeg, Grows
<1>4. Created(c.key) => Created(c.key)'
  BY <1>1 DEF Grows
<1>. QED  BY <1>2, <1>3, <1>4 DEF CallSound

(* One call moves, the others stay as they are. *)
LEMMA CallsStep ==
  ASSUME CallsSound, Grows, NEW p \in Callers, NEW c,
         c # None => c \in Call /\ CallSound(c)',
         calls' = [calls EXCEPT ![p] = c]
  PROVE  CallsSound'
<1>1. calls' \in [Callers -> Call \cup {None}]
  BY DEF CallsSound
<1>2. ASSUME NEW q \in Callers, (calls[q] # None)'
      PROVE  CallSound(calls[q])'
  <2>1. CASE q = p
    <3>1. calls'[q] = c /\ c # None
      BY <1>2, <2>1 DEF CallsSound
    <3>. QED  BY <3>1 DEF CallSound, HasFirstLeg, Created, commands
  <2>2. CASE q # p
    <3>1. PICK d : d = calls[q]
      OBVIOUS
    <3>2. calls'[q] = d /\ d \in Call /\ CallSound(d)
      BY <1>2, <2>2, <3>1 DEF CallsSound
    <3>3. CallSound(d)'
      BY <3>2, CallStays
    <3>. QED  BY <3>2, <3>3 DEF CallSound, HasFirstLeg, Created, commands
  <2>. QED  BY <2>1, <2>2
<1>. QED  BY <1>1, <1>2 DEF CallsSound

(* A step of a call that settles nothing. *)
LEMMA OnlyCalls ==
  ASSUME ConversionInv, UNCHANGED <<plan, conversions, legs, elsewhere>>,
         NEW p \in Callers, NEW c, c # None => c \in Call /\ CallSound(c),
         calls' = [calls EXCEPT ![p] = c], ReservingSound'
  PROVE  ConversionInv'
<1>1. Grows
  BY DEF Grows, Created
<1>2. LegsSound' /\ ConversionsSound'
  BY DEF ConversionInv, LegsSound, LegSound, ConversionsSound, RowComplete, Created, Routing,
         commands, HasFirstLeg
<1>3. c # None => CallSound(c)'
  BY <1>1, CallStays
<1>4. CallsSound'
  BY <1>1, <1>3, CallsStep DEF ConversionInv
<1>. QED  BY <1>2, <1>4 DEF ConversionInv

LEMMA SameReserving ==
  ASSUME ConversionInv, UNCHANGED <<plan, conversions, reserving>>
  PROVE  ReservingSound'
BY DEF ConversionInv, ReservingSound, Created, commands

(* Entering a step of a call. *)
LEMMA Entered ==
  ASSUME NEW k \in Keys, NEW step \in {"LEGS", "SELL", "BUY"}, NEW budget \in Int
  PROVE  LET c == [at |-> step, key |-> k, budget |-> budget, result |-> None]
         IN  c \in Call /\ c # None
<1>. DEFINE c == [at |-> step, key |-> k, budget |-> budget, result |-> None]
<1>1. c \in Call
  BY DEF Call
<1>2. None \notin Call
  BY ConversionAssumption
<1>. QED  BY <1>1, <1>2

LEMMA ConversionStarts == Init => ConversionInv
<1>. SUFFICES ASSUME Init  PROVE ConversionInv
  OBVIOUS
<1>1. /\ conversions = [k \in Keys |-> None] /\ legs = {} /\ elsewhere = 0
      /\ calls = [p \in Callers |-> None] /\ reserving = None /\ plan \in Plans
  BY DEF Init, BooksInit, ConversionInit
<1>2. LegsSound
  BY <1>1, FS_EmptySet DEF LegsSound
<1>3. ConversionsSound
  BY <1>1 DEF ConversionsSound, Created
<1>4. CallsSound /\ ReservingSound
  BY <1>1 DEF CallsSound, ReservingSound
<1>. QED  BY <1>2, <1>3, <1>4 DEF ConversionInv

LEMMA BeginKeeps ==
  ASSUME ConversionInv, plan' = plan, NEW p \in Callers, NEW k \in Keys, BeginReservation(p, k)
  PROVE  ConversionInv'
<1>. DEFINE c == [at |-> "LEGS", key |-> k, budget |-> 0, result |-> None]
<1>1. /\ commands[k] # None /\ commands[k].source = "USD" /\ ~Created(k)
      /\ reserving' = k /\ calls' = [calls EXCEPT ![p] = c]
      /\ UNCHANGED <<conversions, legs, elsewhere>>
  BY DEF BeginReservation, Enter
<1>2. c \in Call /\ CallSound(c)
  BY <1>1, Entered DEF CallSound
<1>3. ReservingSound'
  BY <1>1 DEF ReservingSound, Created, commands
<1>. QED  BY <1>1, <1>2, <1>3, OnlyCalls

LEMMA ReplayKeeps ==
  ASSUME ConversionInv, plan' = plan, NEW p \in Callers, NEW k \in Keys, Replay(p, k)
  PROVE  ConversionInv'
<1>. DEFINE c == [at |-> "LEGS", key |-> k, budget |-> 0, result |-> None]
<1>1. /\ Created(k) /\ calls' = [calls EXCEPT ![p] = c]
      /\ UNCHANGED <<conversions, legs, elsewhere, reserving>>
  BY DEF Replay, Enter
<1>2. commands[k] # None
  BY <1>1 DEF ConversionInv, ConversionsSound, RowComplete
<1>3. c \in Call /\ CallSound(c)
  BY <1>1, <1>2, Entered DEF CallSound
<1>. QED  BY <1>1, <1>3, SameReserving, OnlyCalls

(* The first leg of a conversion, which LegAt finds. *)
LEMMA FirstLeg ==
  ASSUME LegsSound, NEW k \in Keys, HasFirstLeg(k)
  PROVE  /\ LegAt(k, 1) \in legs /\ LegAt(k, 1).key = k /\ LegAt(k, 1).sequence = 1
         /\ LegAt(k, 1).final \in Nat /\ LegAt(k, 1).filled \in Nat
<1>1. \E l \in ListLegs(k) : l.sequence = 1
  BY DEF HasFirstLeg, ListLegs
<1>2. LegAt(k, 1) \in ListLegs(k) /\ LegAt(k, 1).sequence = 1
  BY <1>1 DEF LegAt
<1>3. LegAt(k, 1) \in legs /\ LegAt(k, 1).key = k
  BY <1>2 DEF ListLegs
<1>. QED  BY <1>2, <1>3 DEF LegsSound, LegSound

(* A conversion with a leg has its first. *)
LEMMA HasLegs ==
  ASSUME LegsSound, NEW k \in Keys, ListLegs(k) # {}
  PROVE  HasFirstLeg(k)
<1>1. PICK l \in legs : l.key = k
  BY DEF ListLegs
<1>2. LegSound(l)
  BY DEF LegsSound
<1>. QED  BY <1>1, <1>2 DEF LegSound, HasFirstLeg

(* What TowardsPurchase writes. *)
LEMMA PurchaseEntered ==
  ASSUME ConversionInv, NEW p \in Callers, NEW k \in Keys, Created(k),
         commands[k].source # "USD" => HasFirstLeg(k),
         TowardsPurchase(p, k)
  PROVE  \E c : (c # None => c \in Call /\ CallSound(c)) /\ calls' = [calls EXCEPT ![p] = c]
<1>1. commands[k] # None /\ plan \in Plans
  BY DEF ConversionInv, ConversionsSound, RowComplete
<1>2. CASE commands[k].destination = "USD"
  BY <1>2 DEF TowardsPurchase, Return
<1>3. CASE commands[k].destination # "USD"
  <2>. DEFINE budget == IF commands[k].source = "USD" THEN commands[k].amount
                        ELSE LegAt(k, 1).final
              c == [at |-> "BUY", key |-> k, budget |-> budget, result |-> None]
  <2>1. calls' = [calls EXCEPT ![p] = c]
    BY <1>3 DEF TowardsPurchase, Enter
  <2>2. budget \in Int
    BY <1>1, CommandTypes, FirstLeg DEF ConversionInv
  <2>. HIDE DEF budget
  <2>3. c \in Call /\ CallSound(c)
    BY <1>1, <1>3, <2>2, Entered DEF CallSound
  <2>. HIDE DEF c
  <2>. QED  BY <2>1, <2>3
<1>. QED  BY <1>2, <1>3

(* A call under way is about a conversion. *)
LEMMA CallTypes ==
  ASSUME ConversionInv, NEW p \in Callers, calls[p] # None
  PROVE  /\ calls[p] \in Call /\ calls[p].key \in Keys /\ CallSound(calls[p])
         /\ plan \in Plans /\ commands[calls[p].key] # None
<1>1. calls[p] \in Call /\ CallSound(calls[p]) /\ plan \in Plans
  BY DEF ConversionInv, CallsSound, ConversionsSound
<1>. QED  BY <1>1 DEF Call, CallSound

LEMMA ReadKeeps ==
  ASSUME ConversionInv, plan' = plan, NEW p \in Callers, ReadProgress(p)
  PROVE  ConversionInv'
<1>. DEFINE k == calls[p].key
<1>1. /\ calls[p] # None /\ Created(k)
      /\ UNCHANGED <<conversions, legs, elsewhere, reserving>>
  BY DEF ReadProgress
<1>2. k \in Keys /\ commands[k] # None /\ plan \in Plans
  BY <1>1, CallTypes
<1>3. CASE commands[k].source # "USD" /\ ListLegs(k) = {}
  <2>. DEFINE c == [at |-> "SELL", key |-> k, budget |-> commands[k].amount, result |-> None]
  <2>1. calls' = [calls EXCEPT ![p] = c]
    BY <1>3 DEF ReadProgress, Enter
  <2>2. commands[k].amount \in Int
    BY <1>2, CommandTypes
  <2>3. c \in Call /\ CallSound(c)
    BY <1>1, <1>2, <1>3, <2>2, Entered DEF CallSound
  <2>. HIDE DEF c
  <2>. QED  BY <1>1, <2>1, <2>3, SameReserving, OnlyCalls
<1>4. CASE ~(commands[k].source # "USD" /\ ListLegs(k) = {})
  <2>1. TowardsPurchase(p, k)
    BY <1>4 DEF ReadProgress
  <2>2. commands[k].source # "USD" => HasFirstLeg(k)
    BY <1>2, <1>4, HasLegs DEF ConversionInv
  <2>3. PICK c : (c # None => c \in Call /\ CallSound(c)) /\ calls' = [calls EXCEPT ![p] = c]
    BY <1>1, <1>2, <2>1, <2>2, PurchaseEntered
  <2>. QED  BY <1>1, <2>3, SameReserving, OnlyCalls
<1>. QED  BY <1>3, <1>4

(* A route that ended without an error is carried to its settlement. *)
LEMMA RoutedKeeps ==
  ASSUME ConversionInv, NEW p \in Callers, calls[p] # None,
         NEW step \in {"SOLD", "BOUGHT"}, NEW result,
         calls[p].at = IF step = "SOLD" THEN "SELL" ELSE "BUY",
         result.status # "ERROR" =>
            /\ Settleable(result)
            /\ step = "SOLD" => SoldWithin(result.filled, result.status,
                                           commands[calls[p].key].amount)
            /\ step = "BOUGHT" => result.unspent \in Nat,
         Routed(p, step, result), UNCHANGED <<plan, conversions, legs, elsewhere, reserving>>
  PROVE  ConversionInv'
<1>1. CASE result.status = "ERROR"
  <2>1. calls' = [calls EXCEPT ![p] = None]
    BY <1>1 DEF Routed, Return
  <2>. QED  BY <2>1, SameReserving, OnlyCalls
<1>2. CASE result.status # "ERROR"
  <2>. DEFINE c == [calls[p] EXCEPT !.at = step, !.result = result]
  <2>1. calls[p] \in Call /\ CallSound(calls[p]) /\ calls \in [Callers -> Call \cup {None}]
    BY CallTypes DEF ConversionInv, CallsSound
  <2>2. calls' = [calls EXCEPT ![p] = c]
    BY <1>2, <2>1 DEF Routed
  <2>3. /\ c.at = step /\ c.key = calls[p].key /\ c.result = result
        /\ c \in Call
    BY <1>2, <2>1 DEF Call, Settleable
  <2>. HIDE DEF c
  <2>4. CallSound(c)
    BY <1>2, <2>1, <2>3 DEF CallSound
  <2>. QED  BY <2>2, <2>3, <2>4, SameReserving, OnlyCalls
<1>. QED  BY <1>1, <1>2

LEMMA RouteSellKeeps ==
  ASSUME ConversionInv, plan' = plan, NEW p \in Callers, RouteSell(p)
  PROVE  ConversionInv'
<1>. DEFINE k == calls[p].key
            asset == commands[k].source
            amount == commands[k].amount
<1>1. /\ calls[p] # None /\ calls[p].at = "SELL"
      /\ UNCHANGED <<conversions, legs, elsewhere, reserving>>
  BY DEF RouteSell
<1>2. PICK b \in Behaviours : Routed(p, "SOLD", Sell(asset, calls[p].budget, b))
  BY DEF RouteSell
<1>3. /\ CallSound(calls[p]) /\ k \in Keys /\ plan \in Plans /\ commands[k] # None
  BY <1>1, CallTypes
<1>4. asset \in DOMAIN Market /\ amount \in Nat /\ calls[p].budget = amount /\ b \in Behaviour
  BY <1>1, <1>3, CommandTypes, ConversionAssumption, BooksAssumption DEF CallSound
<1>. DEFINE result == Sell(asset, amount, b)
<1>5. result.status # "ERROR" =>
        Settleable(result) /\ SoldWithin(result.filled, result.status, amount)
  <2>. SUFFICES ASSUME result.status # "ERROR"
                PROVE  Settleable(result) /\ SoldWithin(result.filled, result.status, amount)
    OBVIOUS
  <2>1. /\ result \in RouteResult
        /\ result.filled \in 0 .. amount /\ result.final \in Nat
        /\ result.filled = 0 => result.final = 0
        /\ result.status = "FAILED" <=> result.filled = 0
    BY <1>4, SellResult
  <2>2. result.status \in {"FILLED", "PARTIALLY_FILLED", "FAILED"}
    BY <2>1 DEF RouteResult
  <2>. HIDE DEF result
  <2>. QED  BY <1>4, <2>1, <2>2 DEF Settleable, SoldWithin
<1>6. Routed(p, "SOLD", result)
  BY <1>2, <1>4
<1>. HIDE DEF result
<1>. QED  BY <1>1, <1>5, <1>6, RoutedKeeps

LEMMA RouteBuyKeeps ==
  ASSUME ConversionInv, plan' = plan, NEW p \in Callers, RouteBuy(p)
  PROVE  ConversionInv'
<1>. DEFINE k == calls[p].key
            asset == commands[k].destination
            budget == calls[p].budget
<1>1. /\ calls[p] # None /\ calls[p].at = "BUY"
      /\ UNCHANGED <<conversions, legs, elsewhere, reserving>>
  BY DEF RouteBuy
<1>2. CASE budget <= 0 /\ Return(p)
  <2>1. calls' = [calls EXCEPT ![p] = None]
    BY <1>2 DEF Return
  <2>. QED  BY <1>1, <2>1, SameReserving, OnlyCalls
<1>3. ASSUME budget > 0, NEW b \in Behaviours, Routed(p, "BOUGHT", Buy(asset, budget, b))
      PROVE  ConversionInv'
  <2>1. /\ CallSound(calls[p]) /\ calls[p] \in Call /\ k \in Keys /\ plan \in Plans
        /\ commands[k] # None
    BY <1>1, CallTypes
  <2>2. asset \in DOMAIN Market /\ budget \in Nat /\ b \in Behaviour
    <3>1. asset \in Assets
      BY <1>1, <2>1, CommandTypes DEF CallSound
    <3>2. budget \in Int
      BY <2>1 DEF Call
    <3>. QED  BY <1>3, <3>1, <3>2, ConversionAssumption
  <2>. DEFINE result == Buy(asset, budget, b)
  <2>3. result.status # "ERROR" => Settleable(result) /\ result.unspent \in Nat
    BY <2>2, BuyResult DEF Settleable
  <2>4. Routed(p, "BOUGHT", result)
    BY <1>3
  <2>. HIDE DEF result
  <2>. QED  BY <1>1, <2>3, <2>4, RoutedKeeps
<1>. QED  BY <1>1, <1>2, <1>3 DEF RouteBuy

LEMMA CutOffKeeps ==
  ASSUME ConversionInv, plan' = plan, NEW p \in Callers, CutOff(p)
  PROVE  ConversionInv'
<1>1. /\ calls' = [calls EXCEPT ![p] = None]
      /\ reserving' \in {None, reserving}
      /\ UNCHANGED <<conversions, legs, elsewhere>>
  BY DEF CutOff, Return
<1>2. ReservingSound'
  BY <1>1 DEF ConversionInv, ReservingSound, Created, commands
<1>. QED  BY <1>1, <1>2, OnlyCalls

-----------------------------------------------------------------------------
(* Conversions and legs                                                    *)

LEMMA CallsWait ==
  ASSUME CallsSound, Grows, calls' = calls
  PROVE  CallsSound'
<1>1. ASSUME NEW q \in Callers, (calls[q] # None)'
      PROVE  CallSound(calls[q])'
  <2>1. PICK d : d = calls[q]
    OBVIOUS
  <2>2. calls'[q] = d /\ d \in Call /\ CallSound(d)
    BY <1>1, <2>1 DEF CallsSound
  <2>3. CallSound(d)'
    BY <2>2, CallStays
  <2>. QED  BY <2>2, <2>3 DEF CallSound, HasFirstLeg, Created, commands
<1>. QED  BY <1>1 DEF CallsSound

(* A conversion is created without legs. *)
LEMMA CreateKeeps ==
  ASSUME ConversionInv, UNCHANGED <<plan, legs, elsewhere>>, NEW k \in Keys, ~Created(k),
         commands[k] # None, CreateConversion(k)
  PROVE  LegsSound' /\ ConversionsSound' /\ Grows
<1>. DEFINE row == [status |-> "ROUTING", unspent |-> 0, reviewed |-> FALSE]
<1>1. /\ conversions \in [Keys -> Row \cup {None}] /\ conversions' = [conversions EXCEPT ![k] = row]
  BY DEF ConversionInv, ConversionsSound, CreateConversion
<1>2. row \in Row /\ row # None
  <2>1. row \in Row
    BY DEF Row, Status
  <2>2. None \notin Row
    BY ConversionAssumption
  <2>. QED  BY <2>1, <2>2
<1>3. /\ conversions' \in [Keys -> Row \cup {None}]
      /\ conversions'[k] = row
      /\ \A j \in Keys \ {k} : conversions'[j] = conversions[j]
  BY <1>1, <1>2
<1>4. Grows
  BY <1>2, <1>3 DEF Grows, Created
<1>5. LegsSound'
  <2>1. ASSUME NEW l \in legs  PROVE LegSound(l)'
    <3>1. LegSound(l) /\ l.key \in Keys
      BY DEF ConversionInv, LegsSound, LegSound, Leg
    <3>2. Created(l.key)'
      BY <1>4, <3>1 DEF Grows, LegSound
    <3>. QED  BY <3>1, <3>2 DEF LegSound, commands, HasFirstLeg
  <2>. QED  BY <2>1 DEF ConversionInv, LegsSound
<1>6. ASSUME NEW j \in Keys, Created(j)'  PROVE RowComplete(j)'
  <2>1. CASE j = k
    <3>1. \A l \in legs : l.key # k
      BY DEF ConversionInv, LegsSound, LegSound
    <3>2. row.status = "ROUTING" /\ row.unspent = 0 /\ row.reviewed = FALSE
      OBVIOUS
    <3>. HIDE DEF row
    <3>. QED  BY <1>3, <2>1, <3>1, <3>2 DEF RowComplete, commands, Routing
  <2>2. CASE j # k
    <3>1. conversions'[j] = conversions[j] /\ RowComplete(j)
      BY <1>3, <1>6, <2>2 DEF ConversionInv, ConversionsSound, Created
    <3>. QED  BY <3>1 DEF RowComplete, commands, Routing, HasFirstLeg
  <2>. QED  BY <2>1, <2>2
<1>7. ConversionsSound'
  BY <1>3, <1>6 DEF ConversionInv, ConversionsSound
<1>. QED  BY <1>4, <1>5, <1>7

LEMMA CommitKeeps ==
  ASSUME ConversionInv, plan' = plan, CommitReservation
  PROVE  ConversionInv'
<1>1. /\ reserving # None /\ reserving \in Keys /\ ~Created(reserving)
      /\ commands[reserving] # None
      /\ CreateConversion(reserving) /\ reserving' = None
      /\ UNCHANGED <<legs, calls, elsewhere>>
  BY DEF CommitReservation, ConversionInv, ReservingSound
<1>2. LegsSound' /\ ConversionsSound' /\ Grows
  BY <1>1, CreateKeeps
<1>3. CallsSound'
  BY <1>1, <1>2, CallsWait DEF ConversionInv
<1>. QED  BY <1>1, <1>2, <1>3 DEF ConversionInv, ReservingSound

LEMMA ReserveAssetKeeps ==
  ASSUME ConversionInv, plan' = plan, NEW p \in Callers, NEW k \in Keys, ReserveAsset(p, k)
  PROVE  ConversionInv'
<1>. DEFINE c == [at |-> "LEGS", key |-> k, budget |-> 0, result |-> None]
<1>1. /\ commands[k] # None /\ ~Created(k) /\ reserving = None
      /\ CreateConversion(k) /\ calls' = [calls EXCEPT ![p] = c]
      /\ UNCHANGED <<legs, elsewhere, reserving>>
  BY DEF ReserveAsset, Enter, ProfileFree
<1>2. LegsSound' /\ ConversionsSound' /\ Grows
  BY <1>1, CreateKeeps
<1>3. PICK d : d = c
  OBVIOUS
<1>4. d \in Call /\ d.key = k /\ d.at = "LEGS"
  BY <1>3, Entered
<1>5. CallSound(d)'
  BY <1>1, <1>4 DEF CallSound, commands
<1>. HIDE DEF c
<1>6. CallsSound'
  BY <1>1, <1>2, <1>3, <1>4, <1>5, CallsStep DEF ConversionInv
<1>. QED  BY <1>1, <1>2, <1>6 DEF ConversionInv, ReservingSound

(* Legs are added to a conversion that is still routing. *)
LEMMA SettleKeeps ==
  ASSUME ConversionInv, UNCHANGED <<plan, elsewhere, reserving>>, reserving = None,
         NEW k \in Keys, Created(k), NEW rows, IsFiniteSet(rows), legs' = legs \cup rows,
         \A l \in rows : l.key = k /\ LegSound(l)',
         \A l \in rows, m \in legs' : l.key = m.key /\ l.sequence = m.sequence => l = m,
         NEW row \in Row, conversions' = [conversions EXCEPT ![k] = row], RowComplete(k)'
  PROVE  LegsSound' /\ ConversionsSound' /\ ReservingSound' /\ Grows
<1>1. None \notin Row
  BY ConversionAssumption
<1>2. /\ conversions' \in [Keys -> Row \cup {None}]
      /\ conversions'[k] = row
      /\ \A j \in Keys \ {k} : conversions'[j] = conversions[j]
  BY DEF ConversionInv, ConversionsSound
<1>3. Grows
  BY <1>1, <1>2 DEF Grows, Created
<1>4. ASSUME NEW l \in legs  PROVE LegSound(l)'
  <2>1. LegSound(l) /\ l.key \in Keys
    BY DEF ConversionInv, LegsSound, LegSound, Leg
  <2>2. Created(l.key)'
    BY <1>3, <2>1 DEF Grows, LegSound
  <2>3. HasFirstLeg(l.key) => HasFirstLeg(l.key)'
    BY DEF HasFirstLeg
  <2>. QED  BY <2>1, <2>2, <2>3 DEF LegSound, commands
<1>5. LegsSound'
  <2>1. IsFiniteSet(legs')
    BY FS_Union DEF ConversionInv, LegsSound
  <2>2. \A l, m \in legs : l.key = m.key /\ l.sequence = m.sequence => l = m
    BY DEF ConversionInv, LegsSound
  <2>3. \A l, m \in legs' : l.key = m.key /\ l.sequence = m.sequence => l = m
    BY <2>2
  <2>. QED  BY <1>4, <2>1, <2>3 DEF LegsSound
<1>6. ASSUME NEW j \in Keys, j # k, Created(j)'  PROVE RowComplete(j)'
  <2>1. conversions'[j] = conversions[j] /\ RowComplete(j)
    BY <1>2, <1>6 DEF ConversionInv, ConversionsSound, Created
  <2>2. \A l \in legs' : l.key = j <=> l \in legs /\ l.key = j
    BY <1>6
  <2>3. HasFirstLeg(j) => HasFirstLeg(j)'
    BY DEF HasFirstLeg
  <2>. QED  BY <2>1, <2>2, <2>3 DEF RowComplete, commands, Routing
<1>7. ConversionsSound'
  BY <1>2, <1>6 DEF ConversionInv, ConversionsSound
<1>. QED  BY <1>3, <1>5, <1>7 DEF ReservingSound

(* The leg of a result that was carried to its settlement. *)
LEMMA SettledLeg ==
  ASSUME NEW k \in Keys, NEW sequence \in 1 .. 2, NEW side \in {"SELL", "BUY"},
         NEW asset \in Assets, NEW result, Settleable(result) \/ result = BlockedResult
  PROVE  LET l == persistRouteResult(k, sequence, side, asset, result)
         IN  /\ l \in Leg /\ l.key = k /\ l.sequence = sequence /\ l.side = side
             /\ l.asset = asset /\ l.filled = result.filled /\ l.final = result.final
             /\ l.status = result.status
             /\ l.filled \in Nat /\ l.final \in Nat /\ (l.filled = 0 => l.final = 0)
<1>1. /\ result.filled \in Nat /\ result.final \in Nat /\ (result.filled = 0 => result.final = 0)
      /\ result.children \in Seq(ChildOrder)
      /\ result.status \in {"FILLED", "PARTIALLY_FILLED", "FAILED", "BLOCKED"}
  <2>1. CASE Settleable(result)
    BY <2>1 DEF Settleable, RouteResult
  <2>2. CASE result = BlockedResult
    <3>1. <<>> \in Seq(ChildOrder)
      OBVIOUS
    <3>. QED  BY <2>2, <3>1 DEF BlockedResult
  <2>. QED  BY <2>1, <2>2
<1>. QED  BY <1>1 DEF persistRouteResult, Leg

(* A sale that is settled, and what is known of it. *)
SaleSettles(p, k, result) ==
    /\ ConversionInv
    /\ k \in Keys /\ calls[p] # None /\ k = calls[p].key /\ result = calls[p].result
    /\ calls[p].at = "SOLD" /\ Routing(k) /\ ListLegs(k) = {}
    /\ reserving = None /\ SettleFirstSale(p, k, result)
    /\ UNCHANGED <<plan, reserving, elsewhere>>

LEMMA SaleFacts ==
  ASSUME NEW p \in Callers, NEW k, NEW result, SaleSettles(p, k, result)
  PROVE  /\ plan \in Plans /\ Created(k) /\ commands[k] # None
         /\ conversions[k] \in Row /\ conversions[k].unspent = 0 /\ ~conversions[k].reviewed
         /\ commands[k].source # "USD" /\ commands[k].source \in Assets
         /\ commands[k].destination # "USD" => commands[k].destination \in Assets
         /\ commands[k].amount \in Nat
         /\ Settleable(result) /\ SoldWithin(result.filled, result.status, commands[k].amount)
         /\ \A l \in legs : l.key # k
<1>1. /\ calls[p] \in Call /\ CallSound(calls[p]) /\ plan \in Plans /\ commands[k] # None
  BY CallTypes DEF SaleSettles
<1>2. /\ Created(k) /\ commands[k].source # "USD" /\ Settleable(result)
      /\ SoldWithin(result.filled, result.status, commands[k].amount)
  BY <1>1 DEF SaleSettles, CallSound
<1>3. RowComplete(k) /\ conversions \in [Keys -> Row \cup {None}]
  BY <1>2 DEF SaleSettles, ConversionInv, ConversionsSound
<1>4. /\ commands[k].source \in Assets /\ commands[k].amount \in Nat
      /\ commands[k].destination # "USD" => commands[k].destination \in Assets
  BY <1>1, <1>2, CommandTypes DEF SaleSettles
<1>5. conversions[k] \in Row /\ conversions[k].unspent = 0 /\ ~conversions[k].reviewed
  BY <1>2, <1>3 DEF SaleSettles, Created, RowComplete
<1>6. \A l \in legs : l.key # k
  BY DEF SaleSettles, ListLegs
<1>. QED  BY <1>1, <1>2, <1>4, <1>5, <1>6

(* The rows a sale writes. *)
LEMMA SaleRows ==
  ASSUME NEW p \in Callers, NEW k, NEW result, SaleSettles(p, k, result)
  PROVE  LET review == NeedsReview(commands[k], result)
             blocked == review /\ commands[k].destination # "USD"
             finished == commands[k].destination = "USD" \/ result.status = "FAILED" \/ review
         IN  \E first, second, row :
               /\ legs' = legs \cup {first} \cup IF blocked THEN {second} ELSE {}
               /\ first \in Leg /\ first.key = k /\ first.sequence = 1 /\ first.side = "SELL"
               /\ first.asset = commands[k].source
               /\ first.filled = result.filled /\ first.final = result.final
               /\ first.status = result.status
               /\ blocked => /\ second \in Leg /\ second.key = k /\ second.sequence = 2
                             /\ second.side = "BUY" /\ second.asset = commands[k].destination
                             /\ second.filled = 0 /\ second.final = 0
               /\ first \notin legs /\ second \notin legs /\ first # second
               /\ row \in Row /\ row.unspent = 0 /\ row.reviewed = review
               /\ conversions' = [conversions EXCEPT ![k] = row]
               /\ row.status = "ROUTING" => ~finished
<1>. DEFINE review == NeedsReview(commands[k], result)
            first == persistRouteResult(k, 1, "SELL", commands[k].source, result)
            second == persistRouteResult(k, 2, "BUY", commands[k].destination, BlockedResult)
            blocked == review /\ commands[k].destination # "USD"
            finished == commands[k].destination = "USD" \/ result.status = "FAILED" \/ review
            row == IF finished
                   THEN [status |-> IF review THEN "REVIEW_REQUIRED" ELSE result.status,
                         unspent |-> 0, reviewed |-> review]
                   ELSE conversions[k]
<1>1. /\ Created(k) /\ k \in Keys
      /\ conversions[k] \in Row /\ conversions[k].unspent = 0 /\ ~conversions[k].reviewed
      /\ commands[k].source \in Assets
      /\ commands[k].destination # "USD" => commands[k].destination \in Assets
      /\ Settleable(result) /\ \A l \in legs : l.key # k
  BY SaleFacts DEF SaleSettles
<1>2. legs' = legs \cup SaleLegs(k, result, review)
  BY DEF SaleSettles, SettleFirstSale, InsertLegs
<1>3. SaleLegs(k, result, review) = {first} \cup IF blocked THEN {second} ELSE {}
  BY DEF SaleLegs
<1>4. /\ first \in Leg /\ first.key = k /\ first.sequence = 1 /\ first.side = "SELL"
      /\ first.asset = commands[k].source
      /\ first.filled = result.filled /\ first.final = result.final
      /\ first.status = result.status
  BY <1>1, SettledLeg
<1>5. blocked => /\ second \in Leg /\ second.key = k /\ second.sequence = 2
                 /\ second.side = "BUY" /\ second.asset = commands[k].destination
                 /\ second.filled = 0 /\ second.final = 0
  BY <1>1, SettledLeg DEF BlockedResult
<1>6. second.key = k /\ second.sequence = 2
  BY DEF persistRouteResult
<1>. HIDE DEF first, second
<1>7. first \notin legs /\ second \notin legs /\ first # second
  BY <1>1, <1>4, <1>6
<1>8. review \in BOOLEAN /\ result.status \in {"FILLED", "PARTIALLY_FILLED", "FAILED"}
  BY <1>1 DEF NeedsReview, Settleable, RouteResult
<1>9. conversions' = [conversions EXCEPT ![k] = row]
  <2>1. CASE finished
    BY <2>1 DEF SaleSettles, SettleFirstSale, CompleteConversion
  <2>2. CASE ~finished
    <3>1. conversions' = conversions
      BY <2>2 DEF SaleSettles, SettleFirstSale
    <3>2. conversions \in [Keys -> Row \cup {None}]
      BY DEF SaleSettles, ConversionInv, ConversionsSound
    <3>. QED  BY <1>1, <2>2, <3>1, <3>2
  <2>. QED  BY <2>1, <2>2
<1>. HIDE DEF review
<1>10. row \in Row /\ row.unspent = 0 /\ row.reviewed = review /\ (row.status = "ROUTING" => ~finished)
  <2>1. CASE finished
    <3>. DEFINE status == IF review THEN "REVIEW_REQUIRED" ELSE result.status
    <3>1. status \in Status /\ status # "ROUTING"
      BY <1>8 DEF Status
    <3>2. row = [status |-> status, unspent |-> 0, reviewed |-> review]
      BY <2>1
    <3>. HIDE DEF status, row
    <3>. QED  BY <1>8, <3>1, <3>2 DEF Row
  <2>2. CASE ~finished
    <3>1. row = conversions[k] /\ review = FALSE
      BY <1>8, <2>2
    <3>2. conversions[k].reviewed = FALSE
      BY <1>1 DEF Row
    <3>. HIDE DEF row
    <3>. QED  BY <1>1, <2>2, <3>1, <3>2
  <2>. QED  BY <2>1, <2>2
<1>11. legs' = legs \cup {first} \cup IF blocked THEN {second} ELSE {}
  BY <1>2, <1>3
<1>. HIDE DEF row, blocked, finished
<1>12. \E f, s, r :
         /\ legs' = legs \cup {f} \cup IF blocked THEN {s} ELSE {}
         /\ f \in Leg /\ f.key = k /\ f.sequence = 1 /\ f.side = "SELL"
         /\ f.asset = commands[k].source
         /\ f.filled = result.filled /\ f.final = result.final
         /\ f.status = result.status
         /\ blocked => /\ s \in Leg /\ s.key = k /\ s.sequence = 2
                       /\ s.side = "BUY" /\ s.asset = commands[k].destination
                       /\ s.filled = 0 /\ s.final = 0
         /\ f \notin legs /\ s \notin legs /\ f # s
         /\ r \in Row /\ r.unspent = 0 /\ r.reviewed = review
         /\ conversions' = [conversions EXCEPT ![k] = r]
         /\ r.status = "ROUTING" => ~finished
  BY <1>4, <1>5, <1>7, <1>9, <1>10, <1>11
<1>. QED  BY <1>12 DEF blocked, finished, review

LEMMA SaleKeeps ==
  ASSUME NEW p \in Callers, NEW k, NEW result, SaleSettles(p, k, result)
  PROVE  ConversionInv'
<1>. DEFINE review == NeedsReview(commands[k], result)
            blocked == review /\ commands[k].destination # "USD"
            finished == commands[k].destination = "USD" \/ result.status = "FAILED" \/ review
<1>1. PICK first, second, row :
         /\ legs' = legs \cup {first} \cup IF blocked THEN {second} ELSE {}
         /\ first \in Leg /\ first.key = k /\ first.sequence = 1 /\ first.side = "SELL"
         /\ first.asset = commands[k].source
         /\ first.filled = result.filled /\ first.final = result.final
         /\ first.status = result.status
         /\ blocked => /\ second \in Leg /\ second.key = k /\ second.sequence = 2
                       /\ second.side = "BUY" /\ second.asset = commands[k].destination
                       /\ second.filled = 0 /\ second.final = 0
         /\ first \notin legs /\ second \notin legs /\ first # second
         /\ row \in Row /\ row.unspent = 0 /\ row.reviewed = review
         /\ conversions' = [conversions EXCEPT ![k] = row]
         /\ row.status = "ROUTING" => ~finished
  BY SaleRows
<1>2. /\ Created(k) /\ k \in Keys /\ plan \in Plans /\ commands[k] # None
      /\ conversions[k] \in Row /\ conversions[k].unspent = 0 /\ ~conversions[k].reviewed
      /\ commands[k].source # "USD"
      /\ Settleable(result) /\ SoldWithin(result.filled, result.status, commands[k].amount)
      /\ \A l \in legs : l.key # k
  BY SaleFacts DEF SaleSettles
<1>3. row # None /\ conversions'[k] = row
  <2>1. None \notin Row
    BY ConversionAssumption
  <2>2. conversions \in [Keys -> Row \cup {None}]
    BY DEF SaleSettles, ConversionInv, ConversionsSound
  <2>. QED  BY <1>1, <1>2, <2>1, <2>2
<1>. HIDE DEF review
<1>. DEFINE rows == {first} \cup IF blocked THEN {second} ELSE {}
<1>4. IsFiniteSet(rows) /\ legs' = legs \cup rows
  <2>1. IsFiniteSet({first}) /\ IsFiniteSet({second}) /\ IsFiniteSet({})
    BY FS_Singleton, FS_EmptySet
  <2>. QED  BY <1>1, <2>1, FS_Union
<1>5. Created(k)' /\ HasFirstLeg(k)' /\ commands' = commands
  BY <1>1, <1>3 DEF Created, HasFirstLeg, commands, SaleSettles
<1>6. \A l \in rows : l.key = k /\ LegSound(l)'
  <2>1. LegSound(first)'
    BY <1>1, <1>2, <1>5 DEF LegSound, Settleable
  <2>2. blocked => LegSound(second)'
    BY <1>1, <1>2, <1>5 DEF LegSound
  <2>. QED  BY <1>1, <2>1, <2>2
<1>7. \A l \in rows, m \in legs' : l.key = m.key /\ l.sequence = m.sequence => l = m
  BY <1>1, <1>2
<1>8. RowComplete(k)'
  <2>1. row.status = "ROUTING" => \A l \in legs' : l.key = k => l.sequence = 1
    BY <1>1, <1>2
  <2>2. \A l \in legs' : l.key = k /\ l.sequence = 2 => l.filled = 0
    BY <1>1, <1>2
  <2>3. row.status = "ROUTING" => ~row.reviewed
    BY <1>1
  <2>. QED  BY <1>1, <1>2, <1>3, <1>5, <2>1, <2>2, <2>3 DEF RowComplete, Routing
<1>9. LegsSound' /\ ConversionsSound' /\ ReservingSound' /\ Grows
  <2>. HIDE DEF rows
  <2>. QED  BY <1>1, <1>2, <1>4, <1>6, <1>7, <1>8, SettleKeeps DEF SaleSettles
<1>10. CallsSound'
  <2>1. CASE finished
    <3>1. calls' = [calls EXCEPT ![p] = None]
      BY <2>1 DEF SaleSettles, SettleFirstSale, Return, review
    <3>. QED  BY <1>9, <3>1, CallsStep DEF SaleSettles, ConversionInv
  <2>2. CASE ~finished
    <3>1. PICK c : c = [at |-> "BUY", key |-> k, budget |-> result.final, result |-> None]
      OBVIOUS
    <3>2. calls' = [calls EXCEPT ![p] = c]
      BY <2>2, <3>1 DEF SaleSettles, SettleFirstSale, Enter, review
    <3>3. c \in Call /\ c.key = k /\ c.at = "BUY"
      BY <1>2, <3>1, Entered DEF Settleable
    <3>4. CallSound(c)'
      BY <1>2, <1>5, <2>2, <3>3 DEF CallSound
    <3>. QED  BY <1>9, <3>2, <3>3, <3>4, CallsStep DEF SaleSettles, ConversionInv
  <2>. QED  BY <2>1, <2>2
<1>. QED  BY <1>9, <1>10 DEF ConversionInv

(* A purchase that is settled, and what is known of it. *)
SequenceOf(k) == IF commands[k].source = "USD" THEN 1 ELSE 2

PurchaseSettles(p, k, result) ==
    /\ ConversionInv
    /\ k \in Keys /\ calls[p] # None /\ k = calls[p].key /\ result = calls[p].result
    /\ calls[p].at = "BOUGHT" /\ Routing(k)
    /\ \A l \in legs : l.key = k => l.sequence # SequenceOf(k)
    /\ reserving = None /\ UNCHANGED <<plan, reserving, elsewhere>>
    /\ postBuy(k, result)
    /\ InsertLegs({persistRouteResult(k, SequenceOf(k), "BUY", commands[k].destination, result)})
    /\ CompleteConversion(k, PurchaseStatus(k, SequenceOf(k), result), result.unspent, FALSE)
    /\ Return(p)

LEMMA PurchaseFacts ==
  ASSUME NEW p \in Callers, NEW k, NEW result, PurchaseSettles(p, k, result)
  PROVE  /\ plan \in Plans /\ Created(k) /\ commands[k] # None
         /\ conversions[k] \in Row /\ conversions[k].unspent = 0 /\ ~conversions[k].reviewed
         /\ commands[k].destination \in Assets /\ commands[k].amount \in Nat
         /\ commands[k].source # "USD" => HasFirstLeg(k) /\ commands[k].source \in Assets
         /\ Settleable(result) /\ result.unspent \in Nat
         /\ commands[k].source = "USD" => \A l \in legs : l.key # k
<1>1. /\ calls[p] \in Call /\ CallSound(calls[p]) /\ plan \in Plans /\ commands[k] # None
  BY CallTypes DEF PurchaseSettles
<1>2. /\ Created(k) /\ commands[k].destination # "USD"
      /\ commands[k].source # "USD" => HasFirstLeg(k)
      /\ Settleable(result) /\ result.unspent \in Nat
  BY <1>1 DEF PurchaseSettles, CallSound
<1>3. RowComplete(k) /\ conversions \in [Keys -> Row \cup {None}]
  BY <1>2 DEF PurchaseSettles, ConversionInv, ConversionsSound
<1>4. /\ commands[k].destination \in Assets /\ commands[k].amount \in Nat
      /\ commands[k].source # "USD" => commands[k].source \in Assets
  BY <1>1, <1>2, CommandTypes DEF PurchaseSettles
<1>5. conversions[k] \in Row /\ conversions[k].unspent = 0 /\ ~conversions[k].reviewed
  BY <1>2, <1>3 DEF PurchaseSettles, Created, RowComplete
<1>6. commands[k].source = "USD" => \A l \in legs : l.key # k
  BY <1>3 DEF PurchaseSettles, RowComplete
<1>. QED  BY <1>1, <1>2, <1>4, <1>5, <1>6

(* The rows a purchase writes. *)
PurchaseWritten(k, result) ==
    \E leg, row :
          /\ legs' = legs \cup {leg} /\ leg \notin legs
          /\ leg \in Leg /\ leg.key = k /\ leg.sequence = SequenceOf(k) /\ leg.side = "BUY"
          /\ leg.asset = commands[k].destination
          /\ leg.filled = result.filled /\ leg.final = result.final
          /\ row \in Row /\ row.unspent = result.unspent /\ row.reviewed = FALSE
          /\ row.status # "ROUTING"
          /\ conversions' = [conversions EXCEPT ![k] = row]

LEMMA PurchaseRows ==
  ASSUME NEW p \in Callers, NEW k, NEW result, PurchaseSettles(p, k, result)
  PROVE  PurchaseWritten(k, result)
<1>. DEFINE leg == persistRouteResult(k, SequenceOf(k), "BUY", commands[k].destination, result)
            status == PurchaseStatus(k, SequenceOf(k), result)
            row == [status |-> status, unspent |-> result.unspent, reviewed |-> FALSE]
<1>1. /\ commands[k].destination \in Assets /\ Settleable(result) /\ result.unspent \in Nat
      /\ k \in Keys /\ SequenceOf(k) \in 1 .. 2
  <2>1. k \in Keys /\ SequenceOf(k) \in 1 .. 2
    BY DEF PurchaseSettles, SequenceOf
  <2>. QED  BY <2>1, PurchaseFacts
<1>2. /\ legs' = legs \cup {leg} /\ conversions' = [conversions EXCEPT ![k] = row]
  BY DEF PurchaseSettles, InsertLegs, CompleteConversion
<1>3. /\ leg \in Leg /\ leg.key = k /\ leg.sequence = SequenceOf(k) /\ leg.side = "BUY"
      /\ leg.asset = commands[k].destination
      /\ leg.filled = result.filled /\ leg.final = result.final
  BY <1>1, SettledLeg
<1>4. leg \notin legs
  BY <1>3 DEF PurchaseSettles
<1>5. status \in {"FILLED", "PARTIALLY_FILLED", "FAILED"}
  BY <1>1 DEF PurchaseStatus, Settleable, RouteResult
<1>. HIDE DEF leg, status
<1>6. row \in Row /\ row.unspent = result.unspent /\ row.reviewed = FALSE /\ row.status # "ROUTING"
  BY <1>1, <1>5 DEF Row, Status
<1>. HIDE DEF row
<1>. QED  BY <1>2, <1>3, <1>4, <1>6 DEF PurchaseWritten

LEMMA PurchaseKeeps ==
  ASSUME NEW p \in Callers, NEW k, NEW result, PurchaseSettles(p, k, result)
  PROVE  ConversionInv'
<1>1. PICK leg, row :
         /\ legs' = legs \cup {leg} /\ leg \notin legs
         /\ leg \in Leg /\ leg.key = k /\ leg.sequence = SequenceOf(k) /\ leg.side = "BUY"
         /\ leg.asset = commands[k].destination
         /\ leg.filled = result.filled /\ leg.final = result.final
         /\ row \in Row /\ row.unspent = result.unspent /\ row.reviewed = FALSE
         /\ row.status # "ROUTING"
         /\ conversions' = [conversions EXCEPT ![k] = row]
  <2>1. PurchaseWritten(k, result)
    BY PurchaseRows
  <2>. QED  BY <2>1 DEF PurchaseWritten
<1>2. /\ Created(k) /\ k \in Keys /\ plan \in Plans /\ commands[k] # None
      /\ commands[k].source # "USD" => HasFirstLeg(k)
      /\ Settleable(result) /\ result.unspent \in Nat
  BY PurchaseFacts DEF PurchaseSettles
<1>3. row # None /\ conversions'[k] = row
  <2>1. None \notin Row
    BY ConversionAssumption
  <2>2. conversions \in [Keys -> Row \cup {None}]
    BY DEF PurchaseSettles, ConversionInv, ConversionsSound
  <2>. QED  BY <1>1, <1>2, <2>1, <2>2
<1>4. /\ Created(k)' /\ HasFirstLeg(k)' /\ commands' = commands
  BY <1>1, <1>2, <1>3 DEF Created, HasFirstLeg, commands, PurchaseSettles, SequenceOf
<1>5. LegSound(leg)'
  BY <1>1, <1>2, <1>4 DEF LegSound, Settleable, SequenceOf
<1>6. \A l \in {leg}, m \in legs' : l.key = m.key /\ l.sequence = m.sequence => l = m
  BY <1>1 DEF PurchaseSettles
<1>7. RowComplete(k)'
  BY <1>1, <1>2, <1>3, <1>4 DEF RowComplete, Routing
<1>8. IsFiniteSet({leg})
  BY FS_Singleton
<1>9. LegsSound' /\ ConversionsSound' /\ ReservingSound' /\ Grows
  <2>1. \A l \in {leg} : l.key = k /\ LegSound(l)'
    BY <1>1, <1>5
  <2>. QED  BY <1>1, <1>2, <1>6, <1>7, <1>8, <2>1, SettleKeeps DEF PurchaseSettles
<1>10. CallsSound'
  <2>1. calls' = [calls EXCEPT ![p] = None]
    BY DEF PurchaseSettles, Return
  <2>. QED  BY <1>9, <2>1, CallsStep DEF PurchaseSettles, ConversionInv
<1>. QED  BY <1>9, <1>10 DEF ConversionInv

(* The settling transactions, which first read what has become of the      *)
(* conversion.                                                             *)
LEMMA SellLegCases ==
  ASSUME ConversionInv, plan' = plan, NEW p \in Callers, finalizeSellLeg(p)
  PROVE  \/ SaleSettles(p, calls[p].key, calls[p].result)
         \/ /\ UNCHANGED <<cash, assets, conversions, legs, elsewhere, reserving>>
            /\ ConversionInv'
<1>. DEFINE k == calls[p].key
<1>1. /\ calls[p] # None /\ calls[p].at = "SOLD" /\ reserving = None
      /\ UNCHANGED <<elsewhere, reserving>>
  BY DEF finalizeSellLeg, ProfileFree
<1>2. /\ k \in Keys /\ Created(k) /\ plan \in Plans
  BY <1>1, CallTypes DEF CallSound
<1>3. CASE Routing(k) /\ ListLegs(k) = {} /\ SettleFirstSale(p, k, calls[p].result)
  BY <1>1, <1>2, <1>3 DEF SaleSettles
<1>4. CASE /\ Routing(k) /\ ListLegs(k) # {} /\ TowardsPurchase(p, k)
           /\ UNCHANGED <<cash, assets, conversions, legs>>
  <2>1. HasFirstLeg(k)
    BY <1>2, <1>4, HasLegs DEF ConversionInv
  <2>2. PICK c : (c # None => c \in Call /\ CallSound(c)) /\ calls' = [calls EXCEPT ![p] = c]
    BY <1>2, <1>4, <2>1, PurchaseEntered
  <2>. QED  BY <1>1, <1>4, <2>2, SameReserving, OnlyCalls
<1>5. CASE Return(p) /\ UNCHANGED <<cash, assets, conversions, legs>>
  <2>1. calls' = [calls EXCEPT ![p] = None]
    BY <1>5 DEF Return
  <2>. QED  BY <1>1, <1>5, <2>1, SameReserving, OnlyCalls
<1>. QED  BY <1>3, <1>4, <1>5 DEF finalizeSellLeg

LEMMA BuyLegCases ==
  ASSUME ConversionInv, plan' = plan, NEW p \in Callers, finalizeBuyLeg(p)
  PROVE  \/ PurchaseSettles(p, calls[p].key, calls[p].result)
         \/ /\ UNCHANGED <<cash, assets, conversions, legs, elsewhere, reserving>>
            /\ ConversionInv'
<1>. DEFINE k == calls[p].key
            result == calls[p].result
<1>1. /\ calls[p] # None /\ calls[p].at = "BOUGHT" /\ reserving = None
      /\ UNCHANGED <<elsewhere, reserving>> /\ Return(p)
  BY DEF finalizeBuyLeg, ProfileFree
<1>2. k \in Keys
  BY <1>1, CallTypes
<1>3. CASE /\ Routing(k) /\ ~(\E l \in ListLegs(k) : l.sequence = SequenceOf(k))
           /\ postBuy(k, result)
           /\ InsertLegs({persistRouteResult(k, SequenceOf(k), "BUY",
                                             commands[k].destination, result)})
           /\ CompleteConversion(k, PurchaseStatus(k, SequenceOf(k), result),
                                 result.unspent, FALSE)
  <2>1. \A l \in legs : l.key = k => l.sequence # SequenceOf(k)
    BY <1>3 DEF ListLegs
  <2>. QED  BY <1>1, <1>2, <1>3, <2>1 DEF PurchaseSettles
<1>4. CASE UNCHANGED <<cash, assets, legs, conversions>>
  <2>1. calls' = [calls EXCEPT ![p] = None]
    BY <1>1 DEF Return
  <2>. QED  BY <1>1, <1>4, <2>1, SameReserving, OnlyCalls
<1>. QED  BY <1>3, <1>4 DEF finalizeBuyLeg, SequenceOf

LEMMA SpendKeeps ==
  ASSUME ConversionInv, plan' = plan, NEW amount \in SpentElsewhere, SpendElsewhere(amount)
  PROVE  ConversionInv'
<1>1. /\ elsewhere' \in Nat /\ UNCHANGED <<conversions, legs, calls, reserving>>
  BY ConversionAssumption DEF SpendElsewhere
<1>2. Grows
  BY <1>1 DEF Grows, Created
<1>3. CallsSound'
  BY <1>1, <1>2, CallsWait DEF ConversionInv
<1>4. LegsSound' /\ ConversionsSound'
  BY <1>1 DEF ConversionInv, LegsSound, LegSound, ConversionsSound, RowComplete, Created, Routing,
         commands, HasFirstLeg
<1>. QED  BY <1>1, <1>3, <1>4, SameReserving DEF ConversionInv

(* Every step keeps what conversions, legs and calls know of each other. *)
LEMMA ConversionKeeps ==
  ASSUME ConversionInv, plan' = plan, ConversionNext
  PROVE  ConversionInv'
BY BeginKeeps, ReserveAssetKeeps, ReplayKeeps, CommitKeeps, ReadKeeps, RouteSellKeeps,
   RouteBuyKeeps, CutOffKeeps, SellLegCases, SaleKeeps, BuyLegCases, PurchaseKeeps, SpendKeeps
   DEF ConversionNext

LEMMA ConversionWaits ==
  ASSUME ConversionInv, UNCHANGED <<plan, reserving, conversionVars>>
  PROVE  ConversionInv'
<1>1. UNCHANGED <<plan, reserving, conversions, legs, calls, elsewhere>>
  BY DEF conversionVars
<1>2. Grows
  BY <1>1 DEF Grows, Created
<1>3. CallsSound'
  BY <1>1, <1>2, CallsWait DEF ConversionInv
<1>4. LegsSound' /\ ConversionsSound'
  BY <1>1 DEF ConversionInv, LegsSound, LegSound, ConversionsSound, RowComplete, Created, Routing,
         commands, HasFirstLeg
<1>. QED  BY <1>1, <1>3, <1>4, SameReserving DEF ConversionInv

-----------------------------------------------------------------------------
(* Types                                                                   *)

LEMMA PostTypes ==
  ASSUME NEW b \in Balances, NEW e, \A d \in Dimension \cap DOMAIN e : e[d] \in Int
  PROVE  /\ Post(b, e) \in Balances
         /\ \A d \in Dimension : Post(b, e)[d] = b[d] + (IF d \in DOMAIN e THEN e[d] ELSE 0)
<1>1. \A d \in Dimension : b[d] \in Int
  BY DEF Balances
<1>. QED  BY <1>1 DEF Post, Balances

LEMMA PostAssetTypes ==
  ASSUME assets \in [Assets -> Holding], NEW a \in Assets, NEW settled \in Int, NEW held \in Int,
         PostAsset(a, settled, held)
  PROVE  /\ assets' \in [Assets -> Holding]
         /\ assets[a].settled \in Int /\ assets[a].held \in Int
         /\ assets'[a] = [settled |-> assets[a].settled + settled, held |-> assets[a].held + held]
         /\ \A x \in Assets \ {a} : assets'[x] = assets[x]
<1>1. assets[a] \in Holding /\ assets[a].settled \in Int /\ assets[a].held \in Int
  BY DEF Holding
<1>2. [settled |-> assets[a].settled + settled, held |-> assets[a].held + held] \in Holding
  BY <1>1 DEF Holding
<1>. QED  BY <1>1, <1>2 DEF PostAsset

(* The posting of a purchase, dimension by dimension. *)
LEMMA PurchasePosting ==
  ASSUME cash \in Balances, NEW k, NEW result, result.final \in Int, result.unspent \in Int,
         cash' = Post(cash, IF commands[k].source # "USD" THEN SettledEntries(-result.final)
                            ELSE [HELD         |-> -result.final - result.unspent,
                                  SETTLED      |-> result.unspent,
                                  WITHDRAWABLE |-> result.unspent])
  PROVE  /\ cash' \in Balances
         /\ cash'["FROZEN"] = cash["FROZEN"]
         /\ cash'["SETTLED"] = IF commands[k].source # "USD" THEN cash["SETTLED"] - result.final
                               ELSE cash["SETTLED"] + result.unspent
         /\ cash'["WITHDRAWABLE"] =
               IF commands[k].source # "USD" THEN cash["WITHDRAWABLE"] - result.final
               ELSE cash["WITHDRAWABLE"] + result.unspent
         /\ cash'["HELD"] = IF commands[k].source # "USD" THEN cash["HELD"]
                            ELSE cash["HELD"] - result.final - result.unspent
<1>0. \A d \in Dimension : cash[d] \in Int
  BY DEF Balances
<1>1. CASE commands[k].source # "USD"
  <2>. DEFINE e == SettledEntries(-result.final)
  <2>1. /\ DOMAIN e = {"SETTLED", "WITHDRAWABLE"}
        /\ e["SETTLED"] = -result.final /\ e["WITHDRAWABLE"] = -result.final
    BY DEF SettledEntries
  <2>2. cash' = Post(cash, e)
    BY <1>1
  <2>. HIDE DEF e
  <2>. QED  BY <1>0, <1>1, <2>1, <2>2, PostTypes DEF Dimension
<1>2. CASE commands[k].source = "USD"
  <2>. DEFINE e == [HELD         |-> -result.final - result.unspent,
                    SETTLED      |-> result.unspent,
                    WITHDRAWABLE |-> result.unspent]
  <2>1. /\ DOMAIN e = {"HELD", "SETTLED", "WITHDRAWABLE"}
        /\ e["HELD"] = -result.final - result.unspent
        /\ e["SETTLED"] = result.unspent /\ e["WITHDRAWABLE"] = result.unspent
    OBVIOUS
  <2>2. cash' = Post(cash, e)
    BY <1>2
  <2>. HIDE DEF e
  <2>. QED  BY <1>0, <1>2, <2>1, <2>2, PostTypes DEF Dimension
<1>. QED  BY <1>1, <1>2

(* The posting of a sale. *)
LEMMA SalePosting ==
  ASSUME cash \in Balances, NEW final \in Int, NEW review,
         cash' = Post(cash, IF review THEN [FROZEN |-> final] ELSE SettledEntries(final))
  PROVE  /\ cash' \in Balances
         /\ cash'["HELD"] = cash["HELD"]
         /\ cash'["FROZEN"] = IF review THEN cash["FROZEN"] + final ELSE cash["FROZEN"]
         /\ cash'["SETTLED"] = IF review THEN cash["SETTLED"] ELSE cash["SETTLED"] + final
         /\ cash'["WITHDRAWABLE"] =
               IF review THEN cash["WITHDRAWABLE"] ELSE cash["WITHDRAWABLE"] + final
<1>0. \A d \in Dimension : cash[d] \in Int
  BY DEF Balances
<1>1. CASE review
  <2>. DEFINE e == [FROZEN |-> final]
  <2>1. DOMAIN e = {"FROZEN"} /\ e["FROZEN"] = final
    OBVIOUS
  <2>2. cash' = Post(cash, e)
    BY <1>1
  <2>. HIDE DEF e
  <2>. QED  BY <1>0, <1>1, <2>1, <2>2, PostTypes DEF Dimension
<1>2. CASE ~review
  <2>. DEFINE e == SettledEntries(final)
  <2>1. /\ DOMAIN e = {"SETTLED", "WITHDRAWABLE"}
        /\ e["SETTLED"] = final /\ e["WITHDRAWABLE"] = final
    BY DEF SettledEntries
  <2>2. cash' = Post(cash, e)
    BY <1>2
  <2>. HIDE DEF e
  <2>. QED  BY <1>0, <1>2, <2>1, <2>2, PostTypes DEF Dimension
<1>. QED  BY <1>1, <1>2

(* The posting of a reservation. *)
LEMMA ReservationPosting ==
  ASSUME cash \in Balances, NEW amount \in Int,
         cash' = Post(cash, [SETTLED |-> -amount, WITHDRAWABLE |-> -amount, HELD |-> amount])
  PROVE  /\ cash' \in Balances
         /\ cash'["HELD"] = cash["HELD"] + amount
         /\ cash'["FROZEN"] = cash["FROZEN"]
         /\ cash'["SETTLED"] = cash["SETTLED"] - amount
         /\ cash'["WITHDRAWABLE"] = cash["WITHDRAWABLE"] - amount
<1>0. \A d \in Dimension : cash[d] \in Int
  BY DEF Balances
<1>. DEFINE e == [SETTLED |-> -amount, WITHDRAWABLE |-> -amount, HELD |-> amount]
<1>1. /\ DOMAIN e = {"HELD", "SETTLED", "WITHDRAWABLE"}
      /\ e["HELD"] = amount /\ e["SETTLED"] = -amount /\ e["WITHDRAWABLE"] = -amount
  OBVIOUS
<1>2. cash' = Post(cash, e)
  OBVIOUS
<1>. HIDE DEF e
<1>. QED  BY <1>0, <1>1, <1>2, PostTypes DEF Dimension

LEMMA SpendPosting ==
  ASSUME cash \in Balances, NEW amount \in Int, cash' = Post(cash, SettledEntries(-amount))
  PROVE  /\ cash' \in Balances
         /\ cash'["HELD"] = cash["HELD"]
         /\ cash'["FROZEN"] = cash["FROZEN"]
         /\ cash'["SETTLED"] = cash["SETTLED"] - amount
         /\ cash'["WITHDRAWABLE"] = cash["WITHDRAWABLE"] - amount
<1>0. \A d \in Dimension : cash[d] \in Int
  BY DEF Balances
<1>. DEFINE e == SettledEntries(-amount)
<1>1. /\ DOMAIN e = {"SETTLED", "WITHDRAWABLE"}
      /\ e["SETTLED"] = -amount /\ e["WITHDRAWABLE"] = -amount
  BY DEF SettledEntries
<1>2. cash' = Post(cash, e)
  OBVIOUS
<1>. HIDE DEF e
<1>. QED  BY <1>0, <1>1, <1>2, PostTypes DEF Dimension

(* What moves cash and assets in a conversion. *)
LEMMA BooksKeep ==
  ASSUME BooksTypeOK, ConversionInv, plan' = plan, ConversionNext
  PROVE  BooksTypeOK'
<1>. USE DEF BooksTypeOK
<1>1. ASSUME NEW p \in Callers, NEW k \in Keys, ReserveAsset(p, k)  PROVE BooksTypeOK'
  <2>1. plan \in Plans /\ commands[k] # None /\ commands[k].source # "USD"
    BY <1>1 DEF ReserveAsset, ConversionInv, ConversionsSound
  <2>2. commands[k].source \in Assets /\ commands[k].amount \in Int
    BY <2>1, CommandTypes
  <2>3. -commands[k].amount \in Int
    BY <2>2
  <2>. QED  BY <1>1, <2>2, <2>3, PostAssetTypes DEF ReserveAsset
<1>2. CASE CommitReservation
  <2>1. plan \in Plans /\ reserving \in Keys /\ commands[reserving] # None
    BY <1>2 DEF CommitReservation, ConversionInv, ConversionsSound, ReservingSound
  <2>2. commands[reserving].amount \in Int
    BY <2>1, CommandTypes
  <2>. QED  BY <1>2, <2>2, ReservationPosting DEF CommitReservation
<1>3. ASSUME NEW p \in Callers, NEW k, NEW result, SaleSettles(p, k, result)
      PROVE  BooksTypeOK'
  <2>1. /\ commands[k].source \in Assets /\ commands[k].amount \in Int /\ Settleable(result)
    BY <1>3, SaleFacts
  <2>2. result.final \in Int /\ result.filled \in Int
    BY <2>1 DEF Settleable
  <2>3. postSell(k, result, NeedsReview(commands[k], result))
    BY <1>3 DEF SaleSettles, SettleFirstSale
  <2>4. commands[k].amount - result.filled \in Int /\ -commands[k].amount \in Int
    BY <2>1, <2>2
  <2>. QED
    BY <2>1, <2>2, <2>3, <2>4, SalePosting, PostAssetTypes DEF postSell, releaseReservation
<1>4. ASSUME NEW p \in Callers, NEW k, NEW result, PurchaseSettles(p, k, result)
      PROVE  BooksTypeOK'
  <2>1. /\ commands[k].destination \in Assets /\ Settleable(result) /\ result.unspent \in Int
    BY <1>4, PurchaseFacts
  <2>2. result.final \in Int /\ result.filled \in Int
    BY <2>1 DEF Settleable
  <2>3. postBuy(k, result)
    BY <1>4 DEF PurchaseSettles
  <2>4. cash' \in Balances
    BY <2>1, <2>2, <2>3, PurchasePosting DEF postBuy
  <2>5. PostAsset(commands[k].destination, result.filled, 0) /\ 0 \in Int
    BY <2>3 DEF postBuy
  <2>. QED  BY <2>1, <2>2, <2>4, <2>5, PostAssetTypes
<1>5. ASSUME NEW amount \in SpentElsewhere, SpendElsewhere(amount)  PROVE BooksTypeOK'
  <2>1. amount \in Int
    BY ConversionAssumption
  <2>. QED  BY <1>5, <2>1, SpendPosting DEF SpendElsewhere
<1>6. CASE UNCHANGED <<cash, assets>>
  BY <1>6
<1>7. ASSUME NEW p \in Callers, NEW k \in Keys, BeginReservation(p, k) \/ Replay(p, k)
      PROVE  UNCHANGED <<cash, assets>>
  BY <1>7 DEF BeginReservation, Replay
<1>8. ASSUME NEW p \in Callers, ReadProgress(p) \/ RouteSell(p) \/ RouteBuy(p) \/ CutOff(p)
      PROVE  UNCHANGED <<cash, assets>>
  BY <1>8 DEF ReadProgress, RouteSell, RouteBuy, CutOff
<1>9. ASSUME NEW p \in Callers, finalizeSellLeg(p) \/ finalizeBuyLeg(p)  PROVE BooksTypeOK'
  BY <1>3, <1>4, <1>6, <1>9, SellLegCases, BuyLegCases
<1>. QED
  BY <1>1, <1>2, <1>5, <1>6, <1>7, <1>8, <1>9 DEF ConversionNext

(* Custody keeps its types, and moves assets only. *)
LEMMA CustodyKeeps ==
  ASSUME BooksTypeOK, CustodyInv, CustodyNext
  PROVE  BooksTypeOK' /\ CustodyInv' /\ UNCHANGED <<cash, reserving>>
<1>0. None \notin WithdrawalRow /\ AddressAsset \in [Addresses -> Assets] /\ Quantities \subseteq Nat
  BY CustodyAssumption
<1>1. ASSUME NEW asset \in Assets,
             \/ CreateDepositAddress(asset)
             \/ \E reported : Reconcile(asset, reported)
      PROVE  BooksTypeOK' /\ CustodyInv' /\ UNCHANGED <<cash, reserving>>
  BY <1>1 DEF CreateDepositAddress, Reconcile, CreateReconciliationRun, BooksTypeOK, CustodyInv
<1>2. ASSUME NEW event \in DepositEvents, ApplyDepositEvent(event)
      PROVE  BooksTypeOK' /\ CustodyInv' /\ UNCHANGED <<cash, reserving>>
  <2>1. event.asset \in Assets /\ event.quantity \in Int /\ 0 \in Int
    BY CustodyAssumption
  <2>2. assets' \in [Assets -> Holding]
    BY <1>2, <2>1, PostAssetTypes DEF ApplyDepositEvent, BooksTypeOK
  <2>3. /\ deposits' \subseteq DepositEvents
        /\ events' \subseteq {e.id : e \in DepositEvents} \cup (Withdrawals \X Step)
    BY <1>2 DEF ApplyDepositEvent, CreateDeposit, InsertProviderEvent, CustodyInv
  <2>. QED  BY <1>2, <2>2, <2>3 DEF ApplyDepositEvent, BooksTypeOK, CustodyInv
<1>3. ASSUME NEW a \in Addresses, NEW risk, NEW decision \in Decision,
             AddWithdrawalAddress(a, risk, decision)
      PROVE  BooksTypeOK' /\ CustodyInv' /\ UNCHANGED <<cash, reserving>>
  <2>1. coolingDuration(risk) \in Nat
    BY PolicyAssumption DEF coolingDuration, PolicyHours
  <2>2. NewAddress(risk, decision) \in AddressRow
    BY <2>1 DEF NewAddress, AddressRow, CustodyInv, Decision
  <2>3. addresses' \in [Addresses -> AddressRow \cup {None}]
    BY <1>3, <2>2 DEF AddWithdrawalAddress, CreateWithdrawalAddress, CustodyInv
  <2>. QED  BY <1>3, <2>3 DEF AddWithdrawalAddress, BooksTypeOK, CustodyInv
<1>4. ASSUME NEW r \in Requests, NEW a \in Addresses, NEW blocked \in BOOLEAN,
             AnalyzeForActivation(r, a, blocked)
      PROVE  BooksTypeOK' /\ CustodyInv' /\ UNCHANGED <<cash, reserving>>
  BY <1>4 DEF AnalyzeForActivation, Activation, BooksTypeOK, CustodyInv
<1>5. ASSUME NEW r \in Requests, NEW a \in Addresses, NEW w \in Withdrawals,
             NEW quantity \in Quantities, AskCustodian(r, w, a, quantity)
      PROVE  BooksTypeOK' /\ CustodyInv' /\ UNCHANGED <<cash, reserving>>
  <2>1. requests' \in [Requests -> Activation \cup Prepared \cup {None}]
    BY <1>5 DEF AskCustodian, Prepared, CustodyInv
  <2>2. custodian' \in [Withdrawals -> SUBSET Step]
    BY <1>5 DEF AskCustodian, PrepareWithdrawal, Step, CustodyInv
  <2>. QED  BY <1>5, <2>1, <2>2 DEF AskCustodian, BooksTypeOK, CustodyInv
<1>6. ASSUME NEW r \in Requests, ActivateWithdrawalAddress(r)
      PROVE  BooksTypeOK' /\ CustodyInv' /\ UNCHANGED <<cash, reserving>>
  <2>. DEFINE a == requests[r].address
  <2>1. a \in Addresses /\ requests[r].blocked \in BOOLEAN
    BY <1>6 DEF ActivateWithdrawalAddress, Activation
  <2>2. addresses' \in [Addresses -> AddressRow \cup {None}]
    <3>1. CASE MayActivate(a) /\ TransitionWithdrawalAddress(a, requests[r].blocked)
      <4>1. addresses[a] \in AddressRow
        BY <2>1, <3>1 DEF MayActivate, IsCoolingOff, Registered, CustodyInv
      <4>2. /\ [addresses[a] EXCEPT !.status = "SUSPENDED", !.risk = "BLOCKED"] \in AddressRow
            /\ [addresses[a] EXCEPT !.status = "ACTIVE"] \in AddressRow
        BY <4>1 DEF AddressRow
      <4>. QED  BY <2>1, <3>1, <4>2 DEF TransitionWithdrawalAddress, CustodyInv
    <3>2. CASE addresses' = addresses
      BY <3>2 DEF CustodyInv
    <3>. QED  BY <1>6, <3>1, <3>2 DEF ActivateWithdrawalAddress
  <2>3. requests' \in [Requests -> Activation \cup Prepared \cup {None}]
    BY <1>6 DEF ActivateWithdrawalAddress, CustodyInv
  <2>. QED  BY <1>6, <2>2, <2>3 DEF ActivateWithdrawalAddress, BooksTypeOK, CustodyInv
<1>7. ASSUME NEW r \in Requests, RequestWithdrawal(r)
      PROVE  BooksTypeOK' /\ CustodyInv' /\ UNCHANGED <<cash, reserving>>
  <2>. DEFINE w == requests[r].withdrawal
              a == requests[r].address
              quantity == requests[r].quantity
  <2>1. w \in Withdrawals /\ a \in Addresses /\ quantity \in Quantities /\ quantity \in Int
    BY <1>0, <1>7 DEF RequestWithdrawal, Prepared
  <2>2. AddressAsset[a] \in Assets /\ -quantity \in Int
    BY <1>0, <2>1
  <2>3. ASSUME PostAsset(AddressAsset[a], -quantity, quantity), CreateWithdrawal(w, a, quantity)
        PROVE  /\ assets' \in [Assets -> Holding]
               /\ withdrawals' \in [Withdrawals -> WithdrawalRow \cup {None}]
    <3>1. assets' \in [Assets -> Holding]
      BY <2>1, <2>2, <2>3, PostAssetTypes DEF BooksTypeOK
    <3>2. [address |-> a, quantity |-> quantity, status |-> "APPROVED", createdAt |-> clock]
            \in WithdrawalRow
      BY <2>1 DEF WithdrawalRow, WithdrawalStatus, CustodyInv
    <3>3. withdrawals' \in [Withdrawals -> WithdrawalRow \cup {None}]
      BY <2>1, <2>3, <3>2 DEF CreateWithdrawal, CustodyInv
    <3>. QED  BY <3>1, <3>3
  <2>4. assets' \in [Assets -> Holding]
        /\ withdrawals' \in [Withdrawals -> WithdrawalRow \cup {None}]
    BY <1>7, <2>3 DEF RequestWithdrawal, BooksTypeOK, CustodyInv
  <2>5. requests' \in [Requests -> Activation \cup Prepared \cup {None}]
    BY <1>7 DEF RequestWithdrawal, CustodyInv
  <2>. QED  BY <1>7, <2>4, <2>5 DEF RequestWithdrawal, BooksTypeOK, CustodyInv
<1>8. ASSUME NEW r \in Requests, CutOffRequest(r)
      PROVE  BooksTypeOK' /\ CustodyInv' /\ UNCHANGED <<cash, reserving>>
  BY <1>8 DEF CutOffRequest, BooksTypeOK, CustodyInv
<1>9. ASSUME NEW w \in Withdrawals, NEW step \in Step, CustodianActs(w, step)
      PROVE  BooksTypeOK' /\ CustodyInv' /\ UNCHANGED <<cash, reserving>>
  BY <1>9 DEF CustodianActs, BooksTypeOK, CustodyInv
<1>10. ASSUME NEW w \in Withdrawals, NEW step \in Step, ApplyWithdrawalEvent(w, step)
       PROVE  BooksTypeOK' /\ CustodyInv' /\ UNCHANGED <<cash, reserving>>
  <2>. DEFINE a == AddressAsset[withdrawals[w].address]
              n == withdrawals[w].quantity
  <2>1. withdrawals[w] \in WithdrawalRow
    BY <1>10 DEF ApplyWithdrawalEvent, Requested, CustodyInv
  <2>2. a \in Assets /\ n \in Int /\ -n \in Int /\ 0 \in Int
    <3>1. withdrawals[w].address \in Addresses /\ n \in Quantities
      BY <2>1 DEF WithdrawalRow
    <3>2. n \in Nat
      BY <1>0, <3>1
    <3>. QED  BY <1>0, <3>1, <3>2
  <2>3. assets' \in [Assets -> Holding]
        /\ \E status \in WithdrawalStatus : TransitionWithdrawal(w, status)
    <3>1. CASE Broadcast(w)
      BY <2>2, <3>1, PostAssetTypes DEF Broadcast, WithdrawalStatus, BooksTypeOK
    <3>2. CASE Confirmed(w)
      BY <3>2 DEF Confirmed, WithdrawalStatus, BooksTypeOK
    <3>3. CASE Failed(w)
      <4>. DEFINE held == IF withdrawals[w].status = "APPROVED" THEN -n ELSE 0
      <4>1. held \in Int
        BY <2>2
      <4>2. PostAsset(a, n, held) /\ TransitionWithdrawal(w, "FAILED")
        BY <3>3 DEF Failed
      <4>. HIDE DEF held
      <4>. QED  BY <2>2, <4>1, <4>2, PostAssetTypes DEF WithdrawalStatus, BooksTypeOK
    <3>. QED  BY <1>10, <3>1, <3>2, <3>3 DEF ApplyWithdrawalEvent, transitionWithdrawalEvent
  <2>4. withdrawals' \in [Withdrawals -> WithdrawalRow \cup {None}]
    <3>1. \A status \in WithdrawalStatus :
             [withdrawals[w] EXCEPT !.status = status] \in WithdrawalRow
      BY <2>1 DEF WithdrawalRow
    <3>. QED  BY <2>3, <3>1 DEF TransitionWithdrawal, CustodyInv
  <2>5. events' \subseteq {e.id : e \in DepositEvents} \cup (Withdrawals \X Step)
    BY <1>10 DEF ApplyWithdrawalEvent, InsertProviderEvent, CustodyInv
  <2>. QED  BY <1>10, <2>3, <2>4, <2>5 DEF ApplyWithdrawalEvent, BooksTypeOK, CustodyInv
<1>11. CASE Tick
  <2>1. clock' \in 0 .. MaxClock
    BY <1>11, CustodyAssumption DEF Tick, CustodyInv
  <2>. QED  BY <1>11, <2>1 DEF Tick, BooksTypeOK, CustodyInv
<1>. QED
  BY <1>1, <1>2, <1>3, <1>4, <1>5, <1>6, <1>7, <1>8, <1>9, <1>10, <1>11 DEF CustodyNext

LEMMA TypesStart == Init => TypeInv
<1>. SUFFICES ASSUME Init  PROVE TypeInv
  OBVIOUS
<1>1. cash \in Balances
  BY BooksAssumption DEF Init, BooksInit, Opened, Balances
<1>2. assets \in [Assets -> Holding]
  BY BooksAssumption DEF Init, BooksInit, Holding
<1>3. CustodyInv
  BY CustodyAssumption DEF Init, CustodyInit, CustodyInv
<1>. QED  BY <1>1, <1>2, <1>3, ConversionStarts DEF TypeInv, BooksTypeOK

LEMMA TypesKept == TypeInv /\ [Next]_cryptoVars => TypeInv'
<1>. SUFFICES ASSUME TypeInv, [Next]_cryptoVars  PROVE TypeInv'
  OBVIOUS
<1>. USE DEF TypeInv
<1>1. CASE ConversionNext /\ UNCHANGED custodyVars /\ plan' = plan
  <2>1. CustodyInv'
    BY <1>1 DEF custodyVars, CustodyInv
  <2>. QED  BY <1>1, <2>1, BooksKeep, ConversionKeeps
<1>2. CASE CustodyNext /\ UNCHANGED conversionVars /\ plan' = plan
  <2>1. BooksTypeOK' /\ CustodyInv' /\ UNCHANGED <<cash, reserving>>
    BY <1>2, CustodyKeeps
  <2>2. ConversionInv'
    BY <1>2, <2>1, ConversionWaits
  <2>. QED  BY <2>1, <2>2
<1>3. CASE UNCHANGED cryptoVars
  <2>1. UNCHANGED <<cash, assets, plan, reserving, conversionVars, custodyVars>>
    BY <1>3 DEF cryptoVars
  <2>2. CustodyInv' /\ BooksTypeOK'
    BY <2>1 DEF custodyVars, CustodyInv, BooksTypeOK
  <2>3. ConversionInv'
    BY <2>1, ConversionWaits
  <2>. QED  BY <2>2, <2>3
<1>. QED  BY <1>1, <1>2, <1>3 DEF Next

LEMMA TypesAlways == Spec => []TypeInv
BY TypesStart, TypesKept, PTL DEF Spec, Safety

(* The state stays in its type: every amount a number, every conversion,   *)
(* leg, call, address and withdrawal what its row admits, whatever the     *)
(* venues and the custodian answer.                                        *)
THEOREM TypeCorrect == Spec => []TypeOK
<1>1. TypeInv => TypeOK
  <2>. SUFFICES ASSUME TypeInv  PROVE TypeOK
    OBVIOUS
  <2>1. ConversionTypeOK
    <3>1. \A k \in Keys : commands[k] = None \/ commands[k] \in Command
      BY CommandTypes DEF TypeInv, ConversionInv, ConversionsSound
    <3>2. \A l \in legs : l \in Leg
      BY DEF TypeInv, ConversionInv, LegsSound, LegSound
    <3>3. \A p \in Callers : calls[p] = None \/ calls[p] \in Call
      BY DEF TypeInv, ConversionInv, CallsSound
    <3>4. reserving \in Keys \cup {None}
      BY DEF TypeInv, ConversionInv, ReservingSound
    <3>5. (\A k \in Keys : conversions[k] = None \/ conversions[k] \in Row) /\ elsewhere \in Nat
      BY DEF TypeInv, ConversionInv, ConversionsSound
    <3>. QED  BY <3>1, <3>2, <3>3, <3>4, <3>5 DEF ConversionTypeOK
  <2>2. CustodyTypeOK
    BY DEF TypeInv, CustodyInv, CustodyTypeOK
  <2>. QED  BY <2>1, <2>2 DEF TypeOK, TypeInv
<1>. QED  BY <1>1, TypesAlways, PTL

(* A purchase accounts for its budget: what it paid with all fees and what *)
(* it returns add up to it but for the rounding of its child orders, for   *)
(* any quotes, fees and fills, and an overrun is rounding only (Buy,       *)
(* finalize).                                                              *)
THEOREM RoutesAlwaysWithinBudget == Spec => []RoutesWithinBudget
<1>1. TypeInv => RoutesWithinBudget
  <2>. SUFFICES ASSUME TypeInv, NEW p \in Callers, calls[p] # None, calls[p].at = "BUY",
                       calls[p].budget > 0, NEW b \in Behaviours
                PROVE  LET asset  == commands[calls[p].key].destination
                           result == Buy(asset, calls[p].budget, b)
                       IN  /\ result.unspent >= -RoundingUnits(result.children)
                           /\ Magnitude(calls[p].budget - result.unspent - result.final)
                                  <= RoundingUnits(result.children)
    BY DEF RoutesWithinBudget
  <2>1. /\ calls[p] \in Call /\ CallSound(calls[p]) /\ calls[p].key \in Keys
        /\ plan \in Plans /\ commands[calls[p].key] # None
    BY CallTypes DEF TypeInv
  <2>2. commands[calls[p].key].destination \in DOMAIN Market
    BY <2>1, CommandTypes, ConversionAssumption DEF CallSound
  <2>3. calls[p].budget \in Nat /\ b \in Behaviour
    BY <2>1, ConversionAssumption DEF Call
  <2>. QED  BY <2>2, <2>3, PurchaseWithinBudget
<1>. QED  BY <1>1, TypesAlways, PTL

-----------------------------------------------------------------------------
(* What the tables add up to                                               *)

ReservedCash == SumFunction([k \in FromUSD |-> commands[k].amount - conversions[k].unspent])

OpenSales(a) == SumFunction([k \in FromAsset(a) |-> OpenSale(k)])

SoldAssets(a) == SumFunction([k \in FromAsset(a) |-> Sold(k)])

BoughtAssets(a) == SumFunction([l \in Bought(a) |-> l.filled])

(* What the withdrawals in some of the states take from an asset. *)
Taken(a, status) == SumFunction([w \in Of(a, status) |-> withdrawals[w].quantity])

ApprovedAssets(a) == Taken(a, {"APPROVED"})

WithdrawnAssets(a) == Taken(a, WithdrawalStatus \ {"FAILED"})

DepositedAssets(a) == SumFunction([d \in Received(a) |-> d.quantity])

(* The sums that conversions and legs decide, and those of custody. *)
ConversionSums == <<HeldCash, ReservedCash, Finals(Sales \ Reviewed), Finals(SecondPurchases),
                    Finals(Reviewed), [a \in Assets |-> OpenSales(a)],
                    [a \in Assets |-> SoldAssets(a)], [a \in Assets |-> BoughtAssets(a)]>>

CustodySums == <<[a \in Assets |-> ApprovedAssets(a)], [a \in Assets |-> WithdrawnAssets(a)],
                 [a \in Assets |-> DepositedAssets(a)]>>

LEMMA SameConversionSums ==
  ASSUME UNCHANGED <<plan, conversions, legs>>
  PROVE  UNCHANGED ConversionSums
BY DEF ConversionSums, HeldCash, ReservedCash, OpenSales, SoldAssets, BoughtAssets, Finals, Sales,
       Reviewed, SecondPurchases, FromUSD, FromAsset, OpenReservation, OpenSale, Sold, Bought,
       LegAt, ListLegs, Created, Routing, commands

LEMMA SameCustodySums ==
  ASSUME UNCHANGED <<withdrawals, deposits>>
  PROVE  UNCHANGED CustodySums
BY DEF CustodySums, ApprovedAssets, WithdrawnAssets, Taken, DepositedAssets, Of, Received

(* What one conversion contributes. *)
KeyTypesAre(k) ==
    ConversionInv /\ Created(k) =>
         /\ commands[k].amount \in Nat /\ conversions[k].unspent \in Nat
         /\ OpenReservation(k) \in Int /\ OpenSale(k) \in Nat /\ Sold(k) \in Nat
         /\ commands[k].amount - conversions[k].unspent \in Int

LEMMA KeyTypes ==
  \A k \in Keys : KeyTypesAre(k)
<1>. SUFFICES ASSUME NEW k \in Keys, ConversionInv, Created(k)
              PROVE  /\ commands[k].amount \in Nat /\ conversions[k].unspent \in Nat
                     /\ OpenReservation(k) \in Int /\ OpenSale(k) \in Nat /\ Sold(k) \in Nat
                     /\ commands[k].amount - conversions[k].unspent \in Int
  BY DEF KeyTypesAre
<1>1. RowComplete(k) /\ plan \in Plans /\ LegsSound
  BY DEF ConversionInv, ConversionsSound
<1>2. commands[k].amount \in Nat /\ conversions[k].unspent \in Nat
  BY <1>1, CommandTypes DEF RowComplete
<1>3. OpenReservation(k) \in Int
  BY <1>1, <1>2, FirstLeg DEF OpenReservation, RowComplete
<1>4. OpenSale(k) \in Nat /\ Sold(k) \in Nat
  BY <1>1, <1>2, FirstLeg, HasLegs DEF OpenSale, Sold
<1>. QED  BY <1>2, <1>3, <1>4

LEMMA KeyTypesNext ==
  (\A k \in Keys : KeyTypesAre(k))'
BY KeyTypes, PTL

(* A step that touches one conversion leaves what the others contribute. *)
Touches(k) ==
    /\ plan' = plan
    /\ \A j \in Keys \ {k} : conversions'[j] = conversions[j] /\ ListLegs(j)' = ListLegs(j)

LEMMA OthersStay ==
  ASSUME NEW k \in Keys, Touches(k), NEW j \in Keys \ {k}
  PROVE  /\ Created(j)' <=> Created(j)
         /\ commands'[j] = commands[j] /\ conversions'[j] = conversions[j]
         /\ OpenReservation(j)' = OpenReservation(j)
         /\ OpenSale(j)' = OpenSale(j) /\ Sold(j)' = Sold(j)
<1>1. /\ conversions'[j] = conversions[j] /\ ListLegs(j)' = ListLegs(j) /\ commands' = commands
  BY DEF Touches, commands
<1>2. LegAt(j, 1)' = LegAt(j, 1)
  BY <1>1 DEF LegAt
<1>. QED  BY <1>1, <1>2 DEF Created, OpenReservation, OpenSale, Sold, Routing

(* ... so the sums over the conversions change by what it contributes. *)
LEMMA CashSumsMove ==
  ASSUME ConversionInv, ConversionInv', NEW k \in Keys, Touches(k)
  PROVE  /\ HeldCash \in Int /\ ReservedCash \in Int
         /\ HeldCash' = HeldCash - (IF k \in FromUSD THEN OpenReservation(k) ELSE 0)
                                 + (IF k \in FromUSD' THEN OpenReservation(k)' ELSE 0)
         /\ ReservedCash' = ReservedCash
               - (IF k \in FromUSD THEN commands[k].amount - conversions[k].unspent ELSE 0)
               + (IF k \in FromUSD' THEN commands[k].amount - conversions'[k].unspent ELSE 0)
<1>. DEFINE S == FromUSD
            T == FromUSD'
            f == [j \in S |-> OpenReservation(j)]
            g == [j \in T |-> OpenReservation(j)']
            f1 == [j \in S |-> commands[j].amount - conversions[j].unspent]
            g1 == [j \in T |-> commands[j].amount - conversions'[j].unspent]
<1>0. (\A j \in Keys : KeyTypesAre(j))'
  BY KeyTypesNext
<1>1. /\ S \subseteq Keys /\ T \subseteq Keys /\ commands' = commands
      /\ \A j \in S : Created(j)
      /\ \A j \in T : Created(j)'
  BY DEF FromUSD, Touches, commands
<1>2. IsFiniteSet(S) /\ IsFiniteSet(T)
  BY <1>1, FS_Subset, ConversionAssumption
<1>3. S \ {k} = T \ {k}
  BY <1>1, OthersStay DEF FromUSD
<1>4. ASSUME NEW j \in T  PROVE OpenReservation(j)' \in Int
                               /\ commands[j].amount - conversions'[j].unspent \in Int
  <2>1. Created(j)' /\ j \in Keys
    BY <1>1
  <2>2. KeyTypesAre(j)'
    BY <2>1, <1>0
  <2>3. OpenReservation(j)' \in Int /\ commands'[j].amount - conversions'[j].unspent \in Int
    BY <2>1, <2>2 DEF KeyTypesAre
  <2>. QED  BY <1>1, <2>3
<1>5. \A j \in S : OpenReservation(j) \in Int /\ commands[j].amount - conversions[j].unspent \in Int
  BY <1>1, KeyTypes DEF KeyTypesAre
<1>6. f \in [S -> Int] /\ g \in [T -> Int] /\ f1 \in [S -> Int] /\ g1 \in [T -> Int]
  BY <1>4, <1>5
<1>7. \A j \in S \ {k} : f[j] = g[j] /\ f1[j] = g1[j]
  BY <1>1, <1>3, OthersStay
<1>8. /\ HeldCash = SumFunction(f) /\ HeldCash' = SumFunction(g)
      /\ ReservedCash = SumFunction(f1)
  BY DEF HeldCash, ReservedCash
<1>9. ReservedCash' = SumFunction(g1)
  <2>1. ReservedCash' = SumFunction([j \in T |-> commands'[j].amount - conversions'[j].unspent])
    BY DEF ReservedCash
  <2>. QED  BY <1>1, <2>1
<1>10. /\ k \in S => f[k] = OpenReservation(k) /\ f1[k] = commands[k].amount - conversions[k].unspent
       /\ k \in T => g[k] = OpenReservation(k)' /\ g1[k] = commands[k].amount - conversions'[k].unspent
  OBVIOUS
<1>. HIDE DEF f, g, f1, g1, S, T
<1>11. /\ SumFunction(f) \in Int
       /\ SumFunction(g) = SumFunction(f) - (IF k \in S THEN f[k] ELSE 0)
                                          + (IF k \in T THEN g[k] ELSE 0)
  BY <1>2, <1>3, <1>6, <1>7, SumMoved
<1>12. /\ SumFunction(f1) \in Int
       /\ SumFunction(g1) = SumFunction(f1) - (IF k \in S THEN f1[k] ELSE 0)
                                            + (IF k \in T THEN g1[k] ELSE 0)
  BY <1>2, <1>3, <1>6, <1>7, SumMoved
<1>13. HeldCash' = HeldCash - (IF k \in S THEN OpenReservation(k) ELSE 0)
                            + (IF k \in T THEN OpenReservation(k)' ELSE 0)
  BY <1>8, <1>10, <1>11
<1>14. ReservedCash' = ReservedCash
          - (IF k \in S THEN commands[k].amount - conversions[k].unspent ELSE 0)
          + (IF k \in T THEN commands[k].amount - conversions'[k].unspent ELSE 0)
  BY <1>8, <1>9, <1>10, <1>12
<1>. QED  BY <1>8, <1>11, <1>12, <1>13, <1>14 DEF S, T

LEMMA AssetSumsMove ==
  ASSUME ConversionInv, ConversionInv', NEW k \in Keys, Touches(k), NEW a \in Assets
  PROVE  /\ OpenSales(a) \in Int /\ SoldAssets(a) \in Int
         /\ OpenSales(a)' = OpenSales(a) - (IF k \in FromAsset(a) THEN OpenSale(k) ELSE 0)
                                         + (IF k \in FromAsset(a)' THEN OpenSale(k)' ELSE 0)
         /\ SoldAssets(a)' = SoldAssets(a) - (IF k \in FromAsset(a) THEN Sold(k) ELSE 0)
                                           + (IF k \in FromAsset(a)' THEN Sold(k)' ELSE 0)
<1>. DEFINE S == FromAsset(a)
            T == FromAsset(a)'
            f == [j \in S |-> OpenSale(j)]
            g == [j \in T |-> OpenSale(j)']
            f1 == [j \in S |-> Sold(j)]
            g1 == [j \in T |-> Sold(j)']
<1>0. (\A j \in Keys : KeyTypesAre(j))'
  BY KeyTypesNext
<1>1. /\ S \subseteq Keys /\ T \subseteq Keys /\ commands' = commands
      /\ \A j \in S : Created(j)
      /\ \A j \in T : Created(j)'
  BY DEF FromAsset, Touches, commands
<1>2. IsFiniteSet(S) /\ IsFiniteSet(T)
  BY <1>1, FS_Subset, ConversionAssumption
<1>3. S \ {k} = T \ {k}
  BY <1>1, OthersStay DEF FromAsset
<1>4. ASSUME NEW j \in T  PROVE OpenSale(j)' \in Int /\ Sold(j)' \in Int
  <2>1. Created(j)' /\ j \in Keys
    BY <1>1
  <2>2. KeyTypesAre(j)'
    BY <2>1, <1>0
  <2>. QED  BY <2>1, <2>2 DEF KeyTypesAre
<1>5. \A j \in S : OpenSale(j) \in Int /\ Sold(j) \in Int
  BY <1>1, KeyTypes DEF KeyTypesAre
<1>6. f \in [S -> Int] /\ g \in [T -> Int] /\ f1 \in [S -> Int] /\ g1 \in [T -> Int]
  BY <1>4, <1>5
<1>7. \A j \in S \ {k} : f[j] = g[j] /\ f1[j] = g1[j]
  BY <1>1, <1>3, OthersStay
<1>8. /\ OpenSales(a) = SumFunction(f) /\ OpenSales(a)' = SumFunction(g)
      /\ SoldAssets(a) = SumFunction(f1) /\ SoldAssets(a)' = SumFunction(g1)
  BY DEF OpenSales, SoldAssets
<1>9. /\ k \in S => f[k] = OpenSale(k) /\ f1[k] = Sold(k)
      /\ k \in T => g[k] = OpenSale(k)' /\ g1[k] = Sold(k)'
  OBVIOUS
<1>. HIDE DEF f, g, f1, g1, S, T
<1>10. /\ SumFunction(f) \in Int
       /\ SumFunction(g) = SumFunction(f) - (IF k \in S THEN f[k] ELSE 0)
                                          + (IF k \in T THEN g[k] ELSE 0)
  BY <1>2, <1>3, <1>6, <1>7, SumMoved
<1>11. /\ SumFunction(f1) \in Int
       /\ SumFunction(g1) = SumFunction(f1) - (IF k \in S THEN f1[k] ELSE 0)
                                            + (IF k \in T THEN g1[k] ELSE 0)
  BY <1>2, <1>3, <1>6, <1>7, SumMoved
<1>. QED  BY <1>8, <1>9, <1>10, <1>11 DEF S, T

(* Sums over legs. *)
LEMMA FinalsType ==
  ASSUME LegsSound, NEW S \in SUBSET legs
  PROVE  Finals(S) \in Nat /\ IsFiniteSet(S) /\ ((\A l \in S : l.final = 0) => Finals(S) = 0)
<1>. DEFINE f == [l \in S |-> l.final]
<1>1. IsFiniteSet(S)
  BY FS_Subset DEF LegsSound
<1>2. \A l \in S : l.final \in Nat
  BY DEF LegsSound, LegSound
<1>3. f \in [S -> Nat] /\ DOMAIN f = S
  BY <1>2
<1>4. Finals(S) = SumFunction(f)
  BY DEF Finals
<1>5. (\A l \in S : l.final = 0) => \A l \in S : f[l] = 0
  OBVIOUS
<1>. HIDE DEF f
<1>6. SumFunction(f) \in Nat
  BY <1>1, <1>3, SumIsNat
<1>7. (\A l \in S : l.final = 0) => SumFunction(f) = 0
  BY <1>1, <1>3, <1>5, SumOfZeros DEF SumFunction
<1>. QED  BY <1>1, <1>4, <1>6, <1>7

LEMMA FinalsAdded ==
  ASSUME LegsSound, NEW S \in SUBSET legs, NEW l, l \notin S, l.final \in Nat
  PROVE  Finals(S \cup {l}) = Finals(S) + l.final
<1>. DEFINE T == S \cup {l}
            f == [m \in S |-> m.final]
            g == [m \in T |-> m.final]
<1>1. IsFiniteSet(S) /\ IsFiniteSet(T)
  BY FinalsType, FS_AddElement
<1>2. \A m \in T : m.final \in Int
  BY DEF LegsSound, LegSound
<1>3. f \in [S -> Int] /\ g \in [T -> Int] /\ g[l] = l.final /\ l \in T
      /\ \A m \in S \ {l} : f[m] = g[m]
  BY <1>2
<1>4. S \ {l} = T \ {l}
  OBVIOUS
<1>5. Finals(S) = SumFunction(f) /\ Finals(T) = SumFunction(g)
  BY DEF Finals
<1>. HIDE DEF f, g, T
<1>6. /\ SumFunction(f) \in Int
      /\ SumFunction(g) = SumFunction(f) - (IF l \in S THEN f[l] ELSE 0)
                                         + (IF l \in T THEN g[l] ELSE 0)
  BY <1>1, <1>3, <1>4, SumMoved
<1>. QED  BY <1>3, <1>5, <1>6 DEF T

LEMMA BoughtAdded ==
  ASSUME LegsSound, NEW S \in SUBSET legs, NEW l, l \notin S, l.filled \in Nat
  PROVE  LET Filled(T) == SumFunction([m \in T |-> m.filled])
         IN  /\ Filled(S) \in Nat
             /\ Filled(S \cup {l}) = Filled(S) + l.filled
<1>. DEFINE T == S \cup {l}
            f == [m \in S |-> m.filled]
            g == [m \in T |-> m.filled]
<1>1. IsFiniteSet(S) /\ IsFiniteSet(T)
  BY FinalsType, FS_AddElement
<1>2. (\A m \in T : m.filled \in Int) /\ \A m \in S : m.filled \in Nat
  BY DEF LegsSound, LegSound
<1>3. f \in [S -> Int] /\ g \in [T -> Int] /\ g[l] = l.filled /\ l \in T
      /\ (\A m \in S \ {l} : f[m] = g[m]) /\ f \in [S -> Nat]
  BY <1>2
<1>4. S \ {l} = T \ {l}
  OBVIOUS
<1>. HIDE DEF f, g
<1>5. /\ SumFunction(f) \in Nat
      /\ SumFunction(g) = SumFunction(f) - (IF l \in S THEN f[l] ELSE 0)
                                         + (IF l \in T THEN g[l] ELSE 0)
  BY <1>1, <1>3, <1>4, SumMoved, SumIsNat
<1>6. SumFunction(g) = SumFunction(f) + l.filled
  BY <1>3, <1>5
<1>. QED  BY <1>5, <1>6 DEF f, g

-----------------------------------------------------------------------------
(* What a step writes to the tables                                        *)

(* The legs by what they count for, when legs are added. *)
LEMMA LegSetsGrow ==
  ASSUME NEW rows, legs' = legs \cup rows,
         \A l \in legs : conversions'[l.key].reviewed <=> conversions[l.key].reviewed
  PROVE  /\ (Sales \ Reviewed)' = (Sales \ Reviewed)
               \cup {l \in rows : l.side = "SELL" /\ ~conversions'[l.key].reviewed}
         /\ Reviewed' = Reviewed
               \cup {l \in rows : l.side = "SELL" /\ conversions'[l.key].reviewed}
         /\ SecondPurchases' = SecondPurchases
               \cup {l \in rows : l.side = "BUY" /\ l.sequence = 2}
         /\ \A a \in Assets : Bought(a)' = Bought(a)
               \cup {l \in rows : l.side = "BUY" /\ l.asset = a}
BY DEF Sales, Reviewed, SecondPurchases, Bought

LEMMA Primed ==
  /\ Finals(Sales \ Reviewed)' = Finals((Sales \ Reviewed)')
  /\ Finals(Reviewed)' = Finals(Reviewed')
  /\ Finals(SecondPurchases)' = Finals(SecondPurchases')
BY DEF Finals

Filled(S) == SumFunction([l \in S |-> l.filled])

(* A conversion that is created has reserved its source. *)
LEMMA CreateTables ==
  ASSUME ConversionInv, ConversionInv', UNCHANGED <<plan, legs>>, NEW k \in Keys, ~Created(k),
         commands[k] # None, CreateConversion(k)
  PROVE  LET amount == commands[k].amount  source == commands[k].source IN
         /\ HeldCash' = HeldCash + (IF source = "USD" THEN amount ELSE 0)
         /\ ReservedCash' = ReservedCash + (IF source = "USD" THEN amount ELSE 0)
         /\ UNCHANGED <<Finals(Sales \ Reviewed), Finals(Reviewed), Finals(SecondPurchases)>>
         /\ (Sales \ Reviewed)' = Sales \ Reviewed
         /\ \A a \in Assets :
               /\ OpenSales(a)' = OpenSales(a) + (IF source = a THEN amount ELSE 0)
               /\ SoldAssets(a)' = SoldAssets(a) + (IF source = a THEN amount ELSE 0)
               /\ BoughtAssets(a)' = BoughtAssets(a)
<1>. DEFINE row == [status |-> "ROUTING", unspent |-> 0, reviewed |-> FALSE]
            amount == commands[k].amount
            source == commands[k].source
<1>1. /\ conversions \in [Keys -> Row \cup {None}] /\ conversions' = [conversions EXCEPT ![k] = row]
      /\ commands' = commands /\ plan \in Plans
  BY DEF ConversionInv, ConversionsSound, CreateConversion, commands
<1>2. row \in Row /\ row # None
  <2>1. row \in Row
    BY DEF Row, Status
  <2>2. None \notin Row
    BY ConversionAssumption
  <2>. QED  BY <2>1, <2>2
<1>3. /\ conversions'[k] = row /\ Created(k)' /\ Routing(k)' /\ conversions'[k].unspent = 0
      /\ \A j \in Keys \ {k} : conversions'[j] = conversions[j]
  BY <1>1, <1>2 DEF Created, Routing
<1>4. \A l \in legs : l.key # k /\ l.key \in Keys
  BY DEF ConversionInv, LegsSound, LegSound, Leg
<1>5. Touches(k)
  BY <1>3 DEF Touches, ListLegs
<1>6. amount \in Nat
  BY <1>1, CommandTypes
<1>7. /\ k \notin FromUSD /\ (k \in FromUSD' <=> source = "USD")
      /\ \A a \in Assets : k \notin FromAsset(a) /\ (k \in FromAsset(a)' <=> source = a)
  BY <1>1, <1>3 DEF FromUSD, FromAsset
<1>8. ListLegs(k)' = {} /\ OpenReservation(k)' = amount /\ OpenSale(k)' = amount /\ Sold(k)' = amount
  BY <1>1, <1>3, <1>4 DEF ListLegs, OpenReservation, OpenSale, Sold
<1>9. /\ HeldCash' = HeldCash + (IF source = "USD" THEN amount ELSE 0)
      /\ ReservedCash' = ReservedCash + (IF source = "USD" THEN amount ELSE 0)
  <2>1. /\ HeldCash \in Int /\ ReservedCash \in Int
        /\ HeldCash' = HeldCash - (IF k \in FromUSD THEN OpenReservation(k) ELSE 0)
                                + (IF k \in FromUSD' THEN OpenReservation(k)' ELSE 0)
        /\ ReservedCash' = ReservedCash
              - (IF k \in FromUSD THEN commands[k].amount - conversions[k].unspent ELSE 0)
              + (IF k \in FromUSD' THEN commands[k].amount - conversions'[k].unspent ELSE 0)
    BY <1>5, CashSumsMove
  <2>. QED  BY <1>3, <1>6, <1>7, <1>8, <2>1
<1>10. ASSUME NEW a \in Assets
       PROVE  /\ OpenSales(a)' = OpenSales(a) + (IF source = a THEN amount ELSE 0)
              /\ SoldAssets(a)' = SoldAssets(a) + (IF source = a THEN amount ELSE 0)
  <2>1. /\ OpenSales(a) \in Int /\ SoldAssets(a) \in Int
        /\ OpenSales(a)' = OpenSales(a) - (IF k \in FromAsset(a) THEN OpenSale(k) ELSE 0)
                                        + (IF k \in FromAsset(a)' THEN OpenSale(k)' ELSE 0)
        /\ SoldAssets(a)' = SoldAssets(a) - (IF k \in FromAsset(a) THEN Sold(k) ELSE 0)
                                          + (IF k \in FromAsset(a)' THEN Sold(k)' ELSE 0)
    BY <1>5, AssetSumsMove
  <2>. QED  BY <1>6, <1>7, <1>8, <2>1
<1>11. \A l \in legs : conversions'[l.key].reviewed <=> conversions[l.key].reviewed
  BY <1>3, <1>4
<1>12. /\ (Sales \ Reviewed)' = Sales \ Reviewed /\ Reviewed' = Reviewed
       /\ SecondPurchases' = SecondPurchases /\ \A a \in Assets : Bought(a)' = Bought(a)
  BY <1>11 DEF Sales, Reviewed, SecondPurchases, Bought
<1>13. /\ UNCHANGED <<Finals(Sales \ Reviewed), Finals(Reviewed), Finals(SecondPurchases)>>
       /\ \A a \in Assets : BoughtAssets(a)' = BoughtAssets(a)
  BY <1>12, Primed DEF BoughtAssets
<1>. QED  BY <1>9, <1>10, <1>12, <1>13

(* A sale takes its reservation, and counts as reviewed or not. *)
SaleTables(k, result, review) ==
    LET amount == commands[k].amount  source == commands[k].source IN
    /\ UNCHANGED <<HeldCash, ReservedCash, Finals(SecondPurchases)>>
    /\ Finals(Sales \ Reviewed)' = Finals(Sales \ Reviewed) + (IF review THEN 0 ELSE result.final)
    /\ Finals(Reviewed)' = Finals(Reviewed) + (IF review THEN result.final ELSE 0)
    /\ \A l \in (Sales \ Reviewed)' :
          \/ l \in Sales \ Reviewed
          \/ ~review /\ l.filled = result.filled /\ l.final = result.final
    /\ \A a \in Assets :
          /\ OpenSales(a)' = OpenSales(a) - (IF source = a THEN amount ELSE 0)
          /\ SoldAssets(a)' = SoldAssets(a) - (IF source = a THEN amount - result.filled ELSE 0)
          /\ BoughtAssets(a)' = BoughtAssets(a)

LEMMA SaleMovesTables ==
  ASSUME NEW p \in Callers, NEW k, NEW result, SaleSettles(p, k, result), ConversionInv'
  PROVE  SaleTables(k, result, NeedsReview(commands[k], result))
<1>. DEFINE review == NeedsReview(commands[k], result)
            blocked == review /\ commands[k].destination # "USD"
            finished == commands[k].destination = "USD" \/ result.status = "FAILED" \/ review
            amount == commands[k].amount
            source == commands[k].source
<1>1. PICK first, second, row :
         /\ legs' = legs \cup {first} \cup IF blocked THEN {second} ELSE {}
         /\ first \in Leg /\ first.key = k /\ first.sequence = 1 /\ first.side = "SELL"
         /\ first.asset = commands[k].source
         /\ first.filled = result.filled /\ first.final = result.final
         /\ first.status = result.status
         /\ blocked => /\ second \in Leg /\ second.key = k /\ second.sequence = 2
                       /\ second.side = "BUY" /\ second.asset = commands[k].destination
                       /\ second.filled = 0 /\ second.final = 0
         /\ first \notin legs /\ second \notin legs /\ first # second
         /\ row \in Row /\ row.unspent = 0 /\ row.reviewed = review
         /\ conversions' = [conversions EXCEPT ![k] = row]
         /\ row.status = "ROUTING" => ~finished
  BY SaleRows
<1>2. /\ Created(k) /\ k \in Keys /\ source # "USD" /\ source \in Assets /\ amount \in Nat
      /\ Settleable(result) /\ result.filled \in Nat /\ result.final \in Nat
      /\ \A l \in legs : l.key # k
      /\ ConversionInv /\ LegsSound /\ plan' = plan /\ ListLegs(k) = {}
  BY SaleFacts DEF SaleSettles, Settleable, ConversionInv
<1>3. /\ row # None /\ conversions'[k] = row /\ commands' = commands
      /\ \A j \in Keys \ {k} : conversions'[j] = conversions[j]
      /\ review \in BOOLEAN
  <2>1. None \notin Row
    BY ConversionAssumption
  <2>2. conversions \in [Keys -> Row \cup {None}]
    BY <1>2 DEF ConversionInv, ConversionsSound
  <2>. QED  BY <1>1, <1>2, <2>1, <2>2 DEF commands, NeedsReview
<1>. HIDE DEF review
<1>4. /\ \A l \in legs : l.key # k /\ l.key \in Keys
      /\ second.key = k \/ ~blocked
  BY <1>1, <1>2 DEF LegsSound, LegSound, Leg
<1>5. Touches(k)
  <2>1. \A l \in legs' : l \in legs \/ l.key = k
    BY <1>1, <1>4
  <2>2. ASSUME NEW j \in Keys \ {k}  PROVE ListLegs(j)' = ListLegs(j)
    <3>1. \A l : l \in legs' /\ l.key = j <=> l \in legs /\ l.key = j
      BY <1>1, <2>1
    <3>. QED  BY <3>1 DEF ListLegs
  <2>. QED  BY <1>2, <1>3, <2>2 DEF Touches
<1>6. first \in ListLegs(k)' /\ LegAt(k, 1)' = first
  <2>1. \A l \in legs' : l.key = k /\ l.sequence = 1 <=> l = first
    BY <1>1, <1>4
  <2>2. first \in ListLegs(k)' /\ \A l \in ListLegs(k)' : l.sequence = 1 <=> l = first
    BY <1>1, <2>1 DEF ListLegs
  <2>. QED  BY <2>2 DEF LegAt
<1>7. /\ Created(k)' /\ k \notin FromUSD /\ k \notin FromUSD'
      /\ \A a \in Assets : (k \in FromAsset(a) <=> source = a) /\ (k \in FromAsset(a)' <=> source = a)
  BY <1>2, <1>3 DEF FromUSD, FromAsset, Created
<1>8. OpenSale(k) = amount /\ Sold(k) = amount /\ OpenSale(k)' = 0 /\ Sold(k)' = result.filled
  BY <1>1, <1>2, <1>3, <1>6 DEF OpenSale, Sold
<1>9. UNCHANGED <<HeldCash, ReservedCash>>
  BY <1>2, <1>5, <1>7, CashSumsMove
<1>10. ASSUME NEW a \in Assets
       PROVE  /\ OpenSales(a)' = OpenSales(a) - (IF source = a THEN amount ELSE 0)
              /\ SoldAssets(a)' = SoldAssets(a) - (IF source = a THEN amount - result.filled ELSE 0)
  <2>1. /\ OpenSales(a) \in Int /\ SoldAssets(a) \in Int
        /\ OpenSales(a)' = OpenSales(a) - (IF k \in FromAsset(a) THEN OpenSale(k) ELSE 0)
                                        + (IF k \in FromAsset(a)' THEN OpenSale(k)' ELSE 0)
        /\ SoldAssets(a)' = SoldAssets(a) - (IF k \in FromAsset(a) THEN Sold(k) ELSE 0)
                                          + (IF k \in FromAsset(a)' THEN Sold(k)' ELSE 0)
    BY <1>2, <1>5, AssetSumsMove
  <2>. QED  BY <1>2, <1>7, <1>8, <2>1
<1>. DEFINE rows == {first} \cup IF blocked THEN {second} ELSE {}
<1>11. /\ (Sales \ Reviewed)' = (Sales \ Reviewed) \cup (IF review THEN {} ELSE {first})
       /\ Reviewed' = Reviewed \cup (IF review THEN {first} ELSE {})
       /\ SecondPurchases' = SecondPurchases \cup (IF blocked THEN {second} ELSE {})
       /\ \A a \in Assets : Bought(a)' = Bought(a)
              \cup (IF blocked /\ commands[k].destination = a THEN {second} ELSE {})
  <2>1. legs' = legs \cup rows
    BY <1>1
  <2>2. \A l \in legs : conversions'[l.key].reviewed <=> conversions[l.key].reviewed
    BY <1>3, <1>4
  <2>3. /\ (Sales \ Reviewed)' = (Sales \ Reviewed)
               \cup {l \in rows : l.side = "SELL" /\ ~conversions'[l.key].reviewed}
        /\ Reviewed' = Reviewed
               \cup {l \in rows : l.side = "SELL" /\ conversions'[l.key].reviewed}
        /\ SecondPurchases' = SecondPurchases
               \cup {l \in rows : l.side = "BUY" /\ l.sequence = 2}
        /\ \A a \in Assets : Bought(a)' = Bought(a)
               \cup {l \in rows : l.side = "BUY" /\ l.asset = a}
    <3>. HIDE DEF rows
    <3>. QED  BY <2>1, <2>2, LegSetsGrow
  <2>4. \A l \in rows : conversions'[l.key].reviewed = review
    BY <1>1, <1>3, <1>4
  <2>5. /\ {l \in rows : l.side = "SELL" /\ ~conversions'[l.key].reviewed}
             = IF review THEN {} ELSE {first}
        /\ {l \in rows : l.side = "SELL" /\ conversions'[l.key].reviewed}
             = IF review THEN {first} ELSE {}
    BY <1>1, <2>4
  <2>6. /\ {l \in rows : l.side = "BUY" /\ l.sequence = 2} = IF blocked THEN {second} ELSE {}
        /\ \A a \in Assets : {l \in rows : l.side = "BUY" /\ l.asset = a}
             = IF blocked /\ commands[k].destination = a THEN {second} ELSE {}
    BY <1>1
  <2>. HIDE DEF rows, blocked
  <2>. QED  BY <2>3, <2>5, <2>6
<1>12. /\ Sales \ Reviewed \in SUBSET legs /\ Reviewed \in SUBSET legs
       /\ SecondPurchases \in SUBSET legs
       /\ \A a \in Assets : Bought(a) \in SUBSET legs
  BY DEF Sales, Reviewed, SecondPurchases, Bought
<1>13. /\ Finals(Sales \ Reviewed) \in Nat /\ Finals(Reviewed) \in Nat
       /\ Finals(SecondPurchases) \in Nat
  BY <1>2, <1>12, FinalsType
<1>14. /\ Finals((Sales \ Reviewed) \cup {first}) = Finals(Sales \ Reviewed) + result.final
       /\ Finals(Reviewed \cup {first}) = Finals(Reviewed) + result.final
       /\ blocked => Finals(SecondPurchases \cup {second}) = Finals(SecondPurchases) + 0
  <2>1. first.final = result.final /\ result.final \in Nat
    BY <1>1, <1>2
  <2>2. first \notin Sales \ Reviewed /\ first \notin Reviewed /\ second \notin SecondPurchases
    BY <1>1, <1>12
  <2>3. blocked => second.final = 0 /\ 0 \in Nat
    BY <1>1
  <2>. HIDE DEF blocked
  <2>. QED  BY <1>2, <1>12, <2>1, <2>2, <2>3, FinalsAdded
<1>15. /\ Finals(Sales \ Reviewed)'
             = Finals(Sales \ Reviewed) + (IF review THEN 0 ELSE result.final)
       /\ Finals(Reviewed)' = Finals(Reviewed) + (IF review THEN result.final ELSE 0)
       /\ Finals(SecondPurchases)' = Finals(SecondPurchases)
  <2>. DEFINE counted == Sales \ Reviewed
  <2>1. Finals(counted') = Finals(counted) + (IF review THEN 0 ELSE result.final)
    <3>1. CASE review
      <4>1. counted' = counted
        BY <1>11, <3>1
      <4>. HIDE DEF counted
      <4>. QED  BY <1>13, <3>1, <4>1 DEF counted
    <3>2. CASE ~review
      <4>1. counted' = counted \cup {first}
        BY <1>11, <3>2
      <4>. QED  BY <1>14, <3>2, <4>1
    <3>. QED  BY <3>1, <3>2
  <2>2. Finals(Reviewed') = Finals(Reviewed) + (IF review THEN result.final ELSE 0)
    <3>1. CASE review
      <4>1. Reviewed' = Reviewed \cup {first}
        BY <1>11, <3>1
      <4>. QED  BY <1>14, <3>1, <4>1
    <3>2. CASE ~review
      <4>1. Reviewed' = Reviewed
        BY <1>11, <3>2
      <4>. QED  BY <1>13, <3>2, <4>1
    <3>. QED  BY <3>1, <3>2
  <2>3. Finals(SecondPurchases') = Finals(SecondPurchases)
    <3>1. CASE blocked
      <4>1. SecondPurchases' = SecondPurchases \cup {second}
        BY <1>11, <3>1
      <4>. QED  BY <1>13, <1>14, <3>1, <4>1
    <3>2. CASE ~blocked
      <4>1. SecondPurchases' = SecondPurchases
        BY <1>11, <3>2
      <4>. QED  BY <4>1
    <3>. QED  BY <3>1, <3>2
  <2>. QED  BY <2>1, <2>2, <2>3, Primed
<1>16. ASSUME NEW a \in Assets  PROVE BoughtAssets(a)' = BoughtAssets(a)
  <2>1. BoughtAssets(a) = Filled(Bought(a)) /\ BoughtAssets(a)' = Filled(Bought(a)')
    BY DEF BoughtAssets, Filled
  <2>2. CASE blocked /\ commands[k].destination = a
    <3>1. Bought(a)' = Bought(a) \cup {second}
      BY <1>11, <2>2
    <3>2. second.filled = 0 /\ second \notin Bought(a) /\ second.filled \in Nat
      BY <1>1, <1>12, <2>2
    <3>3. /\ Filled(Bought(a)) \in Nat
          /\ Filled(Bought(a) \cup {second}) = Filled(Bought(a)) + second.filled
      BY <1>2, <1>12, <3>2, BoughtAdded DEF Filled
    <3>. QED  BY <2>1, <3>1, <3>2, <3>3
  <2>3. CASE ~(blocked /\ commands[k].destination = a)
    <3>1. Bought(a)' = Bought(a)
      BY <1>11, <2>3
    <3>. QED  BY <2>1, <3>1
  <2>. QED  BY <2>2, <2>3
<1>17. \A l \in (Sales \ Reviewed)' :
          \/ l \in Sales \ Reviewed
          \/ ~review /\ l.filled = result.filled /\ l.final = result.final
  BY <1>1, <1>11
<1>. QED  BY <1>9, <1>10, <1>15, <1>16, <1>17 DEF SaleTables, review

(* A purchase takes its reservation or the proceeds of a sale. *)
PurchaseTables(k, result) ==
    LET fromUSD == commands[k].source = "USD" IN
    /\ HeldCash' = HeldCash - (IF fromUSD THEN result.final + result.unspent ELSE 0)
    /\ ReservedCash' = ReservedCash - (IF fromUSD THEN result.unspent ELSE 0)
    /\ UNCHANGED <<Finals(Sales \ Reviewed), Finals(Reviewed)>>
    /\ (Sales \ Reviewed)' = Sales \ Reviewed
    /\ Finals(SecondPurchases)' =
          Finals(SecondPurchases) + (IF fromUSD THEN 0 ELSE result.final)
    /\ \A a \in Assets :
          /\ OpenSales(a)' = OpenSales(a)
          /\ SoldAssets(a)' = SoldAssets(a)
          /\ BoughtAssets(a)' =
                BoughtAssets(a) + (IF commands[k].destination = a THEN result.filled ELSE 0)

LEMMA PurchaseMovesTables ==
  ASSUME NEW p \in Callers, NEW k, NEW result, PurchaseSettles(p, k, result), ConversionInv'
  PROVE  PurchaseTables(k, result)
<1>. DEFINE amount == commands[k].amount
            source == commands[k].source
            fromUSD == source = "USD"
<1>1. PICK leg, row :
         /\ legs' = legs \cup {leg} /\ leg \notin legs
         /\ leg \in Leg /\ leg.key = k /\ leg.sequence = SequenceOf(k) /\ leg.side = "BUY"
         /\ leg.asset = commands[k].destination
         /\ leg.filled = result.filled /\ leg.final = result.final
         /\ row \in Row /\ row.unspent = result.unspent /\ row.reviewed = FALSE
         /\ row.status # "ROUTING"
         /\ conversions' = [conversions EXCEPT ![k] = row]
  <2>1. PurchaseWritten(k, result)
    BY PurchaseRows
  <2>. QED  BY <2>1 DEF PurchaseWritten
<1>2. /\ Created(k) /\ k \in Keys /\ amount \in Nat
      /\ conversions[k].unspent = 0 /\ ~conversions[k].reviewed
      /\ ~fromUSD => HasFirstLeg(k) /\ source \in Assets
      /\ result.filled \in Nat /\ result.final \in Nat /\ result.unspent \in Nat
      /\ fromUSD => \A l \in legs : l.key # k
      /\ ConversionInv /\ LegsSound /\ plan' = plan /\ Routing(k)
  BY PurchaseFacts DEF PurchaseSettles, Settleable, ConversionInv
<1>3. /\ row # None /\ conversions'[k] = row /\ commands' = commands
      /\ \A j \in Keys \ {k} : conversions'[j] = conversions[j]
  <2>1. None \notin Row
    BY ConversionAssumption
  <2>2. conversions \in [Keys -> Row \cup {None}]
    BY <1>2 DEF ConversionInv, ConversionsSound
  <2>. QED  BY <1>1, <1>2, <2>1, <2>2 DEF commands
<1>4. \A l \in legs : l.key \in Keys
  BY <1>2 DEF LegsSound, LegSound, Leg
<1>5. Touches(k)
  <2>1. ASSUME NEW j \in Keys \ {k}  PROVE ListLegs(j)' = ListLegs(j)
    <3>1. \A l : l \in legs' /\ l.key = j <=> l \in legs /\ l.key = j
      BY <1>1
    <3>. QED  BY <3>1 DEF ListLegs
  <2>. QED  BY <1>2, <1>3, <2>1 DEF Touches
<1>6. /\ Created(k)' /\ ~Routing(k)' /\ BooksAssumption
      /\ (k \in FromUSD <=> fromUSD) /\ (k \in FromUSD' <=> fromUSD)
      /\ \A a \in Assets : (k \in FromAsset(a) <=> source = a) /\ (k \in FromAsset(a)' <=> source = a)
  BY <1>1, <1>2, <1>3, BooksAssumption DEF FromUSD, FromAsset, Created, Routing
<1>7. fromUSD => LegAt(k, 1)' = leg
  <2>. SUFFICES ASSUME fromUSD  PROVE LegAt(k, 1)' = leg
    OBVIOUS
  <2>1. \A l \in legs' : l.key = k <=> l = leg
    BY <1>1, <1>2
  <2>2. leg.sequence = 1
    BY <1>1 DEF SequenceOf
  <2>3. ListLegs(k)' = {leg}
    BY <1>1, <2>1 DEF ListLegs
  <2>. QED  BY <2>2, <2>3 DEF LegAt
<1>8. ~fromUSD => /\ LegAt(k, 1)' = LegAt(k, 1)
                  /\ ListLegs(k) # {} /\ ListLegs(k)' # {}
  <2>. SUFFICES ASSUME ~fromUSD
                PROVE  /\ LegAt(k, 1)' = LegAt(k, 1)
                       /\ ListLegs(k) # {} /\ ListLegs(k)' # {}
    OBVIOUS
  <2>1. PICK m \in legs : m.key = k /\ m.sequence = 1
    BY <1>2 DEF HasFirstLeg
  <2>2. leg.sequence # 1
    BY <1>1 DEF SequenceOf
  <2>3. \A l \in legs' : l.key = k /\ l.sequence = 1 <=> l = m
    BY <1>1, <1>2, <2>1, <2>2 DEF LegsSound
  <2>4. /\ m \in ListLegs(k) /\ m \in ListLegs(k)'
        /\ \A l \in ListLegs(k) : l.sequence = 1 <=> l = m
        /\ \A l \in ListLegs(k)' : l.sequence = 1 <=> l = m
    BY <1>1, <2>1, <2>3 DEF ListLegs
  <2>5. LegAt(k, 1) = m /\ LegAt(k, 1)' = m
    BY <2>4 DEF LegAt
  <2>. QED  BY <2>4, <2>5
<1>9. /\ HeldCash' = HeldCash - (IF fromUSD THEN result.final + result.unspent ELSE 0)
      /\ ReservedCash' = ReservedCash - (IF fromUSD THEN result.unspent ELSE 0)
  <2>1. /\ HeldCash \in Int /\ ReservedCash \in Int
        /\ HeldCash' = HeldCash - (IF k \in FromUSD THEN OpenReservation(k) ELSE 0)
                                + (IF k \in FromUSD' THEN OpenReservation(k)' ELSE 0)
        /\ ReservedCash' = ReservedCash
              - (IF k \in FromUSD THEN commands[k].amount - conversions[k].unspent ELSE 0)
              + (IF k \in FromUSD' THEN commands[k].amount - conversions'[k].unspent ELSE 0)
    BY <1>2, <1>5, CashSumsMove
  <2>2. fromUSD => /\ OpenReservation(k) = amount
                   /\ OpenReservation(k)' = amount - result.final - result.unspent
    BY <1>1, <1>2, <1>3, <1>6, <1>7 DEF OpenReservation
  <2>3. conversions'[k].unspent = result.unspent
    BY <1>1, <1>3
  <2>4. CASE fromUSD
    BY <1>2, <1>6, <2>1, <2>2, <2>3, <2>4
  <2>5. CASE ~fromUSD
    BY <1>2, <1>6, <2>1, <2>5
  <2>. QED  BY <2>4, <2>5
<1>10. ASSUME NEW a \in Assets  PROVE OpenSales(a)' = OpenSales(a) /\ SoldAssets(a)' = SoldAssets(a)
  <2>1. /\ OpenSales(a) \in Int /\ SoldAssets(a) \in Int
        /\ OpenSales(a)' = OpenSales(a) - (IF k \in FromAsset(a) THEN OpenSale(k) ELSE 0)
                                        + (IF k \in FromAsset(a)' THEN OpenSale(k)' ELSE 0)
        /\ SoldAssets(a)' = SoldAssets(a) - (IF k \in FromAsset(a) THEN Sold(k) ELSE 0)
                                          + (IF k \in FromAsset(a)' THEN Sold(k)' ELSE 0)
    BY <1>2, <1>5, AssetSumsMove
  <2>2. ~fromUSD => /\ OpenSale(k) = 0 /\ OpenSale(k)' = 0 /\ Sold(k)' = Sold(k)
                    /\ Sold(k) = LegAt(k, 1).filled /\ LegAt(k, 1).filled \in Nat
    BY <1>2, <1>8, FirstLeg DEF OpenSale, Sold
  <2>3. source = a => ~fromUSD
    BY <1>2, BooksAssumption
  <2>. QED  BY <1>6, <2>1, <2>2, <2>3
<1>11. /\ (Sales \ Reviewed)' = Sales \ Reviewed
       /\ Reviewed' = Reviewed
       /\ SecondPurchases' = SecondPurchases \cup (IF fromUSD THEN {} ELSE {leg})
       /\ \A a \in Assets : Bought(a)' = Bought(a)
              \cup (IF commands[k].destination = a THEN {leg} ELSE {})
  <2>1. \A l \in legs : conversions'[l.key].reviewed <=> conversions[l.key].reviewed
    BY <1>1, <1>2, <1>3, <1>4
  <2>2. leg.sequence = 2 <=> ~fromUSD
    BY <1>1 DEF SequenceOf
  <2>. QED  BY <1>1, <2>1, <2>2 DEF Sales, Reviewed, SecondPurchases, Bought
<1>12. SecondPurchases \in SUBSET legs /\ \A a \in Assets : Bought(a) \in SUBSET legs
  BY DEF SecondPurchases, Bought
<1>13. Finals(SecondPurchases') =
          Finals(SecondPurchases) + (IF fromUSD THEN 0 ELSE result.final)
  <2>1. Finals(SecondPurchases) \in Nat
    BY <1>2, <1>12, FinalsType
  <2>2. CASE fromUSD
    <3>1. SecondPurchases' = SecondPurchases
      BY <1>11, <2>2
    <3>. QED  BY <2>1, <2>2, <3>1
  <2>3. CASE ~fromUSD
    <3>1. SecondPurchases' = SecondPurchases \cup {leg}
      BY <1>11, <2>3
    <3>2. leg \notin SecondPurchases /\ leg.final \in Nat /\ leg.final = result.final
      BY <1>1, <1>2, <1>12
    <3>3. Finals(SecondPurchases \cup {leg}) = Finals(SecondPurchases) + leg.final
      BY <1>2, <1>12, <3>2, FinalsAdded
    <3>. QED  BY <2>3, <3>1, <3>2, <3>3
  <2>. QED  BY <2>2, <2>3
<1>14. ASSUME NEW a \in Assets
       PROVE  BoughtAssets(a)' =
                BoughtAssets(a) + (IF commands[k].destination = a THEN result.filled ELSE 0)
  <2>1. BoughtAssets(a) = Filled(Bought(a)) /\ BoughtAssets(a)' = Filled(Bought(a)')
    BY DEF BoughtAssets, Filled
  <2>2. leg \notin Bought(a) /\ leg.filled \in Nat /\ leg.filled = result.filled
    BY <1>1, <1>2, <1>12
  <2>3. /\ Filled(Bought(a)) \in Nat
        /\ Filled(Bought(a) \cup {leg}) = Filled(Bought(a)) + leg.filled
    BY <1>2, <1>12, <2>2, BoughtAdded DEF Filled
  <2>4. CASE commands[k].destination = a
    <3>1. Bought(a)' = Bought(a) \cup {leg}
      BY <1>11, <2>4
    <3>. QED  BY <2>1, <2>2, <2>3, <2>4, <3>1
  <2>5. CASE commands[k].destination # a
    <3>1. Bought(a)' = Bought(a)
      BY <1>11, <2>5
    <3>. QED  BY <2>1, <2>3, <2>5, <3>1
  <2>. QED  BY <2>4, <2>5
<1>15. UNCHANGED <<Finals(Sales \ Reviewed), Finals(Reviewed)>>
  BY <1>11, Primed
<1>. QED  BY <1>9, <1>10, <1>11, <1>13, <1>14, <1>15, Primed DEF PurchaseTables

LEMMA TakenMoves ==
  ASSUME CustodyInv, CustodyInv', NEW w \in Withdrawals,
         \A v \in Withdrawals \ {w} : withdrawals'[v] = withdrawals[v],
         NEW a, NEW status
  PROVE  /\ Taken(a, status) \in Nat
         /\ Taken(a, status)' = Taken(a, status)
               - (IF w \in Of(a, status) THEN withdrawals[w].quantity ELSE 0)
               + (IF w \in Of(a, status)' THEN withdrawals'[w].quantity ELSE 0)
<1>. DEFINE S == Of(a, status)
            T == Of(a, status)'
            f == [v \in S |-> withdrawals[v].quantity]
            g == [v \in T |-> withdrawals'[v].quantity]
<1>1. S \subseteq Withdrawals /\ T \subseteq Withdrawals
  BY DEF Of
<1>2. IsFiniteSet(S) /\ IsFiniteSet(T)
  BY <1>1, FS_Subset, CustodyAssumption
<1>3. S \ {w} = T \ {w}
  BY <1>1 DEF Of
<1>4. \A v \in S : withdrawals[v].quantity \in Nat
  BY CustodyAssumption DEF Of, CustodyInv, WithdrawalRow
<1>5. \A v \in T : withdrawals'[v].quantity \in Nat
  BY CustodyAssumption DEF Of, CustodyInv, WithdrawalRow
<1>6. f \in [S -> Nat] /\ f \in [S -> Int] /\ g \in [T -> Int]
  BY <1>4, <1>5
<1>7. \A v \in S \ {w} : f[v] = g[v]
  BY <1>1, <1>3
<1>8. Taken(a, status) = SumFunction(f) /\ Taken(a, status)' = SumFunction(g)
  BY DEF Taken
<1>9. (w \in S => f[w] = withdrawals[w].quantity) /\ (w \in T => g[w] = withdrawals'[w].quantity)
  OBVIOUS
<1>. HIDE DEF f, g, S, T
<1>10. /\ SumFunction(f) \in Nat
       /\ SumFunction(g) = SumFunction(f) - (IF w \in S THEN f[w] ELSE 0)
                                          + (IF w \in T THEN g[w] ELSE 0)
  BY <1>2, <1>3, <1>6, <1>7, SumMoved, SumIsNat
<1>. QED  BY <1>8, <1>9, <1>10 DEF S, T

(* The states a withdrawal goes through. *)
LEMMA StatusMoves ==
  ASSUME CustodyInv, CustodyInv', NEW w \in Withdrawals, withdrawals[w] # None,
         NEW new \in WithdrawalStatus, TransitionWithdrawal(w, new),
         NEW a \in Assets, NEW status
  PROVE  LET n == withdrawals[w].quantity
             of == AddressAsset[withdrawals[w].address] = a
         IN  /\ n \in Nat /\ Taken(a, status) \in Nat
             /\ Taken(a, status)' = Taken(a, status)
                   - (IF of /\ withdrawals[w].status \in status THEN n ELSE 0)
                   + (IF of /\ new \in status THEN n ELSE 0)
<1>1. withdrawals[w] \in WithdrawalRow /\ withdrawals[w].quantity \in Nat
  BY CustodyAssumption DEF CustodyInv, WithdrawalRow
<1>2. withdrawals' = [withdrawals EXCEPT ![w].status = new]
  BY DEF TransitionWithdrawal
<1>3. /\ withdrawals'[w] = [withdrawals[w] EXCEPT !.status = new]
      /\ \A v \in Withdrawals \ {w} : withdrawals'[v] = withdrawals[v]
  BY <1>2 DEF CustodyInv
<1>4. /\ withdrawals'[w].quantity = withdrawals[w].quantity
      /\ withdrawals'[w].address = withdrawals[w].address /\ withdrawals'[w].status = new
      /\ withdrawals'[w] \in WithdrawalRow /\ withdrawals'[w] # None
  <2>1. withdrawals'[w] \in WithdrawalRow
    BY <1>1, <1>3 DEF WithdrawalRow
  <2>2. None \notin WithdrawalRow
    BY CustodyAssumption
  <2>. QED  BY <1>1, <1>3, <2>1, <2>2 DEF WithdrawalRow
<1>5. /\ w \in Of(a, status) <=> AddressAsset[withdrawals[w].address] = a
                                 /\ withdrawals[w].status \in status
      /\ w \in Of(a, status)' <=> AddressAsset[withdrawals[w].address] = a /\ new \in status
  BY <1>4 DEF Of
<1>6. /\ Taken(a, status) \in Nat
      /\ Taken(a, status)' = Taken(a, status)
            - (IF w \in Of(a, status) THEN withdrawals[w].quantity ELSE 0)
            + (IF w \in Of(a, status)' THEN withdrawals'[w].quantity ELSE 0)
  BY <1>3, TakenMoves
<1>. QED  BY <1>1, <1>4, <1>5, <1>6

(* A withdrawal that is granted. *)
LEMMA GrantMoves ==
  ASSUME CustodyInv, CustodyInv', NEW w \in Withdrawals, withdrawals[w] = None,
         NEW x \in Addresses, NEW quantity \in Quantities, quantity \in Nat,
         CreateWithdrawal(w, x, quantity),
         NEW a \in Assets, NEW status, "APPROVED" \in status
  PROVE  /\ Taken(a, status) \in Nat
         /\ Taken(a, status)' = Taken(a, status) + (IF AddressAsset[x] = a THEN quantity ELSE 0)
<1>1. withdrawals' = [withdrawals EXCEPT ![w] =
         [address |-> x, quantity |-> quantity, status |-> "APPROVED", createdAt |-> clock]]
  BY DEF CreateWithdrawal
<1>2. /\ withdrawals'[w].quantity = quantity /\ withdrawals'[w].address = x
      /\ withdrawals'[w].status = "APPROVED"
      /\ \A v \in Withdrawals \ {w} : withdrawals'[v] = withdrawals[v]
  BY <1>1 DEF CustodyInv
<1>3. withdrawals'[w] # None
  <2>1. [address |-> x, quantity |-> quantity, status |-> "APPROVED", createdAt |-> clock]
          \in WithdrawalRow
    BY DEF WithdrawalRow, WithdrawalStatus, CustodyInv
  <2>2. None \notin WithdrawalRow
    BY CustodyAssumption
  <2>. QED  BY <1>1, <2>1, <2>2 DEF CustodyInv
<1>4. /\ w \notin Of(a, status)
      /\ w \in Of(a, status)' <=> AddressAsset[x] = a
  BY <1>2, <1>3 DEF Of
<1>5. /\ Taken(a, status) \in Nat
      /\ Taken(a, status)' = Taken(a, status)
            - (IF w \in Of(a, status) THEN withdrawals[w].quantity ELSE 0)
            + (IF w \in Of(a, status)' THEN withdrawals'[w].quantity ELSE 0)
  BY <1>2, TakenMoves
<1>. QED  BY <1>2, <1>4, <1>5

-----------------------------------------------------------------------------
(* Balances                                                                *)

CashBooks ==
    /\ cash["HELD"] = HeldCash
    /\ cash["SETTLED"] = InitialCash - elsewhere - ReservedCash + Finals(Sales \ Reviewed)
                           - Finals(SecondPurchases)
    /\ cash["WITHDRAWABLE"] = cash["SETTLED"]
    /\ cash["FROZEN"] = Finals(Reviewed)

AssetBooks(a) ==
    /\ assets[a].settled = InitialAssets[a] + DepositedAssets(a) - WithdrawnAssets(a)
                             - SoldAssets(a) + BoughtAssets(a)
    /\ assets[a].held = OpenSales(a) + ApprovedAssets(a)
    /\ assets[a].settled >= 0

(* Reservations never take more than there was and than sales brought; the *)
(* one that is being committed was found to be covered.                    *)
Affords ==
    InitialCash - ReservedCash + Finals(Sales \ Reviewed)
        >= IF reserving = None THEN 0 ELSE commands[reserving].amount

Capped ==
    /\ Finals(Sales \ Reviewed) < RollingLimit
    /\ \A l \in Sales \ Reviewed : l.filled > 0 => l.final < SingleLimit

BooksInv == CashBooks /\ (\A a \in Assets : AssetBooks(a)) /\ Affords /\ Capped

(* Everything that is added up is a number. *)
LEMMA CashSumTypes ==
  ASSUME TypeInv
  PROVE  /\ InitialCash \in Nat /\ elsewhere \in Nat /\ HeldCash \in Int /\ ReservedCash \in Int
         /\ Finals(Sales \ Reviewed) \in Nat /\ Finals(Reviewed) \in Nat
         /\ Finals(SecondPurchases) \in Nat /\ RollingLimit \in Nat /\ SingleLimit \in Nat
         /\ \A d \in Dimension : cash[d] \in Int
<1>. DEFINE f == [k \in FromUSD |-> OpenReservation(k)]
            g == [k \in FromUSD |-> commands[k].amount - conversions[k].unspent]
<1>1. IsFiniteSet(FromUSD)
  BY FS_Subset, ConversionAssumption DEF FromUSD
<1>2. f \in [FromUSD -> Int] /\ g \in [FromUSD -> Int]
  BY KeyTypes DEF FromUSD, KeyTypesAre, TypeInv
<1>3. HeldCash = SumFunction(f) /\ ReservedCash = SumFunction(g)
  BY DEF HeldCash, ReservedCash
<1>4. HeldCash \in Int /\ ReservedCash \in Int
  <2>. HIDE DEF f, g
  <2>. QED  BY <1>1, <1>2, <1>3, SumIsInt
<1>5. /\ Finals(Sales \ Reviewed) \in Nat /\ Finals(Reviewed) \in Nat
      /\ Finals(SecondPurchases) \in Nat
  <2>1. /\ Sales \ Reviewed \in SUBSET legs /\ Reviewed \in SUBSET legs
        /\ SecondPurchases \in SUBSET legs
    BY DEF Sales, Reviewed, SecondPurchases
  <2>. QED  BY <2>1, FinalsType DEF TypeInv, ConversionInv
<1>6. /\ InitialCash \in Nat /\ elsewhere \in Nat /\ RollingLimit \in Nat /\ SingleLimit \in Nat
      /\ \A d \in Dimension : cash[d] \in Int
  BY BooksAssumption, ConversionAssumption
     DEF TypeInv, ConversionInv, ConversionsSound, BooksTypeOK, Balances
<1>. QED  BY <1>4, <1>5, <1>6

LEMMA AssetSumTypes ==
  ASSUME TypeInv, NEW a \in Assets
  PROVE  /\ InitialAssets[a] \in Nat /\ OpenSales(a) \in Nat /\ SoldAssets(a) \in Nat
         /\ BoughtAssets(a) \in Nat /\ ApprovedAssets(a) \in Nat /\ WithdrawnAssets(a) \in Nat
         /\ DepositedAssets(a) \in Nat /\ assets[a] \in Holding
         /\ assets[a].settled \in Int /\ assets[a].held \in Int
<1>1. OpenSales(a) \in Nat /\ SoldAssets(a) \in Nat
  <2>. DEFINE f == [k \in FromAsset(a) |-> OpenSale(k)]
              g == [k \in FromAsset(a) |-> Sold(k)]
  <2>1. IsFiniteSet(FromAsset(a))
    BY FS_Subset, ConversionAssumption DEF FromAsset
  <2>2. f \in [FromAsset(a) -> Nat] /\ g \in [FromAsset(a) -> Nat]
    BY KeyTypes DEF FromAsset, KeyTypesAre, TypeInv
  <2>3. OpenSales(a) = SumFunction(f) /\ SoldAssets(a) = SumFunction(g)
    BY DEF OpenSales, SoldAssets
  <2>. HIDE DEF f, g
  <2>. QED  BY <2>1, <2>2, <2>3, SumIsNat
<1>2. BoughtAssets(a) \in Nat
  <2>. DEFINE f == [l \in Bought(a) |-> l.filled]
  <2>1. IsFiniteSet(Bought(a))
    BY FS_Subset DEF Bought, TypeInv, ConversionInv, LegsSound
  <2>2. f \in [Bought(a) -> Nat]
    BY DEF Bought, TypeInv, ConversionInv, LegsSound, LegSound
  <2>3. BoughtAssets(a) = SumFunction(f)
    BY DEF BoughtAssets
  <2>. HIDE DEF f
  <2>. QED  BY <2>1, <2>2, <2>3, SumIsNat
<1>3. ASSUME NEW status  PROVE Taken(a, status) \in Nat
  <2>. DEFINE S == Of(a, status)
              f == [v \in S |-> withdrawals[v].quantity]
  <2>1. IsFiniteSet(S)
    BY FS_Subset, CustodyAssumption DEF Of
  <2>2. f \in [S -> Nat]
    BY CustodyAssumption DEF Of, TypeInv, CustodyInv, WithdrawalRow
  <2>3. Taken(a, status) = SumFunction(f)
    BY DEF Taken
  <2>. HIDE DEF f, S
  <2>. QED  BY <2>1, <2>2, <2>3, SumIsNat
<1>4. DepositedAssets(a) \in Nat
  <2>. DEFINE f == [d \in Received(a) |-> d.quantity]
  <2>1. IsFiniteSet(Received(a))
    BY FS_Subset, CustodyAssumption DEF Received, TypeInv, CustodyInv
  <2>2. f \in [Received(a) -> Nat]
    BY CustodyAssumption DEF Received, TypeInv, CustodyInv
  <2>3. DepositedAssets(a) = SumFunction(f)
    BY DEF DepositedAssets
  <2>. HIDE DEF f
  <2>. QED  BY <2>1, <2>2, <2>3, SumIsNat
<1>5. /\ InitialAssets[a] \in Nat /\ assets[a] \in Holding
      /\ assets[a].settled \in Int /\ assets[a].held \in Int
  BY BooksAssumption DEF TypeInv, BooksTypeOK, Holding
<1>. QED  BY <1>1, <1>2, <1>3, <1>4, <1>5 DEF ApprovedAssets, WithdrawnAssets

LEMMA BooksStart == Init => BooksInv
<1>. SUFFICES ASSUME Init  PROVE BooksInv
  OBVIOUS
<1>1. /\ cash = Opened(InitialCash) /\ assets = [a \in Assets |-> [settled |-> InitialAssets[a], held |-> 0]]
      /\ reserving = None /\ elsewhere = 0 /\ legs = {} /\ deposits = {}
      /\ conversions = [k \in Keys |-> None] /\ withdrawals = [w \in Withdrawals |-> None]
      /\ InitialCash \in Nat /\ InitialAssets \in [Assets -> Nat] /\ RollingLimit \in Nat \ {0}
  BY BooksAssumption, ConversionAssumption DEF Init, BooksInit, ConversionInit, CustodyInit
<1>2. /\ FromUSD = {} /\ Sales \ Reviewed = {} /\ Reviewed = {} /\ SecondPurchases = {}
      /\ \A a : FromAsset(a) = {} /\ Bought(a) = {} /\ Received(a) = {}
      /\ \A a, status : Of(a, status) = {}
  BY <1>1 DEF FromUSD, Sales, Reviewed, SecondPurchases, FromAsset, Bought, Received, Of, Created
<1>3. /\ HeldCash = 0 /\ ReservedCash = 0 /\ Finals(Sales \ Reviewed) = 0 /\ Finals(Reviewed) = 0
      /\ Finals(SecondPurchases) = 0
  BY <1>2, SumOfNone DEF HeldCash, ReservedCash, Finals
<1>4. ASSUME NEW a \in Assets
      PROVE  /\ OpenSales(a) = 0 /\ SoldAssets(a) = 0 /\ BoughtAssets(a) = 0
             /\ ApprovedAssets(a) = 0 /\ WithdrawnAssets(a) = 0 /\ DepositedAssets(a) = 0
  BY <1>2, SumOfNone DEF OpenSales, SoldAssets, BoughtAssets, ApprovedAssets, WithdrawnAssets,
     DepositedAssets, Taken
<1>5. CashBooks
  BY <1>1, <1>3 DEF CashBooks, Opened, Dimension
<1>6. \A a \in Assets : AssetBooks(a)
  BY <1>1, <1>4 DEF AssetBooks
<1>7. Affords /\ Capped
  BY <1>1, <1>2, <1>3 DEF Affords, Capped
<1>. QED  BY <1>5, <1>6, <1>7 DEF BooksInv

(* A step that touches neither balances nor tables. *)
LEMMA BooksStay ==
  ASSUME BooksInv, TypeInv,
         UNCHANGED <<cash, assets, elsewhere, plan, conversions, legs, withdrawals, deposits>>,
         IF reserving' = None THEN 0 =< InitialCash - ReservedCash + Finals(Sales \ Reviewed)
         ELSE commands[reserving'].amount =< InitialCash - ReservedCash + Finals(Sales \ Reviewed)
  PROVE  BooksInv'
<1>1. UNCHANGED ConversionSums /\ UNCHANGED CustodySums
  BY SameConversionSums, SameCustodySums
<1>2. UNCHANGED <<HeldCash, ReservedCash, Finals(Sales \ Reviewed), Finals(SecondPurchases),
                  Finals(Reviewed)>>
  BY <1>1 DEF ConversionSums
<1>3. ASSUME NEW a \in Assets
      PROVE  UNCHANGED <<OpenSales(a), SoldAssets(a), BoughtAssets(a), ApprovedAssets(a),
                         WithdrawnAssets(a), DepositedAssets(a)>>
  BY DEF OpenSales, SoldAssets, BoughtAssets, ApprovedAssets, WithdrawnAssets, DepositedAssets,
         Taken, Of, Received, FromAsset, OpenSale, Sold, Bought, LegAt, ListLegs, Created, commands
<1>4. CashBooks'
  BY <1>2 DEF BooksInv, CashBooks
<1>5. ASSUME NEW a \in Assets  PROVE AssetBooks(a)'
  BY <1>3 DEF BooksInv, AssetBooks
<1>6. (Sales \ Reviewed)' = Sales \ Reviewed /\ commands' = commands
  BY DEF Sales, Reviewed, commands
<1>7. Affords'
  <2>1. (IF reserving = None THEN 0 ELSE commands[reserving].amount)'
          = IF reserving' = None THEN 0 ELSE commands[reserving'].amount
    BY <1>6
  <2>2. InitialCash - ReservedCash + Finals(Sales \ Reviewed) \in Int
    BY CashSumTypes
  <2>3. (InitialCash - ReservedCash + Finals(Sales \ Reviewed))'
          = InitialCash - ReservedCash + Finals(Sales \ Reviewed)
    BY <1>2
  <2>. DEFINE room == InitialCash - ReservedCash + Finals(Sales \ Reviewed)
  <2>4. CASE reserving' = None
    <3>1. room >= 0
      BY <2>2, <2>4
    <3>. QED  BY <2>1, <2>3, <2>4, <3>1 DEF Affords
  <2>5. CASE reserving' # None
    BY <2>1, <2>3, <2>5 DEF Affords
  <2>. QED  BY <2>4, <2>5
<1>8. Capped'
  BY <1>2, <1>6 DEF BooksInv, Capped
<1>. QED  BY <1>4, <1>5, <1>7, <1>8 DEF BooksInv

(* What is reserved is an amount. *)
LEMMA ReservedAmount ==
  ASSUME TypeInv, reserving # None
  PROVE  commands[reserving].amount \in Nat /\ reserving \in Keys
BY CommandTypes DEF TypeInv, ConversionInv, ReservingSound, ConversionsSound

LEMMA Room ==
  ASSUME BooksInv, TypeInv
  PROVE  /\ InitialCash - ReservedCash + Finals(Sales \ Reviewed) \in Nat
         /\ reserving # None =>
              commands[reserving].amount =< InitialCash - ReservedCash + Finals(Sales \ Reviewed)
BY CashSumTypes, ReservedAmount DEF BooksInv, Affords

LEMMA BooksWait ==
  ASSUME BooksInv, TypeInv, reserving' \in {None, reserving},
         UNCHANGED <<cash, assets, elsewhere, plan, conversions, legs, withdrawals, deposits>>
  PROVE  BooksInv'
BY BooksStay, Room

LEMMA BooksBegin ==
  ASSUME BooksInv, TypeInv, plan' = plan, UNCHANGED <<withdrawals, deposits>>,
         NEW p \in Callers, NEW k \in Keys, BeginReservation(p, k)
  PROVE  BooksInv'
<1>1. /\ reserving' = k /\ cash["SETTLED"] >= commands[k].amount /\ commands[k] # None
      /\ UNCHANGED <<cash, assets, conversions, legs, elsewhere>>
  BY DEF BeginReservation, CashCovers
<1>2. commands[k].amount \in Nat
  BY <1>1, CommandTypes DEF TypeInv, ConversionInv, ConversionsSound
<1>3. commands[k].amount =< InitialCash - ReservedCash + Finals(Sales \ Reviewed)
  BY <1>1, <1>2, CashSumTypes DEF BooksInv, CashBooks
<1>. QED  BY <1>1, <1>2, <1>3, BooksStay, Room

(* The assets when no deposit or withdrawal changes. *)
LEMMA CustodySumsStay ==
  ASSUME UNCHANGED <<withdrawals, deposits>>, NEW a \in Assets
  PROVE  UNCHANGED <<ApprovedAssets(a), WithdrawnAssets(a), DepositedAssets(a)>>
BY DEF ApprovedAssets, WithdrawnAssets, DepositedAssets, Taken, Of, Received

LEMMA BooksCommit ==
  ASSUME BooksInv, TypeInv, TypeInv', plan' = plan, UNCHANGED <<withdrawals, deposits>>,
         CommitReservation
  PROVE  BooksInv'
<1>. DEFINE k == reserving
            amount == commands[k].amount
<1>1. /\ k # None /\ k \in Keys /\ ~Created(k) /\ commands[k] # None /\ commands[k].source = "USD"
      /\ CreateConversion(k) /\ reserving' = None /\ amount \in Nat
      /\ UNCHANGED <<assets, legs, elsewhere>>
      /\ cash' = Post(cash, [SETTLED |-> -amount, WITHDRAWABLE |-> -amount, HELD |-> amount])
  BY ReservedAmount DEF CommitReservation, TypeInv, ConversionInv, ReservingSound
<1>2. PICK c \in Keys : c = k
  BY <1>1
<1>3. /\ HeldCash' = HeldCash + amount /\ ReservedCash' = ReservedCash + amount
      /\ UNCHANGED <<Finals(Sales \ Reviewed), Finals(Reviewed), Finals(SecondPurchases)>>
      /\ (Sales \ Reviewed)' = Sales \ Reviewed
      /\ \A a \in Assets : UNCHANGED <<OpenSales(a), SoldAssets(a), BoughtAssets(a)>>
  <2>1. LET source == commands[c].source IN
         /\ HeldCash' = HeldCash + (IF source = "USD" THEN commands[c].amount ELSE 0)
         /\ ReservedCash' = ReservedCash + (IF source = "USD" THEN commands[c].amount ELSE 0)
         /\ UNCHANGED <<Finals(Sales \ Reviewed), Finals(Reviewed), Finals(SecondPurchases)>>
         /\ (Sales \ Reviewed)' = Sales \ Reviewed
         /\ \A a \in Assets :
               /\ OpenSales(a)' = OpenSales(a) + (IF source = a THEN commands[c].amount ELSE 0)
               /\ SoldAssets(a)' = SoldAssets(a) + (IF source = a THEN commands[c].amount ELSE 0)
               /\ BoughtAssets(a)' = BoughtAssets(a)
    BY <1>1, <1>2, CreateTables DEF TypeInv
  <2>2. commands[c].source = "USD" /\ \A a \in Assets : commands[c].source # a
    BY <1>1, <1>2, BooksAssumption
  <2>. QED  BY <1>2, <2>1, <2>2, AssetSumTypes
<1>4. /\ cash'["HELD"] = cash["HELD"] + amount /\ cash'["FROZEN"] = cash["FROZEN"]
      /\ cash'["SETTLED"] = cash["SETTLED"] - amount
      /\ cash'["WITHDRAWABLE"] = cash["WITHDRAWABLE"] - amount
  BY <1>1, ReservationPosting DEF TypeInv, BooksTypeOK
<1>5. CashBooks'
  BY <1>1, <1>3, <1>4, CashSumTypes DEF BooksInv, CashBooks
<1>6. ASSUME NEW a \in Assets  PROVE AssetBooks(a)'
  BY <1>1, <1>3, CustodySumsStay DEF BooksInv, AssetBooks
<1>7. Affords'
  BY <1>1, <1>3, CashSumTypes DEF BooksInv, Affords
<1>8. Capped'
  BY <1>3 DEF BooksInv, Capped
<1>. QED  BY <1>5, <1>6, <1>7, <1>8 DEF BooksInv

LEMMA BooksReserveAsset ==
  ASSUME BooksInv, TypeInv, TypeInv', plan' = plan, UNCHANGED <<withdrawals, deposits>>,
         NEW p \in Callers, NEW k \in Keys, ReserveAsset(p, k)
  PROVE  BooksInv'
<1>. DEFINE amount == commands[k].amount
            source == commands[k].source
<1>1. /\ ~Created(k) /\ commands[k] # None /\ source # "USD" /\ assets[source].settled >= amount
      /\ CreateConversion(k) /\ reserving = None /\ reserving' = None
      /\ PostAsset(source, -amount, amount)
      /\ UNCHANGED <<cash, legs, elsewhere>>
  BY DEF ReserveAsset, ProfileFree, AssetCovers
<1>2. amount \in Nat /\ source \in Assets /\ -amount \in Int
  <2>1. plan \in Plans
    BY DEF TypeInv, ConversionInv, ConversionsSound
  <2>. QED  BY <1>1, <2>1, CommandTypes
<1>3. /\ UNCHANGED <<HeldCash, ReservedCash, Finals(Sales \ Reviewed), Finals(Reviewed),
                     Finals(SecondPurchases)>>
      /\ (Sales \ Reviewed)' = Sales \ Reviewed
      /\ \A a \in Assets :
            /\ OpenSales(a)' = OpenSales(a) + (IF source = a THEN amount ELSE 0)
            /\ SoldAssets(a)' = SoldAssets(a) + (IF source = a THEN amount ELSE 0)
            /\ BoughtAssets(a)' = BoughtAssets(a)
  <2>1. /\ ConversionInv /\ ConversionInv' /\ UNCHANGED <<plan, legs>>
        /\ HeldCash \in Int /\ ReservedCash \in Int
    BY <1>1, CashSumTypes DEF TypeInv
  <2>2. LET s == commands[k].source IN
         /\ HeldCash' = HeldCash + (IF s = "USD" THEN commands[k].amount ELSE 0)
         /\ ReservedCash' = ReservedCash + (IF s = "USD" THEN commands[k].amount ELSE 0)
         /\ UNCHANGED <<Finals(Sales \ Reviewed), Finals(Reviewed), Finals(SecondPurchases)>>
         /\ (Sales \ Reviewed)' = Sales \ Reviewed
         /\ \A a \in Assets :
               /\ OpenSales(a)' = OpenSales(a) + (IF s = a THEN commands[k].amount ELSE 0)
               /\ SoldAssets(a)' = SoldAssets(a) + (IF s = a THEN commands[k].amount ELSE 0)
               /\ BoughtAssets(a)' = BoughtAssets(a)
    BY <1>1, <2>1, CreateTables
  <2>. QED  BY <1>1, <2>1, <2>2
<1>4. /\ assets'[source].settled = assets[source].settled - amount
      /\ assets'[source].held = assets[source].held + amount
      /\ \A x \in Assets \ {source} : assets'[x] = assets[x]
      /\ assets[source].settled \in Int /\ assets[source].held \in Int
  BY <1>1, <1>2, PostAssetTypes DEF TypeInv, BooksTypeOK
<1>5. CashBooks'
  BY <1>1, <1>3 DEF BooksInv, CashBooks
<1>6. ASSUME NEW a \in Assets  PROVE AssetBooks(a)'
  <2>1. CASE source = a
    BY <1>1, <1>2, <1>3, <1>4, <2>1, CustodySumsStay, AssetSumTypes DEF BooksInv, AssetBooks
  <2>2. CASE source # a
    BY <1>3, <1>4, <2>2, CustodySumsStay, AssetSumTypes DEF BooksInv, AssetBooks
  <2>. QED  BY <2>1, <2>2
<1>7. Affords'
  BY <1>1, <1>3 DEF BooksInv, Affords
<1>8. Capped'
  BY <1>3 DEF BooksInv, Capped
<1>. QED  BY <1>5, <1>6, <1>7, <1>8 DEF BooksInv

LEMMA BooksPurchase ==
  ASSUME BooksInv, TypeInv, TypeInv', UNCHANGED <<withdrawals, deposits>>,
         NEW p \in Callers, NEW k, NEW result, PurchaseSettles(p, k, result)
  PROVE  BooksInv'
<1>. DEFINE dest == commands[k].destination
            fromUSD == commands[k].source = "USD"
<1>1. PurchaseTables(k, result)
  BY PurchaseMovesTables DEF TypeInv
<1>2. /\ dest \in Assets /\ result.filled \in Nat /\ result.final \in Nat /\ result.unspent \in Nat
      /\ result.filled \in Int /\ 0 \in Int
      /\ reserving = None /\ reserving' = None /\ elsewhere' = elsewhere /\ postBuy(k, result)
  <2>1. dest \in Assets /\ Settleable(result) /\ result.unspent \in Nat
    BY PurchaseFacts
  <2>2. /\ reserving = None /\ reserving' = None /\ elsewhere' = elsewhere /\ postBuy(k, result)
    BY DEF PurchaseSettles
  <2>. QED  BY <2>1, <2>2 DEF Settleable
<1>3. /\ cash'["FROZEN"] = cash["FROZEN"]
      /\ cash'["SETTLED"] = IF fromUSD THEN cash["SETTLED"] + result.unspent
                            ELSE cash["SETTLED"] - result.final
      /\ cash'["WITHDRAWABLE"] = IF fromUSD THEN cash["WITHDRAWABLE"] + result.unspent
                                 ELSE cash["WITHDRAWABLE"] - result.final
      /\ cash'["HELD"] = IF fromUSD THEN cash["HELD"] - result.final - result.unspent
                         ELSE cash["HELD"]
  <2>1. cash' = Post(cash, IF commands[k].source # "USD" THEN SettledEntries(-result.final)
                           ELSE [HELD         |-> -result.final - result.unspent,
                                 SETTLED      |-> result.unspent,
                                 WITHDRAWABLE |-> result.unspent])
    BY <1>2 DEF postBuy
  <2>2. cash \in Balances /\ result.final \in Int /\ result.unspent \in Int
    BY <1>2 DEF TypeInv, BooksTypeOK
  <2>. QED  BY <2>1, <2>2, PurchasePosting
<1>4. /\ assets'[dest].settled = assets[dest].settled + result.filled
      /\ assets'[dest].held = assets[dest].held + 0
      /\ \A x \in Assets \ {dest} : assets'[x] = assets[x]
  <2>1. PostAsset(dest, result.filled, 0)
    BY <1>2 DEF postBuy
  <2>. QED  BY <1>2, <2>1, PostAssetTypes DEF TypeInv, BooksTypeOK
<1>5. /\ HeldCash' = HeldCash - (IF fromUSD THEN result.final + result.unspent ELSE 0)
      /\ ReservedCash' = ReservedCash - (IF fromUSD THEN result.unspent ELSE 0)
      /\ UNCHANGED <<Finals(Sales \ Reviewed), Finals(Reviewed)>>
      /\ (Sales \ Reviewed)' = Sales \ Reviewed
      /\ Finals(SecondPurchases)' = Finals(SecondPurchases) + (IF fromUSD THEN 0 ELSE result.final)
      /\ \A a \in Assets :
            /\ OpenSales(a)' = OpenSales(a) /\ SoldAssets(a)' = SoldAssets(a)
            /\ BoughtAssets(a)' = BoughtAssets(a) + (IF dest = a THEN result.filled ELSE 0)
  BY <1>1 DEF PurchaseTables
<1>6. CashBooks'
  <2>1. CASE fromUSD
    BY <1>2, <1>3, <1>5, <2>1, CashSumTypes DEF BooksInv, CashBooks, Dimension
  <2>2. CASE ~fromUSD
    BY <1>2, <1>3, <1>5, <2>2, CashSumTypes DEF BooksInv, CashBooks, Dimension
  <2>. QED  BY <2>1, <2>2
<1>7. ASSUME NEW a \in Assets  PROVE AssetBooks(a)'
  <2>1. CASE dest = a
    BY <1>2, <1>4, <1>5, <2>1, CustodySumsStay, AssetSumTypes DEF BooksInv, AssetBooks
  <2>2. CASE dest # a
    BY <1>4, <1>5, <2>2, CustodySumsStay, AssetSumTypes DEF BooksInv, AssetBooks
  <2>. QED  BY <2>1, <2>2
<1>8. Affords'
  BY <1>2, <1>5, CashSumTypes DEF BooksInv, Affords
<1>9. Capped'
  BY <1>5 DEF BooksInv, Capped
<1>. QED  BY <1>6, <1>7, <1>8, <1>9 DEF BooksInv

(* Legs without a fill took nothing in. *)
LEMMA FinalsWithin ==
  ASSUME LegsSound, NEW S \in SUBSET legs, NEW T \in SUBSET legs,
         \A l \in S \ T : l.final = 0
  PROVE  Finals(S) =< Finals(T)
<1>. DEFINE f == [l \in legs |-> l.final]
<1>1. ASSUME NEW U \in SUBSET legs
      PROVE  /\ Finals(U) = SumFunctionOnSet(f, U) /\ IsFiniteSet(U)
             /\ \A l \in U : f[l] \in Nat /\ f[l] \in Int
             /\ SumFunctionOnSet(f, U) \in Nat
  <2>. DEFINE g == [l \in U |-> l.final]
  <2>1. IsFiniteSet(U) /\ \A l \in U : f[l] \in Nat /\ g[l] = f[l] /\ f[l] \in Int
    BY FS_Subset DEF LegsSound, LegSound
  <2>2. Finals(U) = SumFunctionOnSet(g, U)
    BY SumOfAll DEF Finals
  <2>. HIDE DEF f, g
  <2>3. SumFunctionOnSet(g, U) = SumFunctionOnSet(f, U)
    BY <2>1, SumSame
  <2>4. SumFunctionOnSet(f, U) \in Nat
    BY <2>1, SumNat
  <2>. QED  BY <2>1, <2>2, <2>3, <2>4
<1>2. /\ S \cap T \in SUBSET legs /\ S \ T \in SUBSET legs /\ T \ S \in SUBSET legs
      /\ S = (S \cap T) \cup (S \ T) /\ T = (S \cap T) \cup (T \ S)
      /\ (S \cap T) \cap (S \ T) = {} /\ (S \cap T) \cap (T \ S) = {}
  OBVIOUS
<1>3. \A l \in S \ T : f[l] = 0
  OBVIOUS
<1>. HIDE DEF f
<1>4. SumFunctionOnSet(f, S \ T) = 0
  BY <1>1, <1>2, <1>3, SumOfZeros
<1>. DEFINE both == S \cap T
            left == S \ T
            right == T \ S
<1>5. /\ IsFiniteSet(both) /\ IsFiniteSet(left) /\ IsFiniteSet(right)
      /\ \A l \in both \cup left : f[l] \in Int
      /\ \A l \in both \cup right : f[l] \in Int
      /\ both \cap left = {} /\ both \cap right = {}
  BY <1>1, <1>2
<1>6. /\ SumFunctionOnSet(f, both) \in Nat /\ SumFunctionOnSet(f, right) \in Nat
      /\ SumFunctionOnSet(f, left) = 0
  BY <1>1, <1>2, <1>4
<1>7. S = both \cup left /\ T = both \cup right
  BY <1>2
<1>. HIDE DEF both, left, right
<1>8. /\ SumFunctionOnSet(f, both \cup left)
             = SumFunctionOnSet(f, both) + SumFunctionOnSet(f, left)
      /\ SumFunctionOnSet(f, both \cup right)
             = SumFunctionOnSet(f, both) + SumFunctionOnSet(f, right)
  BY <1>5, SumDisjoint
<1>. QED  BY <1>1, <1>6, <1>7, <1>8

(* The rolling sum is at least what the sales that were not reviewed made. *)
LEMMA RecentCounts ==
  ASSUME ConversionInv
  PROVE  Finals(Sales \ Reviewed) =< SumRecentCryptoToUSD /\ SumRecentCryptoToUSD \in Nat
<1>. DEFINE T == {l \in legs : l.side = "SELL" /\ l.status \in {"FILLED", "PARTIALLY_FILLED"}}
            S == Sales \ Reviewed
<1>1. LegsSound /\ S \in SUBSET legs /\ T \in SUBSET legs
  BY DEF ConversionInv, Sales
<1>2. ASSUME NEW l \in S \ T  PROVE l.final = 0
  <2>1. l \in legs /\ l.side = "SELL" /\ l.status \notin {"FILLED", "PARTIALLY_FILLED"}
    BY <1>2 DEF Sales
  <2>. QED  BY <1>1, <2>1 DEF LegsSound, LegSound, SoldWithin
<1>3. SumRecentCryptoToUSD = Finals(T)
  BY DEF SumRecentCryptoToUSD
<1>. HIDE DEF T
<1>. QED  BY <1>1, <1>2, <1>3, FinalsWithin, FinalsType

LEMMA BooksSale ==
  ASSUME BooksInv, TypeInv, TypeInv', UNCHANGED <<withdrawals, deposits>>,
         NEW p \in Callers, NEW k, NEW result, SaleSettles(p, k, result)
  PROVE  BooksInv'
<1>. DEFINE source == commands[k].source
            amount == commands[k].amount
            review == NeedsReview(commands[k], result)
<1>1. SaleTables(k, result, review)
  BY SaleMovesTables DEF TypeInv
<1>2. /\ source \in Assets /\ amount \in Nat /\ result.filled \in Nat /\ result.final \in Nat
      /\ result.filled = 0 => result.final = 0
      /\ reserving = None /\ reserving' = None /\ elsewhere' = elsewhere
      /\ postSell(k, result, review) /\ review \in BOOLEAN /\ result.filled =< amount
  <2>1. /\ source \in Assets /\ amount \in Nat /\ Settleable(result)
        /\ SoldWithin(result.filled, result.status, amount)
    BY SaleFacts
  <2>2. /\ reserving = None /\ reserving' = None /\ elsewhere' = elsewhere
        /\ postSell(k, result, review)
    BY DEF SaleSettles, SettleFirstSale
  <2>3. review \in BOOLEAN
    BY DEF NeedsReview
  <2>. QED  BY <2>1, <2>2, <2>3 DEF Settleable, SoldWithin
<1>3. ~review /\ result.filled > 0 => /\ result.final < SingleLimit
                                      /\ SumRecentCryptoToUSD + result.final < RollingLimit
  <2>1. SumRecentCryptoToUSD \in Nat /\ SingleLimit \in Nat /\ RollingLimit \in Nat
    BY RecentCounts, ConversionAssumption DEF TypeInv
  <2>. QED  BY <1>2, <2>1 DEF NeedsReview
<1>4. /\ cash'["HELD"] = cash["HELD"]
      /\ cash'["FROZEN"] = IF review THEN cash["FROZEN"] + result.final ELSE cash["FROZEN"]
      /\ cash'["SETTLED"] = IF review THEN cash["SETTLED"] ELSE cash["SETTLED"] + result.final
      /\ cash'["WITHDRAWABLE"] = IF review THEN cash["WITHDRAWABLE"]
                                 ELSE cash["WITHDRAWABLE"] + result.final
  <2>1. cash' = Post(cash, IF review THEN [FROZEN |-> result.final]
                                     ELSE SettledEntries(result.final))
    BY <1>2 DEF postSell
  <2>2. cash \in Balances /\ result.final \in Int
    BY <1>2 DEF TypeInv, BooksTypeOK
  <2>. HIDE DEF review
  <2>. QED  BY <2>1, <2>2, SalePosting
<1>5. /\ assets'[source].settled = assets[source].settled + (amount - result.filled)
      /\ assets'[source].held = assets[source].held - amount
      /\ \A x \in Assets \ {source} : assets'[x] = assets[x]
  <2>1. PostAsset(source, amount - result.filled, -amount)
    BY <1>2 DEF postSell, releaseReservation
  <2>2. amount - result.filled \in Int /\ -amount \in Int /\ assets \in [Assets -> Holding]
    BY <1>2 DEF TypeInv, BooksTypeOK
  <2>3. /\ assets[source].settled \in Int /\ assets[source].held \in Int
        /\ assets'[source] = [settled |-> assets[source].settled + (amount - result.filled),
                              held |-> assets[source].held + (-amount)]
        /\ \A x \in Assets \ {source} : assets'[x] = assets[x]
    BY <1>2, <2>1, <2>2, PostAssetTypes
  <2>. QED  BY <1>2, <2>3
<1>. HIDE DEF review
<1>6. /\ UNCHANGED <<HeldCash, ReservedCash, Finals(SecondPurchases)>>
      /\ Finals(Sales \ Reviewed)' = Finals(Sales \ Reviewed) + (IF review THEN 0 ELSE result.final)
      /\ Finals(Reviewed)' = Finals(Reviewed) + (IF review THEN result.final ELSE 0)
      /\ \A l \in (Sales \ Reviewed)' :
            \/ l \in Sales \ Reviewed
            \/ ~review /\ l.filled = result.filled /\ l.final = result.final
      /\ \A a \in Assets :
            /\ OpenSales(a)' = OpenSales(a) - (IF source = a THEN amount ELSE 0)
            /\ SoldAssets(a)' = SoldAssets(a) - (IF source = a THEN amount - result.filled ELSE 0)
            /\ BoughtAssets(a)' = BoughtAssets(a)
  BY <1>1 DEF SaleTables
<1>7. CashBooks'
  <2>1. CASE review
    BY <1>2, <1>4, <1>6, <2>1, CashSumTypes DEF BooksInv, CashBooks
  <2>2. CASE ~review
    BY <1>2, <1>4, <1>6, <2>2, CashSumTypes DEF BooksInv, CashBooks, Dimension
  <2>. QED  BY <2>1, <2>2
<1>8. ASSUME NEW a \in Assets  PROVE AssetBooks(a)'
  <2>1. CASE source = a
    BY <1>2, <1>5, <1>6, <2>1, CustodySumsStay, AssetSumTypes DEF BooksInv, AssetBooks
  <2>2. CASE source # a
    BY <1>5, <1>6, <2>2, CustodySumsStay, AssetSumTypes DEF BooksInv, AssetBooks
  <2>. QED  BY <2>1, <2>2
<1>9. Affords'
  BY <1>2, <1>6, CashSumTypes DEF BooksInv, Affords
<1>10. Finals(Sales \ Reviewed)' < RollingLimit
  <2>1. CASE review \/ result.filled = 0
    BY <1>2, <1>6, <2>1, CashSumTypes DEF BooksInv, Capped
  <2>2. CASE ~review /\ result.filled # 0
    <3>1. SumRecentCryptoToUSD + result.final < RollingLimit
      BY <1>2, <1>3, <2>2
    <3>2. Finals(Sales \ Reviewed) =< SumRecentCryptoToUSD /\ SumRecentCryptoToUSD \in Nat
      BY RecentCounts DEF TypeInv
    <3>. QED  BY <1>2, <1>6, <2>2, <3>1, <3>2, CashSumTypes
  <2>. QED  BY <2>1, <2>2
<1>11. Capped'
  BY <1>3, <1>6, <1>10 DEF BooksInv, Capped
<1>. QED  BY <1>7, <1>8, <1>9, <1>11 DEF BooksInv

LEMMA BooksSpend ==
  ASSUME BooksInv, TypeInv, TypeInv', plan' = plan, UNCHANGED <<withdrawals, deposits>>,
         NEW amount \in SpentElsewhere, SpendElsewhere(amount)
  PROVE  BooksInv'
<1>1. /\ elsewhere = 0 /\ elsewhere' = amount /\ amount \in Nat
      /\ cash' = Post(cash, SettledEntries(-amount))
      /\ UNCHANGED <<assets, reserving, conversions, legs, calls>>
  BY ConversionAssumption DEF SpendElsewhere
<1>2. /\ cash'["SETTLED"] = cash["SETTLED"] - amount
      /\ cash'["WITHDRAWABLE"] = cash["WITHDRAWABLE"] - amount
      /\ cash'["HELD"] = cash["HELD"] /\ cash'["FROZEN"] = cash["FROZEN"]
  BY <1>1, SpendPosting DEF TypeInv, BooksTypeOK
<1>3. UNCHANGED ConversionSums /\ commands' = commands
  BY <1>1, SameConversionSums DEF commands
<1>4. UNCHANGED <<HeldCash, ReservedCash, Finals(Sales \ Reviewed), Finals(SecondPurchases),
                  Finals(Reviewed)>>
  BY <1>3 DEF ConversionSums
<1>5. CashBooks'
  BY <1>1, <1>2, <1>4, CashSumTypes DEF BooksInv, CashBooks
<1>6. ASSUME NEW a \in Assets  PROVE AssetBooks(a)'
  <2>1. UNCHANGED <<OpenSales(a), SoldAssets(a), BoughtAssets(a)>>
    BY <1>1 DEF OpenSales, SoldAssets, BoughtAssets, FromAsset, OpenSale, Sold, Bought, LegAt,
       ListLegs, Created, commands
  <2>. QED  BY <1>1, <2>1, CustodySumsStay DEF BooksInv, AssetBooks
<1>7. Affords'
  BY <1>1, <1>3, <1>4 DEF BooksInv, Affords
<1>8. Capped'
  <2>1. (Sales \ Reviewed)' = Sales \ Reviewed
    BY <1>1 DEF Sales, Reviewed
  <2>. QED  BY <1>4, <2>1 DEF BooksInv, Capped
<1>. QED  BY <1>5, <1>6, <1>7, <1>8 DEF BooksInv

(* Conversions keep the books. *)
LEMMA ConversionBooks ==
  ASSUME BooksInv, TypeInv, TypeInv', plan' = plan, UNCHANGED custodyVars, ConversionNext
  PROVE  BooksInv'
<1>1. UNCHANGED <<withdrawals, deposits>>
  BY DEF custodyVars
<1>2. ASSUME NEW p \in Callers, NEW k \in Keys, Replay(p, k)  PROVE BooksInv'
  BY <1>1, <1>2, BooksWait DEF Replay
<1>3. ASSUME NEW p \in Callers, ReadProgress(p) \/ RouteSell(p) \/ RouteBuy(p)  PROVE BooksInv'
  BY <1>1, <1>3, BooksWait DEF ReadProgress, RouteSell, RouteBuy
<1>4. ASSUME NEW p \in Callers, CutOff(p)  PROVE BooksInv'
  BY <1>1, <1>4, BooksWait DEF CutOff
<1>5. ASSUME NEW p \in Callers, finalizeSellLeg(p)  PROVE BooksInv'
  <2>1. CASE SaleSettles(p, calls[p].key, calls[p].result)
    BY <1>1, <2>1, BooksSale
  <2>2. CASE UNCHANGED <<cash, assets, conversions, legs, elsewhere, reserving>>
    BY <1>1, <2>2, BooksWait
  <2>. QED  BY <1>5, <2>1, <2>2, SellLegCases DEF TypeInv
<1>6. ASSUME NEW p \in Callers, finalizeBuyLeg(p)  PROVE BooksInv'
  <2>1. CASE PurchaseSettles(p, calls[p].key, calls[p].result)
    BY <1>1, <2>1, BooksPurchase
  <2>2. CASE UNCHANGED <<cash, assets, conversions, legs, elsewhere, reserving>>
    BY <1>1, <2>2, BooksWait
  <2>. QED  BY <1>6, <2>1, <2>2, BuyLegCases DEF TypeInv
<1>. QED
  BY <1>1, <1>2, <1>3, <1>4, <1>5, <1>6, BooksBegin, BooksCommit, BooksReserveAsset, BooksSpend
     DEF ConversionNext

(* Custody moves one asset at a time, and no cash. *)
LEMMA CustodyBooksMove ==
  ASSUME BooksInv, TypeInv, UNCHANGED <<cash, reserving, plan, conversions, legs, elsewhere>>,
         \A a \in Assets : AssetBooks(a)'
  PROVE  BooksInv'
<1>1. UNCHANGED ConversionSums /\ commands' = commands
  BY SameConversionSums DEF commands
<1>2. UNCHANGED <<HeldCash, ReservedCash, Finals(Sales \ Reviewed), Finals(SecondPurchases),
                  Finals(Reviewed)>>
  BY <1>1 DEF ConversionSums
<1>3. CashBooks' /\ Affords'
  BY <1>1, <1>2 DEF BooksInv, CashBooks, Affords
<1>4. Capped'
  <2>1. (Sales \ Reviewed)' = Sales \ Reviewed
    BY DEF Sales, Reviewed
  <2>. QED  BY <1>2, <2>1 DEF BooksInv, Capped
<1>. QED  BY <1>3, <1>4 DEF BooksInv

LEMMA ConversionSumsStay ==
  ASSUME UNCHANGED <<plan, conversions, legs>>, NEW a \in Assets
  PROVE  UNCHANGED <<OpenSales(a), SoldAssets(a), BoughtAssets(a)>>
BY DEF OpenSales, SoldAssets, BoughtAssets, FromAsset, OpenSale, Sold, Bought, LegAt, ListLegs,
       Created, commands

LEMMA BooksDeposit ==
  ASSUME BooksInv, TypeInv, UNCHANGED <<plan, conversionVars>>,
         NEW event \in DepositEvents, ApplyDepositEvent(event)
  PROVE  BooksInv'
<1>. DEFINE x == event.asset
            n == event.quantity
<1>1. /\ event \notin deposits /\ deposits' = deposits \cup {event}
      /\ IF event.confirmed THEN PostAsset(x, n, 0) ELSE assets' = assets
      /\ UNCHANGED <<cash, reserving, withdrawals>>
      /\ UNCHANGED <<plan, conversions, legs, elsewhere>>
  BY DEF ApplyDepositEvent, CreateDeposit, conversionVars
<1>2. x \in Assets /\ n \in Nat /\ n \in Int /\ 0 \in Int
  BY CustodyAssumption
<1>3. event.confirmed =>
        /\ assets'[x].settled = assets[x].settled + n /\ assets'[x].held = assets[x].held + 0
        /\ \A y \in Assets \ {x} : assets'[y] = assets[y]
  <2>. SUFFICES ASSUME event.confirmed
                PROVE  /\ assets'[x].settled = assets[x].settled + n
                       /\ assets'[x].held = assets[x].held + 0
                       /\ \A y \in Assets \ {x} : assets'[y] = assets[y]
    OBVIOUS
  <2>1. PostAsset(x, n, 0) /\ assets \in [Assets -> Holding]
    BY <1>1 DEF TypeInv, BooksTypeOK
  <2>2. /\ assets'[x] = [settled |-> assets[x].settled + n, held |-> assets[x].held + 0]
        /\ \A y \in Assets \ {x} : assets'[y] = assets[y]
    BY <1>2, <2>1, PostAssetTypes
  <2>. QED  BY <2>2
<1>4. ASSUME NEW a \in Assets
      PROVE  DepositedAssets(a)' =
               DepositedAssets(a) + (IF event.confirmed /\ x = a THEN n ELSE 0)
  <2>. DEFINE S == Received(a)
              T == Received(a)'
              f == [d \in S |-> d.quantity]
              g == [d \in T |-> d.quantity]
  <2>1. /\ T = S \cup (IF event.confirmed /\ x = a THEN {event} ELSE {})
        /\ event \notin S
    BY <1>1 DEF Received
  <2>2. S \subseteq DepositEvents /\ T \subseteq DepositEvents
    BY <2>1 DEF Received, TypeInv, CustodyInv
  <2>3. IsFiniteSet(S) /\ IsFiniteSet(T)
    BY <2>2, FS_Subset, CustodyAssumption
  <2>4. f \in [S -> Int] /\ g \in [T -> Int] /\ (event \in T => g[event] = n)
    BY <2>2, CustodyAssumption
  <2>5. S \ {event} = T \ {event} /\ \A d \in S \ {event} : f[d] = g[d]
    BY <2>1
  <2>6. DepositedAssets(a) = SumFunction(f) /\ DepositedAssets(a)' = SumFunction(g)
    BY DEF DepositedAssets
  <2>7. event \in T <=> event.confirmed /\ x = a
    BY <2>1
  <2>. HIDE DEF f, g, S, T
  <2>8. /\ SumFunction(f) \in Int
        /\ SumFunction(g) = SumFunction(f) - (IF event \in S THEN f[event] ELSE 0)
                                           + (IF event \in T THEN g[event] ELSE 0)
    BY <2>3, <2>4, <2>5, SumMoved
  <2>. QED  BY <1>2, <2>1, <2>4, <2>6, <2>7, <2>8
<1>5. ASSUME NEW a \in Assets  PROVE AssetBooks(a)'
  <2>1. UNCHANGED <<OpenSales(a), SoldAssets(a), BoughtAssets(a)>>
    BY <1>1, ConversionSumsStay
  <2>2. UNCHANGED <<ApprovedAssets(a), WithdrawnAssets(a)>>
    BY <1>1 DEF ApprovedAssets, WithdrawnAssets, Taken, Of
  <2>3. CASE event.confirmed /\ x = a
    BY <1>2, <1>3, <1>4, <2>1, <2>2, <2>3, AssetSumTypes DEF BooksInv, AssetBooks
  <2>4. CASE ~(event.confirmed /\ x = a)
    <3>1. assets'[a] = assets[a]
      BY <1>1, <1>3, <2>4
    <3>2. DepositedAssets(a)' = DepositedAssets(a)
      BY <1>4, <2>4, AssetSumTypes
    <3>. QED  BY <2>1, <2>2, <3>1, <3>2 DEF BooksInv, AssetBooks
  <2>. QED  BY <2>3, <2>4
<1>. QED  BY <1>1, <1>5, CustodyBooksMove

LEMMA BooksRequest ==
  ASSUME BooksInv, TypeInv, TypeInv', UNCHANGED <<plan, conversionVars>>,
         NEW r \in Requests, RequestWithdrawal(r)
  PROVE  BooksInv'
<1>. DEFINE w == requests[r].withdrawal
            x == AddressAsset[requests[r].address]
            n == requests[r].quantity
<1>1. /\ UNCHANGED <<cash, reserving, deposits, plan, conversions, legs, elsewhere>>
      /\ w \in Withdrawals /\ requests[r].address \in Addresses /\ n \in Quantities
  BY DEF RequestWithdrawal, Prepared, conversionVars
<1>2. x \in Assets /\ n \in Nat /\ n \in Int /\ -n \in Int
  <2>1. x \in Assets /\ n \in Nat
    BY <1>1, CustodyAssumption
  <2>. HIDE DEF x, n
  <2>. QED  BY <2>1
<1>3. CASE /\ ~Requested(w) /\ AssetCovers(x, n)
           /\ PostAsset(x, -n, n) /\ CreateWithdrawal(w, requests[r].address, n)
  <2>1. withdrawals[w] = None /\ assets[x].settled >= n
    BY <1>3 DEF Requested, AssetCovers
  <2>2. /\ assets[x].settled \in Int /\ assets[x].held \in Int
        /\ assets'[x].settled = assets[x].settled - n /\ assets'[x].held = assets[x].held + n
        /\ \A y \in Assets \ {x} : assets'[y] = assets[y]
    BY <1>2, <1>3, PostAssetTypes DEF TypeInv, BooksTypeOK
  <2>3. ASSUME NEW a \in Assets
        PROVE  /\ ApprovedAssets(a)' = ApprovedAssets(a) + (IF x = a THEN n ELSE 0)
               /\ WithdrawnAssets(a)' = WithdrawnAssets(a) + (IF x = a THEN n ELSE 0)
    <3>1. CustodyInv /\ CustodyInv'
      BY DEF TypeInv
    <3>2. "APPROVED" \in {"APPROVED"} /\ "APPROVED" \in WithdrawalStatus \ {"FAILED"}
      BY DEF WithdrawalStatus
    <3>. QED
      BY <1>1, <1>2, <1>3, <2>1, <3>1, <3>2, GrantMoves DEF ApprovedAssets, WithdrawnAssets
  <2>4. ASSUME NEW a \in Assets  PROVE AssetBooks(a)'
    <3>1. UNCHANGED <<OpenSales(a), SoldAssets(a), BoughtAssets(a)>>
      BY <1>1, ConversionSumsStay
    <3>2. DepositedAssets(a)' = DepositedAssets(a)
      BY <1>1 DEF DepositedAssets, Received
    <3>3. CASE x = a
      BY <1>2, <2>1, <2>2, <2>3, <3>1, <3>2, <3>3, AssetSumTypes DEF BooksInv, AssetBooks
    <3>4. CASE x # a
      <4>1. UNCHANGED <<ApprovedAssets(a), WithdrawnAssets(a)>>
        BY <2>3, <3>4, AssetSumTypes
      <4>2. assets'[a] = assets[a]
        BY <2>2, <3>4
      <4>. QED  BY <3>1, <3>2, <4>1, <4>2 DEF BooksInv, AssetBooks
    <3>. QED  BY <3>3, <3>4
  <2>. QED  BY <1>1, <2>4, CustodyBooksMove
<1>4. CASE UNCHANGED <<assets, withdrawals>>
  BY <1>1, <1>4, BooksWait
<1>. QED  BY <1>3, <1>4 DEF RequestWithdrawal

LEMMA BooksEvent ==
  ASSUME BooksInv, TypeInv, TypeInv', UNCHANGED <<plan, conversionVars>>,
         NEW w \in Withdrawals, NEW step \in Step, ApplyWithdrawalEvent(w, step)
  PROVE  BooksInv'
<1>. DEFINE x == AddressAsset[withdrawals[w].address]
            n == withdrawals[w].quantity
            old == withdrawals[w].status
<1>1. /\ UNCHANGED <<cash, reserving, deposits, plan, conversions, legs, elsewhere>>
      /\ withdrawals[w] # None /\ CustodyInv /\ CustodyInv'
  BY DEF ApplyWithdrawalEvent, Requested, conversionVars, TypeInv
<1>2. withdrawals[w] \in WithdrawalRow
  BY <1>1 DEF CustodyInv
<1>3. x \in Assets /\ n \in Nat /\ n \in Int /\ -n \in Int /\ 0 \in Int
  <2>1. withdrawals[w].address \in Addresses /\ n \in Quantities
    BY <1>2 DEF WithdrawalRow
  <2>2. x \in Assets /\ n \in Nat
    BY <2>1, CustodyAssumption
  <2>. HIDE DEF x, n
  <2>. QED  BY <2>2
<1>4. ASSUME NEW new \in WithdrawalStatus, TransitionWithdrawal(w, new), NEW a \in Assets
      PROVE  /\ ApprovedAssets(a)' = ApprovedAssets(a)
                  - (IF x = a /\ old = "APPROVED" THEN n ELSE 0)
                  + (IF x = a /\ new = "APPROVED" THEN n ELSE 0)
             /\ WithdrawnAssets(a)' = WithdrawnAssets(a)
                  - (IF x = a /\ old # "FAILED" THEN n ELSE 0)
                  + (IF x = a /\ new # "FAILED" THEN n ELSE 0)
  <2>1. old \in WithdrawalStatus
    BY <1>2 DEF WithdrawalRow
  <2>2. ASSUME NEW status
        PROVE  Taken(a, status)' = Taken(a, status)
                 - (IF x = a /\ old \in status THEN n ELSE 0)
                 + (IF x = a /\ new \in status THEN n ELSE 0)
    BY <1>1, <1>4, StatusMoves
  <2>3. /\ (old \in {"APPROVED"} <=> old = "APPROVED") /\ (new \in {"APPROVED"} <=> new = "APPROVED")
        /\ (old \in WithdrawalStatus \ {"FAILED"} <=> old # "FAILED")
        /\ (new \in WithdrawalStatus \ {"FAILED"} <=> new # "FAILED")
    BY <1>4, <2>1
  <2>. QED  BY <2>2, <2>3 DEF ApprovedAssets, WithdrawnAssets
<1>5. ASSUME NEW a \in Assets
      PROVE  UNCHANGED <<OpenSales(a), SoldAssets(a), BoughtAssets(a), DepositedAssets(a)>>
  BY <1>1, ConversionSumsStay DEF DepositedAssets, Received
<1>6. CASE Broadcast(w)
  <2>1. /\ old = "APPROVED" /\ TransitionWithdrawal(w, "BROADCAST") /\ PostAsset(x, 0, -n)
        /\ "BROADCAST" \in WithdrawalStatus
    BY <1>6 DEF Broadcast, WithdrawalStatus
  <2>2. /\ assets'[x].settled = assets[x].settled + 0 /\ assets'[x].held = assets[x].held - n
        /\ \A y \in Assets \ {x} : assets'[y] = assets[y]
    BY <1>3, <2>1, PostAssetTypes DEF TypeInv, BooksTypeOK
  <2>3. ASSUME NEW a \in Assets  PROVE AssetBooks(a)'
    <3>1. /\ ApprovedAssets(a)' = ApprovedAssets(a) - (IF x = a THEN n ELSE 0)
          /\ WithdrawnAssets(a)' = WithdrawnAssets(a)
      <4>1. /\ ApprovedAssets(a)' = ApprovedAssets(a) - (IF x = a THEN n ELSE 0) + 0
            /\ WithdrawnAssets(a)' = WithdrawnAssets(a)
                 - (IF x = a THEN n ELSE 0) + (IF x = a THEN n ELSE 0)
        BY <1>4, <2>1
      <4>. QED  BY <1>3, <4>1, AssetSumTypes
    <3>2. CASE x = a
      BY <1>3, <1>5, <2>2, <3>1, <3>2, AssetSumTypes DEF BooksInv, AssetBooks
    <3>3. CASE x # a
      BY <1>5, <2>2, <3>1, <3>3, AssetSumTypes DEF BooksInv, AssetBooks
    <3>. QED  BY <3>2, <3>3
  <2>. QED  BY <1>1, <2>3, CustodyBooksMove
<1>7. CASE Confirmed(w)
  <2>1. /\ old = "BROADCAST" /\ TransitionWithdrawal(w, "CONFIRMED") /\ assets' = assets
        /\ "CONFIRMED" \in WithdrawalStatus
    BY <1>7 DEF Confirmed, WithdrawalStatus
  <2>2. ASSUME NEW a \in Assets  PROVE AssetBooks(a)'
    <3>1. /\ ApprovedAssets(a)' = ApprovedAssets(a) - 0 + 0
          /\ WithdrawnAssets(a)' = WithdrawnAssets(a)
               - (IF x = a THEN n ELSE 0) + (IF x = a THEN n ELSE 0)
      BY <1>4, <2>1
    <3>2. ApprovedAssets(a)' = ApprovedAssets(a) /\ WithdrawnAssets(a)' = WithdrawnAssets(a)
      BY <1>3, <3>1, AssetSumTypes
    <3>. QED  BY <1>5, <2>1, <3>2 DEF BooksInv, AssetBooks
  <2>. QED  BY <1>1, <2>2, CustodyBooksMove
<1>8. CASE Failed(w)
  <2>. DEFINE held == IF old = "APPROVED" THEN -n ELSE 0
  <2>1. /\ old \in {"APPROVED", "BROADCAST"} /\ TransitionWithdrawal(w, "FAILED")
        /\ PostAsset(x, n, held) /\ "FAILED" \in WithdrawalStatus /\ held \in Int
    BY <1>3, <1>8 DEF Failed, WithdrawalStatus
  <2>2. /\ assets'[x].settled = assets[x].settled + n /\ assets'[x].held = assets[x].held + held
        /\ \A y \in Assets \ {x} : assets'[y] = assets[y]
    <3>. HIDE DEF held
    <3>. QED  BY <1>3, <2>1, PostAssetTypes DEF TypeInv, BooksTypeOK
  <2>3. ASSUME NEW a \in Assets  PROVE AssetBooks(a)'
    <3>1. /\ ApprovedAssets(a)' = ApprovedAssets(a) - (IF x = a /\ old = "APPROVED" THEN n ELSE 0) + 0
          /\ WithdrawnAssets(a)' = WithdrawnAssets(a) - (IF x = a THEN n ELSE 0) + 0
      BY <1>4, <2>1
    <3>2. CASE x = a
      BY <1>3, <1>5, <2>2, <3>1, <3>2, AssetSumTypes DEF BooksInv, AssetBooks
    <3>3. CASE x # a
      BY <1>5, <2>2, <3>1, <3>3, AssetSumTypes DEF BooksInv, AssetBooks
    <3>. QED  BY <3>2, <3>3
  <2>. QED  BY <1>1, <2>3, CustodyBooksMove
<1>. QED  BY <1>6, <1>7, <1>8 DEF ApplyWithdrawalEvent, transitionWithdrawalEvent

LEMMA CustodyBooks ==
  ASSUME BooksInv, TypeInv, TypeInv', UNCHANGED <<plan, conversionVars>>, CustodyNext
  PROVE  BooksInv'
<1>1. CASE \/ \E asset \in Assets : CreateDepositAddress(asset) \/ \E reported : Reconcile(asset, reported)
           \/ \E a \in Addresses, risk \in RiskContexts, decision \in Decision :
                 AddWithdrawalAddress(a, risk, decision)
           \/ \E r \in Requests, a \in Addresses :
                 \/ \E blocked \in BOOLEAN : AnalyzeForActivation(r, a, blocked)
                 \/ \E w \in Withdrawals, quantity \in Quantities : AskCustodian(r, w, a, quantity)
           \/ \E r \in Requests : ActivateWithdrawalAddress(r) \/ CutOffRequest(r)
           \/ \E w \in Withdrawals, step \in Step : CustodianActs(w, step)
           \/ Tick
  <2>1. /\ UNCHANGED <<cash, assets, reserving, withdrawals, deposits>>
        /\ UNCHANGED <<elsewhere, plan, conversions, legs>>
    BY <1>1 DEF CreateDepositAddress, Reconcile, AddWithdrawalAddress, AnalyzeForActivation,
       AskCustodian, ActivateWithdrawalAddress, CutOffRequest, CustodianActs, Tick, conversionVars
  <2>. QED  BY <2>1, BooksWait
<1>. QED  BY <1>1, BooksDeposit, BooksRequest, BooksEvent DEF CustodyNext

LEMMA BooksKept == BooksInv /\ TypeInv /\ TypeInv' /\ [Next]_cryptoVars => BooksInv'
<1>. SUFFICES ASSUME BooksInv, TypeInv, TypeInv', [Next]_cryptoVars  PROVE BooksInv'
  OBVIOUS
<1>1. CASE UNCHANGED cryptoVars
  BY <1>1, BooksWait DEF cryptoVars, conversionVars, custodyVars
<1>. QED  BY <1>1, ConversionBooks, CustodyBooks DEF Next

LEMMA BooksAlways == Spec => [](TypeInv /\ BooksInv)
BY TypesStart, TypesKept, BooksStart, BooksKept, PTL DEF Spec, Safety

(* Every balance is what the conversions, legs, deposits and withdrawals   *)
(* on record add up to, for any number of calls and keys, whatever raced   *)
(* or died (finalizeSellLeg, finalizeBuyLeg, ApplyDepositEvent,            *)
(* transitionWithdrawalEvent).                                             *)
THEOREM BooksAlwaysExplained == Spec => []BooksExplained
<1>1. TypeInv /\ BooksInv => BooksExplained
  <2>. SUFFICES ASSUME TypeInv, BooksInv  PROVE BooksExplained
    OBVIOUS
  <2>1. /\ cash["HELD"] = HeldCash /\ cash["SETTLED"] = SettledCash
        /\ cash["WITHDRAWABLE"] = SettledCash /\ cash["FROZEN"] = Finals(Reviewed)
    BY DEF BooksInv, CashBooks, SettledCash, ReservedCash
  <2>2. ASSUME NEW a \in Assets
        PROVE  assets[a] = [settled |-> SettledAssets(a), held |-> HeldAssets(a)]
    <3>1. assets[a].settled = SettledAssets(a) /\ assets[a].held = HeldAssets(a)
      BY DEF BooksInv, AssetBooks, SettledAssets, HeldAssets, DepositedAssets, WithdrawnAssets,
         SoldAssets, BoughtAssets, OpenSales, ApprovedAssets, Taken
    <3>2. assets[a] \in Holding
      BY AssetSumTypes
    <3>. QED  BY <3>1, <3>2 DEF Holding
  <2>. QED  BY <2>1, <2>2 DEF BooksExplained
<1>. QED  BY <1>1, BooksAlways, PTL

(* The sales that were not reviewed stay below the limits together, and a  *)
(* reviewed sale buys nothing, for any limits and however conversions      *)
(* overlap (finalizeSellLeg, SumRecentCryptoToUSD).                        *)
THEOREM ReviewAlwaysCaps == Spec => []ReviewCap
<1>1. TypeInv /\ BooksInv => ReviewCap
  <2>. SUFFICES ASSUME TypeInv, BooksInv  PROVE ReviewCap
    OBVIOUS
  <2>1. ASSUME NEW l \in SecondPurchases, conversions[l.key].reviewed  PROVE l.filled = 0
    <3>1. l \in legs /\ LegSound(l) /\ l.sequence = 2 /\ l.key \in Keys
      BY <2>1 DEF SecondPurchases, TypeInv, ConversionInv, LegsSound, LegSound, Leg
    <3>2. RowComplete(l.key)
      BY <3>1 DEF TypeInv, ConversionInv, ConversionsSound, LegSound
    <3>. QED  BY <2>1, <3>1, <3>2 DEF RowComplete
  <2>. QED  BY <2>1 DEF ReviewCap, BooksInv, Capped
<1>. QED  BY <1>1, BooksAlways, PTL

(* No asset is used twice, and cash is overdrawn by no more than what other *)
(* modules spent and purchases took out of the proceeds of sales           *)
(* (AssetCovers, CashCovers, postBuy).                                     *)
THEOREM NothingEverOversold == Spec => []NothingOversold
<1>1. TypeInv /\ BooksInv => NothingOversold
  <2>. SUFFICES ASSUME TypeInv, BooksInv  PROVE NothingOversold
    OBVIOUS
  <2>1. ASSUME NEW a \in Assets  PROVE assets[a].settled >= 0 /\ assets[a].held >= 0
    BY AssetSumTypes DEF BooksInv, AssetBooks
  <2>2. cash["SETTLED"] >= -elsewhere - Finals(SecondPurchases)
    BY Room, CashSumTypes DEF BooksInv, CashBooks
  <2>. QED  BY <2>1, <2>2 DEF NothingOversold
<1>. QED  BY <1>1, BooksAlways, PTL

-----------------------------------------------------------------------------
(* Cooling periods are served                                              *)

CooledOff(row, time) == time >= row.createdAt + row.cooling

Rows == [status : {"COOLING_OFF", "ACTIVE", "SUSPENDED"}, risk : {"LOW", "ELEVATED", "BLOCKED"},
         createdAt : Nat, cooling : Nat]

WithdrawalRows == [address : Addresses, quantity : Quantities, status : WithdrawalStatus,
                   createdAt : Nat]

RowSound(row) ==
    /\ row \in Rows
    /\ row.status # "SUSPENDED" => row.risk # "BLOCKED"
    /\ row.status = "ACTIVE" => CooledOff(row, clock)

AddressesSound ==
    /\ DOMAIN addresses = Addresses
    /\ \A a \in Addresses : addresses[a] # None => RowSound(addresses[a])

Served(a, time) ==
    /\ addresses[a] # None
    /\ addresses[a].status = "ACTIVE" /\ addresses[a].risk # "BLOCKED"
    /\ CooledOff(addresses[a], time)

WithdrawalsSound ==
    /\ DOMAIN withdrawals = Withdrawals
    /\ \A w \in Withdrawals : withdrawals[w] # None =>
          /\ withdrawals[w] \in WithdrawalRows
          /\ Served(withdrawals[w].address, withdrawals[w].createdAt)

IInv ==
    /\ clock \in Nat
    /\ AddressesSound
    /\ WithdrawalsSound

LEMMA Initially == Init => IInv
  BY DEF Init, CustodyInit, IInv, AddressesSound, WithdrawalsSound

(* Whatever leaves addresses, withdrawals and the clock alone. *)
LEMMA OtherStep ==
  ASSUME IInv, UNCHANGED <<addresses, withdrawals, clock>>
  PROVE  IInv'
  BY DEF IInv, AddressesSound, RowSound, WithdrawalsSound, Served

(* Whatever leaves the rows of active addresses alone. *)
LEMMA AddressStep ==
  ASSUME IInv, UNCHANGED <<withdrawals, clock>>, NEW a \in Addresses, NEW row,
         addresses' = [addresses EXCEPT ![a] = row],
         row # None => RowSound(row), ~IsActive(a)
  PROVE  IInv'
<1>1. AddressesSound'
  BY DEF IInv, AddressesSound, RowSound
<1>2. ASSUME NEW x \in Addresses, NEW time, Served(x, time)  PROVE Served(x, time)'
  <2>1. x # a
    BY <1>2 DEF Served, IsActive, Registered
  <2>. QED  BY <1>2, <2>1 DEF Served, IInv, AddressesSound
<1>3. WithdrawalsSound'
  BY <1>2 DEF IInv, WithdrawalsSound, WithdrawalRows
<1>. QED  BY <1>1, <1>3 DEF IInv

LEMMA AddStep ==
  ASSUME IInv, NEW a \in Addresses, NEW risk, NEW decision \in Decision,
         AddWithdrawalAddress(a, risk, decision)
  PROVE  IInv'
<1>. DEFINE row == NewAddress(risk, decision)
<1>1. coolingDuration(risk) \in Nat
  BY PolicyAssumption DEF coolingDuration, PolicyHours
<1>2. RowSound(row)
  BY <1>1 DEF RowSound, NewAddress, Rows, IInv, Decision
<1>. QED
  BY <1>2, AddressStep
     DEF AddWithdrawalAddress, CreateWithdrawalAddress, IsActive, Registered

LEMMA ActivateStep ==
  ASSUME IInv, NEW r \in Requests, ActivateWithdrawalAddress(r)
  PROVE  IInv'
<1>. DEFINE a == requests[r].address
            blocked == requests[r].blocked
<1>1. a \in Addresses /\ UNCHANGED <<withdrawals, clock>>
  BY DEF ActivateWithdrawalAddress, Activation
<1>2. CASE MayActivate(a)
  <2>. DEFINE row == IF blocked THEN [addresses[a] EXCEPT !.status = "SUSPENDED", !.risk = "BLOCKED"]
                                ELSE [addresses[a] EXCEPT !.status = "ACTIVE"]
  <2>1. addresses' = [addresses EXCEPT ![a] = row]
    BY <1>2 DEF ActivateWithdrawalAddress, TransitionWithdrawalAddress
  <2>2. /\ RowSound(addresses[a]) /\ addresses[a].status = "COOLING_OFF"
        /\ CooledOff(addresses[a], clock)
    BY <1>1, <1>2
       DEF MayActivate, IsCoolingOff, Registered, Cooled, CooledOff, IInv, AddressesSound
  <2>3. RowSound(row)
    BY <2>2 DEF RowSound, Rows, CooledOff
  <2>. QED
    BY <1>1, <2>1, <2>2, <2>3, AddressStep DEF IsActive
<1>3. CASE ~MayActivate(a)
  BY <1>1, <1>3, OtherStep DEF ActivateWithdrawalAddress
<1>. QED  BY <1>2, <1>3

(* Whatever changes only the status of a withdrawal. *)
LEMMA StatusStep ==
  ASSUME IInv, UNCHANGED <<addresses, clock>>, NEW w \in Withdrawals,
         NEW status \in WithdrawalStatus, Requested(w), TransitionWithdrawal(w, status)
  PROVE  IInv'
<1>1. withdrawals' = [withdrawals EXCEPT ![w].status = status]
  BY DEF TransitionWithdrawal
<1>2. /\ withdrawals[w] \in WithdrawalRows
      /\ Served(withdrawals[w].address, withdrawals[w].createdAt)
  BY DEF IInv, WithdrawalsSound, Requested
<1>3. /\ DOMAIN withdrawals' = Withdrawals
      /\ \A x \in Withdrawals \ {w} : withdrawals'[x] = withdrawals[x]
      /\ withdrawals'[w] \in WithdrawalRows
      /\ withdrawals'[w].address = withdrawals[w].address
      /\ withdrawals'[w].createdAt = withdrawals[w].createdAt
  BY <1>1, <1>2 DEF IInv, WithdrawalsSound, WithdrawalRows
<1>. QED  BY <1>2, <1>3 DEF IInv, AddressesSound, RowSound, WithdrawalsSound, Served

LEMMA RequestStep ==
  ASSUME IInv, NEW r \in Requests, RequestWithdrawal(r)
  PROVE  IInv'
<1>. DEFINE w == requests[r].withdrawal
            a == requests[r].address
            quantity == requests[r].quantity
<1>1. /\ w \in Withdrawals /\ a \in Addresses /\ quantity \in Quantities
      /\ UNCHANGED <<addresses, clock>>
  BY DEF RequestWithdrawal, Prepared
<1>2. CASE IsActive(a) /\ CreateWithdrawal(w, a, quantity)
  <2>1. Served(a, clock) /\ clock \in Nat
    BY <1>1, <1>2 DEF IsActive, Registered, Served, IInv, AddressesSound, RowSound
  <2>2. /\ DOMAIN withdrawals' = Withdrawals
        /\ withdrawals'[w] = [address |-> a, quantity |-> quantity, status |-> "APPROVED",
                              createdAt |-> clock]
        /\ \A x \in Withdrawals \ {w} : withdrawals'[x] = withdrawals[x]
    BY <1>1, <1>2 DEF CreateWithdrawal, IInv, WithdrawalsSound
  <2>3. withdrawals'[w] \in WithdrawalRows
    BY <1>1, <2>1, <2>2 DEF WithdrawalRows, WithdrawalStatus
  <2>. QED
    BY <1>1, <2>1, <2>2, <2>3 DEF IInv, AddressesSound, RowSound, WithdrawalsSound, Served
<1>3. CASE UNCHANGED withdrawals
  BY <1>1, <1>3, OtherStep
<1>. QED  BY <1>2, <1>3 DEF RequestWithdrawal

LEMMA EventStep ==
  ASSUME IInv, NEW w \in Withdrawals, NEW step \in Step, ApplyWithdrawalEvent(w, step)
  PROVE  IInv'
<1>1. UNCHANGED <<addresses, clock>> /\ Requested(w)
  BY DEF ApplyWithdrawalEvent
<1>2. \E status \in WithdrawalStatus : TransitionWithdrawal(w, status)
  BY DEF ApplyWithdrawalEvent, transitionWithdrawalEvent, Broadcast, Confirmed, Failed,
         WithdrawalStatus
<1>. QED  BY <1>1, <1>2, StatusStep

LEMMA TickStep ==
  ASSUME IInv, Tick
  PROVE  IInv'
<1>1. clock \in Nat /\ clock' = clock + 1 /\ UNCHANGED <<addresses, withdrawals>>
  BY DEF IInv, Tick
<1>2. AddressesSound'
  BY <1>1 DEF IInv, AddressesSound, RowSound, Rows, CooledOff
<1>. QED  BY <1>1, <1>2 DEF IInv, WithdrawalsSound, Served

LEMMA NextStep == IInv /\ [Next]_cryptoVars => IInv'
<1>. SUFFICES ASSUME IInv, [Next]_cryptoVars  PROVE IInv'
  OBVIOUS
<1>1. CASE UNCHANGED custodyVars
  BY <1>1, OtherStep DEF custodyVars
<1>2. CASE CustodyNext
  <2>1. CASE \/ \E asset \in Assets : \E reported : Reconcile(asset, reported)
             \/ \E asset \in Assets : CreateDepositAddress(asset)
             \/ \E event \in DepositEvents : ApplyDepositEvent(event)
    BY <2>1, OtherStep DEF Reconcile, CreateDepositAddress, ApplyDepositEvent
  <2>2. CASE \/ \E r \in Requests, a \in Addresses :
                  \/ \E blocked \in BOOLEAN : AnalyzeForActivation(r, a, blocked)
                  \/ \E w \in Withdrawals, quantity \in Quantities :
                        AskCustodian(r, w, a, quantity)
             \/ \E r \in Requests : CutOffRequest(r)
             \/ \E w \in Withdrawals, step \in Step : CustodianActs(w, step)
    BY <2>2, OtherStep DEF AnalyzeForActivation, AskCustodian, CutOffRequest, CustodianActs
  <2>. QED
    BY <1>2, <2>1, <2>2, AddStep, ActivateStep, RequestStep, EventStep, TickStep
       DEF CustodyNext
<1>3. CASE UNCHANGED cryptoVars
  BY <1>3, OtherStep DEF cryptoVars, custodyVars
<1>. QED  BY <1>1, <1>2, <1>3 DEF Next

(* No withdrawal goes to an address that has not served its cooling period *)
(* or that an activation blocked.                                          *)
THEOREM CoolingAlwaysServed == Spec => []CoolingServed
<1>1. IInv => CoolingServed
  BY DEF IInv, CoolingServed, WithdrawalsSound, Served, CooledOff
<1>2. Safety => []IInv
  BY Initially, NextStep, PTL DEF Safety
<1>. QED  BY <1>1, <1>2, PTL DEF Spec
=============================================================================
