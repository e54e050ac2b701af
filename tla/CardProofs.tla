----------------------------- MODULE CardProofs -----------------------------
(***************************************************************************)
(* For any cards, authorizations, captures, disputes, statements, amounts, *)
(* prices and policies: the card model is type correct, the account holds  *)
(* what open authorizations still hold, the books balance, a capture is    *)
(* given back at most once, and the holds of a customer who repays in cash *)
(* are covered.                                                            *)
(***************************************************************************)
EXTENDS Card, MoneyTheorems

(* The transaction under way still has what it read to itself: its capture *)
(* is not there yet, its authorization is open, its statement is unpaid.   *)
PendingSound ==
    /\ pending \in Capturing =>
          /\ captures[pending.capture] = None
          /\ OpenAuthorization(pending.auth)
          /\ pending.cash =< Usd(pending.amount)
    /\ pending \in Statements =>
          statements[pending] # None /\ statements[pending].status = "OPEN"

(* No row is about a missing one, and a mode is chosen once. *)
RowsSound ==
    /\ \A x \in Posted : auths[captures[x].auth] # None
    /\ \A d \in Disputes : disputes[d] # None => captures[disputes[d].capture] # None
    /\ ~profile.chosen => profile.mode = "CASH_ONLY"

(* Of what was captured, no more is repaid than it was, and no more comes  *)
(* off the debt than was given back.                                       *)
CreditsSound ==
    \A x \in Posted : captures[x].repaid =< Settled(x) /\ captures[x].reduced =< Adjusted(x)

(* As long as nobody else moves cash, a customer who repays in cash has    *)
(* what the capture under way takes, and what is on hold.                  *)
CashOnlySound ==
    profile.mode = "CASH_ONLY" /\ elsewhere = {} =>
      /\ cash["SETTLED"] = cash["WITHDRAWABLE"] /\ cash["SETTLED"] >= 0
      /\ \A s \in Statements : statements[s] = None
      /\ pending \in Capturing => pending.cash =< cash["SETTLED"]
      /\ account.HELD =< cash["SETTLED"] + SumFunction([x \in Posted |-> BeyondHold(x)])

IInv ==
    /\ TypeOK
    /\ PendingSound
    /\ RowsSound
    /\ HoldsExplained
    /\ CreditsSound
    /\ GivenBackOnce
    /\ BooksBalance
    /\ CashOnlySound
-----------------------------------------------------------------------------
(* Rows and sums                                                           *)

LEMMA AbsentRows ==
  /\ None \notin CardRow /\ None \notin Authorization /\ None \notin Capture
  /\ None \notin Dispute /\ None \notin Statement /\ None \notin Capturing
  /\ None \notin Statements
BY CardAssumption, RowAssumption

Rows ==
    /\ \A x \in Captures : captures[x] \in Capture \cup {None}
    /\ \A a \in Auths : auths[a] \in Authorization \cup {None}
    /\ \A d \in Disputes : disputes[d] \in Dispute \cup {None}
    /\ \A s \in Statements : statements[s] \in Statement \cup {None}

DisputeStatus == {"OPEN", "ACCEPTED", "REJECTED"}

(* What the sums of the model are, as long as the rows have their types.   *)
SumsTyped ==
    /\ \A a \in Auths : /\ Captured(a) \in Nat /\ Released(a) \in Nat
                        /\ auths[a] # None => RemainingHold(a) \in Int
    /\ \A x \in Captures, status \in SUBSET DisputeStatus : Disputed(x, status) \in Nat
    /\ \A x \in Posted : /\ Settled(x) \in Nat /\ Adjusted(x) \in Nat
                         /\ Debt(x) \in Int /\ Paidback(x) \in Int /\ BeyondHold(x) \in Nat
    /\ PaidStatements \in Nat

LEMMA UsdType == ASSUME NEW n \in Nat  PROVE Usd(n) \in Nat
BY CardAssumption DEF Usd

LEMMA SumTypes == TypeOK => SumsTyped
<1>. SUFFICES ASSUME TypeOK  PROVE SumsTyped
  OBVIOUS
<1>1. Rows
  BY DEF TypeOK, Rows
<1>2. ASSUME NEW a \in Auths
      PROVE  /\ Captured(a) \in Nat /\ Released(a) \in Nat
             /\ auths[a] # None => RemainingHold(a) \in Int
  <2>1. IsFiniteSet(CapturesOf(a))
    BY CardAssumption, FS_Subset DEF CapturesOf
  <2>2. \A x \in CapturesOf(a) : captures[x].amount \in Nat /\ captures[x].released \in Nat
    BY <1>1, CardAssumption DEF Rows, CapturesOf, Capture
  <2>3. Captured(a) \in Nat
    <3>1. [x \in CapturesOf(a) |-> captures[x].amount] \in [CapturesOf(a) -> Nat]
      BY <2>2
    <3>. QED  BY <2>1, <3>1, SumIsNat DEF Captured
  <2>4. Released(a) \in Nat
    <3>1. [x \in CapturesOf(a) |-> captures[x].released] \in [CapturesOf(a) -> Nat]
      BY <2>2
    <3>. QED  BY <2>1, <3>1, SumIsNat DEF Released
  <2>5. ASSUME auths[a] # None  PROVE RemainingHold(a) \in Int
    <3>1. auths[a].amount \in Nat /\ auths[a].reversed \in Nat
      BY <1>1, <2>5, CardAssumption DEF Rows, Authorization
    <3>2. Usd(auths[a].amount) \in Nat
      BY <3>1, UsdType
    <3>. QED  BY <2>4, <3>1, <3>2 DEF RemainingHold
  <2>. QED  BY <2>3, <2>4, <2>5
<1>3. ASSUME NEW x \in Captures, NEW status \in SUBSET DisputeStatus
      PROVE  Disputed(x, status) \in Nat
  <2>1. IsFiniteSet(DisputesOf(x, status))
    BY CardAssumption, FS_Subset DEF DisputesOf
  <2>2. [d \in DisputesOf(x, status) |-> disputes[d].amount] \in [DisputesOf(x, status) -> Nat]
    BY <1>1, CardAssumption DEF Rows, DisputesOf, Dispute
  <2>. QED  BY <2>1, <2>2, SumIsNat DEF Disputed
<1>4. ASSUME NEW x \in Posted
      PROVE  /\ Settled(x) \in Nat /\ Adjusted(x) \in Nat
             /\ Debt(x) \in Int /\ Paidback(x) \in Int /\ BeyondHold(x) \in Nat
  <2>1. /\ x \in Captures /\ captures[x].amount \in Nat /\ captures[x].refunded \in Nat
        /\ captures[x].repaid \in Nat /\ captures[x].reduced \in Nat
        /\ captures[x].released \in Nat
    BY <1>1, CardAssumption DEF Rows, Posted, Capture
  <2>2. Settled(x) \in Nat
    BY <2>1, UsdType DEF Settled
  <2>3. Adjusted(x) \in Nat
    <3>1. Disputed(x, {"ACCEPTED"}) \in Nat
      BY <1>3, <2>1 DEF DisputeStatus
    <3>. QED  BY <2>1, <3>1 DEF Adjusted
  <2>. QED  BY <2>1, <2>2, <2>3 DEF Debt, Paidback, BeyondHold, positiveRemainder
<1>5. PaidStatements \in Nat
  <2>1. IsFiniteSet(Paid)
    BY CardAssumption, FS_Subset DEF Paid
  <2>2. [s \in Paid |-> statements[s].due] \in [Paid -> Nat]
    BY <1>1 DEF Rows, Paid, Statement
  <2>. QED  BY <2>1, <2>2, SumIsNat DEF PaidStatements
<1>. QED  BY <1>2, <1>3, <1>4, <1>5 DEF SumsTyped

LEMMA SumTypesNext == TypeOK' => SumsTyped'
BY SumTypes, PTL

(* Of two amounts the smaller is one of them, and so on. *)
LEMMA Minimum ==
  ASSUME NEW m \in Int, NEW n \in Int
  PROVE  /\ minimum(m, n) \in {m, n}
         /\ minimum(m, n) =< m /\ minimum(m, n) =< n
BY DEF minimum

LEMMA PositiveRemainder ==
  ASSUME NEW n \in Int
  PROVE  /\ positiveRemainder(n) \in Nat /\ positiveRemainder(n) >= n
         /\ n >= 0 => positiveRemainder(n) = n
         /\ n =< 0 => positiveRemainder(n) = 0
BY DEF positiveRemainder

LEMMA CashFacts ==
  ASSUME TypeOK
  PROVE  /\ cash["SETTLED"] \in Int /\ cash["WITHDRAWABLE"] \in Int
         /\ CashEligible \in Nat
         /\ cash["SETTLED"] = cash["WITHDRAWABLE"] /\ cash["SETTLED"] >= 0
              => CashEligible = cash["SETTLED"]
<1>1. cash["SETTLED"] \in Int /\ cash["WITHDRAWABLE"] \in Int
  BY DEF TypeOK, Balances, Dimension
<1>. QED  BY <1>1 DEF CashEligible, minimum, positiveRemainder

LEMMA CashPosted ==
  ASSUME NEW books \in Balances, NEW n \in Int
  PROVE  /\ Post(books, SettledEntries(n)) \in Balances
         /\ \A d \in Dimension : Post(books, SettledEntries(n))[d] =
               books[d] + (IF d \in {"SETTLED", "WITHDRAWABLE"} THEN n ELSE 0)
<1>1. /\ DOMAIN SettledEntries(n) = {"SETTLED", "WITHDRAWABLE"}
      /\ SettledEntries(n).SETTLED = n /\ SettledEntries(n).WITHDRAWABLE = n
  BY DEF SettledEntries
<1>2. \A d \in Dimension : books[d] \in Int
  BY DEF Balances
<1>. QED  BY <1>1, <1>2 DEF Post, Balances

-----------------------------------------------------------------------------
(* What a capture does when it is posted                                   *)

CaptureFacts(x, a, usd, release, sale, repaid) ==
    /\ pending \in Capturing /\ pending.capture = x /\ pending.auth = a
    /\ usd = Usd(pending.amount)
    /\ x \in Captures /\ a \in Auths
    /\ captures[x] = None /\ auths[a] \in Authorization /\ OpenAuthorization(a)
    /\ usd \in Nat /\ release \in Nat /\ repaid \in Nat
    /\ release =< RemainingHold(a)
    /\ IF pending.final THEN release = RemainingHold(a) ELSE release =< usd
    /\ sale \in [shares : Nat, proceeds : Nat] /\ sale.shares =< collateral.shares
    /\ repaid =< usd /\ pending.cash =< repaid
    /\ profile.mode = "CASH_ONLY" => sale.proceeds = 0 /\ repaid = pending.cash
    /\ captures' = [captures EXCEPT ![x] =
            [auth |-> a, amount |-> pending.amount, released |-> release,
             repaid |-> repaid, refunded |-> 0, reduced |-> 0]]
    /\ UpdateAuthorizationTotals(
            a, IF pending.final THEN "CAPTURED" ELSE "PARTIALLY_CAPTURED",
            positiveRemainder(release - usd))
    /\ account' = [HELD |-> account.HELD - release,
                   RECEIVABLE |-> account.RECEIVABLE + usd - repaid]
    /\ cash' = Post(cash, SettledEntries(sale.proceeds - repaid))
    /\ collateral' = [collateral EXCEPT !.shares = @ - sale.shares, !.sold = @ + sale.proceeds]
    /\ \E s \in {"ACTIVE", "FROZEN"} : profile' = [profile EXCEPT !.spending = s]
    /\ pending' = None
    /\ UNCHANGED <<cards, disputes, statements, elsewhere>>

(* The row of an authorization after its totals changed. *)
LEMMA TotalsUpdated ==
  ASSUME TypeOK, NEW a \in Auths, auths[a] \in Authorization,
         NEW status \in {"APPROVED", "PARTIALLY_CAPTURED", "CAPTURED", "REVERSED"},
         NEW more \in Nat, UpdateAuthorizationTotals(a, status, more)
  PROVE  /\ auths'[a] = [amount |-> auths[a].amount, reversed |-> auths[a].reversed + more,
                         status |-> status]
         /\ auths'[a] \in Authorization
         /\ auths' = [auths EXCEPT ![a] = auths'[a]]
         /\ auths' \in [Auths -> Authorization \cup {None}]
<1>. DEFINE first == [auths EXCEPT ![a].status = status]
            row   == [amount |-> auths[a].amount, reversed |-> auths[a].reversed,
                      status |-> status]
            last  == [amount |-> auths[a].amount, reversed |-> auths[a].reversed + more,
                      status |-> status]
<1>1. first = [auths EXCEPT ![a] = row]
  <2>1. [auths[a] EXCEPT !.status = status] = row
    BY DEF Authorization
  <2>. HIDE DEF row
  <2>. QED  BY <2>1
<1>2. auths' = [first EXCEPT ![a].reversed = @ + more]
  BY DEF UpdateAuthorizationTotals
<1>. HIDE DEF first
<1>3. first[a] = row
  BY <1>1 DEF TypeOK
<1>4. auths' = [first EXCEPT ![a] = last]
  <2>1. [row EXCEPT !.reversed = @ + more] = last
    BY DEF Authorization
  <2>. HIDE DEF row, last
  <2>. QED  BY <1>2, <1>3, <2>1
<1>5. last \in Authorization
  BY DEF Authorization
<1>. HIDE DEF row, last
<1>6. auths' = [auths EXCEPT ![a] = last]
  BY <1>1, <1>4 DEF TypeOK
<1>7. auths'[a] = last
  BY <1>6 DEF TypeOK
<1>8. auths' \in [Auths -> Authorization \cup {None}]
  BY <1>5, <1>6 DEF TypeOK
<1>. QED  BY <1>5, <1>6, <1>7, <1>8 DEF last

(* No sale is of more shares than there are, nor of fewer than none. *)
LEMMA SalesSound ==
  ASSUME TypeOK, NEW needed \in Nat, NEW sale \in Sales(needed)
  PROVE  sale \in [shares : Nat, proceeds : Nat] /\ sale.shares =< collateral.shares
<1>. DEFINE wanted    == minimum(needed, positiveRemainder(DailyMax - SoldToday))
            bought    == (wanted + LimitPrice - 1) \div LimitPrice
            free      == positiveRemainder(collateral.shares - Retain)
            requested == minimum(bought, free)
<1>1. /\ collateral.shares \in Nat /\ collateral.sold \in Nat
      /\ Retain \in Nat /\ DailyMax \in Nat /\ Price \in Nat /\ LimitPrice \in Nat \ {0}
  BY CardAssumption DEF TypeOK
<1>2. wanted \in Nat
  BY <1>1 DEF SoldToday, minimum, positiveRemainder
<1>3. free \in Nat /\ free =< collateral.shares
  BY <1>1 DEF positiveRemainder
<1>. HIDE DEF wanted, free
<1>4. bought \in Nat
  <2>. DEFINE n == wanted + LimitPrice - 1
  <2>1. n \in Nat
    BY <1>1, <1>2
  <2>. HIDE DEF n
  <2>2. n \div LimitPrice \in Nat
    BY <1>1, <2>1, Division
  <2>. QED  BY <2>2 DEF n
<1>. HIDE DEF bought
<1>5. requested \in Nat /\ requested =< collateral.shares
  BY <1>1, <1>3, <1>4 DEF minimum
<1>. HIDE DEF requested
<1>6. requested \div 2 \in Nat /\ requested \div 2 =< requested
  BY <1>5
<1>7. CASE sale = NoSale
  BY <1>1, <1>7 DEF NoSale
<1>8. CASE \E filled \in {requested, requested \div 2} :
              sale = [shares |-> filled, proceeds |-> filled * Price]
  <2>1. PICK filled \in {requested, requested \div 2} :
              sale = [shares |-> filled, proceeds |-> filled * Price]
    BY <1>8
  <2>2. filled \in Nat /\ filled =< collateral.shares
    BY <1>1, <1>5, <1>6
  <2>3. filled * Price \in Nat
    BY <1>1, <2>2
  <2>. QED  BY <2>1, <2>2, <2>3
<1>9. sale = NoSale \/ \E filled \in {requested, requested \div 2} :
                          sale = [shares |-> filled, proceeds |-> filled * Price]
  BY DEF Sales, requested, bought, free, wanted
<1>. QED  BY <1>7, <1>8, <1>9

LEMMA CaptureAccount ==
  ASSUME account \in [HELD : Int, RECEIVABLE : Int],
         NEW usd \in Int, NEW release \in Int, NEW repaid \in Int
  PROVE  postCashRepayment(postCaptureReceivable(usd, release), repaid)
            = [HELD |-> account.HELD - release, RECEIVABLE |-> account.RECEIVABLE + usd - repaid]
<1>. DEFINE held == account.HELD - release
            owed == account.RECEIVABLE + usd
            one  == [account EXCEPT !.RECEIVABLE = owed]
<1>1. account.HELD \in Int /\ account.RECEIVABLE \in Int /\ held \in Int /\ owed \in Int
  OBVIOUS
<1>2. one = [HELD |-> account.HELD, RECEIVABLE |-> owed]
  OBVIOUS
<1>3. postCaptureReceivable(usd, release) = [one EXCEPT !.HELD = held]
  BY DEF postCaptureReceivable
<1>. HIDE DEF one, held, owed
<1>4. [one EXCEPT !.HELD = held] = [HELD |-> held, RECEIVABLE |-> owed]
  BY <1>2
<1>5. postCashRepayment([HELD |-> held, RECEIVABLE |-> owed], repaid)
        = [HELD |-> held, RECEIVABLE |-> owed - repaid]
  BY <1>1 DEF postCashRepayment
<1>6. owed - repaid = account.RECEIVABLE + usd - repaid
  BY <1>1 DEF owed
<1>. QED  BY <1>3, <1>4, <1>5, <1>6 DEF held

LEMMA CommitCaptureFacts ==
  ASSUME IInv, CommitCapture
  PROVE  \E x \in Captures, a \in Auths, usd, release \in Nat,
            sale \in [shares : Nat, proceeds : Nat], repaid \in Nat :
            CaptureFacts(x, a, usd, release, sale, repaid)
<1>. DEFINE x == pending.capture
            a == pending.auth
            usd == Usd(pending.amount)
            release == HoldRelease(a, usd, pending.final)
            sales == IF profile.mode = "CASH_THEN_AUTO_SELL" /\ usd > pending.cash
                     THEN Sales(usd - pending.cash) ELSE {NoSale}
            paid(sale) == pending.cash + minimum(sale.proceeds, usd - pending.cash)
<1>1. TypeOK /\ pending \in Capturing
  BY DEF IInv, CommitCapture
<1>2. /\ x \in Captures /\ a \in Auths /\ pending.final \in BOOLEAN /\ pending.cash \in Nat
      /\ pending.amount \in Nat
  BY <1>1, CardAssumption DEF Capturing
<1>3. /\ captures[x] = None /\ OpenAuthorization(a) /\ pending.cash =< usd
  BY <1>1 DEF IInv, PendingSound
<1>4. auths[a] \in Authorization
  BY <1>1, <1>2, <1>3 DEF TypeOK, OpenAuthorization
<1>5. usd \in Nat
  BY <1>2, UsdType
<1>6. RemainingHold(a) \in Int /\ RemainingHold(a) >= 0
  <2>1. RemainingHold(a) \in Int
    BY <1>1, <1>2, <1>3, SumTypes DEF SumsTyped, OpenAuthorization
  <2>2. RemainingHold(a) >= 0
    BY <1>2, <1>3 DEF IInv, HoldsExplained, Open
  <2>. QED  BY <2>1, <2>2
<1>7. PICK sale \in sales :
        /\ captures' = [captures EXCEPT ![x] =
                [auth |-> a, amount |-> pending.amount, released |-> release,
                 repaid |-> paid(sale), refunded |-> 0, reduced |-> 0]]
        /\ UpdateAuthorizationTotals(
                a, IF pending.final THEN "CAPTURED" ELSE "PARTIALLY_CAPTURED",
                positiveRemainder(release - usd))
        /\ account' = postCashRepayment(postCaptureReceivable(usd, release), paid(sale))
        /\ cash' = Post(cash, SettledEntries(sale.proceeds - paid(sale)))
        /\ InsertAutoSellExecution(sale)
        /\ profile' = [profile EXCEPT !.spending = SpendingAfter(usd, paid(sale))]
  BY DEF CommitCapture
<1>8. pending' = None /\ UNCHANGED <<cards, disputes, statements, elsewhere>>
  BY DEF CommitCapture
<1>9. /\ release \in Nat /\ release =< RemainingHold(a)
      /\ IF pending.final THEN release = RemainingHold(a) ELSE release =< usd
  BY <1>5, <1>6 DEF HoldRelease, positiveRemainder, minimum
<1>. HIDE DEF usd, release
<1>10. sale \in [shares : Nat, proceeds : Nat] /\ sale.shares =< collateral.shares
  <2>1. CASE sale = NoSale
    <3>1. collateral.shares \in Nat
      BY <1>1 DEF TypeOK
    <3>. QED  BY <2>1, <3>1 DEF NoSale
  <2>2. CASE usd > pending.cash /\ sale \in Sales(usd - pending.cash)
    <3>1. usd - pending.cash \in Nat
      BY <1>2, <1>5, <2>2
    <3>. QED  BY <1>1, <2>2, <3>1, SalesSound
  <2>. QED  BY <2>1, <2>2
<1>11. /\ paid(sale) \in Nat /\ paid(sale) =< usd /\ pending.cash =< paid(sale)
  BY <1>2, <1>3, <1>5, <1>10 DEF minimum
<1>12. profile.mode = "CASH_ONLY" => sale.proceeds = 0 /\ paid(sale) = pending.cash
  <2>1. SUFFICES ASSUME profile.mode = "CASH_ONLY"
                 PROVE  sale.proceeds = 0 /\ paid(sale) = pending.cash
    OBVIOUS
  <2>2. sale = NoSale
    BY <2>1
  <2>3. sale.proceeds = 0
    BY <2>2 DEF NoSale
  <2>4. minimum(0, usd - pending.cash) = 0
    BY <1>2, <1>3, <1>5 DEF minimum, usd
  <2>. QED  BY <1>2, <2>3, <2>4
<1>. DEFINE repaid == paid(sale)
<1>13. /\ repaid \in Nat /\ repaid =< usd /\ pending.cash =< repaid
       /\ profile.mode = "CASH_ONLY" => sale.proceeds = 0 /\ repaid = pending.cash
  BY <1>11, <1>12
<1>14. /\ captures' = [captures EXCEPT ![x] =
                [auth |-> a, amount |-> pending.amount, released |-> release,
                 repaid |-> repaid, refunded |-> 0, reduced |-> 0]]
       /\ UpdateAuthorizationTotals(
                a, IF pending.final THEN "CAPTURED" ELSE "PARTIALLY_CAPTURED",
                positiveRemainder(release - usd))
       /\ account' = postCashRepayment(postCaptureReceivable(usd, release), repaid)
       /\ cash' = Post(cash, SettledEntries(sale.proceeds - repaid))
       /\ collateral' = [collateral EXCEPT !.shares = @ - sale.shares, !.sold = @ + sale.proceeds]
       /\ profile' = [profile EXCEPT !.spending = SpendingAfter(usd, repaid)]
  BY <1>7 DEF InsertAutoSellExecution
<1>. HIDE DEF repaid
<1>15. account' = [HELD |-> account.HELD - release,
                   RECEIVABLE |-> account.RECEIVABLE + usd - repaid]
  <2>1. /\ account \in [HELD : Int, RECEIVABLE : Int]
        /\ usd \in Int /\ release \in Int /\ repaid \in Int
    BY <1>1, <1>5, <1>9, <1>13 DEF TypeOK
  <2>. QED  BY <1>14, <2>1, CaptureAccount
<1>16. SpendingAfter(usd, repaid) \in {"ACTIVE", "FROZEN"}
  BY <1>1 DEF TypeOK, SpendingAfter
<1>17. CaptureFacts(x, a, usd, release, sale, repaid)
  BY <1>1, <1>2, <1>3, <1>4, <1>5, <1>8, <1>9, <1>10, <1>13, <1>14, <1>15, <1>16
     DEF CaptureFacts, usd
<1>. QED  BY <1>2, <1>5, <1>9, <1>10, <1>13, <1>17

-----------------------------------------------------------------------------
(* What a refund or an accepted dispute does                               *)

CreditFacts(x, usd, refunded, reduction) ==
    /\ x \in Posted /\ usd \in Nat /\ reduction \in Nat
    /\ usd =< Settled(x) - Adjusted(x) /\ reduction =< usd
    /\ reduction =< positiveRemainder(Settled(x) - captures[x].repaid - Adjusted(x))
    /\ captures'[x] = [auth |-> captures[x].auth, amount |-> captures[x].amount,
                       released |-> captures[x].released, repaid |-> captures[x].repaid,
                       refunded |-> captures[x].refunded + refunded,
                       reduced |-> captures[x].reduced + reduction]
    /\ captures' = [captures EXCEPT ![x] = captures'[x]]
    /\ account' = [HELD |-> account.HELD, RECEIVABLE |-> account.RECEIVABLE - reduction]
    /\ cash' = Post(cash, SettledEntries(usd - reduction))

LEMMA CreditSound ==
  ASSUME TypeOK, NEW x \in Posted, NEW usd \in Nat, NEW refunded \in Nat, Credit(x, usd, refunded)
  PROVE  CreditFacts(x, usd, refunded, refundAllocation(x, usd))
<1>. DEFINE reduction == refundAllocation(x, usd)
            open      == Settled(x) - captures[x].repaid - Adjusted(x)
<1>1. /\ x \in Captures /\ captures[x] \in Capture
      /\ captures \in [Captures -> Capture \cup {None}]
  BY DEF TypeOK, Posted
<1>2. captures[x].repaid \in Nat /\ Settled(x) \in Nat /\ Adjusted(x) \in Nat
  BY <1>1, SumTypes DEF SumsTyped, Capture
<1>3. open \in Int
  BY <1>2
<1>. HIDE DEF open
<1>4. positiveRemainder(open) \in Nat
  BY <1>3 DEF positiveRemainder
<1>5. reduction = minimum(usd, positiveRemainder(open))
  BY DEF refundAllocation, open
<1>6. reduction \in Nat /\ reduction =< usd /\ reduction =< positiveRemainder(open)
  BY <1>4, <1>5 DEF minimum
<1>. HIDE DEF reduction
<1>7. /\ usd =< Settled(x) - Adjusted(x)
      /\ captures' = [captures EXCEPT ![x].refunded = @ + refunded, ![x].reduced = @ + reduction]
      /\ account' = [account EXCEPT !.RECEIVABLE = @ - reduction]
      /\ cash' = Post(cash, SettledEntries(usd - reduction))
  BY DEF Credit, UpdateCaptureRefund, refundEntries, reduction
<1>8. account' = [HELD |-> account.HELD, RECEIVABLE |-> account.RECEIVABLE - reduction]
  BY <1>6, <1>7 DEF TypeOK
<1>. DEFINE first == [captures EXCEPT ![x].refunded = @ + refunded]
            row   == [auth |-> captures[x].auth, amount |-> captures[x].amount,
                      released |-> captures[x].released, repaid |-> captures[x].repaid,
                      refunded |-> captures[x].refunded + refunded,
                      reduced |-> captures[x].reduced]
            last  == [row EXCEPT !.reduced = captures[x].reduced + reduction]
<1>9. first = [captures EXCEPT ![x] = row]
  <2>1. [captures[x] EXCEPT !.refunded = @ + refunded] = row
    BY <1>1 DEF Capture
  <2>. HIDE DEF row
  <2>. QED  BY <2>1
<1>10. captures' = [first EXCEPT ![x].reduced = captures[x].reduced + reduction]
  BY <1>1, <1>7 DEF Capture
<1>. HIDE DEF first
<1>11. captures' = [captures EXCEPT ![x] = last]
  BY <1>1, <1>9, <1>10
<1>12. captures'[x] = last
  BY <1>1, <1>11
<1>. QED  BY <1>2, <1>6, <1>7, <1>8, <1>11, <1>12 DEF CreditFacts, open, reduction

(* The credits of the model. *)
LEMMA RefundFacts ==
  ASSUME TypeOK, NEW x \in Captures, NEW usd \in UsdAmounts, Refund(x, usd)
  PROVE  CreditFacts(x, usd, usd, refundAllocation(x, usd))
<1>1. x \in Posted /\ usd \in Nat /\ Credit(x, usd, usd)
  BY CardAssumption DEF Refund, Posted
<1>. QED  BY <1>1, CreditSound

LEMMA DisputeFacts ==
  ASSUME TypeOK, RowsSound, NEW d \in Disputes, AcceptDispute(d)
  PROVE  /\ disputes[d] \in Dispute /\ disputes[d].status = "OPEN"
         /\ disputes' = [disputes EXCEPT ![d].status = "ACCEPTED"]
         /\ CreditFacts(disputes[d].capture, disputes[d].amount, 0,
                        refundAllocation(disputes[d].capture, disputes[d].amount))
<1>1. /\ disputes[d] # None /\ disputes[d].status = "OPEN"
      /\ disputes' = [disputes EXCEPT ![d].status = "ACCEPTED"]
      /\ Credit(disputes[d].capture, disputes[d].amount, 0)
  BY DEF AcceptDispute, ResolveDispute
<1>2. disputes[d] \in Dispute
  BY <1>1 DEF TypeOK
<1>3. disputes[d].capture \in Posted /\ disputes[d].amount \in Nat
  BY <1>1, <1>2, CardAssumption DEF RowsSound, Posted, Dispute
<1>. QED  BY <1>1, <1>2, <1>3, CreditSound

-----------------------------------------------------------------------------
(* Types                                                                   *)

LEMMA InitTypes == Init => TypeOK
<1>. SUFFICES ASSUME Init  PROVE TypeOK
  OBVIOUS
<1>1. cash \in Balances
  BY CardAssumption DEF Init, Opened, Balances
<1>2. profile \in [mode : Mode, chosen : BOOLEAN, spending : {"ACTIVE", "FROZEN"},
                   mandate : Mandates \cup {"NONE"}]
  BY DEF Init, CreateCustomerProfile, Mode
<1>3. collateral \in [shares : Nat, sold : Nat]
  BY CardAssumption DEF Init, SeedCollateral
<1>. QED  BY <1>1, <1>2, <1>3 DEF Init, TypeOK

LEMMA CardTypes ==
  ASSUME TypeOK, CardNext
  PROVE  cards' \in [Cards -> CardRow \cup {None}]
<1>. USE DEF TypeOK
<1>1. ASSUME NEW type \in {"VIRTUAL", "PHYSICAL"}  PROVE Provisioned(type) \in CardRow
  BY DEF Provisioned, CardRow, CardStatus
<1>2. ASSUME NEW c \in Cards, cards[c] # None, NEW status \in CardStatus, NEW pin \in BOOLEAN,
             NEW event \in {"card.state.changed", "card.physical.state.changed"},
             UpdateCardState(c, status, pin, event)
      PROVE  cards' \in [Cards -> CardRow \cup {None}]
  <2>1. cards[c] \in CardRow
    BY <1>2
  <2>2. cards' = [cards EXCEPT ![c] =
                    [cards[c] EXCEPT !.status = status, !.pin = pin, !.sent = @ \cup {event}]]
    BY <1>2, <2>1 DEF UpdateCardState
  <2>3. [cards[c] EXCEPT !.status = status, !.pin = pin, !.sent = @ \cup {event}] \in CardRow
    BY <1>2, <2>1 DEF CardRow
  <2>. QED  BY <2>2, <2>3
<1>3. ASSUME NEW c \in Cards, NEW type \in {"VIRTUAL", "PHYSICAL"}, CreateCard(c, type)
      PROVE  cards' \in [Cards -> CardRow \cup {None}]
  BY <1>1, <1>3 DEF CreateCard
<1>4. ASSUME NEW c \in Cards, NEW action \in UserAction, ActOnCard(c, action)
      PROVE  cards' \in [Cards -> CardRow \cup {None}]
  <2>. DEFINE status == UserTransition(cards[c], action).to
              pin    == cards[c].pin \/ action = "SET_PIN"
  <2>1. cards[c] # None /\ UpdateCardState(c, status, pin, "card.state.changed")
    BY <1>4 DEF ActOnCard
  <2>2. cards[c] \in CardRow
    BY <2>1
  <2>3. pin \in BOOLEAN
    BY <2>2 DEF CardRow
  <2>4. status \in CardStatus
    BY <1>4 DEF UserTransition, UserAction, CardStatus
  <2>. HIDE DEF status, pin
  <2>. QED  BY <1>2, <2>1, <2>3, <2>4
<1>5. ASSUME NEW c \in Cards, NEW new \in Cards, replaceCard(c, new)
      PROVE  cards' \in [Cards -> CardRow \cup {None}]
  <2>1. cards[c] # None /\ cards[c] \in CardRow
    BY <1>5 DEF replaceCard
  <2>2. Provisioned(cards[c].type) \in CardRow
    BY <1>1, <2>1 DEF CardRow
  <2>3. [cards[c] EXCEPT !.status = "REPLACED"] \in CardRow
    BY <2>1 DEF CardRow, CardStatus
  <2>. DEFINE old == [cards EXCEPT ![c] = [cards[c] EXCEPT !.status = "REPLACED"]]
  <2>4. old \in [Cards -> CardRow \cup {None}]
    BY <2>3
  <2>5. cards' = [old EXCEPT ![new] = Provisioned(cards[c].type)]
    BY <1>5, <2>1 DEF replaceCard
  <2>. HIDE DEF old
  <2>. QED  BY <2>2, <2>4, <2>5
<1>6. ASSUME NEW c \in Cards, NEW to \in CardStatus, AdvancePhysicalCard(c, to)
      PROVE  cards' \in [Cards -> CardRow \cup {None}]
  <2>1. cards[c] # None /\ UpdateCardState(c, to, cards[c].pin, "card.physical.state.changed")
    BY <1>6 DEF AdvancePhysicalCard
  <2>2. cards[c].pin \in BOOLEAN
    BY <2>1 DEF CardRow
  <2>. QED  BY <1>2, <2>1, <2>2
<1>. QED  BY <1>3, <1>4, <1>5, <1>6 DEF CardNext

LEMMA AuthorizeTypes ==
  ASSUME TypeOK, NEW a \in Auths, NEW c \in Cards, NEW amount \in AuthAmounts,
         Authorize(a, c, amount)
  PROVE  TypeOK'
<1>1. PICK status \in {"DECLINED", "APPROVED"} :
          /\ auths' = [auths EXCEPT ![a] = [amount |-> amount, reversed |-> 0, status |-> status]]
          /\ postAuthorizationHold(IF status = "APPROVED" THEN Usd(amount) ELSE 0)
  BY DEF Authorize
<1>2. [amount |-> amount, reversed |-> 0, status |-> status] \in Authorization
  BY DEF Authorization
<1>3. auths' \in [Auths -> Authorization \cup {None}]
  BY <1>1, <1>2 DEF TypeOK
<1>4. account' \in [HELD : Int, RECEIVABLE : Int]
  <2>1. Usd(amount) \in Nat
    BY CardAssumption, UsdType
  <2>. QED  BY <1>1, <2>1 DEF TypeOK, postAuthorizationHold
<1>. QED  BY <1>3, <1>4 DEF TypeOK, Authorize

LEMMA ReverseFacts ==
  ASSUME TypeOK, NEW a \in Auths, NEW amount \in UsdAmounts, ReverseAuthorization(a, amount)
  PROVE  /\ amount \in Nat /\ OpenAuthorization(a) /\ amount =< RemainingHold(a)
         /\ auths[a] \in Authorization /\ auths'[a] \in Authorization
         /\ auths' = [auths EXCEPT ![a] = auths'[a]]
         /\ auths' \in [Auths -> Authorization \cup {None}]
         /\ auths'[a].amount = auths[a].amount
         /\ auths'[a].reversed = auths[a].reversed + amount
         /\ auths'[a].status = IF amount = RemainingHold(a) THEN "REVERSED" ELSE auths[a].status
         /\ account' = [HELD |-> account.HELD - amount, RECEIVABLE |-> account.RECEIVABLE]
<1>. DEFINE status == IF amount = RemainingHold(a) THEN "REVERSED" ELSE auths[a].status
<1>1. amount \in Nat /\ auths[a] \in Authorization /\ OpenAuthorization(a)
  BY CardAssumption DEF ReverseAuthorization, OpenAuthorization, TypeOK
<1>2. /\ UpdateAuthorizationTotals(a, status, amount)
      /\ account' = [account EXCEPT !.HELD = @ - amount]
      /\ amount =< RemainingHold(a)
  BY DEF ReverseAuthorization, releaseAuthorizationHold
<1>3. status \in {"APPROVED", "PARTIALLY_CAPTURED", "CAPTURED", "REVERSED"}
  BY <1>1 DEF OpenAuthorization
<1>4. account' = [HELD |-> account.HELD - amount, RECEIVABLE |-> account.RECEIVABLE]
  BY <1>1, <1>2 DEF TypeOK
<1>. HIDE DEF status
<1>5. /\ auths'[a] = [amount |-> auths[a].amount, reversed |-> auths[a].reversed + amount,
                      status |-> status]
      /\ auths'[a] \in Authorization
      /\ auths' = [auths EXCEPT ![a] = auths'[a]]
      /\ auths' \in [Auths -> Authorization \cup {None}]
  BY <1>1, <1>2, <1>3, TotalsUpdated
<1>6. /\ auths'[a].amount = auths[a].amount
      /\ auths'[a].reversed = auths[a].reversed + amount
      /\ auths'[a].status = status
  BY <1>5
<1>. QED  BY <1>1, <1>2, <1>4, <1>5, <1>6 DEF status

LEMMA ReverseTypes ==
  ASSUME TypeOK, NEW a \in Auths, NEW amount \in UsdAmounts, ReverseAuthorization(a, amount)
  PROVE  TypeOK'
<1>1. /\ amount \in Nat /\ auths' \in [Auths -> Authorization \cup {None}]
      /\ account' = [HELD |-> account.HELD - amount, RECEIVABLE |-> account.RECEIVABLE]
  BY ReverseFacts
<1>2. account' \in [HELD : Int, RECEIVABLE : Int]
  BY <1>1 DEF TypeOK
<1>. QED  BY <1>1, <1>2 DEF TypeOK, ReverseAuthorization

LEMMA CommitTypes ==
  ASSUME IInv, CommitCapture
  PROVE  TypeOK'
<1>1. PICK x \in Captures, a \in Auths, usd \in Nat, release \in Nat,
           sale \in [shares : Nat, proceeds : Nat], repaid \in Nat :
           CaptureFacts(x, a, usd, release, sale, repaid)
  BY CommitCaptureFacts
<1>2. TypeOK
  BY DEF IInv
<1>3. captures' \in [Captures -> Capture \cup {None}]
  <2>1. [auth |-> a, amount |-> pending.amount, released |-> release,
         repaid |-> repaid, refunded |-> 0, reduced |-> 0] \in Capture
    BY <1>1 DEF CaptureFacts, Capturing, Capture
  <2>. QED  BY <1>1, <1>2, <2>1 DEF CaptureFacts, TypeOK
<1>4. auths' \in [Auths -> Authorization \cup {None}]
  <2>1. positiveRemainder(release - usd) \in Nat
    BY DEF positiveRemainder
  <2>. QED  BY <1>1, <1>2, <2>1, TotalsUpdated DEF CaptureFacts
<1>5. account' \in [HELD : Int, RECEIVABLE : Int]
  BY <1>1, <1>2 DEF CaptureFacts, TypeOK
<1>6. cash' \in Balances
  <2>1. sale.proceeds - repaid \in Int
    OBVIOUS
  <2>. QED  BY <1>1, <1>2, <2>1, CashPosted DEF CaptureFacts, TypeOK
<1>7. collateral' \in [shares : Nat, sold : Nat]
  <2>1. /\ collateral.shares \in Nat /\ collateral.sold \in Nat /\ sale.shares \in Nat
        /\ sale.proceeds \in Nat /\ sale.shares =< collateral.shares
    BY <1>1, <1>2 DEF CaptureFacts, TypeOK
  <2>2. collateral.shares - sale.shares \in Nat /\ collateral.sold + sale.proceeds \in Nat
    BY <2>1
  <2>. QED  BY <1>1, <1>2, <2>2 DEF CaptureFacts, TypeOK
<1>8. profile' \in [mode : Mode, chosen : BOOLEAN, spending : {"ACTIVE", "FROZEN"},
                    mandate : Mandates \cup {"NONE"}]
  BY <1>1, <1>2 DEF CaptureFacts, TypeOK
<1>9. pending' = None /\ UNCHANGED <<cards, disputes, statements, elsewhere>>
  BY <1>1 DEF CaptureFacts
<1>. QED  BY <1>2, <1>3, <1>4, <1>5, <1>6, <1>7, <1>8, <1>9 DEF TypeOK

LEMMA CreditTypes ==
  ASSUME TypeOK, NEW x, NEW usd, NEW refunded \in Nat, NEW reduction,
         CreditFacts(x, usd, refunded, reduction)
  PROVE  /\ captures'[x] \in Capture
         /\ captures' \in [Captures -> Capture \cup {None}]
         /\ account' \in [HELD : Int, RECEIVABLE : Int]
         /\ cash' \in Balances
<1>1. x \in Captures /\ captures[x] \in Capture /\ usd \in Nat /\ reduction \in Nat
  BY DEF CreditFacts, Posted, TypeOK
<1>2. captures'[x] \in Capture
  BY <1>1 DEF CreditFacts, Capture
<1>3. captures' = [captures EXCEPT ![x] = captures'[x]]
  BY DEF CreditFacts
<1>4. captures' \in [Captures -> Capture \cup {None}]
  BY <1>1, <1>2, <1>3 DEF TypeOK
<1>5. cash' \in Balances
  <2>1. usd - reduction \in Int
    BY <1>1
  <2>. QED  BY <2>1, CashPosted DEF CreditFacts, TypeOK
<1>6. account' \in [HELD : Int, RECEIVABLE : Int]
  BY <1>1 DEF CreditFacts, TypeOK
<1>. QED  BY <1>2, <1>4, <1>5, <1>6

LEMMA SettingsTypes ==
  ASSUME TypeOK, SettingsNext
  PROVE  TypeOK'
<1>1. ASSUME NEW mode \in Modes, ConfigureRepayment(mode)  PROVE TypeOK'
  BY <1>1 DEF ConfigureRepayment, UpdateRepaymentMode, TypeOK, Mode
<1>2. ASSUME NEW mandate \in Mandates, ConfigureAutoSellMandate(mandate)  PROVE TypeOK'
  BY <1>2 DEF ConfigureAutoSellMandate, UpsertAutoSellMandate, TypeOK
<1>3. ASSUME NEW move \in CashMoves, Elsewhere(move)  PROVE TypeOK'
  <2>1. \A d \in DOMAIN move : move[d] \in Int
    BY CardAssumption
  <2>2. Post(cash, move) \in Balances
    BY <2>1 DEF Post, Balances, TypeOK
  <2>. QED  BY <1>3, <2>2 DEF Elsewhere, TypeOK
<1>. QED  BY <1>1, <1>2, <1>3 DEF SettingsNext

LEMMA CreditNextTypes ==
  ASSUME TypeOK, PendingSound, RowsSound, CreditNext
  PROVE  TypeOK'
<1>1. ASSUME NEW x \in Captures, NEW usd \in UsdAmounts, Refund(x, usd)  PROVE TypeOK'
  <2>1. usd \in Nat
    BY CardAssumption
  <2>2. /\ captures' \in [Captures -> Capture \cup {None}]
        /\ account' \in [HELD : Int, RECEIVABLE : Int]
        /\ cash' \in Balances
    BY <1>1, <2>1, RefundFacts, CreditTypes
  <2>. QED  BY <1>1, <2>2 DEF Refund, TypeOK
<1>2. ASSUME NEW d \in Disputes, NEW x \in Captures, NEW usd \in UsdAmounts, OpenDispute(d, x, usd)
      PROVE  TypeOK'
  <2>1. [capture |-> x, amount |-> usd, status |-> "OPEN"] \in Dispute
    BY DEF Dispute
  <2>. QED  BY <1>2, <2>1 DEF OpenDispute, TypeOK
<1>3. ASSUME NEW d \in Disputes, RejectDispute(d)  PROVE TypeOK'
  <2>1. disputes[d] \in Dispute /\ disputes' = [disputes EXCEPT ![d].status = "REJECTED"]
    BY <1>3 DEF RejectDispute, ResolveDispute, TypeOK
  <2>2. disputes' \in [Disputes -> Dispute \cup {None}]
    BY <2>1 DEF Dispute, TypeOK
  <2>. QED  BY <1>3, <2>2 DEF RejectDispute, TypeOK
<1>4. ASSUME NEW d \in Disputes, AcceptDispute(d)  PROVE TypeOK'
  <2>1. /\ disputes[d] \in Dispute /\ disputes' = [disputes EXCEPT ![d].status = "ACCEPTED"]
        /\ CreditFacts(disputes[d].capture, disputes[d].amount, 0,
                       refundAllocation(disputes[d].capture, disputes[d].amount))
    BY <1>4, DisputeFacts
  <2>2. /\ captures' \in [Captures -> Capture \cup {None}]
        /\ account' \in [HELD : Int, RECEIVABLE : Int]
        /\ cash' \in Balances
    BY <2>1, CreditTypes
  <2>3. disputes' \in [Disputes -> Dispute \cup {None}]
    BY <2>1 DEF Dispute, TypeOK
  <2>. QED  BY <1>4, <2>2, <2>3 DEF AcceptDispute, TypeOK
<1>5. ASSUME NEW s \in Statements, GenerateStatement(s)  PROVE TypeOK'
  <2>1. positiveRemainder(account.RECEIVABLE) \in Nat
    BY DEF positiveRemainder, TypeOK
  <2>2. [due |-> positiveRemainder(account.RECEIVABLE), status |-> "OPEN"] \in Statement
    BY <2>1 DEF Statement
  <2>. QED  BY <1>5, <2>2 DEF GenerateStatement, TypeOK
<1>6. ASSUME NEW s \in Statements, BeginPayment(s)  PROVE TypeOK'
  BY <1>6 DEF BeginPayment, TypeOK
<1>7. ASSUME CommitPayment  PROVE TypeOK'
  <2>1. /\ pending \in Statements /\ statements[pending] \in Statement
        /\ statements' = [statements EXCEPT ![pending].status = "PAID"]
        /\ account' = [account EXCEPT !.RECEIVABLE = @ - statements[pending].due]
        /\ cash' = Post(cash, SettledEntries(-statements[pending].due))
    BY <1>7 DEF CommitPayment, PendingSound, TypeOK, MarkStatementPaid, postStatementRepayment
  <2>2. statements[pending].due \in Int /\ -statements[pending].due \in Int
    BY <2>1 DEF Statement
  <2>3. statements' \in [Statements -> Statement \cup {None}]
    BY <2>1 DEF Statement, TypeOK
  <2>4. cash' \in Balances
    BY <2>1, <2>2, CashPosted DEF TypeOK
  <2>5. account' \in [HELD : Int, RECEIVABLE : Int]
    BY <2>1, <2>2 DEF TypeOK
  <2>. QED  BY <1>7, <2>3, <2>4, <2>5 DEF CommitPayment, TypeOK
<1>. QED  BY <1>1, <1>2, <1>3, <1>4, <1>5, <1>6, <1>7 DEF CreditNext

LEMMA TypesKept ==
  ASSUME IInv, Next
  PROVE  TypeOK'
<1>1. TypeOK /\ PendingSound /\ RowsSound
  BY DEF IInv
<1>2. CASE CardNext
  <2>1. cards' \in [Cards -> CardRow \cup {None}]
    BY <1>1, <1>2, CardTypes
  <2>2. UNCHANGED <<auths, captures, disputes, statements, profile, cash, account, collateral,
                   pending, elsewhere>>
    BY <1>2 DEF CardNext, CreateCard, ActOnCard, replaceCard, AdvancePhysicalCard
  <2>. QED  BY <1>1, <2>1, <2>2 DEF TypeOK
<1>3. CASE AuthorizationNext
  <2>1. ASSUME NEW x \in Captures, NEW a \in Auths, NEW amount \in CaptureAmounts,
               NEW final \in BOOLEAN, BeginCapture(x, a, amount, final)
        PROVE  TypeOK'
    <3>. DEFINE eligible == IF profile.mode = "MONTHLY_STATEMENT" THEN 0
                            ELSE minimum(Usd(amount), CashEligible)
                whole    == final \/ Captured(a) + amount >= auths[a].amount
    <3>1. eligible \in Nat
      <4>1. Usd(amount) \in Nat /\ CashEligible \in Nat
        BY <1>1, CardAssumption, UsdType, CashFacts
      <4>. QED  BY <4>1 DEF minimum
    <3>2. whole \in BOOLEAN
      OBVIOUS
    <3>3. pending' = [capture |-> x, auth |-> a, amount |-> amount, final |-> whole,
                      cash |-> eligible]
      BY <2>1 DEF BeginCapture
    <3>. HIDE DEF eligible, whole
    <3>4. pending' \in Capturing
      BY <3>1, <3>2, <3>3 DEF Capturing
    <3>. QED  BY <1>1, <2>1, <3>4 DEF BeginCapture, TypeOK
  <2>2. ASSUME Rollback  PROVE TypeOK'
    BY <1>1, <2>2 DEF Rollback, TypeOK
  <2>. QED
    BY <1>1, <1>3, <2>1, <2>2, AuthorizeTypes, ReverseTypes, CommitTypes DEF AuthorizationNext
<1>4. CASE CreditNext
  BY <1>1, <1>4, CreditNextTypes
<1>5. CASE SettingsNext
  BY <1>1, <1>5, SettingsTypes
<1>. QED  BY <1>2, <1>3, <1>4, <1>5 DEF Next

-----------------------------------------------------------------------------
(* Rows, and the transaction under way                                     *)

LEMMA InitRows == Init => PendingSound /\ RowsSound
BY AbsentRows DEF Init, PendingSound, RowsSound, Posted, CreateCustomerProfile

LEMMA PendingKept ==
  ASSUME IInv, Next, TypeOK'
  PROVE  PendingSound'
<1>1. TypeOK /\ PendingSound
  BY DEF IInv
<1>2. CASE pending' = None
  BY <1>2, AbsentRows DEF PendingSound
<1>3. CASE UNCHANGED <<pending, captures, auths, statements>>
  BY <1>1, <1>3 DEF PendingSound, OpenAuthorization, Usd
<1>4. ASSUME NEW x \in Captures, NEW a \in Auths, NEW amount \in CaptureAmounts,
             NEW final \in BOOLEAN, BeginCapture(x, a, amount, final)
      PROVE  PendingSound'
  <2>1. /\ captures[x] = None /\ OpenAuthorization(a)
        /\ UNCHANGED <<captures, auths>>
    BY <1>4 DEF BeginCapture
  <2>2. pending'.capture = x /\ pending'.auth = a /\ pending'.amount = amount
    BY <1>4 DEF BeginCapture
  <2>3. pending'.cash =< Usd(amount)
    <3>1. Usd(amount) \in Nat /\ CashEligible \in Nat
      BY <1>1, CardAssumption, UsdType, CashFacts
    <3>2. pending'.cash = 0 \/ pending'.cash = minimum(Usd(amount), CashEligible)
      BY <1>4 DEF BeginCapture
    <3>. QED  BY <3>1, <3>2 DEF minimum
  <2>4. pending' \in Capturing
    <3>1. IF profile.mode = "MONTHLY_STATEMENT" THEN TRUE ELSE CashEligible \in Nat
      BY <1>1, CashFacts
    <3>2. Usd(amount) \in Nat
      BY CardAssumption, UsdType
    <3>. DEFINE n == IF profile.mode = "MONTHLY_STATEMENT" THEN 0
                     ELSE minimum(Usd(amount), CashEligible)
                f == final \/ Captured(a) + amount >= auths[a].amount
    <3>3. n \in Nat /\ f \in BOOLEAN
      BY <3>1, <3>2 DEF minimum
    <3>4. pending' = [capture |-> x, auth |-> a, amount |-> amount, final |-> f, cash |-> n]
      BY <1>4 DEF BeginCapture
    <3>. HIDE DEF n, f
    <3>. QED  BY <3>3, <3>4 DEF Capturing
  <2>5. pending' \notin Statements
    BY <2>4, RowAssumption
  <2>. QED  BY <2>1, <2>2, <2>3, <2>5 DEF PendingSound, OpenAuthorization, Usd
<1>5. ASSUME NEW s \in Statements, BeginPayment(s)
      PROVE  PendingSound'
  <2>1. /\ pending' = s /\ statements[s] # None /\ statements[s].status = "OPEN"
        /\ UNCHANGED statements
    BY <1>5 DEF BeginPayment
  <2>2. pending' \notin Capturing
    BY <2>1, RowAssumption
  <2>. QED  BY <2>1, <2>2 DEF PendingSound
<1>6. CASE CardNext
  <2>1. UNCHANGED <<pending, captures, auths, statements>>
    BY <1>6 DEF CardNext, CreateCard, ActOnCard, replaceCard, AdvancePhysicalCard
  <2>. QED  BY <1>3, <2>1
<1>7. CASE AuthorizationNext
  BY <1>2, <1>4, <1>7 DEF AuthorizationNext, Authorize, ReverseAuthorization, CommitCapture,
     Rollback, ProfileFree
<1>8. CASE CreditNext
  BY <1>2, <1>5, <1>8 DEF CreditNext, Refund, OpenDispute, RejectDispute, AcceptDispute,
     GenerateStatement, CommitPayment, ProfileFree
<1>9. CASE SettingsNext
  BY <1>3, <1>9 DEF SettingsNext, ConfigureRepayment, ConfigureAutoSellMandate, Elsewhere
<1>. QED  BY <1>6, <1>7, <1>8, <1>9 DEF Next

(* What a row is about stays what it is about. *)
AuthsStay    == \A a \in Auths : auths[a] # None => auths'[a] # None
CapturesStay == \A x \in Posted : x \in Posted' /\ captures'[x].auth = captures[x].auth

LEMMA CreditStays ==
  ASSUME TypeOK, NEW x, NEW usd, NEW refunded \in Nat, NEW reduction,
         CreditFacts(x, usd, refunded, reduction)
  PROVE  CapturesStay /\ Posted' = Posted
<1>1. x \in Posted /\ captures'[x].auth = captures[x].auth
  BY DEF CreditFacts
<1>2. \A y \in Captures \ {x} : captures'[y] = captures[y]
  BY DEF CreditFacts, TypeOK
<1>3. captures'[x] # None
  <2>1. captures'[x] \in Capture
    BY CreditTypes
  <2>. QED  BY <2>1, AbsentRows
<1>. QED  BY <1>1, <1>2, <1>3 DEF CapturesStay, Posted

LEMMA RowsKept ==
  ASSUME IInv, Next, TypeOK'
  PROVE  RowsSound'
<1>1. TypeOK /\ PendingSound /\ RowsSound
  BY DEF IInv
<1>2. ASSUME AuthsStay, CapturesStay, Posted' = Posted,
             UNCHANGED <<disputes, profile>>
      PROVE  RowsSound'
  <2>1. \A y \in Posted : captures[y].auth \in Auths
    BY <1>1 DEF TypeOK, Posted, Capture
  <2>2. \A d \in Disputes : disputes[d] # None => disputes[d].capture \in Captures
    BY <1>1 DEF TypeOK, Dispute
  <2>. QED  BY <1>1, <1>2, <2>1, <2>2 DEF RowsSound, AuthsStay, CapturesStay, Posted
<1>3. ASSUME UNCHANGED <<auths, captures, disputes>>,
             ~profile'.chosen => profile'.mode = "CASH_ONLY"
      PROVE  RowsSound'
  BY <1>1, <1>3 DEF RowsSound, Posted
<1>4. CASE CardNext
  <2>1. UNCHANGED <<auths, captures, disputes, profile>>
    BY <1>4 DEF CardNext, CreateCard, ActOnCard, replaceCard, AdvancePhysicalCard
  <2>. QED  BY <1>1, <1>3, <2>1 DEF RowsSound
<1>5. CASE AuthorizationNext
  <2>1. ASSUME NEW a \in Auths, NEW c \in Cards, NEW amount \in AuthAmounts,
               Authorize(a, c, amount)
        PROVE  RowsSound'
    <3>1. PICK status \in {"DECLINED", "APPROVED"} :
            auths' = [auths EXCEPT ![a] = [amount |-> amount, reversed |-> 0, status |-> status]]
      BY <2>1 DEF Authorize
    <3>2. [amount |-> amount, reversed |-> 0, status |-> status] \in Authorization
      BY DEF Authorization
    <3>3. AuthsStay
      BY <1>1, <3>1, <3>2, AbsentRows DEF AuthsStay, TypeOK
    <3>4. UNCHANGED <<captures, disputes, profile>>
      BY <2>1 DEF Authorize
    <3>. QED  BY <1>2, <3>3, <3>4 DEF CapturesStay, Posted
  <2>2. ASSUME NEW a \in Auths, NEW amount \in UsdAmounts, ReverseAuthorization(a, amount)
        PROVE  RowsSound'
    <3>1. auths' = [auths EXCEPT ![a] = auths'[a]] /\ auths'[a] \in Authorization
      BY <1>1, <2>2, ReverseFacts
    <3>2. AuthsStay
      BY <1>1, <3>1, AbsentRows DEF AuthsStay, TypeOK
    <3>3. UNCHANGED <<captures, disputes, profile>>
      BY <2>2 DEF ReverseAuthorization
    <3>. QED  BY <1>2, <3>2, <3>3 DEF CapturesStay, Posted
  <2>3. ASSUME NEW x \in Captures, NEW a \in Auths, NEW amount \in CaptureAmounts,
               NEW final \in BOOLEAN, BeginCapture(x, a, amount, final)
        PROVE  RowsSound'
    BY <1>1, <1>3, <2>3 DEF BeginCapture, RowsSound
  <2>4. CASE Rollback
    BY <1>1, <1>3, <2>4 DEF Rollback, RowsSound
  <2>5. CASE CommitCapture
    <3>1. PICK x \in Captures, a \in Auths, usd \in Nat, release \in Nat,
               sale \in [shares : Nat, proceeds : Nat], repaid \in Nat :
               CaptureFacts(x, a, usd, release, sale, repaid)
      BY <2>5, CommitCaptureFacts
    <3>2. auths' = [auths EXCEPT ![a] = auths'[a]] /\ auths'[a] \in Authorization
      <4>1. positiveRemainder(release - usd) \in Nat
        BY DEF positiveRemainder
      <4>. QED  BY <1>1, <3>1, <4>1, TotalsUpdated DEF CaptureFacts
    <3>3. AuthsStay /\ auths'[a] # None
      BY <1>1, <3>2, AbsentRows DEF AuthsStay, TypeOK
    <3>4. /\ captures'[x].auth = a /\ \A y \in Captures \ {x} : captures'[y] = captures[y]
      BY <1>1, <3>1 DEF CaptureFacts, TypeOK
    <3>5. \A y \in Posted' : captures'[y].auth \in Auths /\ auths'[captures'[y].auth] # None
      <4>1. \A y \in Posted : captures[y].auth \in Auths
        BY <1>1 DEF TypeOK, Posted, Capture
      <4>. QED  BY <1>1, <3>3, <3>4, <4>1 DEF Posted, RowsSound, AuthsStay
    <3>6. \A y \in Captures : captures[y] # None => captures'[y] # None
      BY <3>1, <3>4 DEF CaptureFacts
    <3>7. \A d \in Disputes : disputes[d] # None => disputes[d].capture \in Captures
      BY <1>1 DEF TypeOK, Dispute
    <3>8. /\ disputes' = disputes /\ profile'.chosen = profile.chosen
          /\ profile'.mode = profile.mode
      BY <1>1, <3>1 DEF CaptureFacts, TypeOK
    <3>. QED  BY <1>1, <3>5, <3>6, <3>7, <3>8 DEF RowsSound
  <2>. QED  BY <1>5, <2>1, <2>2, <2>3, <2>4, <2>5 DEF AuthorizationNext
<1>6. CASE CreditNext
  <2>1. ASSUME NEW x \in Captures, NEW usd \in UsdAmounts, Refund(x, usd)
        PROVE  RowsSound'
    <3>1. usd \in Nat /\ CreditFacts(x, usd, usd, refundAllocation(x, usd))
      BY <1>1, <2>1, RefundFacts, CardAssumption
    <3>2. CapturesStay /\ Posted' = Posted
      BY <1>1, <3>1, CreditStays
    <3>. QED  BY <1>2, <2>1, <3>2 DEF Refund, AuthsStay
  <2>2. ASSUME NEW d \in Disputes, NEW x \in Captures, NEW usd \in UsdAmounts,
               OpenDispute(d, x, usd)
        PROVE  RowsSound'
    BY <1>1, <2>2 DEF OpenDispute, RowsSound, Posted, TypeOK
  <2>3. ASSUME NEW d \in Disputes, disputes[d] \in Dispute, CapturesStay, Posted' = Posted,
               NEW status, disputes' = [disputes EXCEPT ![d].status = status],
               UNCHANGED <<auths, profile>>
        PROVE  RowsSound'
    <3>1. /\ \A e \in Disputes : disputes[e] # None => disputes[e].capture \in Captures
          /\ \A y \in Posted : captures[y].auth \in Auths
      BY <1>1 DEF TypeOK, Dispute, Posted, Capture
    <3>2. /\ disputes'[d].capture = disputes[d].capture /\ disputes[d] # None
          /\ \A e \in Disputes \ {d} : disputes'[e] = disputes[e]
      BY <1>1, <2>3, AbsentRows DEF TypeOK, Dispute
    <3>. QED  BY <1>1, <2>3, <3>1, <3>2 DEF RowsSound, CapturesStay, Posted
  <2>4. ASSUME NEW d \in Disputes, RejectDispute(d)  PROVE RowsSound'
    BY <1>1, <2>3, <2>4 DEF RejectDispute, ResolveDispute, CapturesStay, Posted, TypeOK
  <2>5. ASSUME NEW d \in Disputes, AcceptDispute(d)  PROVE RowsSound'
    <3>1. /\ disputes[d] \in Dispute /\ disputes' = [disputes EXCEPT ![d].status = "ACCEPTED"]
          /\ CreditFacts(disputes[d].capture, disputes[d].amount, 0,
                         refundAllocation(disputes[d].capture, disputes[d].amount))
      BY <1>1, <2>5, DisputeFacts
    <3>2. CapturesStay /\ Posted' = Posted
      BY <1>1, <3>1, CreditStays
    <3>. QED  BY <2>3, <2>5, <3>1, <3>2 DEF AcceptDispute
  <2>6. ASSUME UNCHANGED <<auths, captures, disputes, profile>>  PROVE RowsSound'
    BY <1>1, <1>3, <2>6 DEF RowsSound
  <2>. QED
    BY <1>6, <2>1, <2>2, <2>4, <2>5, <2>6 DEF CreditNext, GenerateStatement, BeginPayment,
       CommitPayment
<1>7. CASE SettingsNext
  <2>1. ASSUME NEW mode \in Modes, ConfigureRepayment(mode)  PROVE RowsSound'
    BY <1>1, <1>3, <2>1 DEF ConfigureRepayment, UpdateRepaymentMode, TypeOK
  <2>2. ASSUME NEW mandate \in Mandates, ConfigureAutoSellMandate(mandate)  PROVE RowsSound'
    BY <1>1, <1>3, <2>2 DEF ConfigureAutoSellMandate, UpsertAutoSellMandate, TypeOK, RowsSound
  <2>3. ASSUME NEW move \in CashMoves, Elsewhere(move)  PROVE RowsSound'
    BY <1>1, <1>3, <2>3 DEF Elsewhere, RowsSound
  <2>. QED  BY <1>7, <2>1, <2>2, <2>3 DEF SettingsNext
<1>. QED  BY <1>4, <1>5, <1>6, <1>7 DEF Next

-----------------------------------------------------------------------------
(* Holds                                                                   *)

(* A step that changes one authorization and what was released of it moves *)
(* the account by what that authorization holds now instead.               *)
LEMMA HoldsMove ==
  ASSUME TypeOK, TypeOK', HoldsExplained, NEW b \in Auths,
         \A a \in Auths \ {b} : auths'[a] = auths[a] /\ Released(a)' = Released(a),
         b \in Open' => RemainingHold(b)' >= 0,
         account'.HELD = account.HELD - (IF b \in Open THEN RemainingHold(b) ELSE 0)
                                      + (IF b \in Open' THEN RemainingHold(b)' ELSE 0)
  PROVE  HoldsExplained'
<1>. DEFINE f == [a \in Open |-> RemainingHold(a)]
            g == [a \in Open' |-> RemainingHold(a)']
<1>1. IsFiniteSet(Open) /\ IsFiniteSet(Open')
  BY CardAssumption, FS_Subset DEF Open
<1>2. f \in [Open -> Int] /\ g \in [Open' -> Int]
  BY SumTypes, SumTypesNext DEF SumsTyped, Open, OpenAuthorization
<1>3. \A a \in Auths \ {b} : RemainingHold(a)' = RemainingHold(a)
  BY DEF RemainingHold, Usd
<1>4. Open \ {b} = Open' \ {b}
  BY DEF Open, OpenAuthorization
<1>5. \A a \in Open \ {b} : f[a] = g[a]
  BY <1>3, <1>4 DEF Open
<1>6. SumFunction(g) = SumFunction(f) - (IF b \in Open THEN f[b] ELSE 0)
                                      + (IF b \in Open' THEN g[b] ELSE 0)
  <2>. HIDE DEF f, g
  <2>. QED  BY <1>1, <1>2, <1>4, <1>5, SumMoved
<1>7. account.HELD = SumFunction(f) /\ \A a \in Open : RemainingHold(a) >= 0
  BY DEF HoldsExplained
<1>8. account'.HELD = SumFunction(g)
  <2>1. (b \in Open => f[b] = RemainingHold(b)) /\ (b \in Open' => g[b] = RemainingHold(b)')
    OBVIOUS
  <2>. HIDE DEF f, g
  <2>. QED  BY <1>6, <1>7, <2>1
<1>9. \A a \in Open' : RemainingHold(a)' >= 0
  BY <1>3, <1>4, <1>7 DEF Open
<1>. QED  BY <1>8, <1>9 DEF HoldsExplained

(* Holds stay as they are when rows of captures keep what they released. *)
LEMMA HoldsStay ==
  ASSUME HoldsExplained, auths' = auths, account'.HELD = account.HELD,
         \A a \in Auths : Released(a)' = Released(a)
  PROVE  HoldsExplained'
<1>1. Open' = Open /\ \A a \in Auths : RemainingHold(a)' = RemainingHold(a)
  BY DEF Open, OpenAuthorization, RemainingHold, Usd
<1>2. [a \in Open |-> RemainingHold(a)]' = [a \in Open |-> RemainingHold(a)]
  BY <1>1 DEF Open
<1>. QED  BY <1>1, <1>2 DEF HoldsExplained, Open

LEMMA CreditReleases ==
  ASSUME TypeOK, NEW x, NEW usd, NEW refunded \in Nat, NEW reduction,
         CreditFacts(x, usd, refunded, reduction)
  PROVE  \A a \in Auths : Released(a)' = Released(a)
<1>1. /\ x \in Posted /\ captures'[x].auth = captures[x].auth
      /\ captures'[x].released = captures[x].released
      /\ \A y \in Captures \ {x} : captures'[y] = captures[y]
  BY DEF CreditFacts, TypeOK
<1>2. Posted' = Posted
  BY CreditStays
<1>3. ASSUME NEW a \in Auths  PROVE Released(a)' = Released(a)
  <2>1. CapturesOf(a)' = CapturesOf(a)
    BY <1>1, <1>2 DEF CapturesOf, Posted
  <2>2. \A y \in CapturesOf(a) : captures'[y].released = captures[y].released
    BY <1>1 DEF CapturesOf
  <2>. QED  BY <2>1, <2>2 DEF Released
<1>. QED  BY <1>3

(* What a capture releases counts as released of its authorization. *)
LEMMA CaptureReleases ==
  ASSUME TypeOK, NEW x \in Captures, NEW a \in Auths, NEW usd \in Nat, NEW release \in Nat,
         NEW sale, NEW repaid \in Nat, CaptureFacts(x, a, usd, release, sale, repaid)
  PROVE  /\ Released(a)' = Released(a) + release
         /\ \A b \in Auths \ {a} : Released(b)' = Released(b)
<1>1. /\ captures[x] = None
      /\ captures'[x] = [auth |-> a, amount |-> pending.amount, released |-> release,
                         repaid |-> repaid, refunded |-> 0, reduced |-> 0]
      /\ \A y \in Captures \ {x} : captures'[y] = captures[y]
  BY DEF CaptureFacts, TypeOK
<1>2. captures'[x] # None
  <2>1. captures'[x] \in Capture
    BY <1>1, CardAssumption DEF CaptureFacts, Capture, Capturing
  <2>. QED  BY <2>1, AbsentRows
<1>3. ASSUME NEW b \in Auths \ {a}  PROVE Released(b)' = Released(b)
  <2>1. CapturesOf(b)' = CapturesOf(b)
    BY <1>1, <1>2 DEF CapturesOf
  <2>2. \A y \in CapturesOf(b) : captures'[y].released = captures[y].released
    BY <1>1 DEF CapturesOf
  <2>. QED  BY <2>1, <2>2 DEF Released
<1>4. Released(a)' = Released(a) + release
  <2>. DEFINE f == [y \in CapturesOf(a) |-> captures[y].released]
              g == [y \in CapturesOf(a)' |-> captures'[y].released]
  <2>1. CapturesOf(a)' = CapturesOf(a) \cup {x} /\ x \notin CapturesOf(a)
    BY <1>1, <1>2 DEF CapturesOf
  <2>2. IsFiniteSet(CapturesOf(a)) /\ IsFiniteSet(CapturesOf(a)')
    BY CardAssumption, FS_Subset DEF CapturesOf
  <2>3. f \in [CapturesOf(a) -> Int]
    BY DEF CapturesOf, TypeOK, Capture
  <2>4. g \in [CapturesOf(a)' -> Int]
    BY <1>1, <2>1, <2>3 DEF CapturesOf
  <2>5. \A y \in CapturesOf(a) \ {x} : f[y] = g[y]
    BY <1>1, <2>1 DEF CapturesOf
  <2>6. x \in CapturesOf(a)' /\ g[x] = release
    BY <1>1, <2>1
  <2>7. CapturesOf(a) \ {x} = CapturesOf(a)' \ {x}
    BY <2>1
  <2>8. /\ SumFunction(g) = SumFunction(f) - (IF x \in CapturesOf(a) THEN f[x] ELSE 0)
                                + (IF x \in CapturesOf(a)' THEN g[x] ELSE 0)
        /\ SumFunction(f) \in Int
    <3>. HIDE DEF f, g
    <3>. QED  BY <2>2, <2>3, <2>4, <2>5, <2>7, SumMoved
  <2>9. SumFunction(g) = SumFunction(f) + release
    <3>. HIDE DEF f, g
    <3>. QED  BY <2>1, <2>6, <2>8
  <2>. QED  BY <2>9 DEF Released
<1>. QED  BY <1>3, <1>4

LEMMA AuthorizeHolds ==
  ASSUME IInv, TypeOK', NEW a \in Auths, NEW c \in Cards, NEW amount \in AuthAmounts,
         Authorize(a, c, amount)
  PROVE  HoldsExplained'
<1>1. TypeOK /\ RowsSound /\ HoldsExplained /\ auths[a] = None /\ captures' = captures
  BY DEF IInv, Authorize
<1>2. PICK status \in {"DECLINED", "APPROVED"} :
        /\ auths' = [auths EXCEPT ![a] = [amount |-> amount, reversed |-> 0, status |-> status]]
        /\ postAuthorizationHold(IF status = "APPROVED" THEN Usd(amount) ELSE 0)
  BY DEF Authorize
<1>3. amount \in Nat /\ Usd(amount) \in Nat
  BY CardAssumption, UsdType
<1>4. /\ auths'[a] = [amount |-> amount, reversed |-> 0, status |-> status]
      /\ \A b \in Auths \ {a} : auths'[b] = auths[b]
  BY <1>1, <1>2 DEF TypeOK
<1>5. auths'[a] # None
  <2>1. auths'[a] \in Authorization
    BY <1>4 DEF Authorization
  <2>. QED  BY <2>1, AbsentRows
<1>6. \A b \in Auths : Released(b)' = Released(b)
  BY <1>1 DEF Released, CapturesOf
<1>7. Released(a) = 0
  <2>1. CapturesOf(a) = {}
    BY <1>1 DEF RowsSound, CapturesOf, Posted
  <2>. QED  BY <2>1, SumOfNone DEF Released
<1>8. RemainingHold(a)' = Usd(amount)
  BY <1>3, <1>4, <1>6, <1>7 DEF RemainingHold, Usd
<1>9. a \notin Open /\ (a \in Open' <=> status = "APPROVED")
  BY <1>1, <1>4, <1>5 DEF Open, OpenAuthorization
<1>10. account'.HELD = account.HELD + (IF status = "APPROVED" THEN Usd(amount) ELSE 0)
  BY <1>1, <1>2, <1>3 DEF postAuthorizationHold, TypeOK
<1>11. account.HELD \in Int
  BY <1>1 DEF TypeOK
<1>12. account'.HELD = account.HELD - (IF a \in Open THEN RemainingHold(a) ELSE 0)
                                    + (IF a \in Open' THEN RemainingHold(a)' ELSE 0)
  BY <1>3, <1>8, <1>9, <1>10, <1>11
<1>. QED  BY <1>1, <1>3, <1>4, <1>6, <1>8, <1>12, HoldsMove

LEMMA ReverseHolds ==
  ASSUME IInv, TypeOK', NEW a \in Auths, NEW amount \in UsdAmounts,
         ReverseAuthorization(a, amount)
  PROVE  HoldsExplained'
<1>1. TypeOK /\ HoldsExplained /\ captures' = captures
  BY DEF IInv, ReverseAuthorization
<1>2. /\ amount \in Nat /\ OpenAuthorization(a) /\ amount =< RemainingHold(a)
      /\ auths[a] \in Authorization /\ auths'[a] \in Authorization
      /\ auths' = [auths EXCEPT ![a] = auths'[a]]
      /\ auths'[a].amount = auths[a].amount
      /\ auths'[a].reversed = auths[a].reversed + amount
      /\ auths'[a].status = IF amount = RemainingHold(a) THEN "REVERSED" ELSE auths[a].status
      /\ account' = [HELD |-> account.HELD - amount, RECEIVABLE |-> account.RECEIVABLE]
  BY <1>1, ReverseFacts
<1>3. \A b \in Auths : Released(b)' = Released(b)
  BY <1>1 DEF Released, CapturesOf
<1>4. \A b \in Auths \ {a} : auths'[b] = auths[b]
  BY <1>1, <1>2 DEF TypeOK
<1>5. /\ auths[a].reversed \in Nat /\ Usd(auths[a].amount) \in Nat /\ Released(a) \in Nat
      /\ account.HELD \in Int
  BY <1>1, <1>2, UsdType, SumTypes, CardAssumption DEF SumsTyped, Authorization, TypeOK
<1>6. RemainingHold(a)' = RemainingHold(a) - amount
  BY <1>2, <1>3, <1>5 DEF RemainingHold, Usd
<1>7. RemainingHold(a) \in Int
  BY <1>5 DEF RemainingHold
<1>8. a \in Open /\ (a \in Open' <=> amount # RemainingHold(a))
  <2>1. auths'[a] # None
    BY <1>2, AbsentRows
  <2>. QED  BY <1>2, <2>1 DEF Open, OpenAuthorization
<1>9. account'.HELD = account.HELD - amount
  BY <1>2
<1>10. /\ a \in Open' => RemainingHold(a)' >= 0
       /\ account'.HELD = account.HELD - (IF a \in Open THEN RemainingHold(a) ELSE 0)
                                       + (IF a \in Open' THEN RemainingHold(a)' ELSE 0)
  BY <1>2, <1>5, <1>6, <1>7, <1>8, <1>9
<1>. QED  BY <1>1, <1>3, <1>4, <1>10, HoldsMove

LEMMA CaptureHolds ==
  ASSUME IInv, TypeOK', CommitCapture
  PROVE  HoldsExplained'
<1>1. TypeOK /\ HoldsExplained
  BY DEF IInv
<1>2. PICK x \in Captures, a \in Auths, usd \in Nat, release \in Nat,
           sale \in [shares : Nat, proceeds : Nat], repaid \in Nat :
           CaptureFacts(x, a, usd, release, sale, repaid)
  BY CommitCaptureFacts
<1>. DEFINE more   == positiveRemainder(release - usd)
            status == IF pending.final THEN "CAPTURED" ELSE "PARTIALLY_CAPTURED"
<1>3. /\ auths[a] \in Authorization /\ OpenAuthorization(a)
      /\ release =< RemainingHold(a)
      /\ IF pending.final THEN release = RemainingHold(a) ELSE release =< usd
      /\ UpdateAuthorizationTotals(a, status, more)
      /\ account'.HELD = account.HELD - release
  BY <1>2 DEF CaptureFacts
<1>4. more \in Nat /\ (release =< usd => more = 0)
  BY DEF positiveRemainder
<1>5. /\ auths'[a] = [amount |-> auths[a].amount, reversed |-> auths[a].reversed + more,
                      status |-> status]
      /\ auths'[a] \in Authorization /\ auths' = [auths EXCEPT ![a] = auths'[a]]
  <2>1. status \in {"APPROVED", "PARTIALLY_CAPTURED", "CAPTURED", "REVERSED"}
    OBVIOUS
  <2>. HIDE DEF status, more
  <2>. QED  BY <1>1, <1>3, <1>4, <2>1, TotalsUpdated
<1>6. \A b \in Auths \ {a} : auths'[b] = auths[b]
  BY <1>1, <1>5 DEF TypeOK
<1>7. Released(a)' = Released(a) + release /\ \A b \in Auths \ {a} : Released(b)' = Released(b)
  BY <1>1, <1>2, CaptureReleases
<1>8. /\ auths[a].reversed \in Nat /\ Usd(auths[a].amount) \in Nat /\ Released(a) \in Nat
      /\ account.HELD \in Int
  BY <1>1, <1>3, UsdType, SumTypes, CardAssumption DEF SumsTyped, Authorization, TypeOK
<1>. HIDE DEF more
<1>9. RemainingHold(a) \in Int /\ RemainingHold(a)' = RemainingHold(a) - release - more
  BY <1>4, <1>5, <1>7, <1>8 DEF RemainingHold, Usd
<1>10. a \in Open /\ (a \in Open' <=> ~pending.final)
  <2>1. auths'[a] # None
    BY <1>5, AbsentRows
  <2>. QED  BY <1>3, <1>5, <2>1 DEF Open, OpenAuthorization
<1>11. CASE pending.final
  <2>1. account'.HELD = account.HELD - (IF a \in Open THEN RemainingHold(a) ELSE 0)
                                     + (IF a \in Open' THEN RemainingHold(a)' ELSE 0)
    BY <1>3, <1>8, <1>9, <1>10, <1>11
  <2>2. a \notin Open'
    BY <1>10, <1>11
  <2>. QED  BY <1>1, <1>6, <1>7, <2>1, <2>2, HoldsMove
<1>12. CASE ~pending.final
  <2>1. more = 0 /\ RemainingHold(a)' = RemainingHold(a) - release
    BY <1>3, <1>4, <1>9, <1>12
  <2>2. RemainingHold(a)' >= 0
    BY <1>3, <1>9, <2>1
  <2>3. account'.HELD = account.HELD - (IF a \in Open THEN RemainingHold(a) ELSE 0)
                                     + (IF a \in Open' THEN RemainingHold(a)' ELSE 0)
    BY <1>3, <1>8, <1>9, <1>10, <1>12, <2>1
  <2>. QED  BY <1>1, <1>6, <1>7, <2>2, <2>3, HoldsMove
<1>. QED  BY <1>11, <1>12

(* The step changes neither authorizations nor captures nor what is held. *)
LEMMA HoldsUntouched ==
  ASSUME HoldsExplained, auths' = auths, captures' = captures, account'.HELD = account.HELD
  PROVE  HoldsExplained'
<1>1. \A a \in Auths : Released(a)' = Released(a)
  BY DEF Released, CapturesOf
<1>. QED  BY <1>1, HoldsStay

LEMMA HoldsKept ==
  ASSUME IInv, Next, TypeOK'
  PROVE  HoldsExplained'
<1>1. TypeOK /\ RowsSound /\ HoldsExplained
  BY DEF IInv
<1>2. ASSUME NEW x \in Captures, NEW usd \in UsdAmounts, Refund(x, usd)
      PROVE  HoldsExplained'
  <2>1. usd \in Nat /\ CreditFacts(x, usd, usd, refundAllocation(x, usd))
    BY <1>1, <1>2, RefundFacts, CardAssumption
  <2>2. \A a \in Auths : Released(a)' = Released(a)
    BY <1>1, <2>1, CreditReleases
  <2>3. account'.HELD = account.HELD /\ auths' = auths
    BY <1>2, <2>1 DEF CreditFacts, Refund
  <2>. QED  BY <1>1, <2>2, <2>3, HoldsStay
<1>3. ASSUME NEW d \in Disputes, AcceptDispute(d)
      PROVE  HoldsExplained'
  <2>1. CreditFacts(disputes[d].capture, disputes[d].amount, 0,
                    refundAllocation(disputes[d].capture, disputes[d].amount))
    BY <1>1, <1>3, DisputeFacts
  <2>2. \A a \in Auths : Released(a)' = Released(a)
    BY <1>1, <2>1, CreditReleases
  <2>3. account'.HELD = account.HELD /\ auths' = auths
    BY <1>3, <2>1 DEF CreditFacts, AcceptDispute
  <2>. QED  BY <1>1, <2>2, <2>3, HoldsStay
<1>4. CASE CommitPayment
  <2>1. account'.HELD = account.HELD
    BY <1>1, <1>4 DEF CommitPayment, postStatementRepayment, TypeOK
  <2>. QED  BY <1>1, <1>4, <2>1, HoldsUntouched DEF CommitPayment
<1>5. CASE CardNext
  <2>1. UNCHANGED <<auths, captures, account>>
    BY <1>5 DEF CardNext, CreateCard, ActOnCard, replaceCard, AdvancePhysicalCard
  <2>. QED  BY <1>1, <2>1, HoldsUntouched
<1>6. CASE AuthorizationNext
  <2>1. ASSUME UNCHANGED <<auths, captures, account>>  PROVE HoldsExplained'
    BY <1>1, <2>1, HoldsUntouched
  <2>. QED
    BY <1>6, <2>1, AuthorizeHolds, ReverseHolds, CaptureHolds
       DEF AuthorizationNext, BeginCapture, Rollback
<1>7. CASE CreditNext
  <2>1. ASSUME UNCHANGED <<auths, captures, account>>  PROVE HoldsExplained'
    BY <1>1, <2>1, HoldsUntouched
  <2>. QED
    BY <1>2, <1>3, <1>4, <1>7, <2>1
       DEF CreditNext, OpenDispute, RejectDispute, GenerateStatement, BeginPayment
<1>8. CASE SettingsNext
  <2>1. UNCHANGED <<auths, captures, account>>
    BY <1>8 DEF SettingsNext, ConfigureRepayment, ConfigureAutoSellMandate, Elsewhere
  <2>. QED  BY <1>1, <2>1, HoldsUntouched
<1>. QED  BY <1>5, <1>6, <1>7, <1>8 DEF Next

-----------------------------------------------------------------------------
(* Credits                                                                 *)

(* What was given back of a capture, as far as disputes are concerned.     *)
LEMMA DisputesSame ==
  ASSUME disputes' = disputes, NEW y \in Captures
  PROVE  Disputed(y, {"ACCEPTED"})' = Disputed(y, {"ACCEPTED"})
BY DEF Disputed, DisputesOf

LEMMA DisputeOpened ==
  ASSUME TypeOK, NEW d \in Disputes, NEW x \in Captures, NEW usd \in UsdAmounts,
         OpenDispute(d, x, usd), NEW y \in Captures
  PROVE  Disputed(y, {"ACCEPTED"})' = Disputed(y, {"ACCEPTED"})
<1>1. /\ disputes[d] = None
      /\ disputes'[d] = [capture |-> x, amount |-> usd, status |-> "OPEN"]
      /\ \A e \in Disputes \ {d} : disputes'[e] = disputes[e]
  BY DEF OpenDispute, TypeOK
<1>2. DisputesOf(y, {"ACCEPTED"})' = DisputesOf(y, {"ACCEPTED"})
  BY <1>1 DEF DisputesOf
<1>3. \A e \in DisputesOf(y, {"ACCEPTED"}) : disputes'[e].amount = disputes[e].amount
  BY <1>1 DEF DisputesOf
<1>. QED  BY <1>2, <1>3 DEF Disputed

LEMMA DisputeRow ==
  ASSUME TypeOK, NEW d \in Disputes, disputes[d] \in Dispute, NEW outcome \in {"ACCEPTED", "REJECTED"},
         disputes' = [disputes EXCEPT ![d].status = outcome]
  PROVE  /\ disputes'[d] = [capture |-> disputes[d].capture, amount |-> disputes[d].amount,
                            status |-> outcome]
         /\ disputes'[d] # None
         /\ \A e \in Disputes \ {d} : disputes'[e] = disputes[e]
<1>1. disputes'[d] = [disputes[d] EXCEPT !.status = outcome]
  BY DEF TypeOK
<1>2. disputes'[d] = [capture |-> disputes[d].capture, amount |-> disputes[d].amount,
                      status |-> outcome]
  BY <1>1 DEF Dispute
<1>3. disputes'[d] \in Dispute
  BY <1>2 DEF Dispute
<1>4. \A e \in Disputes \ {d} : disputes'[e] = disputes[e]
  BY DEF TypeOK
<1>. QED  BY <1>2, <1>3, <1>4, AbsentRows

LEMMA DisputeRejected ==
  ASSUME TypeOK, NEW d \in Disputes, RejectDispute(d), NEW y \in Captures
  PROVE  Disputed(y, {"ACCEPTED"})' = Disputed(y, {"ACCEPTED"})
<1>1. /\ disputes[d] # None /\ disputes[d].status = "OPEN" /\ disputes[d] \in Dispute
      /\ disputes' = [disputes EXCEPT ![d].status = "REJECTED"]
  BY DEF RejectDispute, ResolveDispute, TypeOK
<1>2. /\ disputes'[d].status = "REJECTED"
      /\ \A e \in Disputes \ {d} : disputes'[e] = disputes[e]
  <2>1. "REJECTED" \in {"ACCEPTED", "REJECTED"}
    OBVIOUS
  <2>2. /\ disputes'[d] = [capture |-> disputes[d].capture, amount |-> disputes[d].amount,
                            status |-> "REJECTED"]
        /\ \A e \in Disputes \ {d} : disputes'[e] = disputes[e]
    BY <1>1, <2>1, DisputeRow
  <2>. QED  BY <2>2
<1>3. DisputesOf(y, {"ACCEPTED"})' = DisputesOf(y, {"ACCEPTED"})
  BY <1>1, <1>2 DEF DisputesOf
<1>4. \A e \in DisputesOf(y, {"ACCEPTED"}) : disputes'[e].amount = disputes[e].amount
  BY <1>1, <1>2 DEF DisputesOf
<1>. QED  BY <1>3, <1>4 DEF Disputed

LEMMA DisputeAccepted ==
  ASSUME TypeOK, NEW d \in Disputes, disputes[d] \in Dispute, disputes[d].status = "OPEN",
         disputes' = [disputes EXCEPT ![d].status = "ACCEPTED"], NEW y \in Captures
  PROVE  Disputed(y, {"ACCEPTED"})' = Disputed(y, {"ACCEPTED"})
            + (IF y = disputes[d].capture THEN disputes[d].amount ELSE 0)
<1>. DEFINE S == DisputesOf(y, {"ACCEPTED"})
            T == DisputesOf(y, {"ACCEPTED"})'
            f == [e \in S |-> disputes[e].amount]
            g == [e \in T |-> disputes'[e].amount]
<1>1. /\ disputes'[d] = [capture |-> disputes[d].capture, amount |-> disputes[d].amount,
                         status |-> "ACCEPTED"]
      /\ disputes'[d] # None
      /\ \A e \in Disputes \ {d} : disputes'[e] = disputes[e]
  BY DisputeRow
<1>2. IsFiniteSet(S) /\ IsFiniteSet(T)
  BY CardAssumption, FS_Subset DEF DisputesOf
<1>3. d \notin S /\ (d \in T <=> y = disputes[d].capture)
  BY <1>1 DEF DisputesOf
<1>4. S \ {d} = T \ {d} /\ \A e \in S : disputes'[e] = disputes[e]
  BY <1>1, <1>3 DEF DisputesOf
<1>5. f \in [S -> Int]
  BY CardAssumption DEF TypeOK, DisputesOf, Dispute
<1>6. disputes[d].amount \in Int
  BY CardAssumption DEF Dispute
<1>7. g \in [T -> Int]
  BY <1>1, <1>4, <1>5, <1>6
<1>8. \A e \in S \ {d} : f[e] = g[e]
  BY <1>4
<1>9. d \in T => g[d] = disputes[d].amount
  BY <1>1
<1>10. Disputed(y, {"ACCEPTED"}) = SumFunction(f) /\ Disputed(y, {"ACCEPTED"})' = SumFunction(g)
  BY DEF Disputed
<1>. HIDE DEF S, T, f, g
<1>11. /\ SumFunction(g) = SumFunction(f) - (IF d \in S THEN f[d] ELSE 0)
                              + (IF d \in T THEN g[d] ELSE 0)
       /\ SumFunction(f) \in Int
  BY <1>2, <1>4, <1>5, <1>7, <1>8, SumMoved
<1>12. SumFunction(g) = SumFunction(f)
            + (IF y = disputes[d].capture THEN disputes[d].amount ELSE 0)
  BY <1>3, <1>6, <1>9, <1>11
<1>. QED  BY <1>10, <1>12

(* A capture nobody has posted has no accepted disputes. *)
LEMMA NotDisputed ==
  ASSUME RowsSound, NEW x \in Captures, captures[x] = None
  PROVE  Disputed(x, {"ACCEPTED"}) = 0
<1>1. DisputesOf(x, {"ACCEPTED"}) = {}
  BY DEF RowsSound, DisputesOf
<1>. QED  BY <1>1, SumOfNone DEF Disputed

(* A refund, or an accepted dispute: one row has given back more.          *)
CreditStep(x, usd, reduction) ==
    /\ x \in Posted /\ usd \in Nat /\ reduction \in Nat
    /\ usd =< Settled(x) - Adjusted(x) /\ reduction =< usd
    /\ reduction =< positiveRemainder(Settled(x) - captures[x].repaid - Adjusted(x))
    /\ Posted' = Posted
    /\ \A y \in Posted :
          /\ captures'[y].amount = captures[y].amount
          /\ captures'[y].released = captures[y].released
          /\ captures'[y].repaid = captures[y].repaid
          /\ captures'[y].reduced = captures[y].reduced + (IF y = x THEN reduction ELSE 0)
          /\ Adjusted(y)' = Adjusted(y) + (IF y = x THEN usd ELSE 0)
    /\ account' = [HELD |-> account.HELD, RECEIVABLE |-> account.RECEIVABLE - reduction]
    /\ cash' = Post(cash, SettledEntries(usd - reduction))
    /\ UNCHANGED <<profile, statements, collateral, pending, elsewhere>>

LEMMA CreditRows ==
  ASSUME TypeOK, NEW x, NEW usd, NEW refunded \in Nat, NEW reduction,
         CreditFacts(x, usd, refunded, reduction), NEW y \in Posted
  PROVE  /\ captures'[y].amount = captures[y].amount
         /\ captures'[y].released = captures[y].released
         /\ captures'[y].repaid = captures[y].repaid
         /\ captures'[y].reduced = captures[y].reduced + (IF y = x THEN reduction ELSE 0)
         /\ captures'[y].refunded = captures[y].refunded + (IF y = x THEN refunded ELSE 0)
<1>1. captures[y].reduced \in Nat /\ captures[y].refunded \in Nat
  BY DEF TypeOK, Posted, Capture
<1>2. CASE y = x
  BY <1>1, <1>2 DEF CreditFacts
<1>3. CASE y # x
  <2>1. captures'[y] = captures[y]
    BY <1>3 DEF CreditFacts, TypeOK, Posted
  <2>. QED  BY <1>1, <1>3, <2>1
<1>. QED  BY <1>2, <1>3

LEMMA RefundStep ==
  ASSUME TypeOK, NEW x \in Captures, NEW usd \in UsdAmounts, Refund(x, usd)
  PROVE  CreditStep(x, usd, refundAllocation(x, usd))
<1>. DEFINE reduction == refundAllocation(x, usd)
<1>1. usd \in Nat /\ CreditFacts(x, usd, usd, reduction)
  BY RefundFacts, CardAssumption
<1>. HIDE DEF reduction
<1>2. Posted' = Posted
  BY <1>1, CreditStays
<1>3. ASSUME NEW y \in Posted
      PROVE  /\ captures'[y].amount = captures[y].amount
             /\ captures'[y].released = captures[y].released
             /\ captures'[y].repaid = captures[y].repaid
             /\ captures'[y].reduced = captures[y].reduced + (IF y = x THEN reduction ELSE 0)
             /\ Adjusted(y)' = Adjusted(y) + (IF y = x THEN usd ELSE 0)
  <2>1. /\ captures'[y].amount = captures[y].amount
        /\ captures'[y].released = captures[y].released
        /\ captures'[y].repaid = captures[y].repaid
        /\ captures'[y].reduced = captures[y].reduced + (IF y = x THEN reduction ELSE 0)
        /\ captures'[y].refunded = captures[y].refunded + (IF y = x THEN usd ELSE 0)
    BY <1>1, CreditRows
  <2>2. y \in Captures /\ captures[y].refunded \in Nat
    BY DEF TypeOK, Posted, Capture
  <2>3. Disputed(y, {"ACCEPTED"}) \in Nat
    BY <2>2, SumTypes DEF SumsTyped, DisputeStatus
  <2>4. Disputed(y, {"ACCEPTED"})' = Disputed(y, {"ACCEPTED"})
    BY <2>2, DisputesSame DEF Refund
  <2>5. Adjusted(y)' = Adjusted(y) + (IF y = x THEN usd ELSE 0)
    BY <1>1, <2>1, <2>2, <2>3, <2>4 DEF Adjusted
  <2>. QED  BY <2>1, <2>5
<1>4. UNCHANGED <<profile, statements, collateral, pending, elsewhere>>
  BY DEF Refund
<1>5. CreditStep(x, usd, reduction)
  BY <1>1, <1>2, <1>3, <1>4 DEF CreditStep, CreditFacts
<1>. QED  BY <1>5 DEF reduction

LEMMA AcceptStep ==
  ASSUME TypeOK, RowsSound, NEW d \in Disputes, AcceptDispute(d)
  PROVE  CreditStep(disputes[d].capture, disputes[d].amount,
                    refundAllocation(disputes[d].capture, disputes[d].amount))
<1>. DEFINE x         == disputes[d].capture
            usd       == disputes[d].amount
            reduction == refundAllocation(x, usd)
<1>1. /\ disputes[d] \in Dispute /\ disputes[d].status = "OPEN"
      /\ disputes' = [disputes EXCEPT ![d].status = "ACCEPTED"]
      /\ CreditFacts(x, usd, 0, reduction)
  BY DisputeFacts
<1>. HIDE DEF reduction
<1>2. Posted' = Posted
  BY <1>1, CreditStays
<1>3. ASSUME NEW y \in Posted
      PROVE  /\ captures'[y].amount = captures[y].amount
             /\ captures'[y].released = captures[y].released
             /\ captures'[y].repaid = captures[y].repaid
             /\ captures'[y].reduced = captures[y].reduced + (IF y = x THEN reduction ELSE 0)
             /\ Adjusted(y)' = Adjusted(y) + (IF y = x THEN usd ELSE 0)
  <2>1. /\ captures'[y].amount = captures[y].amount
        /\ captures'[y].released = captures[y].released
        /\ captures'[y].repaid = captures[y].repaid
        /\ captures'[y].reduced = captures[y].reduced + (IF y = x THEN reduction ELSE 0)
        /\ captures'[y].refunded = captures[y].refunded + (IF y = x THEN 0 ELSE 0)
    BY <1>1, CreditRows
  <2>2. y \in Captures /\ captures[y].refunded \in Nat /\ usd \in Nat
    BY <1>1, CardAssumption DEF TypeOK, Posted, Capture, Dispute
  <2>3. Disputed(y, {"ACCEPTED"}) \in Nat
    BY <2>2, SumTypes DEF SumsTyped, DisputeStatus
  <2>4. Disputed(y, {"ACCEPTED"})' = Disputed(y, {"ACCEPTED"}) + (IF y = x THEN usd ELSE 0)
    BY <1>1, <2>2, DisputeAccepted
  <2>5. Adjusted(y)' = Adjusted(y) + (IF y = x THEN usd ELSE 0)
    <3>. HIDE DEF x, usd
    <3>. QED  BY <2>1, <2>2, <2>3, <2>4 DEF Adjusted
  <2>. QED  BY <2>1, <2>5
<1>4. UNCHANGED <<profile, statements, collateral, pending, elsewhere>>
  BY DEF AcceptDispute
<1>. HIDE DEF x, usd
<1>5. CreditStep(x, usd, reduction)
  BY <1>1, <1>2, <1>3, <1>4 DEF CreditStep, CreditFacts
<1>. QED  BY <1>5 DEF x, usd, reduction

Given == CreditsSound /\ GivenBackOnce

LEMMA GivenAfterCredit ==
  ASSUME TypeOK, Given, NEW x, NEW usd, NEW reduction, CreditStep(x, usd, reduction)
  PROVE  Given'
<1>1. SUFFICES ASSUME NEW y \in Posted
               PROVE  /\ captures'[y].repaid =< Settled(y)'
                      /\ captures'[y].reduced =< Adjusted(y)'
                      /\ Adjusted(y)' =< Settled(y)'
                      /\ captures'[y].reduced =< Settled(y)' - captures'[y].repaid
  BY DEF Given, CreditsSound, GivenBackOnce, CreditStep
<1>2. /\ captures[y].repaid =< Settled(y) /\ captures[y].reduced =< Adjusted(y)
      /\ Adjusted(y) =< Settled(y) /\ captures[y].reduced =< Settled(y) - captures[y].repaid
  BY DEF Given, CreditsSound, GivenBackOnce
<1>3. /\ captures[y].repaid \in Nat /\ captures[y].reduced \in Nat
      /\ Settled(y) \in Nat /\ Adjusted(y) \in Nat
  BY SumTypes DEF SumsTyped, TypeOK, Posted, Capture
<1>4. /\ Settled(y)' = Settled(y) /\ captures'[y].repaid = captures[y].repaid
      /\ captures'[y].reduced = captures[y].reduced + (IF y = x THEN reduction ELSE 0)
      /\ Adjusted(y)' = Adjusted(y) + (IF y = x THEN usd ELSE 0)
  BY DEF CreditStep, Settled, Usd
<1>5. /\ usd \in Nat /\ reduction \in Nat /\ reduction =< usd
      /\ y = x => /\ usd =< Settled(y) - Adjusted(y)
                  /\ reduction =< positiveRemainder(Settled(y) - captures[y].repaid - Adjusted(y))
  BY DEF CreditStep
<1>6. CASE y = x
  BY <1>2, <1>3, <1>4, <1>5, <1>6 DEF positiveRemainder
<1>7. CASE y # x
  BY <1>2, <1>3, <1>4, <1>7
<1>. QED  BY <1>6, <1>7

(* The step changes no capture, and no dispute so that it counts. *)
LEMMA GivenUntouched ==
  ASSUME Given, captures' = captures,
         \A y \in Captures : Disputed(y, {"ACCEPTED"})' = Disputed(y, {"ACCEPTED"})
  PROVE  Given'
<1>1. \A y \in Captures : Settled(y)' = Settled(y) /\ Adjusted(y)' = Adjusted(y)
  BY DEF Settled, Usd, Adjusted
<1>. QED  BY <1>1 DEF Given, CreditsSound, GivenBackOnce, Posted

(* The rows of captures after one was posted. *)
LEMMA CaptureRows ==
  ASSUME TypeOK, RowsSound, NEW x \in Captures, NEW a \in Auths, NEW usd \in Nat,
         NEW release \in Nat, NEW sale, NEW repaid \in Nat,
         CaptureFacts(x, a, usd, release, sale, repaid)
  PROVE  /\ x \notin Posted /\ Posted' = Posted \cup {x}
         /\ \A y \in Posted : captures'[y] = captures[y] /\ Adjusted(y)' = Adjusted(y)
         /\ Settled(x)' = usd /\ Adjusted(x)' = 0
         /\ captures'[x].released = release /\ captures'[x].repaid = repaid
         /\ captures'[x].reduced = 0
<1>1. /\ captures[x] = None
      /\ captures'[x] = [auth |-> a, amount |-> pending.amount, released |-> release,
                         repaid |-> repaid, refunded |-> 0, reduced |-> 0]
      /\ \A y \in Captures \ {x} : captures'[y] = captures[y]
      /\ disputes' = disputes /\ usd = Usd(pending.amount)
  BY DEF CaptureFacts, TypeOK
<1>2. captures'[x] # None
  <2>1. captures'[x] \in Capture
    BY <1>1, CardAssumption DEF CaptureFacts, Capture, Capturing
  <2>. QED  BY <2>1, AbsentRows
<1>3. x \notin Posted /\ Posted' = Posted \cup {x}
  BY <1>1, <1>2 DEF Posted
<1>4. \A y \in Captures : Disputed(y, {"ACCEPTED"})' = Disputed(y, {"ACCEPTED"})
  BY <1>1, DisputesSame
<1>5. \A y \in Posted : captures'[y] = captures[y] /\ Adjusted(y)' = Adjusted(y)
  BY <1>1, <1>3, <1>4 DEF Adjusted, Posted
<1>6. Adjusted(x)' = 0
  BY <1>1, <1>4, NotDisputed DEF Adjusted
<1>7. Settled(x)' = usd
  BY <1>1 DEF Settled, Usd
<1>. QED  BY <1>1, <1>3, <1>5, <1>6, <1>7

LEMMA GivenKept ==
  ASSUME IInv, Next
  PROVE  Given'
<1>1. TypeOK /\ RowsSound /\ Given
  BY DEF IInv, Given
<1>2. ASSUME captures' = captures, disputes' = disputes  PROVE Given'
  BY <1>1, <1>2, DisputesSame, GivenUntouched
<1>3. CASE CommitCapture
  <2>1. PICK x \in Captures, a \in Auths, usd \in Nat, release \in Nat,
             sale \in [shares : Nat, proceeds : Nat], repaid \in Nat :
             CaptureFacts(x, a, usd, release, sale, repaid)
    BY <1>3, CommitCaptureFacts
  <2>2. /\ x \notin Posted /\ Posted' = Posted \cup {x}
        /\ \A y \in Posted : captures'[y] = captures[y] /\ Adjusted(y)' = Adjusted(y)
        /\ Settled(x)' = usd /\ Adjusted(x)' = 0
        /\ captures'[x].repaid = repaid /\ captures'[x].reduced = 0
    BY <1>1, <2>1, CaptureRows
  <2>3. \A y \in Posted : Settled(y)' = Settled(y)
    BY <2>2 DEF Settled, Usd
  <2>4. repaid =< usd
    BY <2>1 DEF CaptureFacts
  <2>5. /\ captures'[x].repaid =< Settled(x)' /\ captures'[x].reduced =< Adjusted(x)'
        /\ Adjusted(x)' =< Settled(x)' /\ captures'[x].reduced =< Settled(x)' - captures'[x].repaid
    BY <2>2, <2>4
  <2>6. \A y \in Posted : /\ captures'[y].repaid =< Settled(y)'
                          /\ captures'[y].reduced =< Adjusted(y)'
                          /\ Adjusted(y)' =< Settled(y)'
                          /\ captures'[y].reduced =< Settled(y)' - captures'[y].repaid
    BY <1>1, <2>2, <2>3 DEF Given, CreditsSound, GivenBackOnce
  <2>. QED  BY <2>2, <2>5, <2>6 DEF Given, CreditsSound, GivenBackOnce
<1>4. CASE CardNext
  <2>1. UNCHANGED <<captures, disputes>>
    BY <1>4 DEF CardNext, CreateCard, ActOnCard, replaceCard, AdvancePhysicalCard
  <2>. QED  BY <1>2, <2>1
<1>5. CASE AuthorizationNext
  BY <1>2, <1>3, <1>5 DEF AuthorizationNext, Authorize, ReverseAuthorization, BeginCapture, Rollback
<1>6. CASE CreditNext
  <2>1. ASSUME NEW x \in Captures, NEW usd \in UsdAmounts, Refund(x, usd)  PROVE Given'
    BY <1>1, <2>1, RefundStep, GivenAfterCredit
  <2>2. ASSUME NEW d \in Disputes, NEW x \in Captures, NEW usd \in UsdAmounts,
               OpenDispute(d, x, usd)
        PROVE  Given'
    <3>1. captures' = captures
      BY <2>2 DEF OpenDispute
    <3>. QED  BY <1>1, <2>2, <3>1, DisputeOpened, GivenUntouched
  <2>3. ASSUME NEW d \in Disputes, RejectDispute(d)  PROVE Given'
    <3>1. captures' = captures
      BY <2>3 DEF RejectDispute
    <3>. QED  BY <1>1, <2>3, <3>1, DisputeRejected, GivenUntouched
  <2>4. ASSUME NEW d \in Disputes, AcceptDispute(d)  PROVE Given'
    BY <1>1, <2>4, AcceptStep, GivenAfterCredit
  <2>. QED
    BY <1>2, <1>6, <2>1, <2>2, <2>3, <2>4
       DEF CreditNext, GenerateStatement, BeginPayment, CommitPayment
<1>7. CASE SettingsNext
  BY <1>2, <1>7 DEF SettingsNext, ConfigureRepayment, ConfigureAutoSellMandate, Elsewhere
<1>. QED  BY <1>4, <1>5, <1>6, <1>7 DEF Next

-----------------------------------------------------------------------------
(* The books                                                               *)

Owed     == SumFunction([x \in Posted |-> Debt(x)])
Returned == SumFunction([x \in Posted |-> Paidback(x)])

ReceivableExplained == account.RECEIVABLE = Owed - PaidStatements

CashIsExplained ==
    \A d \in Dimension :
        cash[d] = Post(Opened(InitialCash), SettledEntries(Own))[d] + Moved(d)

LEMMA BooksParts == BooksBalance <=> ReceivableExplained /\ CashIsExplained
BY DEF BooksBalance, ReceivableExplained, CashIsExplained, Owed

LEMMA BooksPartsNext == BooksBalance' <=> ReceivableExplained' /\ CashIsExplained'
BY BooksParts, PTL

BooksTyped ==
    /\ Owed \in Int /\ Returned \in Int /\ PaidStatements \in Int /\ Own \in Int
    /\ \A d \in Dimension : Moved(d) \in Int

LEMMA BooksTypes == TypeOK => BooksTyped
<1>. SUFFICES ASSUME TypeOK  PROVE BooksTyped
  OBVIOUS
<1>1. IsFiniteSet(Posted) /\ IsFiniteSet(elsewhere)
  BY CardAssumption, FS_Subset DEF Posted, TypeOK
<1>2. Owed \in Int
  <2>1. [x \in Posted |-> Debt(x)] \in [Posted -> Int]
    BY SumTypes DEF SumsTyped
  <2>. QED  BY <1>1, <2>1, SumIsInt DEF Owed
<1>3. Returned \in Int
  <2>1. [x \in Posted |-> Paidback(x)] \in [Posted -> Int]
    BY SumTypes DEF SumsTyped
  <2>. QED  BY <1>1, <2>1, SumIsInt DEF Returned
<1>4. PaidStatements \in Int
  BY SumTypes DEF SumsTyped
<1>5. Own \in Int
  BY <1>3, <1>4 DEF Own, Returned, TypeOK
<1>6. ASSUME NEW d \in Dimension  PROVE Moved(d) \in Int
  <2>1. [m \in elsewhere |-> IF d \in DOMAIN m THEN m[d] ELSE 0] \in [elsewhere -> Int]
    BY CardAssumption DEF TypeOK
  <2>. QED  BY <1>1, <2>1, SumIsInt DEF Moved
<1>. QED  BY <1>2, <1>3, <1>4, <1>5, <1>6 DEF BooksTyped

(* A capture that is posted or credited moves the totals by what its row says. *)
LEMMA TotalsMove ==
  ASSUME TypeOK, TypeOK', NEW x, Posted' \ {x} = Posted \ {x},
         \A y \in Posted \ {x} : Debt(y)' = Debt(y) /\ Paidback(y)' = Paidback(y)
  PROVE  /\ Owed' = Owed - (IF x \in Posted THEN Debt(x) ELSE 0)
                         + (IF x \in Posted' THEN Debt(x)' ELSE 0)
         /\ Returned' = Returned - (IF x \in Posted THEN Paidback(x) ELSE 0)
                                 + (IF x \in Posted' THEN Paidback(x)' ELSE 0)
<1>1. IsFiniteSet(Posted) /\ IsFiniteSet(Posted')
  BY CardAssumption, FS_Subset DEF Posted
<1>2. SumsTyped /\ SumsTyped'
  BY SumTypes, SumTypesNext
<1>3. Owed' = Owed - (IF x \in Posted THEN Debt(x) ELSE 0)
                   + (IF x \in Posted' THEN Debt(x)' ELSE 0)
  <2>. DEFINE f == [y \in Posted |-> Debt(y)]
              g == [y \in Posted' |-> Debt(y)']
  <2>1. f \in [Posted -> Int] /\ g \in [Posted' -> Int]
    BY <1>2 DEF SumsTyped
  <2>2. \A y \in Posted \ {x} : f[y] = g[y]
    OBVIOUS
  <2>3. (x \in Posted => f[x] = Debt(x)) /\ (x \in Posted' => g[x] = Debt(x)')
    OBVIOUS
  <2>4. Owed = SumFunction(f) /\ Owed' = SumFunction(g)
    BY DEF Owed
  <2>. HIDE DEF f, g
  <2>5. SumFunction(g) = SumFunction(f) - (IF x \in Posted THEN f[x] ELSE 0)
                            + (IF x \in Posted' THEN g[x] ELSE 0)
    BY <1>1, <2>1, <2>2, SumMoved
  <2>. QED  BY <2>3, <2>4, <2>5
<1>4. Returned' = Returned - (IF x \in Posted THEN Paidback(x) ELSE 0)
                           + (IF x \in Posted' THEN Paidback(x)' ELSE 0)
  <2>. DEFINE f == [y \in Posted |-> Paidback(y)]
              g == [y \in Posted' |-> Paidback(y)']
  <2>1. f \in [Posted -> Int] /\ g \in [Posted' -> Int]
    BY <1>2 DEF SumsTyped
  <2>2. \A y \in Posted \ {x} : f[y] = g[y]
    OBVIOUS
  <2>3. (x \in Posted => f[x] = Paidback(x)) /\ (x \in Posted' => g[x] = Paidback(x)')
    OBVIOUS
  <2>4. Returned = SumFunction(f) /\ Returned' = SumFunction(g)
    BY DEF Returned
  <2>. HIDE DEF f, g
  <2>5. SumFunction(g) = SumFunction(f) - (IF x \in Posted THEN f[x] ELSE 0)
                            + (IF x \in Posted' THEN g[x] ELSE 0)
    BY <1>1, <2>1, <2>2, SumMoved
  <2>. QED  BY <2>3, <2>4, <2>5
<1>. QED  BY <1>3, <1>4

(* A posting of this module moves settled and withdrawable cash alike. *)
LEMMA CashMove ==
  ASSUME TypeOK, TypeOK', CashIsExplained, NEW n \in Int, Own' = Own + n,
         elsewhere' = elsewhere, cash' = Post(cash, SettledEntries(n))
  PROVE  CashIsExplained'
<1>1. /\ Own \in Int /\ Own' \in Int /\ cash \in Balances
      /\ \A d \in Dimension : Moved(d) \in Int /\ Moved(d)' = Moved(d)
  BY BooksTypes DEF BooksTyped, TypeOK, Moved
<1>2. Opened(InitialCash) \in Balances
  BY CardAssumption DEF Opened, Balances
<1>3. ASSUME NEW d \in Dimension
      PROVE  cash'[d] = Post(Opened(InitialCash), SettledEntries(Own'))[d] + Moved(d)'
  <2>1. cash'[d] = cash[d] + (IF d \in {"SETTLED", "WITHDRAWABLE"} THEN n ELSE 0)
    BY <1>1, CashPosted
  <2>2. cash[d] = Post(Opened(InitialCash), SettledEntries(Own))[d] + Moved(d)
    BY DEF CashIsExplained
  <2>3. Post(Opened(InitialCash), SettledEntries(Own))[d]
          = Opened(InitialCash)[d] + (IF d \in {"SETTLED", "WITHDRAWABLE"} THEN Own ELSE 0)
    BY <1>1, <1>2, CashPosted
  <2>4. Post(Opened(InitialCash), SettledEntries(Own'))[d]
          = Opened(InitialCash)[d] + (IF d \in {"SETTLED", "WITHDRAWABLE"} THEN Own' ELSE 0)
    BY <1>1, <1>2, CashPosted
  <2>5. Opened(InitialCash)[d] \in Int
    BY <1>2 DEF Balances
  <2>. QED  BY <1>1, <2>1, <2>2, <2>3, <2>4, <2>5
<1>. QED  BY <1>3 DEF CashIsExplained

(* Nothing is posted. *)
LEMMA BooksUntouched ==
  ASSUME BooksBalance, account'.RECEIVABLE = account.RECEIVABLE,
         UNCHANGED <<captures, statements, cash, collateral, elsewhere>>,
         \A y \in Captures : Disputed(y, {"ACCEPTED"})' = Disputed(y, {"ACCEPTED"})
  PROVE  BooksBalance'
<1>1. Posted' = Posted /\ PaidStatements' = PaidStatements
  BY DEF Posted, PaidStatements, Paid
<1>2. \A y \in Posted : Debt(y)' = Debt(y) /\ Paidback(y)' = Paidback(y)
  BY DEF Posted, Debt, Paidback, Settled, Usd, Adjusted
<1>3. Owed' = Owed /\ Returned' = Returned
  BY <1>1, <1>2 DEF Owed, Returned
<1>4. Own' = Own /\ \A d \in Dimension : Moved(d)' = Moved(d)
  BY <1>1, <1>3 DEF Own, Returned, Moved
<1>5. ReceivableExplained'
  BY <1>1, <1>3, BooksParts DEF ReceivableExplained
<1>6. CashIsExplained'
  BY <1>4, BooksParts DEF CashIsExplained
<1>. QED  BY <1>5, <1>6, BooksPartsNext

LEMMA CaptureBooks ==
  ASSUME IInv, TypeOK', CommitCapture
  PROVE  BooksBalance'
<1>1. TypeOK /\ RowsSound /\ ReceivableExplained /\ CashIsExplained
  BY BooksParts DEF IInv
<1>2. PICK x \in Captures, a \in Auths, usd \in Nat, release \in Nat,
           sale \in [shares : Nat, proceeds : Nat], repaid \in Nat :
           CaptureFacts(x, a, usd, release, sale, repaid)
  BY CommitCaptureFacts
<1>3. /\ x \notin Posted /\ Posted' = Posted \cup {x}
      /\ \A y \in Posted : captures'[y] = captures[y] /\ Adjusted(y)' = Adjusted(y)
      /\ Settled(x)' = usd /\ Adjusted(x)' = 0
      /\ captures'[x].repaid = repaid /\ captures'[x].reduced = 0
  BY <1>1, <1>2, CaptureRows
<1>4. Debt(x)' = usd - repaid /\ Paidback(x)' = 0 - repaid
  BY <1>3 DEF Debt, Paidback
<1>5. \A y \in Posted \ {x} : Debt(y)' = Debt(y) /\ Paidback(y)' = Paidback(y)
  BY <1>3 DEF Debt, Paidback, Settled, Usd
<1>6. /\ Owed \in Int /\ Returned \in Int /\ PaidStatements \in Int /\ Own \in Int
  BY <1>1, BooksTypes DEF BooksTyped
<1>7. Owed' = Owed + (usd - repaid) /\ Returned' = Returned + (0 - repaid)
  <2>1. Posted' \ {x} = Posted \ {x} /\ x \in Posted'
    BY <1>3
  <2>2. /\ Owed' = Owed - (IF x \in Posted THEN Debt(x) ELSE 0)
                        + (IF x \in Posted' THEN Debt(x)' ELSE 0)
        /\ Returned' = Returned - (IF x \in Posted THEN Paidback(x) ELSE 0)
                                + (IF x \in Posted' THEN Paidback(x)' ELSE 0)
    BY <1>1, <1>5, <2>1, TotalsMove
  <2>. QED  BY <1>3, <1>4, <1>6, <2>1, <2>2
<1>8. /\ account'.RECEIVABLE = account.RECEIVABLE + usd - repaid
      /\ cash' = Post(cash, SettledEntries(sale.proceeds - repaid))
      /\ collateral'.sold = collateral.sold + sale.proceeds
      /\ elsewhere' = elsewhere /\ statements' = statements
  BY <1>1, <1>2 DEF CaptureFacts, TypeOK
<1>9. PaidStatements' = PaidStatements
  BY <1>8 DEF PaidStatements, Paid
<1>10. account.RECEIVABLE \in Int /\ collateral.sold \in Int /\ sale.proceeds \in Int
  BY <1>1 DEF TypeOK
<1>11. ReceivableExplained'
  BY <1>1, <1>6, <1>7, <1>8, <1>9, <1>10 DEF ReceivableExplained
<1>12. Own' = Own + (sale.proceeds - repaid)
  BY <1>6, <1>7, <1>8, <1>9, <1>10 DEF Own, Returned
<1>13. CashIsExplained'
  <2>1. sale.proceeds - repaid \in Int
    BY <1>10
  <2>. QED  BY <1>1, <1>8, <1>12, <2>1, CashMove
<1>. QED  BY <1>11, <1>13, BooksPartsNext

LEMMA CreditBooks ==
  ASSUME TypeOK, TypeOK', BooksBalance, NEW x, NEW usd, NEW reduction,
         CreditStep(x, usd, reduction)
  PROVE  BooksBalance'
<1>1. ReceivableExplained /\ CashIsExplained
  BY BooksParts
<1>2. /\ x \in Posted /\ Posted' = Posted /\ usd \in Nat /\ reduction \in Nat
      /\ captures'[x].repaid = captures[x].repaid
      /\ captures'[x].reduced = captures[x].reduced + reduction
      /\ Adjusted(x)' = Adjusted(x) + usd
      /\ account'.RECEIVABLE = account.RECEIVABLE - reduction
      /\ cash' = Post(cash, SettledEntries(usd - reduction))
      /\ UNCHANGED <<statements, collateral, elsewhere>>
  BY DEF CreditStep
<1>3. \A y \in Posted : Settled(y)' = Settled(y)
  BY DEF CreditStep, Settled, Usd
<1>4. /\ Settled(x) \in Nat /\ Adjusted(x) \in Nat
      /\ captures[x].repaid \in Nat /\ captures[x].reduced \in Nat
      /\ Debt(x) \in Int /\ Paidback(x) \in Int
  BY <1>2, SumTypes DEF SumsTyped, TypeOK, Posted, Capture
<1>5. Debt(x)' = Debt(x) - reduction /\ Paidback(x)' = Paidback(x) + (usd - reduction)
  BY <1>2, <1>3, <1>4 DEF Debt, Paidback
<1>6. \A y \in Posted \ {x} : Debt(y)' = Debt(y) /\ Paidback(y)' = Paidback(y)
  <2>1. SUFFICES ASSUME NEW y \in Posted \ {x}
                 PROVE  Debt(y)' = Debt(y) /\ Paidback(y)' = Paidback(y)
    OBVIOUS
  <2>2. /\ captures'[y].repaid = captures[y].repaid
        /\ captures'[y].reduced = captures[y].reduced + 0
        /\ Adjusted(y)' = Adjusted(y) + 0
    BY DEF CreditStep
  <2>3. Adjusted(y) \in Nat /\ captures[y].reduced \in Nat
    BY SumTypes DEF SumsTyped, TypeOK, Posted, Capture
  <2>4. Adjusted(y)' = Adjusted(y) /\ captures'[y].reduced = captures[y].reduced
    BY <2>2, <2>3
  <2>. QED  BY <1>3, <2>2, <2>4 DEF Debt, Paidback
<1>7. Owed \in Int /\ Returned \in Int /\ PaidStatements \in Int /\ Own \in Int
  BY BooksTypes DEF BooksTyped
<1>8. Owed' = Owed - reduction /\ Returned' = Returned + (usd - reduction)
  <2>1. Posted' \ {x} = Posted \ {x} /\ x \in Posted'
    BY <1>2
  <2>2. /\ Owed' = Owed - (IF x \in Posted THEN Debt(x) ELSE 0)
                        + (IF x \in Posted' THEN Debt(x)' ELSE 0)
        /\ Returned' = Returned - (IF x \in Posted THEN Paidback(x) ELSE 0)
                                + (IF x \in Posted' THEN Paidback(x)' ELSE 0)
    BY <1>6, <2>1, TotalsMove
  <2>. QED  BY <1>2, <1>4, <1>5, <1>7, <2>1, <2>2
<1>9. PaidStatements' = PaidStatements
  BY <1>2 DEF PaidStatements, Paid
<1>10. account.RECEIVABLE \in Int /\ collateral.sold \in Int
  BY DEF TypeOK
<1>11. ReceivableExplained'
  BY <1>1, <1>2, <1>7, <1>8, <1>9, <1>10 DEF ReceivableExplained
<1>12. Own' = Own + (usd - reduction)
  BY <1>2, <1>7, <1>8, <1>9, <1>10 DEF Own, Returned
<1>13. CashIsExplained'
  <2>1. usd - reduction \in Int
    BY <1>2
  <2>. QED  BY <1>1, <1>2, <1>12, <2>1, CashMove
<1>. QED  BY <1>11, <1>13, BooksPartsNext

(* A payment marks its statement, so that it is paid once. *)
LEMMA PaymentBooks ==
  ASSUME IInv, TypeOK', CommitPayment
  PROVE  BooksBalance'
<1>1. TypeOK /\ PendingSound /\ ReceivableExplained /\ CashIsExplained
  BY BooksParts DEF IInv
<1>. DEFINE s   == pending
            due == statements[s].due
<1>2. /\ s \in Statements /\ statements[s] \in Statement /\ statements[s].status = "OPEN"
      /\ due \in Nat
  BY <1>1 DEF CommitPayment, PendingSound, TypeOK, Statement
<1>3. /\ account' = [account EXCEPT !.RECEIVABLE = @ - due]
      /\ cash' = Post(cash, SettledEntries(-due))
      /\ statements' = [statements EXCEPT ![s].status = "PAID"]
      /\ UNCHANGED <<captures, disputes, collateral, elsewhere>>
  BY DEF CommitPayment, postStatementRepayment, MarkStatementPaid
<1>4. account.RECEIVABLE \in Int /\ account'.RECEIVABLE = account.RECEIVABLE - due
  BY <1>1, <1>2, <1>3 DEF TypeOK
<1>5. /\ statements'[s] = [due |-> due, status |-> "PAID"]
      /\ \A t \in Statements \ {s} : statements'[t] = statements[t]
  <2>1. statements'[s] = [statements[s] EXCEPT !.status = "PAID"]
    BY <1>1, <1>2, <1>3 DEF TypeOK
  <2>2. statements'[s] = [due |-> due, status |-> "PAID"]
    BY <1>2, <2>1 DEF Statement
  <2>. QED  BY <1>1, <1>3, <2>2 DEF TypeOK
<1>6. statements'[s] # None
  <2>1. statements'[s] \in Statement
    BY <1>2, <1>5 DEF Statement
  <2>. QED  BY <2>1, AbsentRows
<1>. HIDE DEF s
<1>7. PaidStatements' = PaidStatements + due
  <2>. DEFINE f == [t \in Paid |-> statements[t].due]
              g == [t \in Paid' |-> statements'[t].due]
  <2>1. s \notin Paid /\ s \in Paid' /\ Paid' \ {s} = Paid \ {s}
    BY <1>2, <1>5, <1>6 DEF Paid
  <2>2. IsFiniteSet(Paid) /\ IsFiniteSet(Paid')
    BY CardAssumption, FS_Subset DEF Paid
  <2>3. f \in [Paid -> Int]
    BY <1>1 DEF TypeOK, Paid, Statement
  <2>4. \A t \in Paid \ {s} : f[t] = g[t]
    BY <1>5, <2>1 DEF Paid
  <2>5. g[s] = due
    BY <1>5, <2>1
  <2>6. g \in [Paid' -> Int]
    <3>1. \A t \in Paid' : statements'[t].due \in Int
      BY <1>1, <1>2, <1>5, <2>1 DEF TypeOK, Paid, Statement
    <3>. QED  BY <3>1
  <2>7. PaidStatements = SumFunction(f) /\ PaidStatements' = SumFunction(g)
    BY DEF PaidStatements
  <2>. HIDE DEF f, g
  <2>8. /\ SumFunction(g) = SumFunction(f) - (IF s \in Paid THEN f[s] ELSE 0)
                               + (IF s \in Paid' THEN g[s] ELSE 0)
        /\ SumFunction(f) \in Int
    BY <2>1, <2>2, <2>3, <2>4, <2>6, SumMoved
  <2>. QED  BY <1>2, <2>1, <2>5, <2>7, <2>8
<1>8. Owed' = Owed /\ Returned' = Returned
  BY <1>3 DEF Owed, Returned, Posted, Debt, Paidback, Settled, Usd, Adjusted, Disputed, DisputesOf
<1>9. Owed \in Int /\ Returned \in Int /\ PaidStatements \in Int /\ Own \in Int
  BY <1>1, BooksTypes DEF BooksTyped
<1>10. collateral.sold \in Int
  BY <1>1 DEF TypeOK
<1>. HIDE DEF due
<1>11. ReceivableExplained'
  BY <1>1, <1>2, <1>4, <1>7, <1>8, <1>9 DEF ReceivableExplained
<1>12. Own' = Own + (-due)
  BY <1>2, <1>3, <1>7, <1>8, <1>9, <1>10 DEF Own, Returned
<1>13. CashIsExplained'
  <2>1. -due \in Int
    BY <1>2
  <2>. QED  BY <1>1, <1>3, <1>12, <2>1, CashMove
<1>. QED  BY <1>11, <1>13, BooksPartsNext

LEMMA ElsewhereBooks ==
  ASSUME TypeOK, TypeOK', BooksBalance, NEW move \in CashMoves, Elsewhere(move)
  PROVE  BooksBalance'
<1>1. ReceivableExplained /\ CashIsExplained
  BY BooksParts
<1>2. /\ move \notin elsewhere /\ elsewhere' = elsewhere \cup {move}
      /\ cash' = Post(cash, move)
      /\ UNCHANGED <<captures, disputes, statements, account, collateral>>
  BY DEF Elsewhere
<1>3. Owed' = Owed /\ Returned' = Returned
  BY <1>2 DEF Owed, Returned, Posted, Debt, Paidback, Settled, Usd, Adjusted, Disputed, DisputesOf
<1>4. PaidStatements' = PaidStatements
  BY <1>2 DEF PaidStatements, Paid
<1>5. Own' = Own
  BY <1>2, <1>3, <1>4 DEF Own, Returned
<1>6. ReceivableExplained'
  BY <1>1, <1>2, <1>3, <1>4 DEF ReceivableExplained
<1>7. ASSUME NEW d \in Dimension
      PROVE  /\ Moved(d) \in Int
             /\ Moved(d)' = Moved(d) + (IF d \in DOMAIN move THEN move[d] ELSE 0)
             /\ (IF d \in DOMAIN move THEN move[d] ELSE 0) \in Int
  <2>. DEFINE f == [m \in elsewhere |-> IF d \in DOMAIN m THEN m[d] ELSE 0]
              g == [m \in elsewhere' |-> IF d \in DOMAIN m THEN m[d] ELSE 0]
  <2>1. elsewhere \subseteq CashMoves /\ elsewhere' \subseteq CashMoves
    BY DEF TypeOK
  <2>2. IsFiniteSet(elsewhere) /\ IsFiniteSet(elsewhere')
    BY <2>1, CardAssumption, FS_Subset
  <2>3. f \in [elsewhere -> Int] /\ g \in [elsewhere' -> Int]
    BY <2>1, CardAssumption
  <2>4. \A m \in elsewhere \ {move} : f[m] = g[m]
    BY <1>2
  <2>5. elsewhere \ {move} = elsewhere' \ {move} /\ move \in elsewhere'
    BY <1>2
  <2>6. g[move] = IF d \in DOMAIN move THEN move[d] ELSE 0
    BY <2>5
  <2>7. Moved(d) = SumFunction(f) /\ Moved(d)' = SumFunction(g)
    BY DEF Moved
  <2>8. (IF d \in DOMAIN move THEN move[d] ELSE 0) \in Int
    BY CardAssumption
  <2>. HIDE DEF f, g
  <2>9. /\ SumFunction(g) = SumFunction(f) - (IF move \in elsewhere THEN f[move] ELSE 0)
                               + (IF move \in elsewhere' THEN g[move] ELSE 0)
        /\ SumFunction(f) \in Int
    BY <2>2, <2>3, <2>4, <2>5, SumMoved
  <2>10. SumFunction(g) = SumFunction(f) + g[move]
    BY <1>2, <2>5, <2>6, <2>8, <2>9
  <2>. QED  BY <2>6, <2>7, <2>8, <2>9, <2>10
<1>8. ASSUME NEW d \in Dimension
      PROVE  cash'[d] = Post(Opened(InitialCash), SettledEntries(Own'))[d] + Moved(d)'
  <2>1. cash'[d] = cash[d] + (IF d \in DOMAIN move THEN move[d] ELSE 0)
    BY <1>2 DEF Post
  <2>2. cash[d] = Post(Opened(InitialCash), SettledEntries(Own))[d] + Moved(d)
    BY <1>1 DEF CashIsExplained
  <2>3. Post(Opened(InitialCash), SettledEntries(Own))[d] \in Int
    <3>1. Opened(InitialCash) \in Balances
      BY CardAssumption DEF Opened, Balances
    <3>2. Post(Opened(InitialCash), SettledEntries(Own)) \in Balances
      BY <3>1, BooksTypes, CashPosted DEF BooksTyped
    <3>. QED  BY <3>2 DEF Balances
  <2>. QED  BY <1>5, <1>7, <2>1, <2>2, <2>3
<1>9. CashIsExplained'
  BY <1>8 DEF CashIsExplained
<1>. QED  BY <1>6, <1>9, BooksPartsNext

LEMMA BooksKept ==
  ASSUME IInv, Next, TypeOK'
  PROVE  BooksBalance'
<1>1. TypeOK /\ RowsSound /\ BooksBalance
  BY DEF IInv
<1>2. ASSUME account'.RECEIVABLE = account.RECEIVABLE,
             UNCHANGED <<captures, disputes, statements, cash, collateral, elsewhere>>
      PROVE  BooksBalance'
  BY <1>1, <1>2, DisputesSame, BooksUntouched
<1>3. CASE CardNext
  <2>1. UNCHANGED <<captures, disputes, statements, cash, account, collateral, elsewhere>>
    BY <1>3 DEF CardNext, CreateCard, ActOnCard, replaceCard, AdvancePhysicalCard
  <2>. QED  BY <1>2, <2>1
<1>4. CASE AuthorizationNext
  <2>1. ASSUME NEW a \in Auths, NEW c \in Cards, NEW amount \in AuthAmounts,
               Authorize(a, c, amount)
        PROVE  BooksBalance'
    <3>1. account'.RECEIVABLE = account.RECEIVABLE
      BY <1>1, <2>1 DEF Authorize, postAuthorizationHold, TypeOK
    <3>. QED  BY <1>2, <2>1, <3>1 DEF Authorize
  <2>2. ASSUME NEW a \in Auths, NEW amount \in UsdAmounts, ReverseAuthorization(a, amount)
        PROVE  BooksBalance'
    <3>1. account'.RECEIVABLE = account.RECEIVABLE
      BY <1>1, <2>2, ReverseFacts
    <3>. QED  BY <1>2, <2>2, <3>1 DEF ReverseAuthorization
  <2>. QED
    BY <1>2, <1>4, <2>1, <2>2, CaptureBooks DEF AuthorizationNext, BeginCapture, Rollback
<1>5. CASE CreditNext
  <2>1. ASSUME NEW x \in Captures, NEW usd \in UsdAmounts, Refund(x, usd)  PROVE BooksBalance'
    BY <1>1, <2>1, RefundStep, CreditBooks
  <2>2. ASSUME NEW d \in Disputes, NEW x \in Captures, NEW usd \in UsdAmounts,
               OpenDispute(d, x, usd)
        PROVE  BooksBalance'
    <3>1. UNCHANGED <<captures, statements, cash, account, collateral, elsewhere>>
      BY <2>2 DEF OpenDispute
    <3>. QED  BY <1>1, <2>2, <3>1, DisputeOpened, BooksUntouched
  <2>3. ASSUME NEW d \in Disputes, RejectDispute(d)  PROVE BooksBalance'
    <3>1. UNCHANGED <<captures, statements, cash, account, collateral, elsewhere>>
      BY <2>3 DEF RejectDispute
    <3>. QED  BY <1>1, <2>3, <3>1, DisputeRejected, BooksUntouched
  <2>4. ASSUME NEW d \in Disputes, AcceptDispute(d)  PROVE BooksBalance'
    BY <1>1, <2>4, AcceptStep, CreditBooks
  <2>5. ASSUME NEW s \in Statements, GenerateStatement(s)  PROVE BooksBalance'
    <3>1. /\ statements[s] = None
          /\ statements'[s] = [due |-> positiveRemainder(account.RECEIVABLE), status |-> "OPEN"]
          /\ \A t \in Statements \ {s} : statements'[t] = statements[t]
      BY <1>1, <2>5 DEF GenerateStatement, TypeOK
    <3>2. Paid' = Paid /\ \A t \in Paid : statements'[t].due = statements[t].due
      BY <3>1 DEF Paid
    <3>3. PaidStatements' = PaidStatements
      BY <3>2 DEF PaidStatements
    <3>4. UNCHANGED <<captures, disputes, cash, account, collateral, elsewhere>>
      BY <2>5 DEF GenerateStatement
    <3>5. Owed' = Owed /\ Returned' = Returned
      BY <3>4 DEF Owed, Returned, Posted, Debt, Paidback, Settled, Usd, Adjusted, Disputed,
         DisputesOf
    <3>6. Own' = Own /\ \A d \in Dimension : Moved(d)' = Moved(d)
      BY <3>3, <3>4, <3>5 DEF Own, Returned, Moved
    <3>7. ReceivableExplained'
      BY <1>1, <3>3, <3>4, <3>5, BooksParts DEF ReceivableExplained
    <3>8. CashIsExplained'
      BY <1>1, <3>4, <3>6, BooksParts DEF CashIsExplained
    <3>. QED  BY <3>7, <3>8, BooksPartsNext
  <2>. QED
    BY <1>2, <1>5, <2>1, <2>2, <2>3, <2>4, <2>5, PaymentBooks DEF CreditNext, BeginPayment
<1>6. CASE SettingsNext
  <2>1. ASSUME NEW move \in CashMoves, Elsewhere(move)  PROVE BooksBalance'
    BY <1>1, <2>1, ElsewhereBooks
  <2>. QED
    BY <1>2, <1>6, <2>1 DEF SettingsNext, ConfigureRepayment, ConfigureAutoSellMandate
<1>. QED  BY <1>3, <1>4, <1>5, <1>6 DEF Next

-----------------------------------------------------------------------------
(* A customer who repays in cash                                           *)

Unheld == SumFunction([x \in Posted |-> BeyondHold(x)])

CashOnly == profile.mode = "CASH_ONLY" /\ elsewhere = {}

Covered ==
    /\ cash["SETTLED"] = cash["WITHDRAWABLE"] /\ cash["SETTLED"] >= 0
    /\ \A s \in Statements : statements[s] = None
    /\ pending \in Capturing => pending.cash =< cash["SETTLED"]
    /\ account.HELD =< cash["SETTLED"] + Unheld

LEMMA CashOnlyParts == CashOnlySound <=> (CashOnly => Covered)
BY DEF CashOnlySound, CashOnly, Covered, Unheld

LEMMA CashOnlyPartsNext == CashOnlySound' <=> (CashOnly' => Covered')
BY CashOnlyParts, PTL

LEMMA UnheldType == TypeOK => Unheld \in Nat
<1>. SUFFICES ASSUME TypeOK  PROVE Unheld \in Nat
  OBVIOUS
<1>1. IsFiniteSet(Posted)
  BY CardAssumption, FS_Subset DEF Posted
<1>2. [x \in Posted |-> BeyondHold(x)] \in [Posted -> Nat]
  BY SumTypes DEF SumsTyped
<1>. QED  BY <1>1, <1>2, SumIsNat DEF Unheld

LEMMA UnheldSame ==
  ASSUME captures' = captures
  PROVE  Unheld' = Unheld
BY DEF Unheld, Posted, BeyondHold, Settled, Usd

(* A mode once chosen stays, and others' postings stay. *)
LEMMA CashOnlyBefore ==
  ASSUME IInv, Next, CashOnly'
  PROVE  CashOnly
<1>1. TypeOK /\ RowsSound /\ profile'.mode = "CASH_ONLY" /\ elsewhere' = {}
  BY DEF IInv, CashOnly
<1>2. CASE CardNext
  <2>1. UNCHANGED <<profile, elsewhere>>
    BY <1>2 DEF CardNext, CreateCard, ActOnCard, replaceCard, AdvancePhysicalCard
  <2>. QED  BY <1>1, <2>1 DEF CashOnly
<1>3. CASE AuthorizationNext
  <2>1. ASSUME CommitCapture  PROVE profile'.mode = profile.mode /\ elsewhere' = elsewhere
    <3>1. PICK x \in Captures, a \in Auths, usd \in Nat, release \in Nat,
               sale \in [shares : Nat, proceeds : Nat], repaid \in Nat :
               CaptureFacts(x, a, usd, release, sale, repaid)
      BY <2>1, CommitCaptureFacts
    <3>2. PICK s \in {"ACTIVE", "FROZEN"} : profile' = [profile EXCEPT !.spending = s]
      BY <3>1 DEF CaptureFacts
    <3>. QED  BY <1>1, <3>1, <3>2 DEF CaptureFacts, TypeOK
  <2>2. profile'.mode = profile.mode /\ elsewhere' = elsewhere
    BY <1>3, <2>1 DEF AuthorizationNext, Authorize, ReverseAuthorization, BeginCapture, Rollback
  <2>. QED  BY <1>1, <2>2 DEF CashOnly
<1>4. CASE CreditNext
  <2>1. UNCHANGED <<profile, elsewhere>>
    BY <1>4 DEF CreditNext, Refund, OpenDispute, RejectDispute, AcceptDispute, GenerateStatement,
       BeginPayment, CommitPayment
  <2>. QED  BY <1>1, <2>1 DEF CashOnly
<1>5. CASE SettingsNext
  <2>1. ASSUME NEW mode \in Modes, ConfigureRepayment(mode)  PROVE CashOnly
    BY <1>1, <2>1 DEF ConfigureRepayment, RowsSound, CashOnly
  <2>2. ASSUME NEW mandate \in Mandates, ConfigureAutoSellMandate(mandate)  PROVE CashOnly
    BY <1>1, <2>2 DEF ConfigureAutoSellMandate, UpsertAutoSellMandate, CashOnly, TypeOK
  <2>3. ASSUME NEW move \in CashMoves, Elsewhere(move)  PROVE CashOnly
    BY <1>1, <2>3 DEF Elsewhere
  <2>. QED  BY <1>5, <2>1, <2>2, <2>3 DEF SettingsNext
<1>. QED  BY <1>2, <1>3, <1>4, <1>5 DEF Next

(* Nothing the customer's cash has to cover has changed. *)
LEMMA CoveredUntouched ==
  ASSUME Covered, UNCHANGED <<captures, statements, cash>>,
         account'.HELD = account.HELD, pending' \in {pending, None}
  PROVE  Covered'
<1>1. Unheld' = Unheld
  BY UnheldSame
<1>. QED  BY <1>1, AbsentRows DEF Covered

(* An approval was measured against the cash that is not on hold. *)
LEMMA AuthorizeCovered ==
  ASSUME TypeOK, CashOnly, Covered, NEW a \in Auths, NEW c \in Cards, NEW amount \in AuthAmounts,
         Authorize(a, c, amount)
  PROVE  Covered'
<1>1. PICK status \in {"DECLINED"} \cup (IF Approvable(c, amount) THEN {"APPROVED"} ELSE {}) :
        postAuthorizationHold(IF status = "APPROVED" THEN Usd(amount) ELSE 0)
  BY DEF Authorize
<1>2. Usd(amount) \in Nat
  BY CardAssumption, UsdType
<1>3. /\ account.HELD \in Int /\ account.RECEIVABLE \in Int
      /\ account'.HELD = account.HELD + (IF status = "APPROVED" THEN Usd(amount) ELSE 0)
  BY <1>1, <1>2 DEF postAuthorizationHold, TypeOK
<1>4. UNCHANGED <<captures, statements, cash, pending>>
  BY DEF Authorize
<1>5. Unheld' = Unheld /\ Unheld \in Nat
  BY <1>4, UnheldSame, UnheldType
<1>6. cash["SETTLED"] \in Int /\ CashEligible = cash["SETTLED"]
  BY CashFacts DEF Covered
<1>7. account'.HELD =< cash["SETTLED"] + Unheld
  <2>1. CASE status = "APPROVED"
    <3>1. Usd(amount) =< SpendingPower
      BY <1>1, <2>1 DEF Approvable
    <3>2. Gross \in Int /\ Gross =< cash["SETTLED"]
      BY <1>6, CardAssumption DEF Gross, CashOnly, minimum
    <3>3. account.HELD + Usd(amount) =< cash["SETTLED"]
      BY <1>2, <1>3, <1>6, <3>1, <3>2 DEF SpendingPower, positiveRemainder
    <3>. QED  BY <1>2, <1>3, <1>5, <1>6, <2>1, <3>3
  <2>2. CASE status # "APPROVED"
    BY <1>3, <2>2 DEF Covered
  <2>. QED  BY <2>1, <2>2
<1>. QED  BY <1>4, <1>5, <1>7 DEF Covered

LEMMA ReverseCovered ==
  ASSUME TypeOK, Covered, NEW a \in Auths, NEW amount \in UsdAmounts,
         ReverseAuthorization(a, amount)
  PROVE  Covered'
<1>1. amount \in Nat /\ account'.HELD = account.HELD - amount
  BY ReverseFacts
<1>2. UNCHANGED <<captures, statements, cash, pending>>
  BY DEF ReverseAuthorization
<1>3. Unheld' = Unheld /\ Unheld \in Nat /\ account.HELD \in Int /\ cash["SETTLED"] \in Int
  BY <1>2, UnheldSame, UnheldType, CashFacts DEF TypeOK
<1>. QED  BY <1>1, <1>2, <1>3 DEF Covered

LEMMA BeginCovered ==
  ASSUME TypeOK, CashOnly, Covered, NEW x \in Captures, NEW a \in Auths,
         NEW amount \in CaptureAmounts, NEW final \in BOOLEAN, BeginCapture(x, a, amount, final)
  PROVE  Covered'
<1>1. UNCHANGED <<captures, statements, cash, account>>
  BY DEF BeginCapture
<1>2. pending'.cash = minimum(Usd(amount), CashEligible)
  BY DEF BeginCapture, CashOnly
<1>3. Usd(amount) \in Nat /\ cash["SETTLED"] \in Int /\ CashEligible = cash["SETTLED"]
  BY CardAssumption, UsdType, CashFacts DEF Covered
<1>4. pending'.cash =< cash["SETTLED"]
  BY <1>2, <1>3 DEF minimum
<1>5. Unheld' = Unheld
  BY <1>1, UnheldSame
<1>. QED  BY <1>1, <1>4, <1>5 DEF Covered

(* What was captured beyond the hold is paid from cash no hold counted on. *)
LEMMA CaptureCovered ==
  ASSUME IInv, TypeOK', CashOnly, Covered, CommitCapture
  PROVE  Covered'
<1>1. TypeOK /\ RowsSound
  BY DEF IInv
<1>2. PICK x \in Captures, a \in Auths, usd \in Nat, release \in Nat,
           sale \in [shares : Nat, proceeds : Nat], repaid \in Nat :
           CaptureFacts(x, a, usd, release, sale, repaid)
  BY CommitCaptureFacts
<1>3. /\ x \notin Posted /\ Posted' = Posted \cup {x}
      /\ \A y \in Posted : captures'[y] = captures[y]
      /\ Settled(x)' = usd /\ captures'[x].released = release
  BY <1>1, <1>2, CaptureRows
<1>4. Unheld' = Unheld + positiveRemainder(usd - release)
  <2>. DEFINE f == [y \in Posted |-> BeyondHold(y)]
              g == [y \in Posted' |-> BeyondHold(y)']
  <2>1. IsFiniteSet(Posted) /\ IsFiniteSet(Posted')
    BY CardAssumption, FS_Subset DEF Posted
  <2>2. f \in [Posted -> Int] /\ g \in [Posted' -> Int]
    BY <1>1, SumTypes, SumTypesNext DEF SumsTyped
  <2>3. \A y \in Posted : BeyondHold(y)' = BeyondHold(y)
    BY <1>3 DEF BeyondHold, Settled, Usd
  <2>4. \A y \in Posted \ {x} : f[y] = g[y]
    BY <1>3, <2>3
  <2>5. x \in Posted' /\ g[x] = positiveRemainder(usd - release)
    BY <1>3 DEF BeyondHold
  <2>6. Posted' \ {x} = Posted \ {x}
    BY <1>3
  <2>7. Unheld = SumFunction(f) /\ Unheld' = SumFunction(g)
    BY DEF Unheld
  <2>. HIDE DEF f, g
  <2>8. /\ SumFunction(g) = SumFunction(f) - (IF x \in Posted THEN f[x] ELSE 0)
                               + (IF x \in Posted' THEN g[x] ELSE 0)
        /\ SumFunction(f) \in Int
    BY <2>1, <2>2, <2>4, <2>6, SumMoved
  <2>. QED  BY <1>3, <2>5, <2>7, <2>8
<1>5. /\ pending.cash =< cash["SETTLED"] /\ repaid = pending.cash /\ sale.proceeds = 0
      /\ repaid =< usd /\ account'.HELD = account.HELD - release
      /\ cash' = Post(cash, SettledEntries(sale.proceeds - repaid))
      /\ statements' = statements /\ pending' = None
  BY <1>2 DEF CaptureFacts, CashOnly, Covered
<1>6. /\ cash'["SETTLED"] = cash["SETTLED"] - repaid
      /\ cash'["WITHDRAWABLE"] = cash["WITHDRAWABLE"] - repaid
  <2>1. cash \in Balances /\ sale.proceeds - repaid \in Int
    BY <1>1, <1>5 DEF TypeOK
  <2>2. \A d \in Dimension : cash'[d] =
           cash[d] + (IF d \in {"SETTLED", "WITHDRAWABLE"} THEN sale.proceeds - repaid ELSE 0)
    BY <1>5, <2>1, CashPosted
  <2>. QED  BY <1>1, <1>5, <2>2, CashFacts DEF Dimension
<1>7. /\ cash["SETTLED"] \in Int /\ cash["WITHDRAWABLE"] \in Int /\ account.HELD \in Int
      /\ Unheld \in Nat
  BY <1>1, CashFacts, UnheldType DEF TypeOK
<1>8. account'.HELD =< cash'["SETTLED"] + Unheld'
  BY <1>4, <1>5, <1>6, <1>7 DEF Covered, positiveRemainder
<1>9. cash'["SETTLED"] = cash'["WITHDRAWABLE"] /\ cash'["SETTLED"] >= 0
  BY <1>5, <1>6, <1>7 DEF Covered
<1>. QED  BY <1>5, <1>8, <1>9, AbsentRows DEF Covered

LEMMA CreditCovered ==
  ASSUME TypeOK, Covered, NEW x, NEW usd, NEW reduction, CreditStep(x, usd, reduction)
  PROVE  Covered'
<1>1. /\ usd \in Nat /\ reduction \in Nat /\ reduction =< usd
      /\ account'.HELD = account.HELD
      /\ cash' = Post(cash, SettledEntries(usd - reduction))
      /\ UNCHANGED <<statements, pending>>
  BY DEF CreditStep
<1>2. Unheld' = Unheld
  <2>1. Posted' = Posted /\ \A y \in Posted : BeyondHold(y)' = BeyondHold(y)
    BY DEF CreditStep, BeyondHold, Settled, Usd
  <2>. QED  BY <2>1 DEF Unheld
<1>3. /\ cash'["SETTLED"] = cash["SETTLED"] + (usd - reduction)
      /\ cash'["WITHDRAWABLE"] = cash["WITHDRAWABLE"] + (usd - reduction)
  <2>1. cash \in Balances /\ usd - reduction \in Int
    BY <1>1 DEF TypeOK
  <2>2. \A d \in Dimension : cash'[d] =
           cash[d] + (IF d \in {"SETTLED", "WITHDRAWABLE"} THEN usd - reduction ELSE 0)
    BY <1>1, <2>1, CashPosted
  <2>. QED  BY <2>2 DEF Dimension
<1>4. /\ cash["SETTLED"] \in Int /\ cash["WITHDRAWABLE"] \in Int /\ account.HELD \in Int
      /\ Unheld \in Nat
  BY CashFacts, UnheldType DEF TypeOK
<1>5. cash'["SETTLED"] >= cash["SETTLED"] /\ cash'["SETTLED"] = cash'["WITHDRAWABLE"]
  BY <1>1, <1>3, <1>4 DEF Covered
<1>6. cash'["SETTLED"] >= 0 /\ account'.HELD =< cash'["SETTLED"] + Unheld'
  BY <1>1, <1>2, <1>3, <1>4, <1>5 DEF Covered
<1>7. pending' \in Capturing => pending'.cash =< cash'["SETTLED"]
  <2>1. pending \in Capturing => pending.cash \in Nat
    BY DEF Capturing
  <2>. QED  BY <1>1, <1>3, <1>4, <1>5, <2>1 DEF Covered
<1>. QED  BY <1>1, <1>5, <1>6, <1>7 DEF Covered

LEMMA CashOnlyKept ==
  ASSUME IInv, Next, TypeOK'
  PROVE  CashOnlySound'
<1>. SUFFICES ASSUME CashOnly'  PROVE Covered'
  BY CashOnlyPartsNext
<1>1. TypeOK /\ RowsSound /\ PendingSound /\ CashOnly /\ Covered
  BY CashOnlyBefore, CashOnlyParts DEF IInv
<1>2. ASSUME UNCHANGED <<captures, statements, cash, account>>, pending' \in {pending, None}
      PROVE  Covered'
  BY <1>1, <1>2, CoveredUntouched
<1>3. CASE CardNext
  <2>1. UNCHANGED <<captures, statements, cash, account, pending>>
    BY <1>3 DEF CardNext, CreateCard, ActOnCard, replaceCard, AdvancePhysicalCard
  <2>. QED  BY <1>2, <2>1
<1>4. CASE AuthorizationNext
  BY <1>1, <1>2, <1>4, AuthorizeCovered, ReverseCovered, BeginCovered, CaptureCovered
     DEF AuthorizationNext, Rollback
<1>5. CASE CreditNext
  <2>1. ASSUME NEW x \in Captures, NEW usd \in UsdAmounts, Refund(x, usd)  PROVE Covered'
    BY <1>1, <2>1, RefundStep, CreditCovered
  <2>2. ASSUME NEW d \in Disputes, AcceptDispute(d)  PROVE Covered'
    BY <1>1, <2>2, AcceptStep, CreditCovered
  <2>3. ASSUME NEW s \in Statements,
               GenerateStatement(s) \/ BeginPayment(s) \/ CommitPayment
        PROVE  FALSE
    BY <1>1, <2>3 DEF GenerateStatement, BeginPayment, CommitPayment, CashOnly, Covered,
       PendingSound
  <2>4. ~CommitPayment
    BY <1>1 DEF CommitPayment, Covered, PendingSound
  <2>. QED
    BY <1>2, <1>5, <2>1, <2>2, <2>3, <2>4 DEF CreditNext, OpenDispute, RejectDispute
<1>6. CASE SettingsNext
  <2>1. ASSUME NEW move \in CashMoves, Elsewhere(move)  PROVE FALSE
    BY <2>1 DEF Elsewhere, CashOnly
  <2>. QED
    BY <1>2, <1>6, <2>1 DEF SettingsNext, ConfigureRepayment, ConfigureAutoSellMandate
<1>. QED  BY <1>3, <1>4, <1>5, <1>6 DEF Next

-----------------------------------------------------------------------------
(* The invariant holds *)

LEMMA InitInv == Init => IInv
<1>. SUFFICES ASSUME Init  PROVE IInv
  OBVIOUS
<1>1. TypeOK /\ PendingSound /\ RowsSound
  BY InitTypes, InitRows
<1>2. Posted = {} /\ Open = {} /\ Paid = {} /\ elsewhere = {}
  BY DEF Init, Posted, Open, OpenAuthorization, Paid
<1>3. /\ Owed = 0 /\ Returned = 0 /\ PaidStatements = 0 /\ Unheld = 0
      /\ SumFunction([a \in Open |-> RemainingHold(a)]) = 0
      /\ \A d \in Dimension : Moved(d) = 0
  BY <1>2, SumOfNone DEF Owed, Returned, PaidStatements, Unheld, Moved
<1>4. HoldsExplained
  BY <1>2, <1>3 DEF HoldsExplained, Init
<1>5. CreditsSound /\ GivenBackOnce
  BY <1>2 DEF CreditsSound, GivenBackOnce
<1>6. Own = 0
  BY <1>3 DEF Own, Returned, Init, SeedCollateral
<1>7. Opened(InitialCash) \in Balances
  BY CardAssumption DEF Opened, Balances
<1>8. CashIsExplained
  <2>1. SUFFICES ASSUME NEW d \in Dimension
                 PROVE  cash[d] = Post(Opened(InitialCash), SettledEntries(Own))[d] + Moved(d)
    BY DEF CashIsExplained
  <2>2. Post(Opened(InitialCash), SettledEntries(Own))[d]
          = Opened(InitialCash)[d] + (IF d \in {"SETTLED", "WITHDRAWABLE"} THEN Own ELSE 0)
    BY <1>6, <1>7, CashPosted
  <2>3. cash[d] = Opened(InitialCash)[d] /\ cash[d] \in Int
    BY <1>7 DEF Init, Balances
  <2>. QED  BY <1>3, <1>6, <2>2, <2>3
<1>9. ReceivableExplained
  BY <1>3 DEF ReceivableExplained, Init
<1>10. Covered
  <2>1. cash["SETTLED"] = InitialCash /\ cash["WITHDRAWABLE"] = InitialCash
    BY DEF Init, Opened, Dimension
  <2>. QED  BY <1>3, <2>1, CardAssumption, AbsentRows DEF Covered, Init
<1>. QED
  BY <1>1, <1>4, <1>5, <1>8, <1>9, <1>10, BooksParts, CashOnlyParts DEF IInv

LEMMA StutterInv ==
  ASSUME IInv, UNCHANGED vars
  PROVE  IInv'
<1>1. TypeOK' /\ PendingSound' /\ RowsSound'
  BY DEF vars, IInv, TypeOK, PendingSound, RowsSound, OpenAuthorization, Usd, Posted
<1>2. UNCHANGED <<auths, captures, disputes, statements, profile, cash, account, collateral,
                  pending, elsewhere>>
  BY DEF vars
<1>3. HoldsExplained'
  BY <1>2, HoldsUntouched DEF IInv
<1>4. BooksBalance'
  BY <1>2, DisputesSame, BooksUntouched DEF IInv
<1>5. Given'
  BY <1>2, DisputesSame, GivenUntouched DEF IInv, Given
<1>6. CashOnlySound'
  <2>1. CashOnly' => CashOnly /\ Covered'
    BY <1>2, CashOnlyParts, CoveredUntouched DEF IInv, CashOnly
  <2>. QED  BY <2>1, CashOnlyPartsNext
<1>. QED  BY <1>1, <1>3, <1>4, <1>5, <1>6 DEF IInv, Given

LEMMA Invariant == Spec => []IInv
<1>1. ASSUME IInv, Next  PROVE IInv'
  <2>1. TypeOK'
    BY <1>1, TypesKept
  <2>2. PendingSound' /\ RowsSound' /\ HoldsExplained'
    BY <1>1, <2>1, PendingKept, RowsKept, HoldsKept
  <2>3. Given'
    BY <1>1, GivenKept
  <2>4. BooksBalance' /\ CashOnlySound'
    BY <1>1, <2>1, BooksKept, CashOnlyKept
  <2>. QED  BY <2>1, <2>2, <2>3, <2>4 DEF IInv, Given
<1>2. IInv /\ [Next]_vars => IInv'
  BY <1>1, StutterInv
<1>. QED  BY InitInv, <1>2, PTL DEF Spec

-----------------------------------------------------------------------------
(* The card model is type correct. *)
THEOREM TypeCorrect == Spec => []TypeOK
<1>1. IInv => TypeOK
  BY DEF IInv
<1>. QED  BY <1>1, Invariant, PTL

(* The card account holds what the open authorizations still hold, however *)
(* captures, tips and reversals of captures.go and adjustments.go share    *)
(* out each hold.                                                          *)
THEOREM HoldsAlwaysExplained == Spec => []HoldsExplained
<1>1. IInv => HoldsExplained
  BY DEF IInv
<1>. QED  BY <1>1, Invariant, PTL

(* Captures, credits, sales and statement payments explain debt and cash,  *)
(* whatever other modules post between the read of a balance and its use.  *)
THEOREM BooksAlwaysBalance == Spec => []BooksBalance
<1>1. IInv => BooksBalance
  BY DEF IInv
<1>. QED  BY <1>1, Invariant, PTL

(* Refunds and disputes together give back at most the capture, in any     *)
(* order (adjustments.go, disputes.go).                                    *)
THEOREM GivenBackAtMostOnce == Spec => []GivenBackOnce
<1>1. IInv => GivenBackOnce
  BY DEF IInv
<1>. QED  BY <1>1, Invariant, PTL

(* The holds of a customer who repays in cash are covered as long as no    *)
(* other module moves cash (spending.go).                                  *)
THEOREM ApprovalsAlwaysCovered == Spec => []ApprovalsCovered
<1>1. ASSUME IInv  PROVE ApprovalsCovered
  <2>. SUFFICES ASSUME CashOnly
                PROVE  account.HELD =< CashEligible + Unheld
    BY DEF ApprovalsCovered, CashOnly, Unheld
  <2>1. TypeOK /\ Covered
    BY <1>1, CashOnlyParts DEF IInv
  <2>2. CashEligible = cash["SETTLED"]
    BY <2>1, CashFacts DEF Covered
  <2>. QED  BY <2>1, <2>2 DEF Covered
<1>. QED  BY <1>1, Invariant, PTL
=============================================================================
