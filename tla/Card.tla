-------------------------------- MODULE Card --------------------------------
(***************************************************************************)
(* One customer's cards: internal/card over the tables of                  *)
(* db/migrations/000007_card_mvp.up.sql.                                   *)
(*                                                                         *)
(* Every operation locks the customer profile, so operations of one        *)
(* customer do not overlap, but the cash account they repay from is not    *)
(* locked: a capture and a statement payment decide on balances in one     *)
(* step and post in another, and other modules post in between.  For an    *)
(* authorization the two are one step, because it posts to the card        *)
(* account only: cash that moves meanwhile might as well move after it.    *)
(*                                                                         *)
(* Every operation also inserts an outbox event with event_version 1, and  *)
(* outbox.events has one row per aggregate, event type and version: what   *)
(* would announce the same type of an aggregate a second time fails.       *)
(*                                                                         *)
(* A repeated provider event or request is answered from its row and       *)
(* changes nothing, so it is left out.  All of this happens on one day.    *)
(***************************************************************************)
EXTENDS Cash, FiniteSets, Functions

CONSTANTS
    Cards, Auths, Captures, Disputes, Statements,
    Modes,           \* repayment modes the customer may choose
    Mandates,        \* auto-sell mandates the customer may give
    AuthAmounts, CaptureAmounts, \* in the merchant's currency
    UsdAmounts,      \* amounts of reversals, refunds and disputes
    Rate,            \* USD per merchant unit, the markup included
    MaxTip,          \* maximum_tip_rate, in percent
    SpendingCap,     \* the lower of the policy's two caps
    Loan,            \* USD one share adds to the spending power
    LimitPrice, Price, \* protected limit and execution price of a share
    Retain, DailyMax,  \* of the auto-sell mandate
    Seed,            \* shares the collateral simulator gives
    InitialCash,
    CashMoves,       \* entries other modules post, each once
    None

ASSUME CardAssumption ==
    /\ IsFiniteSet(Auths) /\ IsFiniteSet(Captures) /\ IsFiniteSet(Disputes)
    /\ IsFiniteSet(Statements) /\ IsFiniteSet(CashMoves)
    /\ None \notin Statements
    /\ Modes \subseteq {"CASH_ONLY", "CASH_THEN_AUTO_SELL", "MONTHLY_STATEMENT"}
    /\ Mandates \subseteq {"ENABLED", "DISABLED"}
    /\ AuthAmounts \subseteq Nat \ {0} /\ CaptureAmounts \subseteq Nat \ {0}
    /\ UsdAmounts \subseteq Nat \ {0}
    /\ Rate \in Nat \ {0} /\ MaxTip \in Nat /\ SpendingCap \in Nat /\ Loan \in Nat
    /\ LimitPrice \in Nat \ {0} /\ Price \in Nat /\ LimitPrice =< Price
    /\ Retain \in Nat /\ DailyMax \in Nat /\ Seed \in Nat /\ InitialCash \in Nat
    /\ \A m \in CashMoves : m \in [DOMAIN m -> Int]

VARIABLES
    cards, auths, captures, disputes, statements,
    profile,    \* repayment mode and whether it was configured, spending, mandate
    cash,       \* the customer's USD account
    account,    \* the card account: HELD and RECEIVABLE
    collateral, \* shares, and the USD some were sold for today
    pending,    \* the capture or statement payment under way
    elsewhere   \* history: what other modules have posted

vars == <<cards, auths, captures, disputes, statements, profile, cash, account,
          collateral, pending, elsewhere>>

CardStatus == {"CREATED", "ACTIVE", "FROZEN", "REPLACED", "CLOSED", "APPLICATION_SUBMITTED",
               "UNDER_REVIEW", "APPROVED", "MANUFACTURING", "SHIPPED", "DELIVERED",
               "ADDRESS_REVIEW", "SHIPMENT_DELAYED", "REJECTED", "LOST", "STOLEN",
               "REPLACEMENT_REQUESTED", "CANCELED"}

CardRow == [type : {"VIRTUAL", "PHYSICAL"}, status : CardStatus, pin : BOOLEAN,
            sent : SUBSET {"card.state.changed", "card.physical.state.changed"}]

Authorization == [amount : AuthAmounts, reversed : Nat,
                  status : {"APPROVED", "PARTIALLY_CAPTURED", "CAPTURED", "REVERSED", "DECLINED"}]

(* "reduced" sums what refunds and accepted disputes took off the debt. *)
Capture == [auth : Auths, amount : CaptureAmounts, released : Nat, repaid : Nat,
            refunded : Nat, reduced : Nat]

Dispute == [capture : Captures, amount : UsdAmounts, status : {"OPEN", "ACCEPTED", "REJECTED"}]

Statement == [due : Nat, status : {"OPEN", "PAID"}]

Capturing == [capture : Captures, auth : Auths, amount : CaptureAmounts,
              final : BOOLEAN, cash : Nat]

Mode == Modes \cup {"CASH_ONLY"}

(* An absent row is no row. *)
ASSUME RowAssumption ==
    /\ None \notin CardRow \cup Authorization \cup Capture \cup Dispute \cup Statement \cup Capturing
    /\ Statements \cap Capturing = {}

TypeOK ==
    /\ cards \in [Cards -> CardRow \cup {None}]
    /\ auths \in [Auths -> Authorization \cup {None}]
    /\ captures \in [Captures -> Capture \cup {None}]
    /\ disputes \in [Disputes -> Dispute \cup {None}]
    /\ statements \in [Statements -> Statement \cup {None}]
    /\ profile \in [mode : Mode, chosen : BOOLEAN, spending : {"ACTIVE", "FROZEN"},
                    mandate : Mandates \cup {"NONE"}]
    /\ cash \in Balances
    /\ account \in [HELD : Int, RECEIVABLE : Int]
    /\ collateral \in [shares : Nat, sold : Nat]
    /\ pending \in Capturing \cup Statements \cup {None}
    /\ elsewhere \subseteq CashMoves

(* A profile as ensureProfile creates it. *)
CreateCustomerProfile ==
    [mode |-> "CASH_ONLY", chosen |-> FALSE, spending |-> "ACTIVE", mandate |-> "NONE"]

(* The simulator gives a customer collateral once, at registration here.   *)
SeedCollateral == [shares |-> Seed, sold |-> 0]

Init ==
    /\ cards = [c \in Cards |-> None]
    /\ auths = [a \in Auths |-> None]
    /\ captures = [x \in Captures |-> None]
    /\ disputes = [d \in Disputes |-> None]
    /\ statements = [s \in Statements |-> None]
    /\ profile = CreateCustomerProfile
    /\ cash = Opened(InitialCash)
    /\ account = [HELD |-> 0, RECEIVABLE |-> 0]
    /\ collateral = SeedCollateral
    /\ pending = None
    /\ elsewhere = {}

(* No transaction holds the profile row. *)
ProfileFree == pending = None

Usd(amount) == amount * Rate

minimum(left, right) == IF left =< right THEN left ELSE right

positiveRemainder(value) == IF value > 0 THEN value ELSE 0

-----------------------------------------------------------------------------
(* Postings of ledger.go to the card account, and to the cash account.     *)

postAuthorizationHold(usd) == account' = [account EXCEPT !.HELD = @ + usd]

releaseAuthorizationHold(usd) == account' = [account EXCEPT !.HELD = @ - usd]

postCaptureReceivable(usd, release) ==
    [account EXCEPT !.RECEIVABLE = @ + usd, !.HELD = @ - release]

postCashRepayment(books, usd) == [books EXCEPT !.RECEIVABLE = @ - usd]

postStatementRepayment(usd) ==
    /\ account' = [account EXCEPT !.RECEIVABLE = @ - usd]
    /\ cash' = Post(cash, SettledEntries(-usd))

refundEntries(receivableReduction, cashCredit) ==
    /\ account' = [account EXCEPT !.RECEIVABLE = @ - receivableReduction]
    /\ cash' = Post(cash, SettledEntries(cashCredit))

-----------------------------------------------------------------------------
(* Cards *)

UserAction == {"ACTIVATE", "SET_PIN", "CHANGE_PIN", "FREEZE", "UNFREEZE", "REPORT_LOST",
               "REPORT_STOLEN", "CLOSE"}

(* The statuses a user may act in, the status that follows, and the PIN.   *)
UserTransition(card, action) ==
    CASE action = "ACTIVATE" -> [from |-> {"CREATED", "DELIVERED"}, to |-> "ACTIVE"]
      [] action \in {"SET_PIN", "CHANGE_PIN"} ->
           [from |-> IF card.pin = (action = "CHANGE_PIN") THEN {"ACTIVE"} ELSE {}, to |-> "ACTIVE"]
      [] action = "FREEZE" -> [from |-> {"ACTIVE"}, to |-> "FROZEN"]
      [] action = "UNFREEZE" -> [from |-> {"FROZEN"}, to |-> "ACTIVE"]
      [] action \in {"REPORT_LOST", "REPORT_STOLEN"} ->
           [from |-> IF card.type = "VIRTUAL" THEN {} ELSE {"ACTIVE", "FROZEN"},
            to |-> IF action = "REPORT_LOST" THEN "LOST" ELSE "STOLEN"]
      [] action = "CLOSE" -> [from |-> CardStatus \ {"CLOSED", "REPLACED", "CANCELED"}, to |-> "CLOSED"]

PhysicalTransition ==
    {<<"APPLICATION_SUBMITTED", to>> : to \in {"UNDER_REVIEW", "ADDRESS_REVIEW", "CANCELED"}}
    \cup {<<"ADDRESS_REVIEW", to>> : to \in {"UNDER_REVIEW", "REJECTED", "CANCELED"}}
    \cup {<<"UNDER_REVIEW", to>> : to \in {"APPROVED", "REJECTED", "ADDRESS_REVIEW"}}
    \cup {<<"APPROVED", to>> : to \in {"MANUFACTURING", "CANCELED"}}
    \cup {<<"MANUFACTURING", to>> : to \in {"SHIPPED", "SHIPMENT_DELAYED"}}
    \cup {<<"SHIPMENT_DELAYED", to>> : to \in {"SHIPPED", "CANCELED"}}
    \cup {<<"SHIPPED", to>> : to \in {"DELIVERED", "SHIPMENT_DELAYED"}}
    \cup {<<from, to>> : from \in {"LOST", "STOLEN"}, to \in {"REPLACEMENT_REQUESTED", "CLOSED"}}
    \cup {<<"REPLACEMENT_REQUESTED", "REPLACED">>}

(* The unique index allows one virtual card that is not replaced or closed. *)
OpenVirtual(c) ==
    cards[c] # None /\ cards[c].type = "VIRTUAL" /\ cards[c].status \notin {"REPLACED", "CLOSED"}

Provisioned(type) ==
    [type |-> type, pin |-> FALSE, sent |-> {},
     status |-> IF type = "VIRTUAL" THEN "CREATED" ELSE "APPLICATION_SUBMITTED"]

CreateCard(c, type) ==
    /\ ProfileFree
    /\ cards[c] = None
    /\ type = "VIRTUAL" => \A other \in Cards : ~OpenVirtual(other)
    /\ cards' = [cards EXCEPT ![c] = Provisioned(type)]
    /\ UNCHANGED <<auths, captures, disputes, statements, profile, cash, account, collateral,
                   pending, elsewhere>>

(* Every event has version 1: its type can be announced once. *)
recordMutation(c, event) == event \notin cards[c].sent

UpdateCardState(c, status, pin, event) ==
    cards' = [cards EXCEPT ![c].status = status, ![c].pin = pin, ![c].sent = @ \cup {event}]

ActOnCard(c, action) ==
    /\ ProfileFree
    /\ cards[c] # None
    /\ recordMutation(c, "card.state.changed")
    /\ LET move == UserTransition(cards[c], action)
       IN  /\ cards[c].status \in move.from
           /\ UpdateCardState(c, move.to, cards[c].pin \/ action = "SET_PIN", "card.state.changed")
    /\ UNCHANGED <<auths, captures, disputes, statements, profile, cash, account, collateral,
                   pending, elsewhere>>

(* The event of a replacement belongs to the new card. *)
replaceCard(c, new) ==
    /\ ProfileFree
    /\ cards[c] # None /\ cards[c].status \in {"ACTIVE", "FROZEN", "LOST", "STOLEN"}
    /\ cards[new] = None
    /\ cards' = [cards EXCEPT ![c].status = "REPLACED", ![new] = Provisioned(cards[c].type)]
    /\ UNCHANGED <<auths, captures, disputes, statements, profile, cash, account, collateral,
                   pending, elsewhere>>

(* An administrator's step locks the card and not the profile. *)
AdvancePhysicalCard(c, to) ==
    /\ cards[c] # None /\ cards[c].type = "PHYSICAL"
    /\ <<cards[c].status, to>> \in PhysicalTransition
    /\ recordMutation(c, "card.physical.state.changed")
    /\ UpdateCardState(c, to, cards[c].pin, "card.physical.state.changed")
    /\ UNCHANGED <<auths, captures, disputes, statements, profile, cash, account, collateral,
                   pending, elsewhere>>

-----------------------------------------------------------------------------
(* Settings, and the cash account's other users *)

UpdateRepaymentMode(mode) == profile' = [profile EXCEPT !.mode = mode, !.chosen = TRUE]

ConfigureRepayment(mode) ==
    /\ ProfileFree
    /\ ~profile.chosen
    /\ UpdateRepaymentMode(mode)
    /\ UNCHANGED <<cards, auths, captures, disputes, statements, cash, account, collateral,
                   pending, elsewhere>>

(* The mandate keeps its first id, and with it its one event. *)
UpsertAutoSellMandate(mandate) == profile' = [profile EXCEPT !.mandate = mandate]

ConfigureAutoSellMandate(mandate) ==
    /\ ProfileFree
    /\ profile.mandate = "NONE"
    /\ UpsertAutoSellMandate(mandate)
    /\ UNCHANGED <<cards, auths, captures, disputes, statements, cash, account, collateral,
                   pending, elsewhere>>

(* Securities, banking and crypto post to the same cash account. *)
Elsewhere(move) ==
    /\ move \notin elsewhere
    /\ elsewhere' = elsewhere \cup {move}
    /\ cash' = Post(cash, move)
    /\ UNCHANGED <<cards, auths, captures, disputes, statements, profile, account, collateral,
                   pending>>

-----------------------------------------------------------------------------
(* Authorizations *)

CapturesOf(a) == {x \in Captures : captures[x] # None /\ captures[x].auth = a}

Captured(a) == SumFunction([x \in CapturesOf(a) |-> captures[x].amount])

Released(a) == SumFunction([x \in CapturesOf(a) |-> captures[x].released])

(* What an authorization still holds. *)
RemainingHold(a) == Usd(auths[a].amount) - auths[a].reversed - Released(a)

OpenAuthorization(a) ==
    auths[a] # None /\ auths[a].status \in {"APPROVED", "PARTIALLY_CAPTURED"}

CashEligible ==
    minimum(positiveRemainder(cash["SETTLED"]), positiveRemainder(cash["WITHDRAWABLE"]))

(* A stale quote or a closed market makes this zero and a sale fail: an    *)
(* authorization may be declined and a sale may fill nothing anyhow.       *)
CollateralEligible == collateral.shares * Loan

Gross ==
    minimum(CashEligible + (IF profile.mode = "CASH_ONLY" THEN 0 ELSE CollateralEligible),
            SpendingCap)

(* Mutant: a spending power that forgets what is on hold. *)
SpendingPowerUnheld == Gross - positiveRemainder(account.RECEIVABLE)

SpendingPower ==
    Gross - positiveRemainder(account.HELD) - positiveRemainder(account.RECEIVABLE)

Approvable(c, amount) ==
    /\ cards[c].status = "ACTIVE" /\ profile.spending = "ACTIVE"
    /\ Usd(amount) =< SpendingPower

(* The simulator may decline anything. *)
Authorize(a, c, amount) ==
    /\ ProfileFree
    /\ auths[a] = None /\ cards[c] # None
    /\ \E status \in {"DECLINED"} \cup (IF Approvable(c, amount) THEN {"APPROVED"} ELSE {}) :
          /\ auths' = [auths EXCEPT ![a] = [amount |-> amount, reversed |-> 0, status |-> status]]
          /\ postAuthorizationHold(IF status = "APPROVED" THEN Usd(amount) ELSE 0)
    /\ UNCHANGED <<cards, captures, disputes, statements, profile, cash, collateral, pending,
                   elsewhere>>

UpdateAuthorizationTotals(a, status, more) ==
    auths' = [auths EXCEPT ![a].status = status, ![a].reversed = @ + more]

(* The event card.authorization.reversed allows one reversal, and nothing  *)
(* else adds to "reversed" while the authorization is open.                *)
ReverseAuthorization(a, amount) ==
    /\ ProfileFree
    /\ OpenAuthorization(a)
    /\ amount =< RemainingHold(a)
    /\ auths[a].reversed = 0
    /\ UpdateAuthorizationTotals(
           a, IF amount = RemainingHold(a) THEN "REVERSED" ELSE auths[a].status, amount)
    /\ releaseAuthorizationHold(amount)
    /\ UNCHANGED <<cards, captures, disputes, statements, profile, cash, collateral, pending,
                   elsewhere>>

-----------------------------------------------------------------------------
(* Captures *)

NoSale == [shares |-> 0, proceeds |-> 0]

SoldToday == collateral.sold

(* The shares are sized by the worst price the mandate permits, and the    *)
(* provider fills all of them, half of them, or none.                      *)
Sales(needed) ==
    LET wanted    == minimum(needed, positiveRemainder(DailyMax - SoldToday))
        requested == minimum((wanted + LimitPrice - 1) \div LimitPrice,
                             positiveRemainder(collateral.shares - Retain))
        fills     == IF profile.mandate = "ENABLED"
                     THEN {requested, requested \div 2} ELSE {}
    IN  {NoSale} \cup {[shares |-> filled, proceeds |-> filled * Price] : filled \in fills}

InsertAutoSellExecution(sale) ==
    collateral' = [collateral EXCEPT !.shares = @ - sale.shares, !.sold = @ + sale.proceeds]

WithinTip(a, amount) ==
    100 * (Captured(a) + amount) =< (100 + MaxTip) * auths[a].amount

(* The transaction decides how much cash to repay with ...                 *)
BeginCapture(x, a, amount, final) ==
    /\ ProfileFree
    /\ captures[x] = None
    /\ OpenAuthorization(a)
    /\ WithinTip(a, amount)
    /\ pending' = [capture |-> x, auth |-> a, amount |-> amount,
                   final |-> final \/ Captured(a) + amount >= auths[a].amount,
                   cash |-> IF profile.mode = "MONTHLY_STATEMENT" THEN 0
                            ELSE minimum(Usd(amount), CashEligible)]
    /\ UNCHANGED <<cards, auths, captures, disputes, statements, profile, cash, account,
                   collateral, elsewhere>>

(* Mutant: a final capture that releases no more than it takes. *)
HoldReleaseTaken(a, usd, final) == minimum(positiveRemainder(RemainingHold(a)), usd)

(* A final capture releases the whole hold.                                *)
HoldRelease(a, usd, final) ==
    LET remaining == positiveRemainder(RemainingHold(a))
    IN  IF final THEN remaining ELSE minimum(remaining, usd)

SpendingAfter(usd, repaid) ==
    IF profile.mode # "MONTHLY_STATEMENT" /\ repaid < usd THEN "FROZEN" ELSE profile.spending

(* ... and posts it, after selling collateral for what the cash left open. *)
(* Proceeds beyond the debt stay on the cash account.                      *)
CommitCapture ==
    /\ pending \in Capturing
    /\ LET x == pending.capture
           a == pending.auth
           usd == Usd(pending.amount)
           release == HoldRelease(a, usd, pending.final)
       IN  \E sale \in IF profile.mode = "CASH_THEN_AUTO_SELL" /\ usd > pending.cash
                       THEN Sales(usd - pending.cash) ELSE {NoSale} :
             LET repaid == pending.cash + minimum(sale.proceeds, usd - pending.cash)
             IN  /\ captures' = [captures EXCEPT ![x] =
                        [auth |-> a, amount |-> pending.amount, released |-> release,
                         repaid |-> repaid, refunded |-> 0, reduced |-> 0]]
                 /\ UpdateAuthorizationTotals(
                        a, IF pending.final THEN "CAPTURED" ELSE "PARTIALLY_CAPTURED",
                        positiveRemainder(release - usd))
                 /\ account' = postCashRepayment(postCaptureReceivable(usd, release), repaid)
                 /\ cash' = Post(cash, SettledEntries(sale.proceeds - repaid))
                 /\ InsertAutoSellExecution(sale)
                 /\ profile' = [profile EXCEPT !.spending = SpendingAfter(usd, repaid)]
    /\ pending' = None
    /\ UNCHANGED <<cards, disputes, statements, elsewhere>>

(* Whatever fails, or a crash, undoes the transaction under way.           *)
Rollback ==
    /\ pending # None
    /\ pending' = None
    /\ UNCHANGED <<cards, auths, captures, disputes, statements, profile, cash, account,
                   collateral, elsewhere>>

-----------------------------------------------------------------------------
(* Refunds and disputes *)

DisputesOf(x, status) ==
    {d \in Disputes : disputes[d] # None /\ disputes[d].capture = x
                                         /\ disputes[d].status \in status}

Disputed(x, status) == SumFunction([d \in DisputesOf(x, status) |-> disputes[d].amount])

Adjusted(x) == captures[x].refunded + Disputed(x, {"ACCEPTED"})

Settled(x) == Usd(captures[x].amount)

(* Mutant: an allocation that lets the open debt go below zero. *)
refundAllocationUnclamped(x, usd) ==
    minimum(usd, Settled(x) - captures[x].repaid - Adjusted(x))

(* What a credit of this size takes off the debt of the capture.           *)
refundAllocation(x, usd) ==
    minimum(usd, positiveRemainder(Settled(x) - captures[x].repaid - Adjusted(x)))

UpdateCaptureRefund(x, refunded, reduction) ==
    captures' = [captures EXCEPT ![x].refunded = @ + refunded, ![x].reduced = @ + reduction]

(* Mutant: a limit that counts refunds and forgets accepted disputes. *)
CreditAgain(x, usd, refunded) ==
    LET reduction == refundAllocation(x, usd)
    IN  /\ usd =< Settled(x) - captures[x].refunded
        /\ UpdateCaptureRefund(x, refunded, reduction)
        /\ refundEntries(reduction, usd - reduction)

(* The rest of the credit is paid to the cash account.                     *)
Credit(x, usd, refunded) ==
    LET reduction == refundAllocation(x, usd)
    IN  /\ usd =< Settled(x) - Adjusted(x)
        /\ UpdateCaptureRefund(x, refunded, reduction)
        /\ refundEntries(reduction, usd - reduction)

Refund(x, usd) ==
    /\ ProfileFree
    /\ captures[x] # None
    /\ Credit(x, usd, usd)
    /\ UNCHANGED <<cards, auths, disputes, statements, profile, collateral, pending, elsewhere>>

OpenDispute(d, x, usd) ==
    /\ ProfileFree
    /\ disputes[d] = None /\ captures[x] # None
    /\ usd =< Settled(x) - captures[x].refunded - Disputed(x, {"OPEN", "ACCEPTED"})
    /\ disputes' = [disputes EXCEPT ![d] = [capture |-> x, amount |-> usd, status |-> "OPEN"]]
    /\ UNCHANGED <<cards, auths, captures, statements, profile, cash, account, collateral,
                   pending, elsewhere>>

ResolveDispute(d, outcome) ==
    /\ disputes[d] # None /\ disputes[d].status = "OPEN"
    /\ disputes' = [disputes EXCEPT ![d].status = outcome]

RejectDispute(d) ==
    /\ ProfileFree
    /\ ResolveDispute(d, "REJECTED")
    /\ UNCHANGED <<cards, auths, captures, statements, profile, cash, account, collateral,
                   pending, elsewhere>>

(* An accepted dispute is credited like a refund but not counted as one.   *)
AcceptDispute(d) ==
    /\ ProfileFree
    /\ ResolveDispute(d, "ACCEPTED")
    /\ Credit(disputes[d].capture, disputes[d].amount, 0)
    /\ UNCHANGED <<cards, auths, statements, profile, collateral, pending, elsewhere>>

-----------------------------------------------------------------------------
(* Statements *)

(* One period each; generating a period again fails on its outbox event.   *)
GenerateStatement(s) ==
    /\ ProfileFree
    /\ profile.mode = "MONTHLY_STATEMENT"
    /\ statements[s] = None
    /\ statements' = [statements EXCEPT ![s] =
                         [due |-> positiveRemainder(account.RECEIVABLE), status |-> "OPEN"]]
    /\ UNCHANGED <<cards, auths, captures, disputes, profile, cash, account, collateral,
                   pending, elsewhere>>

BeginPayment(s) ==
    /\ ProfileFree
    /\ statements[s] # None /\ statements[s].status = "OPEN" /\ statements[s].due > 0
    /\ CashEligible >= statements[s].due
    /\ positiveRemainder(account.RECEIVABLE) >= statements[s].due
    /\ pending' = s
    /\ UNCHANGED <<cards, auths, captures, disputes, statements, profile, cash, account,
                   collateral, elsewhere>>

(* Mutant: a payment that leaves its statement open. *)
CommitPaymentUnmarked ==
    /\ pending \in Statements
    /\ postStatementRepayment(statements[pending].due)
    /\ pending' = None
    /\ UNCHANGED <<cards, auths, captures, disputes, statements, profile, collateral, elsewhere>>

MarkStatementPaid(s) == statements' = [statements EXCEPT ![s].status = "PAID"]

CommitPayment ==
    /\ pending \in Statements
    /\ postStatementRepayment(statements[pending].due)
    /\ MarkStatementPaid(pending)
    /\ pending' = None
    /\ UNCHANGED <<cards, auths, captures, disputes, profile, collateral, elsewhere>>

-----------------------------------------------------------------------------
CardNext ==
    \/ \E c \in Cards, type \in {"VIRTUAL", "PHYSICAL"} : CreateCard(c, type)
    \/ \E c \in Cards, action \in UserAction : ActOnCard(c, action)
    \/ \E c, new \in Cards : replaceCard(c, new)
    \/ \E c \in Cards, to \in CardStatus : AdvancePhysicalCard(c, to)

AuthorizationNext ==
    \/ \E a \in Auths, c \in Cards, amount \in AuthAmounts : Authorize(a, c, amount)
    \/ \E a \in Auths, usd \in UsdAmounts : ReverseAuthorization(a, usd)
    \/ \E x \in Captures, a \in Auths, amount \in CaptureAmounts, final \in BOOLEAN :
           BeginCapture(x, a, amount, final)
    \/ CommitCapture
    \/ Rollback

CreditNext ==
    \/ \E x \in Captures, usd \in UsdAmounts : Refund(x, usd)
    \/ \E d \in Disputes, x \in Captures, usd \in UsdAmounts : OpenDispute(d, x, usd)
    \/ \E d \in Disputes : RejectDispute(d)
    \/ \E d \in Disputes : AcceptDispute(d)
    \/ \E s \in Statements : GenerateStatement(s)
    \/ \E s \in Statements : BeginPayment(s)
    \/ CommitPayment

SettingsNext ==
    \/ \E mode \in Modes : ConfigureRepayment(mode)
    \/ \E mandate \in Mandates : ConfigureAutoSellMandate(mandate)
    \/ \E move \in CashMoves : Elsewhere(move)

Next == CardNext \/ AuthorizationNext \/ CreditNext \/ SettingsNext

Spec == Init /\ [][Next]_vars

-----------------------------------------------------------------------------
(* Properties *)

Posted == {x \in Captures : captures[x] # None}

Paid == {s \in Statements : statements[s] # None /\ statements[s].status = "PAID"}

PaidStatements == SumFunction([s \in Paid |-> statements[s].due])

Open == {a \in Auths : OpenAuthorization(a)}

(* What a capture leaves of its debt, what its credits and its repayment   *)
(* have moved on the cash account, and what no hold was there for.         *)
Debt(x)       == Settled(x) - captures[x].repaid - captures[x].reduced
Paidback(x)   == Adjusted(x) - captures[x].reduced - captures[x].repaid
BeyondHold(x) == positiveRemainder(Settled(x) - captures[x].released)

(* What the card has moved on the cash account, and what others have.      *)
Own == collateral.sold + SumFunction([x \in Posted |-> Paidback(x)]) - PaidStatements

Moved(d) == SumFunction([m \in elsewhere |-> IF d \in DOMAIN m THEN m[d] ELSE 0])

(* The card account holds exactly what the open authorizations still hold, *)
(* whatever was captured, reversed or tipped, and none holds less than     *)
(* nothing (captures.go releases, adjustments.go reverses, each from its   *)
(* own sum of what the other took).                                        *)
HoldsExplained ==
    /\ \A a \in Open : RemainingHold(a) >= 0
    /\ account.HELD = SumFunction([a \in Open |-> RemainingHold(a)])

(* Captures, refunds, disputes, sales and statement payments explain the   *)
(* debt and, with what other modules posted, the cash: nothing is posted   *)
(* twice or only half (captures.go, adjustments.go, disputes.go,           *)
(* statements.go).                                                         *)
BooksBalance ==
    /\ account.RECEIVABLE = SumFunction([x \in Posted |-> Debt(x)]) - PaidStatements
    /\ \A d \in Dimension :
          cash[d] = Post(Opened(InitialCash), SettledEntries(Own))[d] + Moved(d)

(* However refunds and disputes race, a capture gives back no more than it *)
(* took, and takes off the debt no more than it left (adjustments.go,      *)
(* refundAllocation).                                                      *)
GivenBackOnce ==
    \A x \in Posted :
        /\ Adjusted(x) =< Settled(x)
        /\ captures[x].reduced =< Settled(x) - captures[x].repaid

(* If no other module moves cash, the holds of a CASH_ONLY customer never  *)
(* exceed the cash, captures beyond their hold aside (spending.go, the     *)
(* holds a new authorization is measured against).                         *)
ApprovalsCovered ==
    ProfileFree /\ profile.mode = "CASH_ONLY" /\ elsewhere = {}
      => account.HELD =< CashEligible + SumFunction([x \in Posted |-> BeyondHold(x)])
=============================================================================
