--------------------------- MODULE CustomerCash ----------------------------
(***************************************************************************)
(* Securities and banking of one customer on the one USD account they both *)
(* post to.  securities locks the paper account, banking the customer      *)
(* profile; the ledger locks neither, so the steps of Trading and Banking  *)
(* interleave freely, between the reads and the posting of either too.     *)
(***************************************************************************)
EXTENDS Trading, Banking

vars == <<tradingVars, bankingVars>>

Init == TradingInit /\ BankingInit

Securities ==
    /\ TradingNext
    /\ UNCHANGED <<accounts, funding, withdrawals, cases, proposals, reserving>>

Bank ==
    /\ BankingNext
    /\ UNCHANGED <<orders, position, shares, reserved, buy>>

Next == Securities \/ Bank

Spec == Init /\ [][Next]_vars

-----------------------------------------------------------------------------
(* What the customer's orders and transfers, together, explain: nothing    *)
(* posted between another module's read and its posting is lost, although  *)
(* no lock spans the two (fills.go, funding.go, withdrawal.go).            *)
CashExplained ==
    /\ SettledSplits
    /\ cash["PENDING"] = Funded({"INITIATED", "PROCESSING"})
    /\ cash["HELD"] = Withdrawn({"APPROVED"})
    /\ BuyingPower(cash) =
         InitialCash - Spent
         + Funded({"SETTLED", "CREDITED"})
         - Withdrawn(InTransit \cup {"SETTLED"})

BoughtOf(row) ==
    IF row = NoOrder THEN 0 ELSE IF row.side = "BUY" THEN row.spent ELSE 0
Bought == SumFunction([o \in Orders |-> BoughtOf(orders[o])])

(* Withdrawals never take the same money twice: as long as the bank takes  *)
(* nothing back, what approved withdrawals lack of the cash they hold is   *)
(* no more than the buys that were filled meanwhile, although a            *)
(* reservation is decided on balances it has not locked (withdrawal.go:193)*)
(* and paid out, or given back, in another order than it was made.         *)
ShortfallIsSpent ==
    FundingIn({"RETURNED"}) = {} => cash["HELD"] - cash["SETTLED"] =< Bought
=============================================================================
