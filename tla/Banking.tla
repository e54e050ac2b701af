------------------------------ MODULE Banking ------------------------------
(***************************************************************************)
(* Bank accounts, funding, withdrawals and their compliance review for one *)
(* customer: internal/banking/accounts.go, funding.go, withdrawal.go,      *)
(* compliance.go and the transition triggers of db/migrations/000005.      *)
(*                                                                         *)
(* Requests that post and provider callbacks lock the customer profile, so *)
(* each is one step.  The one check they make on balances, that a          *)
(* withdrawal is covered, reads the cash account without a lock:           *)
(* a reservation is decided in one step and posted in another.             *)
(*                                                                         *)
(* The bank sends any event at any time; an event the row's status does    *)
(* not allow is rolled back by the trigger.  A repeated event or request   *)
(* is answered from its row and changes nothing, so it is left out.        *)
(***************************************************************************)
EXTENDS CustomerAccount, FiniteSets, Functions

CONSTANTS
    Accounts, Fundings, Withdrawals, Admins,
    Amounts,      \* amounts a customer asks for
    MaxProposals, \* bound: review proposals ever made
    None

ASSUME BankingAssumption ==
    /\ Amounts \subseteq Nat \ {0}
    /\ MaxProposals \in Nat
    /\ Fundings \cap Withdrawals = {}
    /\ IsFiniteSet(Fundings) /\ IsFiniteSet(Withdrawals)

VARIABLES
    accounts,     \* banking.bank_accounts
    funding,      \* banking.funding_transfers
    withdrawals,  \* banking.withdrawals
    cases,        \* status of the compliance case about a transfer
    proposals,    \* compliance.review_proposals
    reserving     \* the transaction that found a withdrawal covered

bankingVars == <<cash, accounts, funding, withdrawals, cases, proposals, reserving>>

Account == [relation : {"SAME_NAME", "THIRD_PARTY"}, rails : {"ACH", "WIRE", "BOTH"},
            risk : {"STANDARD", "ELEVATED"}, ownership : {"PENDING", "VERIFIED", "FAILED"},
            cooling : {"NONE", "RUNNING", "OVER"}, funded : BOOLEAN]

WireException == {"NAME_MISMATCH", "MISSING_REFERENCE", "THIRD_PARTY_FUNDS", "MANUAL_REVIEW"}

FundingStatus == {"INITIATED", "PROCESSING", "SETTLED", "RETURNED", "CANCELED",
                  "INSTRUCTIONS_ISSUED", "FUNDS_DETECTED", "OWNERSHIP_REVIEW",
                  "CREDITED", "RETURN_REQUIRED"} \cup WireException

Funding == [account : Accounts, amount : Amounts, status : FundingStatus]

InReview  == {"COOLING_OFF", "MANUAL_REVIEW"}
InTransit == {"SUBMITTED_TO_BANK", "PROCESSING"}

WithdrawalStatus == {"SECURITY_VERIFICATION", "APPROVED", "SETTLED", "REJECTED", "RETURNED"}
                    \cup InReview \cup InTransit

Withdrawal == [account : Accounts, amount : Amounts, status : WithdrawalStatus]

Action == {"APPROVE_WITHDRAWAL", "OVERRIDE_COOLING", "REJECT_WITHDRAWAL"}

Proposal == [about : Fundings \cup Withdrawals, action : Action, maker : Admins,
             checker : Admins \cup {None}, status : {"PENDING", "APPROVED", "REJECTED"}]

(* The withdrawal to reserve for, its row afterwards, and the proposal     *)
(* whose approval it is, if any.                                           *)
Reserving == [withdrawal : Withdrawals, row : Withdrawal,
              review : Proposal \cup {None}, checker : Admins \cup {None}]

ASSUME AbsentTransfers ==
    None \notin Account \cup Funding \cup Withdrawal \cup Proposal \cup Reserving

BankingTypeOK ==
    /\ cash \in Balances
    /\ accounts \in [Accounts -> Account \cup {None}]
    /\ funding \in [Fundings -> Funding \cup {None}]
    /\ withdrawals \in [Withdrawals -> Withdrawal \cup {None}]
    /\ cases \in [Fundings \cup Withdrawals -> {"NONE", "IN_REVIEW", "APPROVED", "REJECTED"}]
    /\ proposals \subseteq Proposal
    /\ reserving \in Reserving \cup {None}

BankingInit ==
    /\ cash = Opened(InitialCash)
    /\ accounts = [a \in Accounts |-> None]
    /\ funding = [f \in Fundings |-> None]
    /\ withdrawals = [w \in Withdrawals |-> None]
    /\ cases = [r \in Fundings \cup Withdrawals |-> "NONE"]
    /\ proposals = {}
    /\ reserving = None

(* The profile row is locked while a reservation is under way. *)
ProfileFree == reserving = None

(* The rows of a withdrawal, its case and its proposal are locked while    *)
(* the approval of a review reserves for it.                               *)
RowsFree(r) == ~(reserving # None /\ reserving.withdrawal = r)

-----------------------------------------------------------------------------
(* Bank accounts *)

LinkBankAccount(a, relation, rails, risk) ==
    /\ accounts[a] = None
    /\ accounts' = [accounts EXCEPT ![a] =
           [relation |-> relation, rails |-> rails, risk |-> risk,
            ownership |-> IF relation = "THIRD_PARTY" THEN "FAILED" ELSE "PENDING",
            cooling |-> "NONE", funded |-> FALSE]]
    /\ UNCHANGED <<cash, funding, withdrawals, cases, proposals, reserving>>

(* The provider's first answer stays, and one that verifies starts the     *)
(* account's cooling period.                                               *)
VerifyBankAccountOwnership(a, verified) ==
    /\ accounts[a] # None /\ accounts[a].ownership = "PENDING"
    /\ accounts' =
         IF verified THEN [accounts EXCEPT ![a].ownership = "VERIFIED", ![a].cooling = "RUNNING"]
                     ELSE [accounts EXCEPT ![a].ownership = "FAILED"]
    /\ UNCHANGED <<cash, funding, withdrawals, cases, proposals, reserving>>

(* A day or three pass. *)
CoolingEnds(a) ==
    /\ accounts[a] # None /\ accounts[a].cooling = "RUNNING"
    /\ accounts' = [accounts EXCEPT ![a].cooling = "OVER"]
    /\ UNCHANGED <<cash, funding, withdrawals, cases, proposals, reserving>>

Verified(a) == accounts[a].relation = "SAME_NAME" /\ accounts[a].ownership = "VERIFIED"

-----------------------------------------------------------------------------
(* Funding *)

(* The account is read before the provider is called and the profile is    *)
(* locked; nothing it is read for ever changes back.                       *)
InitiateFunding(f, a, rail, amount) ==
    /\ ProfileFree
    /\ funding[f] = None
    /\ accounts[a] # None /\ accounts[a].rails \in {rail, "BOTH"}
    /\ rail = "ACH" => Verified(a)
    /\ funding' = [funding EXCEPT ![f] = [account |-> a, amount |-> amount,
           status |-> IF rail = "ACH" THEN "INITIATED" ELSE "INSTRUCTIONS_ISSUED"]]
    /\ cash' = IF rail = "ACH" THEN Post(cash, [PENDING |-> amount]) ELSE cash
    /\ UNCHANGED <<accounts, withdrawals, cases, proposals, reserving>>

(* The transitions the trigger allows: ACH, then wire. *)
FundingSteps ==
    ({"INITIATED"} \X {"PROCESSING", "SETTLED", "RETURNED", "CANCELED"})
    \cup ({"PROCESSING"} \X {"SETTLED", "RETURNED", "CANCELED"})
    \cup {<<"SETTLED", "RETURNED">>}
    \cup ({"INSTRUCTIONS_ISSUED"} \X ({"FUNDS_DETECTED"} \cup WireException))
    \cup ({"FUNDS_DETECTED"} \X ({"OWNERSHIP_REVIEW", "CREDITED"}
                                  \cup (WireException \ {"MISSING_REFERENCE"})))
    \cup ({"OWNERSHIP_REVIEW"} \X ({"CREDITED"} \cup (WireException \ {"MISSING_REFERENCE"})))
    \cup (WireException \X {"RETURN_REQUIRED", "CREDITED"})

(* A funding callback: locks, moves the row and marks the account. *)
MoveFunding(f, status, funded) ==
    /\ ProfileFree
    /\ funding[f] # None
    /\ <<funding[f].status, status>> \in FundingSteps
    /\ funding' = [funding EXCEPT ![f].status = status]
    /\ accounts' = [accounts EXCEPT ![funding[f].account].funded = funded]
    /\ UNCHANGED <<withdrawals, proposals, reserving>>

AsFunded(f) == IF funding[f] = None THEN FALSE ELSE accounts[funding[f].account].funded

(* ACH_PROCESSING, WIRE_FUNDS_DETECTED, WIRE_OWNERSHIP_REVIEW and          *)
(* WIRE_RETURN_REQUIRED only move the row.                                 *)
AdvanceFunding(f, status) ==
    /\ MoveFunding(f, status, AsFunded(f))
    /\ UNCHANGED <<cash, cases>>

AchSettled(f) ==
    /\ MoveFunding(f, "SETTLED", TRUE)
    /\ cash' = Post(Post(cash, [PENDING |-> -funding[f].amount]), SettledEntries(funding[f].amount))
    /\ UNCHANGED cases

(* Mutant: a return always reverses the pending posting. *)
AchReturnedPending(f, status) ==
    /\ MoveFunding(f, status, FALSE)
    /\ cash' = Post(cash, [PENDING |-> -funding[f].amount])
    /\ UNCHANGED cases

(* A return reverses the posting the transfer rests on, whatever has been  *)
(* done with the money since.                                              *)
AchReturned(f, status) ==
    /\ MoveFunding(f, status, FALSE)
    /\ cash' = IF funding[f].status = "SETTLED"
               THEN Post(cash, SettledEntries(-funding[f].amount))
               ELSE Post(cash, [PENDING |-> -funding[f].amount])
    /\ UNCHANGED cases

(* Mutant: the money of any account is credited. *)
WireCreditedUnchecked(f) ==
    /\ MoveFunding(f, "CREDITED", TRUE)
    /\ cash' = Post(cash, SettledEntries(funding[f].amount))
    /\ UNCHANGED cases

WireCredited(f) ==
    /\ MoveFunding(f, "CREDITED", TRUE)
    /\ Verified(funding[f].account)
    /\ cash' = Post(cash, SettledEntries(funding[f].amount))
    /\ UNCHANGED cases

WireExcepted(f, status) ==
    /\ MoveFunding(f, status, AsFunded(f))
    /\ cases' = [cases EXCEPT ![f] = "IN_REVIEW"]
    /\ UNCHANGED cash

-----------------------------------------------------------------------------
(* Withdrawals *)

(* Mutant: what is held for other withdrawals is counted again. *)
CoveredBySettled(amount) == cash["SETTLED"] >= amount

Covered(amount) == cash["SETTLED"] >= amount /\ cash["WITHDRAWABLE"] >= amount

(* reserveWithdrawal up to its posting. *)
BeginReserve(w, row, review, checker) ==
    /\ Covered(row.amount)
    /\ reserving' = [withdrawal |-> w, row |-> [row EXCEPT !.status = "APPROVED"],
                     review |-> review, checker |-> checker]
    /\ UNCHANGED <<cash, accounts, funding, withdrawals, cases, proposals>>

(* Mutant: the approval of a review does not close its case. *)
CommitReserveOpenCase ==
    /\ reserving # None
    /\ cash' = Post(cash, [WITHDRAWABLE |-> -reserving.row.amount, HELD |-> reserving.row.amount])
    /\ withdrawals' = [withdrawals EXCEPT ![reserving.withdrawal] = reserving.row]
    /\ reserving' = None
    /\ UNCHANGED <<accounts, funding, cases, proposals>>

CommitReserve ==
    /\ reserving # None
    /\ LET w == reserving.withdrawal
           p == reserving.review
       IN /\ cash' = Post(cash, [WITHDRAWABLE |-> -reserving.row.amount,
                                 HELD |-> reserving.row.amount])
          /\ withdrawals' = [withdrawals EXCEPT ![w] = reserving.row]
          /\ IF p = None
             THEN UNCHANGED <<cases, proposals>>
             ELSE /\ cases' = [cases EXCEPT ![w] = "APPROVED"]
                  /\ proposals' = (proposals \ {p}) \cup
                        {[p EXCEPT !.status = "APPROVED", !.checker = reserving.checker]}
    /\ reserving' = None
    /\ UNCHANGED <<accounts, funding>>

RollBackReserve ==
    /\ reserving # None
    /\ reserving' = None
    /\ UNCHANGED <<cash, accounts, funding, withdrawals, cases, proposals>>

ClosedLoop(a) == Verified(a) /\ accounts[a].funded /\ accounts[a].risk = "STANDARD"

(* Mutant: a case is opened, and nobody starts its review. *)
CreateWithdrawalOpen(w, row, case) ==
    /\ withdrawals' = [withdrawals EXCEPT ![w] = row]
    /\ cases' = [cases EXCEPT ![w] = IF case = "IN_REVIEW" THEN "OPEN" ELSE case]
    /\ UNCHANGED <<cash, accounts, funding, proposals, reserving>>

CreateWithdrawal(w, row, case) ==
    /\ withdrawals' = [withdrawals EXCEPT ![w] = row]
    /\ cases' = [cases EXCEPT ![w] = case]
    /\ UNCHANGED <<cash, accounts, funding, proposals, reserving>>

(* A funded verified account is approved at once; a verified one that is   *)
(* new or of elevated risk waits for a review; one that is not verified    *)
(* waits for a verification.  Third parties are refused.                   *)
RequestWithdrawal(w, a, amount) ==
    /\ ProfileFree
    /\ withdrawals[w] = None
    /\ accounts[a] # None
    /\ LET row(status) == [account |-> a, amount |-> amount, status |-> status]
       IN \/ /\ accounts[a].relation = "THIRD_PARTY"
             /\ CreateWithdrawal(w, row("REJECTED"), "REJECTED")
          \/ /\ ClosedLoop(a)
             /\ BeginReserve(w, row("APPROVED"), None, None)
          \/ /\ Verified(a) /\ ~ClosedLoop(a)
             /\ CreateWithdrawal(w, row(IF accounts[a].cooling = "RUNNING"
                                        THEN "COOLING_OFF" ELSE "MANUAL_REVIEW"), "IN_REVIEW")
          \/ /\ accounts[a].relation = "SAME_NAME" /\ ~Verified(a)
             /\ CreateWithdrawal(w, row("SECURITY_VERIFICATION"), "NONE")

(* The transitions of the withdrawal trigger that some code takes. *)
WithdrawalSteps ==
    (InReview \X {"APPROVED", "REJECTED"})
    \cup {<<"APPROVED", "SUBMITTED_TO_BANK">>}
    \cup ({"SUBMITTED_TO_BANK"} \X {"PROCESSING", "SETTLED", "RETURNED"})
    \cup ({"PROCESSING"} \X {"SETTLED", "RETURNED"})

(* ApplyWithdrawalEvent: submission pays out what was reserved, a return   *)
(* reverses the submission and the reservation.                            *)
WithdrawalEvent(w, status) ==
    /\ ProfileFree
    /\ withdrawals[w] # None
    /\ <<withdrawals[w].status, status>> \in WithdrawalSteps
    /\ withdrawals' = [withdrawals EXCEPT ![w].status = status]
    /\ cash' = CASE status = "SUBMITTED_TO_BANK" ->
                      Post(cash, [SETTLED |-> -withdrawals[w].amount, HELD |-> -withdrawals[w].amount])
                 [] status = "RETURNED" -> Post(cash, SettledEntries(withdrawals[w].amount))
                 [] OTHER -> cash
    /\ UNCHANGED <<accounts, funding, cases, proposals, reserving>>

-----------------------------------------------------------------------------
(* Review by maker and checker *)

(* A case has one proposal per action and status. *)
Unique(r, action, status) ==
    \A p \in proposals : <<p.about, p.action, p.status>> # <<r, action, status>>

ProposeReview(r, action, maker) ==
    /\ RowsFree(r)
    /\ cases[r] = "IN_REVIEW"
    /\ Unique(r, action, "PENDING")
    /\ Cardinality(proposals) < MaxProposals
    /\ proposals' = proposals \cup {[about |-> r, action |-> action, maker |-> maker,
                                     checker |-> None, status |-> "PENDING"]}
    /\ UNCHANGED <<cash, accounts, funding, withdrawals, cases, reserving>>

Decidable(p, checker) ==
    /\ RowsFree(p.about)
    /\ p.status = "PENDING"
    /\ p.maker # checker

Decided(p, checker, status) ==
    (proposals \ {p}) \cup {[p EXCEPT !.status = status, !.checker = checker]}

DeclineReview(p, checker) ==
    /\ Decidable(p, checker)
    /\ Unique(p.about, p.action, "REJECTED")
    /\ proposals' = Decided(p, checker, "REJECTED")
    /\ UNCHANGED <<cash, accounts, funding, withdrawals, cases, reserving>>

(* applyApprovedReview: only withdrawals that the trigger lets change. *)
ApproveRejection(p, checker) ==
    /\ Decidable(p, checker)
    /\ p.about \in Withdrawals /\ p.action = "REJECT_WITHDRAWAL"
    /\ Unique(p.about, p.action, "APPROVED")
    /\ <<withdrawals[p.about].status, "REJECTED">> \in WithdrawalSteps
    /\ withdrawals' = [withdrawals EXCEPT ![p.about].status = "REJECTED"]
    /\ cases' = [cases EXCEPT ![p.about] = "REJECTED"]
    /\ proposals' = Decided(p, checker, "APPROVED")
    /\ UNCHANGED <<cash, accounts, funding, reserving>>

ApproveWithdrawal(p, checker) ==
    /\ ProfileFree
    /\ Decidable(p, checker)
    /\ p.about \in Withdrawals /\ p.action # "REJECT_WITHDRAWAL"
    /\ Unique(p.about, p.action, "APPROVED")
    /\ <<withdrawals[p.about].status, "APPROVED">> \in WithdrawalSteps
    /\ p.action = "APPROVE_WITHDRAWAL" => accounts[withdrawals[p.about].account].cooling = "OVER"
    /\ BeginReserve(p.about, withdrawals[p.about], p, checker)

-----------------------------------------------------------------------------
Moves(f) ==
    \/ \E s \in {"PROCESSING", "FUNDS_DETECTED", "OWNERSHIP_REVIEW", "RETURN_REQUIRED"} :
           AdvanceFunding(f, s)
    \/ AchSettled(f)
    \/ \E s \in {"RETURNED", "CANCELED"} : AchReturned(f, s)
    \/ WireCredited(f)
    \/ \E s \in WireException : WireExcepted(f, s)

Reviews ==
    \/ \E r \in Fundings \cup Withdrawals, action \in Action, m \in Admins :
           ProposeReview(r, action, m)
    \/ \E p \in proposals, c \in Admins :
           DeclineReview(p, c) \/ ApproveRejection(p, c) \/ ApproveWithdrawal(p, c)

Links ==
    \E a \in Accounts :
       \/ \E relation \in {"SAME_NAME", "THIRD_PARTY"}, rails \in {"ACH", "WIRE", "BOTH"},
             risk \in {"STANDARD", "ELEVATED"} : LinkBankAccount(a, relation, rails, risk)
       \/ \E verified \in BOOLEAN : VerifyBankAccountOwnership(a, verified)
       \/ CoolingEnds(a)

Requests ==
    \E a \in Accounts, amount \in Amounts :
       \/ \E f \in Fundings, rail \in {"ACH", "WIRE"} : InitiateFunding(f, a, rail, amount)
       \/ \E w \in Withdrawals : RequestWithdrawal(w, a, amount)

BankingNext ==
    \/ Links
    \/ Requests
    \/ \E f \in Fundings : Moves(f)
    \/ \E w \in Withdrawals, s \in WithdrawalStatus \ {"APPROVED", "REJECTED"} : WithdrawalEvent(w, s)
    \/ Reviews
    \/ CommitReserve
    \/ RollBackReserve

BankingSpec == BankingInit /\ [][BankingNext]_bankingVars

-----------------------------------------------------------------------------
(* Properties *)

FundingIn(S)    == {f \in Fundings : funding[f] # None /\ funding[f].status \in S}
WithdrawalIn(S) == {w \in Withdrawals : withdrawals[w] # None /\ withdrawals[w].status \in S}

(* What a transfer counts for in a sum over the statuses S. *)
AmountIn(row, S) ==
    IF row = None THEN 0 ELSE IF row.status \in S THEN row.amount ELSE 0

Funded(S)    == SumFunction([f \in Fundings |-> AmountIn(funding[f], S)])
Withdrawn(S) == SumFunction([w \in Withdrawals |-> AmountIn(withdrawals[w], S)])

(* What is settled is either withdrawable or held for a withdrawal. *)
SettledSplits == cash["SETTLED"] = cash["WITHDRAWABLE"] + cash["HELD"]

(* The balances say what the transfers' statuses say: pending money is in  *)
(* ACH transfers that may still be returned, held money in approved        *)
(* withdrawals, settled money in what was funded and not paid out, through *)
(* returns before and after settlement (funding.go, withdrawal.go).        *)
BalancesExplained ==
    /\ SettledSplits
    /\ cash["PENDING"] = Funded({"INITIATED", "PROCESSING"})
    /\ cash["HELD"] = Withdrawn({"APPROVED"})
    /\ cash["SETTLED"] = InitialCash + Funded({"SETTLED", "CREDITED"})
                         - Withdrawn(InTransit \cup {"SETTLED"})

Approvals(r) == {p \in proposals : p.about = r /\ p.status = "APPROVED"}

(* A case and its withdrawal tell the same story, and the story has one    *)
(* decision by two administrators: proposals made before the decision,     *)
(* for the same or another action, can no longer undo it (compliance.go).  *)
CaseAgrees ==
    \A w \in Withdrawals :
        /\ cases[w] = "IN_REVIEW" <=> w \in WithdrawalIn(InReview)
        /\ w \in WithdrawalIn({"REJECTED"}) <=> cases[w] = "REJECTED"
        /\ cases[w] = "APPROVED" => w \in WithdrawalIn({"APPROVED", "SETTLED", "RETURNED"} \cup InTransit)
        /\ Cardinality(Approvals(w)) =< 1
        /\ \A p \in Approvals(w) :
              /\ p.checker \in Admins \ {p.maker}
              /\ cases[w] = IF p.action = "REJECT_WITHDRAWAL" THEN "REJECTED" ELSE "APPROVED"

(* Money moves to and from verified accounts of the customer's own only,   *)
(* although wires are issued and reviewed for accounts not yet verified.   *)
OwnAccountsOnly ==
    /\ \A f \in FundingIn({"SETTLED", "CREDITED"}) : Verified(funding[f].account)
    /\ \A w \in WithdrawalIn({"APPROVED", "SETTLED", "RETURNED"} \cup InTransit) :
          Verified(withdrawals[w].account)

(* PDM.md of the repository allows only the withdrawal of USD that is both *)
(* settled and withdrawable: as long as the bank takes nothing back, what  *)
(* approved withdrawals hold is there.                                     *)
WithdrawalsCovered ==
    FundingIn({"RETURNED"}) = {} => cash["HELD"] =< cash["SETTLED"]

(* A decided or finished transfer stays as it is: a late callback or a     *)
(* second review changes neither it nor the money it moved.                *)
FinalTransfersStay ==
    [][ /\ \A f \in FundingIn({"RETURNED", "CANCELED", "CREDITED", "RETURN_REQUIRED"}) :
              funding'[f] = funding[f]
        /\ \A w \in WithdrawalIn({"REJECTED", "SETTLED", "RETURNED"}) :
              withdrawals'[w] = withdrawals[w] ]_bankingVars
=============================================================================
