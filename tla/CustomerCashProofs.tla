------------------------- MODULE CustomerCashProofs -------------------------
(***************************************************************************)
(* For any accounts, transfers, amounts and administrators: the banking    *)
(* model is type correct, transfers explain every dimension of the cash,   *)
(* money moves to and from verified own accounts only, finished transfers  *)
(* stay, a case agrees with its withdrawal, and an account nobody else     *)
(* posts to covers what withdrawals hold.  Next to the securities module,  *)
(* orders and transfers together explain the cash, withdrawals lack no     *)
(* more than buys took, and both modules keep the rest.                    *)
(*                                                                         *)
(* The hard step of banking is the posting of a reservation decided        *)
(* earlier, which writes a row it read before: ReservingSound says that    *)
(* nothing has moved the row, its account or its proposal meanwhile.  What *)
(* transfers explain is stated for any amount posted by others, so that    *)
(* the steps proved here serve banking alone and the composition; what     *)
(* covers a reservation is stated for any amount others have spent.        *)
(***************************************************************************)
EXTENDS CustomerCash, TradingProofs

Splits(balances) ==
    balances["SETTLED"] = balances["WITHDRAWABLE"] + balances["HELD"]

(* Transfers that reached a verified account, or started from one. *)
Backed(a, verified) == accounts[a] # None /\ (verified => Verified(a))

AccountsBack ==
    /\ \A f \in Fundings : funding[f] # None =>
          Backed(funding[f].account,
                 funding[f].status \in {"INITIATED", "PROCESSING", "SETTLED", "CREDITED"})
    /\ \A w \in Withdrawals : withdrawals[w] # None =>
          Backed(withdrawals[w].account,
                 withdrawals[w].status \notin {"SECURITY_VERIFICATION", "REJECTED"})

(* A case in review is about a withdrawal in review, and so on. *)
CasesSound ==
    \A w \in Withdrawals :
        /\ withdrawals[w] = None => cases[w] = "NONE"
        /\ cases[w] = "IN_REVIEW" <=> w \in WithdrawalIn(InReview)
        /\ w \in WithdrawalIn({"REJECTED"}) <=> cases[w] = "REJECTED"
        /\ cases[w] = "APPROVED" =>
             w \in WithdrawalIn({"APPROVED", "SETTLED", "RETURNED"} \cup InTransit)

(* An approved proposal was decided by a second administrator, and decided *)
(* its case; no case has two; no proposal is about a missing withdrawal.   *)
ProposalsSound ==
    /\ \A p \in proposals : p.about \in Withdrawals => withdrawals[p.about] # None
    /\ \A p \in proposals : p.status = "APPROVED" =>
          /\ p.about \in Withdrawals
          /\ p.checker \in Admins \ {p.maker}
          /\ cases[p.about] = IF p.action = "REJECT_WITHDRAWAL" THEN "REJECTED" ELSE "APPROVED"
    /\ \A p, q \in proposals :
          p.status = "APPROVED" /\ q.status = "APPROVED" /\ p.about = q.about => p = q

(* What was read for a reservation still holds. *)
ReservingSound ==
    reserving # None =>
      /\ reserving.row.status = "APPROVED"
      /\ Backed(reserving.row.account, TRUE)
      /\ reserving.review = None => withdrawals[reserving.withdrawal] = None
      /\ reserving.review # None =>
           /\ reserving.review \in proposals
           /\ reserving.review.status = "PENDING"
           /\ reserving.review.about = reserving.withdrawal
           /\ reserving.review.action # "REJECT_WITHDRAWAL"
           /\ reserving.checker \in Admins \ {reserving.review.maker}
           /\ reserving.withdrawal \in WithdrawalIn(InReview)

BankingInv ==
    /\ BankingTypeOK
    /\ SettledSplits
    /\ AccountsBack
    /\ CasesSound
    /\ ProposalsSound
    /\ ReservingSound

-----------------------------------------------------------------------------
(* Cash *)

(* The four kinds of posting keep settled cash split. *)
LEMMA PostSplits ==
  ASSUME NEW b \in Balances, Splits(b), NEW n \in Int
  PROVE  /\ Post(b, [PENDING |-> n]) \in Balances /\ Splits(Post(b, [PENDING |-> n]))
         /\ Post(b, SettledEntries(n)) \in Balances /\ Splits(Post(b, SettledEntries(n)))
         /\ Post(b, [WITHDRAWABLE |-> -n, HELD |-> n]) \in Balances
         /\ Splits(Post(b, [WITHDRAWABLE |-> -n, HELD |-> n]))
         /\ Post(b, [SETTLED |-> -n, HELD |-> -n]) \in Balances
         /\ Splits(Post(b, [SETTLED |-> -n, HELD |-> -n]))
<1>1. \A d \in Dimension : b[d] \in Int
  BY DEF Balances
<1>2. Post(b, [PENDING |-> n]) \in Balances /\ Splits(Post(b, [PENDING |-> n]))
  BY <1>1 DEF Post, Balances, Dimension, Splits
<1>3. Post(b, SettledEntries(n)) \in Balances /\ Splits(Post(b, SettledEntries(n)))
  BY <1>1 DEF Post, Balances, Dimension, Splits, SettledEntries
<1>4. /\ Post(b, [WITHDRAWABLE |-> -n, HELD |-> n]) \in Balances
      /\ Splits(Post(b, [WITHDRAWABLE |-> -n, HELD |-> n]))
  BY <1>1 DEF Post, Balances, Dimension, Splits
<1>5. /\ Post(b, [SETTLED |-> -n, HELD |-> -n]) \in Balances
      /\ Splits(Post(b, [SETTLED |-> -n, HELD |-> -n]))
  BY <1>1 DEF Post, Balances, Dimension, Splits
<1>. QED  BY <1>2, <1>3, <1>4, <1>5

(* The invariant holds before anything is linked. *)
LEMMA BankingInitInv == BankingInit => BankingInv
<1>. SUFFICES ASSUME BankingInit  PROVE BankingInv
  OBVIOUS
<1>1. BankingTypeOK
  BY BankingAssumption, InitialCashAssumption
  DEF BankingInit, BankingTypeOK, Balances, Opened, Dimension
<1>2. SettledSplits
  BY InitialCashAssumption DEF BankingInit, SettledSplits, Opened, Dimension
<1>3. AccountsBack /\ CasesSound /\ ProposalsSound /\ ReservingSound
  BY DEF BankingInit, AccountsBack, CasesSound, ProposalsSound, ReservingSound, WithdrawalIn
<1>. QED  BY <1>1, <1>2, <1>3 DEF BankingInv

-----------------------------------------------------------------------------
(* Steps that write accounts *)

(* What a step does to accounts that others rely on. *)
AccountsKept ==
    \A a \in Accounts : accounts[a] # None =>
        accounts'[a] # None /\ (Verified(a) => Verified(a)')

(* Linking, verifying and cooling write one account; an account that is    *)
(* there stays, and a verified one stays verified.                         *)
LEMMA LinksIInv ==
  ASSUME BankingInv, Links
  PROVE  BankingInv'
<1>1. UNCHANGED <<cash, funding, withdrawals, cases, proposals, reserving>>
  BY DEF Links, LinkBankAccount, VerifyBankAccountOwnership, CoolingEnds
<1>2. accounts' \in [Accounts -> Account \cup {None}] /\ AccountsKept
  <2>1. PICK a \in Accounts :
          \/ \E relation \in {"SAME_NAME", "THIRD_PARTY"}, rails \in {"ACH", "WIRE", "BOTH"},
                risk \in {"STANDARD", "ELEVATED"} : LinkBankAccount(a, relation, rails, risk)
          \/ \E verified \in BOOLEAN : VerifyBankAccountOwnership(a, verified)
          \/ CoolingEnds(a)
    BY DEF Links
  <2>2. accounts \in [Accounts -> Account \cup {None}]
    BY DEF BankingInv, BankingTypeOK
  <2>3. ASSUME NEW relation \in {"SAME_NAME", "THIRD_PARTY"}, NEW rails \in {"ACH", "WIRE", "BOTH"},
               NEW risk \in {"STANDARD", "ELEVATED"}, LinkBankAccount(a, relation, rails, risk)
        PROVE  accounts' \in [Accounts -> Account \cup {None}] /\ AccountsKept
    BY <2>2, <2>3 DEF LinkBankAccount, Account, AccountsKept, Verified
  <2>4. ASSUME NEW verified \in BOOLEAN, VerifyBankAccountOwnership(a, verified)
        PROVE  accounts' \in [Accounts -> Account \cup {None}] /\ AccountsKept
    <3>1. /\ accounts[a] # None /\ accounts[a] \in Account
          /\ accounts[a].ownership = "PENDING"
      BY <2>2, <2>4 DEF VerifyBankAccountOwnership
    <3>2. PICK o \in {"VERIFIED", "FAILED"}, k \in {"NONE", "RUNNING", "OVER"} :
            accounts' = [accounts EXCEPT ![a] = [@ EXCEPT !.ownership = o, !.cooling = k]]
      <4>1. CASE verified
        BY <2>2, <2>4, <3>1, <4>1 DEF VerifyBankAccountOwnership, Account
      <4>2. CASE ~verified
        <5>1. accounts' = [accounts EXCEPT ![a] = [@ EXCEPT !.ownership = "FAILED"]]
          BY <2>4, <4>2 DEF VerifyBankAccountOwnership
        <5>. QED  BY <2>2, <3>1, <5>1 DEF Account
      <4>. QED  BY <4>1, <4>2
    <3>3. [accounts[a] EXCEPT !.ownership = o, !.cooling = k] \in Account
      BY <3>1 DEF Account
    <3>. QED  BY <2>2, <3>1, <3>2, <3>3, AbsentTransfers DEF AccountsKept, Verified
  <2>5. CASE CoolingEnds(a)
    BY <2>2, <2>5, AbsentTransfers DEF CoolingEnds, Account, AccountsKept, Verified
  <2>. QED  BY <2>1, <2>3, <2>4, <2>5
<1>3. AccountsBack'
  BY <1>1, <1>2 DEF BankingInv, AccountsBack, Backed, BankingTypeOK, AccountsKept, Funding, Withdrawal
<1>4. ReservingSound'
  BY <1>1, <1>2 DEF BankingInv, ReservingSound, Backed, BankingTypeOK, AccountsKept, Reserving,
                    Withdrawal, WithdrawalIn
<1>. QED
  BY <1>1, <1>2, <1>3, <1>4
  DEF BankingInv, BankingTypeOK, SettledSplits, CasesSound, ProposalsSound, WithdrawalIn

-----------------------------------------------------------------------------
(* Funding *)

(* A funding that starts rests on an account that is there, and verified   *)
(* when money is booked.                                                   *)
LEMMA InitiateIInv ==
  ASSUME BankingInv, NEW f \in Fundings, NEW a \in Accounts, NEW rail \in {"ACH", "WIRE"},
         NEW amount \in Amounts, InitiateFunding(f, a, rail, amount)
  PROVE  BankingInv'
<1>. DEFINE row == [account |-> a, amount |-> amount,
              status |-> IF rail = "ACH" THEN "INITIATED" ELSE "INSTRUCTIONS_ISSUED"]
<1>1. /\ UNCHANGED <<accounts, withdrawals, cases, proposals, reserving>>
      /\ funding' = [funding EXCEPT ![f] = row]
      /\ reserving = None
      /\ accounts[a] # None /\ (rail = "ACH" => Verified(a))
      /\ row \in Funding
  BY DEF InitiateFunding, ProfileFree, Funding, FundingStatus
<1>2. cash' \in Balances /\ Splits(cash')
  <2>1. cash \in Balances /\ Splits(cash) /\ amount \in Int
    BY BankingAssumption DEF BankingInv, BankingTypeOK, SettledSplits, Splits
  <2>. QED  BY <2>1, PostSplits DEF InitiateFunding
<1>3. funding' \in [Fundings -> Funding \cup {None}]
  BY <1>1 DEF BankingInv, BankingTypeOK
<1>4. AccountsBack'
  <2>1. \A x \in Fundings : funding'[x] # None =>
          Backed(funding'[x].account,
                 funding'[x].status \in {"INITIATED", "PROCESSING", "SETTLED", "CREDITED"})
    BY <1>1 DEF BankingInv, BankingTypeOK, AccountsBack, Backed
  <2>. QED  BY <1>1, <2>1 DEF BankingInv, AccountsBack, Backed, Verified
<1>. QED
  BY <1>1, <1>2, <1>3, <1>4
  DEF BankingInv, BankingTypeOK, SettledSplits, Splits, CasesSound, ProposalsSound, WithdrawalIn,
      ReservingSound

(* A callback that moves a funding keeps the invariant if its posting      *)
(* does, and if what it credits belongs to a verified account.             *)
LEMMA MoveIInv ==
  ASSUME BankingInv, NEW f \in Fundings, NEW s \in FundingStatus, NEW funded \in BOOLEAN,
         MoveFunding(f, s, funded),
         cash' \in Balances, Splits(cash'),
         \A w \in Withdrawals : cases'[w] = cases[w],
         cases' \in [Fundings \cup Withdrawals -> {"NONE", "IN_REVIEW", "APPROVED", "REJECTED"}],
         s = "CREDITED" => Verified(funding[f].account)
  PROVE  BankingInv'
<1>1. /\ UNCHANGED <<withdrawals, proposals, reserving>>
      /\ funding' = [funding EXCEPT ![f].status = s]
      /\ accounts' = [accounts EXCEPT ![funding[f].account].funded = funded]
      /\ reserving = None /\ funding[f] # None
      /\ <<funding[f].status, s>> \in FundingSteps
  BY DEF MoveFunding, ProfileFree
<1>2. /\ funding[f] \in Funding /\ funding[f].account \in Accounts
      /\ accounts[funding[f].account] \in Account
  BY <1>1 DEF BankingInv, BankingTypeOK, AccountsBack, Backed, Funding
<1>3. funding' \in [Fundings -> Funding \cup {None}]
  BY <1>1, <1>2 DEF BankingInv, BankingTypeOK, Funding
<1>4. accounts' \in [Accounts -> Account \cup {None}] /\ AccountsKept
  <2>1. [accounts[funding[f].account] EXCEPT !.funded = funded] \in Account
    BY <1>2 DEF Account
  <2>. QED  BY <1>1, <1>2, <2>1, AbsentTransfers DEF BankingInv, BankingTypeOK, AccountsKept, Verified
<1>5. \A x \in Fundings : funding'[x] # None =>
        Backed(funding'[x].account,
               funding'[x].status \in {"INITIATED", "PROCESSING", "SETTLED", "CREDITED"})
  <2>. SUFFICES ASSUME NEW x \in Fundings, funding'[x] # None
                PROVE  Backed(funding'[x].account,
                   funding'[x].status \in {"INITIATED", "PROCESSING", "SETTLED", "CREDITED"})
    OBVIOUS
  <2>1. CASE x # f
    BY <1>1, <2>1 DEF BankingInv, BankingTypeOK, AccountsBack
  <2>2. CASE x = f
    <3>1. funding'[x].account = funding[f].account /\ funding'[x].status = s
      BY <1>1, <1>2, <2>2 DEF BankingInv, BankingTypeOK, Funding
    <3>2. s \in {"INITIATED", "PROCESSING", "SETTLED"}
            => funding[f].status \in {"INITIATED", "PROCESSING", "SETTLED"}
      BY <1>1 DEF FundingSteps, WireException
    <3>3. Backed(funding[f].account,
             funding[f].status \in {"INITIATED", "PROCESSING", "SETTLED", "CREDITED"})
      BY <1>1 DEF BankingInv, AccountsBack
    <3>. QED  BY <3>1, <3>2, <3>3 DEF Backed
  <2>. QED  BY <2>1, <2>2
<1>6. AccountsBack'
  <2>1. \A x \in Fundings : funding'[x] # None => funding'[x].account \in Accounts
    BY <1>3, AbsentTransfers DEF Funding
  <2>2. \A w \in Withdrawals : withdrawals[w] # None => withdrawals[w].account \in Accounts
    BY AbsentTransfers DEF BankingInv, BankingTypeOK, Withdrawal
  <2>3. \A x \in Fundings : funding'[x] # None => funding'[x].account \in Accounts
        /\ (Backed(funding'[x].account,
             funding'[x].status \in {"INITIATED", "PROCESSING", "SETTLED", "CREDITED"}))
    BY <1>5, <2>1
  <2>. QED  BY <1>1, <1>4, <2>2, <2>3 DEF AccountsBack, Backed, AccountsKept, BankingInv
<1>7. CasesSound' /\ ProposalsSound'
  BY <1>1 DEF BankingInv, CasesSound, ProposalsSound, WithdrawalIn
<1>. QED
  BY <1>1, <1>3, <1>4, <1>6, <1>7
  DEF BankingInv, BankingTypeOK, SettledSplits, Splits, ReservingSound

(* The callbacks of the bank are such moves. *)
LEMMA MovesIInv ==
  ASSUME BankingInv, NEW f \in Fundings, Moves(f)
  PROVE  BankingInv'
<1>1. cash \in Balances /\ Splits(cash)
      /\ cases \in [Fundings \cup Withdrawals -> {"NONE", "IN_REVIEW", "APPROVED", "REJECTED"}]
  BY DEF BankingInv, BankingTypeOK, SettledSplits, Splits
<1>2. ASSUME funding[f] # None
      PROVE  funding[f].amount \in Int /\ AsFunded(f) \in BOOLEAN
  <2>1. funding[f] \in Funding /\ accounts[funding[f].account] \in Account
    BY <1>2 DEF BankingInv, BankingTypeOK, AccountsBack, Backed, Funding
  <2>2. funding[f].amount \in Int
    <3>1. funding[f].amount \in Amounts
      BY <2>1 DEF Funding
    <3>2. \A n \in Amounts : n \in Int
      BY BankingAssumption
    <3>. QED  BY <3>1, <3>2
  <2>3. accounts[funding[f].account].funded \in BOOLEAN
    BY <2>1 DEF Account
  <2>. QED  BY <1>2, <2>2, <2>3, Zenon DEF AsFunded
<1>3. funding[f] # None
  BY DEF Moves, AdvanceFunding, AchSettled, AchReturned, WireCredited, WireExcepted,
         MoveFunding
<1>4. /\ \A n \in {funding[f].amount, -funding[f].amount} :
           /\ Post(cash, [PENDING |-> n]) \in Balances
           /\ Splits(Post(cash, [PENDING |-> n]))
           /\ Post(cash, SettledEntries(n)) \in Balances
           /\ Splits(Post(cash, SettledEntries(n)))
  <2>1. -funding[f].amount \in Int
    BY <1>2, <1>3
  <2>. QED  BY <1>1, <1>2, <1>3, <2>1, PostSplits
<1>5. ASSUME NEW s \in {"PROCESSING", "FUNDS_DETECTED", "OWNERSHIP_REVIEW", "RETURN_REQUIRED"},
             AdvanceFunding(f, s)
      PROVE  BankingInv'
  BY <1>1, <1>2, <1>3, <1>5, MoveIInv DEF AdvanceFunding, FundingStatus
<1>6. CASE AchSettled(f)
  <2>1. LET b == Post(cash, [PENDING |-> -funding[f].amount])
        IN Post(b, SettledEntries(funding[f].amount)) \in Balances
           /\ Splits(Post(b, SettledEntries(funding[f].amount)))
    BY <1>2, <1>3, <1>4, PostSplits
  <2>. QED  BY <1>1, <1>6, <2>1, MoveIInv DEF AchSettled, FundingStatus
<1>7. ASSUME NEW s \in {"RETURNED", "CANCELED"}, AchReturned(f, s)
      PROVE  BankingInv'
  BY <1>1, <1>4, <1>7, MoveIInv DEF AchReturned, FundingStatus
<1>8. CASE WireCredited(f)
  BY <1>1, <1>4, <1>8, MoveIInv DEF WireCredited, FundingStatus
<1>9. ASSUME NEW s \in WireException, WireExcepted(f, s)
      PROVE  BankingInv'
  <2>1. s \in FundingStatus /\ s # "CREDITED"
    BY DEF FundingStatus, WireException
  <2>2. /\ cases' \in [Fundings \cup Withdrawals -> {"NONE", "IN_REVIEW", "APPROVED", "REJECTED"}]
        /\ \A w \in Withdrawals : cases'[w] = cases[w]
    BY <1>1, <1>9, BankingAssumption DEF WireExcepted
  <2>. QED  BY <1>1, <1>2, <1>3, <1>9, <2>1, <2>2, MoveIInv DEF WireExcepted
<1>. QED  BY <1>5, <1>6, <1>7, <1>8, <1>9 DEF Moves

-----------------------------------------------------------------------------
(* Withdrawals *)

(* A request that only writes its row and its case. *)
LEMMA CreateIInv ==
  ASSUME BankingInv, ProfileFree, NEW w \in Withdrawals, withdrawals[w] = None,
         NEW row \in Withdrawal, Backed(row.account, row.status \in InReview),
         NEW case \in {"NONE", "IN_REVIEW", "REJECTED"},
         <<row.status, case>> \in {<<"REJECTED", "REJECTED">>,
             <<"COOLING_OFF", "IN_REVIEW">>, <<"MANUAL_REVIEW", "IN_REVIEW">>,
             <<"SECURITY_VERIFICATION", "NONE">>},
         CreateWithdrawal(w, row, case)
  PROVE  BankingInv'
<1>1. /\ UNCHANGED <<cash, accounts, funding, proposals, reserving>>
      /\ withdrawals' = [withdrawals EXCEPT ![w] = row]
      /\ cases' = [cases EXCEPT ![w] = case]
      /\ reserving = None /\ cases[w] = "NONE"
  BY DEF CreateWithdrawal, ProfileFree, BankingInv, CasesSound
<1>2. BankingTypeOK'
  BY <1>1 DEF BankingInv, BankingTypeOK
<1>3. AccountsBack'
  <2>1. \A x \in Withdrawals : withdrawals'[x] # None =>
          Backed(withdrawals'[x].account,
                 withdrawals'[x].status \notin {"SECURITY_VERIFICATION", "REJECTED"})
    BY <1>1 DEF BankingInv, BankingTypeOK, AccountsBack, Backed, InReview
  <2>. QED  BY <1>1, <2>1 DEF BankingInv, AccountsBack, Backed, Verified
<1>4. CasesSound'
  <2>. SUFFICES ASSUME NEW x \in Withdrawals
                PROVE  (/\ withdrawals[x] = None => cases[x] = "NONE"
                        /\ cases[x] = "IN_REVIEW" <=> x \in WithdrawalIn(InReview)
                        /\ x \in WithdrawalIn({"REJECTED"}) <=> cases[x] = "REJECTED"
                        /\ cases[x] = "APPROVED" => x \in WithdrawalIn(
                               {"APPROVED", "SETTLED", "RETURNED"} \cup InTransit))'
    BY DEF CasesSound
  <2>1. CASE x # w
    BY <1>1, <2>1 DEF BankingInv, BankingTypeOK, CasesSound, WithdrawalIn
  <2>2. CASE x = w
    BY <1>1, <2>2, AbsentTransfers DEF BankingInv, BankingTypeOK, CasesSound, WithdrawalIn, InReview
  <2>. QED  BY <2>1, <2>2
<1>5. ProposalsSound'
  <2>1. \A p \in proposals : p.status = "APPROVED" => p.about # w
    BY <1>1 DEF BankingInv, ProposalsSound
  <2>2. \A r \in Fundings \cup Withdrawals : r # w => cases'[r] = cases[r]
    BY <1>1 DEF BankingInv, BankingTypeOK
  <2>. QED  BY <1>1, <2>1, <2>2 DEF BankingInv, ProposalsSound
<1>. QED
  BY <1>1, <1>2, <1>3, <1>4, <1>5 DEF BankingInv, SettledSplits, ReservingSound

(* Deciding to reserve leaves everything but what was decided. *)
LEMMA BeginReserveIInv ==
  ASSUME BankingInv, ProfileFree, NEW w \in Withdrawals, NEW row \in Withdrawal,
         Backed(row.account, TRUE),
         NEW review \in proposals \cup {None}, NEW checker \in Admins \cup {None},
         review = None => withdrawals[w] = None,
         review # None => /\ review.status = "PENDING" /\ review.about = w
                          /\ review.action # "REJECT_WITHDRAWAL"
                          /\ checker \in Admins \ {review.maker}
                          /\ w \in WithdrawalIn(InReview),
         BeginReserve(w, row, review, checker)
  PROVE  BankingInv'
<1>. DEFINE approved == [row EXCEPT !.status = "APPROVED"]
<1>1. /\ UNCHANGED <<cash, accounts, funding, withdrawals, cases, proposals>>
      /\ reserving' = [withdrawal |-> w, row |-> approved, review |-> review,
                       checker |-> checker]
  BY DEF BeginReserve
<1>2. /\ approved \in Withdrawal /\ approved.status = "APPROVED"
      /\ approved.account = row.account
  BY DEF Withdrawal, WithdrawalStatus
<1>. HIDE DEF approved
<1>3. reserving' \in Reserving
  BY <1>1, <1>2 DEF Reserving, BankingInv, BankingTypeOK
<1>4. ReservingSound'
  BY <1>1, <1>2 DEF ReservingSound, Backed, Verified, WithdrawalIn
<1>. QED
  BY <1>1, <1>3, <1>4
  DEF BankingInv, BankingTypeOK, SettledSplits, AccountsBack, Backed, Verified, CasesSound,
      ProposalsSound, WithdrawalIn

(* The four answers to a request. *)
LEMMA RequestIInv ==
  ASSUME BankingInv, NEW w \in Withdrawals, NEW a \in Accounts, NEW amount \in Amounts,
         RequestWithdrawal(w, a, amount)
  PROVE  BankingInv'
<1>. DEFINE row(status) == [account |-> a, amount |-> amount, status |-> status]
<1>1. ProfileFree /\ withdrawals[w] = None /\ accounts[a] # None
  BY DEF RequestWithdrawal
<1>2. \A s \in WithdrawalStatus : row(s) \in Withdrawal
                                  /\ row(s).account = a /\ row(s).status = s
  BY DEF Withdrawal
<1>3. CASE CreateWithdrawal(w, row("REJECTED"), "REJECTED")
  BY <1>1, <1>2, <1>3, CreateIInv DEF Backed, InReview, WithdrawalStatus
<1>4. CASE ClosedLoop(a) /\ BeginReserve(w, row("APPROVED"), None, None)
  BY <1>1, <1>2, <1>4, BeginReserveIInv DEF Backed, ClosedLoop, WithdrawalStatus
<1>5. CASE /\ Verified(a)
           /\ CreateWithdrawal(w, row(IF accounts[a].cooling = "RUNNING"
                                      THEN "COOLING_OFF" ELSE "MANUAL_REVIEW"), "IN_REVIEW")
  <2>1. CASE CreateWithdrawal(w, row("COOLING_OFF"), "IN_REVIEW")
    BY <1>1, <1>2, <1>5, <2>1, CreateIInv DEF Backed, InReview, WithdrawalStatus
  <2>2. CASE CreateWithdrawal(w, row("MANUAL_REVIEW"), "IN_REVIEW")
    BY <1>1, <1>2, <1>5, <2>2, CreateIInv DEF Backed, InReview, WithdrawalStatus
  <2>. QED  BY <1>5, <2>1, <2>2
<1>6. CASE CreateWithdrawal(w, row("SECURITY_VERIFICATION"), "NONE")
  BY <1>1, <1>2, <1>6, CreateIInv DEF Backed, InReview, WithdrawalStatus
<1>. QED  BY <1>3, <1>4, <1>5, <1>6 DEF RequestWithdrawal

(* A reservation that posts: its row and its proposal are as they were     *)
(* read, so the case had no decision and the row no money of its own.      *)
LEMMA CommitReserveIInv ==
  ASSUME BankingInv, CommitReserve
  PROVE  BankingInv'
<1>. DEFINE w   == reserving.withdrawal
            p   == reserving.review
            row == reserving.row
            done == [p EXCEPT !.status = "APPROVED", !.checker = reserving.checker]
<1>1. /\ reserving \in Reserving /\ w \in Withdrawals /\ row \in Withdrawal
      /\ row.status = "APPROVED" /\ Backed(row.account, TRUE)
      /\ p = None => withdrawals[w] = None /\ cases[w] = "NONE"
      /\ p # None => /\ p \in proposals /\ p \in Proposal /\ p.about = w
                     /\ p.action # "REJECT_WITHDRAWAL"
                     /\ reserving.checker \in Admins \ {p.maker}
                     /\ w \in WithdrawalIn(InReview) /\ cases[w] = "IN_REVIEW"
  <2>1. reserving \in Reserving /\ ReservingSound /\ reserving # None
    BY DEF BankingInv, BankingTypeOK, CommitReserve
  <2>2. w \in Withdrawals /\ row \in Withdrawal
    BY <2>1 DEF Reserving
  <2>3. p # None => p \in Proposal
    BY <2>1 DEF Reserving
  <2>4. /\ withdrawals[w] = None => cases[w] = "NONE"
        /\ w \in WithdrawalIn(InReview) => cases[w] = "IN_REVIEW"
    BY <2>2 DEF BankingInv, CasesSound
  <2>. QED  BY <2>1, <2>2, <2>3, <2>4 DEF ReservingSound
<1>2. /\ cash' = Post(cash, [WITHDRAWABLE |-> -row.amount, HELD |-> row.amount])
      /\ withdrawals' = [withdrawals EXCEPT ![w] = row]
      /\ reserving' = None
      /\ UNCHANGED <<accounts, funding>>
      /\ p = None => UNCHANGED <<cases, proposals>>
      /\ p # None => /\ cases' = [cases EXCEPT ![w] = "APPROVED"]
                     /\ proposals' = (proposals \ {p}) \cup {done}
  BY DEF CommitReserve
<1>3. p # None => /\ done \in Proposal /\ done.status = "APPROVED" /\ done.about = w
                  /\ done.maker = p.maker /\ done.checker = reserving.checker
                  /\ done.action # "REJECT_WITHDRAWAL"
  BY <1>1 DEF Proposal
<1>. HIDE DEF done, w, p, row
<1>4. BankingTypeOK'
  <2>1. cash' \in Balances
    <3>1. row.amount \in Int
      <4>1. row.amount \in Amounts
        BY <1>1 DEF Withdrawal
      <4>2. \A n \in Amounts : n \in Int
        BY BankingAssumption
      <4>. QED  BY <4>1, <4>2
    <3>. QED  BY <1>2, <3>1, PostSplits DEF BankingInv, BankingTypeOK, SettledSplits, Splits
  <2>2. cases' \in [Fundings \cup Withdrawals -> {"NONE", "IN_REVIEW", "APPROVED", "REJECTED"}]
        /\ proposals' \subseteq Proposal
    <3>1. CASE p = None
      BY <1>2, <3>1 DEF BankingInv, BankingTypeOK
    <3>2. CASE p # None
      BY <1>1, <1>2, <1>3, <3>2 DEF BankingInv, BankingTypeOK
    <3>. QED  BY <3>1, <3>2
  <2>. QED  BY <1>1, <1>2, <2>1, <2>2 DEF BankingInv, BankingTypeOK
<1>5. SettledSplits'
  <2>1. row.amount \in Int
    <3>1. row.amount \in Amounts
      BY <1>1 DEF Withdrawal
    <3>2. \A n \in Amounts : n \in Int
      BY BankingAssumption
    <3>. QED  BY <3>1, <3>2
  <2>. QED  BY <1>2, <2>1, PostSplits DEF BankingInv, BankingTypeOK, SettledSplits, Splits
<1>6. AccountsBack'
  <2>1. \A x \in Withdrawals : withdrawals'[x] # None =>
          Backed(withdrawals'[x].account,
                 withdrawals'[x].status \notin {"SECURITY_VERIFICATION", "REJECTED"})
    BY <1>1, <1>2 DEF BankingInv, BankingTypeOK, AccountsBack, Backed
  <2>. QED  BY <1>2, <2>1 DEF BankingInv, AccountsBack, Backed, Verified
<1>7. CasesSound'
  <2>. SUFFICES ASSUME NEW x \in Withdrawals
                PROVE  (/\ withdrawals[x] = None => cases[x] = "NONE"
                        /\ cases[x] = "IN_REVIEW" <=> x \in WithdrawalIn(InReview)
                        /\ x \in WithdrawalIn({"REJECTED"}) <=> cases[x] = "REJECTED"
                        /\ cases[x] = "APPROVED" => x \in WithdrawalIn(
                               {"APPROVED", "SETTLED", "RETURNED"} \cup InTransit))'
    BY DEF CasesSound
  <2>1. CASE x # w
    BY <1>2, <2>1 DEF BankingInv, BankingTypeOK, CasesSound, WithdrawalIn
  <2>2. CASE x = w
    <3>1. withdrawals'[x] = row /\ row # None /\ row.status = "APPROVED"
      BY <1>1, <1>2, <2>2, AbsentTransfers DEF BankingInv, BankingTypeOK
    <3>2. cases'[x] \in {"NONE", "APPROVED"}
      BY <1>1, <1>2, <2>2 DEF BankingInv, BankingTypeOK
    <3>. QED  BY <3>1, <3>2 DEF WithdrawalIn, InReview
  <2>. QED  BY <2>1, <2>2
<1>8. ProposalsSound'
  <2>1. \A x \in Withdrawals : withdrawals[x] # None => withdrawals'[x] # None
    BY <1>1, <1>2, AbsentTransfers DEF BankingInv, BankingTypeOK
  <2>2. CASE p = None
    BY <1>2, <2>2, <2>1 DEF BankingInv, ProposalsSound
  <2>3. CASE p # None
    <3>1. \A q \in proposals : q.status = "APPROVED" => q.about # w
      BY <1>1, <2>3 DEF BankingInv, ProposalsSound
    <3>2. \A r \in Fundings \cup Withdrawals : r # w => cases'[r] = cases[r]
      BY <1>2, <2>3 DEF BankingInv, BankingTypeOK
    <3>3. cases'[w] = "APPROVED"
      BY <1>1, <1>2, <2>3 DEF BankingInv, BankingTypeOK
    <3>4. \A q \in proposals' : q.about \in Withdrawals => withdrawals'[q.about] # None
      BY <1>1, <1>2, <1>3, <2>3, <2>1 DEF BankingInv, ProposalsSound
    <3>5. \A q \in proposals' : q.status = "APPROVED" =>
            /\ q.about \in Withdrawals
            /\ q.checker \in Admins \ {q.maker}
            /\ cases'[q.about] = IF q.action = "REJECT_WITHDRAWAL" THEN "REJECTED" ELSE "APPROVED"
      BY <1>1, <1>2, <1>3, <2>3, <3>1, <3>2, <3>3 DEF BankingInv, ProposalsSound
    <3>6. \A q, r \in proposals' :
            q.status = "APPROVED" /\ r.status = "APPROVED" /\ q.about = r.about => q = r
      BY <1>2, <1>3, <2>3, <3>1 DEF BankingInv, ProposalsSound
    <3>. QED  BY <3>4, <3>5, <3>6 DEF ProposalsSound
  <2>. QED  BY <2>2, <2>3
<1>. QED
  BY <1>2, <1>4, <1>5, <1>6, <1>7, <1>8 DEF BankingInv, ReservingSound

(* A reservation that fails leaves what was there. *)
LEMMA RollBackReserveIInv ==
  ASSUME BankingInv, RollBackReserve
  PROVE  BankingInv'
BY DEF BankingInv, RollBackReserve, BankingTypeOK, SettledSplits, AccountsBack, Backed, Verified,
       CasesSound, ProposalsSound, WithdrawalIn, ReservingSound

(* The bank moves a withdrawal that has been approved, and only such a one. *)
LEMMA WithdrawalEventIInv ==
  ASSUME BankingInv, NEW w \in Withdrawals, NEW s \in WithdrawalStatus \ {"APPROVED", "REJECTED"},
         WithdrawalEvent(w, s)
  PROVE  BankingInv'
<1>1. /\ UNCHANGED <<accounts, funding, cases, proposals, reserving>>
      /\ withdrawals' = [withdrawals EXCEPT ![w].status = s]
      /\ reserving = None /\ withdrawals[w] # None
      /\ withdrawals[w] \in Withdrawal
      /\ <<withdrawals[w].status, s>> \in WithdrawalSteps
  BY DEF WithdrawalEvent, ProfileFree, BankingInv, BankingTypeOK
<1>2. /\ withdrawals[w].status \in {"APPROVED"} \cup InTransit
      /\ s \in InTransit \cup {"SETTLED", "RETURNED"}
  BY <1>1 DEF WithdrawalSteps, InReview, InTransit
<1>3. /\ withdrawals'[w] \in Withdrawal /\ withdrawals'[w].status = s
      /\ withdrawals'[w].account = withdrawals[w].account
      /\ \A x \in Withdrawals \ {w} : withdrawals'[x] = withdrawals[x]
  BY <1>1 DEF BankingInv, BankingTypeOK, Withdrawal
<1>4. withdrawals' \in [Withdrawals -> Withdrawal \cup {None}]
  BY <1>1, <1>3 DEF BankingInv, BankingTypeOK
<1>5. cash' \in Balances /\ Splits(cash')
  <2>1. cash \in Balances /\ Splits(cash)
    BY DEF BankingInv, BankingTypeOK, SettledSplits, Splits
  <2>2. withdrawals[w].amount \in Int
    <3>1. withdrawals[w].amount \in Amounts
      BY <1>1 DEF Withdrawal
    <3>2. \A n \in Amounts : n \in Int
      BY BankingAssumption
    <3>. QED  BY <3>1, <3>2
  <2>. QED  BY <2>1, <2>2, PostSplits DEF WithdrawalEvent
<1>6. AccountsBack'
  <2>1. Backed(withdrawals[w].account, TRUE)
    BY <1>1, <1>2 DEF BankingInv, AccountsBack, Backed, InTransit
  <2>2. \A x \in Withdrawals : withdrawals'[x] # None =>
          Backed(withdrawals'[x].account,
                 withdrawals'[x].status \notin {"SECURITY_VERIFICATION", "REJECTED"})
    BY <1>3, <2>1 DEF BankingInv, AccountsBack, Backed
  <2>. QED  BY <1>1, <2>2 DEF BankingInv, AccountsBack, Backed, Verified
<1>7. CasesSound'
  <2>. SUFFICES ASSUME NEW x \in Withdrawals
                PROVE  (/\ withdrawals[x] = None => cases[x] = "NONE"
                        /\ cases[x] = "IN_REVIEW" <=> x \in WithdrawalIn(InReview)
                        /\ x \in WithdrawalIn({"REJECTED"}) <=> cases[x] = "REJECTED"
                        /\ cases[x] = "APPROVED" => x \in WithdrawalIn(
                               {"APPROVED", "SETTLED", "RETURNED"} \cup InTransit))'
    BY DEF CasesSound
  <2>1. CASE x # w
    BY <1>1, <1>3, <2>1 DEF BankingInv, CasesSound, WithdrawalIn
  <2>2. CASE x = w
    <3>1. cases[w] \notin {"IN_REVIEW", "REJECTED"}
      BY <1>2 DEF BankingInv, CasesSound, WithdrawalIn, InReview, InTransit
    <3>2. withdrawals'[w] # None
      BY <1>3, AbsentTransfers
    <3>. QED  BY <1>1, <1>2, <1>3, <2>2, <3>1, <3>2 DEF WithdrawalIn, InReview, InTransit
  <2>. QED  BY <2>1, <2>2
<1>8. ProposalsSound'
  <2>1. \A x \in Withdrawals : withdrawals[x] # None => withdrawals'[x] # None
    BY <1>3, AbsentTransfers
  <2>. QED  BY <1>1, <2>1 DEF BankingInv, ProposalsSound
<1>. QED
  BY <1>1, <1>4, <1>5, <1>6, <1>7, <1>8
  DEF BankingInv, BankingTypeOK, SettledSplits, Splits, ReservingSound

-----------------------------------------------------------------------------
(* Review *)

(* A new proposal is pending. *)
LEMMA ProposeIInv ==
  ASSUME BankingInv, NEW r \in Fundings \cup Withdrawals, NEW action \in Action,
         NEW maker \in Admins, ProposeReview(r, action, maker)
  PROVE  BankingInv'
<1>. DEFINE p == [about |-> r, action |-> action, maker |-> maker,
                  checker |-> None, status |-> "PENDING"]
<1>1. /\ UNCHANGED <<cash, accounts, funding, withdrawals, cases, reserving>>
      /\ proposals' = proposals \cup {p}
      /\ p \in Proposal /\ p.status = "PENDING"
  BY DEF ProposeReview, Proposal
<1>. HIDE DEF p
<1>2. ProposalsSound'
  <2>1. r \in Withdrawals => withdrawals[r] # None
    BY DEF BankingInv, CasesSound, ProposeReview
  <2>2. p.about = r
    BY DEF p
  <2>3. \A q \in proposals' : q.about \in Withdrawals => withdrawals'[q.about] # None
    BY <1>1, <2>1, <2>2 DEF BankingInv, ProposalsSound
  <2>4. \A q \in proposals' : q.status = "APPROVED" => q \in proposals
    BY <1>1
  <2>. QED  BY <1>1, <2>3, <2>4 DEF BankingInv, ProposalsSound
<1>3. ReservingSound'
  BY <1>1 DEF BankingInv, ReservingSound, Backed, Verified, WithdrawalIn
<1>. QED
  BY <1>1, <1>2, <1>3
  DEF BankingInv, BankingTypeOK, SettledSplits, AccountsBack, Backed, Verified, CasesSound,
      WithdrawalIn

(* A declined proposal is not the one a reservation rests on. *)
LEMMA DeclineIInv ==
  ASSUME BankingInv, NEW p \in proposals, NEW c \in Admins, DeclineReview(p, c)
  PROVE  BankingInv'
<1>. DEFINE done == [p EXCEPT !.status = "REJECTED", !.checker = c]
<1>1. /\ UNCHANGED <<cash, accounts, funding, withdrawals, cases, reserving>>
      /\ proposals' = (proposals \ {p}) \cup {done}
      /\ reserving # None => reserving.withdrawal # p.about
  BY DEF DeclineReview, Decided, Decidable, RowsFree
<1>2. done \in Proposal /\ done.status = "REJECTED" /\ done.about = p.about
  BY DEF BankingInv, BankingTypeOK, Proposal
<1>. HIDE DEF done
<1>3. ProposalsSound'
  <2>1. \A q \in proposals' : q.about \in Withdrawals => withdrawals'[q.about] # None
    BY <1>1, <1>2 DEF BankingInv, ProposalsSound
  <2>2. \A q \in proposals' : q.status = "APPROVED" => q \in proposals
    BY <1>1, <1>2
  <2>. QED  BY <1>1, <2>1, <2>2 DEF BankingInv, ProposalsSound
<1>4. ReservingSound'
  BY <1>1 DEF BankingInv, ReservingSound, Backed, Verified, WithdrawalIn
<1>. QED
  BY <1>1, <1>2, <1>3, <1>4
  DEF BankingInv, BankingTypeOK, SettledSplits, AccountsBack, Backed, Verified, CasesSound,
      WithdrawalIn

(* An approved rejection closes a case that was open. *)
LEMMA RejectIInv ==
  ASSUME BankingInv, NEW p \in proposals, NEW c \in Admins, ApproveRejection(p, c)
  PROVE  BankingInv'
<1>. DEFINE done == [p EXCEPT !.status = "APPROVED", !.checker = c]
            w    == p.about
<1>1. /\ UNCHANGED <<cash, accounts, funding, reserving>>
      /\ withdrawals' = [withdrawals EXCEPT ![w].status = "REJECTED"]
      /\ cases' = [cases EXCEPT ![w] = "REJECTED"]
      /\ proposals' = (proposals \ {p}) \cup {done}
      /\ reserving # None => reserving.withdrawal # w
      /\ w \in Withdrawals /\ p.action = "REJECT_WITHDRAWAL" /\ p.maker # c
      /\ <<withdrawals[w].status, "REJECTED">> \in WithdrawalSteps
  BY DEF ApproveRejection, Decided, Decidable, RowsFree
<1>2. /\ done \in Proposal /\ done.status = "APPROVED" /\ done.about = w
      /\ done.checker = c /\ done.maker = p.maker /\ done.action = p.action
  BY DEF BankingInv, BankingTypeOK, Proposal
<1>. HIDE DEF done, w
<1>3. withdrawals[w].status \in InReview
  BY <1>1 DEF WithdrawalSteps
<1>4. withdrawals[w] # None /\ withdrawals[w] \in Withdrawal /\ cases[w] = "IN_REVIEW"
  <2>1. withdrawals[w] # None
    BY <1>1 DEF BankingInv, ProposalsSound, w
  <2>. QED  BY <1>1, <1>3, <2>1 DEF BankingInv, BankingTypeOK, CasesSound, WithdrawalIn
<1>5. /\ withdrawals'[w] \in Withdrawal /\ withdrawals'[w] # None
      /\ withdrawals'[w].status = "REJECTED"
      /\ withdrawals'[w].account = withdrawals[w].account
      /\ \A x \in Withdrawals \ {w} : withdrawals'[x] = withdrawals[x]
  BY <1>1, <1>4, AbsentTransfers DEF BankingInv, BankingTypeOK, Withdrawal, WithdrawalStatus
<1>6. BankingTypeOK'
  <2>1. withdrawals' \in [Withdrawals -> Withdrawal \cup {None}]
    BY <1>1, <1>5 DEF BankingInv, BankingTypeOK
  <2>. QED  BY <1>1, <1>2, <2>1 DEF BankingInv, BankingTypeOK
<1>7. AccountsBack'
  <2>1. \A x \in Withdrawals : withdrawals'[x] # None =>
          Backed(withdrawals'[x].account,
                 withdrawals'[x].status \notin {"SECURITY_VERIFICATION", "REJECTED"})
    BY <1>1, <1>4, <1>5 DEF BankingInv, AccountsBack, Backed
  <2>. QED  BY <1>1, <2>1 DEF BankingInv, AccountsBack, Backed, Verified
<1>8. CasesSound'
  <2>. SUFFICES ASSUME NEW x \in Withdrawals
                PROVE  (/\ withdrawals[x] = None => cases[x] = "NONE"
                        /\ cases[x] = "IN_REVIEW" <=> x \in WithdrawalIn(InReview)
                        /\ x \in WithdrawalIn({"REJECTED"}) <=> cases[x] = "REJECTED"
                        /\ cases[x] = "APPROVED" => x \in WithdrawalIn(
                               {"APPROVED", "SETTLED", "RETURNED"} \cup InTransit))'
    BY DEF CasesSound
  <2>1. CASE x # w
    BY <1>1, <1>5, <2>1 DEF BankingInv, BankingTypeOK, CasesSound, WithdrawalIn
  <2>2. CASE x = w
    <3>1. cases'[w] = "REJECTED"
      BY <1>1 DEF BankingInv, BankingTypeOK
    <3>. QED  BY <1>1, <1>5, <2>2, <3>1 DEF WithdrawalIn, InReview
  <2>. QED  BY <2>1, <2>2
<1>9. ProposalsSound'
  <2>1. \A q \in proposals : q.status = "APPROVED" => q.about # w
    BY <1>4 DEF BankingInv, ProposalsSound
  <2>2. /\ \A r \in Fundings \cup Withdrawals : r # w => cases'[r] = cases[r]
        /\ cases'[w] = "REJECTED"
    BY <1>1 DEF BankingInv, BankingTypeOK
  <2>3. \A q \in proposals' : q.about \in Withdrawals => withdrawals'[q.about] # None
    BY <1>1, <1>2, <1>5 DEF BankingInv, ProposalsSound
  <2>4. \A q \in proposals' : q.status = "APPROVED" =>
          /\ q.about \in Withdrawals
          /\ q.checker \in Admins \ {q.maker}
          /\ cases'[q.about] = IF q.action = "REJECT_WITHDRAWAL" THEN "REJECTED" ELSE "APPROVED"
    BY <1>1, <1>2, <2>1, <2>2 DEF BankingInv, ProposalsSound
  <2>5. \A q, r \in proposals' :
          q.status = "APPROVED" /\ r.status = "APPROVED" /\ q.about = r.about => q = r
    BY <1>1, <1>2, <2>1 DEF BankingInv, ProposalsSound
  <2>. QED  BY <2>3, <2>4, <2>5 DEF ProposalsSound
<1>10. ReservingSound'
  <2>. SUFFICES ASSUME reserving # None  PROVE ReservingSound'
    BY <1>1 DEF ReservingSound
  <2>1. reserving.withdrawal # w /\ reserving.withdrawal \in Withdrawals
    BY <1>1 DEF BankingInv, BankingTypeOK, Reserving
  <2>2. withdrawals'[reserving.withdrawal] = withdrawals[reserving.withdrawal]
    BY <1>5, <2>1
  <2>3. reserving.review # None =>
          reserving.review # p /\ reserving.withdrawal \in WithdrawalIn(InReview)'
    BY <2>1, <2>2 DEF BankingInv, ReservingSound, WithdrawalIn, w
  <2>. QED  BY <1>1, <2>2, <2>3 DEF BankingInv, ReservingSound, Backed, Verified
<1>. QED
  BY <1>1, <1>6, <1>7, <1>8, <1>9, <1>10 DEF BankingInv, SettledSplits

(* Approving a withdrawal decides a reservation for a row in review. *)
LEMMA ApproveIInv ==
  ASSUME BankingInv, NEW p \in proposals, NEW c \in Admins, ApproveWithdrawal(p, c)
  PROVE  BankingInv'
<1>. DEFINE w == p.about
<1>1. /\ ProfileFree /\ p.status = "PENDING" /\ p.maker # c
      /\ w \in Withdrawals /\ p.action # "REJECT_WITHDRAWAL"
      /\ <<withdrawals[w].status, "APPROVED">> \in WithdrawalSteps
      /\ BeginReserve(w, withdrawals[w], p, c)
  BY DEF ApproveWithdrawal, Decidable
<1>2. withdrawals[w] # None /\ withdrawals[w] \in Withdrawal
  BY <1>1 DEF BankingInv, BankingTypeOK, ProposalsSound
<1>3. withdrawals[w].status \in InReview
  BY <1>1 DEF WithdrawalSteps
<1>4. Backed(withdrawals[w].account, TRUE) /\ w \in WithdrawalIn(InReview)
  BY <1>1, <1>2, <1>3 DEF BankingInv, AccountsBack, Backed, InReview, WithdrawalIn
<1>5. p # None
  BY AbsentTransfers DEF BankingInv, BankingTypeOK
<1>. QED  BY <1>1, <1>2, <1>4, <1>5, BeginReserveIInv

-----------------------------------------------------------------------------
(* Every step keeps the invariant. *)
LEMMA BankingNextInv == BankingInv /\ [BankingNext]_bankingVars => BankingInv'
<1>. SUFFICES ASSUME BankingInv, [BankingNext]_bankingVars  PROVE BankingInv'
  OBVIOUS
<1>1. CASE UNCHANGED bankingVars
  BY <1>1 DEF bankingVars, BankingInv, BankingTypeOK, SettledSplits, AccountsBack, Backed, Verified,
     CasesSound, ProposalsSound, WithdrawalIn, ReservingSound
<1>2. CASE Requests
  BY <1>2, InitiateIInv, RequestIInv DEF Requests
<1>3. CASE Reviews
  BY <1>3, ProposeIInv, DeclineIInv, RejectIInv, ApproveIInv DEF Reviews
<1>. QED
  BY <1>1, <1>2, <1>3, LinksIInv, MovesIInv, WithdrawalEventIInv, CommitReserveIInv,
     RollBackReserveIInv DEF BankingNext

(* The inductive invariant of every behaviour. *)
LEMMA BankingInvariant == BankingSpec => []BankingInv
BY BankingInitInv, BankingNextInv, PTL DEF BankingSpec

-----------------------------------------------------------------------------
(* Theorems *)

(* The state stays in its type. *)
THEOREM BankingTypeCorrect == BankingSpec => []BankingTypeOK
<1>1. BankingInv => BankingTypeOK
  BY DEF BankingInv
<1>. QED  BY <1>1, BankingInvariant, PTL

(* Settled cash is withdrawable or held, for any number of transfers and   *)
(* any order of the bank's answers.                                        *)
THEOREM SettledAlwaysSplits == BankingSpec => []SettledSplits
<1>1. BankingInv => SettledSplits
  BY DEF BankingInv
<1>. QED  BY <1>1, BankingInvariant, PTL

(* The accounts that back a transfer are verified ones of the customer's own. *)
LEMMA InvOwnAccounts == BankingInv => OwnAccountsOnly
BY DEF BankingInv, AccountsBack, Backed, OwnAccountsOnly, FundingIn, WithdrawalIn, InTransit

(* Money only ever moves to and from verified accounts of one's own. *)
THEOREM OnlyOwnAccounts == BankingSpec => []OwnAccountsOnly
BY InvOwnAccounts, BankingInvariant, PTL

(* A set of which any two elements are the same has at most one. *)
LEMMA AtMostOne ==
  ASSUME NEW S, \A p, q \in S : p = q
  PROVE  Cardinality(S) =< 1
<1>1. CASE S = {}
  BY <1>1, FS_EmptySet
<1>2. CASE S # {}
  <2>1. PICK p \in S : S = {p}
    BY <1>2
  <2>2. Cardinality({p}) = 1
    BY FS_Singleton
  <2>. QED  BY <2>1, <2>2
<1>. QED  BY <1>1, <1>2

(* What the invariant says of cases and their proposals is what is promised. *)
LEMMA InvCasesAgree == BankingInv => CaseAgrees
<1>1. ASSUME BankingInv, NEW w \in Withdrawals
      PROVE  /\ cases[w] = "IN_REVIEW" <=> w \in WithdrawalIn(InReview)
             /\ w \in WithdrawalIn({"REJECTED"}) <=> cases[w] = "REJECTED"
             /\ cases[w] = "APPROVED" =>
                  w \in WithdrawalIn({"APPROVED", "SETTLED", "RETURNED"} \cup InTransit)
             /\ Cardinality(Approvals(w)) =< 1
             /\ \A p \in Approvals(w) :
                   /\ p.checker \in Admins \ {p.maker}
                   /\ cases[w] = IF p.action = "REJECT_WITHDRAWAL" THEN "REJECTED" ELSE "APPROVED"
  <2>1. \A p, q \in Approvals(w) : p = q
    BY <1>1 DEF BankingInv, ProposalsSound, Approvals
  <2>2. Cardinality(Approvals(w)) =< 1
    BY <2>1, AtMostOne
  <2>. QED  BY <1>1, <2>2 DEF BankingInv, CasesSound, ProposalsSound, Approvals
<1>. QED  BY <1>1 DEF CaseAgrees

(* Case and withdrawal agree, and every case has at most one decision, by  *)
(* two administrators, for any number of proposals.                        *)
THEOREM CasesAlwaysAgree == BankingSpec => []CaseAgrees
BY InvCasesAgree, BankingInvariant, PTL

-----------------------------------------------------------------------------
(* What transfers explain *)

(* Rows count as integers. *)
LEMMA TransferCounts ==
  ASSUME NEW row \in Funding \cup Withdrawal \cup {None}, NEW S
  PROVE  AmountIn(row, S) \in Int /\ (row # None => row.amount \in Int)
<1>1. \A n \in Amounts : n \in Int
  BY BankingAssumption
<1>2. row # None => row.amount \in Amounts
  BY DEF Funding, Withdrawal
<1>. QED  BY <1>1, <1>2 DEF AmountIn

(* One funding changes, and the totals change by what it counts. *)
LEMMA FundingRow ==
  ASSUME BankingTypeOK, NEW f \in Fundings, NEW row \in Funding,
         funding' = [funding EXCEPT ![f] = row], NEW S
  PROVE  /\ Funded(S)' = Funded(S) - AmountIn(funding[f], S) + AmountIn(row, S)
         /\ Funded(S) \in Int
         /\ AmountIn(funding[f], S) \in Int /\ AmountIn(row, S) \in Int
<1>. DEFINE g  == [x \in Fundings |-> AmountIn(funding[x], S)]
            g1 == [x \in Fundings |-> AmountIn(funding'[x], S)]
<1>1. /\ funding'[f] = row /\ \A x \in Fundings \ {f} : funding'[x] = funding[x]
      /\ \A x \in Fundings : funding[x] \in Funding \cup {None}
                             /\ funding'[x] \in Funding \cup {None}
  BY DEF BankingTypeOK
<1>2. g \in [Fundings -> Int] /\ g1 \in [Fundings -> Int]
  BY <1>1, TransferCounts
<1>3. /\ \A x \in Fundings \ {f} : g1[x] = g[x]
      /\ g[f] = AmountIn(funding[f], S) /\ g1[f] = AmountIn(row, S)
  BY <1>1
<1>4. Funded(S) = SumFunction(g) /\ Funded(S)' = SumFunction(g1)
  BY DEF Funded
<1>. HIDE DEF g, g1
<1>5. SumFunction(g1) = SumFunction(g) - g[f] + g1[f]
  BY <1>2, <1>3, SumChanged, BankingAssumption
<1>6. SumFunction(g) \in Int
  BY <1>2, SumIsInt, BankingAssumption
<1>. QED  BY <1>2, <1>3, <1>4, <1>5, <1>6

(* The same for a withdrawal. *)
LEMMA WithdrawalRow ==
  ASSUME BankingTypeOK, NEW w \in Withdrawals, NEW row \in Withdrawal,
         withdrawals' = [withdrawals EXCEPT ![w] = row], NEW S
  PROVE  /\ Withdrawn(S)' = Withdrawn(S) - AmountIn(withdrawals[w], S) + AmountIn(row, S)
         /\ Withdrawn(S) \in Int
         /\ AmountIn(withdrawals[w], S) \in Int /\ AmountIn(row, S) \in Int
<1>. DEFINE g  == [x \in Withdrawals |-> AmountIn(withdrawals[x], S)]
            g1 == [x \in Withdrawals |-> AmountIn(withdrawals'[x], S)]
<1>1. /\ withdrawals'[w] = row
      /\ \A x \in Withdrawals \ {w} : withdrawals'[x] = withdrawals[x]
      /\ \A x \in Withdrawals : withdrawals[x] \in Withdrawal \cup {None}
                                /\ withdrawals'[x] \in Withdrawal \cup {None}
  BY DEF BankingTypeOK
<1>2. g \in [Withdrawals -> Int] /\ g1 \in [Withdrawals -> Int]
  BY <1>1, TransferCounts
<1>3. /\ \A x \in Withdrawals \ {w} : g1[x] = g[x]
      /\ g[w] = AmountIn(withdrawals[w], S) /\ g1[w] = AmountIn(row, S)
  BY <1>1
<1>4. Withdrawn(S) = SumFunction(g) /\ Withdrawn(S)' = SumFunction(g1)
  BY DEF Withdrawn
<1>. HIDE DEF g, g1
<1>5. SumFunction(g1) = SumFunction(g) - g[w] + g1[w]
  BY <1>2, <1>3, SumChanged, BankingAssumption
<1>6. SumFunction(g) \in Int
  BY <1>2, SumIsInt, BankingAssumption
<1>. QED  BY <1>2, <1>3, <1>4, <1>5, <1>6

Pending == {"INITIATED", "PROCESSING"}
Arrived == {"SETTLED", "CREDITED"}
Held    == {"APPROVED"}
Paid    == InTransit \cup {"SETTLED"}

(* Transfers explain the pending and the held cash, and all of the settled *)
(* cash but `other'.  Alone they start from InitialCash; next to other     *)
(* modules, from whatever those have posted.                               *)
TransfersExplain(other) ==
    /\ SettledSplits
    /\ cash["PENDING"] = Funded(Pending)
    /\ cash["HELD"] = Withdrawn(Held)
    /\ cash["SETTLED"] = other + Funded(Arrived) - Withdrawn(Paid)

(* Totals are integers, and only their rows move them. *)
LEMMA Totals ==
  ASSUME BankingTypeOK, NEW S
  PROVE  /\ Funded(S) \in Int /\ Withdrawn(S) \in Int
         /\ UNCHANGED funding => Funded(S)' = Funded(S)
         /\ UNCHANGED withdrawals => Withdrawn(S)' = Withdrawn(S)
<1>1. /\ [x \in Fundings |-> AmountIn(funding[x], S)] \in [Fundings -> Int]
      /\ [x \in Withdrawals |-> AmountIn(withdrawals[x], S)] \in [Withdrawals -> Int]
  BY TransferCounts DEF BankingTypeOK
<1>2. Funded(S) \in Int /\ Withdrawn(S) \in Int
  BY <1>1, SumIsInt, BankingAssumption DEF Funded, Withdrawn
<1>. QED  BY <1>2 DEF Funded, Withdrawn

(* A step that writes one funding and posts what its status changed. *)
LEMMA FundingExplains ==
  ASSUME NEW other \in Int, BankingTypeOK, TransfersExplain(other), SettledSplits',
         NEW f \in Fundings, NEW row \in Funding,
         funding' = [funding EXCEPT ![f] = row], UNCHANGED withdrawals,
         cash'["PENDING"] = cash["PENDING"] - AmountIn(funding[f], Pending) + AmountIn(row, Pending),
         cash'["SETTLED"] = cash["SETTLED"] - AmountIn(funding[f], Arrived) + AmountIn(row, Arrived),
         cash'["HELD"] = cash["HELD"]
  PROVE  TransfersExplain(other)'
<1>1. /\ Funded(Pending)' = Funded(Pending) - AmountIn(funding[f], Pending) + AmountIn(row, Pending)
      /\ Funded(Arrived)' = Funded(Arrived) - AmountIn(funding[f], Arrived) + AmountIn(row, Arrived)
      /\ Funded(Pending) \in Int /\ Funded(Arrived) \in Int
      /\ AmountIn(funding[f], Pending) \in Int /\ AmountIn(row, Pending) \in Int
      /\ AmountIn(funding[f], Arrived) \in Int /\ AmountIn(row, Arrived) \in Int
  BY FundingRow
<1>2. /\ Withdrawn(Held)' = Withdrawn(Held) /\ Withdrawn(Paid)' = Withdrawn(Paid)
      /\ Withdrawn(Paid) \in Int
  BY Totals
<1>3. /\ cash["PENDING"] = Funded(Pending) /\ cash["HELD"] = Withdrawn(Held)
      /\ cash["SETTLED"] = other + Funded(Arrived) - Withdrawn(Paid)
  BY DEF TransfersExplain
<1>4. /\ cash'["PENDING"] = Funded(Pending)' /\ cash'["HELD"] = Withdrawn(Held)'
      /\ cash'["SETTLED"] = other + Funded(Arrived)' - Withdrawn(Paid)'
  BY <1>1, <1>2, <1>3
<1>. QED  BY <1>4 DEF TransfersExplain

(* A step that writes one withdrawal and posts what its status changed. *)
LEMMA WithdrawalExplains ==
  ASSUME NEW other \in Int, BankingTypeOK, TransfersExplain(other), SettledSplits',
         NEW w \in Withdrawals, NEW row \in Withdrawal,
         withdrawals' = [withdrawals EXCEPT ![w] = row], UNCHANGED funding,
         cash'["PENDING"] = cash["PENDING"],
         cash'["SETTLED"] = cash["SETTLED"] + AmountIn(withdrawals[w], Paid) - AmountIn(row, Paid),
         cash'["HELD"] = cash["HELD"] - AmountIn(withdrawals[w], Held) + AmountIn(row, Held)
  PROVE  TransfersExplain(other)'
<1>1. /\ Withdrawn(Held)' = Withdrawn(Held) - AmountIn(withdrawals[w], Held) + AmountIn(row, Held)
      /\ Withdrawn(Paid)' = Withdrawn(Paid) - AmountIn(withdrawals[w], Paid) + AmountIn(row, Paid)
      /\ Withdrawn(Held) \in Int /\ Withdrawn(Paid) \in Int
      /\ AmountIn(withdrawals[w], Held) \in Int /\ AmountIn(row, Held) \in Int
      /\ AmountIn(withdrawals[w], Paid) \in Int /\ AmountIn(row, Paid) \in Int
  BY WithdrawalRow
<1>2. /\ Funded(Pending)' = Funded(Pending) /\ Funded(Arrived)' = Funded(Arrived)
      /\ Funded(Arrived) \in Int
  BY Totals
<1>3. /\ cash["PENDING"] = Funded(Pending) /\ cash["HELD"] = Withdrawn(Held)
      /\ cash["SETTLED"] = other + Funded(Arrived) - Withdrawn(Paid)
  BY DEF TransfersExplain
<1>4. /\ cash'["PENDING"] = Funded(Pending)' /\ cash'["HELD"] = Withdrawn(Held)'
      /\ cash'["SETTLED"] = other + Funded(Arrived)' - Withdrawn(Paid)'
  BY <1>1, <1>2, <1>3
<1>. QED  BY <1>4 DEF TransfersExplain

(* A step that writes neither and posts nothing. *)
LEMMA NoTransferExplains ==
  ASSUME NEW other \in Int, BankingTypeOK, TransfersExplain(other),
         UNCHANGED <<cash, funding, withdrawals>>
  PROVE  TransfersExplain(other)'
BY Totals DEF TransfersExplain, SettledSplits

(* What a posting does to the three balances that transfers explain. *)
LEMMA PostMoves ==
  ASSUME NEW b \in Balances, NEW n \in Int
  PROVE  /\ b["PENDING"] \in Int /\ b["SETTLED"] \in Int /\ b["HELD"] \in Int
         /\ LET c == Post(b, [PENDING |-> n])
            IN /\ c["PENDING"] = b["PENDING"] + n /\ c["SETTLED"] = b["SETTLED"]
               /\ c["HELD"] = b["HELD"] /\ c \in Balances
         /\ LET c == Post(b, SettledEntries(n))
            IN /\ c["PENDING"] = b["PENDING"] /\ c["SETTLED"] = b["SETTLED"] + n
               /\ c["HELD"] = b["HELD"] /\ c \in Balances
         /\ LET c == Post(b, [WITHDRAWABLE |-> -n, HELD |-> n])
            IN /\ c["PENDING"] = b["PENDING"] /\ c["SETTLED"] = b["SETTLED"]
               /\ c["HELD"] = b["HELD"] + n
         /\ LET c == Post(b, [SETTLED |-> -n, HELD |-> -n])
            IN /\ c["PENDING"] = b["PENDING"] /\ c["SETTLED"] = b["SETTLED"] - n
               /\ c["HELD"] = b["HELD"] - n
<1>1. \A d \in Dimension : b[d] \in Int
  BY DEF Balances
<1>. QED  BY <1>1 DEF Post, Balances, Dimension, SettledEntries

(* A funding starts pending, or as instructions that count for nothing. *)
LEMMA InitiateExplains ==
  ASSUME NEW other \in Int, BankingInv, BankingInv', TransfersExplain(other),
         NEW f \in Fundings, NEW a \in Accounts,
         NEW rail \in {"ACH", "WIRE"}, NEW amount \in Amounts,
         InitiateFunding(f, a, rail, amount)
  PROVE  TransfersExplain(other)'
<1>. DEFINE row == [account |-> a, amount |-> amount,
              status |-> IF rail = "ACH" THEN "INITIATED" ELSE "INSTRUCTIONS_ISSUED"]
<1>1. /\ UNCHANGED withdrawals
      /\ funding' = [funding EXCEPT ![f] = row]
      /\ funding[f] = None
      /\ cash' = IF rail = "ACH" THEN Post(cash, [PENDING |-> amount]) ELSE cash
      /\ row \in Funding /\ row.amount = amount /\ row # None
      /\ row.status = IF rail = "ACH" THEN "INITIATED" ELSE "INSTRUCTIONS_ISSUED"
  BY AbsentTransfers DEF InitiateFunding, Funding, FundingStatus
<1>. HIDE DEF row
<1>2. /\ AmountIn(funding[f], Pending) = 0 /\ AmountIn(funding[f], Arrived) = 0
      /\ AmountIn(row, Pending) = IF rail = "ACH" THEN amount ELSE 0
      /\ AmountIn(row, Arrived) = 0
  BY <1>1 DEF AmountIn, Pending, Arrived
<1>3. cash \in Balances /\ amount \in Int /\ BankingTypeOK /\ SettledSplits'
  BY BankingAssumption DEF BankingInv, BankingTypeOK
<1>4. /\ cash'["PENDING"] = cash["PENDING"] + (IF rail = "ACH" THEN amount ELSE 0)
      /\ cash'["SETTLED"] = cash["SETTLED"] /\ cash'["HELD"] = cash["HELD"]
      /\ cash["PENDING"] \in Int /\ cash["SETTLED"] \in Int
  <2>1. CASE rail = "ACH"
    BY <1>1, <1>3, <2>1, PostMoves
  <2>2. CASE rail # "ACH"
    <3>1. cash["PENDING"] \in Int /\ cash["SETTLED"] \in Int /\ cash' = cash
      BY <1>1, <1>3, <2>2, PostMoves
    <3>. QED  BY <2>2, <3>1
  <2>. QED  BY <2>1, <2>2
<1>5. /\ cash'["PENDING"] = cash["PENDING"] - AmountIn(funding[f], Pending) + AmountIn(row, Pending)
      /\ cash'["SETTLED"] = cash["SETTLED"] - AmountIn(funding[f], Arrived) + AmountIn(row, Arrived)
  BY <1>2, <1>3, <1>4
<1>. QED  BY <1>1, <1>3, <1>4, <1>5, FundingExplains

(* A callback posts what leaving one status and reaching another changes. *)
LEMMA MoveExplains ==
  ASSUME NEW other \in Int, BankingInv, BankingInv', TransfersExplain(other),
         NEW f \in Fundings, NEW s \in FundingStatus,
         NEW funded, MoveFunding(f, s, funded),
         LET was == funding[f].status
             amount == funding[f].amount
         IN /\ cash'["PENDING"] = cash["PENDING"]
                  - (IF was \in Pending THEN amount ELSE 0) + (IF s \in Pending THEN amount ELSE 0)
            /\ cash'["SETTLED"] = cash["SETTLED"]
                  - (IF was \in Arrived THEN amount ELSE 0) + (IF s \in Arrived THEN amount ELSE 0)
            /\ cash'["HELD"] = cash["HELD"]
  PROVE  TransfersExplain(other)'
<1>. DEFINE row == [funding[f] EXCEPT !.status = s]
<1>1. /\ UNCHANGED withdrawals
      /\ funding' = [funding EXCEPT ![f] = row]
      /\ funding[f] # None /\ funding[f] \in Funding
      /\ BankingTypeOK /\ SettledSplits'
  BY DEF MoveFunding, BankingInv, BankingTypeOK
<1>2. row \in Funding /\ row.amount = funding[f].amount /\ row.status = s /\ row # None
  BY <1>1, AbsentTransfers DEF Funding
<1>. HIDE DEF row
<1>3. \A S : /\ AmountIn(funding[f], S) = IF funding[f].status \in S THEN funding[f].amount ELSE 0
             /\ AmountIn(row, S) = IF s \in S THEN funding[f].amount ELSE 0
  BY <1>1, <1>2 DEF AmountIn
<1>4. /\ cash'["PENDING"] = cash["PENDING"] - AmountIn(funding[f], Pending) + AmountIn(row, Pending)
      /\ cash'["SETTLED"] = cash["SETTLED"] - AmountIn(funding[f], Arrived) + AmountIn(row, Arrived)
  BY <1>3
<1>. QED  BY <1>1, <1>2, <1>4, FundingExplains

(* Every callback is such a move. *)
LEMMA MovesExplain ==
  ASSUME NEW other \in Int, BankingInv, BankingInv', TransfersExplain(other),
         NEW f \in Fundings, Moves(f)
  PROVE  TransfersExplain(other)'
<1>. DEFINE was == funding[f].status
            n   == funding[f].amount
<1>1. /\ funding[f] # None /\ funding[f] \in Funding /\ cash \in Balances
  BY DEF Moves, AdvanceFunding, AchSettled, AchReturned, WireCredited, WireExcepted,
         MoveFunding, BankingInv, BankingTypeOK
<1>2. n \in Int /\ -n \in Int
  BY <1>1, TransferCounts
<1>. HIDE DEF was, n
<1>3. /\ cash["PENDING"] \in Int /\ cash["SETTLED"] \in Int /\ cash["HELD"] \in Int
  BY <1>1, <1>2, PostMoves
<1>4. ASSUME NEW s \in {"PROCESSING", "FUNDS_DETECTED", "OWNERSHIP_REVIEW", "RETURN_REQUIRED"},
             AdvanceFunding(f, s)
      PROVE  TransfersExplain(other)'
  <2>1. /\ MoveFunding(f, s, AsFunded(f)) /\ cash' = cash /\ <<was, s>> \in FundingSteps
        /\ s \in FundingStatus
    BY <1>4 DEF AdvanceFunding, MoveFunding, FundingStatus, was
  <2>2. (was \in Pending <=> s \in Pending) /\ was \notin Arrived /\ s \notin Arrived
    BY <2>1 DEF FundingSteps, WireException, Pending, Arrived
  <2>3. /\ cash'["PENDING"] = cash["PENDING"]
             - (IF was \in Pending THEN n ELSE 0) + (IF s \in Pending THEN n ELSE 0)
        /\ cash'["SETTLED"] = cash["SETTLED"]
             - (IF was \in Arrived THEN n ELSE 0) + (IF s \in Arrived THEN n ELSE 0)
        /\ cash'["HELD"] = cash["HELD"]
    BY <1>2, <1>3, <2>1, <2>2
  <2>. QED  BY <2>1, <2>3, MoveExplains DEF was, n
<1>5. CASE AchSettled(f)
  <2>1. /\ MoveFunding(f, "SETTLED", TRUE) /\ <<was, "SETTLED">> \in FundingSteps
        /\ cash' = Post(Post(cash, [PENDING |-> -n]), SettledEntries(n))
        /\ "SETTLED" \in FundingStatus
    BY <1>5 DEF AchSettled, MoveFunding, FundingStatus, was, n
  <2>2. was \in Pending /\ was \notin Arrived /\ "SETTLED" \notin Pending /\ "SETTLED" \in Arrived
    BY <2>1 DEF FundingSteps, WireException, Pending, Arrived
  <2>3. /\ cash'["PENDING"] = cash["PENDING"] + -n /\ cash'["SETTLED"] = cash["SETTLED"] + n
        /\ cash'["HELD"] = cash["HELD"]
    <3>. DEFINE b == Post(cash, [PENDING |-> -n])
    <3>1. /\ b["PENDING"] = cash["PENDING"] + -n /\ b["SETTLED"] = cash["SETTLED"]
          /\ b["HELD"] = cash["HELD"] /\ b \in Balances
      BY <1>1, <1>2, PostMoves
    <3>. HIDE DEF b
    <3>2. LET c == Post(b, SettledEntries(n))
          IN /\ c["PENDING"] = b["PENDING"] /\ c["SETTLED"] = b["SETTLED"] + n
             /\ c["HELD"] = b["HELD"]
      BY <1>2, <3>1, PostMoves
    <3>. QED  BY <2>1, <3>1, <3>2 DEF b
  <2>4. /\ cash'["PENDING"] = cash["PENDING"]
             - (IF was \in Pending THEN n ELSE 0) + (IF "SETTLED" \in Pending THEN n ELSE 0)
        /\ cash'["SETTLED"] = cash["SETTLED"]
             - (IF was \in Arrived THEN n ELSE 0) + (IF "SETTLED" \in Arrived THEN n ELSE 0)
    BY <1>2, <1>3, <2>2, <2>3
  <2>. QED  BY <2>1, <2>3, <2>4, MoveExplains DEF was, n
<1>6. ASSUME NEW s \in {"RETURNED", "CANCELED"}, AchReturned(f, s)
      PROVE  TransfersExplain(other)'
  <2>1. /\ MoveFunding(f, s, FALSE) /\ <<was, s>> \in FundingSteps /\ s \in FundingStatus
        /\ cash' = IF was = "SETTLED" THEN Post(cash, SettledEntries(-n))
                                      ELSE Post(cash, [PENDING |-> -n])
    BY <1>6 DEF AchReturned, MoveFunding, FundingStatus, was, n
  <2>2. /\ was \in Pending \cup {"SETTLED"} /\ s \notin Pending /\ s \notin Arrived
        /\ was \in Arrived <=> was = "SETTLED"
        /\ was \in Pending <=> was # "SETTLED"
    BY <2>1 DEF FundingSteps, WireException, Pending, Arrived
  <2>3. /\ cash'["PENDING"] = cash["PENDING"] + (IF was = "SETTLED" THEN 0 ELSE -n)
        /\ cash'["SETTLED"] = cash["SETTLED"] + (IF was = "SETTLED" THEN -n ELSE 0)
        /\ cash'["HELD"] = cash["HELD"]
    <3>1. CASE was = "SETTLED"
      <4>1. cash' = Post(cash, SettledEntries(-n))
        BY <2>1, <3>1
      <4>2. /\ cash'["PENDING"] = cash["PENDING"] /\ cash'["SETTLED"] = cash["SETTLED"] + -n
            /\ cash'["HELD"] = cash["HELD"]
        BY <1>1, <1>2, <4>1, PostMoves
      <4>. QED  BY <1>2, <1>3, <3>1, <4>2
    <3>2. CASE was # "SETTLED"
      <4>1. cash' = Post(cash, [PENDING |-> -n])
        BY <2>1, <3>2
      <4>2. /\ cash'["PENDING"] = cash["PENDING"] + -n /\ cash'["SETTLED"] = cash["SETTLED"]
            /\ cash'["HELD"] = cash["HELD"]
        BY <1>1, <1>2, <4>1, PostMoves
      <4>. QED  BY <1>2, <1>3, <3>2, <4>2
    <3>. QED  BY <3>1, <3>2
  <2>4. /\ cash'["PENDING"] = cash["PENDING"]
             - (IF was \in Pending THEN n ELSE 0) + (IF s \in Pending THEN n ELSE 0)
        /\ cash'["SETTLED"] = cash["SETTLED"]
             - (IF was \in Arrived THEN n ELSE 0) + (IF s \in Arrived THEN n ELSE 0)
    BY <1>2, <1>3, <2>2, <2>3
  <2>. QED  BY <2>1, <2>3, <2>4, MoveExplains DEF was, n
<1>7. CASE WireCredited(f)
  <2>1. /\ MoveFunding(f, "CREDITED", TRUE) /\ <<was, "CREDITED">> \in FundingSteps
        /\ cash' = Post(cash, SettledEntries(n)) /\ "CREDITED" \in FundingStatus
    BY <1>7 DEF WireCredited, MoveFunding, FundingStatus, was, n
  <2>2. was \notin Pending /\ was \notin Arrived
        /\ "CREDITED" \notin Pending /\ "CREDITED" \in Arrived
    BY <2>1 DEF FundingSteps, WireException, Pending, Arrived
  <2>3. /\ cash'["PENDING"] = cash["PENDING"] /\ cash'["SETTLED"] = cash["SETTLED"] + n
        /\ cash'["HELD"] = cash["HELD"]
    BY <1>1, <1>2, <2>1, PostMoves
  <2>4. /\ cash'["PENDING"] = cash["PENDING"]
             - (IF was \in Pending THEN n ELSE 0) + (IF "CREDITED" \in Pending THEN n ELSE 0)
        /\ cash'["SETTLED"] = cash["SETTLED"]
             - (IF was \in Arrived THEN n ELSE 0) + (IF "CREDITED" \in Arrived THEN n ELSE 0)
    BY <1>2, <1>3, <2>2, <2>3
  <2>. QED  BY <2>1, <2>3, <2>4, MoveExplains DEF was, n
<1>8. ASSUME NEW s \in WireException, WireExcepted(f, s)
      PROVE  TransfersExplain(other)'
  <2>1. /\ MoveFunding(f, s, AsFunded(f)) /\ cash' = cash /\ <<was, s>> \in FundingSteps
        /\ s \in FundingStatus
    BY <1>8 DEF WireExcepted, MoveFunding, FundingStatus, was
  <2>2. was \notin Pending /\ s \notin Pending /\ was \notin Arrived /\ s \notin Arrived
    BY <2>1 DEF FundingSteps, WireException, Pending, Arrived
  <2>3. /\ cash'["PENDING"] = cash["PENDING"]
             - (IF was \in Pending THEN n ELSE 0) + (IF s \in Pending THEN n ELSE 0)
        /\ cash'["SETTLED"] = cash["SETTLED"]
             - (IF was \in Arrived THEN n ELSE 0) + (IF s \in Arrived THEN n ELSE 0)
        /\ cash'["HELD"] = cash["HELD"]
    BY <1>3, <2>1, <2>2
  <2>. QED  BY <2>1, <2>3, MoveExplains DEF was, n
<1>. QED  BY <1>4, <1>5, <1>6, <1>7, <1>8 DEF Moves

(* A request writes a row that counts for nothing, or decides only. *)
LEMMA RequestExplains ==
  ASSUME NEW other \in Int, BankingInv, BankingInv', TransfersExplain(other),
         NEW w \in Withdrawals, NEW a \in Accounts,
         NEW amount \in Amounts, RequestWithdrawal(w, a, amount)
  PROVE  TransfersExplain(other)'
<1>1. ASSUME NEW s \in {"REJECTED", "SECURITY_VERIFICATION"} \cup InReview, NEW case,
             CreateWithdrawal(w, [account |-> a, amount |-> amount, status |-> s], case)
      PROVE  TransfersExplain(other)'
  <2>. DEFINE row == [account |-> a, amount |-> amount, status |-> s]
  <2>1. /\ UNCHANGED <<cash, funding>> /\ withdrawals' = [withdrawals EXCEPT ![w] = row]
        /\ withdrawals[w] = None /\ BankingTypeOK /\ SettledSplits' /\ cash \in Balances
    BY <1>1 DEF CreateWithdrawal, RequestWithdrawal, BankingInv, BankingTypeOK
  <2>2. row \in Withdrawal /\ row.status = s
    BY DEF Withdrawal, WithdrawalStatus
  <2>. HIDE DEF row
  <2>3. /\ AmountIn(withdrawals[w], Paid) = 0 /\ AmountIn(row, Paid) = 0
        /\ AmountIn(withdrawals[w], Held) = 0 /\ AmountIn(row, Held) = 0
    BY <2>1, <2>2 DEF AmountIn, Paid, Held, InTransit, InReview
  <2>4. cash["SETTLED"] \in Int /\ cash["HELD"] \in Int
    BY <2>1 DEF Balances, Dimension
  <2>5. /\ cash'["SETTLED"] = cash["SETTLED"] + AmountIn(withdrawals[w], Paid) - AmountIn(row, Paid)
        /\ cash'["HELD"] = cash["HELD"] - AmountIn(withdrawals[w], Held) + AmountIn(row, Held)
    BY <2>1, <2>3, <2>4
  <2>. QED  BY <2>1, <2>2, <2>5, WithdrawalExplains
<1>2. CASE BeginReserve(w, [account |-> a, amount |-> amount, status |-> "APPROVED"], None, None)
  BY <1>2, NoTransferExplains DEF BeginReserve, BankingInv
<1>3. CASE CreateWithdrawal(w, [account |-> a, amount |-> amount,
               status |-> IF accounts[a].cooling = "RUNNING" THEN "COOLING_OFF" ELSE "MANUAL_REVIEW"],
               "IN_REVIEW")
  <2>1. CASE accounts[a].cooling = "RUNNING"
    BY <1>1, <1>3, <2>1 DEF InReview
  <2>2. CASE accounts[a].cooling # "RUNNING"
    BY <1>1, <1>3, <2>2 DEF InReview
  <2>. QED  BY <2>1, <2>2
<1>. QED  BY <1>1, <1>2, <1>3 DEF RequestWithdrawal

(* A reservation that posts holds the amount of a row that counted for     *)
(* nothing when the reservation was decided, and still does.               *)
LEMMA CommitReserveExplains ==
  ASSUME NEW other \in Int, BankingInv, BankingInv', TransfersExplain(other),
         CommitReserve
  PROVE  TransfersExplain(other)'
<1>. DEFINE w   == reserving.withdrawal
            row == reserving.row
<1>1. /\ reserving \in Reserving /\ ReservingSound /\ reserving # None
      /\ BankingTypeOK /\ SettledSplits' /\ cash \in Balances
  BY DEF CommitReserve, BankingInv, BankingTypeOK
<1>2. /\ w \in Withdrawals /\ row \in Withdrawal /\ row.status = "APPROVED" /\ row # None
      /\ withdrawals[w] = None \/ withdrawals[w].status \in InReview
  BY <1>1, AbsentTransfers DEF Reserving, ReservingSound, WithdrawalIn
<1>3. /\ cash' = Post(cash, [WITHDRAWABLE |-> -row.amount, HELD |-> row.amount])
      /\ withdrawals' = [withdrawals EXCEPT ![w] = row]
      /\ UNCHANGED funding
  BY DEF CommitReserve
<1>. HIDE DEF w, row
<1>4. row.amount \in Int
  BY <1>2, TransferCounts
<1>5. /\ AmountIn(withdrawals[w], Paid) = 0 /\ AmountIn(row, Paid) = 0
      /\ AmountIn(withdrawals[w], Held) = 0 /\ AmountIn(row, Held) = row.amount
  BY <1>2 DEF AmountIn, Paid, Held, InTransit, InReview
<1>6. /\ cash'["PENDING"] = cash["PENDING"] /\ cash'["SETTLED"] = cash["SETTLED"]
      /\ cash'["HELD"] = cash["HELD"] + row.amount
      /\ cash["SETTLED"] \in Int /\ cash["HELD"] \in Int
  BY <1>1, <1>3, <1>4, PostMoves
<1>7. /\ cash'["SETTLED"] = cash["SETTLED"] + AmountIn(withdrawals[w], Paid) - AmountIn(row, Paid)
      /\ cash'["HELD"] = cash["HELD"] - AmountIn(withdrawals[w], Held) + AmountIn(row, Held)
  BY <1>4, <1>5, <1>6
<1>. QED  BY <1>1, <1>2, <1>3, <1>6, <1>7, WithdrawalExplains

(* Submission pays out what was held; a return brings back what was paid.  *)
LEMMA EventExplains ==
  ASSUME NEW other \in Int, BankingInv, BankingInv', TransfersExplain(other),
         NEW w \in Withdrawals,
         NEW s \in WithdrawalStatus \ {"APPROVED", "REJECTED"}, WithdrawalEvent(w, s)
  PROVE  TransfersExplain(other)'
<1>. DEFINE was == withdrawals[w].status
            n   == withdrawals[w].amount
            row == [withdrawals[w] EXCEPT !.status = s]
<1>1. /\ withdrawals[w] # None /\ withdrawals[w] \in Withdrawal
      /\ <<was, s>> \in WithdrawalSteps
      /\ withdrawals' = [withdrawals EXCEPT ![w] = row] /\ UNCHANGED funding
      /\ BankingTypeOK /\ SettledSplits' /\ cash \in Balances
  BY DEF WithdrawalEvent, BankingInv, BankingTypeOK
<1>2. cash' = CASE s = "SUBMITTED_TO_BANK" -> Post(cash, [SETTLED |-> -n, HELD |-> -n])
                [] s = "RETURNED" -> Post(cash, SettledEntries(n))
                [] OTHER -> cash
  BY DEF WithdrawalEvent
<1>3. row \in Withdrawal /\ row.amount = n /\ row.status = s /\ row # None
  BY <1>1, AbsentTransfers DEF Withdrawal
<1>4. n \in Int
  BY <1>1, TransferCounts
<1>5. \A S : /\ AmountIn(withdrawals[w], S) = IF was \in S THEN n ELSE 0
             /\ AmountIn(row, S) = IF s \in S THEN n ELSE 0
  BY <1>1, <1>3 DEF AmountIn
<1>. HIDE DEF was, n, row
<1>6. /\ cash["PENDING"] \in Int /\ cash["SETTLED"] \in Int /\ cash["HELD"] \in Int
  BY <1>1, <1>4, PostMoves
<1>7. CASE s = "SUBMITTED_TO_BANK"
  <2>1. was \in Held /\ was \notin Paid /\ s \notin Held /\ s \in Paid
    BY <1>1, <1>7 DEF WithdrawalSteps, InReview, Held, Paid, InTransit
  <2>2. /\ cash'["PENDING"] = cash["PENDING"] /\ cash'["SETTLED"] = cash["SETTLED"] - n
        /\ cash'["HELD"] = cash["HELD"] - n
    BY <1>1, <1>2, <1>4, <1>7, PostMoves
  <2>3. /\ AmountIn(withdrawals[w], Paid) = 0 /\ AmountIn(row, Paid) = n
        /\ AmountIn(withdrawals[w], Held) = n /\ AmountIn(row, Held) = 0
    BY <1>5, <2>1
  <2>4. /\ cash'["SETTLED"] = cash["SETTLED"] + AmountIn(withdrawals[w], Paid) - AmountIn(row, Paid)
        /\ cash'["HELD"] = cash["HELD"] - AmountIn(withdrawals[w], Held) + AmountIn(row, Held)
    BY <1>4, <1>6, <2>2, <2>3
  <2>. QED  BY <1>1, <1>3, <2>2, <2>4, WithdrawalExplains
<1>8. CASE s = "RETURNED"
  <2>1. was \notin Held /\ was \in Paid /\ s \notin Held /\ s \notin Paid
    BY <1>1, <1>8 DEF WithdrawalSteps, InReview, Held, Paid, InTransit
  <2>2. /\ cash'["PENDING"] = cash["PENDING"] /\ cash'["SETTLED"] = cash["SETTLED"] + n
        /\ cash'["HELD"] = cash["HELD"]
    BY <1>1, <1>2, <1>4, <1>8, PostMoves
  <2>3. /\ AmountIn(withdrawals[w], Paid) = n /\ AmountIn(row, Paid) = 0
        /\ AmountIn(withdrawals[w], Held) = 0 /\ AmountIn(row, Held) = 0
    BY <1>5, <2>1
  <2>4. /\ cash'["SETTLED"] = cash["SETTLED"] + AmountIn(withdrawals[w], Paid) - AmountIn(row, Paid)
        /\ cash'["HELD"] = cash["HELD"] - AmountIn(withdrawals[w], Held) + AmountIn(row, Held)
    BY <1>4, <1>6, <2>2, <2>3
  <2>. QED  BY <1>1, <1>3, <2>2, <2>4, WithdrawalExplains
<1>9. CASE s \notin {"SUBMITTED_TO_BANK", "RETURNED"}
  <2>1. was \notin Held /\ was \in Paid /\ s \notin Held /\ s \in Paid
    BY <1>1, <1>9 DEF WithdrawalSteps, InReview, Held, Paid, InTransit
  <2>2. cash' = cash
    BY <1>2, <1>9
  <2>3. /\ AmountIn(withdrawals[w], Paid) = n /\ AmountIn(row, Paid) = n
        /\ AmountIn(withdrawals[w], Held) = 0 /\ AmountIn(row, Held) = 0
    BY <1>5, <2>1
  <2>4. /\ cash'["SETTLED"] = cash["SETTLED"] + AmountIn(withdrawals[w], Paid) - AmountIn(row, Paid)
        /\ cash'["HELD"] = cash["HELD"] - AmountIn(withdrawals[w], Held) + AmountIn(row, Held)
    BY <1>4, <1>6, <2>2, <2>3
  <2>. QED  BY <1>1, <1>3, <2>2, <2>4, WithdrawalExplains
<1>. QED  BY <1>7, <1>8, <1>9

(* An approved rejection moves a row that counts for nothing. *)
LEMMA RejectExplains ==
  ASSUME NEW other \in Int, BankingInv, BankingInv', TransfersExplain(other),
         NEW p \in proposals, NEW c \in Admins,
         ApproveRejection(p, c)
  PROVE  TransfersExplain(other)'
<1>. DEFINE w   == p.about
            row == [withdrawals[w] EXCEPT !.status = "REJECTED"]
<1>1. /\ w \in Withdrawals /\ <<withdrawals[w].status, "REJECTED">> \in WithdrawalSteps
      /\ withdrawals' = [withdrawals EXCEPT ![w] = row] /\ UNCHANGED <<cash, funding>>
      /\ BankingTypeOK /\ SettledSplits' /\ cash \in Balances
  BY DEF ApproveRejection, BankingInv, BankingTypeOK
<1>2. withdrawals[w] # None /\ withdrawals[w] \in Withdrawal
  BY <1>1 DEF BankingInv, BankingTypeOK, ProposalsSound
<1>3. row \in Withdrawal /\ row.status = "REJECTED" /\ withdrawals[w].status \in InReview
  BY <1>1, <1>2 DEF Withdrawal, WithdrawalStatus, WithdrawalSteps
<1>. HIDE DEF w, row
<1>4. /\ AmountIn(withdrawals[w], Paid) = 0 /\ AmountIn(row, Paid) = 0
      /\ AmountIn(withdrawals[w], Held) = 0 /\ AmountIn(row, Held) = 0
  BY <1>2, <1>3 DEF AmountIn, Paid, Held, InTransit, InReview
<1>5. cash["SETTLED"] \in Int /\ cash["HELD"] \in Int
  BY <1>1 DEF Balances, Dimension
<1>6. /\ cash'["SETTLED"] = cash["SETTLED"] + AmountIn(withdrawals[w], Paid) - AmountIn(row, Paid)
      /\ cash'["HELD"] = cash["HELD"] - AmountIn(withdrawals[w], Held) + AmountIn(row, Held)
  BY <1>1, <1>4, <1>5
<1>. QED  BY <1>1, <1>3, <1>6, WithdrawalExplains

(* Nothing is transferred at first. *)
LEMMA BankingInitExplains == BankingInit => TransfersExplain(InitialCash)
<1>. SUFFICES ASSUME BankingInit  PROVE TransfersExplain(InitialCash)
  OBVIOUS
<1>1. \A S : Funded(S) = 0 /\ Withdrawn(S) = 0
  <2>. SUFFICES ASSUME NEW S  PROVE Funded(S) = 0 /\ Withdrawn(S) = 0
    OBVIOUS
  <2>. DEFINE g == [x \in Fundings |-> AmountIn(funding[x], S)]
              h == [x \in Withdrawals |-> AmountIn(withdrawals[x], S)]
  <2>1. (\A x \in Fundings : g[x] = 0) /\ (\A x \in Withdrawals : h[x] = 0)
    BY DEF BankingInit, AmountIn
  <2>2. DOMAIN g = Fundings /\ DOMAIN h = Withdrawals
    OBVIOUS
  <2>3. Funded(S) = SumFunction(g) /\ Withdrawn(S) = SumFunction(h)
    BY DEF Funded, Withdrawn
  <2>. HIDE DEF g, h
  <2>. QED  BY <2>1, <2>2, <2>3, SumOfZeros, BankingAssumption DEF SumFunction
<1>2. /\ cash["PENDING"] = 0 /\ cash["HELD"] = 0 /\ cash["SETTLED"] = InitialCash
      /\ InitialCash \in Int
  BY InitialCashAssumption DEF BankingInit, Opened, Dimension
<1>3. SettledSplits
  BY BankingInitInv DEF BankingInv
<1>. QED  BY <1>1, <1>2, <1>3 DEF TransfersExplain

(* Whatever others posted, a step of a transfer explains its own change.   *)
LEMMA BankingNextExplains ==
  ASSUME NEW other \in Int, BankingInv, BankingInv', TransfersExplain(other),
         [BankingNext]_bankingVars
  PROVE  TransfersExplain(other)'
<1>1. CASE UNCHANGED bankingVars \/ Links \/ RollBackReserve
  BY <1>1, NoTransferExplains
  DEF bankingVars, Links, LinkBankAccount, VerifyBankAccountOwnership, CoolingEnds,
      RollBackReserve, BankingInv
<1>2. CASE Requests
  BY <1>2, InitiateExplains, RequestExplains DEF Requests
<1>3. CASE Reviews
  <2>1. ASSUME NEW p \in proposals, NEW c \in Admins, ApproveRejection(p, c)
        PROVE  TransfersExplain(other)'
    BY <2>1, RejectExplains
  <2>. QED
    BY <1>3, <2>1, NoTransferExplains
    DEF Reviews, ProposeReview, DeclineReview, ApproveWithdrawal, BeginReserve, BankingInv
<1>. QED  BY <1>1, <1>2, <1>3, MovesExplain, EventExplains, CommitReserveExplains DEF BankingNext

(* The balances say what the transfers' statuses say, for any number of    *)
(* transfers and any order of callbacks, returns and reviews: no posting   *)
(* is lost, repeated or reversed twice.                                    *)
THEOREM BalancesAlwaysExplained == BankingSpec => []BalancesExplained
<1>1. TransfersExplain(InitialCash) => BalancesExplained
  BY DEF TransfersExplain, BalancesExplained, Pending, Arrived, Held, Paid
<1>2. /\ TransfersExplain(InitialCash) /\ BankingInv /\ BankingInv'
      /\ [BankingNext]_bankingVars
      => TransfersExplain(InitialCash)'
  BY BankingNextExplains, InitialCashAssumption
<1>. QED  BY <1>1, <1>2, BankingInitExplains, BankingInvariant, PTL DEF BankingSpec

-----------------------------------------------------------------------------
(* A funding that is finished has no transition left, and its row exists,  *)
(* so no request writes it either.                                         *)
LEMMA FinalFundingStays ==
  ASSUME BankingInv, BankingNext,
         NEW f \in FundingIn({"RETURNED", "CANCELED", "CREDITED", "RETURN_REQUIRED"})
  PROVE  funding'[f] = funding[f]
<1>1. /\ f \in Fundings /\ funding[f] # None
      /\ funding[f].status \in {"RETURNED", "CANCELED", "CREDITED", "RETURN_REQUIRED"}
      /\ funding \in [Fundings -> Funding \cup {None}]
  BY DEF FundingIn, BankingInv, BankingTypeOK
<1>2. ASSUME NEW x \in Fundings, NEW s, NEW b, MoveFunding(x, s, b)
      PROVE  funding'[f] = funding[f]
  <2>1. x # f
    BY <1>1, <1>2 DEF MoveFunding, FundingSteps, WireException
  <2>. QED  BY <1>1, <1>2, <2>1 DEF MoveFunding
<1>3. ASSUME NEW x \in Fundings, Moves(x)
      PROVE  funding'[f] = funding[f]
  BY <1>2, <1>3 DEF Moves, AdvanceFunding, AchSettled, AchReturned, WireCredited, WireExcepted
<1>4. CASE Requests
  <2>1. ASSUME NEW x \in Fundings, NEW a, NEW rail, NEW amount,
               InitiateFunding(x, a, rail, amount)
        PROVE  funding'[f] = funding[f]
    BY <1>1, <2>1 DEF InitiateFunding
  <2>2. ASSUME NEW w \in Withdrawals, NEW a, NEW amount, RequestWithdrawal(w, a, amount)
        PROVE  funding'[f] = funding[f]
    BY <2>2 DEF RequestWithdrawal, CreateWithdrawal, BeginReserve
  <2>. QED  BY <1>4, <2>1, <2>2 DEF Requests
<1>5. CASE Links
  BY <1>5 DEF Links, LinkBankAccount, VerifyBankAccountOwnership, CoolingEnds
<1>6. CASE Reviews
  BY <1>6 DEF Reviews, ProposeReview, DeclineReview, ApproveRejection, ApproveWithdrawal,
              BeginReserve
<1>7. CASE CommitReserve \/ RollBackReserve \/ \E w \in Withdrawals,
             s \in WithdrawalStatus \ {"APPROVED", "REJECTED"} : WithdrawalEvent(w, s)
  BY <1>7 DEF CommitReserve, RollBackReserve, WithdrawalEvent
<1>. QED  BY <1>3, <1>4, <1>5, <1>6, <1>7 DEF BankingNext

(* A withdrawal that is finished has no transition left, and a reservation *)
(* under way is about one that is missing or in review.                    *)
LEMMA FinalWithdrawalStays ==
  ASSUME BankingInv, BankingNext, NEW w \in WithdrawalIn({"REJECTED", "SETTLED", "RETURNED"})
  PROVE  withdrawals'[w] = withdrawals[w]
<1>1. /\ w \in Withdrawals /\ withdrawals[w] # None
      /\ withdrawals[w].status \in {"REJECTED", "SETTLED", "RETURNED"}
      /\ withdrawals \in [Withdrawals -> Withdrawal \cup {None}]
  BY DEF WithdrawalIn, BankingInv, BankingTypeOK
<1>2. CASE CommitReserve
  <2>1. reserving.withdrawal # w
    BY <1>1, <1>2 DEF BankingInv, ReservingSound, CommitReserve, WithdrawalIn, InReview
  <2>. QED  BY <1>1, <1>2, <2>1 DEF CommitReserve
<1>3. ASSUME NEW x \in Withdrawals, NEW s \in WithdrawalStatus, WithdrawalEvent(x, s)
      PROVE  withdrawals'[w] = withdrawals[w]
  <2>1. x # w
    BY <1>1, <1>3 DEF WithdrawalEvent, WithdrawalSteps, InReview
  <2>. QED  BY <1>1, <1>3, <2>1 DEF WithdrawalEvent
<1>4. CASE Reviews
  <2>1. ASSUME NEW p \in proposals, NEW c \in Admins, ApproveRejection(p, c)
        PROVE  withdrawals'[w] = withdrawals[w]
    <3>1. p.about # w
      BY <1>1, <2>1 DEF ApproveRejection, WithdrawalSteps, InReview
    <3>. QED  BY <1>1, <2>1, <3>1 DEF ApproveRejection
  <2>. QED
    BY <1>4, <2>1 DEF Reviews, ProposeReview, DeclineReview, ApproveWithdrawal, BeginReserve
<1>5. CASE Requests
  <2>1. ASSUME NEW x \in Withdrawals, NEW a, NEW amount, RequestWithdrawal(x, a, amount)
        PROVE  withdrawals'[w] = withdrawals[w]
    BY <1>1, <2>1 DEF RequestWithdrawal, CreateWithdrawal, BeginReserve
  <2>. QED  BY <1>5, <2>1 DEF Requests, InitiateFunding
<1>6. CASE Links \/ RollBackReserve \/ \E f \in Fundings : Moves(f)
  BY <1>6 DEF Links, LinkBankAccount, VerifyBankAccountOwnership, CoolingEnds,
              RollBackReserve, Moves, AdvanceFunding, AchSettled, AchReturned,
              WireCredited, WireExcepted, MoveFunding
<1>. QED  BY <1>2, <1>3, <1>4, <1>5, <1>6 DEF BankingNext

(* So no step touches a finished transfer. *)
TransfersFinal ==
    /\ \A f \in FundingIn({"RETURNED", "CANCELED", "CREDITED", "RETURN_REQUIRED"}) :
          funding'[f] = funding[f]
    /\ \A w \in WithdrawalIn({"REJECTED", "SETTLED", "RETURNED"}) :
          withdrawals'[w] = withdrawals[w]

LEMMA FinalStep ==
  ASSUME BankingInv, [BankingNext]_bankingVars
  PROVE  TransfersFinal
BY FinalFundingStays, FinalWithdrawalStays DEF TransfersFinal, bankingVars

(* A finished transfer stays as it is, whatever callbacks and reviews      *)
(* arrive late.                                                            *)
THEOREM FinalTransfersAlwaysStay == BankingSpec => FinalTransfersStay
<1>1. BankingInv /\ [BankingNext]_bankingVars => [TransfersFinal]_bankingVars
  BY FinalStep
<1>. QED
  BY <1>1, BankingInvariant, PTL DEF BankingSpec, FinalTransfersStay, TransfersFinal

-----------------------------------------------------------------------------
(* What withdrawals hold is there *)

(* As long as nothing was returned, withdrawable cash, and what others     *)
(* have `spent', is never negative and covers the reservation that was     *)
(* decided against it.  Alone, nobody else has spent anything.             *)
ReserveCovered(spent) ==
    FundingIn({"RETURNED"}) = {} =>
      /\ cash["WITHDRAWABLE"] + spent >= 0
      /\ reserving # None => reserving.row.amount =< cash["WITHDRAWABLE"] + spent

(* What the postings do to withdrawable cash. *)
LEMMA PostWithdrawable ==
  ASSUME NEW b \in Balances, NEW n \in Int
  PROVE  /\ b["WITHDRAWABLE"] \in Int
         /\ Post(b, [PENDING |-> n])["WITHDRAWABLE"] = b["WITHDRAWABLE"]
         /\ Post(b, [PENDING |-> n]) \in Balances
         /\ Post(b, SettledEntries(n))["WITHDRAWABLE"] = b["WITHDRAWABLE"] + n
         /\ Post(b, [WITHDRAWABLE |-> -n, HELD |-> n])["WITHDRAWABLE"] = b["WITHDRAWABLE"] - n
         /\ Post(b, [SETTLED |-> -n, HELD |-> -n])["WITHDRAWABLE"] = b["WITHDRAWABLE"]
<1>1. \A d \in Dimension : b[d] \in Int
  BY DEF Balances
<1>. QED  BY <1>1 DEF Post, Balances, Dimension, SettledEntries

(* Amounts are naturals. *)
LEMMA AmountsNat ==
  ASSUME NEW row \in Funding \cup Withdrawal
  PROVE  row.amount \in Nat
<1>1. row.amount \in Amounts
  BY DEF Funding, Withdrawal
<1>. QED  BY <1>1, BankingAssumption

(* A return stays a return. *)
LEMMA ReturnsStay ==
  ASSUME BankingInv, [BankingNext]_bankingVars, FundingIn({"RETURNED"})' = {}
  PROVE  FundingIn({"RETURNED"}) = {}
<1>. SUFFICES ASSUME NEW f \in FundingIn({"RETURNED"})  PROVE FALSE
  OBVIOUS
<1>1. f \in FundingIn({"RETURNED", "CANCELED", "CREDITED", "RETURN_REQUIRED"})
  BY DEF FundingIn
<1>2. funding'[f] = funding[f]
  BY <1>1, FinalFundingStays DEF bankingVars
<1>3. f \in FundingIn({"RETURNED"})'
  BY <1>2 DEF FundingIn
<1>. QED  BY <1>3

(* A callback that returns nothing takes no withdrawable cash.             *)
LEMMA MoveCovers ==
  ASSUME BankingInv, NEW f \in Fundings, Moves(f), FundingIn({"RETURNED"})' = {}
  PROVE  cash'["WITHDRAWABLE"] >= cash["WITHDRAWABLE"]
<1>. DEFINE n == funding[f].amount
<1>1. /\ funding[f] # None /\ funding[f] \in Funding /\ cash \in Balances
      /\ funding \in [Fundings -> Funding \cup {None}]
  BY DEF Moves, AdvanceFunding, AchSettled, AchReturned, WireCredited, WireExcepted,
         MoveFunding, BankingInv, BankingTypeOK
<1>2. n \in Nat /\ n \in Int /\ -n \in Int
  <2>1. n \in Nat
    BY <1>1, AmountsNat
  <2>. HIDE DEF n
  <2>. QED  BY <2>1
<1>3. cash["WITHDRAWABLE"] \in Int
  BY <1>1, <1>2, PostWithdrawable
<1>4. CASE cash' = cash
  BY <1>3, <1>4
<1>5. CASE AchSettled(f)
  <2>. DEFINE b == Post(cash, [PENDING |-> -n])
  <2>1. b \in Balances /\ b["WITHDRAWABLE"] = cash["WITHDRAWABLE"]
    BY <1>1, <1>2, PostWithdrawable
  <2>2. cash' = Post(b, SettledEntries(n))
    BY <1>5 DEF AchSettled
  <2>. HIDE DEF b, n
  <2>3. cash'["WITHDRAWABLE"] = b["WITHDRAWABLE"] + n
    BY <1>2, <2>1, <2>2, PostWithdrawable
  <2>. QED  BY <1>2, <1>3, <2>1, <2>3
<1>6. CASE WireCredited(f)
  <2>1. cash' = Post(cash, SettledEntries(n))
    BY <1>6 DEF WireCredited
  <2>. HIDE DEF n
  <2>2. cash'["WITHDRAWABLE"] = cash["WITHDRAWABLE"] + n
    BY <1>1, <1>2, <2>1, PostWithdrawable
  <2>. QED  BY <1>2, <1>3, <2>2
<1>7. ASSUME NEW s \in {"RETURNED", "CANCELED"}, AchReturned(f, s)
      PROVE  cash'["WITHDRAWABLE"] >= cash["WITHDRAWABLE"]
  <2>1. <<funding[f].status, s>> \in FundingSteps
        /\ funding' = [funding EXCEPT ![f].status = s]
    BY <1>7 DEF AchReturned, MoveFunding
  <2>2. s # "RETURNED"
    <3>1. funding'[f] = [funding[f] EXCEPT !.status = s] /\ funding'[f].status = s
      BY <1>1, <2>1 DEF Funding
    <3>2. funding'[f] # None
      BY <1>1, <2>1, <3>1, AbsentTransfers DEF Funding, FundingStatus
    <3>. QED  BY <3>1, <3>2 DEF FundingIn
  <2>3. funding[f].status # "SETTLED"
    BY <2>1, <2>2 DEF FundingSteps, WireException
  <2>4. cash' = Post(cash, [PENDING |-> -n])
    BY <1>7, <2>3 DEF AchReturned
  <2>. HIDE DEF n
  <2>5. cash'["WITHDRAWABLE"] = cash["WITHDRAWABLE"]
    BY <1>1, <1>2, <2>4, PostWithdrawable
  <2>. QED  BY <1>3, <2>5
<1>. QED
  BY <1>4, <1>5, <1>6, <1>7 DEF Moves, AdvanceFunding, WireExcepted

(* Only a reservation takes withdrawable cash, and it was decided when     *)
(* the profile was locked, so nothing has been taken since.                *)
LEMMA ReserveStaysCovered ==
  ASSUME NEW spent \in Nat, BankingInv, ReserveCovered(spent), [BankingNext]_bankingVars
  PROVE  ReserveCovered(spent)'
<1>. SUFFICES ASSUME FundingIn({"RETURNED"})' = {}
              PROVE  /\ cash'["WITHDRAWABLE"] + spent >= 0
                     /\ reserving' # None =>
                          reserving'.row.amount =< cash'["WITHDRAWABLE"] + spent
  BY DEF ReserveCovered
<1>1. /\ cash["WITHDRAWABLE"] + spent >= 0
      /\ reserving # None => reserving.row.amount =< cash["WITHDRAWABLE"] + spent
  BY ReturnsStay DEF ReserveCovered
<1>2. cash \in Balances /\ cash["WITHDRAWABLE"] \in Int /\ cash' \in Balances
      /\ cash'["WITHDRAWABLE"] \in Int
  BY BankingNextInv DEF BankingInv, BankingTypeOK, Balances, Dimension
<1>3. CASE UNCHANGED <<cash, reserving>>
  BY <1>1, <1>3
<1>4. CASE /\ reserving = None /\ UNCHANGED reserving
           /\ cash'["WITHDRAWABLE"] >= cash["WITHDRAWABLE"]
  BY <1>1, <1>2, <1>4
<1>5. ASSUME NEW w, NEW row \in Withdrawal, NEW p, NEW c, BeginReserve(w, row, p, c)
      PROVE  ReserveCovered(spent)'
  <2>1. cash' = cash /\ row.amount =< cash["WITHDRAWABLE"] + spent
    <3>1. row.amount \in Nat /\ row.amount =< cash["WITHDRAWABLE"]
      BY <1>5, AmountsNat DEF BeginReserve, Covered
    <3>. QED  BY <1>2, <1>5, <3>1 DEF BeginReserve
  <2>2. reserving' # None => reserving'.row.amount = row.amount
    BY <1>5 DEF BeginReserve, Withdrawal
  <2>. QED  BY <1>1, <2>1, <2>2 DEF ReserveCovered
<1>6. ASSUME NEW f \in Fundings, Moves(f)
      PROVE  reserving = None /\ UNCHANGED reserving
  BY <1>6 DEF Moves, AdvanceFunding, AchSettled, AchReturned, WireCredited, WireExcepted,
              MoveFunding, ProfileFree
<1>7. ASSUME NEW w \in Withdrawals, NEW s, WithdrawalEvent(w, s)
      PROVE  /\ reserving = None /\ UNCHANGED reserving
             /\ cash'["WITHDRAWABLE"] >= cash["WITHDRAWABLE"]
  <2>. DEFINE n == withdrawals[w].amount
  <2>1. /\ reserving = None /\ UNCHANGED reserving /\ withdrawals[w] \in Withdrawal
    BY <1>7, AbsentTransfers DEF WithdrawalEvent, ProfileFree, BankingInv, BankingTypeOK
  <2>2. n \in Nat
    BY <2>1, AmountsNat
  <2>3. \/ cash' = Post(cash, [SETTLED |-> -n, HELD |-> -n])
        \/ cash' = Post(cash, SettledEntries(n))
        \/ cash' = cash
    BY <1>7 DEF WithdrawalEvent
  <2>. HIDE DEF n
  <2>4. /\ Post(cash, [SETTLED |-> -n, HELD |-> -n])["WITHDRAWABLE"] = cash["WITHDRAWABLE"]
        /\ Post(cash, SettledEntries(n))["WITHDRAWABLE"] = cash["WITHDRAWABLE"] + n
    <3>1. n \in Int
      BY <2>2
    <3>. QED  BY <1>2, <3>1, PostWithdrawable
  <2>5. \/ cash'["WITHDRAWABLE"] = cash["WITHDRAWABLE"]
        \/ cash'["WITHDRAWABLE"] = cash["WITHDRAWABLE"] + n
    BY <2>3, <2>4
  <2>. QED  BY <1>2, <2>1, <2>2, <2>5
<1>8. CASE Requests
  <2>1. ASSUME NEW f, NEW a, NEW rail, NEW amount \in Amounts,
               InitiateFunding(f, a, rail, amount)
        PROVE  /\ reserving = None /\ UNCHANGED reserving
               /\ cash'["WITHDRAWABLE"] >= cash["WITHDRAWABLE"]
    <3>1. amount \in Int
      BY BankingAssumption
    <3>2. cash' \in {cash, Post(cash, [PENDING |-> amount])}
      BY <2>1 DEF InitiateFunding
    <3>3. Post(cash, [PENDING |-> amount])["WITHDRAWABLE"] = cash["WITHDRAWABLE"]
      BY <1>2, <3>1, PostWithdrawable
    <3>4. cash'["WITHDRAWABLE"] = cash["WITHDRAWABLE"]
      BY <3>2, <3>3
    <3>. QED  BY <1>2, <2>1, <3>4 DEF InitiateFunding, ProfileFree
  <2>2. ASSUME NEW w, NEW row, NEW case, CreateWithdrawal(w, row, case)
        PROVE  UNCHANGED <<cash, reserving>>
    BY <2>2 DEF CreateWithdrawal
  <2>3. ASSUME NEW w, NEW a \in Accounts, NEW amount \in Amounts,
               RequestWithdrawal(w, a, amount)
        PROVE  \/ UNCHANGED <<cash, reserving>>
               \/ \E row \in Withdrawal : BeginReserve(w, row, None, None)
    <3>1. [account |-> a, amount |-> amount, status |-> "APPROVED"] \in Withdrawal
      BY DEF Withdrawal, WithdrawalStatus
    <3>. QED  BY <2>2, <2>3, <3>1 DEF RequestWithdrawal
  <2>. QED  BY <1>3, <1>4, <1>5, <1>8, <2>1, <2>3 DEF Requests, ReserveCovered
<1>9. CASE CommitReserve
  <2>. DEFINE n == reserving.row.amount
  <2>1. /\ n \in Int /\ n =< cash["WITHDRAWABLE"] + spent /\ reserving' = None
        /\ cash' = Post(cash, [WITHDRAWABLE |-> -n, HELD |-> n])
    BY <1>1, <1>9, BankingAssumption
    DEF CommitReserve, BankingInv, BankingTypeOK, Reserving, Withdrawal
  <2>. HIDE DEF n
  <2>2. cash'["WITHDRAWABLE"] = cash["WITHDRAWABLE"] - n
    BY <1>2, <2>1, PostWithdrawable
  <2>. QED  BY <1>2, <2>1, <2>2
<1>10. CASE RollBackReserve
  BY <1>1, <1>10 DEF RollBackReserve
<1>11. CASE Reviews
  <2>1. ASSUME NEW p \in proposals, NEW c, ApproveWithdrawal(p, c)
        PROVE  ReserveCovered(spent)'
    <3>1. withdrawals[p.about] \in Withdrawal
      BY <2>1 DEF ApproveWithdrawal, BankingInv, BankingTypeOK, ProposalsSound
    <3>. QED  BY <1>5, <2>1, <3>1 DEF ApproveWithdrawal
  <2>. QED
    BY <1>3, <1>11, <2>1
    DEF Reviews, ProposeReview, DeclineReview, ApproveRejection, ReserveCovered
<1>12. CASE UNCHANGED bankingVars \/ Links
  BY <1>3, <1>12
  DEF bankingVars, Links, LinkBankAccount, VerifyBankAccountOwnership, CoolingEnds
<1>. QED
  BY <1>4, <1>6, <1>7, <1>8, <1>9, <1>10, <1>11, <1>12, MoveCovers
  DEF BankingNext, ReserveCovered

(* On an account nobody else posts to, what approved withdrawals hold is   *)
(* settled, through every overlap of reservations, reviews and callbacks:  *)
(* the profile lock is enough for banking alone (withdrawal.go).           *)
THEOREM AloneWithdrawalsCovered == BankingSpec => []WithdrawalsCovered
<1>1. BankingInit => ReserveCovered(0)
  BY InitialCashAssumption DEF BankingInit, ReserveCovered, Opened, Dimension
<1>2. BankingInv /\ ReserveCovered(0) => WithdrawalsCovered
  BY DEF BankingInv, BankingTypeOK, Balances, Dimension, SettledSplits, ReserveCovered,
         WithdrawalsCovered
<1>3. BankingInv /\ ReserveCovered(0) /\ [BankingNext]_bankingVars => ReserveCovered(0)'
  BY ReserveStaysCovered
<1>. QED  BY <1>1, <1>2, <1>3, BankingInvariant, PTL DEF BankingSpec

-----------------------------------------------------------------------------
(* Banking and securities on one account *)

(* What the orders explain besides cash. *)
PositionExplained ==
    /\ shares["LOCKED"] = Reserved
    /\ position = Filled

(* The invariant of the two together: what each keeps whatever the other   *)
(* posts, and the cash both explain.                                       *)
CashInv ==
    /\ OrdersSound
    /\ BuyExplained
    /\ PositionExplained
    /\ BankingInv
    /\ CashExplained

(* A step of either module with its own variables, seen from the other. *)
TradingStill == UNCHANGED <<orders, position, shares, reserved, buy>>
BankingStill == UNCHANGED <<accounts, funding, withdrawals, cases, proposals, reserving>>

(* Sums over orders are integers, and only orders move them. *)
LEMMA OrderTotals ==
  ASSUME TradingTypeOK
  PROVE  /\ Spent \in Int
         /\ UNCHANGED <<orders, reserved>> =>
              Spent' = Spent /\ Filled' = Filled /\ Reserved' = Reserved
<1>. DEFINE s == [o \in Orders |-> SpentOf(orders[o])]
<1>1. s \in [Orders -> Int]
  BY OrderCounts DEF TradingTypeOK
<1>2. Spent = SumFunction(s)
  BY DEF Spent
<1>. HIDE DEF s
<1>3. Spent \in Int
  BY <1>1, <1>2, SumIsInt, TradingAssumption
<1>. QED  BY <1>3 DEF Spent, Filled, Reserved, ActiveQuantity

(* The sums are integers in every well-typed state, so in the next one too. *)
SpentIsInt == Spent \in Int
TotalsAreInt == Funded(Arrived) \in Int /\ Withdrawn(Paid) \in Int

LEMMA SpentInt == TradingTypeOK => SpentIsInt
BY OrderTotals DEF SpentIsInt

LEMMA TotalsInt == BankingTypeOK => TotalsAreInt
BY Totals DEF TotalsAreInt

(* An account just opened is what nothing has explained yet. *)
LEMMA InitCash == Init => CashInv
<1>. SUFFICES ASSUME Init  PROVE CashInv
  OBVIOUS
<1>1. OrdersExplained(InitialCash) /\ TransfersExplain(InitialCash) /\ BankingInv
  BY TradingInitExplains, BankingInitExplains, BankingInitInv DEF Init
<1>2. /\ Spent \in Int /\ Funded(Arrived) \in Int /\ Withdrawn(Paid) \in Int
  BY <1>1, OrderTotals, Totals DEF OrdersExplained, OrdersSound, BankingInv
<1>3. cash["PROVISIONAL"] = 0 /\ InitialCash \in Int
  BY InitialCashAssumption DEF Init, TradingInit, Opened, Dimension
<1>4. BuyingPower(cash) = InitialCash - Spent
      /\ cash["SETTLED"] = InitialCash + Funded(Arrived) - Withdrawn(Paid)
  BY <1>1 DEF OrdersExplained, FillsExplain, TransfersExplain
<1>5. BuyingPower(cash) = InitialCash /\ Spent = 0
  BY <1>2, <1>3, <1>4, InitialCashAssumption
  DEF Init, TradingInit, BuyingPower, Opened, Dimension
<1>6. BuyingPower(cash) = InitialCash - Spent + Funded(Arrived) - Withdrawn(Paid)
  BY <1>2, <1>3, <1>4, <1>5 DEF BuyingPower
<1>. QED
  BY <1>1, <1>6
  DEF CashInv, PositionExplained, OrdersExplained, FillsExplain, TransfersExplain,
      CashExplained, Pending, Arrived, Held, Paid

(* An order moves neither pending nor held cash, and as much withdrawable  *)
(* as settled cash.                                                        *)
LEMMA OrdersLeave ==
  ASSUME OrdersSound, [TradingNext]_tradingVars, SettledSplits
  PROVE  /\ cash'["PENDING"] = cash["PENDING"]
         /\ cash'["HELD"] = cash["HELD"]
         /\ SettledSplits'
<1>1. cash \in Balances /\ \A d \in Dimension : cash[d] \in Int
  BY DEF OrdersSound, TradingTypeOK, Balances
<1>2. CASE cash' = cash
  BY <1>2 DEF SettledSplits
<1>3. ASSUME NEW n \in Nat, cash' = Post(cash, [PROVISIONAL |-> n])
      PROVE  \A d \in Dimension \ {"PROVISIONAL"} : cash'[d] = cash[d]
  BY <1>1, <1>3, PostSell
<1>4. CASE \E n \in Nat : cash' = Post(cash, [PROVISIONAL |-> n])
  BY <1>3, <1>4 DEF SettledSplits, Dimension
<1>5. CASE CommitBuy
  <2>. DEFINE rest == buy.cost - buy.provisional
  <2>1. /\ rest \in Nat
        /\ cash'["PENDING"] = cash["PENDING"] /\ cash'["HELD"] = cash["HELD"]
        /\ cash'["SETTLED"] = cash["SETTLED"] - rest
        /\ cash'["WITHDRAWABLE"] = cash["WITHDRAWABLE"] - rest
    BY <1>5, CommitPosts
  <2>. HIDE DEF rest
  <2>. QED  BY <1>1, <2>1 DEF SettledSplits, Dimension
<1>. QED  BY <1>2, <1>4, <1>5, StepPosts

(* No transfer moves provisional cash, which only sales earn and only buys *)
(* spend.                                                                  *)
LEMMA TransfersLeave ==
  ASSUME cash \in Balances, BankingTypeOK, [BankingNext]_bankingVars
  PROVE  cash'["PROVISIONAL"] = cash["PROVISIONAL"]
<1>1. ASSUME NEW b \in Balances
      PROVE  \A n : /\ Post(b, [PENDING |-> n])["PROVISIONAL"] = b["PROVISIONAL"]
                    /\ Post(b, SettledEntries(n))["PROVISIONAL"] = b["PROVISIONAL"]
                    /\ \A m : Post(b, [WITHDRAWABLE |-> m, HELD |-> n])["PROVISIONAL"]
                                = b["PROVISIONAL"]
                    /\ \A m : Post(b, [SETTLED |-> m, HELD |-> n])["PROVISIONAL"]
                                = b["PROVISIONAL"]
  BY <1>1 DEF Post, Balances, Dimension, SettledEntries
<1>3. CASE cash' = cash
  BY <1>3
<1>4. ASSUME \E n : \/ cash' = Post(cash, [PENDING |-> n])
                    \/ cash' = Post(cash, SettledEntries(n))
                    \/ \E m : \/ cash' = Post(cash, [WITHDRAWABLE |-> m, HELD |-> n])
                              \/ cash' = Post(cash, [SETTLED |-> m, HELD |-> n])
      PROVE  cash'["PROVISIONAL"] = cash["PROVISIONAL"]
  <2>1. PICK n : \/ cash' = Post(cash, [PENDING |-> n])
                 \/ cash' = Post(cash, SettledEntries(n))
                 \/ \E m : \/ cash' = Post(cash, [WITHDRAWABLE |-> m, HELD |-> n])
                           \/ cash' = Post(cash, [SETTLED |-> m, HELD |-> n])
    BY <1>4
  <2>2. CASE cash' = Post(cash, [PENDING |-> n]) \/ cash' = Post(cash, SettledEntries(n))
    BY <1>1, <2>2
  <2>3. CASE \E m : \/ cash' = Post(cash, [WITHDRAWABLE |-> m, HELD |-> n])
                   \/ cash' = Post(cash, [SETTLED |-> m, HELD |-> n])
    <3>1. PICK m : \/ cash' = Post(cash, [WITHDRAWABLE |-> m, HELD |-> n])
                   \/ cash' = Post(cash, [SETTLED |-> m, HELD |-> n])
      BY <2>3
    <3>2. /\ Post(cash, [WITHDRAWABLE |-> m, HELD |-> n])["PROVISIONAL"]
               = cash["PROVISIONAL"]
          /\ Post(cash, [SETTLED |-> m, HELD |-> n])["PROVISIONAL"] = cash["PROVISIONAL"]
      BY <1>1
    <3>. QED  BY <3>1, <3>2
  <2>. QED  BY <2>1, <2>2, <2>3
<1>5. ASSUME NEW f \in Fundings, Moves(f)
      PROVE  cash'["PROVISIONAL"] = cash["PROVISIONAL"]
  <2>1. CASE AchSettled(f)
    <3>. DEFINE n == funding[f].amount
                b == Post(cash, [PENDING |-> -n])
    <3>1. n \in Int
      BY <2>1, TransferCounts DEF AchSettled, MoveFunding, BankingTypeOK
    <3>2. b \in Balances
      <4>1. -n \in Int
        BY <3>1
      <4>. HIDE DEF n
      <4>. QED  BY <4>1, PostMoves
    <3>3. b["PROVISIONAL"] = cash["PROVISIONAL"]
      BY <1>1
    <3>4. cash' = Post(b, SettledEntries(n))
      BY <2>1 DEF AchSettled
    <3>. HIDE DEF n, b
    <3>. QED  BY <1>1, <3>2, <3>3, <3>4
  <2>2. ASSUME NEW s, AchReturned(f, s)
        PROVE  \E n : \/ cash' = Post(cash, [PENDING |-> n])
                      \/ cash' = Post(cash, SettledEntries(n))
    BY <2>2 DEF AchReturned
  <2>3. CASE WireCredited(f)
    BY <1>4, <2>3 DEF WireCredited
  <2>4. ASSUME NEW s, AdvanceFunding(f, s) \/ WireExcepted(f, s)
        PROVE  cash' = cash
    BY <2>4 DEF AdvanceFunding, WireExcepted
  <2>. QED  BY <1>3, <1>4, <1>5, <2>1, <2>2, <2>3, <2>4 DEF Moves
<1>6. CASE Requests
  <2>1. ASSUME NEW f, NEW a, NEW rail, NEW amount, InitiateFunding(f, a, rail, amount)
        PROVE  cash'["PROVISIONAL"] = cash["PROVISIONAL"]
    BY <1>3, <1>4, <2>1 DEF InitiateFunding
  <2>2. ASSUME NEW w, NEW a, NEW amount, RequestWithdrawal(w, a, amount)
        PROVE  cash' = cash
    BY <2>2 DEF RequestWithdrawal, CreateWithdrawal, BeginReserve
  <2>. QED  BY <1>3, <1>6, <2>1, <2>2 DEF Requests
<1>7. ASSUME NEW w \in Withdrawals, NEW s, WithdrawalEvent(w, s)
      PROVE  cash'["PROVISIONAL"] = cash["PROVISIONAL"]
  <2>1. CASE s = "SUBMITTED_TO_BANK"
    BY <1>4, <1>7, <2>1 DEF WithdrawalEvent
  <2>2. CASE s = "RETURNED"
    BY <1>4, <1>7, <2>2 DEF WithdrawalEvent
  <2>3. CASE s \notin {"SUBMITTED_TO_BANK", "RETURNED"}
    BY <1>3, <1>7, <2>3 DEF WithdrawalEvent
  <2>. QED  BY <2>1, <2>2, <2>3
<1>8. CASE CommitReserve
  BY <1>4, <1>8 DEF CommitReserve
<1>9. CASE UNCHANGED bankingVars \/ Links \/ RollBackReserve \/ Reviews
  BY <1>3, <1>9
  DEF bankingVars, Links, LinkBankAccount, VerifyBankAccountOwnership, CoolingEnds,
      RollBackReserve, Reviews, ProposeReview, DeclineReview, ApproveRejection,
      ApproveWithdrawal, BeginReserve
<1>. QED  BY <1>5, <1>6, <1>7, <1>8, <1>9 DEF BankingNext

(* A step of the securities module spends or earns what its orders explain *)
(* and leaves what the transfers explain.                                  *)
LEMMA SecuritiesStep ==
  ASSUME CashInv, [TradingNext]_tradingVars, BankingStill
  PROVE  CashInv'
<1>1. cash \in Balances /\ BuyingPower(cash) \in Int /\ Spent \in Int
  BY OrderTotals DEF CashInv, OrdersSound, TradingTypeOK, Balances, Dimension, BuyingPower
<1>2. PICK other \in Int : BuyingPower(cash) = other - Spent
  <2>. DEFINE other == BuyingPower(cash) + Spent
  <2>1. other \in Int /\ BuyingPower(cash) = other - Spent
    BY <1>1
  <2>. QED  BY <2>1
<1>3. OrdersExplained(other)
  BY <1>2 DEF CashInv, PositionExplained, OrdersExplained, FillsExplain, OrdersSound
<1>4. OrdersExplained(other)'
  BY <1>3, TradingNextExplains
<1>5. OrdersSound' /\ BuyExplained' /\ PositionExplained' /\ BuyingPower(cash)' = other - Spent'
  BY <1>4 DEF OrdersExplained, FillsExplain, PositionExplained
<1>6. Spent' \in Int
  <2>1. TradingTypeOK'
    BY <1>5 DEF OrdersSound
  <2>2. SpentIsInt'
    BY <2>1, SpentInt, PTL
  <2>. QED  BY <2>2 DEF SpentIsInt
<1>7. /\ cash'["PENDING"] = cash["PENDING"] /\ cash'["HELD"] = cash["HELD"]
      /\ SettledSplits'
  BY OrdersLeave DEF CashInv, BankingInv
<1>8. BankingInv'
  <2>1. cash' \in Balances
    BY <1>5 DEF OrdersSound, TradingTypeOK
  <2>. QED
    BY <1>7, <2>1
    DEF CashInv, BankingInv, BankingStill, BankingTypeOK, AccountsBack, Backed, Verified,
        CasesSound, ProposalsSound, WithdrawalIn, ReservingSound
<1>9. /\ \A S : Funded(S)' = Funded(S) /\ Withdrawn(S)' = Withdrawn(S)
      /\ \A S : Funded(S) \in Int /\ Withdrawn(S) \in Int
  BY Totals DEF CashInv, BankingInv, BankingStill
<1>10. BuyingPower(cash) = InitialCash - Spent + Funded(Arrived) - Withdrawn(Paid)
       /\ InitialCash \in Int
  BY InitialCashAssumption DEF CashInv, CashExplained, Arrived, Paid
<1>11. BuyingPower(cash)' = InitialCash - Spent' + Funded(Arrived)' - Withdrawn(Paid)'
  <2>1. Funded(Arrived)' = Funded(Arrived) /\ Withdrawn(Paid)' = Withdrawn(Paid)
        /\ Funded(Arrived) \in Int /\ Withdrawn(Paid) \in Int
    BY <1>9
  <2>. QED  BY <1>1, <1>2, <1>5, <1>6, <1>10, <2>1
<1>12. CashExplained'
  <2>1. cash'["PENDING"] = Funded(Pending)' /\ cash'["HELD"] = Withdrawn(Held)'
    BY <1>7, <1>9 DEF CashInv, CashExplained, Pending, Held
  <2>. QED  BY <1>7, <1>11, <2>1 DEF CashExplained, Pending, Arrived, Held, Paid
<1>. QED  BY <1>5, <1>8, <1>12 DEF CashInv

(* A step of the banking module moves what its transfers explain and       *)
(* leaves what the orders explain; a decided buy stays payable.            *)
LEMMA BankStep ==
  ASSUME CashInv, [BankingNext]_bankingVars, TradingStill
  PROVE  CashInv'
<1>1. BankingInv'
  BY BankingNextInv DEF CashInv
<1>2. cash' \in Balances /\ cash'["PROVISIONAL"] = cash["PROVISIONAL"]
  BY <1>1, TransfersLeave DEF CashInv, BankingInv, BankingTypeOK
<1>3. OrdersSound'
  BY <1>2
  DEF CashInv, OrdersSound, TradingTypeOK, TradingStill, BuySound, Booked, SharesAddUp
<1>4. Spent' = Spent /\ Filled' = Filled /\ Reserved' = Reserved /\ Spent \in Int
  BY OrderTotals DEF CashInv, OrdersSound, TradingStill
<1>5. BuyExplained' /\ PositionExplained'
  BY <1>4 DEF CashInv, BuyExplained, PositionExplained, TradingStill
<1>6. /\ cash["SETTLED"] \in Int /\ cash["PROVISIONAL"] \in Int
      /\ cash'["SETTLED"] \in Int /\ InitialCash \in Int
      /\ Funded(Arrived) \in Int /\ Withdrawn(Paid) \in Int
  BY <1>2, Totals, InitialCashAssumption
  DEF CashInv, BankingInv, BankingTypeOK, Balances, Dimension
<1>7. PICK other \in Int : cash["SETTLED"] = other + Funded(Arrived) - Withdrawn(Paid)
  <2>. DEFINE other == cash["SETTLED"] - Funded(Arrived) + Withdrawn(Paid)
  <2>1. other \in Int /\ cash["SETTLED"] = other + Funded(Arrived) - Withdrawn(Paid)
    BY <1>6
  <2>. QED  BY <2>1
<1>8. TransfersExplain(other)
  BY <1>7 DEF CashInv, CashExplained, TransfersExplain, Pending, Held
<1>9. TransfersExplain(other)'
  BY <1>1, <1>8, BankingNextExplains DEF CashInv
<1>10. Funded(Arrived)' \in Int /\ Withdrawn(Paid)' \in Int
  <2>1. BankingTypeOK'
    BY <1>1 DEF BankingInv
  <2>2. TotalsAreInt'
    BY <2>1, TotalsInt, PTL
  <2>. QED  BY <2>2 DEF TotalsAreInt
<1>11. BuyingPower(cash)' = InitialCash - Spent' + Funded(Arrived)' - Withdrawn(Paid)'
  <2>1. BuyingPower(cash) = InitialCash - Spent + Funded(Arrived) - Withdrawn(Paid)
    BY DEF CashInv, CashExplained, Arrived, Paid
  <2>2. cash'["SETTLED"] = other + Funded(Arrived)' - Withdrawn(Paid)'
    BY <1>9 DEF TransfersExplain
  <2>3. /\ BuyingPower(cash) = cash["SETTLED"] + cash["PROVISIONAL"]
        /\ BuyingPower(cash)' = cash'["SETTLED"] + cash'["PROVISIONAL"]
    BY DEF BuyingPower
  <2>. QED  BY <1>2, <1>4, <1>6, <1>7, <1>10, <2>1, <2>2, <2>3
<1>12. CashExplained'
  BY <1>9, <1>11 DEF TransfersExplain, CashExplained, Pending, Arrived, Held, Paid
<1>. QED  BY <1>1, <1>3, <1>5, <1>12 DEF CashInv

(* A step of the composition is a step of one of the two, or none.         *)
LEMMA NextCash == CashInv /\ [Next]_vars => CashInv'
<1>. SUFFICES ASSUME CashInv, [Next]_vars  PROVE CashInv'
  OBVIOUS
<1>1. CASE UNCHANGED vars
  <2>1. UNCHANGED tradingVars /\ BankingStill
    BY <1>1 DEF vars, tradingVars, bankingVars, BankingStill
  <2>. QED  BY <2>1, SecuritiesStep
<1>2. CASE Securities
  BY <1>2, SecuritiesStep DEF Securities, BankingStill
<1>3. CASE Bank
  BY <1>3, BankStep DEF Bank, TradingStill
<1>. QED  BY <1>1, <1>2, <1>3 DEF Next

(* So the invariant of the two together always holds.                      *)
LEMMA CashInvariant == Spec => []CashInv
BY InitCash, NextCash, PTL DEF Spec

(* Whatever order the two modules' steps come in, and although neither     *)
(* locks the account between its reading and its posting, the customer's   *)
(* orders and transfers together explain every dimension of the cash.      *)
THEOREM CashAlwaysExplained == Spec => []CashExplained
<1>1. CashInv => CashExplained
  BY DEF CashInv
<1>. QED  BY <1>1, CashInvariant, PTL

(* Next to each other the two modules keep all else they promise alone:    *)
(* types, limits (but for the rounding of fills), shares and the fills     *)
(* that explain them, own accounts and cases.  Balances do not stay        *)
(* covered: a fill may spend what an approved withdrawal holds.            *)
THEOREM TogetherSound ==
  Spec => [](/\ TradingTypeOK /\ LimitHonoured /\ SharesAddUp /\ PositionExplained
             /\ BankingTypeOK /\ OwnAccountsOnly /\ CaseAgrees)
<1>1. CashInv => /\ TradingTypeOK /\ LimitHonoured /\ SharesAddUp /\ PositionExplained
                 /\ BankingTypeOK /\ OwnAccountsOnly /\ CaseAgrees
  BY SoundWithinLimit, InvOwnAccounts, InvCasesAgree DEF CashInv, OrdersSound, BankingInv
<1>. QED  BY <1>1, CashInvariant, PTL

(* A step of the composition is, for each module, a step of its own or one *)
(* that leaves its rows alone.                                             *)
LEMMA TogetherStep ==
  ASSUME CashInv, [Next]_vars
  PROVE  OrdersProceed /\ TransfersFinal
<1>1. ASSUME UNCHANGED orders  PROVE OrdersProceed
  <2>1. ASSUME NEW o \in Booked
        PROVE  /\ orders[o].filled \in Nat /\ orders[o].cursor \in Nat
               /\ orders[o].filled =< orders[o].qty /\ orders[o] # NoOrder
    BY TradingAssumption DEF CashInv, OrdersSound, Booked, RowSound, Order, Cursor
  <2>. QED  BY <1>1, <2>1 DEF OrdersProceed
<1>2. CASE UNCHANGED vars
  BY <1>1, <1>2 DEF vars, tradingVars, bankingVars, TransfersFinal
<1>3. CASE Securities
  BY <1>3, OrderStep DEF Securities, CashInv, TransfersFinal
<1>4. CASE Bank
  BY <1>1, <1>4, FinalStep DEF Bank, CashInv
<1>. QED  BY <1>2, <1>3, <1>4 DEF Next

(* No step of the other module, between a read and its write or anywhere,  *)
(* moves an order back or a finished transfer.                             *)
THEOREM TogetherProgress == Spec => OrdersProgress /\ FinalTransfersStay
<1>1. CashInv /\ [Next]_vars => [OrdersProceed]_tradingVars /\ [TransfersFinal]_bankingVars
  BY TogetherStep
<1>2. Spec => OrdersProgress
  BY <1>1, CashInvariant, PTL DEF Spec, OrdersProgress, OrdersProceed
<1>3. Spec => FinalTransfersStay
  BY <1>1, CashInvariant, PTL DEF Spec, FinalTransfersStay, TransfersFinal
<1>. QED  BY <1>2, <1>3

-----------------------------------------------------------------------------
(* Withdrawals lack what buys took *)

(* A row counts as bought what it spent, and the rows together a natural.  *)
LEMMA BoughtCounts ==
  ASSUME NEW row \in Order \cup {NoOrder}
  PROVE  /\ BoughtOf(row) \in Nat
         /\ row = NoOrder => BoughtOf(row) = 0
         /\ row # NoOrder => BoughtOf(row) = IF row.side = "BUY" THEN row.spent ELSE 0
<1>1. CASE row = NoOrder
  BY <1>1 DEF BoughtOf
<1>2. CASE row # NoOrder
  <2>1. row.spent \in Nat
    BY <1>2 DEF Order
  <2>. QED  BY <1>2, <2>1 DEF BoughtOf
<1>. QED  BY <1>1, <1>2

BoughtIsNat == Bought \in Nat

LEMMA BoughtNat == TradingTypeOK => BoughtIsNat
<1>. SUFFICES ASSUME TradingTypeOK  PROVE Bought \in Nat
  BY DEF BoughtIsNat
<1>. DEFINE b == [o \in Orders |-> BoughtOf(orders[o])]
<1>1. b \in [Orders -> Nat]
  BY BoughtCounts DEF TradingTypeOK
<1>2. Bought = SumFunction(b)
  BY DEF Bought
<1>. HIDE DEF b
<1>. QED  BY <1>1, <1>2, SumIsNat, TradingAssumption

(* Rows that only grow grow the total, by at least what any of them adds.  *)
LEMMA BoughtGrows ==
  ASSUME TradingTypeOK, TradingTypeOK',
         \A o \in Orders : BoughtOf(orders[o]) =< BoughtOf(orders'[o])
  PROVE  /\ Bought \in Nat /\ Bought' \in Nat /\ Bought =< Bought'
         /\ \A o \in Orders :
              Bought + (BoughtOf(orders'[o]) - BoughtOf(orders[o])) =< Bought'
<1>. DEFINE b  == [o \in Orders |-> BoughtOf(orders[o])]
            b1 == [o \in Orders |-> BoughtOf(orders'[o])]
            d  == [o \in Orders |-> b1[o] - b[o]]
<1>1. \A o \in Orders : BoughtOf(orders[o]) \in Nat /\ BoughtOf(orders'[o]) \in Nat
  BY BoughtCounts DEF TradingTypeOK
<1>2. b \in [Orders -> Nat] /\ b1 \in [Orders -> Nat]
  BY <1>1
<1>3. d \in [Orders -> Nat] /\ \A o \in Orders : b1[o] = b[o] + d[o]
  BY <1>1
<1>4. \A o \in Orders : d[o] = BoughtOf(orders'[o]) - BoughtOf(orders[o])
  OBVIOUS
<1>5. Bought = SumFunction(b) /\ Bought' = SumFunction(b1)
  BY DEF Bought
<1>. HIDE DEF b, b1, d
<1>6. /\ SumFunction(b) = SumFunctionOnSet(b, Orders)
      /\ SumFunction(b1) = SumFunctionOnSet(b1, Orders)
      /\ SumFunction(d) = SumFunctionOnSet(d, Orders)
  BY <1>2, <1>3 DEF SumFunction
<1>7. SumFunction(b1) = SumFunction(b) + SumFunction(d)
  <2>1. \A o \in Orders : b[o] \in Int /\ d[o] \in Int
    BY <1>2, <1>3
  <2>. QED  BY <1>3, <1>6, <2>1, SumAdds, TradingAssumption
<1>8. SumFunction(b) \in Nat /\ SumFunction(b1) \in Nat /\ SumFunction(d) \in Nat
  BY <1>2, <1>3, SumIsNat, TradingAssumption
<1>9. \A o \in Orders : d[o] =< SumFunction(d) /\ d[o] \in Nat
  <2>1. \A o \in Orders : d[o] \in Nat
    BY <1>3
  <2>. QED  BY <1>6, <2>1, SumBounds, TradingAssumption
<1>. QED  BY <1>4, <1>5, <1>7, <1>8, <1>9

(* No step of the securities module takes back what an order has bought. *)
LEMMA RowsGrow ==
  ASSUME OrdersSound, OrdersSound', [TradingNext]_tradingVars, NEW o \in Orders
  PROVE  BoughtOf(orders[o]) =< BoughtOf(orders'[o])
<1>1. /\ orders[o] \in Order \cup {NoOrder} /\ orders'[o] \in Order \cup {NoOrder}
  BY DEF OrdersSound, TradingTypeOK
<1>2. BoughtOf(orders[o]) \in Nat /\ BoughtOf(orders'[o]) \in Nat
  BY <1>1, BoughtCounts
<1>3. CASE orders[o] = NoOrder
  BY <1>1, <1>2, <1>3, BoughtCounts
<1>4. CASE orders'[o] = orders[o]
  BY <1>2, <1>4
<1>5. CASE orders[o] # NoOrder /\ orders'[o] # orders[o]
  <2>1. MayBecome(orders'[o], orders[o])
    BY <1>5, StepContinues DEF Booked, tradingVars
  <2>2. Continues(orders'[o], orders[o]) /\ orders'[o] \in Order
    BY <1>5, <2>1 DEF MayBecome
  <2>3. /\ orders'[o].side = orders[o].side /\ orders'[o].spent >= orders[o].spent
        /\ orders'[o] # NoOrder
    BY <2>2, AbsentOrders DEF Continues
  <2>. QED  BY <1>1, <1>2, <1>5, <2>3, BoughtCounts
<1>. QED  BY <1>3, <1>4, <1>5

(* What a step of the securities module takes of withdrawable cash, its    *)
(* orders have bought with.                                                *)
LEMMA BuysTake ==
  ASSUME OrdersSound, OrdersSound', BuyExplained, [TradingNext]_tradingVars
  PROVE  /\ Bought \in Nat /\ Bought' \in Nat
         /\ cash["WITHDRAWABLE"] + Bought =< cash'["WITHDRAWABLE"] + Bought'
<1>1. /\ Bought \in Nat /\ Bought' \in Nat /\ Bought =< Bought'
      /\ \A o \in Orders : Bought + (BoughtOf(orders'[o]) - BoughtOf(orders[o])) =< Bought'
  BY RowsGrow, BoughtGrows DEF OrdersSound
<1>2. cash \in Balances /\ \A d \in Dimension : cash[d] \in Int
  BY DEF OrdersSound, TradingTypeOK, Balances
<1>3. CASE cash' = cash
  BY <1>1, <1>2, <1>3 DEF Dimension
<1>4. CASE \E n \in Nat : cash' = Post(cash, [PROVISIONAL |-> n])
  <2>1. cash'["WITHDRAWABLE"] = cash["WITHDRAWABLE"]
    BY <1>2, <1>4, PostSell DEF Dimension
  <2>. QED  BY <1>1, <1>2, <2>1 DEF Dimension
<1>5. CASE CommitBuy
  <2>. DEFINE o   == buy.order
              old == orders[o]
              new == buy.row
  <2>1. /\ o \in Orders /\ buy.cost \in Nat \ {0} /\ buy.provisional \in Int
        /\ 0 =< buy.provisional
        /\ new \in Order /\ old \in Order \cup {NoOrder}
        /\ orders \in [Orders -> Order \cup {NoOrder}]
        /\ old # NoOrder => Continues(new, old)
    BY <1>5 DEF OrdersSound, TradingTypeOK, BuySound, CommitBuy, Buy
  <2>2. orders'[o] = new /\ SpentOf(new) = SpentOf(old) + buy.cost
    BY <1>5, <2>1 DEF CommitBuy, BuyExplained
  <2>. HIDE DEF o, old, new
  <2>3. BoughtOf(new) = BoughtOf(old) + buy.cost
    <3>1. new # NoOrder /\ new.spent \in Nat /\ new.side \in {"BUY", "SELL"}
      BY <2>1, AbsentOrders DEF Order
    <3>2. CASE old = NoOrder
      BY <2>1, <2>2, <3>1, <3>2 DEF SpentOf, Signed, BoughtOf
    <3>3. CASE old # NoOrder
      <4>1. /\ old.spent \in Nat /\ new.spent >= old.spent /\ new.side = old.side
        BY <2>1, <3>3 DEF Order, Continues
      <4>. QED  BY <2>1, <2>2, <3>1, <3>3, <4>1 DEF SpentOf, Signed, BoughtOf
    <3>. QED  BY <3>2, <3>3
  <2>4. BoughtOf(old) \in Nat
    BY <2>1, BoughtCounts
  <2>5. Bought + buy.cost =< Bought'
    <3>1. BoughtOf(orders'[o]) - BoughtOf(orders[o]) = buy.cost
      BY <2>1, <2>2, <2>3, <2>4 DEF old
    <3>. QED  BY <1>1, <2>1, <3>1
  <2>6. cash'["WITHDRAWABLE"] = cash["WITHDRAWABLE"] - (buy.cost - buy.provisional)
    BY <1>5, CommitPosts
  <2>. QED  BY <1>1, <1>2, <2>1, <2>5, <2>6 DEF Dimension
<1>. QED  BY <1>1, <1>3, <1>4, <1>5, StepPosts

(* Together, what buys took is what withdrawals may lack.                  *)
ShortfallInv == ReserveCovered(Bought)

LEMMA ShortfallStep ==
  ASSUME CashInv, CashInv', ShortfallInv, [Next]_vars
  PROVE  ShortfallInv'
<1>1. Bought \in Nat
  BY BoughtNat DEF CashInv, OrdersSound, BoughtIsNat
<1>2. CASE Bank
  <2>1. ReserveCovered(Bought)
    BY DEF ShortfallInv
  <2>2. Bought' = Bought
    BY <1>2 DEF Bank, Bought
  <2>3. PICK spent \in Nat : spent = Bought
    BY <1>1
  <2>4. ReserveCovered(spent)
    BY <2>1, <2>3 DEF ReserveCovered
  <2>5. ReserveCovered(spent)'
    BY <1>2, <2>4, ReserveStaysCovered DEF Bank, CashInv
  <2>. QED  BY <2>2, <2>3, <2>5 DEF ShortfallInv, ReserveCovered
<1>3. CASE Securities \/ UNCHANGED vars
  <2>1. [TradingNext]_tradingVars /\ BankingStill
    BY <1>3 DEF Securities, BankingStill, vars, tradingVars, bankingVars
  <2>2. /\ Bought' \in Nat
        /\ cash["WITHDRAWABLE"] + Bought =< cash'["WITHDRAWABLE"] + Bought'
    BY <2>1, BuysTake DEF CashInv
  <2>3. FundingIn({"RETURNED"})' = FundingIn({"RETURNED"}) /\ reserving' = reserving
    BY <2>1 DEF BankingStill, FundingIn
  <2>4. cash["WITHDRAWABLE"] \in Int /\ cash'["WITHDRAWABLE"] \in Int
    BY DEF CashInv, BankingInv, BankingTypeOK, Balances, Dimension
  <2>5. reserving # None => reserving.row.amount \in Int
    <3>1. reserving # None => reserving.row \in Withdrawal
      BY DEF CashInv, BankingInv, BankingTypeOK, Reserving
    <3>. QED  BY <3>1, AmountsNat
  <2>. QED  BY <1>1, <2>2, <2>3, <2>4, <2>5 DEF ShortfallInv, ReserveCovered
<1>. QED  BY <1>2, <1>3 DEF Next

(* However orders and transfers interleave, and whatever is decided on     *)
(* balances that have changed since, withdrawals lack no more of what they *)
(* hold than buys have taken, until the bank takes a transfer back.        *)
THEOREM ShortfallAlwaysSpent == Spec => []ShortfallIsSpent
<1>1. Init => ShortfallInv
  <2>. SUFFICES ASSUME Init  PROVE ReserveCovered(Bought)
    BY DEF ShortfallInv
  <2>1. Bought \in Nat
    BY InitCash, BoughtNat DEF CashInv, OrdersSound, BoughtIsNat
  <2>2. cash["WITHDRAWABLE"] = InitialCash /\ reserving = None
    BY DEF Init, BankingInit, Opened, Dimension
  <2>. QED  BY <2>1, <2>2, InitialCashAssumption DEF ReserveCovered
<1>2. CashInv /\ ShortfallInv => ShortfallIsSpent
  <2>. SUFFICES ASSUME CashInv, ShortfallInv, FundingIn({"RETURNED"}) = {}
                PROVE  cash["HELD"] - cash["SETTLED"] =< Bought
    BY DEF ShortfallIsSpent
  <2>1. Bought \in Nat
    BY BoughtNat DEF CashInv, OrdersSound, BoughtIsNat
  <2>2. /\ cash["WITHDRAWABLE"] \in Int /\ cash["HELD"] \in Int
        /\ cash["SETTLED"] = cash["WITHDRAWABLE"] + cash["HELD"]
    BY DEF CashInv, BankingInv, BankingTypeOK, Balances, Dimension, CashExplained, SettledSplits
  <2>3. cash["WITHDRAWABLE"] + Bought >= 0
    BY DEF ShortfallInv, ReserveCovered
  <2>. QED  BY <2>1, <2>2, <2>3
<1>3. CashInv /\ CashInv' /\ ShortfallInv /\ [Next]_vars => ShortfallInv'
  BY ShortfallStep
<1>. QED  BY <1>1, <1>2, <1>3, CashInvariant, PTL DEF Spec
=============================================================================
