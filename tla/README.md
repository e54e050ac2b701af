# Formal models of Cytisus

TLA+ models of the parts of Cytisus where concurrency, retries and crashes decide whether money, shares
and tokens stay right. TLC checks every model on small instances; TLAPS proves the main properties for
every value of the constants. Paths are relative to the repository.

## 1. The system

Cytisus is a Go modular monolith over one PostgreSQL database (pgx, sqlc, READ COMMITTED), a worker
process, web and iOS clients, local provider simulators, and a Solidity token on a local Anvil chain.
Every state change of a module is a database transaction that also writes an audit row and an outbox event.

| Component | State it keeps | Operations | Interacts with | What makes it correct |
|---|---|---|---|---|
| **ledger** `internal/ledger` | accounts, transactions, entries, reversals, idempotency keys, provider events | OpenAccount, Post, Reverse, Balance | called inside the transactions of every other module | a key, a provider event and a reversal are used once; callers hear the same answer; a balance is the sum of what stands |
| **outbox** `internal/outbox` | `outbox.events`, `consumer_receipts` | RunOnce (claim, process, fail), Replay, Cancel | every module inserts events; consumers run inside the delivery transaction | an effect happens exactly once, nothing is lost, final states are final |
| **rwa** `internal/rwa`, `contracts/rwa` | underlying locks, mint and redemption requests, chain operations, holdings, addresses, dividends | Mint, Redeem, ForcedRedeem, RecoverOperation, RecoverDueOperations, address review, dividends, reconciliation | securities custody, the chain, the worker | a token is backed by a locked share; holdings agree with tokens; operations settle |
| **securities** `internal/securities` | paper accounts, orders, fills, positions, reservations | SubmitOrder, advance, cancel, reserve and release shares | ledger, market data, rwa | nothing is sold twice, cash covers what is bought |
| **market data** `internal/marketdata` | quote fixtures | read | securities | read only |
| **banking** `internal/banking` | bank accounts, funding, withdrawals, provider events | funding and its provider events, withdrawal request and its review, reconciliation | ledger, compliance | credited cash is withdrawn once; holds are released once |
| **compliance** `internal/compliance` | cases | open, review, close | banking | maker differs from checker; one active case per subject |
| **crypto** `internal/crypto` | addresses, deposits, conversions and legs, withdrawals | address review, deposit, Convert, withdrawal | ledger, router, custody provider | a conversion settles both legs or returns what it reserved |
| **card** `internal/card` | cards, authorizations, captures, refunds, disputes, statements, auto-sell | authorize, capture, reverse, refund, dispute, statement, repayment | ledger, securities, crypto, notification | no capture beyond its hold, each provider event once |
| **notification, audit, identity** | rows | insert, mark read | every module | one row per event |
| **money** `internal/money` | none | decimal arithmetic, rounding | every module | rounding as documented |
| **HTTP APIs, apps, tools** | none | parse, call, render | modules above | no state of their own |

Behaviour that is hard to test, and that the models are for: concurrent calls with one idempotency key;
redelivered and altered provider events; reversals that race; workers whose lease lapses while they
work; commits whose acknowledgement is lost; processes that die between a commit and a chain call;
chain transactions that are mined after everybody gave up on them; recovery by two workers and an
administrator at once; late reports about operations that others have settled. `PROJECT.json` lists
each at its source line under `hazards`, with the properties that would catch it.

## 2. Modules

| Module | Models | Kind |
|---|---|---|
| `Journal` | what the ledger promises: an append-only journal | abstract specification |
| `Ledger` | `internal/ledger/service.go` over its unique tables | detailed; implements `Journal` |
| `MCLedger`, `LedgerProofs` | instance for TLC; proofs | |
| `Delivery` | what the outbox promises: an effect at most once, exactly when delivered | abstract specification |
| `Outbox` | `internal/outbox` worker and administrator | detailed; implements `Delivery` |
| `MCOutbox`, `OutboxProofs` | instances for TLC; proofs | |
| `RwaSaga` | minting, redeeming and recovering across database and chain | detailed |
| `MCRwaSaga` | instance for TLC | |
| `Cash` | a customer's USD account in the ledger, by dimension | shared operators |
| `CustomerAccount` | the one account that `Trading` and `Banking` post to | shared state |
| `Trading` | `internal/securities`: orders, broker, fills, custody | detailed |
| `MCTrading`, `TradingProofs` | instance for TLC; proofs | |
| `Banking` | `internal/banking`: accounts, funding, withdrawals, review | detailed |
| `CustomerCash` | `Trading` and `Banking` posting to one cash account | composition by `EXTENDS` |
| `MCCustomerCash`, `CustomerCashProofs` | instances for TLC; proofs about `Banking` and about `CustomerCash` | |
| `Card` | `internal/card`: cards, authorizations, captures, credits, statements | detailed |
| `MCCard`, `CardProofs` | instance for TLC; proofs | |
| `Rounding` | `internal/money`: an integer division rounded by one of four modes | pure operators |
| `Decimal` | `internal/money`: fixed-point products and quotients over it | pure operators |
| `MoneyTheorems` | how far rounding is off; sums over finite sets, cited by the proofs | proofs |
| `Router` | `internal/crypto/router` with its venues: the best route for a sale or a purchase | pure operators |
| `CryptoBooks` | the accounts and the row lock that conversions and custody share | shared state |
| `Conversion` | `internal/crypto/conversions.go` | detailed |
| `Custody` | `internal/crypto`: deposits, withdrawal addresses, withdrawals, reconciliation | detailed |
| `Crypto` | both over the same books | composition |
| `MCCrypto`, `CryptoProofs` | instance for TLC; proofs | |
| `RwaAddresses` | `internal/rwa/addresses.go` and the contracts' permissions | detailed |
| `RwaIncome` | `internal/rwa/dividends.go`, `reconciliation.go`, over lots that come and go | detailed |
| `RwaAdmin` | both, with the calls and the clock they share | composition |
| `MCRwaAdmin`, `RwaProofs` | instance for TLC; proofs about both rwa models | |

A database transaction is one action, unless its order of row locks matters: then it is one action per
statement that can wait, and what it holds uncommitted follows from its program counter (`Ledger`,
`Outbox`). A call outside the database is several actions, with everything else in between. A crash
rolls back the open transaction and forgets the process. Definitions named in a comment "Mutant of" or
"Mutant:" are not part of a model: they are plausible mistakes, and `PROJECT.json` says which property
catches each.

### 2.1 Ledger

A call of `Post` or `Reverse` goes `idle -> key -> event | original -> write -> idle`. `AcquireKey` is
`acquireRequest` (insert the key or read who used it), `AcquireEvent` is `acquireProviderEvent`,
`AcquireReversal` is the lock of the original's entries with `InsertReversal`, `Commit` writes the
transaction, its entries and every row held, and answers, unless the acknowledgement is lost.
`Rollback` is any error and any crash. `INSERT ... ON CONFLICT DO NOTHING` waits for a concurrent
uncommitted row with the same key: that is `Blocked`.

Requests are abstract: two requests are equal when their hashes are, and a posting is its net debit per
account. Amounts are balanced by `PostingCommand.validate` and the trigger of 000002 before they reach
the model. Each call here is a transaction of its own; when another module calls the ledger inside its
transaction, the ledger's transaction is a savepoint, and the rows it took stay held until the caller
commits. `NoWaitCycle` therefore speaks of stand-alone calls and of callers that post once.

Run `ledger`: two callers; four commands (a deposit, its provider event redelivered under another key,
the same event altered, the deposit's key reused for something else) and a reversal of each transaction
under each of three keys; three transactions, so that a reversal can be reversed. Callers and
transaction ids are symmetric. It checks the types, `AnswersStable` (whoever repeats a command hears
the same committed transaction), `NoWaitCycle`, `BalancesExplained` (a balance is the sum of the
postings that stand, each once, however reversals race) and the refinement `JournalSpec`.
Deadlock is checked.

### 2.2 Outbox

A worker is `ready`, `delivering` or `failing`; `todo` is what is left of its batch. `Claim` is
`Worker.claim`: it dead-letters rows whose lease lapsed with no attempts left and takes a batch.
`BeginDelivery` inserts the receipt and may wait for another worker's uncommitted one (`ReceiptLocked`);
`Deliver` commits receipt, effect and `DELIVERED` together; `ProcessError` and `Fail` are the failed
delivery and its record. `LeaseLapses` and `BackoffEnds` are the clock. `Replay` and `Cancel` are the
administrator.

Run `outbox`: two events, two workers of one consumer, two attempts, one replay: a lease can lapse under
its holder, be taken over, run out of attempts, be dead-lettered and replayed while the first worker is
still in its handler. It checks safety, the refinement `DeliverySpec` and, with fairness, that every
event settles and that `RunOnce` returns. The fairness: each worker keeps executing `RunOnce` when it can
and the clock advances. Nothing in the repository loops over `RunOnce` yet (`apps/worker/main.go` runs
only rwa jobs), so it is an obligation on whoever deploys the worker; producers, operators and crashes
owe nothing. The run does not check deadlock: when all events are final, nothing is left to do.

### 2.3 RwaSaga

One lot is one mint request. A lot has two chain operations, its mint and its burn, each with a saga
status, a `chain_operations` row, and at most one execution on the chain (`operationExecuted` of the
contract). The processes are the requests themselves, workers in `RecoverDueOperations` and
administrators in `RecoverOperation`. `Submit`, `Mine` and `Poll` are the adapter's `submit`: a process
may stop waiting, and its transaction stays in the mempool (`stray`) and may be mined later. `Unknown`,
`ConfirmMint` and `ConfirmBurn` are `finishMint` and `finishRedemption`; `Query`, `FailMint` and the
resubmission of a burn are `recoverOperation`. `Abort` is any transaction of these that fails, for
example because the outbox has a row for the same status change already.

Run `rwa_racing` has a request, a worker and an administrator race over one lot. Recovery asks the chain
whenever it is called (`Query`), so it may be told that a mint is not executed while a transaction of that
mint is still outstanding; `early` is a history variable that remembers those mints, and no guard reads
it. `OnlyEarlyQueriesUnback` says that nothing else can leave a token without its locked share, and
`OnlyEarlyQueriesReopen` that nothing else changes a final state. What an early query does is run
`rwa_late_mint`: recovery releases the shares, the mint is mined afterwards, and the token stands
unbacked (`TokensBacked` is violated), although the migration says of these locks that release is allowed
only after a confirmed burn. `CompletedIsBurnt` and `HoldingsAreTokens` hold whatever recovery is told.
Run `rwa_stuck` adds fairness of
calls, workers and backoffs (apps/worker/main.go starts `RecoverDueOperations` every ten seconds) and
finds that the claim of a worker that died is never taken over, so the operation neither recovers nor
reaches the dead-letter state. Administrators can recover it by hand, but owe nothing. These runs do not
check deadlock: with every operation settled and no lots left the system rests.

Bounds: one lot, raced over by three processes (the theorems below are for any number of lots); two
attempts, so that an operation is retried and exhausted; one abandoned transaction per operation in the
mempool at a time; batches of one.

### 2.4 Trading

`SubmitOrder`, `AdvanceReplay` and `CancelOrder` are the handlers of `orders.go`; what the broker does
with an order at a quote is `Marketable`, `FillQuantity`, `Rests` and `Expires`
(`provider/local.go`), and every fill posts ledger entries, a position and a fill row. The handlers hold
the paper account's lock and are one step, except that a buy reads cash balances which nothing locks:
`BeginBuy` decides, `CommitBuy` posts, `RollBackBuy` is any failure in between. `ReserveSettledShares`
and `ReleaseSettledShares` are what `internal/rwa` calls. Cash is in cents, quantities and prices in finer
units: what a fill costs is their product over `Cent`, rounded half to even (`Worth`, fills.go:18), and a
fill that rounds to nothing is refused.

Run `trading`: three orders, one reservation, a replay of three quotes that dips below and rises above
the limits, market and limit orders, whole and half fills. `FillsExplainBalances` (fills explain cash,
the position row and the share accounts, and reservations the locked shares), `NeverOverspent` (several
resting buys accepted on the same cash do not overspend it), `LimitHonoured`, `OrdersProgress`. `Cent` is
2, so that fills are worth an odd number of half cents and are rounded both ways: an order can cost more
than its limit (two halves of a share at 10.03 are two fills of 5.02), and `LimitHonoured` says by how
much, half a cent per fill. The run stops when all orders are final, so deadlock is not checked. Known
and not run: shares of a resting sell can be locked for a token before it fills (the blockers document
names it); `RwaSaga` assumes they are not.

### 2.5 Banking

`LinkBankAccount`, `VerifyBankAccountOwnership`, `CoolingEnds`; `InitiateFunding` and the provider's
events (`AchSettled`, `AchReturned`, `WireCredited`, `WireExcepted`, `AdvanceFunding`), each guarded by
the trigger of migration 000005 (`FundingSteps`, `WithdrawalSteps`); `RequestWithdrawal` with its
reservation, `WithdrawalEvent`; `ProposeReview`, `DeclineReview`, `ApproveRejection`,
`ApproveWithdrawal`. A withdrawal is found covered in one step and reserved in another
(`BeginReserve`, `CommitReserve`), because the cash account is not locked.

`Banking` is checked as part of `CustomerCash`. Known and not run: an account funded before its cooling
period ends becomes a withdrawal account at once; a withdrawal created before its account is verified
(`SECURITY_VERIFICATION`, withdrawal.go:124) is never taken up again, because no handler moves it and the
same request returns the same row, although the response (withdrawal.go:126) tells the customer to verify
and return.

### 2.6 CustomerCash

`CustomerCash` extends both over the `cash` of `CustomerAccount`; a step of one (`Securities`, `Bank`)
leaves the other's rows alone, and the two locks (paper account, customer profile) do not exclude each
other, so that any step of one may come between a read and the posting of the other.

Run `customer_cash`: an order, one account, one transfer in, two withdrawals that want the same cash, two
administrators, callbacks in any order the triggers allow, and at most two proposals (`MaxProposals`),
enough for one to be stale when it is decided. `CashExplained`: what orders and transfers say together
explains each dimension and the buying power, so no posting is lost between another module's read and its
write. `ShortfallIsSpent`: a withdrawal is decided on balances that nothing locks, and yet what approved
withdrawals lack of the cash they hold is no more than what buys spent, so withdrawals never promise the
same cash twice. `OwnAccountsOnly`: money moves to and from verified accounts only. `CaseAgrees`: a
reviewed withdrawal has one decision, by another administrator than the one who proposed it. Deadlock is
not checked: transfers end.

Run `customer_cash_held` finds that a buy may spend the settled cash an approved withdrawal holds, which
PDM.md forbids.

### 2.7 Card

All handlers lock the customer profile, so they are single steps, except the two that read the cash
account before they post to it: `BeginCapture`/`CommitCapture` and `BeginPayment`/`CommitPayment`
(`pending` is the transaction, `Rollback` its failure). An authorization posts to the card account only,
so its read of cash and its hold are one step. `Elsewhere` is what other modules post to the cash
account meanwhile. `captures.go` computes what a capture releases (`HoldRelease`) and how it is repaid:
cash, then, if the mode and a mandate allow it, the sale of collateral at a protected limit (`Sales`),
and if neither suffices spending freezes; `adjustments.go` and `disputes.go` share `Credit` and
`refundAllocation`; `statements.go` is `GenerateStatement` and the payment. Cards follow
`UserTransition` and `PhysicalTransition`; "sent" is what a card has put into the outbox, whose unique
key admits each event type once per aggregate. Amounts are in the merchant's currency and in USD at one
rate, shares are whole, there is one collateral asset and one day. A stale quote or closed market is not
state: it declines an authorization or fails a sale, and both may happen at any time.

Run `card`: two cards (so that one is replaced), two authorizations, two captures on either, one dispute,
one statement, each repayment mode, amounts that make partial captures, tips, partial reversals and
refunds possible, collateral that covers a shortfall wholly, half or not at all, and a purchase elsewhere
that spends the cash a capture has just read. `HoldsExplained` (the account holds what open authorizations
still hold), `BooksBalance` (captures, sales, credits and payments explain debt and cash), `GivenBackOnce`
(refunds and disputes together give back at most the capture), `ApprovalsCovered` (a cash customer's holds
are covered while no other module spends). No property speaks of the stale read of cash (captures.go:194):
a purchase elsewhere may let the repayment overdraw it, and the books still balance. Deadlock is not
checked: requests end. Known and not run: `recordMutation` (mutation.go:36) writes every event with
version 1 and `outbox.events` is unique in aggregate, event type and version
(`db/migrations/000002_ledger_async_core.up.sql:355`), so the second change of a card, repayment mode,
mandate or authorization of the same event type is refused; a customer who activated a card cannot freeze
it, which `lifecycle_test.go:15` and PDM.md:273 expect. The model takes the refusal as it is.

### 2.8 Rounding, Decimal and Router

`Rounding` is `roundRatio` with its four modes and `shouldRoundUp`; `Decimal` is the arithmetic of
`internal/money` over it: integers scaled by `One`. `Router` is one leg over the three venues: `quotes`
orders the venues by what they cost with their fee, `TradeAt` is one turn of the loop (`SellAt`, `BuyAt`)
that `Loop` repeats, `finalize` the result or its error, its conditions asked in the order of the code.
What the venues do on an attempt, who quotes in time, who fails, who fills half, is a parameter. All are
pure operators; they are checked by `RoutesWithinBudget` for every purchase that a run of `Crypto` routes,
and proved about in `MoneyTheorems` (rounding) and `CryptoProofs` (the router). A scale of 100 in place of
10^18 makes rounding frequent instead of invisible.

### 2.9 Crypto

A call of `Convert` is a process that reserves (`BeginReservation` and `CommitReservation`, or
`ReserveAsset`), reads how far the conversion is (`ReadProgress`), routes at the venues outside any
transaction (`RouteSell`, `RouteBuy`) and settles (`finalizeSellLeg`, `finalizeBuyLeg`). It may be cut
off anywhere (`CutOff`), and the same key, concurrent or later, takes the conversion up (`Replay`).
Every transaction locks the profile row and is one step, except the reservation of USD: the cash account
is shared with other modules (`SpendElsewhere`), which do not take that lock. `Custody` has deposits,
withdrawal addresses and withdrawals in the same way: an address is analysed, and a withdrawal prepared
at the custodian, before the transaction (`AnalyzeForActivation`, `AskCustodian`), and each may be cut
off between. The custodian acts on its own (`CustodianActs`) and reports in events
(`ApplyDepositEvent`, `ApplyWithdrawalEvent`) in any order, again and again.

Run `crypto`: pairs of conversions by two callers (asset to asset with USD to asset, two sales of one
asset, a flagged sale), deposits with withdrawals and reconciliation, a withdrawal beside a sale. A plan
chooses one of these per behaviour, because their product is out of reach; what they share is the books,
and each pair that competes for the same balance or window is in some plan. The market has odd prices, so
that products are rounded; the review thresholds lie between one sale and two; one address cools off one
or two ticks. `BooksExplained` (every balance is what the rows add up to), `ReviewCap`,
`NothingOversold`, `CoolingServed`, `RoutesWithinBudget`, and with fairness
`WithdrawalsFollowCustodian`. Fairness: the transaction that holds the profile row ends, and the custodian
sends an event until it is accepted, strongly, because the row lock queues those that wait. Customers,
callers and operators owe nothing. Deadlock is not checked: commands end.

Seen and not run: `NothingOversold` allows USD to be overdrawn by what other modules spent and what a
purchase takes out of the proceeds of a sale without looking (`postBuy`, conversions.go:509); a route that
overruns its budget by rounding ends in an error and leaves the conversion `ROUTING` until it is
repeated; proceeds under review stay frozen and a conversion in `REVIEW_REQUIRED` stays so, because
nothing decides the case; the custodian may broadcast a withdrawal that the customer's transaction then
refused (withdrawals.go:50); a custodian transaction that was first rejected and later confirmed is never
recorded, and a second request for the deposit address of an asset is refused whatever its key.

### 2.10 RwaAdmin

`RwaAddresses`: `RegisterExternalAddress` and `CompleteAddressProof`; a review that asks for the risk
first (`AskRisk`, `ReviewExternalAddress`); an activation that reads the address, permits it contract by
contract and then locks it (`BeginActivation`, `SetPermission`, `ActivateExternalAddress`). Calls overlap
and are cut off anywhere (`CutOff`). `RwaIncome`: a lot goes through the states that holdings, locks and
supply depend on (`CreateUnderlyingLock` to `ConfirmRedemption`, the saga itself is `RwaSaga`);
`AnnounceDividend` and `ProcessDividend`; a reconciliation reads the supply from the chain
(`ReadTotalSupply`) and sums the locked shares later (`InsertReconciliationRun`).

A registration is one customer's row about one address of the chain (`ChainAddress`): the table is unique
in customer and address as written, so that two customers, or one under another spelling, may register the
same address, while the contracts permit addresses of the chain (`permitted`).

Run `rwa_admin`: two addresses of one customer with mints to them; an address that two customers
registered; two dividends while two customers' lots come and go, at rates that do and do not divide a
cent; reconciliations by two callers. A plan chooses one of the four. `PermissionsEarned` says of a
permission that some registration of that address earned it, which is all that the code ensures.
`DividendsExplained` compares payments with the shares the dividend recorded, not with the holdings. Two
callers are enough for a review or an activation to be overtaken by another; two assets for an activation
to die between two contracts. Deadlock is not checked: nothing has to be asked for.

Run `reconcile_midnight`: two workers reconcile one asset. The daily key is computed before the chain is
asked, and the run is recorded after: one that began before midnight and one that began after it are both
recorded on the later day (`OneRunADay` is violated), although the comment on `RunDailyReconciliation`
says that at most one is. The unique key alone does not ensure it.

Seen and not run: permissions set by an activation that then fails stay; an address whose proof was wrong
can never be registered again; the compliance case of a review is never closed; dividends go to the
holders of the moment they are processed, not of the record date (the blockers document names it), and
are settled but never withdrawable (dividends.go:128); one holding that rounds to nothing blocks the
dividend of all; a reconciliation that a mint or redemption overlaps reports a difference that was not
there, and an automatic run that ends after midnight, if it is alone, takes the place of the next day's.

## 3. Proofs

A theorem holds for every value of the constants that satisfies the named assumptions of its modules: any
processes, events, keys, lots, orders, amounts, prices and policies. What they assume is finiteness of the
sets of identifiers (a sum has to have an end) and that amounts, scales and policies are numbers of the
kind the schema's checks admit: `LedgerAssumption`, `TradingAssumption`, `BankingAssumption`,
`BooksAssumption`, `RouterAssumption`, `ConversionAssumption`, `CustodyAssumption`, `IncomeAssumption` and
the like, each in the module that declares the constants. TLC evaluates them in every run.

- `MoneyTheorems`. From the division of a magnitude (`Division`) and the two cases of `shouldRoundUp`
  follows, for every sign, how far `roundRatio` is off under each mode (`RoundingError`). The other half
  is about sums over a finite set (`SumAdds`, `SumMoved`, `SumBounds` and their relatives), which every
  balance is. The library's induction theorems take an operator and cannot be instantiated, so the one
  fact that needs induction is proved from a smallest counterexample.
- `LedgerProofs`. The invariant joins: the unique tables and the journal agree; a call that holds an
  uncommitted row is the only one that does, and no committed row has its key; an answer names the
  transaction of its request or of its provider event. `EntryInv` and `ChainInv` add that a reversal wrote
  the opposite of one committed transaction, and that reversals of reversals form chains with an end, so
  that whether a transaction stands is decided by the last of its chain. From them follow `TypeCorrect`,
  `Answers` (`AnswersStable`), `BalancesAlwaysExplained` (along each chain the entries cancel in pairs, so
  a balance is the sum of what stands) and `Implements` (`JournalSpec`: `Commit` is `Append`, everything
  else stutters). `NoCircle` (`NoWaitCycle`) needs only the order in which rows are taken: a call that
  waits for an event or a reversal waits for a writer, and a writer waits for nobody.
- `OutboxProofs`. `EffectsExactlyOnce` is not inductive: the invariant adds that an uncommitted receipt
  has one holder, and that a process in delivery that saw no receipt still sees none. From it follow
  `TypeCorrect`, `ExactlyOnce`, `FinalStates` and `Refinement` (`DeliverySpec`).
- `RwaProofs`, saga. The invariant relates where each process is to what the chain and the rows say (a
  process that confirms has seen the execution; a mint that failed, or is about to be failed, either is
  dead, that is, not executed and with no transaction that could execute it, or was asked about too early:
  `Refuted`). From it follow `TypeCorrect`, `Redeemed` (`CompletedIsBurnt`), `HoldingsBacked`
  (`HoldingsAreTokens`: the holding and what was redeemed never exceed the mints that are final and
  executed, however many processes confirm them, `CreditInv`), `Backed` (`OnlyEarlyQueriesUnback`) and
  `FinalStates` (`OnlyEarlyQueriesReopen`). None of them assumes anything about when recovery asks.
- `TradingProofs`. `OrdersSound` says of every row that its fills are within its quantity and, but for
  their rounding, its limit, and of a buy under way that it still applies to its order and that the
  provisional cash it counts on is still there (`BuySound`); it holds whatever other modules post to the
  account. `BuysCovered` adds what needs that nobody else posts: the rest of a decided buy is covered by
  settled cash, and `WITHDRAWABLE` equals `SETTLED`. `OrdersExplained(other)` adds that position, shares
  and buying power are sums over fills and reservations, but for an amount `other` that orders did not
  post, and that a decided buy will add to its row what it posts. From these follow `TradingTypeCorrect`,
  `OrdersNeverOverspend`, `FillsAlwaysExplain` (with `other` the initial cash), `LimitsAreHonoured`,
  `SharesAlwaysAddUp` and `OrdersOnlyProgress`, for any quotes, quantities and limits.
- `CustomerCashProofs`, banking. Transfers are backed by accounts in the state they need (`AccountsBack`);
  a case and its withdrawal agree (`CasesSound`); an approved proposal was the one that decided its case,
  and pending ones cannot decide a decided case (`ProposalsSound`); a reservation under way still has its
  row to itself (`ReservingSound`). From these (`BankingInv`) follow `BankingTypeCorrect`,
  `SettledAlwaysSplits`, `OnlyOwnAccounts`, `CasesAlwaysAgree` and `FinalTransfersAlwaysStay`, and with
  `TransfersExplain(other)`, which again leaves open an amount that transfers did not post,
  `BalancesAlwaysExplained`. `AloneWithdrawalsCovered` is the property that run `customer_cash_held` finds
  violated, of banking alone: as long as nothing is returned, withdrawable cash stays non-negative and
  covers the reservation under way (`ReserveCovered(0)`), so that the profile lock would be enough if
  banking were the only module on the account.
- `CustomerCashProofs`, composition. The two invariants join to `CashInv`. For each step of one module,
  `other` is chosen from the state before it, as what the account holds beyond what that module's rows
  explain; its own step lemma, already proved for every `other`, says that the step adds to the cash what
  it adds to its rows, and the other module's sums do not move. What each leaves alone is proved of it:
  orders move neither pending nor held cash and keep settled cash split (`OrdersLeave`), transfers do not
  move provisional cash (`TransfersLeave`), which is why a decided buy stays payable from it. From this
  follow `CashAlwaysExplained` (`CashExplained`), `TogetherSound` (types, limits, shares, own accounts and
  cases hold of the two together) and `TogetherProgress` (so do `OrdersProgress` and
  `FinalTransfersStay`). What does not carry over is `NeverOverspent` and `WithdrawalsCovered`: each is
  proved of its module alone, TLC refutes both of the two together (the second is run
  `customer_cash_held`), and nothing of `CashInv` needs them. What remains of the second is
  `ShortfallAlwaysSpent` (`ShortfallIsSpent`): `ReserveCovered(spent)` allows withdrawable cash, and the
  reservation under way, to lack as much as buys have spent; a buy takes from it what it adds to its row
  (`BuysTake`), and withdrawals keep it as they do alone.
- `RwaProofs`, administration. The chain is told before the row is locked, so the invariant says of an
  activation under way that its address still is proven, cleared and cooled and that what it granted is
  permitted (`ActivationsSound`), of a row that its stage was earned (`StagesSound`), and that every
  permission was (`PermittedEarned`). From it follow `AdminTypeCorrect` and `PermissionsAlwaysEarned`, for
  any number of callers and however registrations share addresses. `DividendsAlwaysExplained` adds that a
  processed dividend has one payment for every holder of that moment, each within half a cent of shares
  times rate (`MultiplyError`).
- `CryptoProofs`. The longest argument, in layers. (1) Router: what a venue may fill and how a fee is
  rounded bound one turn of the loop, and the accumulated legs stay within the budget (`Router` lemmas).
  (2) Calls: what a call has read about its conversion stays true while other calls run, because a
  conversion only moves forward (`CallSound`). (3) Rows: legs, reservation and status of a conversion fit
  (`LegsSound`, `RowComplete`), so that what it has taken and given is a function of its row
  (`SaleTables`, `PurchaseTables`, `TakenMoves`). (4) Books: each balance is the sum of what rows have
  taken and given, and stays non-negative but for what others spend (`BooksInv`, with `Affords` for the
  one check made before and `Capped` for the review window). From these follow `TypeCorrect`,
  `RoutesAlwaysWithinBudget`, `BooksAlwaysExplained`, `ReviewAlwaysCaps` and `NothingEverOversold`.
  `CoolingAlwaysServed` rests on two smaller parts: an active address has cooled off and is not blocked
  (`AddressesSound`), and a withdrawal's address was active when it was made (`WithdrawalsSound`). An
  attempt at (1) failed for a good reason: the conditions of `finalize` overlap, and a `CASE` leaves open
  which of them answers. The code asks them in an order, and so does the model now.

- `CardProofs`. None of the four properties is inductive. `PendingSound` says that the transaction under
  way still has what it read to itself (its capture is not posted, its authorization is open, its
  statement unpaid), because the profile row is locked from one step to the other; `RowsSound` that no row
  is about a missing one, so that a new authorization starts with nothing released and a new capture with
  nothing disputed; `CreditsSound` that no more came off the debt than was given back. With them one step
  changes one row, and every sum by that row (`SumMoved`): `HoldsMove` for holds, `TotalsMove` and
  `CashMove` for the books. `CashOnlySound` adds what `ApprovalsCovered` leaves out: between the two steps
  of a capture its cash is still there, and what it captured beyond its hold is paid from cash no hold
  counted on. From the invariant follow `TypeCorrect`, `HoldsAlwaysExplained`, `BooksAlwaysBalance`,
  `GivenBackAtMostOnce` and `ApprovalsAlwaysCovered`. TLC found the invariant to hold in every state of
  run `card` before it was proved.

Only model-checked: liveness (`EveryEventSettles`, `RunOnceReturns`, `OperationsSettle`,
`WithdrawalsFollowCustodian`), which the prover cannot do under fairness. Every safety invariant and
action property that a passing run checks is a theorem.

## 4. Findings

| Run | What the run shows |
|---|---|
| `rwa_stuck` | a worker that dies after claiming a chain operation leaves it claimed for ever |
| `rwa_late_mint` | recovery releases the shares of a mint that is mined afterwards |
| `customer_cash_held` | orders spend cash that approved withdrawals hold |
| `reconcile_midnight` | two automatic reconciliations of an asset are recorded on one day |

Seen while modelling and not run: what each part of section 2 names, and a refund of a capture that a
statement has paid drives the receivable below zero; spending that a repayment shortfall froze
(captures.go:223) is never unfrozen, since nothing calls `UnfreezeSpending`; a sale may exceed the daily
maximum by its price improvement; banking reconciliation reports a difference while a withdrawal is in
transit. Those without a remedy in the code are under `hazards` with a note.

## 5. Plan

Next, in this order:

1. `Card` and `Conversion` in `CustomerCash`, in place of their `Elsewhere` steps: their step lemmas
   would have to leave open, as those of `Trading` and `Banking` do, what others post.
2. Two customers in `Crypto`, to show that they share nothing but the venues.

Not modelled, and why: HTTP handlers, clients and tools keep no state; notification, audit and identity
insert rows inside the transactions of others, and a notification is a deduplicated insert that nothing
reads back; market data is a fixture that `Trading` reads as its quotes; the reconciliations of banking
and card compare and record, and change nothing they compare, and that of card compares the ledger with
itself unless an administrator supplies the provider's figures. Average cost and profit of positions
(`projections.go`) are rounded divisions that nothing else reads. Parsing, formatting and the digit
limit of `internal/money` change no amount that is in range.
