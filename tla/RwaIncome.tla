----------------------------- MODULE RwaIncome ------------------------------
(***************************************************************************)
(* Dividends on tokens (internal/rwa/dividends.go) and the reconciliation  *)
(* of supply and locked shares (reconciliation.go), while mints and        *)
(* redemptions move.                                                       *)
(*                                                                         *)
(* A lot is an amount of shares that one mint locks and one redemption     *)
(* releases; RwaSaga.tla has that saga in detail, and here a lot only goes *)
(* through the states that holdings, locks and supply depend on.  That a   *)
(* mint is mined after recovery gave it up is left to RwaSaga too.  The    *)
(* six steps of a dividend after ANNOUNCED are one transaction.            *)
(***************************************************************************)
EXTENDS Cash, Decimal, Sequences, FiniteSets, Functions, RwaAddresses

CONSTANTS
    Customers,
    Lots, LotOwner, LotAsset, LotSize,
    Vault,          \* the platform's own address, always permitted
    Dividends,      \* external references of dividends
    Rates,          \* USD per share, where One is a dollar
    InitialCash,    \* of each customer, in the same unit
    MaxRuns         \* bound on the reconciliation runs of an asset

Cent == One \div 100

(* A dollar is a number of cents; lots and rates are positive.             *)
ASSUME IncomeAssumption ==
    /\ One % 100 = 0
    /\ IsFiniteSet(Lots) /\ IsFiniteSet(Dividends)
    /\ LotSize \in [Lots -> Nat \ {0}]
    /\ Rates \subseteq Nat \ {0}
    /\ InitialCash \in Nat

VARIABLES
    lots,        \* rwa.underlying_locks with the tokens that stand for them
    dividends,   \* rwa.dividends and their entitlements
    cash,        \* the customers' cash accounts, in units of One
    runs         \* rwa.reconciliation_runs of each asset, in order

incomeVars == <<lots, dividends, cash, runs>>

LotStatus == {"RELEASED", "LOCKED", "MINTED", "HELD", "BURNT"}

Entitlement == [shares : Nat, net : Nat]

DividendRow == [status : {"ANNOUNCED", "RECONCILED"}, asset : Assets, usdPerShare : Rates,
                payableAt : 0 .. MaxClock, entitlements : [Customers -> Entitlement]]

ASSUME DividendAssumption == None \notin DividendRow

Run == [daily : (0 .. MaxClock) \cup {None}, day : 0 .. MaxClock, difference : Int]

ReconcileCall == [at : {"RECONCILE"}, asset : Assets, supply : Int,
                  daily : (0 .. MaxClock) \cup {None}]

IncomeTypeOK ==
    /\ lots \in [Lots -> [status : LotStatus, destination : Addresses \cup {Vault}]]
    /\ dividends \in [Dividends -> DividendRow \cup {None}]
    /\ cash \in [Customers -> Balances]
    /\ runs \in [Assets -> Seq(Run)]

IncomeInit ==
    /\ lots = [l \in Lots |-> [status |-> "RELEASED", destination |-> Vault]]
    /\ dividends = [d \in Dividends |-> None]
    /\ cash = [c \in Customers |-> Opened(InitialCash)]
    /\ runs = [a \in Assets |-> <<>>]

-----------------------------------------------------------------------------
(* Mints and redemptions                                                   *)

In(l, S) == lots[l].status \in S

Move(l, from, to) ==
    /\ In(l, {from})
    /\ lots' = [lots EXCEPT ![l].status = to]
    /\ UNCHANGED <<addresses, permitted, calls, clock, dividends, cash, runs>>

Total(S) == SumFunctionOnSet(LotSize, S)

LockedShares(a) == Total({l \in Lots : LotAsset[l] = a /\ ~In(l, {"RELEASED"})})

totalSupply(a) == Total({l \in Lots : LotAsset[l] = a /\ In(l, {"MINTED", "HELD"})})

Holding(c, a) ==
    Total({l \in Lots : LotOwner[l] = c /\ LotAsset[l] = a /\ In(l, {"HELD", "BURNT"})})

(* Tokens go to the vault or to the customer's own active address.         *)
CreateUnderlyingLock(l, destination) ==
    /\ l \in plan.lots
    /\ In(l, {"RELEASED"})
    /\ \/ destination = Vault
       \/ /\ destination \in Addresses
          /\ AddressOwner[destination] = LotOwner[l] /\ Is(destination, "ACTIVE")
    /\ lots' = [lots EXCEPT ![l] = [status |-> "LOCKED", destination |-> destination]]
    /\ UNCHANGED <<addresses, permitted, calls, clock, dividends, cash, runs>>

(* The contract mints to permitted accounts only. *)
Minted(l) ==
    /\ lots[l].destination # Vault =>
          <<LotAsset[l], ChainAddress[lots[l].destination]>> \in permitted
    /\ Move(l, "LOCKED", "MINTED")

confirmMint(l) == Move(l, "MINTED", "HELD")

RecoverFailedMint(l) == Move(l, "LOCKED", "RELEASED")

Burnt(l) == Move(l, "HELD", "BURNT")

(* The holding is reduced and the lock released in one transaction.        *)
ConfirmRedemption(l) == Move(l, "BURNT", "RELEASED")

-----------------------------------------------------------------------------
(* Dividends                                                               *)

(* The record date is stored and never read.                               *)
AnnounceDividend(d, a, usdPerShare, payableAt) ==
    /\ d \in plan.dividends
    /\ dividends[d] = None
    /\ dividends' = [dividends EXCEPT ![d] =
           [status |-> "ANNOUNCED", asset |-> a, usdPerShare |-> usdPerShare,
            payableAt |-> payableAt,
            entitlements |-> [c \in Customers |-> [shares |-> 0, net |-> 0]]]]
    /\ UNCHANGED <<addresses, permitted, calls, clock, lots, cash, runs>>

(* Mutant: dividends are rounded away from zero. *)
GrossRoundedUp(shares, usdPerShare) ==
    Multiply(shares * One, usdPerShare, Cent, "AWAY_FROM_ZERO")

Gross(shares, usdPerShare) == Multiply(shares * One, usdPerShare, Cent, "HALF_EVEN")

ListPositiveHoldings(a) == {c \in Customers : Holding(c, a) > 0}

(* What the holders of this moment are entitled to. *)
Entitlements(a, usdPerShare) ==
    [c \in Customers |-> [shares |-> Holding(c, a), net |-> Gross(Holding(c, a), usdPerShare)]]

(* The row is locked, so that two administrators pay it once.  A holding   *)
(* whose dividend rounds to nothing fails the whole payment.               *)
ProcessDividend(d) ==
    /\ dividends[d] # None
    /\ dividends[d].status = "ANNOUNCED" /\ dividends[d].payableAt =< clock
    /\ LET a == dividends[d].asset
           entitlements == Entitlements(a, dividends[d].usdPerShare)
       IN  /\ \A c \in ListPositiveHoldings(a) : entitlements[c].net > 0
           /\ dividends' = [dividends EXCEPT ![d].status = "RECONCILED",
                                             ![d].entitlements = entitlements]
           /\ cash' = [c \in Customers |-> Post(cash[c], [SETTLED |-> entitlements[c].net])]
    /\ UNCHANGED <<addresses, permitted, calls, clock, lots, runs>>

-----------------------------------------------------------------------------
(* Reconciliation                                                          *)

RanToday(a) == runs[a] # <<>> /\ runs[a][Len(runs[a])].day >= clock

(* A worker runs each asset that has no run of the day, an administrator   *)
(* whenever asked.  The key of an automatic run is made, and the supply    *)
(* read from the chain, before the transaction that records it.            *)
ReadTotalSupply(p, a, daily) ==
    /\ a \in plan.reconciled
    /\ Len(runs[a]) < MaxRuns
    /\ daily # None => daily = clock /\ ~RanToday(a)
    /\ Begin(p, [at |-> "RECONCILE", asset |-> a, supply |-> totalSupply(a), daily |-> daily])
    /\ UNCHANGED <<addresses, permitted, clock, incomeVars>>

HasDailyKey(a, daily) == daily # None /\ \E i \in DOMAIN runs[a] : runs[a][i].daily = daily

(* The locked shares are summed in the transaction that records the run;   *)
(* a difference opens a case, and nothing is adjusted.                     *)
InsertReconciliationRun(p) ==
    /\ calls[p] \in ReconcileCall
    /\ LET a == calls[p].asset
       IN  runs' = IF HasDailyKey(a, calls[p].daily) THEN runs
                   ELSE [runs EXCEPT ![a] = Append(@,
                            [daily |-> calls[p].daily, day |-> clock,
                             difference |-> calls[p].supply - LockedShares(a)])]
    /\ End(p)
    /\ UNCHANGED <<addresses, permitted, clock, lots, dividends, cash>>

IncomeNext ==
    \/ \E l \in Lots :
          \/ \E destination \in Addresses \cup {Vault} : CreateUnderlyingLock(l, destination)
          \/ Minted(l) \/ confirmMint(l) \/ RecoverFailedMint(l)
          \/ Burnt(l) \/ ConfirmRedemption(l)
    \/ \E d \in Dividends :
          \/ \E a \in Assets, usdPerShare \in Rates, payableAt \in 0 .. MaxClock :
                AnnounceDividend(d, a, usdPerShare, payableAt)
          \/ ProcessDividend(d)
    \/ \E p \in Callers :
          \/ \E a \in Assets, daily \in {clock, None} : ReadTotalSupply(p, a, daily)
          \/ InsertReconciliationRun(p)
=============================================================================
