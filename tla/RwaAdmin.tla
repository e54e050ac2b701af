------------------------------ MODULE RwaAdmin ------------------------------
(***************************************************************************)
(* What customers and administrators do around the mint and redemption     *)
(* saga: external addresses, dividends and reconciliation, over the same   *)
(* lots and the same clock.                                                *)
(***************************************************************************)
EXTENDS RwaIncome

adminVars == <<addressVars, incomeVars, calls, clock, plan>>

AdminTypeOK ==
    /\ AddressTypeOK
    /\ IncomeTypeOK
    /\ calls \in [Callers -> ReviewCall \cup ActivationCall \cup ReconcileCall \cup {None}]
    /\ clock \in 0 .. MaxClock

AdminInit ==
    /\ AddressInit
    /\ IncomeInit
    /\ calls = [p \in Callers |-> None]
    /\ clock = 0

(* The call times out, its process dies, or the chain refuses.             *)
CutOff(p) ==
    /\ calls[p] # None
    /\ End(p)
    /\ UNCHANGED <<addresses, permitted, clock, incomeVars>>

Tick ==
    /\ clock < MaxClock
    /\ clock' = clock + 1
    /\ UNCHANGED <<addresses, permitted, calls, incomeVars>>

AdminNext ==
    /\ \/ AddressNext /\ UNCHANGED incomeVars
       \/ IncomeNext
       \/ \E p \in Callers : CutOff(p)
       \/ Tick
    /\ UNCHANGED plan

AdminSpec == AdminInit /\ [][AdminNext]_adminVars

-----------------------------------------------------------------------------
(* Properties *)

Active(a) == Is(a, "ACTIVE")

(* Proven, cleared, and past its cooling period. *)
Earned(a) ==
    /\ addresses[a] # None
    /\ addresses[a].status \in {"COOLING", "ACTIVE"}
    /\ addresses[a].proven /\ addresses[a].cleared /\ Cooled(a)

(* On the chain only addresses are permitted that some customer proved,    *)
(* had cleared, and waited the cooling period for, although the chain is   *)
(* told before the row is locked and reviews and activations overlap; an   *)
(* active address is permitted by every contract and is its customer's     *)
(* only one; and tokens are where that allows them to be (addresses.go,    *)
(* mint.go).                                                               *)
PermissionsEarned ==
    /\ \A grant \in permitted : \E a \in Addresses : ChainAddress[a] = grant[2] /\ Earned(a)
    /\ \A a \in Addresses : Active(a) =>
          /\ Assets \X {ChainAddress[a]} \subseteq permitted
          /\ \A b \in Addresses \ {a} : AddressOwner[b] = AddressOwner[a] => ~Active(b)
    /\ \A l \in Lots : lots[l].destination # Vault =>
          /\ Active(lots[l].destination)
          /\ AddressOwner[lots[l].destination] = LotOwner[l]

Paid == {d \in Dividends : dividends[d] # None /\ dividends[d].status = "RECONCILED"}

Received(c) ==
    SumFunction([d \in Dividends |-> IF d \in Paid THEN dividends[d].entitlements[c].net ELSE 0])

(* A customer's cash has grown by the dividends paid, each once and within *)
(* half a cent of the shares' due, whoever processed them and whatever     *)
(* mints and redemptions did meanwhile.  It is settled cash that was never *)
(* made withdrawable (dividends.go:126).                                   *)
DividendsExplained ==
    /\ \A c \in Customers : cash[c] = Post(Opened(InitialCash), [SETTLED |-> Received(c)])
    /\ \A d \in Paid, c \in Customers :
          LET due == dividends[d].entitlements[c].shares * dividends[d].usdPerShare
          IN  2 * Magnitude(dividends[d].entitlements[c].net - due) =< Cent

(* The worker records at most one automatic run of an asset in a day       *)
(* (comment on RunDailyReconciliation): of runs that have a daily key, no  *)
(* two are recorded on one day.                                            *)
OneRunADay ==
    \A a \in Assets : \A i, j \in DOMAIN runs[a] :
        ( /\ runs[a][i].daily # None /\ runs[a][j].daily # None
          /\ runs[a][i].day = runs[a][j].day ) => i = j
=============================================================================
