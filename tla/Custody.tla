------------------------------ MODULE Custody ------------------------------
(***************************************************************************)
(* Deposits, withdrawal addresses and withdrawals of one customer's crypto *)
(* assets: internal/crypto/custody.go, addresses.go, withdrawals.go and    *)
(* reconciliation.go.                                                      *)
(*                                                                         *)
(* A withdrawal is prepared at the custodian before the transaction that   *)
(* reserves it, and an address is analysed before the transaction that     *)
(* activates it: each is a call in two steps that may be cut off between.  *)
(* The custodian reports in events, which arrive in any order and again    *)
(* and again; one that is refused is rolled back whole.                    *)
(***************************************************************************)
EXTENDS CryptoBooks

CONSTANTS
    Addresses,      \* withdrawal addresses
    AddressAsset,   \* the asset of each
    Withdrawals,    \* idempotency keys of withdrawals
    Quantities,     \* what a customer asks to withdraw
    DepositEvents,  \* external: what the custodian reports of deposits
    Requests,       \* concurrent calls of RequestWithdrawal and ActivateWithdrawalAddress
    Policy,         \* cooling periods by risk factor: base, device, security, recovery, max
    RiskContexts,   \* the risk factors a new address may come with
    MaxClock        \* bound: the clock stops there

ASSUME PolicyAssumption ==
    \A factor \in {"base", "device", "security", "recovery", "max"} : Policy[factor] \in Nat

VARIABLES
    depositAddresses,  \* assets with a deposit address
    deposits,          \* crypto.deposits, by custodian transaction
    addresses,         \* crypto.withdrawal_addresses
    withdrawals,       \* crypto.withdrawals
    events,            \* crypto.provider_events
    requests,          \* calls under way
    differences,       \* assets with an open reconciliation case
    clock,
    custodian          \* external: what the custodian has done with each withdrawal

custodyVars == <<depositAddresses, deposits, addresses, withdrawals, events, requests,
                 differences, clock, custodian>>

AddressRow == [status : {"COOLING_OFF", "ACTIVE", "SUSPENDED"},
               risk : {"LOW", "ELEVATED", "BLOCKED"},
               createdAt : 0 .. MaxClock, cooling : Nat]

WithdrawalStatus == {"APPROVED", "BROADCAST", "CONFIRMED", "FAILED"}

WithdrawalRow == [address : Addresses, quantity : Quantities, status : WithdrawalStatus,
                  createdAt : 0 .. MaxClock]

Decision == {"ALLOW", "ELEVATED", "BLOCK"}

Activation == [address : Addresses, blocked : BOOLEAN]

Prepared == [withdrawal : Withdrawals, address : Addresses, quantity : Quantities]

Step == {"APPROVED", "BROADCAST", "CONFIRMED", "FAILED"}

ASSUME CustodyAssumption ==
    /\ IsFiniteSet(Withdrawals) /\ IsFiniteSet(DepositEvents)
    /\ AddressAsset \in [Addresses -> Assets]
    /\ Quantities \subseteq Nat
    /\ \A e \in DepositEvents : e.asset \in Assets /\ e.quantity \in Nat
    /\ MaxClock \in Nat
    /\ None \notin WithdrawalRow

CustodyTypeOK ==
    /\ depositAddresses \subseteq Assets
    /\ deposits \subseteq DepositEvents
    /\ \A a \in Addresses : addresses[a] = None \/ addresses[a] \in AddressRow
    /\ \A w \in Withdrawals : withdrawals[w] = None \/ withdrawals[w] \in WithdrawalRow
    /\ events \subseteq {e.id : e \in DepositEvents} \cup (Withdrawals \X Step)
    /\ \A r \in Requests : requests[r] = None \/ requests[r] \in Activation \cup Prepared
    /\ differences \subseteq Assets
    /\ clock \in 0 .. MaxClock
    /\ custodian \in [Withdrawals -> SUBSET Step]

CustodyInit ==
    /\ depositAddresses = {}
    /\ deposits = {}
    /\ addresses = [a \in Addresses |-> None]
    /\ withdrawals = [w \in Withdrawals |-> None]
    /\ events = {}
    /\ requests = [r \in Requests |-> None]
    /\ differences = {}
    /\ clock = 0
    /\ custodian = [w \in Withdrawals |-> {}]

-----------------------------------------------------------------------------
(* Deposits *)

HasDepositAddress(asset) == asset \in depositAddresses

(* A second request for an asset that has an address is refused by the     *)
(* unique key of the requests, whatever its own key; it changes nothing.   *)
CreateDepositAddress(asset) ==
    /\ ProfileFree
    /\ asset \in plan.deposits
    /\ ~HasDepositAddress(asset)
    /\ depositAddresses' = depositAddresses \cup {asset}
    /\ UNCHANGED <<cash, assets, reserving, deposits, addresses, withdrawals, events, requests,
                   differences, clock, custodian>>

InsertProviderEvent(id) ==
    /\ id \notin events
    /\ events' = events \cup {id}

CreateDeposit(event) ==
    /\ \A d \in deposits : d.transaction # event.transaction
    /\ deposits' = deposits \cup {event}

(* The first event about a custodian transaction decides it: the row of a  *)
(* second one violates the unique key and its event is rolled back.        *)
ApplyDepositEvent(event) ==
    /\ ProfileFree
    /\ InsertProviderEvent(event.id)
    /\ HasDepositAddress(event.asset)
    /\ CreateDeposit(event)
    /\ IF event.confirmed THEN PostAsset(event.asset, event.quantity, 0)
                          ELSE assets' = assets
    /\ UNCHANGED <<cash, reserving, depositAddresses, addresses, withdrawals, requests,
                   differences, clock, custodian>>

-----------------------------------------------------------------------------
(* Withdrawal addresses *)

PolicyHours(factor, risk) == IF factor \in risk THEN Policy[factor] ELSE 0

coolingDuration(risk) ==
    LET hours == Policy["base"] + PolicyHours("device", risk)
                 + PolicyHours("security", risk) + PolicyHours("recovery", risk)
    IN  IF hours > Policy["max"] THEN Policy["max"] ELSE hours

NewAddress(risk, decision) ==
    [status    |-> IF decision = "BLOCK" THEN "SUSPENDED" ELSE "COOLING_OFF",
     risk      |-> CASE decision = "BLOCK"    -> "BLOCKED"
                     [] decision = "ELEVATED" -> "ELEVATED"
                     [] OTHER                 -> "LOW",
     createdAt |-> clock,
     cooling   |-> coolingDuration(risk)]

Registered(a) == addresses[a] # None

CreateWithdrawalAddress(a, row) == addresses' = [addresses EXCEPT ![a] = row]

AddWithdrawalAddress(a, risk, decision) ==
    /\ ProfileFree
    /\ a \in plan.addresses
    /\ ~Registered(a)
    /\ CreateWithdrawalAddress(a, NewAddress(risk, decision))
    /\ UNCHANGED <<cash, assets, reserving, depositAddresses, deposits, withdrawals, events,
                   requests, differences, clock, custodian>>

Cooled(a) == clock >= addresses[a].createdAt + addresses[a].cooling

IsActive(a) == Registered(a) /\ addresses[a].status = "ACTIVE"

IsCoolingOff(a) == Registered(a) /\ addresses[a].status = "COOLING_OFF"

(* Mutant: an address of any status is activated. *)
MayActivateCooled(a) == Registered(a) /\ Cooled(a)

MayActivate(a) == IsCoolingOff(a) /\ Cooled(a)

AnalyzeForActivation(r, a, blocked) ==
    /\ requests[r] = None
    /\ MayActivate(a)
    /\ requests' = [requests EXCEPT ![r] = [address |-> a, blocked |-> blocked]]
    /\ UNCHANGED <<cash, assets, reserving, depositAddresses, deposits, addresses, withdrawals,
                   events, differences, clock, custodian>>

TransitionWithdrawalAddress(a, blocked) ==
    addresses' = IF blocked
                 THEN [addresses EXCEPT ![a].status = "SUSPENDED", ![a].risk = "BLOCKED"]
                 ELSE [addresses EXCEPT ![a].status = "ACTIVE"]

(* The address is read again: another call may have decided it.            *)
ActivateWithdrawalAddress(r) ==
    /\ ProfileFree
    /\ requests[r] \in Activation
    /\ LET a == requests[r].address
       IN  \/ /\ MayActivate(a)
              /\ TransitionWithdrawalAddress(a, requests[r].blocked)
           \/ /\ ~MayActivate(a)
              /\ addresses' = addresses
    /\ requests' = [requests EXCEPT ![r] = None]
    /\ UNCHANGED <<cash, assets, reserving, depositAddresses, deposits, withdrawals, events,
                   differences, clock, custodian>>

-----------------------------------------------------------------------------
(* Withdrawals *)

(* The custodian is asked under a reference derived from the idempotency   *)
(* key, so asking again finds the same withdrawal there.                   *)
PrepareWithdrawal(w) ==
    custodian' = [custodian EXCEPT ![w] = @ \cup {"APPROVED"}]

(* The address is analysed anew: one that is blocked now is refused, which *)
(* changes nothing, and stays active.                                      *)
AskCustodian(r, w, a, quantity) ==
    /\ requests[r] = None
    /\ IsActive(a)
    /\ PrepareWithdrawal(w)
    /\ requests' = [requests EXCEPT ![r] =
           [withdrawal |-> w, address |-> a, quantity |-> quantity]]
    /\ UNCHANGED <<cash, assets, reserving, depositAddresses, deposits, addresses, withdrawals,
                   events, differences, clock>>

Requested(w) == withdrawals[w] # None

CreateWithdrawal(w, a, quantity) ==
    withdrawals' = [withdrawals EXCEPT ![w] =
        [address |-> a, quantity |-> quantity, status |-> "APPROVED", createdAt |-> clock]]

(* A key that was used is answered from its row.  A withdrawal the account *)
(* does not cover is refused, and the custodian is not told.               *)
RequestWithdrawal(r) ==
    /\ ProfileFree
    /\ requests[r] \in Prepared
    /\ LET w == requests[r].withdrawal
           a == requests[r].address
           quantity == requests[r].quantity
           grantable == /\ ~Requested(w) /\ IsActive(a)
                        /\ AssetCovers(AddressAsset[a], quantity)
       IN  \/ /\ grantable
              /\ PostAsset(AddressAsset[a], -quantity, quantity)
              /\ CreateWithdrawal(w, a, quantity)
           \/ /\ ~grantable
              /\ UNCHANGED <<assets, withdrawals>>
    /\ requests' = [requests EXCEPT ![r] = None]
    /\ UNCHANGED <<cash, reserving, depositAddresses, deposits, addresses, events,
                   differences, clock, custodian>>

CutOffRequest(r) ==
    /\ requests[r] # None
    /\ requests' = [requests EXCEPT ![r] = None]
    /\ UNCHANGED <<cash, assets, reserving, depositAddresses, deposits, addresses, withdrawals,
                   events, differences, clock, custodian>>

(* External: the custodian broadcasts what it has prepared, and the        *)
(* network confirms it or it fails.                                        *)
CustodianActs(w, step) ==
    /\ "APPROVED" \in custodian[w] /\ custodian[w] \cap {"CONFIRMED", "FAILED"} = {}
    /\ \/ step \in {"BROADCAST", "FAILED"}
       \/ /\ step = "CONFIRMED"
          /\ "BROADCAST" \in custodian[w]
    /\ step \notin custodian[w]
    /\ custodian' = [custodian EXCEPT ![w] = @ \cup {step}]
    /\ UNCHANGED <<cash, assets, reserving, depositAddresses, deposits, addresses, withdrawals,
                   events, requests, differences, clock>>

-----------------------------------------------------------------------------
(* What the custodian reports of a withdrawal *)

TransitionWithdrawal(w, status) ==
    withdrawals' = [withdrawals EXCEPT ![w].status = status]

(* A broadcast takes the reserved asset out of the account.                *)
Broadcast(w) ==
    /\ withdrawals[w].status = "APPROVED"
    /\ PostAsset(AddressAsset[withdrawals[w].address], 0, -withdrawals[w].quantity)
    /\ TransitionWithdrawal(w, "BROADCAST")

Confirmed(w) ==
    /\ withdrawals[w].status = "BROADCAST"
    /\ assets' = assets
    /\ TransitionWithdrawal(w, "CONFIRMED")

(* A failure reverses the broadcast, if there was one, and the reservation *)
Failed(w) ==
    /\ withdrawals[w].status \in {"APPROVED", "BROADCAST"}
    /\ PostAsset(AddressAsset[withdrawals[w].address], withdrawals[w].quantity,
                 IF withdrawals[w].status = "APPROVED" THEN -withdrawals[w].quantity ELSE 0)
    /\ TransitionWithdrawal(w, "FAILED")

(* Mutant: a confirmation that comes early is accepted and ignored. *)
transitionWithdrawalEventLenient(w, step) ==
    \/ step = "BROADCAST" /\ Broadcast(w)
    \/ step = "CONFIRMED" /\ Confirmed(w)
    \/ step = "CONFIRMED" /\ withdrawals[w].status # "BROADCAST" /\ UNCHANGED <<assets, withdrawals>>
    \/ step = "FAILED"    /\ Failed(w)

transitionWithdrawalEvent(w, step) ==
    \/ step = "BROADCAST" /\ Broadcast(w)
    \/ step = "CONFIRMED" /\ Confirmed(w)
    \/ step = "FAILED"    /\ Failed(w)

(* An event the status does not allow fails the transaction: its row in    *)
(* the inbox goes with it, and the event can be delivered again.           *)
ApplyWithdrawalEvent(w, step) ==
    /\ ProfileFree
    /\ step \in custodian[w]
    /\ Requested(w)
    /\ InsertProviderEvent(<<w, step>>)
    /\ transitionWithdrawalEvent(w, step)
    /\ UNCHANGED <<cash, reserving, depositAddresses, deposits, addresses, requests,
                   differences, clock, custodian>>

-----------------------------------------------------------------------------
CreateReconciliationRun(asset, difference) ==
    differences' = IF difference THEN differences \cup {asset} ELSE differences

(* Operations compare settled assets with what the custodian reports.      *)
Reconcile(asset, reported) ==
    /\ ProfileFree
    /\ asset \in plan.reconciled
    /\ CreateReconciliationRun(asset, assets[asset].settled # reported)
    /\ UNCHANGED <<cash, assets, reserving, depositAddresses, deposits, addresses, withdrawals,
                   events, requests, clock, custodian>>

(* Time matters to addresses that are cooling off. *)
Tick ==
    /\ clock < MaxClock
    /\ \E a \in Addresses : IsCoolingOff(a)
    /\ clock' = clock + 1
    /\ UNCHANGED <<cash, assets, reserving, depositAddresses, deposits, addresses, withdrawals,
                   events, requests, differences, custodian>>

CustodyNext ==
    \/ \E asset \in Assets :
          \/ CreateDepositAddress(asset)
          \/ \E reported \in {assets[asset].settled, assets[asset].settled + assets[asset].held} :
                Reconcile(asset, reported)
    \/ \E event \in DepositEvents : ApplyDepositEvent(event)
    \/ \E a \in Addresses, risk \in RiskContexts, decision \in Decision :
          AddWithdrawalAddress(a, risk, decision)
    \/ \E r \in Requests, a \in Addresses :
          \/ \E blocked \in BOOLEAN : AnalyzeForActivation(r, a, blocked)
          \/ \E w \in Withdrawals, quantity \in Quantities : AskCustodian(r, w, a, quantity)
    \/ \E r \in Requests :
          ActivateWithdrawalAddress(r) \/ RequestWithdrawal(r) \/ CutOffRequest(r)
    \/ \E w \in Withdrawals, step \in Step :
          CustodianActs(w, step) \/ ApplyWithdrawalEvent(w, step)
    \/ Tick
=============================================================================
