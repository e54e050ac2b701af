---------------------------- MODULE RwaAddresses ----------------------------
(***************************************************************************)
(* External addresses that tokens may be minted to: internal/rwa/          *)
(* addresses.go.  The customer proves control of an address, an            *)
(* administrator reviews it, it cools off, and the customer activates it.  *)
(*                                                                         *)
(* A review asks for the risk of the address before its transaction, and   *)
(* an activation sets the permissions on the chain, one contract after     *)
(* another, between two transactions: both are calls of several steps that *)
(* overlap with others and may be cut off.  A permission that is mined     *)
(* late, after its call timed out, is a grant just before the cut.         *)
(*                                                                         *)
(* A contract knows the address only, not who registered it: the row is    *)
(* unique by customer and spelling, so that two customers, or one customer *)
(* in two spellings, may register one address of the chain.                *)
(* suspendExternalAddress is a query nothing calls, and no permission is   *)
(* ever taken back.                                                        *)
(***************************************************************************)
EXTENDS Integers, FiniteSets

CONSTANTS
    Assets,
    Addresses,      \* registrations of external addresses, one row each
    AddressOwner,   \* the customer of each
    ChainAddress,   \* the address of the chain that each names
    AddressCooling, \* address_cooling_hours of the policy
    Callers,        \* concurrent callers, customers' and administrators'
    Plans,          \* what customers and administrators do, one plan in a behaviour
    MaxClock,       \* bound: the clock stops there
    None            \* no row, no call

ASSUME CoolingAssumption == AddressCooling \in Nat

ASSUME ClockAssumption == MaxClock \in Nat

VARIABLES
    addresses,   \* rwa.external_addresses
    permitted,   \* external: the contracts' permissions, pairs of asset and chain address
    calls,       \* calls under way
    clock,
    plan         \* external: what happens in this behaviour, so that a run need not
                 \* see everything at once: the addresses registered, the lots minted,
                 \* the dividends announced, the assets reconciled

addressVars == <<addresses, permitted>>

(* PROOF_VERIFIED is never committed. *)
AddressStatus == {"PENDING_PROOF", "RISK_REVIEW", "COOLING", "ACTIVE", "REJECTED"}

AddressRow == [status : AddressStatus, proven : BOOLEAN, cleared : BOOLEAN, coolingEndsAt : Nat]

ReviewCall == [at : {"REVIEW"}, address : Addresses, clear : BOOLEAN]

ActivationCall == [at : {"ACTIVATE"}, address : Addresses, granted : SUBSET Assets]

ASSUME NoneAssumption == None \notin AddressRow \cup ReviewCall \cup ActivationCall

AddressTypeOK ==
    /\ addresses \in [Addresses -> AddressRow \cup {None}]
    /\ permitted \in SUBSET (Assets \X {ChainAddress[a] : a \in Addresses})

AddressInit ==
    /\ addresses = [a \in Addresses |-> None]
    /\ permitted = {}
    /\ plan \in Plans

Registered(a) == addresses[a] # None

Is(a, status) == Registered(a) /\ addresses[a].status = status

Begin(p, call) == calls[p] = None /\ calls' = [calls EXCEPT ![p] = call]

End(p) == calls' = [calls EXCEPT ![p] = None]

-----------------------------------------------------------------------------
(* The customer registers an address and proves control of it              *)

(* The hash of the request covers the proof: a repetition proves nothing   *)
(* else, and another key would break the unique key on the row.            *)
CreateExternalAddress(a, provable) ==
    addresses' = [addresses EXCEPT ![a] =
        [status |-> "PENDING_PROOF", proven |-> provable, cleared |-> FALSE, coolingEndsAt |-> 0]]

RegisterExternalAddress(a, provable) ==
    /\ a \in plan.addresses
    /\ ~Registered(a)
    /\ CreateExternalAddress(a, provable)
    /\ UNCHANGED <<permitted, calls, clock>>

MarkAddressProofVerified(row) == [row EXCEPT !.status = "PROOF_VERIFIED"]

MarkAddressRiskReview(row) == [row EXCEPT !.status = "RISK_REVIEW"]

(* Mutant: the second of the two updates is forgotten. *)
CompleteAddressProofHalf(a) ==
    /\ Is(a, "PENDING_PROOF")
    /\ addresses[a].proven
    /\ addresses' = [addresses EXCEPT ![a] = MarkAddressProofVerified(@)]
    /\ UNCHANGED <<permitted, calls, clock>>

(* Both in one transaction, at the end of a registration or by a           *)
(* repetition of one that was cut off after its first transaction.         *)
CompleteAddressProof(a) ==
    /\ Is(a, "PENDING_PROOF")
    /\ addresses[a].proven
    /\ addresses' = [addresses EXCEPT ![a] = MarkAddressRiskReview(MarkAddressProofVerified(@))]
    /\ UNCHANGED <<permitted, calls, clock>>

-----------------------------------------------------------------------------
(* An administrator reviews it                                             *)

AskRisk(p, a, clear) ==
    /\ Is(a, "RISK_REVIEW")
    /\ Begin(p, [at |-> "REVIEW", address |-> a, clear |-> clear])
    /\ UNCHANGED <<addresses, permitted, clock>>

MarkAddressCooling(a) ==
    addresses' = [addresses EXCEPT ![a].status = "COOLING", ![a].cleared = TRUE,
                                   ![a].coolingEndsAt = clock + AddressCooling]

RejectExternalAddress(a) ==
    addresses' = [addresses EXCEPT ![a].status = "REJECTED"]

(* The row is locked and read again: another review may have decided it.   *)
ReviewExternalAddress(p, approve) ==
    /\ calls[p] \in ReviewCall
    /\ LET a == calls[p].address
       IN  \/ /\ Is(a, "RISK_REVIEW")
              /\ IF approve /\ calls[p].clear THEN MarkAddressCooling(a)
                                              ELSE RejectExternalAddress(a)
           \/ /\ ~Is(a, "RISK_REVIEW")
              /\ addresses' = addresses
    /\ End(p)
    /\ UNCHANGED <<permitted, clock>>

-----------------------------------------------------------------------------
(* The customer activates it                                               *)

Cooled(a) == addresses[a].coolingEndsAt =< clock

(* Mutant: the cooling period is not waited for. *)
MayActivateEarly(a) == Is(a, "COOLING")

MayActivate(a) == Is(a, "COOLING") /\ Cooled(a)

BeginActivation(p, a) ==
    /\ MayActivate(a)
    /\ Begin(p, [at |-> "ACTIVATE", address |-> a, granted |-> {}])
    /\ UNCHANGED <<addresses, permitted, clock>>

SetPermission(p, asset) ==
    /\ calls[p] \in ActivationCall
    /\ asset \in Assets \ calls[p].granted
    /\ permitted' = permitted \cup {<<asset, ChainAddress[calls[p].address]>>}
    /\ calls' = [calls EXCEPT ![p].granted = @ \cup {asset}]
    /\ UNCHANGED <<addresses, clock>>

(* One address of a customer is active at a time: a unique index.          *)
OnlyActive(a) ==
    \A b \in Addresses : AddressOwner[b] = AddressOwner[a] => ~Is(b, "ACTIVE")

(* An address that became active meanwhile is answered as it is.  The      *)
(* permissions stay when the second transaction fails.                     *)
ActivateExternalAddress(p) ==
    /\ calls[p] \in ActivationCall
    /\ calls[p].granted = Assets
    /\ LET a == calls[p].address
       IN  \/ /\ MayActivate(a) /\ OnlyActive(a)
              /\ addresses' = [addresses EXCEPT ![a].status = "ACTIVE"]
           \/ /\ ~(MayActivate(a) /\ OnlyActive(a))
              /\ addresses' = addresses
    /\ End(p)
    /\ UNCHANGED <<permitted, clock>>

AddressNext ==
    \/ \E a \in Addresses :
          \/ \E provable \in BOOLEAN : RegisterExternalAddress(a, provable)
          \/ CompleteAddressProof(a)
          \/ \E p \in Callers :
                BeginActivation(p, a) \/ \E clear \in BOOLEAN : AskRisk(p, a, clear)
    \/ \E p \in Callers :
          \/ \E approve \in BOOLEAN : ReviewExternalAddress(p, approve)
          \/ \E asset \in Assets : SetPermission(p, asset)
          \/ ActivateExternalAddress(p)
=============================================================================
