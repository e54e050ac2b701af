---------------------------- MODULE CryptoBooks ----------------------------
(***************************************************************************)
(* What conversions and custody of one customer share: the USD cash        *)
(* account, one ledger account per asset, and the profile row that every   *)
(* transaction of internal/crypto locks.  The accounts of the custodian,   *)
(* the venues and the fees mirror these postings and are left out.         *)
(***************************************************************************)
EXTENDS Cash, FiniteSets, Functions

CONSTANTS
    Assets,
    InitialCash,
    InitialAssets, \* what the customer holds already
    Plans,         \* what customers do, one plan in a behaviour
    None

ASSUME BooksAssumption ==
    /\ "USD" \notin Assets
    /\ InitialCash \in Nat
    /\ InitialAssets \in [Assets -> Nat]

VARIABLES
    cash,      \* the customer's USD account, shared with the other modules
    assets,    \* the customer's account in each asset
    plan,      \* external: what happens in this behaviour, so that a run need not
               \* see everything at once: the commands by key, the addresses and the
               \* deposits wanted, the assets reconciled, whether cash is spent elsewhere
    reserving  \* the conversion whose transaction found USD to reserve

Holding == [settled : Int, held : Int]

BooksTypeOK ==
    /\ cash \in Balances
    /\ assets \in [Assets -> Holding]

(* ensureAssetLedgerAccounts opens an account the first time it is needed. *)
BooksInit ==
    /\ cash = Opened(InitialCash)
    /\ assets = [a \in Assets |-> [settled |-> InitialAssets[a], held |-> 0]]
    /\ plan \in Plans
    /\ reserving = None

(* GetCustomerProfileForUpdate: one transaction at a time holds the row.   *)
ProfileFree == reserving = None

PostAsset(asset, settled, held) ==
    assets' = [assets EXCEPT ![asset] = [settled |-> @.settled + settled, held |-> @.held + held]]

(* Mutant: what is on hold counts as available. *)
AssetCoversHeld(asset, quantity) == assets[asset].settled + assets[asset].held >= quantity

AssetCovers(asset, quantity) == assets[asset].settled >= quantity
=============================================================================
