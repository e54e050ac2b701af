-------------------------------- MODULE Cash --------------------------------
(***************************************************************************)
(* A customer's USD cash account in the ledger, one balance per dimension  *)
(* (internal/ledger/model.go, ledger.account_balances).  Securities,       *)
(* banking, crypto and card all post to this one account, each under a     *)
(* lock of its own: none of them locks the account.                        *)
(* The counter-account of every posting (provider clearing, paper funding) *)
(* mirrors these entries and is left out; Ledger.tla has the double entry. *)
(***************************************************************************)
EXTENDS Integers

Dimension == {"PENDING", "SETTLED", "WITHDRAWABLE", "HELD", "FROZEN",
              "PROVISIONAL"}

Balances == [Dimension -> Int]

(* The account RegisterFixture opens and funds: settled and withdrawable. *)
Opened(amount) ==
    [d \in Dimension |-> IF d \in {"SETTLED", "WITHDRAWABLE"} THEN amount ELSE 0]

(* A posting adds its entries to the balances; entries that are zero or    *)
(* missing leave a dimension alone.                                        *)
Post(balances, entries) ==
    [d \in Dimension |->
        balances[d] + (IF d \in DOMAIN entries THEN entries[d] ELSE 0)]

(* Entries that move settled cash move withdrawable cash with it. *)
SettledEntries(amount) == [SETTLED |-> amount, WITHDRAWABLE |-> amount]

(* What the securities module lets a customer buy with. *)
BuyingPower(balances) == balances["SETTLED"] + balances["PROVISIONAL"]
=============================================================================
