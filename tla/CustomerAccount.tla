-------------------------- MODULE CustomerAccount ---------------------------
(***************************************************************************)
(* The one USD account (paper-USD) of one customer, shared by the modules  *)
(* that trade, fund and withdraw.                                          *)
(***************************************************************************)
EXTENDS Cash

CONSTANT InitialCash  \* what the account is opened with

ASSUME InitialCashAssumption == InitialCash \in Nat

VARIABLE cash
=============================================================================
