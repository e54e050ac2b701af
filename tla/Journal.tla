------------------------------- MODULE Journal ------------------------------
(***************************************************************************)
(* What the ledger promises about its transactions, without callers, locks *)
(* or database transactions: a journal that only grows, in which           *)
(*   - an idempotency key is used by one transaction,                      *)
(*   - a provider event is booked by one transaction,                      *)
(*   - a transaction is reversed by one transaction, after it was posted.  *)
(* A request is a record with fields key, event, payload, change and       *)
(* original; original is NoTx unless the request is a reversal.            *)
(***************************************************************************)
CONSTANTS Tx, NoTx, Request, NoRequest, NoEvent

VARIABLE journal   \* journal[t]: the request that transaction t carried out

Posted(t) == journal[t] # NoRequest

Init == journal = [t \in Tx |-> NoRequest]

Append(t, r) ==
    /\ ~Posted(t)
    /\ \A u \in Tx : Posted(u) => journal[u].key # r.key
    /\ r.event # NoEvent =>
         \A u \in Tx : Posted(u) => journal[u].event # r.event
    /\ r.original # NoTx =>
         /\ r.original \in Tx /\ Posted(r.original)
         /\ \A u \in Tx : Posted(u) => journal[u].original # r.original
    /\ journal' = [journal EXCEPT ![t] = r]

Next == \E t \in Tx, r \in Request : Append(t, r)

Spec == Init /\ [][Next]_journal
=============================================================================
