------------------------------ MODULE Delivery ------------------------------
(***************************************************************************)
(* What the outbox promises, without workers, leases or attempts.  A       *)
(* published event waits until its effect is applied, until it is parked   *)
(* for an operator, or until an operator cancels it.  The effect of an     *)
(* event is applied at most once in the whole history of the event,        *)
(* replays included, and exactly when the event becomes delivered: that is *)
(* the promise the comment on outbox.consumer_receipts makes               *)
(* (db/migrations/000002_ledger_async_core.up.sql).                        *)
(***************************************************************************)
CONSTANT Event

VARIABLES outcome,   \* outcome[e]: unpublished, waiting, delivered, parked or cancelled
          applied    \* the events whose effect has been applied

vars == <<outcome, applied>>

Init ==
    /\ outcome = [e \in Event |-> "unpublished"]
    /\ applied = {}

Move(e, from, to) ==
    /\ outcome[e] \in from
    /\ outcome' = [outcome EXCEPT ![e] = to]

Publish(e) == Move(e, {"unpublished"}, "waiting") /\ UNCHANGED applied

Deliver(e) ==
    /\ Move(e, {"waiting"}, "delivered")
    /\ e \notin applied
    /\ applied' = applied \cup {e}

Replay(e) == Move(e, {"parked"}, "waiting") /\ UNCHANGED applied

Cancel(e) == Move(e, {"waiting", "parked"}, "cancelled") /\ UNCHANGED applied

(* Several events can run out of attempts in one claim. *)
Park(S) ==
    /\ \A e \in S : outcome[e] = "waiting"
    /\ outcome' = [e \in Event |-> IF e \in S THEN "parked" ELSE outcome[e]]
    /\ UNCHANGED applied

Next ==
    \/ \E e \in Event : Publish(e) \/ Deliver(e) \/ Replay(e) \/ Cancel(e)
    \/ \E S \in SUBSET Event : Park(S)

Spec == Init /\ [][Next]_vars
=============================================================================
