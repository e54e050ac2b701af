------------------------------ MODULE MCOutbox ------------------------------
(* Two processes of one consumer, each under a WorkerID of its own.          *)
EXTENDS Outbox, TLC

CONSTANTS e1, e2, w1, w2

IdOfDistinct   == (w1 :> "id1") @@ (w2 :> "id2")
OneConsumer    == (w1 :> "c1") @@ (w2 :> "c1")
=============================================================================
