------------------------------- MODULE Outbox -------------------------------
(***************************************************************************)
(* The transactional outbox: internal/outbox/worker.go and admin.go, with  *)
(* the statements of db/queries/outbox/outbox.sql they execute and the     *)
(* tables of db/migrations/000002_ledger_async_core.up.sql.                *)
(*                                                                         *)
(* A row of outbox.events is written by the business transaction that      *)
(* causes it.  Worker.RunOnce claims a batch in one transaction, and then  *)
(* delivers the events of the batch one by one, each in a transaction of   *)
(* its own that inserts the consumer receipt, runs the handler and marks   *)
(* the row DELIVERED.  A failed delivery is recorded by a third            *)
(* transaction.  Workers crash, leases lapse while their holder is still   *)
(* working, and an operator replays or cancels events meanwhile.           *)
(*                                                                         *)
(* Time is abstracted to two facts about a row: whether its lease has      *)
(* lapsed (claimed_at + lease <= now) and whether it is due (available_at  *)
(* <= now).  Both become true in steps of their own.                       *)
(***************************************************************************)
EXTENDS Naturals, FiniteSets

CONSTANTS
    Event,        \* the rows of outbox.events
    Worker,       \* processes that call RunOnce
    Id,           \* Config.WorkerID values
    IdOf,         \* the WorkerID each process is configured with
    Consumer,     \* TransactionalHandler.ConsumerName values
    ConsumerOf,   \* the consumer each process runs
    MaxAttempts,  \* max_attempts of a row
    BatchSize,    \* Config.BatchSize
    MaxReplays,   \* bound: operator replays of one event
    NoId,         \* claimed_by IS NULL
    NoEvent       \* the worker has no delivery transaction

ASSUME WorkerAssumption ==
    /\ IdOf \in [Worker -> Id]
    /\ ConsumerOf \in [Worker -> Consumer]
    /\ NoId \notin Id
    /\ NoEvent \notin Event

ASSUME BoundAssumption ==
    /\ MaxAttempts \in Nat \ {0}
    /\ BatchSize \in Nat \ {0}
    /\ MaxReplays \in Nat

VARIABLES
    status,     \* outbox.events.status; ABSENT before the row is inserted
    attempts,   \* attempt_count
    claimedBy,  \* claimed_by
    lapsed,     \* the lease of the current claim is over
    due,        \* available_at has come
    replays,    \* audit rows "outbox.event.replayed" per event
    receipts,   \* outbox.consumer_receipts, committed
    effects,    \* committed runs of the handler, per consumer and event
    pc,         \* what the process is doing
    todo,       \* the claimed events it has not finished
    current,    \* the event its delivery transaction is about
    duplicate   \* the receipt of that event already existed

rowVars    == <<status, attempts, claimedBy, lapsed, due>>
effectVars == <<receipts, effects>>
workerVars == <<pc, todo, current, duplicate>>
vars       == <<rowVars, replays, effectVars, workerVars>>

Status == {"ABSENT", "PENDING", "PROCESSING", "DELIVERED", "DEAD_LETTER",
           "CANCELLED"}

TypeOK ==
    /\ status    \in [Event -> Status]
    /\ attempts  \in [Event -> 0..MaxAttempts]
    /\ claimedBy \in [Event -> Id \cup {NoId}]
    /\ lapsed    \in [Event -> BOOLEAN]
    /\ due       \in [Event -> BOOLEAN]
    /\ replays   \in [Event -> 0..MaxReplays]
    /\ receipts  \subseteq Consumer \X Event
    /\ effects   \in [Consumer \X Event -> Nat]
    /\ pc        \in [Worker -> {"ready", "delivering", "failing"}]
    /\ todo      \in [Worker -> SUBSET Event]
    /\ current   \in [Worker -> Event \cup {NoEvent}]
    /\ duplicate \in [Worker -> BOOLEAN]

Init ==
    /\ status    = [e \in Event |-> "ABSENT"]
    /\ attempts  = [e \in Event |-> 0]
    /\ claimedBy = [e \in Event |-> NoId]
    /\ lapsed    = [e \in Event |-> FALSE]
    /\ due       = [e \in Event |-> FALSE]
    /\ replays   = [e \in Event |-> 0]
    /\ receipts  = {}
    /\ effects   = [ce \in Consumer \X Event |-> 0]
    /\ pc        = [w \in Worker |-> "ready"]
    /\ todo      = [w \in Worker |-> {}]
    /\ current   = [w \in Worker |-> NoEvent]
    /\ duplicate = [w \in Worker |-> FALSE]

-----------------------------------------------------------------------------
(* The producer and the clock *)

(* InsertOutboxEvent, committed with the business change it announces. *)
Publish(e) ==
    /\ status[e] = "ABSENT"
    /\ status' = [status EXCEPT ![e] = "PENDING"]
    /\ due'    = [due EXCEPT ![e] = TRUE]
    /\ UNCHANGED <<attempts, claimedBy, lapsed, replays, effectVars, workerVars>>

LeaseLapses(e) ==
    /\ status[e] = "PROCESSING" /\ ~lapsed[e]
    /\ lapsed' = [lapsed EXCEPT ![e] = TRUE]
    /\ UNCHANGED <<status, attempts, claimedBy, due, replays, effectVars, workerVars>>

BackoffEnds(e) ==
    /\ status[e] = "PENDING" /\ ~due[e]
    /\ due' = [due EXCEPT ![e] = TRUE]
    /\ UNCHANGED <<status, attempts, claimedBy, lapsed, replays, effectVars, workerVars>>

-----------------------------------------------------------------------------
(* Worker.claim: dead-letter what ran out of attempts, then take a batch *)

Exhausted == {e \in Event : /\ status[e] = "PROCESSING" /\ lapsed[e]
                            /\ attempts[e] >= MaxAttempts}

(* Mutant: rows are claimed however often they have been tried. *)
ClaimableForEver == {e \in Event : \/ status[e] = "PENDING" /\ due[e]
                                   \/ status[e] = "PROCESSING" /\ lapsed[e]}

(* Mutant: the claim of a worker that died is never taken over. *)
ClaimableIfPending == {e \in Event : /\ attempts[e] < MaxAttempts
                                     /\ status[e] = "PENDING" /\ due[e]}

Claimable == {e \in Event : /\ attempts[e] < MaxAttempts
                            /\ \/ status[e] = "PENDING" /\ due[e]
                               \/ status[e] = "PROCESSING" /\ lapsed[e]}

(* LIMIT batch_size; which rows come first is left open. *)
Batches == {B \in SUBSET Claimable :
              \/ Cardinality(B) = BatchSize
              \/ B = Claimable /\ Cardinality(B) < BatchSize}

Idle(w) == pc[w] = "ready" /\ todo[w] = {}

Claim(w) ==
    /\ Idle(w)
    /\ Exhausted \cup Claimable # {}
    /\ \E B \in Batches :
         /\ status'    = [e \in Event |-> IF e \in Exhausted THEN "DEAD_LETTER"
                                          ELSE IF e \in B THEN "PROCESSING"
                                          ELSE status[e]]
         /\ attempts'  = [e \in Event |-> IF e \in B THEN attempts[e] + 1
                                          ELSE attempts[e]]
         /\ claimedBy' = [e \in Event |-> IF e \in Exhausted THEN NoId
                                          ELSE IF e \in B THEN IdOf[w]
                                          ELSE claimedBy[e]]
         /\ lapsed'    = [e \in Event |-> lapsed[e] /\ e \notin Exhausted \cup B]
         /\ todo'      = [todo EXCEPT ![w] = B]
    /\ UNCHANGED <<due, replays, effectVars, pc, current, duplicate>>

-----------------------------------------------------------------------------
(* Worker.process: one delivery transaction *)

(* An uncommitted receipt: INSERT ... ON CONFLICT DO NOTHING waits for the   *)
(* transaction that inserted the same key.                                   *)
ReceiptLocked(c, e) ==
    \E v \in Worker : /\ pc[v] = "delivering" /\ current[v] = e
                      /\ ConsumerOf[v] = c /\ ~duplicate[v]

BeginDelivery(w, e) ==
    /\ pc[w] = "ready" /\ e \in todo[w]
    /\ ~ReceiptLocked(ConsumerOf[w], e)
    /\ pc'        = [pc EXCEPT ![w] = "delivering"]
    /\ current'   = [current EXCEPT ![w] = e]
    /\ duplicate' = [duplicate EXCEPT ![w] = <<ConsumerOf[w], e>> \in receipts]
    /\ UNCHANGED <<rowVars, replays, effectVars, todo>>

(* Mutant: the statements check the WorkerID and not the status. *)
HoldsByClaim(w, e) == claimedBy[e] = IdOf[w]

(* MarkOutboxDelivered and MarkOutboxFailed touch the row only while it is   *)
(* PROCESSING under this WorkerID.                                           *)
Holds(w, e) == status[e] = "PROCESSING" /\ claimedBy[e] = IdOf[w]

(* Receipt, effect and DELIVERED commit together.  When the commit succeeds  *)
(* but its acknowledgement is lost, process returns an error all the same.   *)
Deliver(w) ==
    /\ pc[w] = "delivering"
    /\ Holds(w, current[w])
    /\ LET e == current[w]  ce == <<ConsumerOf[w], e>> IN
         /\ status'   = [status EXCEPT ![e] = "DELIVERED"]
         /\ receipts' = receipts \cup {ce}
         /\ effects'  = [effects EXCEPT ![ce] = IF duplicate[w] THEN @ ELSE @ + 1]
         /\ \/ /\ pc'      = [pc EXCEPT ![w] = "ready"]
               /\ todo'    = [todo EXCEPT ![w] = @ \ {e}]
               /\ current' = [current EXCEPT ![w] = NoEvent]
            \/ /\ pc' = [pc EXCEPT ![w] = "failing"]
               /\ UNCHANGED <<todo, current>>
    /\ UNCHANGED <<attempts, claimedBy, lapsed, due, replays, duplicate>>

(* The handler fails, the row is no longer this worker's, or the database    *)
(* is unreachable: the transaction is rolled back.                           *)
ProcessError(w) ==
    /\ pc[w] = "delivering"
    /\ pc' = [pc EXCEPT ![w] = "failing"]
    /\ UNCHANGED <<rowVars, replays, effectVars, todo, current, duplicate>>

(* Worker.fail.  Nothing is written when the row is not this worker's        *)
(* (ErrInvalidState) or when this transaction fails too.                     *)
MarkFailed(w, e) ==
    /\ Holds(w, e)
    /\ status'    = [status EXCEPT ![e] = IF attempts[e] >= MaxAttempts
                                          THEN "DEAD_LETTER" ELSE "PENDING"]
    /\ due'       = [due EXCEPT ![e] = IF attempts[e] >= MaxAttempts THEN @ ELSE FALSE]
    /\ claimedBy' = [claimedBy EXCEPT ![e] = NoId]
    /\ lapsed'    = [lapsed EXCEPT ![e] = FALSE]
    /\ UNCHANGED attempts

(* Mutant: RunOnce tries the failed event again in the same batch. *)
FailAndRetryInPlace(w) ==
    /\ pc[w] = "failing"
    /\ MarkFailed(w, current[w]) \/ UNCHANGED rowVars
    /\ pc'      = [pc EXCEPT ![w] = "ready"]
    /\ current' = [current EXCEPT ![w] = NoEvent]
    /\ UNCHANGED <<todo, replays, effectVars, duplicate>>

Fail(w) ==
    /\ pc[w] = "failing"
    /\ MarkFailed(w, current[w]) \/ UNCHANGED rowVars
    /\ pc'      = [pc EXCEPT ![w] = "ready"]
    /\ todo'    = [todo EXCEPT ![w] = @ \ {current[w]}]
    /\ current' = [current EXCEPT ![w] = NoEvent]
    /\ UNCHANGED <<replays, effectVars, duplicate>>

(* The process dies; PostgreSQL rolls its open transaction back, and the     *)
(* claims it had committed stay until their lease lapses.                    *)
Crash(w) ==
    /\ ~Idle(w)
    /\ pc'      = [pc EXCEPT ![w] = "ready"]
    /\ todo'    = [todo EXCEPT ![w] = {}]
    /\ current' = [current EXCEPT ![w] = NoEvent]
    /\ UNCHANGED <<rowVars, replays, effectVars, duplicate>>

-----------------------------------------------------------------------------
(* AdminService *)

Replay(e) ==
    /\ status[e] = "DEAD_LETTER"
    /\ replays[e] < MaxReplays
    /\ status'   = [status EXCEPT ![e] = "PENDING"]
    /\ attempts' = [attempts EXCEPT ![e] = 0]
    /\ due'      = [due EXCEPT ![e] = TRUE]
    /\ replays'  = [replays EXCEPT ![e] = @ + 1]
    /\ claimedBy' = [claimedBy EXCEPT ![e] = NoId]
    /\ lapsed'   = [lapsed EXCEPT ![e] = FALSE]
    /\ UNCHANGED <<effectVars, workerVars>>

(* Mutant: an operator may cancel what was delivered. *)
CancellableLate(e) == status[e] \in {"PENDING", "DEAD_LETTER", "DELIVERED"}

Cancellable(e) == status[e] \in {"PENDING", "DEAD_LETTER"}

Cancel(e) ==
    /\ Cancellable(e)
    /\ status'    = [status EXCEPT ![e] = "CANCELLED"]
    /\ claimedBy' = [claimedBy EXCEPT ![e] = NoId]
    /\ lapsed'    = [lapsed EXCEPT ![e] = FALSE]
    /\ UNCHANGED <<attempts, due, replays, effectVars, workerVars>>

-----------------------------------------------------------------------------
RunOnce(w) ==
    \/ Claim(w)
    \/ \E e \in Event : BeginDelivery(w, e)
    \/ Deliver(w)
    \/ ProcessError(w)
    \/ Fail(w)

Clock(e) == LeaseLapses(e) \/ BackoffEnds(e)
Admin(e) == Replay(e) \/ Cancel(e)

Next ==
    \/ \E e \in Event : Publish(e) \/ Clock(e) \/ Admin(e)
    \/ \E w \in Worker : RunOnce(w) \/ Crash(w)

Spec == Init /\ [][Next]_vars

(* Every process keeps calling RunOnce and RunOnce keeps executing; clocks   *)
(* advance.  Producers, operators and crashes owe nothing.                   *)
FairSpec ==
    /\ Spec
    /\ \A w \in Worker : WF_vars(RunOnce(w))
    /\ \A e \in Event : WF_vars(Clock(e))

-----------------------------------------------------------------------------
(* Properties *)

(* Handler effects and delivery go together: an event that is DELIVERED has  *)
(* had exactly one committed effect, by one consumer, whatever leases        *)
(* lapsed, workers died or commits went unacknowledged on the way; any other *)
(* event has had none, so a dead letter can be replayed and a cancelled      *)
(* event has left no trace (worker.go process and fail; the promise of       *)
(* TransactionalHandler, worker.go:74).                                      *)
DeliveredExactlyOnce ==
    \A e \in Event :
        IF status[e] = "DELIVERED"
        THEN \E c \in Consumer :
                /\ effects[<<c, e>>] = 1
                /\ \A d \in Consumer \ {c} : effects[<<d, e>>] = 0
        ELSE \A c \in Consumer : effects[<<c, e>>] = 0

(* A receipt is committed exactly when its effect is: the handler never runs *)
(* without leaving the receipt that would stop it running again, and no      *)
(* receipt suppresses an effect that never happened (worker.go process).     *)
ReceiptIffEffect ==
    \A ce \in Consumer \X Event : (ce \in receipts) <=> (effects[ce] > 0)

(* Receipt, effect and DELIVERED are one commit. *)
EffectsExactlyOnce == DeliveredExactlyOnce /\ ReceiptIffEffect

(* DELIVERED and CANCELLED are final: no late failure report of a worker     *)
(* that lost its lease, and no operator, reopens such an event (the status   *)
(* guards of MarkOutboxFailed, ReplayDeadLetterEvent, CancelOutboxEvent).    *)
FinalStatesStay ==
    [][\A e \in Event : status[e] \in {"DELIVERED", "CANCELLED"}
                          => status'[e] = status[e]]_vars

(* No event is lost: whatever crashes, an event that was published is in the *)
(* end delivered, dead-lettered for an operator, or cancelled.               *)
EveryEventSettles ==
    \A e \in Event : status[e] \in {"PENDING", "PROCESSING"}
                       ~> status[e] \in {"DELIVERED", "DEAD_LETTER", "CANCELLED"}

(* RunOnce returns: no worker waits for ever on a receipt another worker     *)
(* has inserted and not committed, nor goes round its batch for ever.        *)
RunOnceReturns == \A w \in Worker : ~Idle(w) ~> Idle(w)

(* Where an event stands for somebody who sees no workers. *)
OutcomeOf(st) ==
    CASE st = "ABSENT"      -> "unpublished"
      [] st = "DELIVERED"   -> "delivered"
      [] st = "DEAD_LETTER" -> "parked"
      [] st = "CANCELLED"   -> "cancelled"
      [] OTHER              -> "waiting"

outcomeBar == [e \in Event |-> OutcomeOf(status[e])]
appliedBar == {e \in Event : \E c \in Consumer : <<c, e>> \in receipts}

Promise == INSTANCE Delivery WITH outcome <- outcomeBar, applied <- appliedBar

(* The outbox implements the abstract delivery promise: every step of        *)
(* workers, clocks, producers and operators is a step of Delivery or leaves  *)
(* it unchanged, so the effect of an event is applied at most once over      *)
(* every retry, crash and replay (000002_ledger_async_core.up.sql:378).      *)
DeliverySpec == Promise!Spec
=============================================================================
