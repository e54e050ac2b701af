---------------------------- MODULE OutboxProofs ----------------------------
(***************************************************************************)
(* For any number of events, processes, WorkerIDs and consumers, any       *)
(* attempt limit and any batch size: the outbox is type correct, delivers  *)
(* exactly once, keeps final states, and implements Delivery.              *)
(*                                                                         *)
(* EffectsExactlyOnce (delivered once, receipts agree) is not inductive: a *)
(* delivery transaction decided earlier, when it inserted its receipt,     *)
(* whether it runs the handler.  IInv adds what that decision still means  *)
(* when the transaction commits (DuplicateSeen).                           *)
(***************************************************************************)
EXTENDS Outbox, TLAPS

(* A process that is past BEGIN is about an event.  It follows from          *)
(* BeginDelivery and from every exit clearing pc and current together.       *)
CurrentIsEvent == \A w \in Worker : pc[w] # "ready" => current[w] \in Event

(* A transaction that skipped its handler did so because of a receipt that   *)
(* is still there: receipts are immutable.                                   *)
DuplicateSeen ==
    \A w \in Worker : pc[w] = "delivering" /\ duplicate[w]
                        => <<ConsumerOf[w], current[w]>> \in receipts

IInv ==
    /\ TypeOK
    /\ CurrentIsEvent
    /\ DuplicateSeen
    /\ ReceiptIffEffect
    /\ DeliveredExactlyOnce

-----------------------------------------------------------------------------
(* The invariant holds when no event has been published. *)
LEMMA InitIInv == Init => IInv
<1>. SUFFICES ASSUME Init  PROVE IInv
  OBVIOUS
<1>1. TypeOK
  BY BoundAssumption DEF Init, TypeOK, Status
<1>2. CurrentIsEvent /\ DuplicateSeen
  BY DEF Init, CurrentIsEvent, DuplicateSeen
<1>3. \A ce \in Consumer \X Event : effects[ce] = 0
  BY DEF Init
<1>4. ReceiptIffEffect
  BY <1>3 DEF Init, ReceiptIffEffect
<1>5. DeliveredExactlyOnce
  BY <1>3 DEF Init, DeliveredExactlyOnce
<1>. QED  BY <1>1, <1>2, <1>4, <1>5 DEF IInv

(* Publishing, clocks and operators change neither receipts nor effects nor  *)
(* workers, and neither enter nor leave DELIVERED.                           *)
LEMMA RowStepIInv ==
  ASSUME IInv, NEW e \in Event, Publish(e) \/ Clock(e) \/ Admin(e)
  PROVE  IInv'
<1>1. TypeOK'
  <2>1. CASE Publish(e)
    BY <2>1 DEF IInv, TypeOK, Publish, Status, effectVars, workerVars
  <2>2. CASE Clock(e)
    BY <2>2 DEF IInv, TypeOK, Clock, LeaseLapses, BackoffEnds, Status,
                effectVars, workerVars
  <2>3. CASE Replay(e)
    BY <2>3, BoundAssumption
    DEF IInv, TypeOK, Replay, Status, effectVars, workerVars
  <2>4. CASE Cancel(e)
    BY <2>4 DEF IInv, TypeOK, Cancel, Status, effectVars, workerVars
  <2>. QED  BY <2>1, <2>2, <2>3, <2>4 DEF Admin
<1>2. UNCHANGED <<receipts, effects, pc, todo, current, duplicate>>
  BY DEF Publish, Clock, LeaseLapses, BackoffEnds, Admin, Replay, Cancel,
         effectVars, workerVars
<1>3. \A f \in Event : (status'[f] = "DELIVERED") <=> (status[f] = "DELIVERED")
  BY DEF IInv, TypeOK, Publish, Clock, LeaseLapses, BackoffEnds, Admin, Replay,
         Cancel, Cancellable
<1>. QED
  BY <1>1, <1>2, <1>3 DEF IInv, CurrentIsEvent, DuplicateSeen,
         ReceiptIffEffect, DeliveredExactlyOnce

(* A claim moves rows between PENDING, PROCESSING and DEAD_LETTER only. *)
LEMMA ClaimIInv ==
  ASSUME IInv, NEW w \in Worker, Claim(w)
  PROVE  IInv'
<1>1. PICK B \in Batches :
         /\ status'    = [e \in Event |-> IF e \in Exhausted THEN "DEAD_LETTER"
                                          ELSE IF e \in B THEN "PROCESSING"
                                          ELSE status[e]]
         /\ attempts'  = [e \in Event |-> IF e \in B THEN attempts[e] + 1
                                          ELSE attempts[e]]
         /\ claimedBy' = [e \in Event |-> IF e \in Exhausted THEN NoId
                                          ELSE IF e \in B THEN IdOf[w]
                                          ELSE claimedBy[e]]
         /\ lapsed'    = [e \in Event |-> lapsed[e] /\ e \notin Exhausted \cup B]
         /\ todo'      = [todo EXCEPT ![w] = B]
  BY DEF Claim
<1>2. UNCHANGED <<due, replays, receipts, effects, pc, current, duplicate>>
  BY DEF Claim, effectVars
<1>3. B \subseteq Event /\ \A e \in B : attempts[e] < MaxAttempts
  BY DEF Batches, Claimable
<1>4. TypeOK'
  <2>1. status' \in [Event -> Status] /\ lapsed' \in [Event -> BOOLEAN]
    BY <1>1 DEF IInv, TypeOK, Status
  <2>2. attempts' \in [Event -> 0..MaxAttempts]
    BY <1>1, <1>3, BoundAssumption DEF IInv, TypeOK
  <2>3. claimedBy' \in [Event -> Id \cup {NoId}]
    BY <1>1, WorkerAssumption DEF IInv, TypeOK
  <2>4. todo' \in [Worker -> SUBSET Event]
    BY <1>1, <1>3 DEF IInv, TypeOK
  <2>. QED  BY <1>2, <2>1, <2>2, <2>3, <2>4 DEF IInv, TypeOK
<1>5. \A e \in Event : (status'[e] = "DELIVERED") <=> (status[e] = "DELIVERED")
  BY <1>1 DEF Batches, Claimable, Exhausted
<1>. QED
  BY <1>2, <1>4, <1>5 DEF IInv, CurrentIsEvent, DuplicateSeen,
         ReceiptIffEffect, DeliveredExactlyOnce

(* A delivery that commits has run its handler: were its receipt a           *)
(* duplicate, the event would have had its effect and could not be           *)
(* PROCESSING.  Receipts and status guards meet here.                        *)
LEMMA DeliveryRunsHandler ==
  ASSUME IInv, NEW w \in Worker, Deliver(w)
  PROVE  /\ current[w] \in Event
         /\ ~duplicate[w]
         /\ \A c \in Consumer : /\ effects[<<c, current[w]>>] = 0
                                /\ <<c, current[w]>> \notin receipts
<1>1. current[w] \in Event /\ status[current[w]] = "PROCESSING"
  BY DEF IInv, CurrentIsEvent, Deliver, Holds
<1>2. \A c \in Consumer : effects[<<c, current[w]>>] = 0
  BY <1>1 DEF IInv, DeliveredExactlyOnce
<1>3. \A c \in Consumer : <<c, current[w]>> \notin receipts
  <2>. SUFFICES ASSUME NEW c \in Consumer  PROVE <<c, current[w]>> \notin receipts
    OBVIOUS
  <2>1. <<c, current[w]>> \in Consumer \X Event /\ ~(effects[<<c, current[w]>>] > 0)
    BY <1>1, <1>2
  <2>. QED  BY <2>1 DEF IInv, ReceiptIffEffect
<1>4. ConsumerOf[w] \in Consumer
  BY WorkerAssumption
<1>5. ~duplicate[w]
  BY <1>3, <1>4 DEF IInv, DuplicateSeen, Deliver
<1>. QED  BY <1>1, <1>2, <1>3, <1>5

(* A commit adds the one effect and the one receipt of an event that had     *)
(* none, and makes it DELIVERED.                                             *)
LEMMA DeliverIInv ==
  ASSUME IInv, NEW w \in Worker, Deliver(w)
  PROVE  IInv'
<1>. DEFINE e  == current[w]
            ce == <<ConsumerOf[w], e>>
<1>1. e \in Event /\ ConsumerOf[w] \in Consumer /\ ce \in Consumer \X Event
  BY DeliveryRunsHandler, WorkerAssumption
<1>2. \A c \in Consumer : effects[<<c, e>>] = 0 /\ <<c, e>> \notin receipts
  BY DeliveryRunsHandler
<1>3. /\ status'   = [status EXCEPT ![e] = "DELIVERED"]
      /\ receipts' = receipts \cup {ce}
      /\ effects'  = [effects EXCEPT ![ce] = @ + 1]
      /\ UNCHANGED <<attempts, claimedBy, lapsed, due, replays, duplicate>>
  BY DeliveryRunsHandler DEF Deliver
<1>4. \/ /\ pc'      = [pc EXCEPT ![w] = "ready"]
         /\ todo'    = [todo EXCEPT ![w] = @ \ {e}]
         /\ current' = [current EXCEPT ![w] = NoEvent]
      \/ /\ pc' = [pc EXCEPT ![w] = "failing"]
         /\ UNCHANGED <<todo, current>>
  BY DEF Deliver
<1>5. TypeOK'
  <2>1. effects' \in [Consumer \X Event -> Nat]
    BY <1>1, <1>3 DEF IInv, TypeOK
  <2>2. /\ pc' \in [Worker -> {"ready", "delivering", "failing"}]
        /\ todo' \in [Worker -> SUBSET Event]
        /\ current' \in [Worker -> Event \cup {NoEvent}]
    BY <1>4 DEF IInv, TypeOK
  <2>3. status' \in [Event -> Status] /\ receipts' \subseteq Consumer \X Event
    BY <1>1, <1>3 DEF IInv, TypeOK, Status
  <2>. QED  BY <1>3, <2>1, <2>2, <2>3 DEF IInv, TypeOK
<1>6. CurrentIsEvent'
  BY <1>1, <1>4 DEF IInv, TypeOK, CurrentIsEvent
<1>7. DuplicateSeen'
  BY <1>3, <1>4 DEF IInv, TypeOK, DuplicateSeen
<1>8. effects'[ce] = 1
  <2>1. effects[ce] = 0
    BY <1>1, <1>2
  <2>2. effects'[ce] = effects[ce] + 1
    BY <1>1, <1>3 DEF IInv, TypeOK
  <2>. QED  BY <2>1, <2>2
<1>9. \A x \in Consumer \X Event : x # ce => effects'[x] = effects[x]
  BY <1>3 DEF IInv, TypeOK
<1>10. ReceiptIffEffect'
  BY <1>1, <1>3, <1>8, <1>9 DEF IInv, ReceiptIffEffect
<1>11. DeliveredExactlyOnce'
  <2>. SUFFICES ASSUME NEW f \in Event
                PROVE  IF status'[f] = "DELIVERED"
                       THEN \E c \in Consumer :
                               /\ effects'[<<c, f>>] = 1
                               /\ \A d \in Consumer \ {c} : effects'[<<d, f>>] = 0
                       ELSE \A c \in Consumer : effects'[<<c, f>>] = 0
    BY DEF DeliveredExactlyOnce
  <2>1. CASE f = e
    <3>1. status'[f] = "DELIVERED"
      BY <1>1, <1>3, <2>1 DEF IInv, TypeOK
    <3>2. effects'[<<ConsumerOf[w], f>>] = 1
      BY <1>8, <2>1
    <3>3. \A d \in Consumer \ {ConsumerOf[w]} : effects'[<<d, f>>] = 0
      BY <1>2, <1>9, <2>1
    <3>. QED  BY <1>1, <3>1, <3>2, <3>3
  <2>2. CASE f # e
    <3>1. status'[f] = status[f]
      BY <1>3, <2>2 DEF IInv, TypeOK
    <3>2. \A c \in Consumer : effects'[<<c, f>>] = effects[<<c, f>>]
      BY <1>9, <2>2
    <3>. QED  BY <3>1, <3>2 DEF IInv, DeliveredExactlyOnce
  <2>. QED  BY <2>1, <2>2
<1>. QED  BY <1>5, <1>6, <1>7, <1>10, <1>11 DEF IInv

(* The other steps of a worker write no receipt and no effect. *)
LEMMA WorkerStepIInv ==
  ASSUME IInv, NEW w \in Worker,
         \/ \E e \in Event : BeginDelivery(w, e)
         \/ ProcessError(w) \/ Fail(w) \/ Crash(w)
  PROVE  IInv'
<1>1. CASE \E e \in Event : BeginDelivery(w, e)
  <2>1. PICK e \in Event : BeginDelivery(w, e)
    BY <1>1
  <2>2. TypeOK'
    BY <2>1 DEF IInv, TypeOK, BeginDelivery, rowVars, effectVars
  <2>3. CurrentIsEvent' /\ DuplicateSeen'
    BY <2>1 DEF IInv, TypeOK, CurrentIsEvent, DuplicateSeen, BeginDelivery,
                effectVars
  <2>4. ReceiptIffEffect' /\ DeliveredExactlyOnce'
    BY <2>1 DEF IInv, ReceiptIffEffect, DeliveredExactlyOnce, BeginDelivery,
                rowVars, effectVars
  <2>. QED  BY <2>2, <2>3, <2>4 DEF IInv
<1>2. CASE ProcessError(w)
  BY <1>2 DEF IInv, TypeOK, CurrentIsEvent, DuplicateSeen, ReceiptIffEffect,
              DeliveredExactlyOnce, ProcessError, rowVars, effectVars
<1>3. CASE Fail(w)
  <2>1. current[w] \in Event
    BY <1>3 DEF IInv, CurrentIsEvent, Fail
  <2>2. TypeOK'
    <3>1. CASE MarkFailed(w, current[w])
      BY <1>3, <2>1, <3>1, WorkerAssumption
      DEF IInv, TypeOK, Status, Fail, MarkFailed, effectVars
    <3>2. CASE UNCHANGED rowVars
      BY <1>3, <3>2 DEF IInv, TypeOK, Fail, rowVars, effectVars
    <3>. QED  BY <1>3, <3>1, <3>2 DEF Fail
  <2>3. CurrentIsEvent' /\ DuplicateSeen'
    BY <1>3 DEF IInv, TypeOK, CurrentIsEvent, DuplicateSeen, Fail, effectVars
  <2>4. \A f \in Event : (status'[f] = "DELIVERED") <=> (status[f] = "DELIVERED")
    BY <1>3, <2>1 DEF IInv, TypeOK, Fail, MarkFailed, Holds, rowVars
  <2>5. ReceiptIffEffect' /\ DeliveredExactlyOnce'
    BY <1>3, <2>4 DEF IInv, ReceiptIffEffect, DeliveredExactlyOnce, Fail,
                      effectVars
  <2>. QED  BY <2>2, <2>3, <2>5 DEF IInv
<1>4. CASE Crash(w)
  BY <1>4 DEF IInv, TypeOK, CurrentIsEvent, DuplicateSeen, ReceiptIffEffect,
              DeliveredExactlyOnce, Crash, rowVars, effectVars
<1>. QED  BY <1>1, <1>2, <1>3, <1>4

(* Every step preserves the invariant. *)
LEMMA NextIInv == IInv /\ [Next]_vars => IInv'
<1>. SUFFICES ASSUME IInv, [Next]_vars  PROVE IInv'
  OBVIOUS
<1>1. CASE UNCHANGED vars
  BY <1>1 DEF IInv, TypeOK, CurrentIsEvent, DuplicateSeen, ReceiptIffEffect,
              DeliveredExactlyOnce, vars, rowVars, effectVars, workerVars
<1>2. CASE \E e \in Event : Publish(e) \/ Clock(e) \/ Admin(e)
  BY <1>2, RowStepIInv
<1>3. CASE \E w \in Worker : RunOnce(w) \/ Crash(w)
  BY <1>3, ClaimIInv, DeliverIInv, WorkerStepIInv DEF RunOnce
<1>. QED  BY <1>1, <1>2, <1>3 DEF Next

(* IInv holds in every reachable state. *)
LEMMA Invariant == Spec => []IInv
<1>. QED  BY InitIInv, NextIInv, PTL DEF Spec

-----------------------------------------------------------------------------
(* Every variable keeps its type: attempt_count stays within max_attempts,   *)
(* which the table's check constraint would otherwise have to enforce.       *)
THEOREM TypeCorrect == Spec => []TypeOK
<1>1. IInv => TypeOK
  BY DEF IInv
<1>. QED  BY Invariant, <1>1, PTL

(* An event is DELIVERED exactly when one consumer effect of it has been     *)
(* committed, whatever workers crashed or lost their leases.                 *)
THEOREM ExactlyOnce == Spec => []EffectsExactlyOnce
<1>1. IInv => EffectsExactlyOnce
  BY DEF IInv, EffectsExactlyOnce
<1>. QED  BY Invariant, <1>1, PTL

(* Delivered and cancelled events are never reopened. *)
THEOREM FinalStates == Spec => FinalStatesStay
<1>. DEFINE Final(e) == status[e] \in {"DELIVERED", "CANCELLED"}
<1>1. IInv /\ [Next]_vars
        => [\A e \in Event : Final(e) => status'[e] = status[e]]_vars
  <2>. SUFFICES ASSUME IInv, Next, NEW e \in Event, Final(e)
                PROVE  status'[e] = status[e]
    OBVIOUS
  <2>1. ASSUME NEW f \in Event, Publish(f) \/ Clock(f) \/ Admin(f)
        PROVE  status'[e] = status[e]
    BY <2>1 DEF IInv, TypeOK, Publish, Clock, LeaseLapses, BackoffEnds, Admin,
                Replay, Cancel, Cancellable
  <2>2. ASSUME NEW w \in Worker, RunOnce(w) \/ Crash(w)
        PROVE  status'[e] = status[e]
    <3>1. CASE Claim(w)
      BY <3>1 DEF Claim, Batches, Claimable, Exhausted
    <3>2. CASE \E f \in Event : BeginDelivery(w, f)
      BY <3>2 DEF BeginDelivery, rowVars
    <3>3. CASE Deliver(w)
      BY <3>3 DEF IInv, TypeOK, Deliver, Holds
    <3>4. CASE ProcessError(w) \/ Crash(w)
      BY <3>4 DEF ProcessError, Crash, rowVars
    <3>5. CASE Fail(w)
      BY <3>5 DEF IInv, TypeOK, Fail, MarkFailed, Holds, rowVars
    <3>. QED  BY <2>2, <3>1, <3>2, <3>3, <3>4, <3>5 DEF RunOnce
  <2>. QED  BY <2>1, <2>2 DEF Next
<1>. QED  BY Invariant, <1>1, PTL DEF Spec, FinalStatesStay

-----------------------------------------------------------------------------
AppliedAreDelivered == appliedBar = {e \in Event : status[e] = "DELIVERED"}

(* Under the invariant, the events whose effect is applied are the           *)
(* delivered ones.                                                           *)
LEMMA AppliedIsDelivered == IInv => AppliedAreDelivered
<1>. SUFFICES ASSUME IInv  PROVE AppliedAreDelivered
  OBVIOUS
<1>1. ASSUME NEW e \in Event
      PROVE  (\E c \in Consumer : <<c, e>> \in receipts) <=> status[e] = "DELIVERED"
  <2>1. ASSUME NEW c \in Consumer
        PROVE  (<<c, e>> \in receipts) <=> (effects[<<c, e>>] > 0)
    <3>1. <<c, e>> \in Consumer \X Event
      OBVIOUS
    <3>. QED  BY <3>1 DEF IInv, ReceiptIffEffect
  <2>2. CASE status[e] = "DELIVERED"
    <3>1. PICK c \in Consumer : effects[<<c, e>>] = 1
      BY <2>2 DEF IInv, DeliveredExactlyOnce
    <3>2. <<c, e>> \in receipts
      BY <2>1, <3>1
    <3>. QED  BY <2>2, <3>2
  <2>3. CASE status[e] # "DELIVERED"
    <3>1. \A c \in Consumer : ~(effects[<<c, e>>] > 0)
      BY <2>3 DEF IInv, DeliveredExactlyOnce
    <3>. QED  BY <2>1, <2>3, <3>1
  <2>. QED  BY <2>2, <2>3
<1>. QED  BY <1>1 DEF AppliedAreDelivered, appliedBar

(* Initially nothing is published or applied. *)
LEMMA InitPromise == Init => Promise!Init
<1>. SUFFICES ASSUME Init  PROVE Promise!Init
  OBVIOUS
<1>1. outcomeBar = [e \in Event |-> "unpublished"]
  BY DEF Init, outcomeBar, OutcomeOf
<1>2. appliedBar = {}
  BY DEF Init, appliedBar
<1>. QED  BY <1>1, <1>2 DEF Promise!Init

(* How the rows' statuses may change in one step: one row along an arrow of  *)
(* Delivery, or a set of claimed rows to DEAD_LETTER.                        *)
StatusStep ==
    \/ \A f \in Event : outcomeBar'[f] = outcomeBar[f]
    \/ \E e \in Event :
         /\ \A f \in Event \ {e} : outcomeBar'[f] = outcomeBar[f]
         /\ \/ outcomeBar[e] = "unpublished" /\ outcomeBar'[e] = "waiting"
            \/ outcomeBar[e] = "waiting" /\ outcomeBar'[e] = "delivered"
            \/ outcomeBar[e] = "parked" /\ outcomeBar'[e] = "waiting"
            \/ /\ outcomeBar[e] \in {"waiting", "parked"}
               /\ outcomeBar'[e] = "cancelled"
    \/ \E S \in SUBSET Event : \A f \in Event :
         IF f \in S THEN outcomeBar[f] = "waiting" /\ outcomeBar'[f] = "parked"
                    ELSE outcomeBar'[f] = outcomeBar[f]

(* Each action of the outbox takes such a step. *)
LEMMA NextStatusStep == IInv /\ [Next]_vars => StatusStep
<1>. SUFFICES ASSUME IInv, [Next]_vars  PROVE StatusStep
  OBVIOUS
<1>0. /\ \A f \in Event : outcomeBar[f] = OutcomeOf(status[f])
      /\ \A f \in Event : outcomeBar'[f] = OutcomeOf(status'[f])
      /\ status \in [Event -> Status]
  BY DEF outcomeBar, IInv, TypeOK
<1>1. CASE UNCHANGED status
  BY <1>0, <1>1 DEF StatusStep
<1>2. ASSUME NEW e \in Event, Publish(e) \/ Clock(e) \/ Admin(e)
      PROVE  StatusStep
  <2>1. CASE Clock(e)
    BY <1>1, <2>1 DEF Clock, LeaseLapses, BackoffEnds
  <2>2. CASE Publish(e) \/ Admin(e)
    BY <1>0, <2>2 DEF Publish, Admin, Replay, Cancel, Cancellable, OutcomeOf,
                      StatusStep
  <2>. QED  BY <1>2, <2>1, <2>2
<1>3. ASSUME NEW w \in Worker, Claim(w)
      PROVE  StatusStep
  <2>1. Exhausted \in SUBSET Event
    BY DEF Exhausted
  <2>2. \A f \in Exhausted : outcomeBar[f] = "waiting" /\ outcomeBar'[f] = "parked"
    BY <1>0, <1>3 DEF Claim, Exhausted, OutcomeOf
  <2>3. \A f \in Event \ Exhausted : outcomeBar'[f] = outcomeBar[f]
    BY <1>0, <1>3 DEF Claim, Batches, Claimable, OutcomeOf
  <2>. QED  BY <2>1, <2>2, <2>3 DEF StatusStep
<1>4. ASSUME NEW w \in Worker, Deliver(w)
      PROVE  StatusStep
  BY <1>0, <1>4 DEF IInv, CurrentIsEvent, Deliver, Holds, OutcomeOf, StatusStep
<1>5. ASSUME NEW w \in Worker, Fail(w)
      PROVE  StatusStep
  <2>1. CASE UNCHANGED rowVars
    BY <1>1, <2>1 DEF rowVars
  <2>2. CASE MarkFailed(w, current[w])
    <3>1. current[w] \in Event
      BY <1>5 DEF IInv, CurrentIsEvent, Fail
    <3>2. CASE attempts[current[w]] >= MaxAttempts
      <4>1. /\ outcomeBar[current[w]] = "waiting"
            /\ outcomeBar'[current[w]] = "parked"
        BY <1>0, <2>2, <3>1, <3>2 DEF MarkFailed, Holds, OutcomeOf
      <4>2. \A f \in Event \ {current[w]} : outcomeBar'[f] = outcomeBar[f]
        BY <1>0, <2>2, <3>1 DEF MarkFailed
      <4>. QED  BY <3>1, <4>1, <4>2 DEF StatusStep
    <3>3. CASE ~(attempts[current[w]] >= MaxAttempts)
      BY <1>0, <2>2, <3>1, <3>3 DEF MarkFailed, Holds, OutcomeOf, StatusStep
    <3>. QED  BY <3>2, <3>3
  <2>. QED  BY <1>5, <2>1, <2>2 DEF Fail
<1>6. ASSUME NEW w \in Worker,
             \/ \E e \in Event : BeginDelivery(w, e)
             \/ ProcessError(w) \/ Crash(w)
      PROVE  StatusStep
  BY <1>1, <1>6 DEF BeginDelivery, ProcessError, Crash, rowVars
<1>. QED
  BY <1>1, <1>2, <1>3, <1>4, <1>5, <1>6 DEF Next, RunOnce, vars, rowVars

(* Between two states of the invariant, a step of that shape is a step of    *)
(* Delivery: the effect is applied just when the event becomes delivered.    *)
LEMMA StepPromise ==
  IInv /\ IInv' /\ StatusStep => [Promise!Next]_(Promise!vars)
<1>1. IInv' => AppliedAreDelivered'
  BY AppliedIsDelivered, PTL
<1>. SUFFICES ASSUME IInv, IInv', StatusStep  PROVE [Promise!Next]_(Promise!vars)
  OBVIOUS
<1>2. /\ outcomeBar = [f \in Event |-> outcomeBar[f]]
      /\ outcomeBar' = [f \in Event |-> outcomeBar'[f]]
  BY DEF outcomeBar
<1>3. /\ \A f \in Event : f \in appliedBar <=> outcomeBar[f] = "delivered"
      /\ \A f \in Event : f \in appliedBar' <=> outcomeBar'[f] = "delivered"
      /\ appliedBar \subseteq Event /\ appliedBar' \subseteq Event
  BY <1>1, AppliedIsDelivered
  DEF AppliedAreDelivered, outcomeBar, OutcomeOf, IInv, TypeOK, Status
<1>4. CASE \A f \in Event : outcomeBar'[f] = outcomeBar[f]
  BY <1>2, <1>3, <1>4 DEF Promise!vars
<1>5. ASSUME NEW e \in Event, \A f \in Event \ {e} : outcomeBar'[f] = outcomeBar[f]
      PROVE  outcomeBar' = [outcomeBar EXCEPT ![e] = outcomeBar'[e]]
  BY <1>2, <1>5
<1>6. CASE \E e \in Event :
             /\ \A f \in Event \ {e} : outcomeBar'[f] = outcomeBar[f]
             /\ \/ outcomeBar[e] = "unpublished" /\ outcomeBar'[e] = "waiting"
                \/ outcomeBar[e] = "waiting" /\ outcomeBar'[e] = "delivered"
                \/ outcomeBar[e] = "parked" /\ outcomeBar'[e] = "waiting"
                \/ /\ outcomeBar[e] \in {"waiting", "parked"}
                   /\ outcomeBar'[e] = "cancelled"
  <2>1. PICK e \in Event :
             /\ \A f \in Event \ {e} : outcomeBar'[f] = outcomeBar[f]
             /\ \/ outcomeBar[e] = "unpublished" /\ outcomeBar'[e] = "waiting"
                \/ outcomeBar[e] = "waiting" /\ outcomeBar'[e] = "delivered"
                \/ outcomeBar[e] = "parked" /\ outcomeBar'[e] = "waiting"
                \/ /\ outcomeBar[e] \in {"waiting", "parked"}
                   /\ outcomeBar'[e] = "cancelled"
    BY <1>6
  <2>2. outcomeBar' = [outcomeBar EXCEPT ![e] = outcomeBar'[e]]
    BY <1>5, <2>1
  <2>3. CASE outcomeBar[e] = "waiting" /\ outcomeBar'[e] = "delivered"
    <3>1. appliedBar' = appliedBar \cup {e} /\ e \notin appliedBar
      BY <1>3, <2>1, <2>3
    <3>. QED  BY <2>2, <2>3, <3>1 DEF Promise!Next, Promise!Deliver, Promise!Move
  <2>4. CASE ~(outcomeBar[e] = "waiting" /\ outcomeBar'[e] = "delivered")
    <3>1. appliedBar' = appliedBar
      BY <1>3, <2>1, <2>4
    <3>. QED
      BY <2>1, <2>2, <2>4, <3>1
      DEF Promise!Next, Promise!Publish, Promise!Replay, Promise!Cancel, Promise!Move
  <2>. QED  BY <2>3, <2>4
<1>7. CASE \E S \in SUBSET Event : \A f \in Event :
             IF f \in S THEN outcomeBar[f] = "waiting" /\ outcomeBar'[f] = "parked"
                        ELSE outcomeBar'[f] = outcomeBar[f]
  <2>1. PICK S \in SUBSET Event : \A f \in Event :
             IF f \in S THEN outcomeBar[f] = "waiting" /\ outcomeBar'[f] = "parked"
                        ELSE outcomeBar'[f] = outcomeBar[f]
    BY <1>7
  <2>2. outcomeBar' = [f \in Event |-> IF f \in S THEN "parked" ELSE outcomeBar[f]]
    BY <1>2, <2>1
  <2>3. appliedBar' = appliedBar
    BY <1>3, <2>1
  <2>. QED  BY <2>1, <2>2, <2>3 DEF Promise!Next, Promise!Park
<1>. QED  BY <1>4, <1>6, <1>7 DEF StatusStep

(* The outbox implements Delivery: for any set of workers and consumers, the *)
(* effect of an event is applied at most once, exactly when it is delivered. *)
THEOREM Refinement == Spec => DeliverySpec
<1>1. IInv /\ IInv' /\ [Next]_vars => [Promise!Next]_(Promise!vars)
  BY NextStatusStep, StepPromise
<1>. QED  BY Invariant, InitPromise, <1>1, PTL DEF Spec, DeliverySpec, Promise!Spec
=============================================================================
