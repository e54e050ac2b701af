------------------------------ MODULE RwaProofs -----------------------------
(***************************************************************************)
(* What is proved of internal/rwa: of the saga in which a lot becomes a    *)
(* token and a token a lot again (RwaSaga), and of what customers and      *)
(* administrators do around it (RwaAdmin).  The two parts do not use each  *)
(* other.                                                                  *)
(*                                                                         *)
(* The saga, for any lots, workers and administrators, any number of       *)
(* attempts: types are kept, a completed redemption is a burnt one, and    *)
(* the customer holds no more than was minted for him.  A token loses its  *)
(* lot, and a final state is overwritten, in one way only: recovery asked  *)
(* about a mint while a transaction of it was outstanding.                 *)
(*                                                                         *)
(* The argument for backing: a lot is released because its burn was        *)
(* executed or because its mint was found not executed.  The second reason *)
(* is only good if the mint can never be executed later, which is Dead: it *)
(* has not been executed, no transaction of it is in the mempool and no    *)
(* process is about to submit one.  Dead is stable for a mint that has     *)
(* started, since only its request submits it.  So what recovery heard of  *)
(* a mint either is true for ever or was heard early (Refuted).            *)
(*                                                                         *)
(* The argument for holdings: the holding and the completed redemptions    *)
(* together are at most the lots whose mint was credited (CreditInv), and  *)
(* no lot's mint is credited twice.                                        *)
(*                                                                         *)
(* The administration, for any assets, addresses, customers, lots, callers *)
(* and plans: the types are kept, what the contracts permit was earned,    *)
(* tokens are where that allows them, and a customer's cash has grown by   *)
(* the dividends paid and by nothing else.                                 *)
(*                                                                         *)
(* An activation tells the contracts before it locks the row, so the state *)
(* it read must still warrant what it does later: ActivationsSound says    *)
(* that an address once found cooling off stays proven, cleared and cooled *)
(* whatever the other calls do, and that what was granted is permitted.    *)
(***************************************************************************)
EXTENDS RwaSaga, RwaAdmin, MoneyTheorems, SequenceTheorems


Dead(o) == ~executed[o] /\ Inert(o)

(* Every process is about an operation that was started; a process that      *)
(* waits for a receipt is polling; receipts and confirmations are truthful.  *)
ProcessInv ==
    /\ \A o \in Op : target[o] = o
    /\ \A p \in Process : tx[p] # "none" => pc[p] = "poll"
    /\ \A p \in Process : pc[p] \notin {"idle", "next"}
                            => target[p] \in Op /\ saga[target[p]] # "NONE"
    /\ \A p \in Process : pc[p] = "confirm" \/ tx[p] = "mined" => executed[target[p]]
    /\ \A p \in Process : pc[p] = "failmint" => target[p][1] = "MINT"
    /\ \A w \in Worker : \A o \in todo[w] : saga[o] # "NONE"

(* Rows and the chain: an operation that was not started left no trace, and  *)
(* what is recorded as done was done.                                        *)
RecordInv ==
    /\ \A o \in Op : saga[o] = "NONE" => Dead(o) /\ opStatus[o] = "NONE"
    /\ \A l \in Lot : saga[MintOp(l)] = "NONE"
                        => lock[l] = "NONE" /\ saga[BurnOp(l)] = "NONE"
    /\ \A l \in Lot : lock[l] = "NONE" => saga[MintOp(l)] = "NONE"
    /\ \A l \in Lot : saga[MintOp(l)] = "MINTED" => executed[MintOp(l)]
    /\ \A l \in Lot : /\ saga[MintOp(l)] # "COMPLETED"
                      /\ saga[BurnOp(l)] \notin {"MINTED", "FAILED_RECOVERED"}
    /\ CompletedIsBurnt

Base == TypeOK /\ ProcessInv /\ RecordInv

(* What the answer "not executed" is worth. *)
Refuted(o) == Dead(o) \/ o \in early

(* A mint that failed, or is about to be failed, is dead or was asked about  *)
(* too early, and a lot is released for one of the two reasons.              *)
DeadInv ==
    /\ \A p \in Process : pc[p] = "failmint" => Refuted(target[p])
    /\ \A l \in Lot : saga[MintOp(l)] = "FAILED_RECOVERED" => Refuted(MintOp(l))
    /\ \A l \in Lot : lock[l] = "RELEASED" => \/ saga[MintOp(l)] = "FAILED_RECOVERED"
                                              \/ saga[BurnOp(l)] = "COMPLETED"

-----------------------------------------------------------------------------
(* Mints and burns are operations that name their lot. *)
LEMMA OpFacts ==
  /\ \A l \in Lot : /\ MintOp(l) \in Op /\ BurnOp(l) \in Op
                    /\ MintOp(l)[1] = "MINT" /\ MintOp(l)[2] = l
                    /\ BurnOp(l)[1] = "BURN" /\ BurnOp(l)[2] = l
  /\ \A l, k \in Lot : /\ MintOp(l) # BurnOp(k)
                       /\ MintOp(l) = MintOp(k) => l = k
                       /\ BurnOp(l) = BurnOp(k) => l = k
  /\ \A o \in Op : o[2] \in Lot
  /\ Op \subseteq Process /\ Worker \subseteq Process /\ Admin \subseteq Process
<1>1. /\ \A l \in Lot : MintOp(l) \in Op /\ BurnOp(l) \in Op
      /\ \A o \in Op : o[2] \in Lot
      /\ Op \subseteq Process /\ Worker \subseteq Process /\ Admin \subseteq Process
  BY DEF Op, MintOp, BurnOp, Process
<1>2. \A l \in Lot : /\ MintOp(l)[1] = "MINT" /\ MintOp(l)[2] = l
                     /\ BurnOp(l)[1] = "BURN" /\ BurnOp(l)[2] = l
  BY DEF MintOp, BurnOp
<1>3. \A l, k \in Lot : /\ MintOp(l) # BurnOp(k)
                        /\ MintOp(l) = MintOp(k) => l = k
                        /\ BurnOp(l) = BurnOp(k) => l = k
  BY DEF MintOp, BurnOp
<1>4. \A l \in Lot : /\ MintOp(l) \in Op /\ BurnOp(l) \in Op
                     /\ MintOp(l)[1] = "MINT" /\ MintOp(l)[2] = l
                     /\ BurnOp(l)[1] = "BURN" /\ BurnOp(l)[2] = l
  BY <1>1, <1>2
<1>. QED  BY <1>1, <1>3, <1>4

(* Every operation is the mint or the burn of its lot. *)
LEMMA OpSplit ==
  ASSUME NEW o \in Op
  PROVE  \/ o[1] = "MINT" /\ o = MintOp(o[2])
         \/ o[1] = "BURN" /\ o = BurnOp(o[2])
  BY DEF Op, MintOp, BurnOp

(* The invariant holds before any request. *)
LEMMA InitBase == Init => Base /\ DeadInv
<1>. SUFFICES ASSUME Init  PROVE Base /\ DeadInv
  OBVIOUS
<1>1. TypeOK
  BY RwaAssumption, OpFacts DEF Init, TypeOK, Home
<1>2. ProcessInv
  BY OpFacts DEF Init, ProcessInv, Home
<1>3. \A o \in Op : Dead(o)
  BY DEF Init, Dead, Inert
<1>4. RecordInv
  BY OpFacts, <1>3 DEF Init, RecordInv, CompletedIsBurnt
<1>5. DeadInv
  BY OpFacts DEF Init, DeadInv
<1>. QED  BY <1>1, <1>2, <1>4, <1>5 DEF Base

-----------------------------------------------------------------------------
(* Only a process that polls an operation can abandon a transaction. *)
LEMMA AbandonType ==
  ASSUME Base, NEW p \in Process, Abandon(p)
  PROVE  stray' \in [Op -> 0..MaxStray]
<1>1. CASE tx[p] = "pending"
  <2>1. target[p] \in Op
    BY <1>1 DEF Base, ProcessInv
  <2>2. stray' = [stray EXCEPT ![target[p]] = @ + 1] /\ stray[target[p]] < MaxStray
    BY <1>1 DEF Abandon
  <2>3. stray[target[p]] + 1 \in 0..MaxStray
    BY <2>1, <2>2, RwaAssumption DEF Base, TypeOK
  <2>. QED  BY <2>1, <2>2, <2>3 DEF Base, TypeOK
<1>2. CASE tx[p] # "pending"
  BY <1>2 DEF Abandon, Base, TypeOK
<1>. QED  BY <1>1, <1>2

(* UpdateChainOperation keeps the row's types. *)
LEMMA UpdateOpType ==
  ASSUME TypeOK, NEW o \in Op, NEW st \in {"CONFIRMED", "UNKNOWN", "FAILED"},
         NEW now \in BOOLEAN, UpdateOp(o, st, now)
  PROVE  /\ opStatus' \in [Op -> {"NONE", "PENDING", "CONFIRMED", "UNKNOWN", "FAILED", "DLQ"}]
         /\ attempts' \in [Op -> 0..MaxAttempts]
         /\ claimed' \in [Op -> BOOLEAN] /\ due' \in [Op -> BOOLEAN]
<1>1. (IF attempts[o] < MaxAttempts THEN attempts[o] + 1 ELSE attempts[o]) \in 0..MaxAttempts
  BY RwaAssumption DEF TypeOK
<1>. QED  BY <1>1 DEF TypeOK, UpdateOp

(* So does returning from a call. *)
LEMMA ReturnType ==
  ASSUME TypeOK, NEW p \in Process, NEW ok \in BOOLEAN, Return(p, ok)
  PROVE  /\ pc' \in [Process -> {"idle", "next", "query", "submit", "poll",
                                 "confirm", "unknown", "failmint", "error"}]
         /\ target' \in [Process -> Op \cup {NoOp}]
         /\ tx' \in [Process -> {"none", "pending", "mined", "reverted"}]
         /\ todo' \in [Worker -> SUBSET Op]
  BY DEF TypeOK, Return, Home

(* Every step keeps types. *)
LEMMA NextTypeOK ==
  ASSUME Base, Next
  PROVE  TypeOK'
<1>0. /\ TypeOK /\ ProcessInv
      /\ Op \subseteq Process /\ Worker \subseteq Process /\ Admin \subseteq Process
      /\ \A o \in Op : o[2] \in Lot
  BY OpFacts DEF Base
<1>. USE <1>0 DEF TypeOK
<1>1. ASSUME NEW l \in Lot, StartMint(l) \/ StartRedemption(l)
      PROVE  TypeOK'
  <2>1. MintOp(l) \in Op /\ BurnOp(l) \in Op /\ MintOp(l) \in Process /\ BurnOp(l) \in Process
    BY OpFacts
  <2>2. CASE StartMint(l)
    BY <2>1, <2>2 DEF StartMint, CreateOp, chainVars
  <2>3. CASE StartRedemption(l)
    BY <2>1, <2>3 DEF StartRedemption, CreateOp, chainVars
  <2>. QED  BY <1>1, <2>2, <2>3
<1>2. ASSUME NEW p \in Process, Call(p)
      PROVE  TypeOK'
  <2>1. CASE Submit(p)
    BY <2>1 DEF Submit, dbVars, chainVars, opVars
  <2>2. CASE Poll(p)
    <3>1. stray' \in [Op -> 0..MaxStray]
      BY <2>2, AbandonType DEF Poll, Base
    <3>. QED  BY <2>2, <3>1 DEF Poll, dbVars, opVars
  <2>3. CASE Unknown(p)
    <3>1. target[p] \in Op
      BY <2>3 DEF Unknown, ProcessInv
    <3>2. \E ok \in BOOLEAN : Return(p, ok)
      BY <2>3 DEF Unknown
    <3>3. CASE UNCHANGED dbVars
      BY <2>3, <3>2, <3>3, ReturnType DEF Unknown, dbVars, opVars, chainVars
    <3>4. CASE /\ saga' = [saga EXCEPT ![target[p]] = "RECOVERY_REQUIRED"]
               /\ UpdateOp(target[p], "UNKNOWN", TRUE)
               /\ UNCHANGED <<lock, holding>>
      BY <2>3, <3>1, <3>2, <3>4, ReturnType, UpdateOpType DEF Unknown, chainVars, Final
    <3>. QED  BY <2>3, <3>3, <3>4 DEF Unknown
  <2>4. CASE ConfirmMint(p)
    <3>1. target[p] \in Op /\ Return(p, TRUE)
      BY <2>4 DEF ConfirmMint, ProcessInv
    <3>2. CASE UNCHANGED dbVars
      BY <2>4, <3>1, <3>2, ReturnType DEF ConfirmMint, dbVars, opVars, chainVars
    <3>3. CASE /\ saga' = [saga EXCEPT ![target[p]] = "MINTED"]
               /\ holding' = holding + 1
               /\ UpdateOp(target[p], "CONFIRMED", TRUE)
               /\ UNCHANGED lock
      <4>1. holding' \in Nat
        BY <3>3
      <4>2. saga' \in [Op -> {"NONE", "CHAIN_PENDING", "RECOVERY_REQUIRED"} \cup Final]
        BY <3>1, <3>3 DEF Final
      <4>3. executed' = executed /\ stray' = stray /\ early' = early
        BY <2>4 DEF ConfirmMint, chainVars
      <4>. QED  BY <3>1, <3>3, <4>1, <4>2, <4>3, ReturnType, UpdateOpType
    <3>. QED  BY <2>4, <3>2, <3>3 DEF ConfirmMint
  <2>5. CASE ConfirmBurn(p)
    <3>1. target[p] \in Op /\ target[p][2] \in Lot /\ Return(p, TRUE)
      BY <2>5 DEF ConfirmBurn, ProcessInv
    <3>2. CASE UNCHANGED dbVars
      BY <2>5, <3>1, <3>2, ReturnType DEF ConfirmBurn, dbVars, opVars, chainVars
    <3>3. CASE /\ holding >= 1
               /\ saga' = [saga EXCEPT ![target[p]] = "COMPLETED"]
               /\ lock' = [lock EXCEPT ![target[p][2]] = "RELEASED"]
               /\ holding' = holding - 1
               /\ UpdateOp(target[p], "CONFIRMED", TRUE)
      <4>1. holding' \in Nat
        BY <3>3
      <4>2. saga' \in [Op -> {"NONE", "CHAIN_PENDING", "RECOVERY_REQUIRED"} \cup Final]
        BY <3>1, <3>3 DEF Final
      <4>3. executed' = executed /\ stray' = stray /\ early' = early
        BY <2>5 DEF ConfirmBurn, chainVars
      <4>4. lock' \in [Lot -> {"NONE", "LOCKED", "RELEASED"}]
        BY <3>1, <3>3
      <4>. QED  BY <3>1, <3>3, <4>1, <4>2, <4>3, <4>4, ReturnType, UpdateOpType
    <3>. QED  BY <2>5, <3>2, <3>3 DEF ConfirmBurn
  <2>6. CASE Query(p)
    <3>1. target[p] \in Op
      BY <2>6 DEF Query, ProcessInv
    <3>. QED  BY <2>6, <3>1 DEF Query, dbVars, opVars
  <2>7. CASE FailMint(p)
    <3>1. target[p] \in Op /\ target[p][2] \in Lot /\ Return(p, TRUE)
      BY <2>7 DEF FailMint, ProcessInv
    <3>2. CASE UNCHANGED dbVars
      BY <2>7, <3>1, <3>2, ReturnType DEF FailMint, dbVars, opVars, chainVars
    <3>3. CASE /\ saga' = [saga EXCEPT ![target[p]] = "FAILED_RECOVERED"]
               /\ lock' = [lock EXCEPT ![target[p][2]] = "RELEASED"]
               /\ UpdateOp(target[p], "FAILED", TRUE)
               /\ UNCHANGED holding
      BY <2>7, <3>1, <3>3, ReturnType, UpdateOpType DEF FailMint, chainVars, Final
    <3>. QED  BY <2>7, <3>2, <3>3 DEF FailMint
  <2>8. CASE Abort(p)
    BY <2>8, ReturnType DEF Abort, dbVars, chainVars, opVars
  <2>. QED  BY <1>2, <2>1, <2>2, <2>3, <2>4, <2>5, <2>6, <2>7, <2>8 DEF Call
<1>3. ASSUME NEW p \in Process, Mine(p) \/ Crash(p)
      PROVE  TypeOK'
  <2>1. CASE Mine(p)
    <3>1. UNCHANGED <<dbVars, stray, early, pc, target, todo>> /\ target[p] \in Op
      BY <2>1 DEF Mine, ProcessInv
    <3>2. executed' \in [Op -> BOOLEAN]
      BY <2>1, <3>1 DEF Mine
    <3>3. tx' \in [Process -> {"none", "pending", "mined", "reverted"}]
      BY <2>1 DEF Mine
    <3>. QED  BY <3>1, <3>2, <3>3 DEF dbVars, opVars
  <2>2. CASE Crash(p)
    <3>1. stray' \in [Op -> 0..MaxStray]
      BY <2>2, AbandonType DEF Crash, Base
    <3>. QED  BY <2>2, <3>1 DEF Crash, Home, dbVars, opVars
  <2>. QED  BY <1>3, <2>1, <2>2
<1>4. ASSUME NEW o \in Op, MineStray(o) \/ BackoffEnds(o)
      PROVE  TypeOK'
  <2>1. CASE MineStray(o)
    <3>1. UNCHANGED <<dbVars, early, procVars>> /\ executed' \in [Op -> BOOLEAN]
      BY <2>1 DEF MineStray
    <3>2. stray[o] - 1 \in 0..MaxStray
      BY <2>1, RwaAssumption DEF MineStray
    <3>3. stray' \in [Op -> 0..MaxStray]
      BY <2>1, <3>2 DEF MineStray
    <3>. QED  BY <3>1, <3>3 DEF dbVars, opVars, procVars
  <2>2. CASE BackoffEnds(o)
    BY <2>2 DEF BackoffEnds, chainVars, procVars
  <2>. QED  BY <1>4, <2>1, <2>2
<1>5. ASSUME NEW a \in Admin, NEW o \in Op, RecoverOperation(a, o)
      PROVE  TypeOK'
  BY <1>5 DEF RecoverOperation, dbVars, opVars, chainVars
<1>6. ASSUME NEW w \in Worker, RecoverDueOperations(w)
      PROVE  TypeOK'
  <2>1. CASE Claim(w)
    BY <2>1 DEF Claim, Batches, Claimable, chainVars
  <2>2. CASE RecoverNext(w)
    BY <2>2 DEF RecoverNext, dbVars, opVars, chainVars
  <2>3. CASE DeferRecovery(w)
    <3>1. target[w] \in Op
      BY <2>3 DEF DeferRecovery, ProcessInv
    <3>2. /\ pc' \in [Process -> {"idle", "next", "query", "submit", "poll",
                                  "confirm", "unknown", "failmint", "error"}]
          /\ target' \in [Process -> Op \cup {NoOp}]
      BY <2>3 DEF DeferRecovery
    <3>3. CASE UNCHANGED opVars
      BY <2>3, <3>2, <3>3 DEF DeferRecovery, opVars, chainVars
    <3>4. CASE UpdateOp(target[w], "UNKNOWN", FALSE)
      BY <2>3, <3>1, <3>2, <3>4, UpdateOpType DEF DeferRecovery, chainVars
    <3>. QED  BY <2>3, <3>3, <3>4 DEF DeferRecovery
  <2>4. CASE MoveExhausted(w)
    BY <2>4 DEF MoveExhausted, Exhausted, chainVars
  <2>. QED  BY <1>6, <2>1, <2>2, <2>3, <2>4 DEF RecoverDueOperations
<1>. QED  BY <1>1, <1>2, <1>3, <1>4, <1>5, <1>6 DEF Next

-----------------------------------------------------------------------------
(* Six transactions change requests, locks and the holding; no other step does. *)
LEMMA RequestStep ==
  ASSUME Next
  PROVE  \/ UNCHANGED <<lock, saga, holding>>
         \/ \E l \in Lot : StartMint(l) \/ StartRedemption(l)
         \/ \E p \in Process : Unknown(p) \/ ConfirmMint(p) \/ ConfirmBurn(p) \/ FailMint(p)
<1>1. ASSUME NEW p \in Process, Call(p) \/ Mine(p) \/ Crash(p)
      PROVE  \/ UNCHANGED <<lock, saga, holding>>
             \/ Unknown(p) \/ ConfirmMint(p) \/ ConfirmBurn(p) \/ FailMint(p)
  BY <1>1 DEF Call, Submit, Poll, Query, Abort, Mine, Crash, dbVars
<1>2. ASSUME NEW o \in Op, MineStray(o) \/ BackoffEnds(o)
      PROVE  UNCHANGED <<lock, saga, holding>>
  BY <1>2 DEF MineStray, BackoffEnds, dbVars
<1>3. ASSUME NEW a \in Admin, NEW o \in Op, RecoverOperation(a, o)
      PROVE  UNCHANGED <<lock, saga, holding>>
  BY <1>3 DEF RecoverOperation, dbVars
<1>4. ASSUME NEW w \in Worker, RecoverDueOperations(w)
      PROVE  UNCHANGED <<lock, saga, holding>>
  BY <1>4 DEF RecoverDueOperations, Claim, RecoverNext, DeferRecovery, MoveExhausted, dbVars
<1>. QED  BY <1>1, <1>2, <1>3, <1>4 DEF Next

(* How the status of a request can change, and what was true when it did. *)
SagaChange(o) ==
    \/ /\ saga[o] = "NONE" /\ saga'[o] = "CHAIN_PENDING"
       /\ \/ o[1] = "MINT" /\ lock'[o[2]] = "LOCKED"
          \/ o[1] = "BURN" /\ saga[MintOp(o[2])] = "MINTED"
    \/ saga[o] = "CHAIN_PENDING" /\ saga'[o] = "RECOVERY_REQUIRED"
    \/ /\ o[1] = "MINT" /\ saga[o] \notin Final \cup {"NONE"} /\ saga'[o] = "MINTED"
       /\ executed[o]
    \/ /\ o[1] = "BURN" /\ saga[o] \notin {"NONE", "COMPLETED"} /\ saga'[o] = "COMPLETED"
       /\ executed[o] /\ lock'[o[2]] = "RELEASED"
    \/ /\ o[1] = "MINT" /\ saga[o] \notin {"NONE", "FAILED_RECOVERED"}
       /\ saga'[o] = "FAILED_RECOVERED"
       /\ \E p \in Process : pc[p] = "failmint" /\ target[p] = o

LEMMA SagaStep ==
  ASSUME Base, Next, NEW o \in Op, saga'[o] # saga[o]
  PROVE  SagaChange(o)
<1>0. TypeOK /\ ProcessInv
  BY DEF Base
<1>1. ASSUME NEW l \in Lot, StartMint(l)
      PROVE  SagaChange(o)
  <2>1. MintOp(l) \in Op /\ MintOp(l)[1] = "MINT" /\ MintOp(l)[2] = l
    BY OpFacts
  <2>2. o = MintOp(l) /\ saga'[o] = "CHAIN_PENDING" /\ lock'[l] = "LOCKED" /\ saga[o] = "NONE"
    BY <1>0, <1>1, <2>1 DEF StartMint, TypeOK
  <2>. QED  BY <2>1, <2>2 DEF SagaChange
<1>2. ASSUME NEW l \in Lot, StartRedemption(l)
      PROVE  SagaChange(o)
  <2>1. BurnOp(l) \in Op /\ BurnOp(l)[1] = "BURN" /\ BurnOp(l)[2] = l
    BY OpFacts
  <2>2. /\ o = BurnOp(l) /\ saga'[o] = "CHAIN_PENDING" /\ saga[o] = "NONE"
        /\ saga[MintOp(l)] = "MINTED"
    BY <1>0, <1>2, <2>1 DEF StartRedemption, TypeOK
  <2>. QED  BY <2>1, <2>2 DEF SagaChange
<1>3. ASSUME NEW p \in Process, Unknown(p) \/ ConfirmMint(p) \/ ConfirmBurn(p) \/ FailMint(p)
      PROVE  SagaChange(o)
  <2>1. target[p] \in Op /\ saga[target[p]] # "NONE" /\ target[p][2] \in Lot
    BY <1>0, <1>3, OpFacts DEF Unknown, ConfirmMint, ConfirmBurn, FailMint, ProcessInv
  <2>2. CASE Unknown(p)
    BY <1>0, <2>1, <2>2 DEF Unknown, dbVars, TypeOK, SagaChange
  <2>3. CASE ConfirmMint(p)
    <3>1. /\ o = target[p] /\ o[1] = "MINT" /\ saga[o] \notin Final
          /\ saga'[o] = "MINTED" /\ pc[p] = "confirm"
      BY <1>0, <2>1, <2>3 DEF ConfirmMint, dbVars, TypeOK
    <3>2. executed[o]
      BY <1>0, <3>1 DEF ProcessInv
    <3>. QED  BY <2>1, <3>1, <3>2 DEF SagaChange
  <2>4. CASE ConfirmBurn(p)
    <3>1. /\ o = target[p] /\ o[1] = "BURN" /\ saga[o] # "COMPLETED"
          /\ saga'[o] = "COMPLETED" /\ executed[o] /\ lock'[o[2]] = "RELEASED"
      <4>1. /\ saga' = [saga EXCEPT ![target[p]] = "COMPLETED"]
            /\ lock' = [lock EXCEPT ![target[p][2]] = "RELEASED"]
            /\ executed[target[p]] /\ saga[target[p]] # "COMPLETED"
            /\ target[p][1] = "BURN"
        BY <2>4 DEF ConfirmBurn, dbVars
      <4>. QED  BY <1>0, <2>1, <4>1 DEF TypeOK
    <3>. QED  BY <2>1, <3>1 DEF SagaChange
  <2>5. CASE FailMint(p)
    <3>1. /\ o = target[p] /\ saga[o] # "FAILED_RECOVERED"
          /\ saga'[o] = "FAILED_RECOVERED" /\ pc[p] = "failmint"
      BY <1>0, <2>1, <2>5 DEF FailMint, dbVars, TypeOK
    <3>2. o[1] = "MINT"
      BY <1>0, <3>1 DEF ProcessInv
    <3>. QED  BY <2>1, <3>1, <3>2 DEF SagaChange
  <2>. QED  BY <1>3, <2>2, <2>3, <2>4, <2>5
<1>. QED  BY <1>1, <1>2, <1>3, RequestStep

(* How a lock can change. *)
LockChange(l) ==
    \/ saga[MintOp(l)] = "NONE" /\ lock'[l] = "LOCKED" /\ saga'[MintOp(l)] = "CHAIN_PENDING"
    \/ lock[l] = "LOCKED" /\ lock'[l] = "RELEASED" /\ saga'[BurnOp(l)] = "COMPLETED"
    \/ lock'[l] = "RELEASED" /\ saga'[MintOp(l)] = "FAILED_RECOVERED"

LEMMA LockStep ==
  ASSUME Base, Next, NEW l \in Lot, lock'[l] # lock[l]
  PROVE  LockChange(l)
<1>0. TypeOK /\ ProcessInv
  BY DEF Base
<1>1. ASSUME NEW k \in Lot, StartMint(k) \/ StartRedemption(k)
      PROVE  LockChange(l)
  <2>1. MintOp(l) \in Op
    BY OpFacts
  <2>. QED  BY <1>0, <1>1, <2>1 DEF StartMint, StartRedemption, TypeOK, LockChange
<1>2. ASSUME NEW p \in Process, Unknown(p) \/ ConfirmMint(p) \/ ConfirmBurn(p) \/ FailMint(p)
      PROVE  LockChange(l)
  <2>1. target[p] \in Op /\ target[p][2] \in Lot
    BY <1>0, <1>2, OpFacts DEF Unknown, ConfirmMint, ConfirmBurn, FailMint, ProcessInv
  <2>2. CASE Unknown(p) \/ ConfirmMint(p)
    BY <2>2 DEF Unknown, ConfirmMint, dbVars
  <2>3. CASE ConfirmBurn(p)
    <3>1. /\ l = target[p][2] /\ target[p][1] = "BURN" /\ lock[l] = "LOCKED"
          /\ lock'[l] = "RELEASED" /\ saga'[target[p]] = "COMPLETED"
      BY <1>0, <2>1, <2>3 DEF ConfirmBurn, dbVars, TypeOK
    <3>2. target[p] = BurnOp(l)
      BY <2>1, <3>1, OpSplit
    <3>. QED  BY <3>1, <3>2 DEF LockChange
  <2>4. CASE FailMint(p)
    <3>1. /\ l = target[p][2] /\ pc[p] = "failmint"
          /\ lock'[l] = "RELEASED" /\ saga'[target[p]] = "FAILED_RECOVERED"
      BY <1>0, <2>1, <2>4 DEF FailMint, dbVars, TypeOK
    <3>2. target[p] = MintOp(l)
      BY <1>0, <2>1, <3>1, OpSplit DEF ProcessInv
    <3>. QED  BY <3>1, <3>2 DEF LockChange
  <2>. QED  BY <1>2, <2>2, <2>3, <2>4
<1>. QED  BY <1>1, <1>2, RequestStep

(* The chain executes only operations that have a transaction in the mempool *)
(* and an inert operation gets no abandoned transaction.                     *)
LEMMA ChainStep ==
  ASSUME Base, Next, NEW o \in Op
  PROVE  /\ executed[o] => executed'[o]
         /\ Dead(o) => ~executed'[o]
         /\ Inert(o) => stray'[o] = 0
<1>0. TypeOK /\ ProcessInv
  BY DEF Base
<1>1. ASSUME NEW p \in Process, Mine(p)
      PROVE  /\ executed[o] => executed'[o]
             /\ Dead(o) => ~executed'[o]
             /\ Inert(o) => stray'[o] = 0
  <2>1. target[p] \in Op /\ tx[p] = "pending" /\ UNCHANGED stray
    BY <1>0, <1>1 DEF Mine, ProcessInv
  <2>2. Dead(o) => target[p] # o
    BY <2>1 DEF Dead, Inert
  <2>3. \/ executed' = [executed EXCEPT ![target[p]] = TRUE]
        \/ executed' = executed
    BY <1>1 DEF Mine
  <2>4. executed[o] => executed'[o]
    BY <1>0, <2>1, <2>3 DEF TypeOK
  <2>5. target[p] # o => executed'[o] = executed[o]
    BY <1>0, <2>1, <2>3 DEF TypeOK
  <2>. QED  BY <2>1, <2>2, <2>4, <2>5 DEF Dead, Inert
<1>2. ASSUME NEW q \in Op, MineStray(q)
      PROVE  /\ executed[o] => executed'[o]
             /\ Dead(o) => ~executed'[o]
             /\ Inert(o) => stray'[o] = 0
  <2>1. Inert(o) => q # o
    BY <1>2 DEF MineStray, Inert
  <2>2. q # o => executed'[o] = executed[o] /\ stray'[o] = stray[o]
    BY <1>0, <1>2 DEF MineStray, TypeOK
  <2>3. executed[o] => executed'[o]
    BY <1>0, <1>2 DEF MineStray, TypeOK
  <2>. QED  BY <2>1, <2>2, <2>3 DEF Dead, Inert
<1>3. ASSUME NEW p \in Process, Poll(p) \/ Crash(p)
      PROVE  /\ executed[o] => executed'[o]
             /\ Dead(o) => ~executed'[o]
             /\ Inert(o) => stray'[o] = 0
  <2>1. UNCHANGED executed /\ (UNCHANGED stray \/ Abandon(p))
    BY <1>3 DEF Poll, Crash
  <2>2. ASSUME Inert(o), Abandon(p)
        PROVE  stray'[o] = 0
    <3>1. CASE tx[p] = "pending"
      <4>1. target[p] # o /\ stray[o] = 0
        BY <2>2, <3>1 DEF Inert
      <4>2. stray' = [stray EXCEPT ![target[p]] = @ + 1]
        BY <2>2, <3>1 DEF Abandon
      <4>. QED  BY <1>0, <4>1, <4>2 DEF TypeOK
    <3>2. CASE tx[p] # "pending"
      BY <2>2, <3>2 DEF Abandon, Inert
    <3>. QED  BY <3>1, <3>2
  <2>. QED  BY <2>1, <2>2 DEF Inert, Dead
<1>4. ASSUME UNCHANGED <<executed, stray>>
      PROVE  /\ executed[o] => executed'[o]
             /\ Dead(o) => ~executed'[o]
             /\ Inert(o) => stray'[o] = 0
  BY <1>4 DEF Dead, Inert
<1>5. \/ UNCHANGED <<executed, stray>>
      \/ \E p \in Process : Mine(p) \/ Poll(p) \/ Crash(p)
      \/ \E q \in Op : MineStray(q)
  <2>1. ASSUME NEW p \in Process, Call(p)
        PROVE  UNCHANGED <<executed, stray>> \/ Poll(p)
    BY <2>1 DEF Call, Submit, Unknown, ConfirmMint, ConfirmBurn, Query, FailMint, Abort, chainVars
  <2>2. ASSUME NEW w \in Worker, RecoverDueOperations(w)
        PROVE  UNCHANGED <<executed, stray>>
    BY <2>2 DEF RecoverDueOperations, Claim, RecoverNext, DeferRecovery, MoveExhausted, chainVars
  <2>3. ASSUME NEW l \in Lot, StartMint(l) \/ StartRedemption(l)
        PROVE  UNCHANGED <<executed, stray>>
    BY <2>3 DEF StartMint, StartRedemption, chainVars
  <2>4. ASSUME NEW q \in Op, BackoffEnds(q)
        PROVE  UNCHANGED <<executed, stray>>
    BY <2>4 DEF BackoffEnds, chainVars
  <2>5. ASSUME NEW a \in Admin, NEW q \in Op, RecoverOperation(a, q)
        PROVE  UNCHANGED <<executed, stray>>
    BY <2>5 DEF RecoverOperation, chainVars
  <2>. QED  BY <2>1, <2>2, <2>3, <2>4, <2>5 DEF Next
<1>. QED  BY <1>1, <1>2, <1>3, <1>4, <1>5

(* A request that has started stays started. *)
LEMMA Started ==
  ASSUME Base, Next, NEW o \in Op, saga[o] # "NONE"
  PROVE  saga'[o] # "NONE"
  BY SagaStep DEF SagaChange

(* Every step keeps what is known of the processes. *)
LEMMA NextProcessInv ==
  ASSUME Base, Next
  PROVE  ProcessInv'
<1>0. /\ TypeOK /\ ProcessInv
      /\ Op \subseteq Process /\ Worker \subseteq Process /\ Admin \subseteq Process
  BY OpFacts DEF Base
<1>1. \A o \in Op : /\ saga[o] # "NONE" => saga'[o] # "NONE"
                    /\ executed[o] => executed'[o]
  BY Started, ChainStep
<1>2. \A w \in Worker : w \notin Op
  BY RwaAssumption
<1>. USE <1>0, <1>1, <1>2 DEF ProcessInv
<1>3. ASSUME NEW l \in Lot, StartMint(l)
      PROVE  ProcessInv'
  <2>1. MintOp(l) \in Op /\ saga'[MintOp(l)] # "NONE"
    BY <1>3, OpFacts DEF StartMint, TypeOK
  <2>2. pc' = [pc EXCEPT ![MintOp(l)] = "submit"] /\ UNCHANGED <<chainVars, target, tx, todo>>
    BY <1>3 DEF StartMint
  <2>3. tx[MintOp(l)] = "none"
    BY <1>3, <2>1 DEF StartMint
  <2>. QED  BY <2>1, <2>2, <2>3 DEF TypeOK, chainVars
<1>4. ASSUME NEW l \in Lot, StartRedemption(l)
      PROVE  ProcessInv'
  <2>1. BurnOp(l) \in Op /\ saga'[BurnOp(l)] # "NONE"
    BY <1>4, OpFacts DEF StartRedemption, TypeOK
  <2>2. pc' = [pc EXCEPT ![BurnOp(l)] = "submit"] /\ UNCHANGED <<chainVars, target, tx, todo>>
    BY <1>4 DEF StartRedemption
  <2>3. tx[BurnOp(l)] = "none"
    BY <1>4, <2>1 DEF StartRedemption
  <2>. QED  BY <2>1, <2>2, <2>3 DEF TypeOK, chainVars
<1>5. ASSUME NEW p \in Process, NEW ok \in BOOLEAN, Return(p, ok), pc[p] \notin {"idle", "next"}
      PROVE  ProcessInv'
  <2>1. /\ pc' = [pc EXCEPT ![p] = IF p \notin Worker THEN "idle"
                                  ELSE IF ok THEN "next" ELSE "error"]
        /\ tx' = [tx EXCEPT ![p] = "none"] /\ todo' = todo
    BY <1>5 DEF Return
  <2>2. /\ \A q \in Process : q # p => target'[q] = target[q]
        /\ p \in Op => target'[p] = p
        /\ pc'[p] = "error" => target'[p] = target[p]
    BY <1>5, <2>1 DEF Return, TypeOK, Home
  <2>3. target[p] \in Op /\ saga'[target[p]] # "NONE"
    BY <1>5
  <2>4. /\ \A q \in Process : q # p => pc'[q] = pc[q] /\ tx'[q] = tx[q]
        /\ pc'[p] \in {"idle", "next", "error"} /\ tx'[p] = "none"
    BY <2>1 DEF TypeOK
  <2>5. \A o \in Op : target'[o] = o
    BY <2>2
  <2>6. \A q \in Process : tx'[q] # "none" => pc'[q] = "poll"
    BY <2>4
  <2>7. ASSUME NEW q \in Process, pc'[q] \notin {"idle", "next"}
        PROVE  target'[q] = target[q] /\ target'[q] \in Op /\ saga'[target'[q]] # "NONE"
    BY <2>2, <2>3, <2>4, <2>7
  <2>8. ASSUME NEW q \in Process, pc'[q] = "confirm" \/ tx'[q] = "mined"
        PROVE  executed'[target'[q]]
    BY <2>4, <2>6, <2>7, <2>8
  <2>9. \A q \in Process : pc'[q] = "failmint" => target'[q][1] = "MINT"
    BY <2>4, <2>7
  <2>10. \A w \in Worker : \A o \in todo'[w] : saga'[o] # "NONE"
    BY <2>1 DEF TypeOK
  <2>. QED  BY <2>5, <2>6, <2>7, <2>8, <2>9, <2>10
<1>6. ASSUME NEW p \in Process, Call(p)
      PROVE  ProcessInv'
  <2>1. CASE Submit(p)
    BY <2>1 DEF Submit, dbVars, chainVars, TypeOK
  <2>2. CASE Poll(p)
    <3>1. pc[p] = "poll" /\ target' = target /\ todo' = todo /\ tx' = [tx EXCEPT ![p] = "none"]
      BY <2>2 DEF Poll
    <3>2. \/ tx[p] = "mined" /\ pc' = [pc EXCEPT ![p] = "confirm"]
          \/ pc' = [pc EXCEPT ![p] = "unknown"]
      BY <2>2 DEF Poll
    <3>. QED  BY <3>1, <3>2 DEF TypeOK
  <2>3. CASE Unknown(p) \/ ConfirmMint(p) \/ ConfirmBurn(p) \/ FailMint(p) \/ Abort(p)
    <3>1. pc[p] \notin {"idle", "next"} /\ \E ok \in BOOLEAN : Return(p, ok)
      BY <2>3 DEF Unknown, ConfirmMint, ConfirmBurn, FailMint, Abort
    <3>. QED  BY <3>1, <1>5
  <2>4. CASE Query(p)
    <3>1. /\ pc[p] = "query" /\ target' = target /\ tx' = tx /\ todo' = todo
          /\ pc' = [pc EXCEPT ![p] = IF executed[target[p]] THEN "confirm"
                                     ELSE IF target[p][1] = "MINT" THEN "failmint"
                                     ELSE "submit"]
      BY <2>4 DEF Query
    <3>2. target[p] \in Op /\ tx[p] = "none"
      BY <3>1 DEF TypeOK
    <3>. QED  BY <3>1, <3>2 DEF TypeOK
  <2>. QED  BY <1>6, <2>1, <2>2, <2>3, <2>4 DEF Call
<1>7. ASSUME NEW p \in Process, Mine(p)
      PROVE  ProcessInv'
  <2>1. /\ tx[p] = "pending" /\ UNCHANGED <<pc, target, todo>> /\ target[p] \in Op
        /\ \/ tx' = [tx EXCEPT ![p] = "mined"] /\ executed' = [executed EXCEPT ![target[p]] = TRUE]
           \/ tx' = [tx EXCEPT ![p] = "reverted"]
    BY <1>7 DEF Mine
  <2>. QED  BY <2>1 DEF TypeOK
<1>8. ASSUME NEW p \in Process, Crash(p)
      PROVE  ProcessInv'
  <2>1. /\ pc' = [pc EXCEPT ![p] = "idle"] /\ target' = [target EXCEPT ![p] = Home(p)]
        /\ tx' = [tx EXCEPT ![p] = "none"]
        /\ \A w \in Worker : todo'[w] \in {{}, todo[w]}
    BY <1>8 DEF Crash
  <2>2. \A w \in Worker : todo'[w] \subseteq todo[w]
    BY <2>1
  <2>. QED  BY <2>1, <2>2 DEF TypeOK, Home
<1>9. ASSUME NEW o \in Op, MineStray(o) \/ BackoffEnds(o)
      PROVE  ProcessInv'
  BY <1>9 DEF MineStray, BackoffEnds, procVars, TypeOK
<1>10. ASSUME NEW a \in Admin, NEW o \in Op, RecoverOperation(a, o)
       PROVE  ProcessInv'
  <2>1. /\ pc' = [pc EXCEPT ![a] = "query"] /\ target' = [target EXCEPT ![a] = o]
        /\ UNCHANGED <<tx, todo>> /\ pc[a] = "idle" /\ opStatus[o] # "NONE"
    BY <1>10 DEF RecoverOperation
  <2>2. saga[o] # "NONE"
    BY <2>1 DEF Base, RecordInv
  <2>3. a \notin Op /\ a \in Process
    BY RwaAssumption
  <2>. QED  BY <2>1, <2>2, <2>3 DEF TypeOK
<1>11. ASSUME NEW w \in Worker, RecoverDueOperations(w)
       PROVE  ProcessInv'
  <2>1. CASE Claim(w)
    <3>1. PICK B \in Batches : todo' = [todo EXCEPT ![w] = B]
      BY <2>1 DEF Claim
    <3>2. \A o \in B : o \in Op /\ saga[o] # "NONE"
      BY <3>1 DEF Base, RecordInv, Batches, Claimable
    <3>3. pc' = [pc EXCEPT ![w] = "next"] /\ UNCHANGED <<target, tx>> /\ pc[w] = "idle"
      BY <2>1 DEF Claim
    <3>. QED  BY <3>1, <3>2, <3>3 DEF TypeOK
  <2>2. CASE RecoverNext(w)
    <3>1. PICK o \in todo[w] : /\ todo' = [todo EXCEPT ![w] = @ \ {o}]
                               /\ target' = [target EXCEPT ![w] = o]
      BY <2>2 DEF RecoverNext
    <3>2. pc[w] = "next" /\ pc' = [pc EXCEPT ![w] = "query"] /\ tx' = tx
      BY <2>2 DEF RecoverNext
    <3>3. o \in Op /\ saga[o] # "NONE"
      BY DEF TypeOK
    <3>. QED  BY <3>1, <3>2, <3>3 DEF TypeOK
  <2>3. CASE DeferRecovery(w)
    <3>1. /\ pc' = [pc EXCEPT ![w] = "next"] /\ UNCHANGED <<tx, todo>>
          /\ target' = [target EXCEPT ![w] = NoOp] /\ pc[w] = "error"
      BY <2>3 DEF DeferRecovery
    <3>. QED  BY <3>1 DEF TypeOK
  <2>4. CASE MoveExhausted(w)
    <3>1. pc' = [pc EXCEPT ![w] = "idle"] /\ UNCHANGED <<tx, todo, target>> /\ pc[w] = "next"
      BY <2>4 DEF MoveExhausted
    <3>. QED  BY <3>1 DEF TypeOK
  <2>. QED  BY <1>11, <2>1, <2>2, <2>3, <2>4 DEF RecoverDueOperations
<1>. QED  BY <1>3, <1>4, <1>6, <1>7, <1>8, <1>9, <1>10, <1>11 DEF Next

(* Dead is stable: before the request because nobody is about an operation   *)
(* that was not started, and for a mint after its request because only the   *)
(* request submits mints.                                                    *)
LEMMA DeadStable ==
  ASSUME Base, Next, ProcessInv', NEW o \in Op, Dead(o),
         saga'[o] = "NONE" \/ (o[1] = "MINT" /\ saga[o] # "NONE")
  PROVE  Dead(o)'
<1>0. TypeOK /\ ProcessInv
  BY DEF Base
<1>1. ~executed'[o] /\ stray'[o] = 0
  BY ChainStep DEF Dead
<1>2. CASE saga'[o] = "NONE"
  <2>1. ASSUME NEW q \in Process, target'[q] = o
        PROVE  pc'[q] # "submit" /\ tx'[q] # "pending"
    BY <1>2, <2>1 DEF ProcessInv
  <2>. QED  BY <1>1, <2>1 DEF Dead, Inert
<1>3. ASSUME o[1] = "MINT", saga[o] # "NONE", NEW q \in Process, target'[q] = o
      PROVE  pc'[q] # "submit" /\ tx'[q] # "pending"
  <2>1. pc[q] = "submit" \/ tx[q] = "pending" => target[q] # o
    BY DEF Dead, Inert
  <2>2. \A l \in Lot : MintOp(l) \in Process /\ target[MintOp(l)] = MintOp(l)
    BY <1>0, OpFacts DEF ProcessInv
  <2>3. CASE \E l \in Lot : StartMint(l)
    <3>1. PICK l \in Lot : StartMint(l)
      BY <2>3
    <3>2. MintOp(l) # o /\ target' = target /\ tx' = tx /\ pc' = [pc EXCEPT ![MintOp(l)] = "submit"]
      BY <1>3, <3>1 DEF StartMint
    <3>. QED  BY <1>0, <1>3, <2>1, <2>2, <3>2 DEF TypeOK
  <2>4. CASE \E l \in Lot : StartRedemption(l)
    <3>1. PICK l \in Lot : StartRedemption(l)
      BY <2>4
    <3>2. BurnOp(l) \in Process /\ BurnOp(l)[1] = "BURN" /\ target[BurnOp(l)] = BurnOp(l)
      BY <1>0, OpFacts DEF ProcessInv
    <3>3. target' = target /\ tx' = tx /\ pc' = [pc EXCEPT ![BurnOp(l)] = "submit"]
      BY <3>1 DEF StartRedemption
    <3>. QED  BY <1>0, <1>3, <2>1, <3>2, <3>3 DEF TypeOK
  <2>5. ASSUME NEW p \in Process, Call(p) \/ Mine(p) \/ Crash(p)
        PROVE  pc'[q] # "submit" /\ tx'[q] # "pending"
    <3>1. CASE Submit(p)
      BY <1>0, <1>3, <2>1, <3>1 DEF Submit, TypeOK
    <3>2. CASE Query(p)
      <4>1. /\ target' = target /\ tx' = tx
            /\ pc' = [pc EXCEPT ![p] = IF executed[target[p]] THEN "confirm"
                                       ELSE IF target[p][1] = "MINT" THEN "failmint"
                                       ELSE "submit"]
        BY <3>2 DEF Query
      <4>. QED  BY <1>0, <1>3, <2>1, <4>1 DEF TypeOK
    <3>3. CASE Unknown(p) \/ ConfirmMint(p) \/ ConfirmBurn(p) \/ FailMint(p) \/ Abort(p)
      <4>1. PICK ok \in BOOLEAN : Return(p, ok)
        BY <3>3 DEF Unknown, ConfirmMint, ConfirmBurn, FailMint, Abort
      <4>2. /\ pc'[p] # "submit" /\ tx'[p] # "pending"
            /\ q # p => pc'[q] = pc[q] /\ tx'[q] = tx[q] /\ target'[q] = target[q]
        BY <1>0, <4>1 DEF Return, TypeOK
      <4>. QED  BY <1>3, <2>1, <4>2
    <3>4. CASE Poll(p) \/ Mine(p)
      BY <1>0, <1>3, <2>1, <3>4 DEF Poll, Mine, TypeOK
    <3>5. CASE Crash(p)
      <4>1. /\ pc'[p] # "submit" /\ tx'[p] # "pending"
            /\ q # p => pc'[q] = pc[q] /\ tx'[q] = tx[q] /\ target'[q] = target[q]
        BY <1>0, <3>5 DEF Crash, TypeOK
      <4>. QED  BY <1>3, <2>1, <4>1
    <3>. QED  BY <2>5, <3>1, <3>2, <3>3, <3>4, <3>5 DEF Call
  <2>6. CASE \E r \in Op : MineStray(r) \/ BackoffEnds(r)
    BY <1>3, <2>1, <2>6 DEF MineStray, BackoffEnds, procVars
  <2>7. ASSUME NEW a \in Admin, NEW r \in Op, RecoverOperation(a, r)
        PROVE  pc'[q] # "submit" /\ tx'[q] # "pending"
    <3>1. /\ a \in Process /\ pc' = [pc EXCEPT ![a] = "query"]
          /\ target' = [target EXCEPT ![a] = r] /\ tx' = tx /\ pc[a] = "idle"
      BY <2>7, OpFacts DEF RecoverOperation
    <3>2. tx[a] = "none"
      BY <1>0, <3>1 DEF ProcessInv
    <3>. QED  BY <1>0, <1>3, <2>1, <3>1, <3>2 DEF TypeOK
  <2>8. ASSUME NEW w \in Worker, RecoverDueOperations(w)
        PROVE  pc'[q] # "submit" /\ tx'[q] # "pending"
    <3>1. /\ w \in Process /\ tx' = tx /\ pc[w] \in {"idle", "next", "error"}
          /\ pc'[w] # "submit"
          /\ q # w => pc'[q] = pc[q] /\ target'[q] = target[q]
      <4>1. w \in Process /\ tx' = tx
        BY <2>8, OpFacts DEF RecoverDueOperations, Claim, RecoverNext, DeferRecovery,
                             MoveExhausted
      <4>2. CASE Claim(w) \/ MoveExhausted(w)
        BY <1>0, <4>1, <4>2 DEF Claim, MoveExhausted, TypeOK
      <4>3. CASE RecoverNext(w)
        BY <1>0, <4>1, <4>3 DEF RecoverNext, TypeOK
      <4>4. CASE DeferRecovery(w)
        BY <1>0, <4>1, <4>4 DEF DeferRecovery, TypeOK
      <4>. QED  BY <2>8, <4>1, <4>2, <4>3, <4>4 DEF RecoverDueOperations
    <3>2. tx[w] = "none"
      BY <1>0, <3>1 DEF ProcessInv
    <3>. QED  BY <1>3, <2>1, <3>1, <3>2
  <2>. QED  BY <2>3, <2>4, <2>5, <2>6, <2>7, <2>8 DEF Next
<1>. QED  BY <1>1, <1>2, <1>3 DEF Dead, Inert

-----------------------------------------------------------------------------
(* An operation has no chain_operations row before its request. *)
LEMMA OpStatusStep ==
  ASSUME Base, Next, NEW o \in Op, saga'[o] = "NONE"
  PROVE  opStatus'[o] = "NONE"
<1>0. TypeOK /\ ProcessInv
  BY DEF Base
<1>1. saga[o] = "NONE" /\ opStatus[o] = "NONE"
  BY Started DEF Base, RecordInv
<1>2. ASSUME NEW q \in Op, NEW st, NEW now, UpdateOp(q, st, now), saga[q] # "NONE"
      PROVE  opStatus'[o] = "NONE"
  BY <1>0, <1>1, <1>2 DEF UpdateOp, TypeOK
<1>3. ASSUME NEW l \in Lot, StartMint(l) \/ StartRedemption(l)
      PROVE  opStatus'[o] = "NONE"
  <2>1. MintOp(l) \in Op /\ BurnOp(l) \in Op
    BY OpFacts
  <2>2. CASE StartMint(l)
    BY <1>0, <1>1, <2>1, <2>2 DEF StartMint, CreateOp, TypeOK
  <2>3. CASE StartRedemption(l)
    BY <1>0, <1>1, <2>1, <2>3 DEF StartRedemption, CreateOp, TypeOK
  <2>. QED  BY <1>3, <2>2, <2>3
<1>4. ASSUME NEW p \in Process, Call(p) \/ Mine(p) \/ Crash(p)
      PROVE  opStatus'[o] = "NONE"
  <2>1. CASE Submit(p) \/ Poll(p) \/ Query(p) \/ Abort(p) \/ Mine(p) \/ Crash(p)
    BY <1>1, <2>1 DEF Submit, Poll, Query, Abort, Mine, Crash, dbVars, opVars
  <2>2. CASE Unknown(p) \/ ConfirmMint(p) \/ ConfirmBurn(p) \/ FailMint(p)
    <3>1. target[p] \in Op /\ saga[target[p]] # "NONE"
      BY <1>0, <2>2 DEF Unknown, ConfirmMint, ConfirmBurn, FailMint, ProcessInv
    <3>2. \/ opStatus' = opStatus
          \/ \E st \in {"CONFIRMED", "UNKNOWN", "FAILED"} : UpdateOp(target[p], st, TRUE)
      BY <2>2 DEF Unknown, ConfirmMint, ConfirmBurn, FailMint, dbVars, opVars
    <3>. QED  BY <1>1, <1>2, <3>1, <3>2
  <2>. QED  BY <1>4, <2>1, <2>2 DEF Call
<1>5. ASSUME NEW q \in Op, MineStray(q) \/ BackoffEnds(q)
      PROVE  opStatus'[o] = "NONE"
  BY <1>1, <1>5 DEF MineStray, BackoffEnds, dbVars, opVars
<1>6. ASSUME NEW a \in Admin, NEW q \in Op, RecoverOperation(a, q)
      PROVE  opStatus'[o] = "NONE"
  BY <1>1, <1>6 DEF RecoverOperation, dbVars, opVars
<1>7. ASSUME NEW w \in Worker, RecoverDueOperations(w)
      PROVE  opStatus'[o] = "NONE"
  <2>1. CASE Claim(w) \/ RecoverNext(w)
    BY <1>1, <2>1 DEF Claim, RecoverNext, dbVars, opVars
  <2>2. CASE DeferRecovery(w)
    <3>1. target[w] \in Op /\ saga[target[w]] # "NONE"
      BY <1>0, <2>2, OpFacts DEF DeferRecovery, ProcessInv
    <3>. QED  BY <1>1, <1>2, <2>2, <3>1 DEF DeferRecovery, opVars
  <2>3. CASE MoveExhausted(w)
    BY <1>1, <2>3 DEF MoveExhausted, Exhausted
  <2>. QED  BY <1>7, <2>1, <2>2, <2>3 DEF RecoverDueOperations
<1>. QED  BY <1>3, <1>4, <1>5, <1>6, <1>7 DEF Next

(* Every step keeps what is known of rows and chain. *)
LEMMA NextRecordInv ==
  ASSUME Base, Next, ProcessInv'
  PROVE  RecordInv'
<1>0. TypeOK /\ RecordInv
  BY DEF Base
<1>1. ASSUME NEW o \in Op, saga'[o] = "NONE"
      PROVE  Dead(o)' /\ opStatus'[o] = "NONE"
  <2>1. saga[o] = "NONE"
    BY <1>1, Started
  <2>. QED  BY <1>0, <1>1, <2>1, DeadStable, OpStatusStep DEF RecordInv
<1>2. ASSUME NEW l \in Lot
      PROVE  /\ saga'[MintOp(l)] = "NONE" => lock'[l] = "NONE" /\ saga'[BurnOp(l)] = "NONE"
             /\ lock'[l] = "NONE" => saga'[MintOp(l)] = "NONE"
             /\ saga'[MintOp(l)] = "MINTED" => executed'[MintOp(l)]
             /\ saga'[MintOp(l)] # "COMPLETED"
             /\ saga'[BurnOp(l)] \notin {"MINTED", "FAILED_RECOVERED"}
             /\ saga'[BurnOp(l)] = "COMPLETED"
                  => executed'[BurnOp(l)] /\ lock'[l] = "RELEASED"
  <2>1. /\ MintOp(l) \in Op /\ MintOp(l)[1] = "MINT" /\ MintOp(l)[2] = l
        /\ BurnOp(l) \in Op /\ BurnOp(l)[1] = "BURN" /\ BurnOp(l)[2] = l
    BY OpFacts
  <2>2. /\ saga[MintOp(l)] # "NONE" => saga'[MintOp(l)] # "NONE"
        /\ executed[MintOp(l)] => executed'[MintOp(l)]
        /\ executed[BurnOp(l)] => executed'[BurnOp(l)]
    BY <2>1, Started, ChainStep
  <2>3. saga'[MintOp(l)] = saga[MintOp(l)] \/ SagaChange(MintOp(l))
    BY <2>1, SagaStep
  <2>4. saga'[BurnOp(l)] = saga[BurnOp(l)] \/ SagaChange(BurnOp(l))
    BY <2>1, SagaStep
  <2>5. lock'[l] = lock[l] \/ LockChange(l)
    BY LockStep
  <2>6. /\ saga[MintOp(l)] = "NONE" => lock[l] = "NONE" /\ saga[BurnOp(l)] = "NONE"
        /\ lock[l] = "NONE" => saga[MintOp(l)] = "NONE"
        /\ saga[MintOp(l)] = "MINTED" => executed[MintOp(l)]
        /\ saga[MintOp(l)] # "COMPLETED"
        /\ saga[BurnOp(l)] \notin {"MINTED", "FAILED_RECOVERED"}
        /\ saga[BurnOp(l)] = "COMPLETED" => executed[BurnOp(l)] /\ lock[l] = "RELEASED"
    BY <1>0 DEF RecordInv, CompletedIsBurnt
  <2>7. saga'[MintOp(l)] = "NONE" => lock'[l] = "NONE" /\ saga'[BurnOp(l)] = "NONE"
    BY <2>1, <2>2, <2>4, <2>5, <2>6 DEF SagaChange, LockChange
  <2>8. lock'[l] = "NONE" => saga'[MintOp(l)] = "NONE"
    BY <2>1, <2>3, <2>5, <2>6 DEF SagaChange, LockChange
  <2>9. /\ saga'[MintOp(l)] = "MINTED" => executed'[MintOp(l)]
        /\ saga'[MintOp(l)] # "COMPLETED"
    BY <2>1, <2>2, <2>3, <2>6 DEF SagaChange
  <2>10. /\ saga'[BurnOp(l)] \notin {"MINTED", "FAILED_RECOVERED"}
         /\ saga'[BurnOp(l)] = "COMPLETED" => executed'[BurnOp(l)]
    BY <2>1, <2>2, <2>4, <2>6 DEF SagaChange
  <2>11. saga'[BurnOp(l)] = "COMPLETED" => lock'[l] = "RELEASED"
    BY <2>1, <2>4, <2>5, <2>6 DEF SagaChange, LockChange
  <2>. QED  BY <2>7, <2>8, <2>9, <2>10, <2>11
<1>. QED  BY <1>1, <1>2 DEF RecordInv, CompletedIsBurnt

(* The two together, for every step of the specification. *)
LEMMA NextBase ==
  ASSUME Base, [Next]_vars
  PROVE  Base'
<1>1. CASE Next
  BY <1>1, NextTypeOK, NextProcessInv, NextRecordInv DEF Base
<1>2. CASE UNCHANGED vars
  <2>1. TypeOK'
    BY <1>2 DEF vars, dbVars, chainVars, procVars, opVars, Base, TypeOK
  <2>2. ProcessInv'
    BY <1>2 DEF vars, dbVars, chainVars, procVars, opVars, Base, ProcessInv
  <2>3. RecordInv'
    BY <1>2 DEF vars, dbVars, chainVars, procVars, opVars, Base, RecordInv, Dead, Inert,
                CompletedIsBurnt
  <2>. QED  BY <2>1, <2>2, <2>3 DEF Base
<1>. QED  BY <1>1, <1>2

(* A process is about to fail a mint only after a query about it. *)
LEMMA FailMintStep ==
  ASSUME Base, Next, NEW p \in Process, pc'[p] = "failmint"
  PROVE  Query(p) \/ (pc[p] = "failmint" /\ target'[p] = target[p])
<1>0. TypeOK
  BY DEF Base
<1>1. ASSUME NEW l \in Lot, StartMint(l) \/ StartRedemption(l)
      PROVE  pc[p] = "failmint" /\ target'[p] = target[p]
  BY <1>0, <1>1, OpFacts DEF StartMint, StartRedemption, TypeOK
<1>2. ASSUME NEW q \in Process, Call(q) \/ Mine(q) \/ Crash(q)
      PROVE  Query(p) \/ (pc[p] = "failmint" /\ target'[p] = target[p])
  <2>1. CASE Submit(q) \/ Poll(q) \/ Query(q) \/ Mine(q)
    BY <1>0, <2>1 DEF Submit, Poll, Query, Mine, TypeOK
  <2>2. CASE Unknown(q) \/ ConfirmMint(q) \/ ConfirmBurn(q) \/ FailMint(q) \/ Abort(q)
    <3>1. PICK ok \in BOOLEAN : Return(q, ok)
      BY <2>2 DEF Unknown, ConfirmMint, ConfirmBurn, FailMint, Abort
    <3>. QED  BY <1>0, <3>1 DEF Return, TypeOK
  <2>3. CASE Crash(q)
    BY <1>0, <2>3 DEF Crash, TypeOK
  <2>. QED  BY <1>2, <2>1, <2>2, <2>3 DEF Call
<1>3. ASSUME NEW o \in Op, MineStray(o) \/ BackoffEnds(o)
      PROVE  pc[p] = "failmint" /\ target'[p] = target[p]
  BY <1>3 DEF MineStray, BackoffEnds, procVars
<1>4. ASSUME NEW a \in Admin, NEW o \in Op, RecoverOperation(a, o)
      PROVE  pc[p] = "failmint" /\ target'[p] = target[p]
  BY <1>0, <1>4, OpFacts DEF RecoverOperation, TypeOK
<1>5. ASSUME NEW w \in Worker, RecoverDueOperations(w)
      PROVE  pc[p] = "failmint" /\ target'[p] = target[p]
  <2>1. w \in Process
    BY OpFacts
  <2>2. CASE Claim(w) \/ MoveExhausted(w)
    BY <1>0, <2>1, <2>2 DEF Claim, MoveExhausted, TypeOK
  <2>3. CASE RecoverNext(w)
    BY <1>0, <2>1, <2>3 DEF RecoverNext, TypeOK
  <2>4. CASE DeferRecovery(w)
    BY <1>0, <2>1, <2>4 DEF DeferRecovery, TypeOK
  <2>. QED  BY <1>5, <2>2, <2>3, <2>4 DEF RecoverDueOperations
<1>. QED  BY <1>1, <1>2, <1>3, <1>4, <1>5 DEF Next

(* An early question is never forgotten. *)
LEMMA EarlyGrows ==
  ASSUME Next
  PROVE  early \subseteq early'
<1>1. ASSUME NEW p \in Process, Call(p)
      PROVE  early \subseteq early'
  BY <1>1 DEF Call, Submit, Poll, Unknown, ConfirmMint, ConfirmBurn, Query, FailMint, Abort, chainVars
<1>2. ASSUME NEW p \in Process, Mine(p) \/ Crash(p)
      PROVE  early \subseteq early'
  BY <1>2 DEF Mine, Crash
<1>3. ASSUME NEW w \in Worker, RecoverDueOperations(w)
      PROVE  early \subseteq early'
  BY <1>3 DEF RecoverDueOperations, Claim, RecoverNext, DeferRecovery, MoveExhausted, chainVars
<1>4. ASSUME NEW l \in Lot, StartMint(l) \/ StartRedemption(l)
      PROVE  early \subseteq early'
  BY <1>4 DEF StartMint, StartRedemption, chainVars
<1>5. ASSUME NEW o \in Op, MineStray(o) \/ BackoffEnds(o)
      PROVE  early \subseteq early'
  BY <1>5 DEF MineStray, BackoffEnds, chainVars
<1>6. ASSUME NEW a \in Admin, NEW o \in Op, RecoverOperation(a, o)
      PROVE  early \subseteq early'
  BY <1>6 DEF RecoverOperation, chainVars
<1>. QED  BY <1>1, <1>2, <1>3, <1>4, <1>5, <1>6 DEF Next

(* The answer about a mint that has started keeps its worth. *)
LEMMA RefutedStable ==
  ASSUME Base, Next, ProcessInv', NEW o \in Op, Refuted(o), o[1] = "MINT", saga[o] # "NONE"
  PROVE  Refuted(o)'
  BY DeadStable, EarlyGrows DEF Refuted

(* Recovery fails only mints that are dead or were asked about too early. *)
LEMMA NextDeadInv ==
  ASSUME Base, DeadInv, Next, Base'
  PROVE  DeadInv'
<1>0. TypeOK /\ ProcessInv /\ RecordInv /\ ProcessInv'
  BY DEF Base
<1>1. ASSUME NEW p \in Process, pc'[p] = "failmint"
      PROVE  Refuted(target[p])' /\ target'[p] = target[p]
  <2>1. CASE pc[p] = "failmint" /\ target'[p] = target[p]
    <3>1. PICK o \in Op : o = target[p]
      BY <1>0, <2>1 DEF ProcessInv
    <3>2. Refuted(o) /\ o[1] = "MINT" /\ saga[o] # "NONE"
      BY <1>0, <2>1, <3>1 DEF DeadInv, ProcessInv
    <3>3. Refuted(o)'
      BY <1>0, <3>2, RefutedStable
    <3>. QED  BY <2>1, <3>1, <3>3 DEF Refuted, Dead, Inert
  <2>2. CASE Query(p)
    <3>1. PICK o \in Op : o = target[p]
      BY <1>0, <2>2 DEF Query, ProcessInv
    <3>2. /\ ~executed[o] /\ o[1] = "MINT" /\ target' = target /\ tx' = tx
          /\ UNCHANGED <<executed, stray>>
          /\ pc' = [pc EXCEPT ![p] = "failmint"]
      BY <1>0, <1>1, <2>2, <3>1 DEF Query, TypeOK
    <3>3. CASE Inert(o)
      <4>1. Inert(o)'
        BY <1>0, <3>2, <3>3 DEF Inert, TypeOK
      <4>. QED  BY <3>1, <3>2, <4>1 DEF Refuted, Dead
    <3>4. CASE ~Inert(o)
      <4>1. o \in early'
        BY <2>2, <3>1, <3>2, <3>4 DEF Query
      <4>. QED  BY <3>1, <3>2, <4>1 DEF Refuted
    <3>. QED  BY <3>3, <3>4
  <2>. QED  BY <1>1, <2>1, <2>2, FailMintStep
<1>2. ASSUME NEW l \in Lot
      PROVE  /\ saga'[MintOp(l)] = "FAILED_RECOVERED" => Refuted(MintOp(l))'
             /\ lock'[l] = "RELEASED" => \/ saga'[MintOp(l)] = "FAILED_RECOVERED"
                                         \/ saga'[BurnOp(l)] = "COMPLETED"
  <2>1. /\ MintOp(l) \in Op /\ MintOp(l)[1] = "MINT" /\ MintOp(l)[2] = l
        /\ BurnOp(l) \in Op /\ BurnOp(l)[1] = "BURN" /\ BurnOp(l)[2] = l
    BY OpFacts
  <2>2. saga'[MintOp(l)] = saga[MintOp(l)] \/ SagaChange(MintOp(l))
    BY <2>1, SagaStep
  <2>3. saga'[BurnOp(l)] = saga[BurnOp(l)] \/ SagaChange(BurnOp(l))
    BY <2>1, SagaStep
  <2>4. lock'[l] = lock[l] \/ LockChange(l)
    BY LockStep
  <2>5. saga[MintOp(l)] = "FAILED_RECOVERED" => saga'[MintOp(l)] = "FAILED_RECOVERED"
    BY <2>1, <2>2 DEF SagaChange, Final
  <2>6. saga[BurnOp(l)] = "COMPLETED" => saga'[BurnOp(l)] = "COMPLETED"
    BY <2>1, <2>3 DEF SagaChange
  <2>7. ASSUME saga'[MintOp(l)] = "FAILED_RECOVERED"
        PROVE  Refuted(MintOp(l)) /\ saga[MintOp(l)] # "NONE"
    <3>1. CASE saga[MintOp(l)] = "FAILED_RECOVERED"
      BY <3>1 DEF DeadInv
    <3>2. CASE saga[MintOp(l)] # "FAILED_RECOVERED"
      <4>1. saga[MintOp(l)] # "NONE"
            /\ \E p \in Process : pc[p] = "failmint" /\ target[p] = MintOp(l)
        BY <2>1, <2>2, <2>7, <3>2 DEF SagaChange
      <4>. QED  BY <4>1 DEF DeadInv
    <3>. QED  BY <3>1, <3>2
  <2>8. saga'[MintOp(l)] = "FAILED_RECOVERED" => Refuted(MintOp(l))'
    BY <1>0, <2>1, <2>7, RefutedStable
  <2>9. lock'[l] = "RELEASED" => \/ saga'[MintOp(l)] = "FAILED_RECOVERED"
                                 \/ saga'[BurnOp(l)] = "COMPLETED"
    BY <2>4, <2>5, <2>6 DEF LockChange, DeadInv
  <2>. QED  BY <2>8, <2>9
<1>3. \A p \in Process : pc'[p] = "failmint" => Refuted(target[p])'
  <2>1. SUFFICES ASSUME NEW p \in Process, pc'[p] = "failmint"
                 PROVE  Refuted(target[p])'
    OBVIOUS
  <2>. QED  BY <1>1, <2>1
<1>. QED  BY <1>2, <1>3 DEF DeadInv

(* The same for a step that stutters. *)
LEMMA NextDead ==
  ASSUME Base, DeadInv, [Next]_vars
  PROVE  DeadInv'
<1>1. CASE Next
  BY <1>1, NextBase, NextDeadInv
<1>2. CASE UNCHANGED vars
  BY <1>2 DEF vars, dbVars, chainVars, procVars, DeadInv, Refuted, Dead, Inert
<1>. QED  BY <1>1, <1>2

-----------------------------------------------------------------------------
(* Holdings *)

(* A mint that is final and executed may have credited the holding, once: a  *)
(* confirmation finds it final and leaves it.  A recovery may still fail it, *)
(* which takes nothing back.                                                 *)
Credited  == {l \in Lot : saga[MintOp(l)] \in Final /\ executed[MintOp(l)]}
Completed == {l \in Lot : saga[BurnOp(l)] = "COMPLETED"}

CreditInv == holding + Cardinality(Completed) <= Cardinality(Credited)

(* Sets of lots have a size, and larger sets a larger one. *)
LEMMA LotSets ==
  ASSUME NEW S \in SUBSET Lot, NEW R \in SUBSET Lot
  PROVE  /\ Cardinality(S) \in Nat
         /\ S \subseteq R => Cardinality(S) <= Cardinality(R)
         /\ \A l \in Lot \ S : Cardinality(S \cup {l}) = Cardinality(S) + 1
<1>1. IsFiniteSet(S) /\ IsFiniteSet(R)
  BY RwaAssumption, FS_Subset
<1>2. \A l \in Lot \ S : Cardinality(S \cup {l}) = Cardinality(S) + 1
  BY <1>1, FS_AddElement
<1>. QED  BY <1>1, <1>2, FS_CardinalityType, FS_Subset

(* What was credited stays credited. *)
LEMMA CreditedGrows ==
  ASSUME Base, Next
  PROVE  Credited \subseteq Credited'
<1>. SUFFICES ASSUME NEW l \in Credited  PROVE l \in Credited'
  OBVIOUS
<1>1. /\ l \in Lot /\ MintOp(l) \in Op /\ MintOp(l)[1] = "MINT"
      /\ saga[MintOp(l)] \in Final /\ executed[MintOp(l)]
  BY OpFacts DEF Credited
<1>2. executed'[MintOp(l)]
  BY <1>1, ChainStep
<1>3. saga'[MintOp(l)] \in Final
  BY <1>1, SagaStep DEF SagaChange, Final
<1>. QED  BY <1>1, <1>2, <1>3 DEF Credited

(* A step that leaves the holding and completes nothing. *)
LEMMA NoCredit ==
  ASSUME Base, Next, CreditInv, holding' = holding, Completed' \subseteq Completed
  PROVE  CreditInv'
<1>1. /\ Credited \in SUBSET Lot /\ Credited' \in SUBSET Lot
      /\ Completed \in SUBSET Lot /\ Completed' \in SUBSET Lot
  BY DEF Credited, Completed
<1>2. Cardinality(Credited) <= Cardinality(Credited')
      /\ Cardinality(Completed') <= Cardinality(Completed)
  BY <1>1, CreditedGrows, LotSets
<1>3. /\ Cardinality(Credited) \in Nat /\ Cardinality(Credited') \in Nat
      /\ Cardinality(Completed) \in Nat /\ Cardinality(Completed') \in Nat
      /\ holding \in Nat
  BY <1>1, LotSets DEF Base, TypeOK
<1>. QED  BY <1>2, <1>3 DEF CreditInv

(* The confirmation of a mint credits one lot, which was not credited. *)
LEMMA MintCredits ==
  ASSUME Base, Next, CreditInv, NEW l \in Lot, saga[MintOp(l)] \notin Final,
         executed[MintOp(l)], saga' = [saga EXCEPT ![MintOp(l)] = "MINTED"],
         holding' = holding + 1
  PROVE  CreditInv'
<1>0. TypeOK /\ MintOp(l) \in Op
  BY OpFacts DEF Base
<1>1. /\ Credited \in SUBSET Lot /\ Credited' \in SUBSET Lot
      /\ Completed \in SUBSET Lot
  BY DEF Credited, Completed
<1>2. l \notin Credited /\ Credited \cup {l} \subseteq Credited'
  <2>1. saga'[MintOp(l)] \in Final /\ executed'[MintOp(l)]
    BY <1>0, ChainStep DEF TypeOK, Final
  <2>. QED  BY <2>1, CreditedGrows DEF Credited
<1>3. Completed' = Completed
  BY <1>0, OpFacts DEF Completed, TypeOK
<1>4. /\ Cardinality(Credited \cup {l}) = Cardinality(Credited) + 1
      /\ Cardinality(Credited \cup {l}) <= Cardinality(Credited')
      /\ Cardinality(Credited) \in Nat /\ Cardinality(Credited') \in Nat
      /\ Cardinality(Completed) \in Nat
  <2>1. Credited \cup {l} \in SUBSET Lot
    BY <1>1
  <2>. QED  BY <1>1, <1>2, <2>1, LotSets
<1>5. holding \in Nat
  BY <1>0 DEF TypeOK
<1>. QED  BY <1>3, <1>4, <1>5 DEF CreditInv

(* The confirmation of a burn trades a lot held for one redeemed. *)
LEMMA BurnTrades ==
  ASSUME Base, Next, CreditInv, NEW l \in Lot, saga[BurnOp(l)] # "COMPLETED",
         saga' = [saga EXCEPT ![BurnOp(l)] = "COMPLETED"],
         holding >= 1, holding' = holding - 1
  PROVE  CreditInv'
<1>0. TypeOK /\ BurnOp(l) \in Op
  BY OpFacts DEF Base
<1>1. /\ Credited \in SUBSET Lot /\ Credited' \in SUBSET Lot
      /\ Completed \in SUBSET Lot
  BY DEF Credited, Completed
<1>2. l \notin Completed /\ Completed' = Completed \cup {l}
  BY <1>0, OpFacts DEF Completed, TypeOK
<1>3. /\ Cardinality(Completed \cup {l}) = Cardinality(Completed) + 1
      /\ Cardinality(Credited) <= Cardinality(Credited')
      /\ Cardinality(Credited) \in Nat /\ Cardinality(Credited') \in Nat
      /\ Cardinality(Completed) \in Nat
  BY <1>1, <1>2, CreditedGrows, LotSets
<1>4. holding \in Nat
  BY <1>0 DEF TypeOK
<1>. QED  BY <1>2, <1>3, <1>4 DEF CreditInv

(* Every step keeps the count. *)
LEMMA NextCredit ==
  ASSUME Base, Next, CreditInv
  PROVE  CreditInv'
<1>0. TypeOK /\ ProcessInv
  BY DEF Base
<1>1. CASE UNCHANGED <<lock, saga, holding>>
  BY <1>1, NoCredit DEF Completed
<1>2. ASSUME NEW l \in Lot, StartMint(l)
      PROVE  CreditInv'
  <2>1. holding' = holding /\ saga' = [saga EXCEPT ![MintOp(l)] = "CHAIN_PENDING"]
    BY <1>2 DEF StartMint
  <2>2. Completed' \subseteq Completed
    BY <1>0, <2>1, OpFacts DEF Completed, TypeOK
  <2>. QED  BY <2>1, <2>2, NoCredit
<1>3. ASSUME NEW l \in Lot, StartRedemption(l)
      PROVE  CreditInv'
  <2>1. holding' = holding /\ saga' = [saga EXCEPT ![BurnOp(l)] = "CHAIN_PENDING"]
    BY <1>3 DEF StartRedemption
  <2>2. Completed' \subseteq Completed
    BY <1>0, <2>1, OpFacts DEF Completed, TypeOK
  <2>. QED  BY <2>1, <2>2, NoCredit
<1>4. ASSUME NEW p \in Process, Unknown(p) \/ ConfirmMint(p) \/ ConfirmBurn(p) \/ FailMint(p)
      PROVE  CreditInv'
  <2>1. target[p] \in Op /\ target[p][2] \in Lot
    BY <1>0, <1>4, OpFacts DEF Unknown, ConfirmMint, ConfirmBurn, FailMint, ProcessInv
  <2>2. CASE Unknown(p)
    <3>1. /\ holding' = holding
          /\ saga' = saga \/ saga' = [saga EXCEPT ![target[p]] = "RECOVERY_REQUIRED"]
      BY <2>2 DEF Unknown, dbVars
    <3>2. Completed' \subseteq Completed
      BY <1>0, <3>1, OpFacts DEF Completed, TypeOK
    <3>. QED  BY <3>1, <3>2, NoCredit
  <2>3. CASE FailMint(p)
    <3>1. /\ holding' = holding
          /\ saga' = saga \/ saga' = [saga EXCEPT ![target[p]] = "FAILED_RECOVERED"]
      BY <2>3 DEF FailMint, dbVars
    <3>2. Completed' \subseteq Completed
      BY <1>0, <3>1, OpFacts DEF Completed, TypeOK
    <3>. QED  BY <3>1, <3>2, NoCredit
  <2>4. CASE ConfirmMint(p)
    <3>1. CASE UNCHANGED dbVars
      BY <1>1, <3>1 DEF dbVars
    <3>2. CASE ~UNCHANGED dbVars
      <4>1. /\ saga[target[p]] \notin Final
            /\ saga' = [saga EXCEPT ![target[p]] = "MINTED"]
            /\ holding' = holding + 1 /\ pc[p] = "confirm" /\ target[p][1] = "MINT"
        BY <2>4, <3>2 DEF ConfirmMint
      <4>2. executed[target[p]] /\ target[p] = MintOp(target[p][2])
        BY <1>0, <2>1, <4>1, OpSplit DEF ProcessInv
      <4>. QED  BY <2>1, <4>1, <4>2, MintCredits
    <3>. QED  BY <3>1, <3>2
  <2>5. CASE ConfirmBurn(p)
    <3>1. CASE UNCHANGED dbVars
      BY <1>1, <3>1 DEF dbVars
    <3>2. CASE ~UNCHANGED dbVars
      <4>1. /\ saga[target[p]] # "COMPLETED"
            /\ saga' = [saga EXCEPT ![target[p]] = "COMPLETED"]
            /\ holding >= 1 /\ holding' = holding - 1 /\ target[p][1] = "BURN"
        BY <2>5, <3>2 DEF ConfirmBurn
      <4>2. target[p] = BurnOp(target[p][2])
        BY <2>1, <4>1, OpSplit
      <4>. QED  BY <2>1, <4>1, <4>2, BurnTrades
    <3>. QED  BY <3>1, <3>2
  <2>. QED  BY <1>4, <2>2, <2>3, <2>4, <2>5
<1>. QED  BY <1>1, <1>2, <1>3, <1>4, RequestStep

(* The count at the start and over a stuttering step. *)
LEMMA CreditAlways == Spec => [](Base /\ CreditInv)
<1>1. Init => Base /\ CreditInv
  <2>. SUFFICES ASSUME Init  PROVE Base /\ CreditInv
    OBVIOUS
  <2>1. Base
    BY InitBase
  <2>2. Completed = {} /\ holding = 0
    BY OpFacts DEF Init, Completed
  <2>3. Cardinality(Credited) \in Nat
    BY LotSets DEF Credited
  <2>. QED  BY <2>1, <2>2, <2>3, FS_EmptySet DEF CreditInv
<1>2. Base /\ CreditInv /\ [Next]_vars => (Base /\ CreditInv)'
  <2>1. CreditInv /\ UNCHANGED vars => CreditInv'
    BY DEF vars, dbVars, chainVars, CreditInv, Credited, Completed
  <2>. QED  BY <2>1, NextBase, NextCredit
<1>. QED  BY <1>1, <1>2, PTL DEF Spec

-----------------------------------------------------------------------------
(* Theorems *)

(* The invariant of every behaviour. *)
LEMMA BaseInvariant == Spec => []Base
<1>1. Init => Base
  BY InitBase
<1>2. Base /\ [Next]_vars => Base'
  BY NextBase
<1>. QED  BY <1>1, <1>2, PTL DEF Spec

(* The same with the worth of the answers that failed mints. *)
LEMMA DeadInvariant == Spec => [](Base /\ DeadInv)
<1>1. Init => Base /\ DeadInv
  BY InitBase
<1>2. Base /\ DeadInv /\ [Next]_vars => (Base /\ DeadInv)'
  BY NextBase, NextDead
<1>. QED  BY <1>1, <1>2, PTL DEF Spec

(* Every variable keeps its type, the counters of attempts and abandoned     *)
(* transactions their bounds and the holding stays a natural number.         *)
THEOREM TypeCorrect == Spec => []TypeOK
<1>1. Base => TypeOK
  BY DEF Base
<1>. QED  BY <1>1, BaseInvariant, PTL

(* However requests, recoveries, crashes and late transactions interleave, a *)
(* completed redemption is one whose burn was executed and whose lot is      *)
(* free: confirmRedemption never releases shares early.                      *)
THEOREM Redeemed == Spec => []CompletedIsBurnt
<1>1. Base => CompletedIsBurnt
  BY DEF Base, RecordInv
<1>. QED  BY <1>1, BaseInvariant, PTL

(* Every lot the customer holds or has redeemed is a token that was minted,  *)
(* for any number of lots, repeated confirmations and recoveries, early or   *)
(* not: finishMint credits a mint once.                                      *)
THEOREM HoldingsBacked == Spec => []HoldingsAreTokens
<1>1. ASSUME Base, CreditInv
      PROVE  HoldingsAreTokens
  <2>. DEFINE Tokens == {l \in Lot : executed[MintOp(l)]}
  <2>1. /\ Credited \in SUBSET Lot /\ Tokens \in SUBSET Lot /\ Completed \in SUBSET Lot
        /\ Credited \subseteq Tokens
    BY DEF Credited, Completed
  <2>2. /\ Cardinality(Credited) <= Cardinality(Tokens)
        /\ Cardinality(Credited) \in Nat /\ Cardinality(Tokens) \in Nat
        /\ Cardinality(Completed) \in Nat
    BY <2>1, LotSets
  <2>3. holding + Cardinality(Completed) <= Cardinality(Tokens)
    <3>. HIDE DEF Tokens
    <3>1. holding \in Nat
      BY <1>1 DEF Base, TypeOK
    <3>. QED  BY <1>1, <2>2, <3>1 DEF CreditInv
  <2>. QED  BY <2>3 DEF HoldingsAreTokens, Completed
<1>. QED  BY <1>1, CreditAlways, PTL

(* Every token on the chain is backed by its locked lot, unless recovery was *)
(* told that its mint is not executed while a transaction of that mint was   *)
(* outstanding, and failed the request on that answer: there is no other way *)
(* to an unbacked token.                                                     *)
THEOREM Backed == Spec => []OnlyEarlyQueriesUnback
<1>1. ASSUME Base, DeadInv, NEW l \in Lot, executed[MintOp(l)], ~executed[BurnOp(l)],
             lock[l] # "LOCKED"
      PROVE  MintOp(l) \in early /\ saga[MintOp(l)] = "FAILED_RECOVERED"
  <2>1. MintOp(l) \in Op /\ BurnOp(l) \in Op
    BY OpFacts
  <2>2. lock[l] = "RELEASED"
    BY <1>1, <2>1 DEF Base, TypeOK, RecordInv, Dead
  <2>3. saga[MintOp(l)] = "FAILED_RECOVERED"
    BY <1>1, <2>1, <2>2 DEF Base, RecordInv, CompletedIsBurnt, DeadInv
  <2>4. MintOp(l) \in early
    BY <1>1, <2>3 DEF DeadInv, Refuted, Dead
  <2>. QED  BY <2>3, <2>4
<1>2. Base /\ DeadInv => OnlyEarlyQueriesUnback
  BY <1>1 DEF OnlyEarlyQueriesUnback
<1>. QED  BY <1>2, DeadInvariant, PTL

(* What a customer was told is final stays: recoverFailedMint, which does    *)
(* not look at the request's status, overwrites nothing but a minted request *)
(* whose mint was asked about too early.                                     *)
THEOREM FinalStates == Spec => OnlyEarlyQueriesReopen
<1>1. ASSUME Base, DeadInv, [Next]_vars, NEW o \in Op, saga[o] \in Final, saga'[o] # saga[o]
      PROVE  saga[o] = "MINTED" /\ o \in early /\ saga'[o] = "FAILED_RECOVERED"
  <2>1. SagaChange(o)
    BY <1>1, SagaStep DEF vars, dbVars
  <2>2. /\ \A p \in Process : pc[p] = "failmint" => Refuted(target[p])
        /\ \A l \in Lot : /\ saga[MintOp(l)] = "MINTED" => executed[MintOp(l)]
                          /\ saga[MintOp(l)] # "COMPLETED"
                          /\ saga[BurnOp(l)] \notin {"MINTED", "FAILED_RECOVERED"}
    BY <1>1 DEF Base, RecordInv, DeadInv
  <2>3. o[2] \in Lot /\ (o = MintOp(o[2]) \/ o = BurnOp(o[2]))
        /\ MintOp(o[2])[1] = "MINT" /\ BurnOp(o[2])[1] = "BURN"
    BY OpFacts, OpSplit
  <2>4. /\ saga'[o] = "FAILED_RECOVERED" /\ saga[o] = "MINTED"
        /\ \E p \in Process : pc[p] = "failmint" /\ target[p] = o
    BY <1>1, <2>1, <2>2, <2>3 DEF SagaChange, Final
  <2>5. executed[o]
    BY <2>2, <2>3, <2>4
  <2>. QED  BY <2>2, <2>4, <2>5 DEF Refuted, Dead
<1>2. Base /\ DeadInv /\ [Next]_vars
        => [\A o \in Op : saga[o] \in Final /\ saga'[o] # saga[o]
              => saga[o] = "MINTED" /\ o \in early /\ saga'[o] = "FAILED_RECOVERED"]_vars
  BY <1>1
<1>. QED  BY <1>2, DeadInvariant, PTL DEF Spec, OnlyEarlyQueriesReopen

-----------------------------------------------------------------------------
(* Administration: a dividend is a rounded product, so first comes how far *)
(* a product is off.                                                       *)


(* A product under a mode that rounds to the nearest is within half a unit *)
(* of what it stands for: dividends, prices and fees (Multiply).           *)
THEOREM MultiplyError ==
  ASSUME NEW d \in Int, NEW other \in Int, NEW unit \in Nat \ {0}, NEW mode \in HalfMode
  PROVE  2 * Magnitude(One * Multiply(d, other, unit, mode) - d * other) =< One * unit
<1>. DEFINE n == d * other
            scale == One * unit
            k == roundRatio(n, scale, mode)
<1>1. n \in Int /\ scale \in Nat \ {0} /\ mode \in RoundingMode
  BY OneAssumption DEF HalfMode, RoundingMode
<1>. HIDE DEF n, scale
<1>2. k \in Int
  BY <1>1, RoundRatioType
<1>3. 2 * Magnitude(k * scale - n) =< Magnitude(scale)
  BY <1>1, RoundingError
<1>4. Magnitude(scale) = scale
  BY <1>1 DEF Magnitude
<1>. HIDE DEF k
<1>5. One * (unit * k) = k * scale
  BY <1>2, OneAssumption DEF scale
<1>6. Multiply(d, other, unit, mode) = unit * k
  BY DEF Multiply, k, n, scale
<1>. QED  BY <1>3, <1>4, <1>5, <1>6 DEF n, scale

-----------------------------------------------------------------------------
(* Types                                                                   *)
LEMMA TypesInitially == AdminInit => AdminTypeOK
<1>. SUFFICES ASSUME AdminInit  PROVE AdminTypeOK
  OBVIOUS
<1>. USE DEF AdminInit, AddressInit, IncomeInit
<1>1. AddressTypeOK
  BY DEF AddressTypeOK
<1>2. IncomeTypeOK
  BY IncomeAssumption DEF IncomeTypeOK, LotStatus, Opened, Balances, Dimension
<1>. QED  BY <1>1, <1>2, ClockAssumption DEF AdminTypeOK

(* What is received is a sum of a finite number of rounded products.       *)
LEMMA CentType == Cent \in Nat \ {0} /\ One = 100 * Cent
<1>1. One = 100 * (One \div 100) + (One % 100) /\ One \div 100 \in Nat
  BY OneAssumption, Division
<1>. QED  BY <1>1, OneAssumption, IncomeAssumption DEF Cent

LEMMA TotalType ==
  ASSUME NEW S \in SUBSET Lots
  PROVE  Total(S) \in Nat
<1>1. IsFiniteSet(S) /\ \A l \in S : LotSize[l] \in Nat
  BY IncomeAssumption, FS_Subset
<1>. QED  BY <1>1, SumNat DEF Total

LEMMA GrossType ==
  ASSUME NEW shares \in Nat, NEW rate \in Rates
  PROVE  Gross(shares, rate) \in Nat
<1>. DEFINE n == shares * One * rate
            d == One * Cent
<1>1. rate \in Nat /\ One \in Nat \ {0} /\ Cent \in Nat \ {0}
  BY OneAssumption, IncomeAssumption, CentType
<1>2. n \in Nat /\ d \in Nat \ {0} /\ "HALF_EVEN" \in RoundingMode
  BY <1>1 DEF RoundingMode
<1>. HIDE DEF n, d
<1>3. Rounded(n, d, "HALF_EVEN") \in Nat
  BY <1>2, MagnitudeRounded
<1>4. roundRatio(n, d, "HALF_EVEN") = Rounded(n, d, "HALF_EVEN")
  BY <1>2 DEF roundRatio, Rounded, Magnitude
<1>5. Gross(shares, rate) = Cent * roundRatio(n, d, "HALF_EVEN")
  BY DEF Gross, Multiply, n, d
<1>. QED  BY <1>1, <1>3, <1>4, <1>5

(* What an action that leaves something alone keeps. *)
LEMMA AddressTypes ==
  ASSUME AdminTypeOK, AddressTypeOK', UNCHANGED <<clock, incomeVars>>,
         calls' \in [Callers -> ReviewCall \cup ActivationCall \cup ReconcileCall \cup {None}]
  PROVE  AdminTypeOK'
  BY DEF AdminTypeOK, IncomeTypeOK, incomeVars

LEMMA EndTypes ==
  ASSUME AdminTypeOK, NEW p \in Callers, End(p)
  PROVE  calls' \in [Callers -> ReviewCall \cup ActivationCall \cup ReconcileCall \cup {None}]
  BY DEF AdminTypeOK, End

LEMMA RowTypes ==
  ASSUME AdminTypeOK, NEW a \in Addresses, NEW row \in AddressRow,
         addresses' = [addresses EXCEPT ![a] = row], UNCHANGED permitted
  PROVE  AddressTypeOK'
  BY DEF AdminTypeOK, AddressTypeOK

LEMMA AddressTypeStep ==
  ASSUME AdminTypeOK, AddressNext, UNCHANGED incomeVars
  PROVE  AdminTypeOK'
<1>. DEFINE Calls == [Callers -> ReviewCall \cup ActivationCall \cup ReconcileCall \cup {None}]
<1>. USE DEF Is, Registered
<1>1. ASSUME NEW a \in Addresses, NEW provable \in BOOLEAN, RegisterExternalAddress(a, provable)
      PROVE  AdminTypeOK'
  <2>. DEFINE row == [status |-> "PENDING_PROOF", proven |-> provable, cleared |-> FALSE,
                      coolingEndsAt |-> 0]
  <2>1. row \in AddressRow
    BY DEF AddressRow, AddressStatus
  <2>. QED
    BY <1>1, <2>1, RowTypes, AddressTypes
       DEF RegisterExternalAddress, CreateExternalAddress, AdminTypeOK
<1>2. ASSUME NEW a \in Addresses, CompleteAddressProof(a)  PROVE AdminTypeOK'
  <2>. DEFINE row == MarkAddressRiskReview(MarkAddressProofVerified(addresses[a]))
  <2>1. addresses[a] \in AddressRow
    BY <1>2 DEF CompleteAddressProof, AdminTypeOK, AddressTypeOK
  <2>2. row \in AddressRow
    BY <2>1 DEF MarkAddressRiskReview, MarkAddressProofVerified, AddressRow, AddressStatus
  <2>3. addresses' = [addresses EXCEPT ![a] = row]
    BY <1>2 DEF CompleteAddressProof
  <2>. QED
    BY <1>2, <2>2, <2>3, RowTypes, AddressTypes DEF CompleteAddressProof, AdminTypeOK
<1>3. ASSUME NEW p \in Callers, NEW a \in Addresses, BeginActivation(p, a)  PROVE AdminTypeOK'
  <2>1. [at |-> "ACTIVATE", address |-> a, granted |-> {}] \in ActivationCall
    BY DEF ActivationCall
  <2>2. calls' \in Calls
    BY <1>3, <2>1 DEF BeginActivation, Begin, AdminTypeOK
  <2>. QED  BY <1>3, <2>2, AddressTypes DEF BeginActivation, AdminTypeOK, AddressTypeOK
<1>4. ASSUME NEW p \in Callers, NEW a \in Addresses, NEW clear \in BOOLEAN, AskRisk(p, a, clear)
      PROVE  AdminTypeOK'
  <2>1. [at |-> "REVIEW", address |-> a, clear |-> clear] \in ReviewCall
    BY DEF ReviewCall
  <2>2. calls' \in Calls
    BY <1>4, <2>1 DEF AskRisk, Begin, AdminTypeOK
  <2>. QED  BY <1>4, <2>2, AddressTypes DEF AskRisk, AdminTypeOK, AddressTypeOK
<1>5. ASSUME NEW p \in Callers, NEW approve \in BOOLEAN, ReviewExternalAddress(p, approve)
      PROVE  AdminTypeOK'
  <2>. DEFINE a == calls[p].address
  <2>1. a \in Addresses
    BY <1>5 DEF ReviewExternalAddress, ReviewCall
  <2>2. calls' \in Calls
    BY <1>5, EndTypes DEF ReviewExternalAddress
  <2>3. CASE addresses' = addresses
    BY <1>5, <2>2, <2>3, AddressTypes DEF ReviewExternalAddress, AdminTypeOK, AddressTypeOK
  <2>4. CASE Is(a, "RISK_REVIEW") /\ (MarkAddressCooling(a) \/ RejectExternalAddress(a))
    <3>1. addresses[a] \in AddressRow /\ clock + AddressCooling \in Nat
      BY <2>1, <2>4, CoolingAssumption, ClockAssumption DEF AdminTypeOK, AddressTypeOK
    <3>2. PICK row \in AddressRow : addresses' = [addresses EXCEPT ![a] = row]
      <4>1. CASE MarkAddressCooling(a)
        <5>. DEFINE row == [addresses[a] EXCEPT !.status = "COOLING", !.cleared = TRUE,
                                                !.coolingEndsAt = clock + AddressCooling]
        <5>1. row \in AddressRow
          BY <3>1 DEF AddressRow, AddressStatus
        <5>2. addresses' = [addresses EXCEPT ![a] = row]
          BY <2>1, <4>1 DEF MarkAddressCooling, AdminTypeOK, AddressTypeOK
        <5>. QED  BY <5>1, <5>2
      <4>2. CASE RejectExternalAddress(a)
        <5>. DEFINE row == [addresses[a] EXCEPT !.status = "REJECTED"]
        <5>1. row \in AddressRow
          BY <3>1 DEF AddressRow, AddressStatus
        <5>2. addresses' = [addresses EXCEPT ![a] = row]
          BY <2>1, <4>2 DEF RejectExternalAddress, AdminTypeOK, AddressTypeOK
        <5>. QED  BY <5>1, <5>2
      <4>. QED  BY <2>4, <4>1, <4>2
    <3>. QED  BY <1>5, <2>1, <2>2, <3>2, RowTypes, AddressTypes DEF ReviewExternalAddress
  <2>. QED  BY <1>5, <2>3, <2>4 DEF ReviewExternalAddress
<1>6. ASSUME NEW p \in Callers, NEW asset \in Assets, SetPermission(p, asset)  PROVE AdminTypeOK'
  <2>1. calls[p] \in ActivationCall /\ calls[p].address \in Addresses
    BY <1>6 DEF SetPermission, ActivationCall
  <2>2. AddressTypeOK'
    BY <1>6, <2>1 DEF SetPermission, AdminTypeOK, AddressTypeOK
  <2>3. [calls[p] EXCEPT !.granted = @ \cup {asset}] \in ActivationCall
    BY <2>1 DEF ActivationCall
  <2>4. calls' \in Calls
    BY <1>6, <2>3 DEF SetPermission, AdminTypeOK
  <2>. QED  BY <1>6, <2>2, <2>4, AddressTypes DEF SetPermission
<1>7. ASSUME NEW p \in Callers, ActivateExternalAddress(p)  PROVE AdminTypeOK'
  <2>. DEFINE a == calls[p].address
              row == [addresses[a] EXCEPT !.status = "ACTIVE"]
  <2>1. a \in Addresses
    BY <1>7 DEF ActivateExternalAddress, ActivationCall
  <2>2. calls' \in Calls
    BY <1>7, EndTypes DEF ActivateExternalAddress
  <2>3. CASE addresses' = addresses
    BY <1>7, <2>2, <2>3, AddressTypes DEF ActivateExternalAddress, AdminTypeOK, AddressTypeOK
  <2>4. CASE MayActivate(a) /\ addresses' = [addresses EXCEPT ![a].status = "ACTIVE"]
    <3>1. addresses[a] \in AddressRow
      BY <2>1, <2>4 DEF MayActivate, AdminTypeOK, AddressTypeOK
    <3>2. row \in AddressRow
      BY <3>1 DEF AddressRow, AddressStatus
    <3>3. addresses' = [addresses EXCEPT ![a] = row]
      BY <2>1, <2>4 DEF AdminTypeOK, AddressTypeOK
    <3>. QED  BY <1>7, <2>1, <2>2, <3>2, <3>3, RowTypes, AddressTypes DEF ActivateExternalAddress
  <2>. QED  BY <1>7, <2>3, <2>4 DEF ActivateExternalAddress
<1>. QED  BY <1>1, <1>2, <1>3, <1>4, <1>5, <1>6, <1>7 DEF AddressNext

LEMMA IncomeTypes ==
  ASSUME AdminTypeOK, IncomeTypeOK', UNCHANGED <<addresses, permitted, clock>>,
         calls' \in [Callers -> ReviewCall \cup ActivationCall \cup ReconcileCall \cup {None}]
  PROVE  AdminTypeOK'
  BY DEF AdminTypeOK, AddressTypeOK

LEMMA EntitlementsType ==
  ASSUME AdminTypeOK, NEW a \in Assets, NEW rate \in Rates
  PROVE  Entitlements(a, rate) \in [Customers -> Entitlement]
<1>1. ASSUME NEW c \in Customers  PROVE Holding(c, a) \in Nat /\ Gross(Holding(c, a), rate) \in Nat
  BY TotalType, GrossType DEF Holding
<1>. QED  BY <1>1 DEF Entitlements, Entitlement

LEMMA PaymentTypes ==
  ASSUME AdminTypeOK, NEW d \in Dividends, ProcessDividend(d)
  PROVE  /\ dividends[d] \in DividendRow
         /\ LET paid == Entitlements(dividends[d].asset, dividends[d].usdPerShare)
            IN  /\ paid \in [Customers -> Entitlement]
                /\ dividends' = [dividends EXCEPT ![d] =
                       [dividends[d] EXCEPT !.status = "RECONCILED", !.entitlements = paid]]
                /\ dividends'[d] \in DividendRow
                /\ dividends' \in [Dividends -> DividendRow \cup {None}]
                /\ cash' = [c \in Customers |-> Post(cash[c], [SETTLED |-> paid[c].net])]
<1>. DEFINE row == dividends[d]
            paid == Entitlements(row.asset, row.usdPerShare)
            new == [row EXCEPT !.status = "RECONCILED", !.entitlements = paid]
<1>1. row \in DividendRow
  BY DEF AdminTypeOK, IncomeTypeOK, ProcessDividend
<1>2. paid \in [Customers -> Entitlement]
  BY <1>1, EntitlementsType DEF DividendRow
<1>3. dividends' = [dividends EXCEPT ![d] = new]
  BY DEF ProcessDividend, AdminTypeOK, IncomeTypeOK
<1>4. cash' = [c \in Customers |-> Post(cash[c], [SETTLED |-> paid[c].net])]
  BY DEF ProcessDividend
<1>. HIDE DEF paid
<1>5. new \in DividendRow
  BY <1>1, <1>2 DEF DividendRow
<1>. HIDE DEF new
<1>6. dividends'[d] \in DividendRow /\ dividends' \in [Dividends -> DividendRow \cup {None}]
  BY <1>3, <1>5 DEF AdminTypeOK, IncomeTypeOK
<1>. QED  BY <1>1, <1>2, <1>3, <1>4, <1>6 DEF paid, new

LEMMA IncomeTypeStep ==
  ASSUME AdminTypeOK, IncomeNext
  PROVE  AdminTypeOK'
<1>. DEFINE Calls == [Callers -> ReviewCall \cup ActivationCall \cup ReconcileCall \cup {None}]
<1>1. ASSUME NEW l \in Lots, NEW destination \in Addresses \cup {Vault},
             CreateUnderlyingLock(l, destination)
      PROVE  AdminTypeOK'
  BY <1>1, IncomeTypes DEF CreateUnderlyingLock, AdminTypeOK, IncomeTypeOK, LotStatus
<1>2. ASSUME NEW l \in Lots, NEW from, NEW to \in LotStatus, Move(l, from, to)  PROVE AdminTypeOK'
  BY <1>2, IncomeTypes DEF Move, AdminTypeOK, IncomeTypeOK
<1>3. ASSUME NEW l \in Lots,
             Minted(l) \/ confirmMint(l) \/ RecoverFailedMint(l) \/ Burnt(l) \/ ConfirmRedemption(l)
      PROVE  AdminTypeOK'
  BY <1>2, <1>3 DEF Minted, confirmMint, RecoverFailedMint, Burnt, ConfirmRedemption, LotStatus
<1>4. ASSUME NEW d \in Dividends, NEW a \in Assets, NEW rate \in Rates,
             NEW at \in 0 .. MaxClock, AnnounceDividend(d, a, rate, at)
      PROVE  AdminTypeOK'
  <2>. DEFINE row == [status |-> "ANNOUNCED", asset |-> a, usdPerShare |-> rate, payableAt |-> at,
                      entitlements |-> [c \in Customers |-> [shares |-> 0, net |-> 0]]]
  <2>1. row \in DividendRow
    BY DEF DividendRow, Entitlement
  <2>2. dividends' = [dividends EXCEPT ![d] = row]
    BY <1>4 DEF AnnounceDividend
  <2>. HIDE DEF row
  <2>3. dividends' \in [Dividends -> DividendRow \cup {None}]
    BY <2>1, <2>2 DEF AdminTypeOK, IncomeTypeOK
  <2>. QED  BY <1>4, <2>3, IncomeTypes DEF AnnounceDividend, AdminTypeOK, IncomeTypeOK
<1>5. ASSUME NEW d \in Dividends, ProcessDividend(d)  PROVE AdminTypeOK'
  <2>. DEFINE paid == Entitlements(dividends[d].asset, dividends[d].usdPerShare)
  <2>1. /\ paid \in [Customers -> Entitlement]
        /\ dividends' \in [Dividends -> DividendRow \cup {None}]
        /\ cash' = [c \in Customers |-> Post(cash[c], [SETTLED |-> paid[c].net])]
    BY <1>5, PaymentTypes
  <2>. HIDE DEF paid
  <2>2. ASSUME NEW c \in Customers  PROVE Post(cash[c], [SETTLED |-> paid[c].net]) \in Balances
    BY <2>1 DEF Post, Balances, Dimension, Entitlement, AdminTypeOK, IncomeTypeOK
  <2>3. cash' \in [Customers -> Balances]
    BY <2>1, <2>2
  <2>. QED  BY <1>5, <2>1, <2>3, IncomeTypes DEF ProcessDividend, AdminTypeOK, IncomeTypeOK
<1>6. ASSUME NEW p \in Callers, NEW a \in Assets, NEW daily \in {clock, None},
             ReadTotalSupply(p, a, daily)
      PROVE  AdminTypeOK'
  <2>. DEFINE call == [at |-> "RECONCILE", asset |-> a, supply |-> totalSupply(a), daily |-> daily]
  <2>1. totalSupply(a) \in Int
    BY TotalType DEF totalSupply
  <2>2. call \in ReconcileCall
    BY <2>1 DEF ReconcileCall, AdminTypeOK
  <2>3. calls' = [calls EXCEPT ![p] = call]
    BY <1>6 DEF ReadTotalSupply, Begin
  <2>. HIDE DEF call
  <2>4. calls' \in Calls
    BY <2>2, <2>3 DEF AdminTypeOK
  <2>. QED
    BY <1>6, <2>4, IncomeTypes DEF ReadTotalSupply, incomeVars, AdminTypeOK, IncomeTypeOK
<1>7. ASSUME NEW p \in Callers, InsertReconciliationRun(p)  PROVE AdminTypeOK'
  <2>. DEFINE a == calls[p].asset
              run == [daily |-> calls[p].daily, day |-> clock,
                      difference |-> calls[p].supply - LockedShares(a)]
  <2>1. a \in Assets /\ calls[p].daily \in (0 .. MaxClock) \cup {None} /\ calls[p].supply \in Int
    BY <1>7 DEF InsertReconciliationRun, ReconcileCall
  <2>2. LockedShares(a) \in Nat
    BY TotalType DEF LockedShares
  <2>3. run \in Run
    BY <2>1, <2>2 DEF Run, AdminTypeOK
  <2>4. runs' = runs \/ runs' = [runs EXCEPT ![a] = Append(@, run)]
    BY <1>7 DEF InsertReconciliationRun
  <2>. HIDE DEF run
  <2>5. Append(runs[a], run) \in Seq(Run)
    BY <2>1, <2>3, AppendProperties DEF AdminTypeOK, IncomeTypeOK
  <2>6. runs' \in [Assets -> Seq(Run)]
    BY <2>1, <2>4, <2>5 DEF AdminTypeOK, IncomeTypeOK
  <2>7. calls' \in Calls
    BY <1>7, EndTypes DEF InsertReconciliationRun
  <2>. QED
    BY <1>7, <2>6, <2>7, IncomeTypes DEF InsertReconciliationRun, AdminTypeOK, IncomeTypeOK
<1>. QED  BY <1>1, <1>3, <1>4, <1>5, <1>6, <1>7 DEF IncomeNext

LEMMA TypeStep == AdminTypeOK /\ [AdminNext]_adminVars => AdminTypeOK'
<1>. SUFFICES ASSUME AdminTypeOK, [AdminNext]_adminVars  PROVE AdminTypeOK'
  OBVIOUS
<1>1. ASSUME NEW p \in Callers, CutOff(p)  PROVE AdminTypeOK'
  BY <1>1, EndTypes, AddressTypes DEF CutOff, AdminTypeOK, AddressTypeOK
<1>2. CASE Tick
  BY <1>2, ClockAssumption DEF Tick, incomeVars, AdminTypeOK, AddressTypeOK, IncomeTypeOK
<1>3. CASE UNCHANGED adminVars
  BY <1>3 DEF adminVars, addressVars, incomeVars, AdminTypeOK, AddressTypeOK, IncomeTypeOK
<1>. QED  BY <1>1, <1>2, <1>3, AddressTypeStep, IncomeTypeStep DEF AdminNext

(* Every variable keeps its type: addresses, permissions, calls, lots,     *)
(* dividends, cash and runs.                                               *)
THEOREM AdminTypeCorrect == AdminSpec => []AdminTypeOK
  BY TypesInitially, TypeStep, PTL DEF AdminSpec

-----------------------------------------------------------------------------
(* What the calls under way rely on                                        *)

(* The contract's permission of a row's address. *)
Grants(S, a) == S \X {ChainAddress[a]}

StagesSound ==
    \A a \in Addresses : addresses[a] # None =>
        /\ addresses[a].status # "PENDING_PROOF" /\ addresses[a].status # "REJECTED"
              => addresses[a].proven
        /\ addresses[a].status \in {"COOLING", "ACTIVE"} => addresses[a].cleared
        /\ addresses[a].status = "ACTIVE" => Cooled(a) /\ Grants(Assets, a) \subseteq permitted

PermittedEarned ==
    \A grant \in permitted : \E a \in Addresses : ChainAddress[a] = grant[2] /\ Earned(a)

ActivationsSound ==
    \A p \in Callers : calls[p] \in ActivationCall =>
        /\ Earned(calls[p].address)
        /\ Grants(calls[p].granted, calls[p].address) \subseteq permitted

OneActive ==
    \A a, b \in Addresses :
        (Active(a) /\ Active(b) /\ AddressOwner[a] = AddressOwner[b]) => a = b

LotsSound ==
    /\ lots \in [Lots -> [status : LotStatus, destination : Addresses \cup {Vault}]]
    /\ \A l \in Lots : lots[l].destination # Vault =>
          /\ Active(lots[l].destination)
          /\ AddressOwner[lots[l].destination] = LotOwner[l]

IInv ==
    /\ AddressTypeOK
    /\ DOMAIN calls = Callers
    /\ clock \in Nat
    /\ StagesSound
    /\ PermittedEarned
    /\ ActivationsSound
    /\ OneActive
    /\ LotsSound

LEMMA Initially == AdminInit => IInv
<1>. SUFFICES ASSUME AdminInit  PROVE IInv
  OBVIOUS
<1>. USE DEF AdminInit, AddressInit, IncomeInit
<1>1. AddressTypeOK /\ DOMAIN calls = Callers /\ clock \in Nat
  BY DEF AddressTypeOK
<1>2. StagesSound /\ PermittedEarned
  BY DEF StagesSound, PermittedEarned
<1>3. ActivationsSound
  BY NoneAssumption DEF ActivationsSound
<1>4. OneActive
  BY DEF OneActive, Active, Is, Registered
<1>5. LotsSound
  BY DEF LotsSound, LotStatus
<1>. QED  BY <1>1, <1>2, <1>3, <1>4, <1>5 DEF IInv

-----------------------------------------------------------------------------
(* What an action that leaves something alone keeps                        *)

(* Rows that neither lose what they earned nor become active.              *)
Kept(a) ==
    /\ addresses[a] # None => addresses'[a] # None
    /\ Earned(a) => Earned(a)' /\ addresses'[a].status = addresses[a].status

(* An action that touches no lot and takes no permission.                  *)
LEMMA RowStep ==
  ASSUME IInv, AddressTypeOK', StagesSound', DOMAIN calls' = Callers, clock' \in Nat,
         permitted' = permitted, UNCHANGED lots,
         \A a \in Addresses : Kept(a) /\ (Active(a)' => Active(a)),
         \A p \in Callers : calls'[p] \in ActivationCall =>
             \/ calls'[p] = calls[p]
             \/ Earned(calls[p].address)' /\ calls'[p].granted = {}
  PROVE  IInv'
<1>1. PermittedEarned'
  BY DEF IInv, PermittedEarned, Kept
<1>2. ActivationsSound'
  <2>. SUFFICES ASSUME NEW p \in Callers, calls'[p] \in ActivationCall
                PROVE  /\ Earned(calls[p].address)'
                       /\ Grants(calls'[p].granted, calls'[p].address) \subseteq permitted'
    BY DEF ActivationsSound
  <2>1. calls'[p].address \in Addresses
    BY DEF ActivationCall
  <2>2. CASE calls'[p] = calls[p]
    BY <2>1, <2>2 DEF IInv, ActivationsSound, Kept
  <2>3. CASE Earned(calls[p].address)' /\ calls'[p].granted = {}
    BY <2>3 DEF Grants
  <2>. QED  BY <2>2, <2>3
<1>3. \A a \in Addresses : Active(a) => Active(a)'
  BY DEF Kept, Active, Is, Registered, Earned, IInv, StagesSound
<1>4. OneActive'
  BY DEF IInv, OneActive
<1>5. LotsSound'
  BY <1>3 DEF IInv, LotsSound
<1>. QED  BY <1>1, <1>2, <1>4, <1>5 DEF IInv

(* An action that leaves addresses and permissions as they are, and begins *)
(* no activation.                                                          *)
LEMMA OtherStep ==
  ASSUME IInv, UNCHANGED addressVars, UNCHANGED clock, LotsSound',
         DOMAIN calls' = Callers,
         \A p \in Callers : calls'[p] \in ActivationCall => calls'[p] = calls[p]
  PROVE  IInv'
<1>1. AddressTypeOK' /\ StagesSound' /\ PermittedEarned' /\ OneActive'
  BY DEF IInv, addressVars, AddressTypeOK, StagesSound, PermittedEarned, OneActive,
         Active, Is, Registered, Earned, Cooled
<1>2. ActivationsSound'
  BY DEF IInv, addressVars, ActivationsSound, Earned, Cooled
<1>. QED  BY <1>1, <1>2 DEF IInv

-----------------------------------------------------------------------------
(* Registration and review                                                 *)

LEMMA RegisterStep ==
  ASSUME IInv, NEW a \in Addresses, NEW provable \in BOOLEAN,
         RegisterExternalAddress(a, provable), UNCHANGED incomeVars
  PROVE  IInv'
<1>. USE DEF RegisterExternalAddress, CreateExternalAddress, Registered
<1>1. \A x \in Addresses : Kept(x) /\ (Active(x)' => Active(x))
  BY NoneAssumption DEF Kept, Earned, Cooled, Active, Is, IInv, AddressTypeOK, AddressRow
<1>2. AddressTypeOK'
  BY DEF IInv, AddressTypeOK, AddressRow, AddressStatus
<1>3. StagesSound'
  BY DEF IInv, AddressTypeOK, StagesSound, Cooled
<1>. QED  BY <1>1, <1>2, <1>3, RowStep DEF IInv, incomeVars

LEMMA ProofStep ==
  ASSUME IInv, NEW a \in Addresses, CompleteAddressProof(a), UNCHANGED incomeVars
  PROVE  IInv'
<1>. USE DEF CompleteAddressProof, MarkAddressRiskReview, MarkAddressProofVerified,
             Is, Registered
<1>1. /\ addresses[a] \in AddressRow /\ addresses'[a] \in AddressRow
      /\ addresses'[a] = [addresses[a] EXCEPT !.status = "RISK_REVIEW"]
  BY DEF IInv, AddressTypeOK, AddressRow, AddressStatus
<1>2. AddressTypeOK'
  BY <1>1 DEF IInv, AddressTypeOK
<1>3. \A x \in Addresses : Kept(x) /\ (Active(x)' => Active(x))
  BY <1>1, NoneAssumption DEF Kept, Earned, Cooled, Active, IInv, AddressTypeOK, AddressRow
<1>4. StagesSound'
  BY <1>1 DEF IInv, AddressTypeOK, StagesSound, Cooled, AddressRow
<1>. QED  BY <1>2, <1>3, <1>4, RowStep DEF IInv, incomeVars

LEMMA AskRiskStep ==
  ASSUME IInv, NEW p \in Callers, NEW a \in Addresses, NEW clear \in BOOLEAN,
         AskRisk(p, a, clear), UNCHANGED incomeVars
  PROVE  IInv'
<1>1. \A q \in Callers : calls'[q] \in ActivationCall => calls'[q] = calls[q]
  BY DEF AskRisk, Begin, ActivationCall, IInv
<1>. QED
  BY <1>1, OtherStep
     DEF AskRisk, Begin, IInv, incomeVars, addressVars, LotsSound,
         Active, Is, Registered

(* A call that ends begins nothing. *)
LEMMA EndedCalls ==
  ASSUME IInv, NEW p \in Callers, End(p)
  PROVE  /\ DOMAIN calls' = Callers
         /\ \A q \in Callers : calls'[q] \in ActivationCall => calls'[q] = calls[q]
  BY NoneAssumption DEF End, IInv

LEMMA ReviewStep ==
  ASSUME IInv, NEW p \in Callers, NEW approve \in BOOLEAN,
         ReviewExternalAddress(p, approve), UNCHANGED incomeVars
  PROVE  IInv'
<1>. DEFINE a == calls[p].address
<1>. USE DEF ReviewExternalAddress
<1>1. a \in Addresses
  BY DEF ReviewCall
<1>2. CASE Is(a, "RISK_REVIEW")
  <2>1. /\ addresses[a] \in AddressRow /\ addresses[a].status = "RISK_REVIEW"
        /\ addresses[a].proven
    BY <1>1, <1>2 DEF Is, Registered, IInv, AddressTypeOK, StagesSound
  <2>2. \/ addresses' = [addresses EXCEPT ![a].status = "COOLING", ![a].cleared = TRUE,
                                          ![a].coolingEndsAt = clock + AddressCooling]
        \/ addresses' = [addresses EXCEPT ![a].status = "REJECTED"]
    BY <1>2 DEF MarkAddressCooling, RejectExternalAddress
  <2>3. /\ addresses'[a] \in AddressRow /\ addresses'[a].proven
        /\ \/ addresses'[a].status = "COOLING" /\ addresses'[a].cleared
           \/ addresses'[a].status = "REJECTED"
        /\ \A x \in Addresses \ {a} : addresses'[x] = addresses[x]
        /\ DOMAIN addresses' = Addresses
    BY <1>1, <2>1, <2>2, CoolingAssumption DEF AddressRow, AddressStatus, IInv, AddressTypeOK
  <2>4. AddressTypeOK'
    <3>1. \/ addresses' = [addresses EXCEPT ![a] = addresses'[a]]
      BY <1>1, <2>2 DEF IInv, AddressTypeOK
    <3>. QED  BY <1>1, <2>3, <3>1 DEF IInv, AddressTypeOK
  <2>5. \A x \in Addresses : Kept(x) /\ (Active(x)' => Active(x))
    BY <2>1, <2>3, NoneAssumption DEF Kept, Earned, Cooled, Active, Is, Registered
  <2>6. StagesSound'
    BY <2>3 DEF IInv, StagesSound, Cooled
  <2>. QED  BY <2>4, <2>5, <2>6, EndedCalls, RowStep DEF IInv, incomeVars
<1>3. CASE ~Is(a, "RISK_REVIEW")
  BY <1>3, EndedCalls, OtherStep
     DEF IInv, incomeVars, addressVars, LotsSound, Active, Is, Registered
<1>. QED  BY <1>2, <1>3

-----------------------------------------------------------------------------
(* Activation                                                              *)

LEMMA BeginActivationStep ==
  ASSUME IInv, NEW p \in Callers, NEW a \in Addresses, BeginActivation(p, a),
         UNCHANGED incomeVars
  PROVE  IInv'
<1>. USE DEF BeginActivation
<1>1. Earned(a) /\ Earned(a)'
  BY DEF MayActivate, Is, Registered, Earned, Cooled, IInv, StagesSound
<1>2. /\ DOMAIN calls' = Callers
      /\ \A q \in Callers : \/ calls'[q] = calls[q]
                            \/ calls'[q] = [at |-> "ACTIVATE", address |-> a, granted |-> {}]
  BY DEF Begin, IInv
<1>3. \A q \in Callers : calls'[q] \in ActivationCall =>
          \/ calls'[q] = calls[q]
          \/ Earned(calls[q].address)' /\ calls'[q].granted = {}
  BY <1>1, <1>2
<1>4. \A x \in Addresses : Kept(x) /\ (Active(x)' => Active(x))
  BY DEF Kept, Earned, Cooled, Active, Is, Registered
<1>5. AddressTypeOK' /\ StagesSound'
  BY DEF IInv, AddressTypeOK, StagesSound, Cooled
<1>. QED  BY <1>2, <1>3, <1>4, <1>5, RowStep DEF IInv, incomeVars

LEMMA SetPermissionStep ==
  ASSUME IInv, NEW p \in Callers, NEW asset \in Assets, SetPermission(p, asset),
         UNCHANGED incomeVars
  PROVE  IInv'
<1>. DEFINE a == calls[p].address
<1>. USE DEF SetPermission
<1>1. /\ calls[p] \in ActivationCall /\ a \in Addresses
      /\ Earned(a) /\ Earned(a)'
      /\ Grants(calls[p].granted, a) \subseteq permitted
  BY DEF ActivationCall, IInv, ActivationsSound, Earned, Cooled
<1>2. permitted' = permitted \cup {<<asset, ChainAddress[a]>>} /\ permitted \subseteq permitted'
  OBVIOUS
<1>3. AddressTypeOK' /\ StagesSound' /\ OneActive'
  BY <1>1, <1>2 DEF IInv, AddressTypeOK, StagesSound, OneActive, Active, Is, Registered, Cooled
<1>4. PermittedEarned'
  BY <1>1, <1>2 DEF IInv, PermittedEarned, Earned, Cooled
<1>5. calls'[p] = [calls[p] EXCEPT !.granted = @ \cup {asset}]
      /\ DOMAIN calls' = Callers /\ \A q \in Callers \ {p} : calls'[q] = calls[q]
  BY DEF IInv
<1>6. calls'[p].address = a /\ calls'[p].granted = calls[p].granted \cup {asset}
  BY <1>1, <1>5 DEF ActivationCall
<1>7. ActivationsSound'
  <2>. SUFFICES ASSUME NEW q \in Callers, calls'[q] \in ActivationCall
                PROVE  /\ Earned(calls[q].address)'
                       /\ Grants(calls'[q].granted, calls'[q].address) \subseteq permitted'
    BY DEF ActivationsSound
  <2>1. CASE q = p
    BY <1>1, <1>2, <1>6, <2>1 DEF Grants
  <2>2. CASE q # p
    BY <1>2, <1>5, <2>2 DEF IInv, ActivationsSound, Earned, Cooled, Grants
  <2>. QED  BY <2>1, <2>2
<1>8. LotsSound'
  BY DEF IInv, incomeVars, LotsSound, Active, Is, Registered
<1>. QED  BY <1>3, <1>4, <1>5, <1>7, <1>8 DEF IInv

LEMMA ActivateStep ==
  ASSUME IInv, NEW p \in Callers, ActivateExternalAddress(p), UNCHANGED incomeVars
  PROVE  IInv'
<1>. DEFINE a == calls[p].address
<1>. USE DEF ActivateExternalAddress
<1>1. /\ calls[p] \in ActivationCall /\ a \in Addresses /\ Earned(a)
      /\ Grants(Assets, a) \subseteq permitted
  BY DEF ActivationCall, IInv, ActivationsSound
<1>2. /\ DOMAIN calls' = Callers
      /\ \A q \in Callers : calls'[q] \in ActivationCall => calls'[q] = calls[q]
  BY EndedCalls
<1>3. CASE MayActivate(a) /\ OnlyActive(a)
  <2>1. addresses' = [addresses EXCEPT ![a].status = "ACTIVE"]
    BY <1>3 DEF MayActivate, Is
  <2>2. addresses[a] \in AddressRow /\ addresses[a].status = "COOLING"
    BY <1>1, <1>3 DEF MayActivate, Is, Registered, IInv, AddressTypeOK
  <2>3. /\ addresses'[a] = [addresses[a] EXCEPT !.status = "ACTIVE"]
        /\ addresses'[a] \in AddressRow /\ addresses'[a].status = "ACTIVE"
        /\ addresses'[a].proven = addresses[a].proven
        /\ addresses'[a].cleared = addresses[a].cleared
        /\ addresses'[a].coolingEndsAt = addresses[a].coolingEndsAt
        /\ DOMAIN addresses' = Addresses
        /\ \A x \in Addresses \ {a} : addresses'[x] = addresses[x]
    BY <1>1, <2>1, <2>2 DEF IInv, AddressTypeOK, AddressRow, AddressStatus
  <2>4. AddressTypeOK'
    BY <2>1, <2>3 DEF IInv, AddressTypeOK
  <2>5. \A x \in Addresses : Earned(x) => Earned(x)'
    BY <1>1, <2>3, NoneAssumption DEF Earned, Cooled
  <2>6. StagesSound'
    BY <1>1, <2>3, <2>5 DEF IInv, StagesSound, Cooled, Earned
  <2>7. PermittedEarned'
    BY <2>5 DEF IInv, PermittedEarned
  <2>8. ActivationsSound'
    <3>. SUFFICES ASSUME NEW q \in Callers, calls'[q] \in ActivationCall
                  PROVE  /\ Earned(calls[q].address)'
                         /\ Grants(calls'[q].granted, calls'[q].address) \subseteq permitted'
      BY DEF ActivationsSound
    <3>1. calls'[q] = calls[q] /\ calls[q].address \in Addresses
      BY <1>2 DEF ActivationCall
    <3>. QED  BY <2>5, <3>1 DEF IInv, ActivationsSound
  <2>9. \A x \in Addresses : Active(x)' <=> x = a \/ Active(x)
    BY <1>1, <2>3, NoneAssumption DEF Active, Is, Registered
  <2>10. OneActive'
    BY <1>3, <2>9 DEF IInv, OneActive, OnlyActive, Active, MayActivate, Is
  <2>11. LotsSound'
    BY <2>9 DEF IInv, incomeVars, LotsSound
  <2>. QED  BY <1>2, <2>4, <2>6, <2>7, <2>8, <2>10, <2>11 DEF IInv
<1>4. CASE ~(MayActivate(a) /\ OnlyActive(a))
  BY <1>2, <1>4, OtherStep
     DEF IInv, incomeVars, addressVars, LotsSound, Active, Is, Registered
<1>. QED  BY <1>3, <1>4

LEMMA TickStep ==
  ASSUME IInv, Tick
  PROVE  IInv'
<1>. USE DEF Tick
<1>1. clock \in Nat /\ clock' = clock + 1
  BY DEF IInv
<1>2. \A a \in Addresses : Kept(a) /\ (Active(a)' => Active(a))
  BY <1>1 DEF Kept, Earned, Cooled, Active, Is, Registered, IInv, AddressTypeOK, AddressRow
<1>3. AddressTypeOK' /\ StagesSound'
  BY <1>1 DEF IInv, AddressTypeOK, AddressRow, StagesSound, Cooled
<1>. QED  BY <1>1, <1>2, <1>3, RowStep DEF IInv, incomeVars

-----------------------------------------------------------------------------
(* Lots, dividends and runs                                                *)

LEMMA LotStep ==
  ASSUME IInv, NEW l \in Lots, UNCHANGED <<addressVars, calls, clock, runs>>,
         \/ \E status \in LotStatus : lots' = [lots EXCEPT ![l].status = status]
         \/ \E destination \in Addresses \cup {Vault} :
               /\ destination # Vault =>
                     Active(destination) /\ AddressOwner[destination] = LotOwner[l]
               /\ lots' = [lots EXCEPT ![l] = [status |-> "LOCKED", destination |-> destination]]
  PROVE  IInv'
<1>1. /\ lots' \in [Lots -> [status : LotStatus, destination : Addresses \cup {Vault}]]
      /\ \A k \in Lots :
            \/ lots'[k].destination = lots[k].destination
            \/ /\ k = l
               /\ lots'[k].destination # Vault =>
                     /\ Active(lots'[k].destination)
                     /\ AddressOwner[lots'[k].destination] = LotOwner[l]
  BY DEF IInv, LotsSound, LotStatus
<1>2. LotsSound'
  BY <1>1 DEF IInv, LotsSound, Active, Is, Registered, addressVars
<1>. QED  BY <1>2, OtherStep DEF IInv

LEMMA LotSteps ==
  ASSUME IInv, NEW l \in Lots,
         \/ \E destination \in Addresses \cup {Vault} : CreateUnderlyingLock(l, destination)
         \/ Minted(l) \/ confirmMint(l) \/ RecoverFailedMint(l)
         \/ Burnt(l) \/ ConfirmRedemption(l)
  PROVE  IInv'
<1>1. CASE \E destination \in Addresses \cup {Vault} : CreateUnderlyingLock(l, destination)
  BY <1>1, LotStep DEF CreateUnderlyingLock, addressVars, Active
<1>2. ASSUME NEW from, NEW to \in LotStatus, Move(l, from, to)  PROVE IInv'
  BY <1>2, LotStep DEF Move, addressVars
<1>. QED
  BY <1>1, <1>2 DEF Minted, confirmMint, RecoverFailedMint, Burnt, ConfirmRedemption, LotStatus

LEMMA DividendSteps ==
  ASSUME IInv, UNCHANGED <<addressVars, calls, clock, lots, runs>>
  PROVE  IInv'
  BY OtherStep
     DEF IInv, addressVars, LotsSound, Active, Is, Registered

LEMMA ReadSupplyStep ==
  ASSUME IInv, NEW p \in Callers, NEW a \in Assets, NEW daily, ReadTotalSupply(p, a, daily)
  PROVE  IInv'
<1>1. \A q \in Callers : calls'[q] \in ActivationCall => calls'[q] = calls[q]
  BY DEF ReadTotalSupply, Begin, ActivationCall, IInv
<1>. QED
  BY <1>1, OtherStep
     DEF ReadTotalSupply, Begin, IInv, incomeVars, addressVars, LotsSound, Active, Is, Registered

LEMMA RecordStep ==
  ASSUME IInv, NEW p \in Callers, InsertReconciliationRun(p)
  PROVE  IInv'
<1>1. LotsSound'
  BY DEF InsertReconciliationRun, IInv, LotsSound, Active, Is, Registered
<1>. QED
  BY <1>1, EndedCalls, OtherStep DEF InsertReconciliationRun, addressVars

-----------------------------------------------------------------------------
LEMMA NextStep == IInv /\ [AdminNext]_adminVars => IInv'
<1>. SUFFICES ASSUME IInv, [AdminNext]_adminVars  PROVE IInv'
  OBVIOUS
<1>1. ASSUME AddressNext, UNCHANGED incomeVars  PROVE IInv'
  BY <1>1, RegisterStep, ProofStep, AskRiskStep, ReviewStep, BeginActivationStep,
     SetPermissionStep, ActivateStep DEF AddressNext
<1>2. CASE IncomeNext
  <2>1. ASSUME NEW d \in Dividends, NEW a, NEW rate, NEW at, AnnounceDividend(d, a, rate, at)
        PROVE  IInv'
    BY <2>1, DividendSteps DEF AnnounceDividend, addressVars
  <2>2. ASSUME NEW d \in Dividends, ProcessDividend(d)  PROVE IInv'
    BY <2>2, DividendSteps DEF ProcessDividend, addressVars
  <2>. QED
    BY <1>2, <2>1, <2>2, LotSteps, ReadSupplyStep, RecordStep DEF IncomeNext
<1>3. ASSUME NEW p \in Callers, CutOff(p)  PROVE IInv'
  BY <1>3, EndedCalls, OtherStep
     DEF CutOff, IInv, incomeVars, addressVars, LotsSound, Active,
         Is, Registered
<1>4. CASE UNCHANGED adminVars
  BY <1>4, OtherStep
     DEF adminVars, IInv, incomeVars, addressVars, LotsSound, Active,
         Is, Registered
<1>. QED  BY <1>1, <1>2, <1>3, <1>4, TickStep DEF AdminNext

LEMMA Invariant == AdminSpec => []IInv
  BY Initially, NextStep, PTL DEF AdminSpec

(* What the contracts permit some customer has proven, had cleared and     *)
(* waited for, an active address is permitted everywhere and its           *)
(* customer's only one, and tokens are at the vault or at their owner's    *)
(* active address, for any registrations of any addresses of the chain.    *)
THEOREM PermissionsAlwaysEarned == AdminSpec => []PermissionsEarned
<1>1. IInv => PermissionsEarned
  BY DEF IInv, PermissionsEarned, PermittedEarned, Grants, StagesSound, OneActive, LotsSound,
         Active, Is, Registered
<1>. QED  BY <1>1, Invariant, PTL

-----------------------------------------------------------------------------
(* What customers receive                                                  *)

(* The net of a paid dividend is the rounded product of what was recorded; *)
(* cash is the opening balance and the sum of what was paid.               *)
NetsRounded ==
    \A d \in Paid, c \in Customers :
        LET row == dividends[d]
        IN  row.entitlements[c].net = Gross(row.entitlements[c].shares, row.usdPerShare)

CashReceived ==
    \A c \in Customers : cash[c] = Post(Opened(InitialCash), [SETTLED |-> Received(c)])

PaidInv == NetsRounded /\ CashReceived

NetPaid(c) ==
    [d \in Dividends |-> IF d \in Paid THEN dividends[d].entitlements[c].net ELSE 0]

LEMMA NetPaidType ==
  ASSUME AdminTypeOK, NEW c \in Customers
  PROVE  NetPaid(c) \in [Dividends -> Nat] /\ Received(c) = SumFunction(NetPaid(c)) /\ Received(c) \in Nat
<1>1. ASSUME NEW d \in Paid  PROVE dividends[d].entitlements[c].net \in Nat
  BY <1>1 DEF Paid, AdminTypeOK, IncomeTypeOK, DividendRow, Entitlement
<1>2. NetPaid(c) \in [Dividends -> Nat]
  BY <1>1 DEF NetPaid
<1>3. SumFunction(NetPaid(c)) \in Nat
  BY <1>2, IncomeAssumption, SumIsNat
<1>. QED  BY <1>2, <1>3 DEF Received, NetPaid

LEMMA PaidInitially == AdminInit => PaidInv
<1>. SUFFICES ASSUME AdminInit  PROVE PaidInv
  OBVIOUS
<1>1. Paid = {}
  BY DEF AdminInit, IncomeInit, Paid
<1>2. ASSUME NEW c \in Customers  PROVE Received(c) = 0
  <2>1. NetPaid(c) \in [Dividends -> Nat] /\ \A d \in Dividends : NetPaid(c)[d] = 0
    BY <1>1 DEF NetPaid
  <2>2. SumFunctionOnSet(NetPaid(c), Dividends) = 0 /\ DOMAIN NetPaid(c) = Dividends
    BY <2>1, IncomeAssumption, SumOfZeros
  <2>. QED  BY <2>2 DEF Received, NetPaid, SumFunction
<1>3. ASSUME NEW c \in Customers
      PROVE  cash[c] = Post(Opened(InitialCash), [SETTLED |-> Received(c)])
  BY <1>2, IncomeAssumption DEF AdminInit, IncomeInit, Post, Opened, Dimension
<1>. QED  BY <1>1, <1>3 DEF PaidInv, NetsRounded, CashReceived

(* Nothing is paid when no dividend changes but one that is not paid.      *)
LEMMA NothingPaid ==
  ASSUME PaidInv, cash' = cash, Paid' = Paid, \A d \in Paid : dividends'[d] = dividends[d]
  PROVE  PaidInv'
<1>1. ASSUME NEW c  PROVE Received(c)' = Received(c)
  <2>1. \A d \in Dividends :
           (IF d \in Paid' THEN dividends'[d].entitlements[c].net ELSE 0)
           = (IF d \in Paid THEN dividends[d].entitlements[c].net ELSE 0)
    OBVIOUS
  <2>2. [d \in Dividends |-> IF d \in Paid' THEN dividends'[d].entitlements[c].net ELSE 0]
        = [d \in Dividends |-> IF d \in Paid THEN dividends[d].entitlements[c].net ELSE 0]
    BY <2>1
  <2>. QED  BY <2>2 DEF Received
<1>2. CashReceived'
  BY <1>1 DEF PaidInv, CashReceived
<1>3. NetsRounded'
  BY DEF PaidInv, NetsRounded
<1>. QED  BY <1>2, <1>3 DEF PaidInv

LEMMA AnnouncePaysNothing ==
  ASSUME AdminTypeOK, PaidInv, NEW d \in Dividends, NEW a, NEW rate, NEW at,
         AnnounceDividend(d, a, rate, at)
  PROVE  PaidInv'
<1>1. /\ dividends[d] = None /\ cash' = cash /\ d \notin Paid
      /\ dividends'[d].status = "ANNOUNCED"
      /\ \A e \in Dividends \ {d} : dividends'[e] = dividends[e]
  BY DEF AnnounceDividend, Paid, AdminTypeOK, IncomeTypeOK
<1>2. Paid' = Paid /\ \A e \in Paid : dividends'[e] = dividends[e]
  BY <1>1 DEF Paid
<1>. QED  BY <1>1, <1>2, NothingPaid

(* Paying a dividend adds its net to what is received and to the cash.     *)
LEMMA ProcessPays ==
  ASSUME AdminTypeOK, AdminTypeOK', PaidInv, NEW d \in Dividends, ProcessDividend(d)
  PROVE  PaidInv'
<1>. DEFINE row == dividends[d]
            paid == Entitlements(row.asset, row.usdPerShare)
<1>1. /\ row \in DividendRow /\ paid \in [Customers -> Entitlement]
      /\ dividends' = [dividends EXCEPT ![d] =
             [row EXCEPT !.status = "RECONCILED", !.entitlements = paid]]
      /\ cash' = [c \in Customers |-> Post(cash[c], [SETTLED |-> paid[c].net])]
      /\ dividends'[d] \in DividendRow
  BY PaymentTypes
<1>2. /\ dividends'[d].status = "RECONCILED" /\ dividends'[d].entitlements = paid
      /\ dividends'[d].usdPerShare = row.usdPerShare
      /\ \A e \in Dividends \ {d} : dividends'[e] = dividends[e]
  BY <1>1 DEF DividendRow, AdminTypeOK, IncomeTypeOK
<1>3. row.status = "ANNOUNCED" /\ d \notin Paid
  BY DEF ProcessDividend, Paid
<1>4. Paid' = Paid \cup {d}
  BY <1>1, <1>2, DividendAssumption DEF Paid
<1>5. \A c \in Customers : paid[c].net = Gross(paid[c].shares, row.usdPerShare)
  BY DEF Entitlements
<1>. HIDE DEF paid, row
<1>6. NetsRounded'
  BY <1>2, <1>4, <1>5 DEF PaidInv, NetsRounded, Paid
<1>7. ASSUME NEW c \in Customers  PROVE Received(c)' = Received(c) + paid[c].net
  <2>. DEFINE f == NetPaid(c)
              g == [e \in Dividends |-> IF e \in Paid' THEN dividends'[e].entitlements[c].net ELSE 0]
  <2>1. f \in [Dividends -> Nat] /\ Received(c) = SumFunction(f) /\ SumFunction(f) \in Nat
    BY NetPaidType
  <2>2. paid[c].net \in Nat
    BY <1>1 DEF Entitlement
  <2>3. f[d] = 0 /\ g[d] = paid[c].net /\ \A e \in Dividends \ {d} : g[e] = f[e]
    BY <1>2, <1>3, <1>4 DEF NetPaid
  <2>4. g \in [Dividends -> Nat]
    <3>1. \A e \in Dividends : g[e] \in Nat
      BY <2>1, <2>2, <2>3
    <3>. HIDE DEF f
    <3>. QED  BY <3>1
  <2>5. Received(c)' = SumFunction(g)
    BY DEF Received
  <2>. HIDE DEF f, g
  <2>6. f \in [Dividends -> Int] /\ g \in [Dividends -> Int]
    BY <2>1, <2>4
  <2>7. SumFunction(g) = SumFunction(f) - f[d] + g[d]
    BY <2>3, <2>6, IncomeAssumption, SumChanged
  <2>. QED  BY <2>1, <2>2, <2>3, <2>5, <2>7
<1>8. ASSUME NEW c \in Customers
      PROVE  cash'[c] = Post(Opened(InitialCash), [SETTLED |-> Received(c)'])
  <2>. DEFINE n == Received(c)
              m == paid[c].net
              b == Opened(InitialCash)
  <2>1. n \in Nat /\ m \in Nat /\ b \in Balances
    BY <1>1, NetPaidType, IncomeAssumption DEF Entitlement, Opened, Balances
  <2>2. cash[c] = Post(b, [SETTLED |-> n])
    BY DEF PaidInv, CashReceived
  <2>3. cash'[c] = Post(cash[c], [SETTLED |-> m]) /\ Received(c)' = n + m
    BY <1>1, <1>7
  <2>. HIDE DEF n, m, b
  <2>4. Post(Post(b, [SETTLED |-> n]), [SETTLED |-> m]) = Post(b, [SETTLED |-> n + m])
    <3>1. \A x \in Dimension : b[x] \in Int
      BY <2>1 DEF Balances
    <3>. QED  BY <2>1, <3>1 DEF Post
  <2>. QED  BY <2>2, <2>3, <2>4 DEF b
<1>9. CashReceived'
  BY <1>8 DEF CashReceived
<1>. QED  BY <1>6, <1>9 DEF PaidInv

LEMMA PaidStep == PaidInv /\ AdminTypeOK /\ AdminTypeOK' /\ [AdminNext]_adminVars => PaidInv'
<1>. SUFFICES ASSUME PaidInv, AdminTypeOK, AdminTypeOK', [AdminNext]_adminVars  PROVE PaidInv'
  OBVIOUS
<1>1. CASE UNCHANGED <<dividends, cash>>
  BY <1>1, NothingPaid DEF Paid
<1>2. CASE IncomeNext
  <2>1. ASSUME NEW l \in Lots,
               \/ \E destination \in Addresses \cup {Vault} : CreateUnderlyingLock(l, destination)
               \/ Minted(l) \/ confirmMint(l) \/ RecoverFailedMint(l)
               \/ Burnt(l) \/ ConfirmRedemption(l)
        PROVE  UNCHANGED <<dividends, cash>>
    BY <2>1 DEF CreateUnderlyingLock, Minted, confirmMint, RecoverFailedMint, Burnt,
                ConfirmRedemption, Move
  <2>2. ASSUME NEW p \in Callers,
               \/ \E a \in Assets, daily \in {clock, None} : ReadTotalSupply(p, a, daily)
               \/ InsertReconciliationRun(p)
        PROVE  UNCHANGED <<dividends, cash>>
    BY <2>2 DEF ReadTotalSupply, InsertReconciliationRun, incomeVars
  <2>. QED
    BY <1>1, <1>2, <2>1, <2>2, AnnouncePaysNothing, ProcessPays DEF IncomeNext
<1>. QED
  BY <1>1, <1>2 DEF AdminNext, CutOff, Tick, adminVars, incomeVars

(* A customer's cash has grown by the dividends paid, each once and within *)
(* half a cent of what the shares were due, whatever was minted, redeemed  *)
(* or processed meanwhile (ProcessDividend).                               *)
THEOREM DividendsAlwaysExplained == AdminSpec => []DividendsExplained
<1>1. ASSUME AdminTypeOK, PaidInv  PROVE DividendsExplained
  <2>1. ASSUME NEW d \in Paid, NEW c \in Customers
        PROVE  LET entitled == dividends[d].entitlements[c]
               IN  2 * Magnitude(entitled.net - entitled.shares * dividends[d].usdPerShare) =< Cent
    <3>. DEFINE k == dividends[d].entitlements[c].net
                n == dividends[d].entitlements[c].shares
                rate == dividends[d].usdPerShare
    <3>1. k \in Nat /\ n \in Nat /\ rate \in Nat
      BY <1>1, <2>1, IncomeAssumption DEF Paid, AdminTypeOK, IncomeTypeOK, DividendRow, Entitlement
    <3>2. k = Multiply(n * One, rate, Cent, "HALF_EVEN")
      BY <1>1, <2>1 DEF PaidInv, NetsRounded, Gross
    <3>. HIDE DEF k, n, rate
    <3>3. Cent \in Nat \ {0} /\ One \in Nat \ {0} /\ n * One \in Int
      BY <3>1, CentType, OneAssumption
    <3>4. 2 * Magnitude(One * k - (n * One) * rate) =< One * Cent
      BY <3>1, <3>2, <3>3, MultiplyError DEF HalfMode
    <3>. DEFINE e == k - n * rate
    <3>5. e \in Int /\ One * k - (n * One) * rate = One * e
      BY <3>1, <3>3
    <3>. HIDE DEF e
    <3>6. Magnitude(One * e) = One * Magnitude(e) /\ Magnitude(e) \in Nat
      <4>1. CASE e >= 0
        <5>1. One * e >= 0 /\ One * e \in Int
          BY <3>3, <3>5, <4>1
        <5>. QED  BY <3>5, <4>1, <5>1 DEF Magnitude
      <4>2. CASE e < 0
        <5>1. One * e < 0 /\ One * e \in Int /\ -(One * e) = One * (-e)
          BY <3>3, <3>5, <4>2
        <5>. QED  BY <3>5, <4>2, <5>1 DEF Magnitude
      <4>. QED  BY <3>5, <4>1, <4>2
    <3>7. One * (2 * Magnitude(e)) =< One * Cent
      BY <3>3, <3>4, <3>5, <3>6
    <3>8. 2 * Magnitude(e) =< Cent
      BY <3>3, <3>6, <3>7
    <3>. QED  BY <3>8 DEF e, k, n, rate
  <2>. QED  BY <1>1, <2>1 DEF DividendsExplained, PaidInv, CashReceived
<1>. QED  BY <1>1, PaidInitially, PaidStep, AdminTypeCorrect, PTL DEF AdminSpec
=============================================================================
