------------------------------- MODULE RwaSaga ------------------------------
(***************************************************************************)
(* Minting and redeeming whole-share tokens across PostgreSQL and a chain: *)
(* internal/rwa/mint.go, redemption.go and recovery.go, the custody calls  *)
(* they make (internal/securities/custody.go), their statements in         *)
(* db/queries/rwa/rwa.sql, the Anvil adapter (internal/rwa/provider) and   *)
(* the operation rules of contracts/rwa/src/PermissionedRwaToken.sol.      *)
(*                                                                         *)
(* One mint request is one lot of shares.  Each lot has two operations on  *)
(* the chain, its mint and its burn, and each operation has one saga row   *)
(* (rwa.mint_requests, rwa.redemption_requests) and one chain_operations   *)
(* row.  A database transaction is one action.  The chain call between two *)
(* transactions is several: a process submits, the chain mines when it     *)
(* likes, the process polls, gives up, or dies.  A transaction whose       *)
(* submitter gave up stays in the mempool and may still be mined.          *)
(*                                                                         *)
(* Left out: quantities other than one lot, the choice of address, profile *)
(* eligibility (a request that fails these checks changes nothing), state  *)
(* and provider event rows except where they reject a transition.  A       *)
(* forced redemption differs from a burn only in being accepted while the  *)
(* contract is paused, and the chain may refuse or accept either here.     *)
(***************************************************************************)
EXTENDS Naturals, FiniteSets

CONSTANTS
    Lot,        \* mint requests
    Worker,     \* processes that run RecoverDueOperations
    Admin,      \* administrators who call RecoverOperation
    Shares,     \* settled lots of the customer's position
    MaxAttempts,\* max_attempts of a chain operation
    BatchSize,  \* operations one RecoverDueOperations claims at most
    MaxStray,   \* bound: abandoned transactions of one operation
    NoOp        \* a process that is about no operation

Op     == {"MINT", "BURN"} \X Lot
MintOp(l) == <<"MINT", l>>
BurnOp(l) == <<"BURN", l>>

(* The request that started an operation is a process named by it. *)
Process == Op \cup Worker \cup Admin

ASSUME RwaAssumption ==
    /\ IsFiniteSet(Lot)
    /\ Op \cap (Worker \cup Admin) = {}
    /\ Worker \cap Admin = {}
    /\ Shares \in Nat
    /\ MaxAttempts \in Nat \ {0}
    /\ BatchSize \in Nat \ {0}
    /\ MaxStray \in Nat
    /\ NoOp \notin Op

VARIABLES
    lock,      \* rwa.underlying_locks and its position reservation
    saga,      \* status of the mint or redemption request of an operation
    holding,   \* rwa.beneficial_holdings.quantity, in lots
    opStatus,  \* rwa.chain_operations.status
    attempts,  \* attempt_count, up to MaxAttempts
    claimed,   \* claimed_at IS NOT NULL
    due,       \* next_attempt_at has come
    executed,  \* operationKind of the contract is set
    stray,     \* transactions in the mempool nobody waits for
    early,     \* history: mints recovery was told are not executed while a
               \* transaction of theirs was outstanding
    pc,        \* what a process does next
    target,    \* the operation it is about
    tx,        \* the transaction it submitted
    todo       \* operations a worker claimed and has not reached

opVars    == <<opStatus, attempts, claimed, due>>
dbVars    == <<lock, saga, holding, opVars>>
chainVars == <<executed, stray, early>>
procVars  == <<pc, target, tx, todo>>
vars      == <<dbVars, chainVars, procVars>>

Final == {"MINTED", "FAILED_RECOVERED", "COMPLETED"}

TypeOK ==
    /\ lock     \in [Lot -> {"NONE", "LOCKED", "RELEASED"}]
    /\ saga     \in [Op -> {"NONE", "CHAIN_PENDING", "RECOVERY_REQUIRED"} \cup Final]
    /\ holding  \in Nat
    /\ opStatus \in [Op -> {"NONE", "PENDING", "CONFIRMED", "UNKNOWN", "FAILED", "DLQ"}]
    /\ attempts \in [Op -> 0..MaxAttempts]
    /\ claimed  \in [Op -> BOOLEAN]
    /\ due      \in [Op -> BOOLEAN]
    /\ executed \in [Op -> BOOLEAN]
    /\ stray    \in [Op -> 0..MaxStray]
    /\ early    \subseteq Op
    /\ pc       \in [Process -> {"idle", "next", "query", "submit", "poll",
                                 "confirm", "unknown", "failmint", "error"}]
    /\ target   \in [Process -> Op \cup {NoOp}]
    /\ tx       \in [Process -> {"none", "pending", "mined", "reverted"}]
    /\ todo     \in [Worker -> SUBSET Op]

(* What a process is about while it does nothing. *)
Home(p) == IF p \in Op THEN p ELSE NoOp

Init ==
    /\ lock     = [l \in Lot |-> "NONE"]
    /\ saga     = [o \in Op |-> "NONE"]
    /\ holding  = 0
    /\ opStatus = [o \in Op |-> "NONE"]
    /\ attempts = [o \in Op |-> 0]
    /\ claimed  = [o \in Op |-> FALSE]
    /\ due      = [o \in Op |-> FALSE]
    /\ executed = [o \in Op |-> FALSE]
    /\ stray    = [o \in Op |-> 0]
    /\ early    = {}
    /\ pc       = [p \in Process |-> "idle"]
    /\ target   = [p \in Process |-> Home(p)]
    /\ tx       = [p \in Process |-> "none"]
    /\ todo     = [w \in Worker |-> {}]

-----------------------------------------------------------------------------
(* What the transactions do to one chain_operations row *)

(* CreateChainOperation *)
CreateOp(o) ==
    /\ opStatus' = [opStatus EXCEPT ![o] = "PENDING"]
    /\ due'      = [due EXCEPT ![o] = TRUE]
    /\ UNCHANGED <<attempts, claimed>>

(* UpdateChainOperation counts an attempt and drops the claim, whatever the  *)
(* row's status was.                                                         *)
UpdateOp(o, newStatus, now) ==
    /\ opStatus' = [opStatus EXCEPT ![o] = newStatus]
    /\ attempts' = [attempts EXCEPT ![o] = IF @ < MaxAttempts THEN @ + 1 ELSE @]
    /\ claimed'  = [claimed EXCEPT ![o] = FALSE]
    /\ due'      = [due EXCEPT ![o] = now]

(* The call about an operation returns: the original request answers its     *)
(* client, an administrator reads the result, a worker goes on or defers.    *)
Return(p, ok) ==
    /\ pc' = [pc EXCEPT ![p] = IF p \notin Worker THEN "idle"
                               ELSE IF ok THEN "next" ELSE "error"]
    /\ target' = [target EXCEPT ![p] = IF p \in Worker /\ ~ok THEN @ ELSE Home(p)]
    /\ tx' = [tx EXCEPT ![p] = "none"]
    /\ UNCHANGED todo

-----------------------------------------------------------------------------
(* Requests: the first transaction of Mint and of startRedemption *)

Locked == {l \in Lot : lock[l] = "LOCKED"}

StartMint(l) ==
    /\ saga[MintOp(l)] = "NONE"
    /\ Cardinality(Locked) < Shares
    /\ lock' = [lock EXCEPT ![l] = "LOCKED"]
    /\ saga' = [saga EXCEPT ![MintOp(l)] = "CHAIN_PENDING"]
    /\ CreateOp(MintOp(l))
    /\ pc' = [pc EXCEPT ![MintOp(l)] = "submit"]
    /\ UNCHANGED <<holding, chainVars, target, tx, todo>>

StartRedemption(l) ==
    /\ saga[BurnOp(l)] = "NONE"
    /\ saga[MintOp(l)] = "MINTED" /\ lock[l] = "LOCKED" /\ holding >= 1
    /\ saga' = [saga EXCEPT ![BurnOp(l)] = "CHAIN_PENDING"]
    /\ CreateOp(BurnOp(l))
    /\ pc' = [pc EXCEPT ![BurnOp(l)] = "submit"]
    /\ UNCHANGED <<lock, holding, chainVars, target, tx, todo>>

-----------------------------------------------------------------------------
(* The chain and the adapter's submit *)

Supply == Cardinality({l \in Lot : executed[MintOp(l)]})
            - Cardinality({l \in Lot : executed[BurnOp(l)]})

(* The contract refuses an operation it has processed, and a burn of more    *)
(* than there is; it may refuse others (paused, frozen, not permissioned).   *)
CanExecute(o) == ~executed[o] /\ (o[1] = "BURN" => Supply >= 1)

Submit(p) ==
    /\ pc[p] = "submit"
    /\ \/ /\ pc' = [pc EXCEPT ![p] = "poll"]
          /\ tx' = [tx EXCEPT ![p] = "pending"]
       \/ /\ pc' = [pc EXCEPT ![p] = "unknown"]
          /\ UNCHANGED tx
    /\ UNCHANGED <<dbVars, chainVars, target, todo>>

Mine(p) ==
    /\ tx[p] = "pending"
    /\ \/ /\ CanExecute(target[p])
          /\ executed' = [executed EXCEPT ![target[p]] = TRUE]
          /\ tx' = [tx EXCEPT ![p] = "mined"]
       \/ /\ tx' = [tx EXCEPT ![p] = "reverted"]
          /\ UNCHANGED executed
    /\ UNCHANGED <<dbVars, stray, early, pc, target, todo>>

MineStray(o) ==
    /\ stray[o] > 0
    /\ stray' = [stray EXCEPT ![o] = @ - 1]
    /\ \/ CanExecute(o) /\ executed' = [executed EXCEPT ![o] = TRUE]
       \/ UNCHANGED executed
    /\ UNCHANGED <<dbVars, early, procVars>>

(* A process stops waiting for its transaction, which the mempool keeps. *)
Abandon(p) ==
    IF tx[p] = "pending"
    THEN /\ stray[target[p]] < MaxStray
         /\ stray' = [stray EXCEPT ![target[p]] = @ + 1]
    ELSE UNCHANGED stray

(* The receipt says executed; or it says reverted, the wait times out, or    *)
(* the RPC fails, which are all one outcome to the caller.                   *)
Poll(p) ==
    /\ pc[p] = "poll"
    /\ \/ /\ tx[p] = "mined"
          /\ pc' = [pc EXCEPT ![p] = "confirm"]
          /\ UNCHANGED stray
       \/ /\ Abandon(p)
          /\ pc' = [pc EXCEPT ![p] = "unknown"]
    /\ tx' = [tx EXCEPT ![p] = "none"]
    /\ UNCHANGED <<dbVars, executed, early, target, todo>>

-----------------------------------------------------------------------------
(* finishMint and finishRedemption: the transaction after the chain call *)

(* Mutant: the request's late failure reopens what a recovery has settled. *)
UnknownReopens(p) ==
    /\ pc[p] = "unknown"
    /\ saga' = [saga EXCEPT ![target[p]] = "RECOVERY_REQUIRED"]
    /\ UpdateOp(target[p], "UNKNOWN", TRUE)
    /\ Return(p, FALSE)
    /\ UNCHANGED <<lock, holding, chainVars>>

(* Mutant: an unknown burn is taken for a success and its lot is released. *)
UnknownCompletes(p) ==
    /\ pc[p] = "unknown"
    /\ LET o == target[p] IN
         /\ saga[o] = "CHAIN_PENDING"
         /\ saga' = [saga EXCEPT ![o] = IF o[1] = "BURN" THEN "COMPLETED"
                                        ELSE "RECOVERY_REQUIRED"]
         /\ lock' = [lock EXCEPT ![o[2]] = IF o[1] = "BURN" THEN "RELEASED" ELSE @]
         /\ UpdateOp(o, "UNKNOWN", TRUE)
    /\ Return(p, FALSE)
    /\ UNCHANGED <<holding, chainVars>>

(* The outcome is unknown or the transaction reverted.  The outbox keeps one *)
(* event per resource and status, so that a second RECOVERY_REQUIRED of the  *)
(* same request is rolled back (Abort).                                      *)
Unknown(p) ==
    /\ pc[p] = "unknown"
    /\ LET o == target[p] IN
         \/ /\ saga[o] \in Final
            /\ UNCHANGED dbVars
            /\ Return(p, TRUE)
         \/ /\ saga[o] = "CHAIN_PENDING"
            /\ saga' = [saga EXCEPT ![o] = "RECOVERY_REQUIRED"]
            /\ UpdateOp(o, "UNKNOWN", TRUE)
            /\ UNCHANGED <<lock, holding>>
            /\ Return(p, FALSE)
    /\ UNCHANGED chainVars

(* Mutant: every confirmation of a mint credits the holding. *)
ConfirmMintAgain(p) ==
    /\ pc[p] = "confirm" /\ target[p][1] = "MINT"
    /\ saga' = [saga EXCEPT ![target[p]] = "MINTED"]
    /\ holding' = holding + 1
    /\ UpdateOp(target[p], "CONFIRMED", TRUE)
    /\ Return(p, TRUE)
    /\ UNCHANGED <<lock, chainVars>>

(* confirmMint *)
ConfirmMint(p) ==
    /\ pc[p] = "confirm" /\ target[p][1] = "MINT"
    /\ LET o == target[p] IN
         \/ saga[o] \in Final /\ UNCHANGED dbVars
         \/ /\ saga[o] \notin Final
            /\ saga' = [saga EXCEPT ![o] = "MINTED"]
            /\ holding' = holding + 1
            /\ UpdateOp(o, "CONFIRMED", TRUE)
            /\ UNCHANGED lock
    /\ Return(p, TRUE)
    /\ UNCHANGED chainVars

(* Mutant: every confirmation of a burn debits the holding. *)
ConfirmBurnAgain(p) ==
    /\ pc[p] = "confirm" /\ target[p][1] = "BURN"
    /\ executed[target[p]]
    /\ saga' = [saga EXCEPT ![target[p]] = "COMPLETED"]
    /\ lock' = [lock EXCEPT ![target[p][2]] = "RELEASED"]
    /\ holding' = holding - 1
    /\ UpdateOp(target[p], "CONFIRMED", TRUE)
    /\ Return(p, TRUE)
    /\ UNCHANGED chainVars

(* confirmRedemption asks the chain again before it releases anything. *)
ConfirmBurn(p) ==
    /\ pc[p] = "confirm" /\ target[p][1] = "BURN"
    /\ LET o == target[p]  l == o[2] IN
         \/ saga[o] = "COMPLETED" /\ UNCHANGED dbVars
         \/ /\ saga[o] # "COMPLETED"
            /\ executed[o] /\ lock[l] = "LOCKED" /\ holding >= 1
            /\ saga' = [saga EXCEPT ![o] = "COMPLETED"]
            /\ lock' = [lock EXCEPT ![l] = "RELEASED"]
            /\ holding' = holding - 1
            /\ UpdateOp(o, "CONFIRMED", TRUE)
    /\ Return(p, TRUE)
    /\ UNCHANGED chainVars

(* The transaction fails, by itself or because a guard of it does, and is    *)
(* rolled back; or the chain does not answer a query.                        *)
Abort(p) ==
    /\ pc[p] \in {"query", "confirm", "unknown", "failmint"}
    /\ Return(p, FALSE)
    /\ UNCHANGED <<dbVars, chainVars>>

-----------------------------------------------------------------------------
(* recoverOperation *)

(* No transaction of the operation is in the mempool or about to enter it. *)
Inert(o) ==
    /\ stray[o] = 0
    /\ \A p \in Process : target[p] = o => pc[p] # "submit" /\ tx[p] # "pending"

(* Recovery asks whenever it is called, and decides by the answer. *)
Query(p) ==
    /\ pc[p] = "query"
    /\ LET o == target[p] IN
         /\ pc' = [pc EXCEPT ![p] = IF executed[o] THEN "confirm"
                                    ELSE IF o[1] = "MINT" THEN "failmint"
                                    ELSE "submit"]
         /\ early' = IF o[1] = "MINT" /\ ~executed[o] /\ ~Inert(o)
                     THEN early \cup {o} ELSE early
    /\ UNCHANGED <<dbVars, executed, stray, target, tx, todo>>

(* recoverFailedMint: the query found the mint not executed. *)
FailMint(p) ==
    /\ pc[p] = "failmint"
    /\ LET o == target[p]  l == o[2] IN
         \/ saga[o] = "FAILED_RECOVERED" /\ UNCHANGED dbVars
         \/ /\ saga[o] # "FAILED_RECOVERED"
            /\ saga' = [saga EXCEPT ![o] = "FAILED_RECOVERED"]
            /\ lock' = [lock EXCEPT ![l] = "RELEASED"]
            /\ UpdateOp(o, "FAILED", TRUE)
            /\ UNCHANGED holding
    /\ Return(p, TRUE)
    /\ UNCHANGED chainVars

RecoverOperation(a, o) ==
    /\ pc[a] = "idle" /\ opStatus[o] # "NONE"
    /\ pc'     = [pc EXCEPT ![a] = "query"]
    /\ target' = [target EXCEPT ![a] = o]
    /\ UNCHANGED <<dbVars, chainVars, tx, todo>>

-----------------------------------------------------------------------------
(* RecoverDueOperations *)

Claimable == {o \in Op : /\ opStatus[o] \in {"PENDING", "UNKNOWN"}
                         /\ due[o] /\ attempts[o] < MaxAttempts /\ ~claimed[o]}

Exhausted == {o \in Op : /\ opStatus[o] \in {"PENDING", "UNKNOWN", "FAILED"}
                         /\ attempts[o] >= MaxAttempts}

(* LIMIT batch_size; which rows come first is left open. *)
Batches == {B \in SUBSET Claimable :
              \/ Cardinality(B) = BatchSize
              \/ B = Claimable /\ Cardinality(B) < BatchSize}

Claim(w) ==
    /\ pc[w] = "idle" /\ Claimable \cup Exhausted # {}
    /\ \E B \in Batches :
         /\ claimed' = [o \in Op |-> claimed[o] \/ o \in B]
         /\ todo'    = [todo EXCEPT ![w] = B]
    /\ pc'      = [pc EXCEPT ![w] = "next"]
    /\ UNCHANGED <<lock, saga, holding, opStatus, attempts, due, chainVars,
                   target, tx>>

RecoverNext(w) ==
    /\ pc[w] = "next"
    /\ \E o \in todo[w] :
         /\ todo'   = [todo EXCEPT ![w] = @ \ {o}]
         /\ target' = [target EXCEPT ![w] = o]
    /\ pc' = [pc EXCEPT ![w] = "query"]
    /\ UNCHANGED <<dbVars, chainVars, tx>>

(* The status is overwritten, CONFIRMED included.  An error of this          *)
(* statement is ignored.                                                     *)
DeferRecovery(w) ==
    /\ pc[w] = "error"
    /\ UpdateOp(target[w], "UNKNOWN", FALSE) \/ UNCHANGED opVars
    /\ pc'     = [pc EXCEPT ![w] = "next"]
    /\ target' = [target EXCEPT ![w] = NoOp]
    /\ UNCHANGED <<lock, saga, holding, chainVars, tx, todo>>

MoveExhausted(w) ==
    /\ pc[w] = "next" /\ todo[w] = {}
    /\ opStatus' = [o \in Op |-> IF o \in Exhausted THEN "DLQ" ELSE opStatus[o]]
    /\ claimed'  = [o \in Op |-> claimed[o] /\ o \notin Exhausted]
    /\ pc' = [pc EXCEPT ![w] = "idle"]
    /\ UNCHANGED <<lock, saga, holding, attempts, due, chainVars, target, tx, todo>>

BackoffEnds(o) ==
    /\ opStatus[o] # "NONE" /\ ~due[o]
    /\ due' = [due EXCEPT ![o] = TRUE]
    /\ UNCHANGED <<lock, saga, holding, opStatus, attempts, claimed, chainVars,
                   procVars>>

(* The process dies between two transactions, or in one that is rolled back. *)
Crash(p) ==
    /\ pc[p] # "idle"
    /\ Abandon(p)
    /\ pc'     = [pc EXCEPT ![p] = "idle"]
    /\ target' = [target EXCEPT ![p] = Home(p)]
    /\ tx'     = [tx EXCEPT ![p] = "none"]
    /\ todo'   = [w \in Worker |-> IF w = p THEN {} ELSE todo[w]]
    /\ UNCHANGED <<dbVars, executed, early>>

-----------------------------------------------------------------------------
Call(p) == \/ Submit(p) \/ Poll(p) \/ Unknown(p) \/ ConfirmMint(p)
           \/ ConfirmBurn(p) \/ Query(p) \/ FailMint(p) \/ Abort(p)

RecoverDueOperations(w) ==
    Claim(w) \/ RecoverNext(w) \/ DeferRecovery(w) \/ MoveExhausted(w)

Next ==
    \/ \E l \in Lot : StartMint(l) \/ StartRedemption(l)
    \/ \E p \in Process : Call(p) \/ Mine(p) \/ Crash(p)
    \/ \E o \in Op : MineStray(o) \/ BackoffEnds(o)
    \/ \E a \in Admin, o \in Op : RecoverOperation(a, o)
    \/ \E w \in Worker : RecoverDueOperations(w)

Spec == Init /\ [][Next]_vars

(* A call that has started goes on, apps/worker/main.go runs                 *)
(* RecoverDueOperations every ten seconds, backoffs end.  The chain,         *)
(* customers and administrators owe nothing.                                 *)
FairSpec ==
    /\ Spec
    /\ \A p \in Process : WF_vars(Call(p))
    /\ \A w \in Worker : WF_vars(RecoverDueOperations(w))
    /\ \A o \in Op : WF_vars(BackoffEnds(o))

-----------------------------------------------------------------------------
(* Properties *)

(* A token that is on the chain is backed by its locked lot, whichever of    *)
(* the request, the workers and the administrators recorded its outcome      *)
(* (README.md:107, README.md:111, the comment on rwa.underlying_locks in     *)
(* 000008_rwa_simulator.up.sql).  The code does not keep this promise: a     *)
(* recovery that asks before a timed-out mint is mined releases its lot.     *)
TokensBacked ==
    \A l \in Lot : executed[MintOp(l)] /\ ~executed[BurnOp(l)] => lock[l] = "LOCKED"

(* The early question is the only way to an unbacked token: where recovery   *)
(* asked about a mint when nothing of it was outstanding any more, its token *)
(* is backed until it is burnt, whatever timeouts, crashes, redemptions and  *)
(* repeated recoveries do; and the lot of an unbacked token was released by  *)
(* recoverFailedMint, never by a redemption.                                 *)
OnlyEarlyQueriesUnback ==
    \A l \in Lot :
        executed[MintOp(l)] /\ ~executed[BurnOp(l)] /\ lock[l] # "LOCKED"
          => MintOp(l) \in early /\ saga[MintOp(l)] = "FAILED_RECOVERED"

(* A completed redemption has burnt its token and released its lot: no       *)
(* retry, timeout or revert lets shares go before the burn is final          *)
(* (redemption.go confirmRedemption, "it must never release shares early").  *)
CompletedIsBurnt ==
    \A l \in Lot : saga[BurnOp(l)] = "COMPLETED"
                     => executed[BurnOp(l)] /\ lock[l] = "RELEASED"

(* Every lot credited to the customer is a token that was minted and not     *)
(* redeemed: repeated confirmations of one mint, by the request and by       *)
(* recoveries, credit the holding once (finishMint's early return).          *)
HoldingsAreTokens ==
    holding + Cardinality({l \in Lot : saga[BurnOp(l)] = "COMPLETED"})
      <= Cardinality({l \in Lot : executed[MintOp(l)]})

(* What a customer was told is final stays, but for a mint recovery asked    *)
(* about too early, which recoverFailedMint fails after it was confirmed: a  *)
(* failed mint is not confirmed, a redemption not reopened, and no other     *)
(* minted lot is failed later.                                               *)
OnlyEarlyQueriesReopen ==
    [][\A o \in Op : saga[o] \in Final /\ saga'[o] # saga[o]
          => saga[o] = "MINTED" /\ o \in early /\ saga'[o] = "FAILED_RECOVERED"]_vars

(* Recovery reaches every operation: a chain operation does not stay pending *)
(* or unknown for ever (README.md:114, "retry, recovery, replay protection,  *)
(* and DLQ handling").                                                       *)
OperationsSettle ==
    \A o \in Op : opStatus[o] \in {"PENDING", "UNKNOWN"}
                    ~> opStatus[o] \in {"CONFIRMED", "FAILED", "DLQ"}
=============================================================================
