------------------------------- MODULE Ledger -------------------------------
(***************************************************************************)
(* The double-entry ledger: Post, Reverse and OpenAccount of               *)
(* internal/ledger/service.go over the tables of                           *)
(* db/migrations/000002_ledger_async_core.up.sql.                          *)
(*                                                                         *)
(* A call is one PostgreSQL transaction at READ COMMITTED.  It inserts, in *)
(* this order, the row of its idempotency key, the row of its provider     *)
(* event or of the reversal it makes, and then the ledger transaction with *)
(* its entries; each INSERT ... ON CONFLICT DO NOTHING waits for a         *)
(* concurrent transaction that inserted the same key and has not ended.    *)
(* The position of a call in this order is its pc, and what it holds       *)
(* uncommitted follows from it.  Everything becomes visible in one step,   *)
(* Commit; a rollback leaves no trace.                                     *)
(*                                                                         *)
(* A request stands for a validated command: its key for scope and key,    *)
(* equality of requests for equality of their hashes, its change for the   *)
(* balanced entries, as net debit per account, currency and dimension.     *)
(* The request hash of a committed row is that of the request its          *)
(* transaction carried out, and is not stored twice; nor is the payload    *)
(* hash.  The audit row and the outbox event commit with the transaction.  *)
(***************************************************************************)
EXTENDS Integers, FiniteSets, Functions

CONSTANTS
    Client,     \* concurrent callers
    Key,        \* (scope, idempotency key) pairs
    Event,      \* (provider, external event id) pairs
    Account,    \* (account, currency, dimension) triples
    Tx,         \* transaction ids
    Post,       \* the posting commands callers may submit
    NoTx, NoEvent, NoRequest, NoChange

Reversal == [key : Key, event : {NoEvent}, payload : {NoEvent},
             change : {NoChange}, original : Tx]

Request == Post \cup Reversal

ASSUME LedgerAssumption ==
    /\ \A r \in Post : /\ r.key \in Key
                       /\ r.event \in Event \cup {NoEvent}
                       /\ r.change \in [Account -> Int]
                       /\ r.original = NoTx
    /\ NoTx \notin Tx /\ NoEvent \notin Event /\ NoRequest \notin Request
    /\ IsFiniteSet(Tx)

VARIABLES
    opened,     \* ledger.accounts
    journal,    \* ledger.transactions: the request each one carried out
    entries,    \* ledger.entries: the net debits of each transaction
    keyTx,      \* ledger.request_idempotency
    eventTx,    \* ledger.provider_events
    reversedBy, \* ledger.reversals
    pc,         \* where the call of a client is
    req,        \* its request
    id,         \* the transaction id it proposes
    answers     \* what callers were told: [request, tx]

tables == <<opened, journal, entries, keyTx, eventTx, reversedBy>>
calls  == <<pc, req, id>>
vars   == <<tables, calls, answers>>

TypeOK ==
    /\ opened     \subseteq Account
    /\ journal    \in [Tx -> Request \cup {NoRequest}]
    /\ entries    \in [Tx -> [Account -> Int]]
    /\ keyTx      \in [Key -> Tx \cup {NoTx}]
    /\ eventTx    \in [Event -> Tx \cup {NoTx}]
    /\ reversedBy \in [Tx -> Tx \cup {NoTx}]
    /\ pc         \in [Client -> {"idle", "key", "event", "original", "write"}]
    /\ req        \in [Client -> Request \cup {NoRequest}]
    /\ id         \in [Client -> Tx \cup {NoTx}]
    /\ answers    \subseteq [request : Request, tx : Tx]

NoEntries == [a \in Account |-> 0]

Init ==
    /\ opened     = {}
    /\ journal    = [t \in Tx |-> NoRequest]
    /\ entries    = [t \in Tx |-> NoEntries]
    /\ keyTx      = [k \in Key |-> NoTx]
    /\ eventTx    = [e \in Event |-> NoTx]
    /\ reversedBy = [t \in Tx |-> NoTx]
    /\ pc         = [c \in Client |-> "idle"]
    /\ req        = [c \in Client |-> NoRequest]
    /\ id         = [c \in Client |-> NoTx]
    /\ answers    = {}

-----------------------------------------------------------------------------
(* Uncommitted rows *)

(* Mutant of HoldsKey: the key is read with a shared lock before the insert. *)
HoldsKeyShared(c, k) == pc[c] # "idle" /\ req[c].key = k

HoldsKey(c, k)      == pc[c] \in {"event", "original", "write"} /\ req[c].key = k
HoldsEvent(c, e)    == pc[c] = "write" /\ req[c].event = e
HoldsReversal(c, t) == pc[c] = "write" /\ req[c].original = t

Others(c) == Client \ {c}

Blocked(c) ==
    \/ pc[c] = "key" /\ \E d \in Others(c) : HoldsKey(d, req[c].key)
    \/ pc[c] = "event" /\ \E d \in Others(c) : HoldsEvent(d, req[c].event)
    \/ pc[c] = "original" /\ \E d \in Others(c) : HoldsReversal(d, req[c].original)

(* newUUID: an id no transaction has and no other call proposes. *)
Fresh(c) == {t \in Tx : journal[t] = NoRequest /\ \A d \in Others(c) : id[d] # t}

-----------------------------------------------------------------------------
(* The calls *)

(* The call ends and its transaction, if open, is rolled back. *)
End(c) ==
    /\ pc'  = [pc EXCEPT ![c] = "idle"]
    /\ req' = [req EXCEPT ![c] = NoRequest]
    /\ id'  = [id EXCEPT ![c] = NoTx]

Answer(c, t) == answers' = answers \cup {[request |-> req[c], tx |-> t]}

Call(c, r) ==
    /\ pc[c] = "idle"
    /\ pc'  = [pc EXCEPT ![c] = "key"]
    /\ req' = [req EXCEPT ![c] = r]
    /\ UNCHANGED <<tables, id, answers>>

(* Mutant of AcquireKey: the row is written before the id is drawn. *)
AcquireKeyWithoutId(c) ==
    /\ pc[c] = "key" /\ ~Blocked(c)
    /\ LET r == req[c]  t == keyTx[r.key] IN
         \/ /\ t = NoTx
            /\ pc' = [pc EXCEPT ![c] = IF r.original # NoTx THEN "original"
                                       ELSE IF r.event # NoEvent THEN "event"
                                       ELSE "write"]
            /\ UNCHANGED <<req, id, answers>>
         \/ /\ t # NoTx
            /\ End(c)
            /\ IF journal[t] = r THEN Answer(c, t) ELSE UNCHANGED answers
    /\ UNCHANGED tables

(* acquireRequest; a reused key with other data is ErrIdempotencyConflict. *)
AcquireKey(c) ==
    /\ pc[c] = "key" /\ ~Blocked(c)
    /\ LET r == req[c]  t == keyTx[r.key] IN
         \/ /\ t = NoTx
            /\ \E u \in Fresh(c) : id' = [id EXCEPT ![c] = u]
            /\ pc' = [pc EXCEPT ![c] = IF r.original # NoTx THEN "original"
                                       ELSE IF r.event # NoEvent THEN "event"
                                       ELSE "write"]
            /\ UNCHANGED <<req, answers>>
         \/ /\ t # NoTx
            /\ End(c)
            /\ IF journal[t] = r THEN Answer(c, t) ELSE UNCHANGED answers
    /\ UNCHANGED tables

(* Mutant of AcquireEvent: a redelivered event is answered with the id that  *)
(* the call proposed.                                                        *)
AcquireEventProposed(c) ==
    /\ pc[c] = "event" /\ ~Blocked(c)
    /\ LET r == req[c]  t == eventTx[r.event] IN
         \/ /\ t = NoTx
            /\ pc' = [pc EXCEPT ![c] = "write"]
            /\ UNCHANGED <<req, id, answers>>
         \/ /\ t # NoTx
            /\ End(c)
            /\ IF journal[t].payload = r.payload THEN Answer(c, id[c]) ELSE UNCHANGED answers
    /\ UNCHANGED tables

(* acquireProviderEvent; the row of the key is rolled back when the event    *)
(* was booked before, also when that is the answer.                          *)
AcquireEvent(c) ==
    /\ pc[c] = "event" /\ ~Blocked(c)
    /\ LET r == req[c]  t == eventTx[r.event] IN
         \/ /\ t = NoTx
            /\ pc' = [pc EXCEPT ![c] = "write"]
            /\ UNCHANGED <<req, id, answers>>
         \/ /\ t # NoTx
            /\ End(c)
            /\ IF journal[t].payload = r.payload THEN Answer(c, t) ELSE UNCHANGED answers
    /\ UNCHANGED tables

(* Mutant of AcquireReversal: the unique original of a reversal is dropped. *)
AcquireReversalAgain(c) ==
    /\ pc[c] = "original" /\ ~Blocked(c)
    /\ IF journal[req[c].original] # NoRequest
       THEN pc' = [pc EXCEPT ![c] = "write"] /\ UNCHANGED <<req, id>>
       ELSE End(c)
    /\ UNCHANGED <<tables, answers>>

(* The original must be there and not have been reversed. *)
AcquireReversal(c) ==
    /\ pc[c] = "original" /\ ~Blocked(c)
    /\ LET t == req[c].original IN
         IF journal[t] # NoRequest /\ reversedBy[t] = NoTx
         THEN pc' = [pc EXCEPT ![c] = "write"] /\ UNCHANGED <<req, id>>
         ELSE End(c)
    /\ UNCHANGED <<tables, answers>>

(* Mutant of EntriesOf: the sides are not exchanged. *)
EntriesOfSameSides(r) == IF r.original = NoTx THEN r.change ELSE entries[r.original]

(* The entries of the transaction: those of the command, or those of the     *)
(* original on the opposite sides.                                           *)
EntriesOf(r) == IF r.original = NoTx THEN r.change
                ELSE [a \in Account |-> 0 - entries[r.original][a]]

Touched(r) == {a \in Account : EntriesOf(r)[a] # 0}

(* The commit.  Its acknowledgement can be lost. *)
Commit(c) ==
    /\ pc[c] = "write"
    /\ LET r == req[c]  t == id[c] IN
         /\ Touched(r) \subseteq opened
         /\ journal'    = [journal EXCEPT ![t] = r]
         /\ entries'    = [entries EXCEPT ![t] = EntriesOf(r)]
         /\ keyTx'      = [keyTx EXCEPT ![r.key] = t]
         /\ eventTx'    = [e \in Event |-> IF e = r.event THEN t ELSE eventTx[e]]
         /\ reversedBy' = [u \in Tx |-> IF u = r.original THEN t ELSE reversedBy[u]]
         /\ Answer(c, t) \/ UNCHANGED answers
    /\ End(c)
    /\ UNCHANGED opened

(* An error, a crash of the caller or a lost connection, at any point. *)
Rollback(c) ==
    /\ pc[c] # "idle"
    /\ End(c)
    /\ UNCHANGED <<tables, answers>>

(* OpenAccount; a key that is there is answered or refused. *)
OpenAccount(a) ==
    /\ a \notin opened
    /\ opened' = opened \cup {a}
    /\ UNCHANGED <<journal, entries, keyTx, eventTx, reversedBy, calls, answers>>

Step(c) ==
    \/ \E r \in Request : Call(c, r)
    \/ AcquireKey(c) \/ AcquireEvent(c) \/ AcquireReversal(c)
    \/ Commit(c) \/ Rollback(c)

Next == (\E c \in Client : Step(c)) \/ (\E a \in Account : OpenAccount(a))

Spec == Init /\ [][Next]_vars

-----------------------------------------------------------------------------
(* Properties *)

(* Whoever repeats a command, after an error, a timeout or a lost            *)
(* acknowledgement, or concurrently, is told the same transaction every      *)
(* time, and that transaction is committed (acquireRequest and               *)
(* acquireProviderEvent of service.go).                                      *)
AnswersStable ==
    \A x \in answers : /\ journal[x.tx] # NoRequest
                       /\ \A y \in answers : x.request = y.request => x.tx = y.tx

(* Some call can always go on: calls that wait for keys, provider events and *)
(* reversals of one another never wait in a circle.                          *)
NoWaitCycle ==
    (\E c \in Client : pc[c] # "idle") => \E c \in Client : pc[c] # "idle" /\ ~Blocked(c)

(* A posting stands unless the last word on it is a reversal. *)
stands[t \in Tx] == IF reversedBy[t] = NoTx THEN TRUE ELSE ~stands[reversedBy[t]]

Balance(a) == SumFunction([t \in Tx |-> entries[t][a]])

\* The postings that stand.
Standing == {t \in Tx : journal[t] # NoRequest /\ journal[t].original = NoTx /\ stands[t]}

(* Every balance is the sum of the postings that stand: a posting has its    *)
(* effect once, and none after it was reversed, however reversals race and   *)
(* are themselves reversed (Reverse of service.go, ledger.account_balances). *)
BalancesExplained ==
    \A a \in Account :
        Balance(a) = SumFunction([t \in Standing |-> journal[t].change[a]])

Promise == INSTANCE Journal

(* The ledger implements the journal: one transaction per idempotency key,   *)
(* per provider event and per reversed transaction, none ever changed        *)
(* (the primary keys and immutability triggers of 000002).                   *)
JournalSpec == Promise!Spec
=============================================================================
