---------------------------- MODULE LedgerProofs ----------------------------
(***************************************************************************)
(* For any callers, keys, provider events, accounts and posting commands:  *)
(* the ledger keeps its types, answers a repeated command with the same    *)
(* transaction, never has all calls waiting, explains every balance by the *)
(* postings that stand, and implements Journal.                            *)
(*                                                                         *)
(* The invariant says that the three unique tables and the journal agree   *)
(* (TableInv), that a call which holds an uncommitted row is the only one  *)
(* to hold it and that no committed row has its key (CallInv), and that an *)
(* answer names the transaction of its request or of its provider event    *)
(* (AnswerInv).  A reversal takes as much out of a sum as it puts in,      *)
(* because it is the only one of its original and has the original's       *)
(* change with the sign turned.                                            *)
(***************************************************************************)
EXTENDS Ledger, MoneyTheorems

Holding(c) == pc[c] \in {"event", "original", "write"}

TableInv ==
    /\ \A k \in Key : keyTx[k] # NoTx =>
         journal[keyTx[k]] # NoRequest /\ journal[keyTx[k]].key = k
    /\ \A e \in Event : eventTx[e] # NoTx =>
         journal[eventTx[e]] # NoRequest /\ journal[eventTx[e]].event = e
    /\ \A u \in Tx : reversedBy[u] # NoTx =>
         journal[reversedBy[u]] # NoRequest /\ journal[reversedBy[u]].original = u
    /\ \A t \in Tx : journal[t] # NoRequest =>
         /\ keyTx[journal[t].key] = t
         /\ journal[t].event # NoEvent => eventTx[journal[t].event] = t
         /\ journal[t].original # NoTx => reversedBy[journal[t].original] = t

CallInv ==
    /\ \A c \in Client : pc[c] # "idle" => req[c] \in Request
    /\ \A c \in Client : Holding(c) =>
         id[c] \in Tx /\ journal[id[c]] = NoRequest /\ keyTx[req[c].key] = NoTx
    /\ \A c \in Client : \A d \in Others(c) : Holding(c) /\ Holding(d) =>
         req[c].key # req[d].key /\ id[c] # id[d]
    /\ \A c \in Client : pc[c] = "event" => req[c].event # NoEvent /\ req[c].original = NoTx
    /\ \A c \in Client : pc[c] = "original" => req[c].original # NoTx
    /\ \A c \in Client : pc[c] = "write" =>
         /\ req[c].event # NoEvent => eventTx[req[c].event] = NoTx
         /\ req[c].original # NoTx => /\ journal[req[c].original] # NoRequest
                                      /\ reversedBy[req[c].original] = NoTx
    /\ \A c \in Client : \A d \in Others(c) : pc[c] = "write" /\ pc[d] = "write" =>
         /\ req[c].event # NoEvent => req[c].event # req[d].event
         /\ req[c].original # NoTx => req[c].original # req[d].original

AnswerInv ==
    \A x \in answers :
        /\ journal[x.tx] # NoRequest
        /\ \/ journal[x.tx] = x.request
           \/ x.request.event # NoEvent /\ eventTx[x.request.event] = x.tx

Inv == TypeOK /\ TableInv /\ CallInv /\ AnswerInv

-----------------------------------------------------------------------------
(* The fields of a request are what the tables are indexed by. *)
LEMMA RequestFields ==
  ASSUME NEW r \in Request
  PROVE  /\ r.key \in Key /\ r.event \in Event \cup {NoEvent}
         /\ r.original \in Tx \cup {NoTx}
         /\ r.original = NoTx => r.change \in [Account -> Int]
         /\ r.original # NoTx => r.event = NoEvent
         /\ r # NoRequest
  BY LedgerAssumption DEF Request, Reversal

(* The invariant holds in the empty ledger. *)
LEMMA InitInv == Init => Inv
<1>. SUFFICES ASSUME Init  PROVE Inv
  OBVIOUS
<1>. USE LedgerAssumption DEF Init
<1>1. TypeOK
  BY DEF TypeOK, NoEntries
<1>2. TableInv
  BY DEF TableInv
<1>3. CallInv
  BY DEF CallInv, Holding, Others
<1>4. AnswerInv
  BY DEF AnswerInv
<1>. QED  BY <1>1, <1>2, <1>3, <1>4 DEF Inv

(* The entries written are one number per account. *)
LEMMA EntriesType ==
  ASSUME Inv, NEW r \in Request
  PROVE  EntriesOf(r) \in [Account -> Int]
<1>1. CASE r.original = NoTx
  BY <1>1, RequestFields DEF EntriesOf
<1>2. CASE r.original # NoTx
  <2>1. r.original \in Tx
    BY <1>2, RequestFields
  <2>2. \A a \in Account : entries[r.original][a] \in Int
    BY <2>1 DEF Inv, TypeOK
  <2>. QED  BY <1>2, <2>2 DEF EntriesOf
<1>. QED  BY <1>1, <1>2

-----------------------------------------------------------------------------
(* Steps that leave the tables alone *)

(* A call that ends takes no uncommitted row with it. *)
LEMMA EndCalls ==
  ASSUME Inv, NEW c \in Client, End(c), UNCHANGED tables
  PROVE  CallInv' /\ TableInv'
<1>1. TableInv'
  BY DEF Inv, TableInv, tables
<1>2. \A d \in Client : \/ pc'[d] = "idle"
                        \/ pc'[d] = pc[d] /\ req'[d] = req[d] /\ id'[d] = id[d]
  BY DEF Inv, TypeOK, End
<1>3. CallInv'
  <2>. \A d \in Client : Holding(d)' => Holding(d)
    BY <1>2 DEF Holding
  <2>. QED  BY <1>2 DEF Inv, CallInv, tables, Holding, Others
<1>. QED  BY <1>1, <1>3

LEMMA EndTypes ==
  ASSUME Inv, NEW c \in Client, End(c)
  PROVE  /\ pc'  \in [Client -> {"idle", "key", "event", "original", "write"}]
         /\ req' \in [Client -> Request \cup {NoRequest}]
         /\ id'  \in [Client -> Tx \cup {NoTx}]
  BY DEF Inv, TypeOK, End

(* What a call is told when its key or its event was used before. *)
LEMMA AnswerKnown ==
  ASSUME Inv, NEW c \in Client, NEW t \in Tx, UNCHANGED tables,
         req[c] \in Request, journal[t] # NoRequest, Answer(c, t),
         \/ journal[t] = req[c]
         \/ req[c].event # NoEvent /\ eventTx[req[c].event] = t
  PROVE  AnswerInv' /\ answers' \subseteq [request : Request, tx : Tx]
<1>1. answers' \subseteq [request : Request, tx : Tx]
  BY DEF Inv, TypeOK, Answer
<1>2. AnswerInv'
  BY DEF Inv, AnswerInv, Answer, tables
<1>. QED  BY <1>1, <1>2

LEMMA AnswerNone ==
  ASSUME Inv, UNCHANGED tables, UNCHANGED answers
  PROVE  AnswerInv' /\ answers' \subseteq [request : Request, tx : Tx]
  BY DEF Inv, TypeOK, AnswerInv, tables

LEMMA RollbackInv ==
  ASSUME Inv, NEW c \in Client, Rollback(c)
  PROVE  Inv'
<1>. End(c) /\ UNCHANGED tables /\ UNCHANGED answers
  BY DEF Rollback
<1>1. CallInv' /\ TableInv'
  BY EndCalls
<1>2. TypeOK'
  BY EndTypes DEF Inv, TypeOK, tables
<1>3. AnswerInv'
  BY AnswerNone
<1>. QED  BY <1>1, <1>2, <1>3 DEF Inv

LEMMA CallKeepsInv ==
  ASSUME Inv, NEW c \in Client, NEW r \in Request, Call(c, r)
  PROVE  Inv'
<1>. pc[c] = "idle" /\ UNCHANGED tables /\ UNCHANGED answers
  BY DEF Call
<1>1. TypeOK'
  BY DEF Inv, TypeOK, Call, tables
<1>2. TableInv'
  BY DEF Inv, TableInv, tables
<1>3. AnswerInv'
  BY AnswerNone
<1>4. CallInv'
  <2>1. /\ pc'[c] = "key" /\ req'[c] = r
        /\ \A d \in Others(c) : pc'[d] = pc[d] /\ req'[d] = req[d] /\ id'[d] = id[d]
    BY DEF Inv, TypeOK, Call, Others
  <2>2. ~Holding(c)' /\ \A d \in Others(c) : Holding(d)' = Holding(d)
    BY <2>1 DEF Holding
  <2>. QED  BY <2>1, <2>2 DEF Inv, CallInv, tables, Holding, Others
<1>. QED  BY <1>1, <1>2, <1>3, <1>4 DEF Inv

(* The key is new: the call now holds its row and a fresh id. *)
LEMMA KeyAcquired ==
  ASSUME Inv, NEW c \in Client, pc[c] = "key", ~Blocked(c),
         keyTx[req[c].key] = NoTx,
         NEW u \in Fresh(c), id' = [id EXCEPT ![c] = u],
         pc' = [pc EXCEPT ![c] = IF req[c].original # NoTx THEN "original"
                                 ELSE IF req[c].event # NoEvent THEN "event"
                                 ELSE "write"],
         UNCHANGED <<req, answers>>, UNCHANGED tables
  PROVE  Inv'
<1>1. req[c] \in Request
  BY DEF Inv, CallInv
<1>2. TypeOK'
  BY DEF Inv, TypeOK, Fresh, tables
<1>3. TableInv'
  BY DEF Inv, TableInv, tables
<1>4. AnswerInv'
  BY AnswerNone
<1>5. CallInv'
  <2>1. /\ Holding(c)' /\ id'[c] = u /\ u \in Tx /\ journal[u] = NoRequest
        /\ pc'[c] = IF req[c].original # NoTx THEN "original"
                    ELSE IF req[c].event # NoEvent THEN "event" ELSE "write"
        /\ \A d \in Others(c) : pc'[d] = pc[d] /\ id'[d] = id[d] /\ u # id[d]
        /\ \A d \in Others(c) : Holding(d)' = Holding(d)
    BY DEF Inv, TypeOK, Holding, Fresh, Others
  <2>2. \A d \in Others(c) : Holding(d) => req[d].key # req[c].key
    BY DEF Blocked, HoldsKey, Holding, Others
  <2>3. pc'[c] = "write" => req[c].event = NoEvent /\ req[c].original = NoTx
    BY <2>1
  <2>4. \A d \in Client : pc'[d] # "idle" => req'[d] \in Request
    BY <1>1, <2>1 DEF Inv, CallInv, Others
  <2>5. \A d \in Client : Holding(d)' =>
          id'[d] \in Tx /\ journal'[id'[d]] = NoRequest /\ keyTx'[req'[d].key] = NoTx
    BY <2>1 DEF Inv, CallInv, Others, tables
  <2>6. \A d \in Client : \A e \in Others(d) : Holding(d)' /\ Holding(e)' =>
          req'[d].key # req'[e].key /\ id'[d] # id'[e]
    BY <2>1, <2>2 DEF Inv, CallInv, Others
  <2>7. \A d \in Client :
          /\ pc'[d] = "event" => req'[d].event # NoEvent /\ req'[d].original = NoTx
          /\ pc'[d] = "original" => req'[d].original # NoTx
          /\ pc'[d] = "write" =>
               /\ req'[d].event # NoEvent => eventTx'[req'[d].event] = NoTx
               /\ req'[d].original # NoTx => /\ journal'[req'[d].original] # NoRequest
                                             /\ reversedBy'[req'[d].original] = NoTx
    BY <2>1, <2>3 DEF Inv, CallInv, Others, tables
  <2>8. \A d \in Client : \A e \in Others(d) : pc'[d] = "write" /\ pc'[e] = "write" =>
          /\ req'[d].event # NoEvent => req'[d].event # req'[e].event
          /\ req'[d].original # NoTx => req'[d].original # req'[e].original
    BY <2>1, <2>3 DEF Inv, CallInv, Others
  <2>. QED  BY <2>4, <2>5, <2>6, <2>7, <2>8 DEF CallInv, Holding, Others
<1>. QED  BY <1>2, <1>3, <1>4, <1>5 DEF Inv

(* A committed row names a transaction that was posted. *)
LEMMA KnownPosted ==
  ASSUME Inv
  PROVE  /\ \A k \in Key : keyTx[k] # NoTx => keyTx[k] \in Tx /\ journal[keyTx[k]] # NoRequest
         /\ \A e \in Event : eventTx[e] # NoTx => eventTx[e] \in Tx /\ journal[eventTx[e]] # NoRequest
  BY DEF Inv, TypeOK, TableInv

LEMMA AcquireKeyInv ==
  ASSUME Inv, NEW c \in Client, AcquireKey(c)
  PROVE  Inv'
<1>. DEFINE t == keyTx[req[c].key]
<1>. pc[c] = "key" /\ ~Blocked(c) /\ UNCHANGED tables
  BY DEF AcquireKey
<1>1. req[c] \in Request /\ req[c].key \in Key
  BY RequestFields DEF Inv, CallInv
<1>2. CASE t = NoTx
  BY <1>2, KeyAcquired DEF AcquireKey
<1>3. CASE t # NoTx
  <2>1. End(c)
    BY <1>3 DEF AcquireKey
  <2>2. t \in Tx /\ journal[t] # NoRequest
    BY <1>1, <1>3, KnownPosted
  <2>3. AnswerInv' /\ answers' \subseteq [request : Request, tx : Tx]
    <3>1. CASE journal[t] = req[c]
      <4>1. Answer(c, t)
        BY <1>3, <3>1 DEF AcquireKey
      <4>. QED  BY <1>1, <2>2, <3>1, <4>1, AnswerKnown
    <3>2. CASE journal[t] # req[c]
      <4>1. UNCHANGED answers
        BY <1>3, <3>2 DEF AcquireKey
      <4>. QED  BY <4>1, AnswerNone
    <3>. QED  BY <3>1, <3>2
  <2>4. CallInv' /\ TableInv'
    BY <2>1, EndCalls
  <2>5. TypeOK'
    BY <2>1, <2>3, EndTypes DEF Inv, TypeOK, tables
  <2>. QED  BY <2>3, <2>4, <2>5 DEF Inv
<1>. QED  BY <1>2, <1>3

(* The call goes on to its last step, with its event or its original. *)
LEMMA WriteReached ==
  ASSUME Inv, NEW c \in Client, pc[c] \in {"event", "original"}, ~Blocked(c),
         pc[c] = "event" => eventTx[req[c].event] = NoTx,
         pc[c] = "original" => /\ journal[req[c].original] # NoRequest
                               /\ reversedBy[req[c].original] = NoTx,
         pc' = [pc EXCEPT ![c] = "write"],
         UNCHANGED <<req, id, answers>>, UNCHANGED tables
  PROVE  Inv'
<1>1. req[c] \in Request
  BY DEF Inv, CallInv
<1>2. /\ pc[c] = "event" => req[c].event # NoEvent /\ req[c].original = NoTx
      /\ pc[c] = "original" => req[c].event = NoEvent /\ req[c].original # NoTx
  BY <1>1, RequestFields DEF Inv, CallInv
<1>3. TypeOK'
  BY DEF Inv, TypeOK, tables
<1>4. TableInv'
  BY DEF Inv, TableInv, tables
<1>5. AnswerInv'
  BY AnswerNone
<1>6. CallInv'
  <2>1. /\ pc'[c] = "write" /\ Holding(c)
        /\ \A d \in Others(c) : pc'[d] = pc[d]
        /\ \A d \in Client : Holding(d)' = Holding(d)
    BY DEF Inv, TypeOK, Holding, Others
  <2>2. /\ \A d \in Others(c) : pc[d] = "write" =>
             /\ req[c].event # NoEvent => req[c].event # req[d].event
             /\ req[c].original # NoTx => req[c].original # req[d].original
    BY <1>2 DEF Blocked, HoldsEvent, HoldsReversal, Others
  <2>3. \A d \in Client : \A e \in Others(d) : pc'[d] = "write" /\ pc'[e] = "write" =>
          /\ req'[d].event # NoEvent => req'[d].event # req'[e].event
          /\ req'[d].original # NoTx => req'[d].original # req'[e].original
    BY <2>1, <2>2 DEF Inv, CallInv, Others
  <2>4. \A d \in Client : pc'[d] = "write" =>
          /\ req'[d].event # NoEvent => eventTx'[req'[d].event] = NoTx
          /\ req'[d].original # NoTx => /\ journal'[req'[d].original] # NoRequest
                                        /\ reversedBy'[req'[d].original] = NoTx
    BY <1>2, <2>1 DEF Inv, CallInv, Others, tables
  <2>5. \A d \in Client :
          /\ pc'[d] # "idle" => req'[d] \in Request
          /\ pc'[d] = "event" => req'[d].event # NoEvent /\ req'[d].original = NoTx
          /\ pc'[d] = "original" => req'[d].original # NoTx
    BY <1>1, <2>1 DEF Inv, CallInv, Others
  <2>6. /\ \A d \in Client : Holding(d)' =>
             id'[d] \in Tx /\ journal'[id'[d]] = NoRequest /\ keyTx'[req'[d].key] = NoTx
        /\ \A d \in Client : \A e \in Others(d) : Holding(d)' /\ Holding(e)' =>
             req'[d].key # req'[e].key /\ id'[d] # id'[e]
    BY <2>1 DEF Inv, CallInv, tables, Others
  <2>. QED  BY <2>3, <2>4, <2>5, <2>6 DEF CallInv, Holding, Others
<1>. QED  BY <1>3, <1>4, <1>5, <1>6 DEF Inv

LEMMA AcquireEventInv ==
  ASSUME Inv, NEW c \in Client, AcquireEvent(c)
  PROVE  Inv'
<1>. DEFINE t == eventTx[req[c].event]
<1>. pc[c] = "event" /\ ~Blocked(c) /\ UNCHANGED tables
  BY DEF AcquireEvent
<1>1. req[c] \in Request /\ req[c].event \in Event /\ req[c].event # NoEvent
  BY RequestFields DEF Inv, CallInv
<1>2. CASE t = NoTx
  BY <1>2, WriteReached DEF AcquireEvent
<1>3. CASE t # NoTx
  <2>1. End(c)
    BY <1>3 DEF AcquireEvent
  <2>2. t \in Tx /\ journal[t] # NoRequest
    BY <1>1, <1>3, KnownPosted
  <2>3. AnswerInv' /\ answers' \subseteq [request : Request, tx : Tx]
    <3>1. CASE journal[t].payload = req[c].payload
      <4>1. Answer(c, t)
        BY <1>3, <3>1 DEF AcquireEvent
      <4>. QED  BY <1>1, <2>2, <4>1, AnswerKnown
    <3>2. CASE journal[t].payload # req[c].payload
      <4>1. UNCHANGED answers
        BY <1>3, <3>2 DEF AcquireEvent
      <4>. QED  BY <4>1, AnswerNone
    <3>. QED  BY <3>1, <3>2
  <2>4. CallInv' /\ TableInv'
    BY <2>1, EndCalls
  <2>5. TypeOK'
    BY <2>1, <2>3, EndTypes DEF Inv, TypeOK, tables
  <2>. QED  BY <2>3, <2>4, <2>5 DEF Inv
<1>. QED  BY <1>2, <1>3

LEMMA AcquireReversalInv ==
  ASSUME Inv, NEW c \in Client, AcquireReversal(c)
  PROVE  Inv'
<1>. DEFINE t == req[c].original
<1>. pc[c] = "original" /\ ~Blocked(c) /\ UNCHANGED tables /\ UNCHANGED answers
  BY DEF AcquireReversal
<1>1. CASE journal[t] # NoRequest /\ reversedBy[t] = NoTx
  BY <1>1, WriteReached DEF AcquireReversal
<1>2. CASE ~(journal[t] # NoRequest /\ reversedBy[t] = NoTx)
  <2>1. End(c)
    BY <1>2 DEF AcquireReversal
  <2>2. TypeOK'
    BY <2>1, EndTypes DEF Inv, TypeOK, tables
  <2>. QED  BY <2>1, <2>2, EndCalls, AnswerNone DEF Inv
<1>. QED  BY <1>1, <1>2

-----------------------------------------------------------------------------
(* The commit *)

(* What the commit of c writes, row by row, and what it finds free. *)
LEMMA CommitRows ==
  ASSUME Inv, NEW c \in Client, Commit(c)
  PROVE  /\ req[c] \in Request /\ req[c].key \in Key /\ req[c] # NoRequest
         /\ req[c].event \in Event \cup {NoEvent} /\ req[c].original \in Tx \cup {NoTx}
         /\ id[c] \in Tx /\ journal[id[c]] = NoRequest /\ id[c] # NoTx
         /\ keyTx[req[c].key] = NoTx
         /\ req[c].event # NoEvent => eventTx[req[c].event] = NoTx
         /\ req[c].original # NoTx => /\ journal[req[c].original] # NoRequest
                                      /\ reversedBy[req[c].original] = NoTx
         /\ \A u \in Tx : journal'[u] = IF u = id[c] THEN req[c] ELSE journal[u]
         /\ \A k \in Key : keyTx'[k] = IF k = req[c].key THEN id[c] ELSE keyTx[k]
         /\ \A e \in Event : eventTx'[e] = IF e = req[c].event THEN id[c] ELSE eventTx[e]
         /\ \A u \in Tx : reversedBy'[u] = IF u = req[c].original THEN id[c] ELSE reversedBy[u]
<1>1. req[c] \in Request /\ id[c] \in Tx /\ journal[id[c]] = NoRequest
      /\ keyTx[req[c].key] = NoTx /\ Holding(c)
  BY DEF Inv, CallInv, Commit, Holding
<1>2. /\ req[c].key \in Key /\ req[c] # NoRequest
      /\ req[c].event \in Event \cup {NoEvent} /\ req[c].original \in Tx \cup {NoTx}
  BY <1>1, RequestFields
<1>3. id[c] # NoTx
  BY <1>1, LedgerAssumption
<1>4. /\ req[c].event # NoEvent => eventTx[req[c].event] = NoTx
      /\ req[c].original # NoTx => /\ journal[req[c].original] # NoRequest
                                   /\ reversedBy[req[c].original] = NoTx
  BY DEF Inv, CallInv, Commit
<1>5. /\ \A u \in Tx : journal'[u] = IF u = id[c] THEN req[c] ELSE journal[u]
      /\ \A k \in Key : keyTx'[k] = IF k = req[c].key THEN id[c] ELSE keyTx[k]
  BY <1>1, <1>2 DEF Inv, TypeOK, Commit
<1>6. /\ \A e \in Event : eventTx'[e] = IF e = req[c].event THEN id[c] ELSE eventTx[e]
      /\ \A u \in Tx : reversedBy'[u] = IF u = req[c].original THEN id[c] ELSE reversedBy[u]
  BY DEF Commit
<1>. QED  BY <1>1, <1>2, <1>3, <1>4, <1>5, <1>6

LEMMA CommitTypes ==
  ASSUME Inv, NEW c \in Client, Commit(c)
  PROVE  TypeOK'
<1>1. req[c] \in Request /\ req[c].key \in Key /\ id[c] \in Tx
  BY CommitRows
<1>2. EntriesOf(req[c]) \in [Account -> Int]
  BY <1>1, EntriesType
<1>3. End(c) /\ UNCHANGED opened
  BY DEF Commit
<1>4. journal' \in [Tx -> Request \cup {NoRequest}] /\ keyTx' \in [Key -> Tx \cup {NoTx}]
  BY <1>1 DEF Inv, TypeOK, Commit
<1>5. entries' \in [Tx -> [Account -> Int]]
  BY <1>1, <1>2 DEF Inv, TypeOK, Commit
<1>6. eventTx' \in [Event -> Tx \cup {NoTx}] /\ reversedBy' \in [Tx -> Tx \cup {NoTx}]
  BY <1>1 DEF Inv, TypeOK, Commit
<1>7. answers' \subseteq [request : Request, tx : Tx]
  BY <1>1 DEF Inv, TypeOK, Commit, Answer
<1>. QED  BY <1>3, <1>4, <1>5, <1>6, <1>7, EndTypes DEF Inv, TypeOK

LEMMA CommitTables ==
  ASSUME Inv, NEW c \in Client, Commit(c)
  PROVE  TableInv'
<1>. DEFINE r == req[c]  t == id[c]
<1>1. /\ r.key \in Key /\ r # NoRequest /\ t \in Tx /\ journal[t] = NoRequest /\ t # NoTx
      /\ keyTx[r.key] = NoTx
      /\ r.event # NoEvent => r.event \in Event /\ eventTx[r.event] = NoTx
      /\ r.original # NoTx => r.original \in Tx /\ reversedBy[r.original] = NoTx
      /\ \A u \in Tx : journal'[u] = IF u = t THEN r ELSE journal[u]
      /\ \A k \in Key : keyTx'[k] = IF k = r.key THEN t ELSE keyTx[k]
      /\ \A e \in Event : eventTx'[e] = IF e = r.event THEN t ELSE eventTx[e]
      /\ \A u \in Tx : reversedBy'[u] = IF u = r.original THEN t ELSE reversedBy[u]
  BY CommitRows
<1>2. NoEvent \notin Event /\ NoTx \notin Tx
  BY LedgerAssumption
<1>3. \A k \in Key : keyTx'[k] # NoTx =>
        journal'[keyTx'[k]] # NoRequest /\ journal'[keyTx'[k]].key = k
  BY <1>1 DEF Inv, TypeOK, TableInv
<1>4. \A e \in Event : eventTx'[e] # NoTx =>
        journal'[eventTx'[e]] # NoRequest /\ journal'[eventTx'[e]].event = e
  BY <1>1 DEF Inv, TypeOK, TableInv
<1>5. \A u \in Tx : reversedBy'[u] # NoTx =>
        journal'[reversedBy'[u]] # NoRequest /\ journal'[reversedBy'[u]].original = u
  BY <1>1 DEF Inv, TypeOK, TableInv
<1>6. ASSUME NEW u \in Tx, journal'[u] # NoRequest
      PROVE  /\ keyTx'[journal'[u].key] = u
             /\ journal'[u].event # NoEvent => eventTx'[journal'[u].event] = u
             /\ journal'[u].original # NoTx => reversedBy'[journal'[u].original] = u
  <2>1. CASE u = t
    BY <1>1, <2>1
  <2>2. CASE u # t
    <3>1. journal'[u] = journal[u] /\ journal[u] # NoRequest /\ journal[u] \in Request
      BY <1>1, <1>6, <2>2 DEF Inv, TypeOK
    <3>2. /\ journal[u].key \in Key
          /\ journal[u].event # NoEvent => journal[u].event \in Event
          /\ journal[u].original # NoTx => journal[u].original \in Tx
      BY <3>1, RequestFields
    <3>3. /\ keyTx[journal[u].key] = u /\ u # NoTx
          /\ journal[u].event # NoEvent => eventTx[journal[u].event] = u
          /\ journal[u].original # NoTx => reversedBy[journal[u].original] = u
      BY <1>2, <3>1 DEF Inv, TableInv
    <3>. QED  BY <1>1, <1>2, <3>1, <3>2, <3>3
  <2>. QED  BY <2>1, <2>2
<1>. QED  BY <1>3, <1>4, <1>5, <1>6 DEF TableInv

LEMMA CommitCalls ==
  ASSUME Inv, NEW c \in Client, Commit(c)
  PROVE  CallInv'
<1>1. /\ pc'[c] = "idle" /\ pc[c] = "write" /\ Holding(c)
      /\ \A d \in Others(c) : pc'[d] = pc[d] /\ req'[d] = req[d] /\ id'[d] = id[d]
  BY DEF Inv, TypeOK, Commit, End, Others, Holding
<1>2. /\ ~Holding(c)'
      /\ \A d \in Others(c) : Holding(d)' = Holding(d)
  BY <1>1 DEF Holding
<1>3. ASSUME NEW d \in Client, Holding(d)'
      PROVE  id'[d] \in Tx /\ journal'[id'[d]] = NoRequest /\ keyTx'[req'[d].key] = NoTx
  <2>1. d \in Others(c) /\ Holding(d)
    BY <1>2, <1>3 DEF Others
  <2>2. /\ id[d] \in Tx /\ journal[id[d]] = NoRequest /\ keyTx[req[d].key] = NoTx
        /\ req[d].key # req[c].key /\ id[d] # id[c] /\ req[d] \in Request
    BY <1>1, <2>1 DEF Inv, CallInv, Holding, Others
  <2>3. req[d].key \in Key
    BY <2>2, RequestFields
  <2>. QED  BY <1>1, <2>1, <2>2, <2>3, CommitRows
<1>4. ASSUME NEW d \in Client, pc'[d] = "write"
      PROVE  /\ req'[d].event # NoEvent => eventTx'[req'[d].event] = NoTx
             /\ req'[d].original # NoTx => /\ journal'[req'[d].original] # NoRequest
                                           /\ reversedBy'[req'[d].original] = NoTx
  <2>1. d \in Others(c) /\ pc[d] = "write" /\ req'[d] = req[d]
    BY <1>1, <1>4 DEF Others
  <2>2. /\ req[d] \in Request
        /\ req[d].event # NoEvent => eventTx[req[d].event] = NoTx /\ req[d].event # req[c].event
        /\ req[d].original # NoTx => /\ journal[req[d].original] # NoRequest
                                     /\ reversedBy[req[d].original] = NoTx
                                     /\ req[d].original # req[c].original
    BY <1>1, <2>1 DEF Inv, CallInv, Others
  <2>3. /\ req[d].event # NoEvent => req[d].event \in Event
        /\ req[d].original # NoTx => req[d].original \in Tx
    BY <2>2, RequestFields
  <2>. QED  BY <2>1, <2>2, <2>3, CommitRows
<1>5. /\ \A d \in Client : pc'[d] # "idle" => req'[d] \in Request
      /\ \A d \in Client : pc'[d] = "event" => req'[d].event # NoEvent /\ req'[d].original = NoTx
      /\ \A d \in Client : pc'[d] = "original" => req'[d].original # NoTx
  BY <1>1 DEF Inv, CallInv, Others
<1>6. /\ \A d \in Client : \A e \in Others(d) : Holding(d)' /\ Holding(e)' =>
           req'[d].key # req'[e].key /\ id'[d] # id'[e]
      /\ \A d \in Client : \A e \in Others(d) : pc'[d] = "write" /\ pc'[e] = "write" =>
           /\ req'[d].event # NoEvent => req'[d].event # req'[e].event
           /\ req'[d].original # NoTx => req'[d].original # req'[e].original
  BY <1>1, <1>2 DEF Inv, CallInv, Others
<1>. QED  BY <1>3, <1>4, <1>5, <1>6 DEF CallInv, Holding, Others

LEMMA CommitAnswers ==
  ASSUME Inv, NEW c \in Client, Commit(c)
  PROVE  AnswerInv'
<1>1. \A x \in answers' : x \in answers \/ x = [request |-> req[c], tx |-> id[c]]
  BY DEF Commit, Answer
<1>2. ASSUME NEW x \in answers
      PROVE  /\ journal'[x.tx] = journal[x.tx] /\ journal[x.tx] # NoRequest
             /\ \/ journal[x.tx] = x.request
                \/ x.request.event # NoEvent /\ eventTx'[x.request.event] = x.tx
  <2>1. x.tx \in Tx /\ x.request \in Request
    BY DEF Inv, TypeOK
  <2>2. /\ journal[x.tx] # NoRequest
        /\ \/ journal[x.tx] = x.request
           \/ x.request.event # NoEvent /\ eventTx[x.request.event] = x.tx
    BY DEF Inv, AnswerInv
  <2>3. x.tx # id[c] /\ x.tx # NoTx
    BY <2>1, <2>2, CommitRows, LedgerAssumption
  <2>4. x.request.event # NoEvent => x.request.event \in Event
    BY <2>1, RequestFields
  <2>. QED  BY <2>1, <2>2, <2>3, <2>4, CommitRows
<1>3. journal'[id[c]] = req[c] /\ req[c] # NoRequest
  BY CommitRows
<1>. QED  BY <1>1, <1>2, <1>3 DEF AnswerInv

-----------------------------------------------------------------------------
(* Theorems *)

LEMMA NextInv == Inv /\ [Next]_vars => Inv'
<1>. SUFFICES ASSUME Inv, [Next]_vars  PROVE Inv'
  OBVIOUS
<1>1. ASSUME NEW c \in Client, NEW r \in Request, Call(c, r)  PROVE Inv'
  BY <1>1, CallKeepsInv
<1>2. ASSUME NEW c \in Client, AcquireKey(c)  PROVE Inv'
  BY <1>2, AcquireKeyInv
<1>3. ASSUME NEW c \in Client, AcquireEvent(c)  PROVE Inv'
  BY <1>3, AcquireEventInv
<1>4. ASSUME NEW c \in Client, AcquireReversal(c)  PROVE Inv'
  BY <1>4, AcquireReversalInv
<1>5. ASSUME NEW c \in Client, Commit(c)  PROVE Inv'
  BY <1>5, CommitTypes, CommitTables, CommitCalls, CommitAnswers DEF Inv
<1>6. ASSUME NEW c \in Client, Rollback(c)  PROVE Inv'
  BY <1>6, RollbackInv
<1>7. ASSUME NEW a \in Account, OpenAccount(a)  PROVE Inv'
  BY <1>7 DEF OpenAccount, calls, Inv, TypeOK, TableInv, CallInv, AnswerInv, Holding, Others
<1>8. CASE UNCHANGED vars
  BY <1>8 DEF vars, tables, calls, Inv, TypeOK, TableInv, CallInv, AnswerInv, Holding, Others
<1>. QED  BY <1>1, <1>2, <1>3, <1>4, <1>5, <1>6, <1>7, <1>8 DEF Next, Step

LEMMA Invariance == Spec => []Inv
<1>. QED  BY InitInv, NextInv, PTL DEF Spec

(* The type invariant of the ledger (tables of 000002, calls of service.go). *)
THEOREM TypeCorrect == Spec => []TypeOK
<1>1. Inv => TypeOK
  BY DEF Inv
<1>. QED  BY <1>1, Invariance, PTL

(* A command that is repeated is answered with the same committed            *)
(* transaction every time (acquireRequest, acquireProviderEvent).            *)
THEOREM Answers == Spec => []AnswersStable
<1>1. Inv => AnswersStable
  <2>. SUFFICES ASSUME Inv, NEW x \in answers, NEW y \in answers,
                       x.request = y.request
                PROVE  x.tx = y.tx
    BY DEF AnswersStable, Inv, AnswerInv
  <2>1. x.tx \in Tx /\ y.tx \in Tx
    BY DEF Inv, TypeOK
  <2>. QED  BY <2>1 DEF Inv, AnswerInv, TableInv
<1>. QED  BY <1>1, Invariance, PTL

(* Some call can always go on: a call that waits for an event or a reversal  *)
(* waits for a writer, and a writer waits for nobody.                        *)
THEOREM NoCircle == Spec => []NoWaitCycle
<1>1. NoWaitCycle
  <2>. SUFFICES ASSUME NEW c \in Client, pc[c] # "idle"
                PROVE  \E d \in Client : pc[d] # "idle" /\ ~Blocked(d)
    BY DEF NoWaitCycle
  <2>1. \A d \in Client : pc[d] = "write" => ~Blocked(d)
    BY DEF Blocked
  <2>2. \A d \in Client : pc[d] \in {"event", "original"} /\ Blocked(d) =>
          \E e \in Client : pc[e] = "write"
    BY DEF Blocked, HoldsEvent, HoldsReversal, Others
  <2>3. Blocked(c) => \E d \in Client : pc[d] \in {"event", "original", "write"}
    BY DEF Blocked, HoldsKey, HoldsEvent, HoldsReversal, Others
  <2>. QED  BY <2>1, <2>2, <2>3
<1>. QED  BY <1>1, PTL

-----------------------------------------------------------------------------
(* Balances *)

(* What a transaction wrote follows from its request. *)
EntryInv ==
    \A t \in Tx :
        /\ journal[t] = NoRequest => entries[t] = NoEntries
        /\ journal[t] # NoRequest /\ journal[t].original = NoTx =>
             entries[t] = journal[t].change
        /\ journal[t] # NoRequest /\ journal[t].original # NoTx =>
             /\ journal[journal[t].original] # NoRequest
             /\ \A a \in Account : entries[t][a] = 0 - entries[journal[t].original][a]

(* The reversals of a transaction, of its reversal and so on come to an end: *)
(* end[t] is the last of them, and up holds what an even number of reversals *)
(* separates from it.                                                        *)
Ends(up, end) ==
    \A t \in Tx :
        /\ reversedBy[t] = NoTx => t \in up /\ end[t] = t
        /\ reversedBy[t] # NoTx => /\ t \in up <=> reversedBy[t] \notin up
                                   /\ end[t] = end[reversedBy[t]]

ChainInv == \E up \in SUBSET Tx, end \in [Tx -> Tx] : Ends(up, end)

BalanceInv == Inv /\ EntryInv /\ ChainInv

LEMMA InitBalance == Init => BalanceInv
<1>. SUFFICES ASSUME Init  PROVE BalanceInv
  OBVIOUS
<1>1. EntryInv
  BY DEF Init, EntryInv
<1>2. ChainInv
  <2>1. Ends(Tx, [t \in Tx |-> t])
    BY DEF Init, Ends
  <2>. QED  BY <2>1 DEF ChainInv
<1>. QED  BY <1>1, <1>2, InitInv DEF BalanceInv

LEMMA CommitEntries ==
  ASSUME BalanceInv, NEW c \in Client, Commit(c)
  PROVE  EntryInv'
<1>. DEFINE r == req[c]  t == id[c]
<1>1. /\ r \in Request /\ r # NoRequest /\ t \in Tx /\ journal[t] = NoRequest
      /\ r.original # NoTx => r.original \in Tx /\ journal[r.original] # NoRequest
      /\ \A u \in Tx : journal'[u] = IF u = t THEN r ELSE journal[u]
  BY CommitRows DEF BalanceInv
<1>2. \A u \in Tx : entries'[u] = IF u = t THEN EntriesOf(r) ELSE entries[u]
  BY DEF BalanceInv, Inv, TypeOK, Commit
<1>3. \A u \in Tx : journal[u] # NoRequest =>
        journal[u].original \in Tx \cup {NoTx}
  BY RequestFields DEF BalanceInv, Inv, TypeOK
<1>4. ASSUME NEW u \in Tx
      PROVE  /\ journal'[u] = NoRequest => entries'[u] = NoEntries
             /\ journal'[u] # NoRequest /\ journal'[u].original = NoTx =>
                  entries'[u] = journal'[u].change
             /\ journal'[u] # NoRequest /\ journal'[u].original # NoTx =>
                  /\ journal'[journal'[u].original] # NoRequest
                  /\ \A a \in Account :
                       entries'[u][a] = 0 - entries'[journal'[u].original][a]
  <2>1. CASE u = t
    <3>1. CASE r.original = NoTx
      BY <1>1, <1>2, <2>1, <3>1 DEF EntriesOf
    <3>2. CASE r.original # NoTx
      <4>1. r.original # t /\ EntriesOf(r) = [a \in Account |-> 0 - entries[r.original][a]]
        BY <1>1, <3>2 DEF EntriesOf
      <4>. QED  BY <1>1, <1>2, <2>1, <3>2, <4>1
    <3>. QED  BY <3>1, <3>2
  <2>2. CASE u # t
    <3>1. journal'[u] = journal[u] /\ entries'[u] = entries[u]
      BY <1>1, <1>2, <2>2
    <3>2. CASE journal[u] # NoRequest /\ journal[u].original # NoTx
      <4>1. /\ journal[u].original \in Tx
            /\ journal[journal[u].original] # NoRequest
            /\ \A a \in Account : entries[u][a] = 0 - entries[journal[u].original][a]
        BY <1>3, <3>2 DEF BalanceInv, EntryInv
      <4>2. journal[u].original # t
        BY <1>1, <4>1
      <4>3. /\ journal'[journal[u].original] = journal[journal[u].original]
            /\ entries'[journal[u].original] = entries[journal[u].original]
        BY <1>1, <1>2, <4>1, <4>2
      <4>. QED  BY <3>1, <3>2, <4>1, <4>3
    <3>3. CASE journal[u] = NoRequest \/ journal[u].original = NoTx
      BY <3>1, <3>3 DEF BalanceInv, EntryInv
    <3>. QED  BY <3>2, <3>3
  <2>. QED  BY <2>1, <2>2
<1>5. NoEntries' = NoEntries
  BY DEF NoEntries
<1>. QED  BY <1>4, <1>5 DEF EntryInv

(* A reversal turns over the chain of its original, and is its new end. *)
LEMMA CommitChains ==
  ASSUME BalanceInv, NEW c \in Client, Commit(c)
  PROVE  ChainInv'
<1>1. PICK t \in Tx, o \in Tx \cup {NoTx} :
        /\ journal[t] = NoRequest /\ t # NoTx
        /\ o # NoTx => o \in Tx /\ journal[o] # NoRequest /\ reversedBy[o] = NoTx
        /\ \A u \in Tx : reversedBy'[u] = IF u = o THEN t ELSE reversedBy[u]
  <2>1. /\ id[c] \in Tx /\ journal[id[c]] = NoRequest /\ id[c] # NoTx
        /\ req[c].original \in Tx \cup {NoTx}
        /\ req[c].original # NoTx => /\ journal[req[c].original] # NoRequest
                                     /\ reversedBy[req[c].original] = NoTx
        /\ \A u \in Tx : reversedBy'[u] = IF u = req[c].original THEN id[c] ELSE reversedBy[u]
    BY CommitRows DEF BalanceInv
  <2>. QED  BY <2>1
<1>2. PICK up \in SUBSET Tx, end \in [Tx -> Tx] : Ends(up, end)
  BY DEF BalanceInv, ChainInv
<1>3. \A u \in Tx : reversedBy[u] \in Tx \cup {NoTx}
  BY DEF BalanceInv, Inv, TypeOK
<1>4. reversedBy[t] = NoTx
  <2>1. ASSUME reversedBy[t] # NoTx PROVE FALSE
    <3>1. /\ reversedBy[t] \in Tx
          /\ journal[reversedBy[t]] # NoRequest /\ journal[reversedBy[t]].original = t
      BY <1>1, <1>3, <2>1 DEF BalanceInv, Inv, TableInv
    <3>2. journal[t] # NoRequest
      BY <1>1, <3>1 DEF BalanceInv, EntryInv
    <3>. QED  BY <1>1, <3>2
  <2>. QED  BY <2>1
<1>5. CASE o = NoTx
  <2>1. \A u \in Tx : reversedBy'[u] = reversedBy[u]
    BY <1>1, <1>5, LedgerAssumption
  <2>2. Ends(up, end)'
    BY <1>2, <2>1 DEF Ends
  <2>. QED  BY <2>2 DEF ChainInv
<1>6. CASE o # NoTx
  <2>. DEFINE up1  == {u \in Tx : IF end[u] = o THEN u \notin up ELSE u \in up}
              end1 == [u \in Tx |-> IF end[u] = o THEN t ELSE end[u]]
  <2>1. o \in Tx /\ o # t /\ reversedBy[o] = NoTx /\ end[o] = o /\ o \in up
    BY <1>1, <1>2, <1>6 DEF Ends
  <2>2. end[t] = t /\ t \in up /\ reversedBy'[t] = NoTx
    BY <1>1, <1>2, <1>4, <2>1 DEF Ends
  <2>3. ASSUME NEW u \in Tx
        PROVE  /\ reversedBy'[u] = NoTx => u \in up1 /\ end1[u] = u
               /\ reversedBy'[u] # NoTx => /\ u \in up1 <=> reversedBy'[u] \notin up1
                                           /\ end1[u] = end1[reversedBy'[u]]
    <3>1. CASE u = o
      BY <1>1, <2>1, <2>2, <3>1
    <3>2. CASE u # o
      <4>1. reversedBy'[u] = reversedBy[u]
        BY <1>1, <3>2
      <4>2. CASE reversedBy[u] = NoTx
        <5>1. u \in up /\ end[u] = u
          BY <1>2, <4>2 DEF Ends
        <5>. QED  BY <3>2, <4>1, <4>2, <5>1
      <4>3. CASE reversedBy[u] # NoTx
        <5>1. /\ reversedBy[u] \in Tx /\ u \in up <=> reversedBy[u] \notin up
              /\ end[u] = end[reversedBy[u]]
          BY <1>2, <1>3, <4>3 DEF Ends
        <5>. QED  BY <4>1, <4>3, <5>1
      <4>. QED  BY <4>2, <4>3
    <3>. QED  BY <3>1, <3>2
  <2>4. up1 \in SUBSET Tx /\ end1 \in [Tx -> Tx]
    BY <1>1
  <2>. HIDE DEF up1, end1
  <2>5. Ends(up1, end1)'
    BY <2>3 DEF Ends
  <2>. QED  BY <2>4, <2>5 DEF ChainInv
<1>. QED  BY <1>5, <1>6

StandsTable(g) ==
    g = [t \in Tx |-> IF reversedBy[t] = NoTx THEN TRUE ELSE ~g[reversedBy[t]]]

(* stands is what its equation says. *)
LEMMA StandsDef ==
  ASSUME BalanceInv
  PROVE  \A t \in Tx : stands[t] <=> (reversedBy[t] # NoTx => ~stands[reversedBy[t]])
<1>1. PICK up \in SUBSET Tx, end \in [Tx -> Tx] : Ends(up, end)
  BY DEF BalanceInv, ChainInv
<1>. DEFINE g == [t \in Tx |-> IF t \in up THEN TRUE ELSE FALSE]
<1>2. StandsTable(g)
  <2>1. \A t \in Tx : reversedBy[t] \in Tx \cup {NoTx}
    BY DEF BalanceInv, Inv, TypeOK
  <2>2. \A t \in Tx : g[t] = IF reversedBy[t] = NoTx THEN TRUE ELSE ~g[reversedBy[t]]
    <3>. SUFFICES ASSUME NEW t \in Tx
                  PROVE  g[t] = IF reversedBy[t] = NoTx THEN TRUE ELSE ~g[reversedBy[t]]
      OBVIOUS
    <3>1. CASE reversedBy[t] = NoTx
      BY <1>1, <3>1 DEF Ends
    <3>2. CASE reversedBy[t] # NoTx
      <4>1. reversedBy[t] \in Tx /\ (t \in up <=> reversedBy[t] \notin up)
        BY <1>1, <2>1, <3>2 DEF Ends
      <4>2. CASE t \in up
        <5>1. g[t] = TRUE
          BY <4>2
        <5>2. g[reversedBy[t]] = FALSE
          BY <4>1, <4>2
        <5>. HIDE DEF g
        <5>. QED  BY <3>2, <5>1, <5>2
      <4>3. CASE t \notin up
        <5>1. g[t] = FALSE
          BY <4>3
        <5>2. g[reversedBy[t]] = TRUE
          BY <4>1, <4>3
        <5>. HIDE DEF g
        <5>. QED  BY <3>2, <5>1, <5>2
      <4>. QED  BY <4>2, <4>3
    <3>. QED  BY <3>1, <3>2
  <2>3. g = [t \in Tx |-> g[t]]
    OBVIOUS
  <2>. HIDE DEF g
  <2>. QED  BY <2>2, <2>3 DEF StandsTable
<1>. HIDE DEF g
<1>3. stands = CHOOSE h : StandsTable(h)
  BY DEF stands, StandsTable
<1>4. StandsTable(stands)
  BY <1>2, <1>3
<1>. QED  BY <1>4 DEF StandsTable

(* Every balance is explained: a reversed posting and its reversal cancel.   *)
LEMMA StandingExplains == BalanceInv => BalancesExplained
<1>. SUFFICES ASSUME BalanceInv, NEW a \in Account
              PROVE  Balance(a) = SumFunction([t \in Standing |-> journal[t].change[a]])
  BY DEF BalancesExplained
<1>. DEFINE e    == [t \in Tx |-> entries[t][a]]
            Off  == {t \in Tx : ~stands[t]}
            Back == {t \in Tx : stands[t] /\ journal[t] # NoRequest /\ journal[t].original # NoTx}
            None == {t \in Tx : stands[t] /\ journal[t] = NoRequest}
            p    == [t \in Off |-> reversedBy[t]]
            posted == [t \in Standing |-> journal[t].change[a]]
<1>1. \A t \in Tx : e[t] \in Int
  BY DEF BalanceInv, Inv, TypeOK
<1>2. /\ IsFiniteSet(Tx) /\ IsFiniteSet(Off) /\ IsFiniteSet(Back)
      /\ IsFiniteSet(None) /\ IsFiniteSet(Standing)
  BY LedgerAssumption, FS_Subset DEF Standing
<1>3. \A t \in Off : /\ reversedBy[t] \in Back /\ e[reversedBy[t]] = 0 - e[t]
                     /\ journal[reversedBy[t]].original = t
  <2>. SUFFICES ASSUME NEW t \in Off
                PROVE  /\ reversedBy[t] \in Back /\ e[reversedBy[t]] = 0 - e[t]
                       /\ journal[reversedBy[t]].original = t
    OBVIOUS
  <2>1. reversedBy[t] # NoTx /\ reversedBy[t] \in Tx /\ stands[reversedBy[t]]
    BY StandsDef DEF BalanceInv, Inv, TypeOK
  <2>2. journal[reversedBy[t]] # NoRequest /\ journal[reversedBy[t]].original = t
    BY <2>1 DEF BalanceInv, Inv, TableInv
  <2>3. e[reversedBy[t]] = 0 - e[t] /\ t # NoTx
    BY <2>1, <2>2, LedgerAssumption DEF BalanceInv, EntryInv
  <2>. QED  BY <2>1, <2>2, <2>3
<1>4. \A t \in Back : \E u \in Off : reversedBy[u] = t
  <2>. SUFFICES ASSUME NEW t \in Back  PROVE \E u \in Off : reversedBy[u] = t
    OBVIOUS
  <2>1. journal[t] \in Request /\ journal[t].original \in Tx
    BY RequestFields DEF BalanceInv, Inv, TypeOK
  <2>2. reversedBy[journal[t].original] = t
    BY DEF BalanceInv, Inv, TableInv
  <2>3. ~stands[journal[t].original]
    BY <2>1, <2>2, StandsDef, LedgerAssumption DEF BalanceInv
  <2>. QED  BY <2>1, <2>2, <2>3
<1>5. SumFunctionOnSet(e, Off) + SumFunctionOnSet(e, Back) = 0
  <2>1. p \in [Off -> Back]
    BY <1>3
  <2>2. \A t \in Off : e[t] \in Int /\ e[p[t]] = 0 - e[t]
    BY <1>1, <1>3
  <2>3. \A t, u \in Off : p[t] = p[u] => t = u
    <3>. SUFFICES ASSUME NEW t \in Off, NEW u \in Off, p[t] = p[u]  PROVE t = u
      OBVIOUS
    <3>1. reversedBy[t] = reversedBy[u]
      OBVIOUS
    <3>2. journal[reversedBy[t]].original = t /\ journal[reversedBy[u]].original = u
      BY <1>3
    <3>. QED  BY <3>1, <3>2
  <2>4. \A t \in Back : \E u \in Off : p[u] = t
    BY <1>4
  <2>. HIDE DEF e, Off, Back, p
  <2>. QED  BY <1>2, <2>1, <2>2, <2>3, <2>4, SumCancels
<1>6. SumFunctionOnSet(e, None) = 0
  <2>1. \A t \in None : e[t] = 0
    BY DEF BalanceInv, EntryInv, NoEntries
  <2>. HIDE DEF e, None
  <2>. QED  BY <1>2, <2>1, SumOfZeros
<1>7. SumFunctionOnSet(e, Standing) = SumFunction(posted)
  <2>1. \A t \in Standing : e[t] = posted[t]
    BY DEF BalanceInv, EntryInv, Standing
  <2>2. DOMAIN posted = Standing
    OBVIOUS
  <2>. HIDE DEF e, posted
  <2>. QED  BY <1>2, <2>1, <2>2, SumSame DEF SumFunction
<1>8. Tx = (Off \cup Back) \cup (None \cup Standing)
  BY DEF Standing
<1>9. /\ Off \cap Back = {} /\ None \cap Standing = {}
      /\ (Off \cup Back) \cap (None \cup Standing) = {}
  BY DEF Standing
<1>10. Balance(a) = SumFunctionOnSet(e, Tx)
  BY DEF Balance, SumFunction
<1>11. /\ IsFiniteSet(Off \cup Back) /\ IsFiniteSet(None \cup Standing)
       /\ \A t \in (Off \cup Back) \cup (None \cup Standing) : e[t] \in Int
       /\ \A t \in Off \cup Back : e[t] \in Int
       /\ \A t \in None \cup Standing : e[t] \in Int
  BY <1>1, <1>2, FS_Union DEF Standing
<1>12. SumFunctionOnSet(e, Standing) \in Int
  BY <1>1, <1>2, SumInt DEF Standing
<1>. HIDE DEF e, Off, Back, None, posted
<1>13. /\ SumFunctionOnSet(e, Off \cup Back) = 0
       /\ SumFunctionOnSet(e, None \cup Standing) = SumFunctionOnSet(e, Standing)
  <2>1. SumFunctionOnSet(e, Off \cup Back)
          = SumFunctionOnSet(e, Off) + SumFunctionOnSet(e, Back)
    BY <1>2, <1>9, <1>11, SumDisjoint
  <2>2. SumFunctionOnSet(e, None \cup Standing)
          = SumFunctionOnSet(e, None) + SumFunctionOnSet(e, Standing)
    BY <1>2, <1>9, <1>11, SumDisjoint
  <2>. QED  BY <1>5, <1>6, <1>12, <2>1, <2>2
<1>14. SumFunctionOnSet(e, Tx) = 0 + SumFunctionOnSet(e, Standing)
  BY <1>8, <1>9, <1>11, <1>13, SumDisjoint
<1>. QED  BY <1>7, <1>10, <1>12, <1>14 DEF posted

(* Only a commit writes entries and reversals. *)
LEMMA NextBalance == BalanceInv /\ [Next]_vars => BalanceInv'
<1>. SUFFICES ASSUME BalanceInv, [Next]_vars  PROVE BalanceInv'
  OBVIOUS
<1>1. ASSUME NEW c \in Client, Commit(c)  PROVE EntryInv' /\ ChainInv'
  BY <1>1, CommitEntries, CommitChains
<1>2. ASSUME UNCHANGED <<journal, entries, reversedBy>>  PROVE EntryInv' /\ ChainInv'
  <2>1. EntryInv'
    BY <1>2 DEF BalanceInv, EntryInv, NoEntries
  <2>2. PICK up \in SUBSET Tx, end \in [Tx -> Tx] : Ends(up, end)
    BY DEF BalanceInv, ChainInv
  <2>3. Ends(up, end)'
    BY <1>2, <2>2 DEF Ends
  <2>. QED  BY <2>1, <2>3 DEF ChainInv
<1>3. ASSUME NEW c \in Client, Step(c), ~Commit(c)
      PROVE  UNCHANGED <<journal, entries, reversedBy>>
  BY <1>3 DEF Step, Call, AcquireKey, AcquireEvent, AcquireReversal, Rollback, tables
<1>4. ASSUME NEW a \in Account, OpenAccount(a)
      PROVE  UNCHANGED <<journal, entries, reversedBy>>
  BY <1>4 DEF OpenAccount
<1>5. EntryInv' /\ ChainInv'
  BY <1>1, <1>2, <1>3, <1>4 DEF Next, vars, tables
<1>. QED  BY <1>5, NextInv DEF BalanceInv

(* Every balance is the sum of the postings that stand: a posting counts     *)
(* once, and not at all after it was reversed, however often reversals are   *)
(* reversed in turn (Reverse of service.go, ledger.account_balances).        *)
THEOREM BalancesAlwaysExplained == Spec => []BalancesExplained
<1>. QED  BY InitBalance, NextBalance, StandingExplains, PTL DEF Spec

-----------------------------------------------------------------------------
(* Refinement *)

(* Every step of the ledger appends one transaction to the journal or leaves *)
(* it alone.                                                                 *)
LEMMA StepImplements == Inv /\ [Next]_vars => [Promise!Next]_journal
<1>. SUFFICES ASSUME Inv, [Next]_vars  PROVE Promise!Next \/ UNCHANGED journal
  OBVIOUS
<1>1. ASSUME NEW c \in Client, Commit(c)  PROVE Promise!Next
  <2>. DEFINE r == req[c]  t == id[c]
  <2>1. /\ r \in Request /\ t \in Tx /\ journal[t] = NoRequest
        /\ keyTx[r.key] = NoTx
        /\ r.event # NoEvent => eventTx[r.event] = NoTx
        /\ r.original # NoTx => /\ r.original \in Tx /\ journal[r.original] # NoRequest
                                /\ reversedBy[r.original] = NoTx
    BY <1>1, CommitRows
  <2>2. journal' = [journal EXCEPT ![t] = r]
    BY <1>1 DEF Commit
  <2>3. \A u \in Tx : journal[u] # NoRequest =>
          /\ journal[u].key # r.key
          /\ r.event # NoEvent => journal[u].event # r.event
          /\ r.original # NoTx => journal[u].original # r.original
    BY <2>1, LedgerAssumption DEF Inv, TableInv
  <2>4. Promise!Append(t, r)
    BY <2>1, <2>2, <2>3 DEF Promise!Append, Promise!Posted
  <2>. QED  BY <2>1, <2>4 DEF Promise!Next
<1>2. CASE UNCHANGED journal
  BY <1>2
<1>3. ASSUME NEW c \in Client, Step(c), ~Commit(c)  PROVE UNCHANGED journal
  BY <1>3 DEF Step, Call, AcquireKey, AcquireEvent, AcquireReversal, Rollback, tables
<1>4. ASSUME NEW a \in Account, OpenAccount(a)  PROVE UNCHANGED journal
  BY <1>4 DEF OpenAccount
<1>. QED  BY <1>1, <1>2, <1>3, <1>4 DEF Next, vars, tables

(* The ledger implements the journal: one transaction for a key, a provider  *)
(* event and a reversed transaction, and no transaction is ever changed.     *)
THEOREM Implements == Spec => JournalSpec
<1>1. Init => Promise!Init
  BY DEF Init, Promise!Init
<1>. QED  BY <1>1, StepImplements, Invariance, PTL DEF Spec, JournalSpec, Promise!Spec
=============================================================================
