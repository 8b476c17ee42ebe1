---------------------------- MODULE SQLiteProofs ----------------------------
(***************************************************************************)
(* Proofs about SQLiteProcesses, for any processes, coroutines, keys, tags *)
(* and faults: the asyncio lock, the transaction on the connection that    *)
(* the coroutines share and that connection belong together; counters and  *)
(* tags in what is committed; types.                                       *)
(***************************************************************************)
EXTENDS SQLiteProcesses, TLAPS

\* The record of a call, whatever it holds.
Recorded(x) ==
  \E m, k, T, ttl, row, K, n :
    x = [use |-> m, key |-> k, tags |-> T, ttl |-> ttl, row |-> row, found |-> K, conn |-> n]

\* A coroutine in a call has a record of it.
CallsRecorded == \A c \in Coroutines : pc[c] # "idle" => Recorded(op[c])

\* The places and the holder of the lock.
Shape == /\ pc \in [Coroutines -> Places]
         /\ op = [c \in Coroutines |-> op[c]]
         /\ lock \in Coroutines \union {None}
         /\ CallsRecorded

\* A transaction is open on the connection its coroutine took: after a close()
\* the coroutine still holds the lock, and the transaction is gone.
TransactionOnConnection ==
  \A c \in Coroutines : pc[c] \in TxBody /\ writer = Loop => op[c].conn = conn

\* Who is cancelled at BEGIN leaves a transaction that nobody owns.
Holding == /\ Shape
           /\ LockIsHeld
           /\ "begin" \notin CancelAt => LockOwnsTransaction
           /\ TransactionOnConnection

\* The open connections are the one in use, or being set up, and those left; one
\* is made only when there is none.
ConnectionCounted ==
  /\ {conn, conns, made, left} \subseteq Nat /\ conn <= made /\ conns <= made /\ made <= MaxConns
  /\ \A c \in Coroutines : pc[c] \in {"connecting", "setup"} => conn = 0
  /\ \A c \in Coroutines : pc[c] = "setup" => conns = left + 1 /\ op[c].conn \in 1..made
  /\ (\A c \in Coroutines : pc[c] # "setup") => conns = left + (IF conn = 0 THEN 0 ELSE 1)

LockInv == Holding /\ ConnectionCounted

\* The initial state satisfies the invariant.
LEMMA LockInit == Init => LockInv
BY ProcessesAssumption
   DEF Init, FileInit, AsyncInit, LockInv, Holding, Shape, CallsRecorded, LockIsHeld, LockOwnsTransaction,
       TransactionOnConnection, ConnectionCounted, Places, Locked, TxBody

\* A step that leaves the coroutines, their lock and their connection alone and
\* opens no transaction for them preserves the invariant.
LEMMA LockStutter ==
  ASSUME LockInv, UNCHANGED asyncVars, writer' = Loop => writer = Loop
  PROVE  Holding'
BY DEF LockInv, Holding, Shape, CallsRecorded, LockIsHeld, LockOwnsTransaction,
       TransactionOnConnection, asyncVars

\* A statement does not change who has the transaction.
LEMMA ExecuteKeepsWriter ==
  ASSUME NEW c, NEW d, Execute(c, d) PROVE writer' = writer
BY DEF Execute

\* No step of another process opens a transaction on the loop's connection.
LEMMA SyncKeepsLoop ==
  ASSUME NEW p \in Processes, SyncStep(p)
  PROVE  writer' = Loop => writer = Loop
<1> USE ProcessesAssumption
<1>1. ASSUME NEW d, Single(p, d) PROVE writer' = writer
  BY <1>1, ExecuteKeepsWriter DEF Single
<1>2. ASSUME NEW d, NEW s, NEW K, First(p, d, s, K) PROVE writer' = writer
  BY <1>2, ExecuteKeepsWriter DEF First
<1>3. ASSUME NEW d, NEW s, Second(p, s, d) PROVE writer' = writer
  BY <1>3, ExecuteKeepsWriter DEF Second
<1>4. ASSUME NEW d, Transact(p, d) PROVE writer' = writer
  BY <1>4 DEF Transact
<1>5. CASE \E k \in Keys : DeleteRow(p, k) \/ GetCleansUp(p, k) \/ GetSelects(p, k) \/ Persist(p, k)
                           \/ SetStores(p, k, Text, None)
  BY <1>5, <1>1, <1>2, <1>3 DEF DeleteRow, GetCleansUp, GetSelects, Persist, SetStores, fileVars
<1>6. CASE \E k \in Keys : \E ttl \in Ttls : Expire(p, k, ttl)
  BY <1>6, <1>1 DEF Expire
<1>7. CASE \E k \in Keys : \E ttl \in TtlsOf(k) :
             SetStores(p, k, 0, ttl) \/ GetOrSetStores(p, k, ttl) \/ Incr(p, k, ttl)
  BY <1>7, <1>1, <1>3, <1>4 DEF SetStores, GetOrSetStores, Incr
<1>8. CASE \E k \in Keys : \E ttl \in TtlsOf(k) : CommitFails(p, k, ttl)
  BY <1>8 DEF CommitFails
<1>9. CASE \/ \E k \in Keys : \E T \in SUBSET Tags \ {{}} : AddTags(p, k, T)
           \/ \E T \in SUBSET Tags \ {{}} : InvalidateTags(p, T)
  BY <1>9, <1>4 DEF AddTags, InvalidateTags
<1>10. CASE ClearNamespace(p) \/ ClearAll(p) \/ EndDelete(p)
  BY <1>10, <1>2, <1>3 DEF ClearNamespace, ClearAll, EndDelete
<1>11. CASE Fails(p)
  BY <1>11 DEF Fails, fileVars
<1>12. CASE Crash(p)
  BY <1>12 DEF Crash, Undo
<1> QED BY <1>5, <1>6, <1>7, <1>8, <1>9, <1>10, <1>11, <1>12 DEF SyncStep

\* A step of c outside the region the lock guards, which stays outside it.
LEMMA LockOutside ==
  ASSUME LockInv, NEW c \in Coroutines, NEW place \in Places \ Locked,
         pc[c] \notin Locked,
         pc' = [pc EXCEPT ![c] = place],
         op' = [op EXCEPT ![c] = op'[c]],
         place # "idle" => Recorded(op'[c]),
         UNCHANGED <<lock, conn>>,
         writer' = Loop => writer = Loop
  PROVE  Holding'
<1>1. \A d \in Coroutines : d # c => pc'[d] = pc[d] /\ op'[d] = op[d]
  BY DEF LockInv, Holding, Shape
<1>2. pc'[c] = place
  BY DEF LockInv, Holding, Shape
<1>3. Shape'
  <2>1. CallsRecorded'
    BY <1>1, <1>2 DEF LockInv, Holding, Shape, CallsRecorded
  <2>2. op' = [d \in Coroutines |-> op'[d]]
    BY DEF LockInv, Holding, Shape
  <2> QED BY <2>1, <2>2 DEF LockInv, Holding, Shape
<1>4. LockIsHeld'
  BY <1>1, <1>2 DEF LockInv, Holding, LockIsHeld
<1>5. "begin" \notin CancelAt => LockOwnsTransaction'
  <2>1. \A d \in Coroutines : pc[d] \in TxBody => pc'[d] \in TxBody
    BY <1>1 DEF Locked
  <2> QED BY <2>1, ProcessesAssumption DEF LockInv, Holding, Shape, LockOwnsTransaction
<1>6. TransactionOnConnection'
  BY <1>1, <1>2 DEF LockInv, Holding, TransactionOnConnection, Locked
<1> QED BY <1>3, <1>4, <1>5, <1>6 DEF LockInv, Holding

\* A step of the lock's holder inside its transaction.
LEMMA LockInside ==
  ASSUME LockInv, NEW c \in Coroutines, NEW place \in TxBody,
         pc[c] \in TxBody,
         pc' = [pc EXCEPT ![c] = place],
         op' = [op EXCEPT ![c] = op'[c]],
         Recorded(op'[c]), op'[c].conn = op[c].conn,
         UNCHANGED <<lock, conn>>,
         writer' = Loop => writer = Loop
  PROVE  Holding'
<1>1. \A d \in Coroutines : d # c => pc'[d] = pc[d] /\ op'[d] = op[d]
  BY DEF LockInv, Holding, Shape
<1>2. pc'[c] = place /\ op'[c].conn = op[c].conn
  BY DEF LockInv, Holding, Shape
<1>3. Shape'
  <2>1. CallsRecorded'
    BY <1>1, <1>2 DEF LockInv, Holding, Shape, CallsRecorded
  <2>2. op' = [d \in Coroutines |-> op'[d]]
    BY DEF LockInv, Holding, Shape
  <2> QED BY <2>1, <2>2 DEF LockInv, Holding, Shape, Places, Locked
<1>4. LockIsHeld'
  BY <1>1, <1>2 DEF LockInv, Holding, LockIsHeld, Locked
<1>5. "begin" \notin CancelAt => LockOwnsTransaction'
  BY <1>1, <1>2 DEF LockInv, Holding, Shape, LockOwnsTransaction
<1>6. TransactionOnConnection'
  BY <1>1, <1>2 DEF LockInv, Holding, TransactionOnConnection, TxBody
<1> QED BY <1>3, <1>4, <1>5, <1>6 DEF LockInv, Holding

\* A step of c outside its transaction that ends its call and, if c holds the
\* lock, gives it back; nothing is open, or c has ended it, or BEGIN is cancelled.
LEMMA LockFreed ==
  ASSUME LockInv, NEW c \in Coroutines,
         Finish(c),
         lock' = IF lock = c THEN None ELSE lock,
         conn' = conn,
         writer' = Loop => writer = Loop \/ lock = c,
         "begin" \notin CancelAt /\ writer' = Loop => writer = Loop /\ lock # c
  PROVE  Holding'
<1>1. \A d \in Coroutines : d # c => pc'[d] = pc[d] /\ op'[d] = op[d]
  BY DEF LockInv, Holding, Shape, Finish
<1>2. pc'[c] = "idle"
  BY DEF LockInv, Holding, Shape, Finish
<1>3. Shape'
  <2>1. CallsRecorded'
    BY <1>1, <1>2 DEF LockInv, Holding, Shape, CallsRecorded
  <2>2. op' = [d \in Coroutines |-> op'[d]]
    BY DEF LockInv, Holding, Shape, Finish
  <2>3. pc' \in [Coroutines -> Places]
    BY DEF LockInv, Holding, Shape, Finish, Places
  <2> QED BY <2>1, <2>2, <2>3 DEF LockInv, Holding, Shape
<1>4. LockIsHeld'
  BY <1>1, <1>2, ProcessesAssumption DEF LockInv, Holding, LockIsHeld, Locked, TxBody
<1>5. "begin" \notin CancelAt => LockOwnsTransaction'
  BY <1>1, ProcessesAssumption DEF LockInv, Holding, Shape, LockOwnsTransaction
<1>6. TransactionOnConnection'
  BY <1>1, <1>2 DEF LockInv, Holding, LockIsHeld, TransactionOnConnection, Locked, TxBody
<1> QED BY <1>3, <1>4, <1>5, <1>6 DEF LockInv, Holding

\* A step of c into the region the lock guards; it takes the free lock, or has it.
LEMMA LockTaken ==
  ASSUME LockInv, NEW c \in Coroutines, NEW place \in Locked,
         pc[c] \notin TxBody, pc[c] # "idle",
         lock = None \/ lock = c,
         lock' = c,
         Goto(c, place),
         conn' = conn,
         writer' = Loop /\ place \in TxBody => op[c].conn = conn,
         "begin" \notin CancelAt /\ writer' = Loop => place \in TxBody
  PROVE  Holding'
<1>1. \A d \in Coroutines : d # c => pc'[d] = pc[d]
  BY DEF LockInv, Holding, Shape, Goto
<1>2. pc'[c] = place /\ op' = op
  BY DEF LockInv, Holding, Shape, Goto
<1>3. \A d \in Coroutines : d # c => pc[d] \notin Locked
  BY ProcessesAssumption DEF LockInv, Holding, LockIsHeld
<1>4. Shape'
  <2>1. CallsRecorded'
    BY <1>1, <1>2 DEF LockInv, Holding, Shape, CallsRecorded
  <2> QED BY <1>2, <2>1 DEF LockInv, Holding, Shape, Goto, Places
<1>5. LockIsHeld'
  BY <1>1, <1>2, <1>3 DEF LockIsHeld
<1>6. "begin" \notin CancelAt => LockOwnsTransaction'
  BY <1>2, ProcessesAssumption DEF LockOwnsTransaction
<1>7. TransactionOnConnection'
  BY <1>1, <1>2, <1>3 DEF TransactionOnConnection, Locked
<1> QED BY <1>4, <1>5, <1>6, <1>7 DEF Holding

\* The first statement of a method lies outside the region the lock guards.
LEMMA StartOutside ==
  ASSUME NEW m PROVE Start(m) \in Places \ Locked /\ Start(m) # "idle"
BY DEF Start, Places, Locked, TxBody

\* The statements of a call outside the lock, and the calls' beginnings.
LEMMA OutsideSteps ==
  ASSUME LockInv, NEW c \in Coroutines,
         \/ CleansUp(c) \/ Selects(c) \/ Computes(c) \/ Stores(c)
         \/ DeletesRows(c) \/ DeletesTags(c) \/ ChangesExpiry(c) \/ Invokes(c)
  PROVE  Holding'
<1>1. pc[c] # "idle" => Recorded(op[c])
  BY DEF LockInv, Holding, Shape, CallsRecorded
<1>2. op = [op EXCEPT ![c] = op[c]]
  BY DEF LockInv, Holding, Shape
<1>3. ASSUME pc[c] \notin Locked \union {"idle"}, Finish(c),
             UNCHANGED <<lock, conn, writer>>
      PROVE  Holding'
  <2>1. pc' = [pc EXCEPT ![c] = "idle"] /\ op' = [op EXCEPT ![c] = op'[c]]
    BY <1>3 DEF LockInv, Holding, Shape, Finish
  <2>2. "idle" \in Places \ Locked
    BY DEF Places, Locked, TxBody
  <2> QED BY <1>3, <2>1, <2>2, LockOutside
<1>4. ASSUME NEW place \in Places \ Locked, pc[c] \notin Locked \union {"idle"}, Goto(c, place),
             UNCHANGED <<lock, conn, writer>>
      PROVE  Holding'
  <2>1. pc' = [pc EXCEPT ![c] = place] /\ op' = [op EXCEPT ![c] = op'[c]]
    BY <1>2, <1>4 DEF LockInv, Holding, Shape, Goto
  <2>2. Recorded(op'[c])
    BY <1>1, <1>4 DEF Goto
  <2> QED BY <1>4, <2>1, <2>2, LockOutside
<1> USE DEF Places, Locked, TxBody
<1>5. ASSUME NEW place, NEW d, Statement(c, place, d)
      PROVE  pc[c] = place /\ UNCHANGED <<conn, writer>>
  BY <1>5, ExecuteKeepsWriter DEF Statement
<1>6. CASE CleansUp(c)
  <2>1. pc[c] = "cleanup" /\ UNCHANGED <<conn, writer>>
    BY <1>5, <1>6 DEF CleansUp
  <2>2. Goto(c, "select") /\ lock' = lock
    BY <1>6 DEF CleansUp
  <2> QED BY <1>4, <2>1, <2>2
<1>7. CASE Selects(c)
  <2>1. pc[c] = "select" /\ UNCHANGED <<lock, conn, writer>>
    BY <1>7 DEF Selects, fileVars
  <2>2. Goto(c, "compute") \/ Finish(c)
    BY <1>7 DEF Selects
  <2> QED BY <1>3, <1>4, <2>1, <2>2
<1>8. CASE Computes(c)
  <2> DEFINE place == IF conn = 0 THEN "connect" ELSE "store"
  <2>1. /\ pc[c] = "compute" /\ pc' = [pc EXCEPT ![c] = place]
        /\ op' = [op EXCEPT ![c].use = "set", ![c].conn = conn]
        /\ UNCHANGED <<lock, conn, writer>>
    BY <1>8 DEF Computes, fileVars
  <2>2. PICK m, k, T, ttl, row, K, n :
          op[c] = [use |-> m, key |-> k, tags |-> T, ttl |-> ttl, row |-> row, found |-> K, conn |-> n]
    BY <1>1, <2>1 DEF Recorded
  <2>3. op'[c] = [use |-> "set", key |-> k, tags |-> T, ttl |-> ttl, row |-> row, found |-> K,
                  conn |-> conn]
    <3> DEFINE x == [use |-> "set", key |-> k, tags |-> T, ttl |-> ttl, row |-> row, found |-> K,
                     conn |-> n]
               op1 == [op EXCEPT ![c].use = "set"]
    <3>1. op1[c] = x
      BY <2>2 DEF LockInv, Holding, Shape
    <3>2. op1 = [d \in Coroutines |-> op1[d]]
      BY DEF LockInv, Holding, Shape
    <3>3. op' = [op1 EXCEPT ![c].conn = conn]
      BY <2>1 DEF LockInv, Holding, Shape
    <3> HIDE DEF op1
    <3> QED BY <3>1, <3>2, <3>3
  <2>4. Recorded(op'[c])
    BY <2>3, Zenon DEF Recorded
  <2>5. op' = [op EXCEPT ![c] = op'[c]]
    BY <2>1 DEF LockInv, Holding, Shape
  <2> QED BY <2>1, <2>4, <2>5, LockOutside
<1>9. CASE Stores(c)
  <2>1. pc[c] = "store" /\ UNCHANGED <<conn, writer>>
    BY <1>5, <1>9 DEF Stores
  <2> QED BY <1>3, <1>9, <2>1 DEF Stores
<1>10. CASE DeletesRows(c)
  <2>1. pc[c] = "rows" /\ UNCHANGED <<conn, writer>>
    BY <1>5, <1>10 DEF DeletesRows
  <2>2. (Goto(c, "tags") \/ Finish(c)) /\ lock' = lock
    BY <1>10 DEF DeletesRows
  <2> QED BY <1>3, <1>4, <2>1, <2>2
<1>11. CASE DeletesTags(c)
  <2>1. pc[c] = "tags" /\ UNCHANGED <<conn, writer>>
    BY <1>5, <1>11 DEF DeletesTags
  <2>2. (Goto(c, "rows") \/ Finish(c)) /\ lock' = lock
    BY <1>11 DEF DeletesTags
  <2> QED BY <1>3, <1>4, <2>1, <2>2
<1>12. CASE ChangesExpiry(c)
  <2>1. pc[c] = "expiry" /\ UNCHANGED <<conn, writer>>
    BY <1>5, <1>12 DEF ChangesExpiry
  <2> QED BY <1>3, <1>12, <2>1 DEF ChangesExpiry
<1>13. CASE Invokes(c)
  <2>1. PICK k, m, T, ttl : Invoke(c, m, k, T, ttl)
    BY <1>13 DEF Invokes
  <2> DEFINE place == IF conn = 0 THEN "connect" ELSE Start(m)
             x == [use |-> m, key |-> k, tags |-> T, ttl |-> ttl,
                   row |-> None, found |-> {}, conn |-> conn]
  <2>2. place \in Places \ Locked
    BY StartOutside
  <2>3. /\ pc[c] = "idle" /\ pc' = [pc EXCEPT ![c] = place]
        /\ op' = [op EXCEPT ![c] = x]
        /\ UNCHANGED <<lock, conn, writer>>
    BY <2>1 DEF Invoke, fileVars
  <2>4. op'[c] = x
    BY <2>3 DEF LockInv, Holding, Shape
  <2>5. Recorded(op'[c])
    BY <2>4, Zenon DEF Recorded
  <2> QED BY <2>2, <2>3, <2>4, <2>5, LockOutside
<1> QED BY <1>6, <1>7, <1>8, <1>9, <1>10, <1>11, <1>12, <1>13

\* The statements of a transaction.
LEMMA InsideSteps ==
  ASSUME LockInv, NEW c \in Coroutines,
         Reads(c) \/ Writes(c) \/ FindsTagged(c) \/ DropsRows(c) \/ DropsTags(c)
  PROVE  Holding'
<1>1. pc[c] \in TxBody
  BY DEF Reads, Writes, FindsTagged, DropsRows, DropsTags, Statement, TxBody
<1>2. PICK m, k, T, ttl, row, K, n :
        op[c] = [use |-> m, key |-> k, tags |-> T, ttl |-> ttl, row |-> row, found |-> K, conn |-> n]
  BY <1>1 DEF LockInv, Holding, Shape, CallsRecorded, Recorded, TxBody
<1>3. ASSUME NEW place \in TxBody, Goto(c, place), UNCHANGED <<lock, conn, writer>>
      PROVE  Holding'
  <2>1. pc' = [pc EXCEPT ![c] = place] /\ op' = [op EXCEPT ![c] = op'[c]] /\ op'[c] = op[c]
    BY <1>3 DEF LockInv, Holding, Shape, Goto
  <2>2. Recorded(op'[c])
    BY <1>1, <2>1 DEF LockInv, Holding, Shape, CallsRecorded, TxBody
  <2> QED BY <1>1, <1>3, <2>1, <2>2, LockInside
<1>4. ASSUME NEW d, NEW place, Statement(c, place, d)
      PROVE  UNCHANGED <<conn, writer>>
  BY <1>4, ExecuteKeepsWriter DEF Statement
<1>5. CASE Reads(c)
  <2> DEFINE r == DB.rows[op[c].key]
  <2>1. PICK place \in TxBody :
          /\ pc' = [pc EXCEPT ![c] = place]
          /\ op' = [op EXCEPT ![c].row = r]
          /\ UNCHANGED <<lock, conn, writer>>
    BY <1>5 DEF Reads, TxBody, fileVars
  <2>2. op'[c] = [use |-> m, key |-> k, tags |-> T, ttl |-> ttl, row |-> r, found |-> K, conn |-> n]
    BY <1>2, <2>1 DEF LockInv, Holding, Shape
  <2>3. Recorded(op'[c])
    BY <2>2, Zenon DEF Recorded
  <2>4. op' = [op EXCEPT ![c] = op'[c]] /\ op'[c].conn = op[c].conn
    BY <1>2, <2>1, <2>2 DEF LockInv, Holding, Shape
  <2> QED BY <1>1, <2>1, <2>3, <2>4, LockInside
<1>6. CASE Writes(c)
  <2>1. Goto(c, "commit") /\ lock' = lock /\ UNCHANGED <<conn, writer>>
    BY <1>4, <1>6 DEF Writes
  <2> QED BY <1>3, <2>1 DEF TxBody
<1>7. CASE FindsTagged(c)
  <2> DEFINE F == TaggedKeys(DB, op[c].tags)
  <2>1. PICK place \in TxBody :
          /\ pc' = [pc EXCEPT ![c] = place]
          /\ op' = [op EXCEPT ![c].found = F]
          /\ UNCHANGED <<lock, conn, writer>>
    BY <1>7 DEF FindsTagged, TxBody, fileVars
  <2>2. op'[c] = [use |-> m, key |-> k, tags |-> T, ttl |-> ttl, row |-> row, found |-> F, conn |-> n]
    BY <1>2, <2>1 DEF LockInv, Holding, Shape
  <2>3. Recorded(op'[c])
    BY <2>2, Zenon DEF Recorded
  <2>4. op' = [op EXCEPT ![c] = op'[c]] /\ op'[c].conn = op[c].conn
    BY <1>2, <2>1, <2>2 DEF LockInv, Holding, Shape
  <2> QED BY <1>1, <2>1, <2>3, <2>4, LockInside
<1>8. CASE DropsRows(c)
  <2>1. Goto(c, "drop_tags") /\ lock' = lock /\ UNCHANGED <<conn, writer>>
    BY <1>4, <1>8 DEF DropsRows
  <2> QED BY <1>3, <2>1 DEF TxBody
<1>9. CASE DropsTags(c)
  <2>1. Goto(c, "commit") /\ lock' = lock /\ UNCHANGED <<conn, writer>>
    BY <1>4, <1>9 DEF DropsTags
  <2> QED BY <1>3, <2>1 DEF TxBody
<1> QED BY <1>5, <1>6, <1>7, <1>8, <1>9

\* The steps that take the lock or give it back.
LEMMA LockSteps ==
  ASSUME LockInv, NEW c \in Coroutines,
         \/ TakesLockToConnect(c) \/ Opens(c) \/ Connected(c) \/ ConnectFails(c) \/ SetUpFails(c)
         \/ TakesLock(c) \/ Begins(c) \/ Commits(c) \/ RollsBack(c)
  PROVE  Holding'
<1> USE ProcessesAssumption
<1>1. \A d \in Coroutines : pc[d] \in Locked <=> lock = d
  BY DEF LockInv, Holding, LockIsHeld
<1>2. ASSUME pc[c] # "idle"
      PROVE  \E m, k, T, ttl, row, K, n :
               op[c] = [use |-> m, key |-> k, tags |-> T, ttl |-> ttl, row |-> row, found |-> K, conn |-> n]
  BY <1>2 DEF LockInv, Holding, Shape, CallsRecorded, Recorded
<1>3. CASE TakesLockToConnect(c)
  <2>1. CASE conn = 0
    <3>1. /\ pc[c] = "connect" /\ lock = None /\ lock' = c /\ Goto(c, "connecting")
          /\ UNCHANGED <<conn, writer>>
      BY <1>3, <2>1 DEF TakesLockToConnect, fileVars
    <3>2. "begin" \notin CancelAt => writer # Loop
      BY <3>1 DEF LockInv, Holding, LockOwnsTransaction
    <3>3. "connecting" \in Locked \ TxBody /\ pc[c] \notin TxBody
      BY <3>1 DEF Locked, TxBody
    <3> QED BY <2>1, <3>1, <3>2, <3>3, LockTaken
  <2>2. CASE conn # 0
    <3>1. /\ pc[c] = "connect" /\ pc' = [pc EXCEPT ![c] = Start(op[c].use)]
          /\ op' = [op EXCEPT ![c].conn = conn]
          /\ UNCHANGED <<lock, conn, writer>>
      BY <1>3, <2>2 DEF TakesLockToConnect, fileVars
    <3>2. PICK m, k, T, ttl, row, K, n :
            op[c] = [use |-> m, key |-> k, tags |-> T, ttl |-> ttl, row |-> row, found |-> K, conn |-> n]
      BY <1>2, <3>1
    <3>3. op'[c] = [use |-> m, key |-> k, tags |-> T, ttl |-> ttl, row |-> row, found |-> K, conn |-> conn]
      BY <3>1, <3>2 DEF LockInv, Holding, Shape
    <3>4. Recorded(op'[c])
      BY <3>3, Zenon DEF Recorded
    <3>5. op' = [op EXCEPT ![c] = op'[c]]
      BY <3>1 DEF LockInv, Holding, Shape
    <3>6. Start(op[c].use) \in Places \ Locked
      BY StartOutside
    <3>7. pc[c] \notin Locked
      BY <3>1 DEF Locked, TxBody
    <3> QED BY <3>1, <3>4, <3>5, <3>6, <3>7, LockOutside
  <2> QED BY <2>1, <2>2
<1>4. ASSUME pc[c] \in {"connecting", "setup"}
      PROVE  /\ lock = c /\ \A d \in Coroutines \ {c} : pc[d] \notin Locked
             /\ "begin" \notin CancelAt => writer # Loop
  BY <1>1, <1>4 DEF Locked, TxBody, LockInv, Holding, LockOwnsTransaction
<1>5. CASE Opens(c) \/ Connected(c)
  <2> DEFINE place == IF pc[c] = "connecting" THEN "setup" ELSE Start(op[c].use)
  <2>1. /\ pc[c] \in {"connecting", "setup"} /\ pc' = [pc EXCEPT ![c] = place] /\ writer' = writer
        /\ IF pc[c] = "connecting" THEN lock' = lock ELSE lock' = None
    BY <1>5 DEF Opens, Connected, Goto, fileVars
  <2>2. place \in Places \ TxBody /\ place # "idle" /\ (place \in Locked <=> pc[c] = "connecting")
    BY StartOutside DEF Places, Locked, TxBody
  <2>3. op' = [op EXCEPT ![c] = op'[c]] /\ Recorded(op'[c])
    <3>1. CASE Connected(c)
      BY <2>1, <3>1 DEF Connected, Goto, LockInv, Holding, Shape, CallsRecorded
    <3>2. CASE Opens(c)
      <4>1. PICK m, k, T, ttl, row, K, n :
              op[c] = [use |-> m, key |-> k, tags |-> T, ttl |-> ttl, row |-> row, found |-> K, conn |-> n]
        BY <1>2, <2>1
      <4>2. op'[c] = [use |-> m, key |-> k, tags |-> T, ttl |-> ttl, row |-> row, found |-> K,
                      conn |-> made + 1]
        BY <3>2, <4>1 DEF Opens, LockInv, Holding, Shape
      <4>3. op' = [op EXCEPT ![c] = op'[c]]
        BY <3>2 DEF Opens, LockInv, Holding, Shape
      <4> QED BY <4>2, <4>3, Zenon DEF Recorded
    <3> QED BY <1>5, <3>1, <3>2
  <2> HIDE DEF place
  <2>4. pc'[c] = place /\ \A d \in Coroutines \ {c} : pc'[d] = pc[d] /\ op'[d] = op[d]
    BY <2>1, <2>3 DEF LockInv, Holding, Shape
  <2>5. Shape'
    <3>1. CallsRecorded'
      BY <2>3, <2>4 DEF LockInv, Holding, Shape, CallsRecorded
    <3> QED BY <2>1, <2>2, <2>3, <3>1 DEF LockInv, Holding, Shape
  <2>6. LockIsHeld'
    BY <1>4, <2>1, <2>2, <2>4 DEF LockIsHeld
  <2>7. TransactionOnConnection'
    BY <1>4, <2>1, <2>2, <2>4 DEF TransactionOnConnection, Locked
  <2> QED BY <1>4, <2>1, <2>5, <2>6, <2>7 DEF Holding, LockOwnsTransaction
<1>6. CASE TakesLock(c)
  <2>1. /\ pc[c] = "lock" /\ lock = None /\ lock' = c /\ Goto(c, "begin")
        /\ UNCHANGED <<conn, writer>>
    BY <1>6 DEF TakesLock, fileVars
  <2>2. "begin" \notin CancelAt => writer # Loop
    BY <2>1 DEF LockInv, Holding, LockOwnsTransaction
  <2>3. "begin" \in Locked \ TxBody /\ pc[c] \notin TxBody
    BY <2>1 DEF Locked, TxBody
  <2> QED BY <2>1, <2>2, <2>3, LockTaken
<1>7. CASE Begins(c)
  <2>1. PICK place \in TxBody : Goto(c, place)
    BY <1>7 DEF Begins, TxBody
  <2>2. /\ pc[c] = "begin" /\ op[c].conn = conn /\ UNCHANGED <<lock, conn>>
    BY <1>7 DEF Begins
  <2>3. lock = c /\ place \in Locked /\ pc[c] \notin TxBody
    BY <1>1, <2>2 DEF Locked, TxBody
  <2> QED BY <2>1, <2>2, <2>3, LockTaken
<1>8. CASE Commits(c)
  <2>1. /\ pc[c] = "commit" /\ Finish(c) /\ lock' = None
        /\ writer' = None /\ conn' = conn
    BY <1>8 DEF Commits, FinishLocked, Keep
  <2>2. lock = c
    BY <1>1, <2>1 DEF Locked, TxBody
  <2> QED BY <2>1, <2>2, LockFreed
<1>9. CASE RollsBack(c)
  <2>1. pc[c] = "rollback" /\ Finish(c) /\ lock' = None /\ conn' = conn
    BY <1>9 DEF RollsBack, FinishLocked
  <2>2. lock = c
    BY <1>1, <2>1 DEF Locked, TxBody
  <2>3. writer' # Loop
    BY <1>9, <2>1 DEF RollsBack, Undo, fileVars, LockInv, Holding, TransactionOnConnection, TxBody
  <2> QED BY <2>1, <2>2, <2>3, LockFreed
<1>10. CASE ConnectFails(c) \/ SetUpFails(c)
  <2>1. pc[c] \in {"connecting", "setup"} /\ Finish(c) /\ lock' = None /\ UNCHANGED <<conn, writer>>
    BY <1>10 DEF ConnectFails, SetUpFails, FinishLocked, fileVars
  <2> QED BY <1>4, <2>1, LockFreed
<1> QED BY <1>3, <1>5, <1>6, <1>7, <1>8, <1>9, <1>10

\* A call that is abandoned gives the lock back, or rolls back first; only at
\* BEGIN it may leave a transaction it has begun.
LEMMA AbandonSteps ==
  ASSUME LockInv, NEW c \in Coroutines, StatementFails(c) \/ Cancelled(c)
  PROVE  Holding'
<1> USE ProcessesAssumption
<1>1. /\ Abandons(c) /\ pc[c] \notin {"idle", "rollback"}
      /\ conn' = conn
  BY DEF StatementFails, Cancelled
<1>2. \/ writer' = writer \/ writer' = None
      \/ pc[c] = "begin" /\ "begin" \in CancelAt
  BY DEF StatementFails, Cancelled, Keep, fileVars
<1>3. CASE pc[c] \in TxBody
  <2>1. pc' = [pc EXCEPT ![c] = "rollback"] /\ UNCHANGED <<op, lock>>
    BY <1>1, <1>3 DEF Abandons, Goto
  <2>2. op' = [op EXCEPT ![c] = op'[c]] /\ op'[c] = op[c]
    BY <2>1 DEF LockInv, Holding, Shape
  <2>3. Recorded(op'[c])
    BY <1>1, <2>2 DEF LockInv, Holding, Shape, CallsRecorded
  <2>4. "rollback" \in TxBody /\ "begin" \notin TxBody
    BY DEF TxBody
  <2> QED BY <1>1, <1>2, <1>3, <2>1, <2>2, <2>3, <2>4, LockInside
<1>4. CASE pc[c] \notin TxBody
  <2>1. Finish(c) /\ lock' = IF lock = c THEN None ELSE lock
    BY <1>1, <1>4 DEF Abandons
  <2>2. "begin" \notin CancelAt /\ writer = Loop => lock # c
    BY <1>4 DEF LockInv, Holding, LockOwnsTransaction
  <2>3. pc[c] = "begin" => lock = c
    BY DEF LockInv, Holding, LockIsHeld, Locked
  <2> QED BY <1>1, <1>2, <2>1, <2>2, <2>3, LockFreed
<1> QED BY <1>3, <1>4

\* Every step keeps the lock with its holder.
LEMMA HoldingNext ==
  ASSUME LockInv, [Next]_vars
  PROVE  Holding'
<1> USE ProcessesAssumption
<1>1. CASE \E p \in Processes : SyncStep(p) /\ UNCHANGED <<asyncVars, unsure>>
  BY <1>1, SyncKeepsLoop, LockStutter
<1>2. ASSUME NEW c \in Coroutines, AsyncStep(c) \/ Invokes(c) \/ Cancelled(c)
      PROVE  Holding'
  BY <1>2, OutsideSteps, InsideSteps, LockSteps, AbandonSteps DEF AsyncStep
<1>3. CASE Close
  <2>1. writer' # Loop /\ UNCHANGED <<pc, op, lock>>
    BY <1>3 DEF Close, Undo
  <2>2. Shape'
    BY <2>1 DEF LockInv, Holding, Shape, CallsRecorded
  <2>3. LockIsHeld'
    BY <2>1 DEF LockInv, Holding, LockIsHeld
  <2> QED BY <2>1, <2>2, <2>3 DEF LockInv, Holding, LockOwnsTransaction, TransactionOnConnection
<1>4. CASE LoopCrash
  <2>1. /\ pc' = [d \in Coroutines |-> "idle"] /\ op' = [d \in Coroutines |-> None]
        /\ lock' = None /\ writer' # Loop
    BY <1>4 DEF LoopCrash, Undo
  <2>2. Shape'
    BY <2>1 DEF LockInv, Holding, Shape, CallsRecorded, Places
  <2>3. LockIsHeld'
    BY <2>1 DEF LockIsHeld, Locked, TxBody
  <2> QED BY <2>1, <2>2, <2>3 DEF LockInv, Holding, LockOwnsTransaction, TransactionOnConnection
<1>5. CASE Tick \/ AllDone \/ UNCHANGED vars
  <2>1. UNCHANGED asyncVars /\ writer' = writer
    BY <1>5 DEF Tick, AllDone, vars, fileVars
  <2> QED BY <2>1, LockStutter
<1> QED BY <1>1, <1>2, <1>3, <1>4, <1>5 DEF Next, AsyncNext

\* A step of c that neither opens nor sets up a connection.
LEMMA ConnStays ==
  ASSUME LockInv, NEW c \in Coroutines, NEW place,
         pc' = [pc EXCEPT ![c] = place], op' = [op EXCEPT ![c] = op'[c]],
         pc[c] # "setup", place # "setup", place = "connecting" => conn = 0,
         UNCHANGED <<conn, conns, made, left>>
  PROVE  ConnectionCounted'
<1>1. /\ \A d \in Coroutines \ {c} : pc'[d] = pc[d] /\ op'[d] = op[d]
      /\ pc'[c] = place
  BY DEF LockInv, Holding, Shape
<1> QED BY <1>1 DEF LockInv, ConnectionCounted

\* The steps of c that open a connection, remember it or leave it.
LEMMA SetUpCounted ==
  ASSUME LockInv, NEW c \in Coroutines,
         \/ Opens(c) \/ Connected(c) \/ SetUpFails(c)
         \/ Cancelled(c) /\ pc[c] \in {"connecting", "setup"}
  PROVE  ConnectionCounted'
<1>1. pc[c] \in {"connecting", "setup"}
  BY DEF Opens, Connected, SetUpFails
<1>2. \A d \in Coroutines \ {c} : pc[d] \notin {"connecting", "setup"}
  BY <1>1, ProcessesAssumption DEF LockInv, Holding, LockIsHeld, Locked
<1>3. /\ {conn, conns, made, left} \subseteq Nat /\ conns <= made /\ made <= MaxConns
      /\ conn = 0 /\ conns = left + (IF pc[c] = "setup" THEN 1 ELSE 0)
      /\ pc[c] = "setup" => op[c].conn \in 1..made
  BY <1>1, <1>2 DEF LockInv, ConnectionCounted
<1>4. CASE Opens(c)
  <2>1. op' = [op EXCEPT ![c].conn = made + 1] /\ pc' = [pc EXCEPT ![c] = "setup"] /\ pc[c] = "connecting"
    BY <1>4 DEF Opens
  <2>2. PICK m, k, T, ttl, row, K, n :
          op[c] = [use |-> m, key |-> k, tags |-> T, ttl |-> ttl, row |-> row, found |-> K, conn |-> n]
    BY <1>1 DEF LockInv, Holding, Shape, CallsRecorded, Recorded
  <2>3. op'[c] = [use |-> m, key |-> k, tags |-> T, ttl |-> ttl, row |-> row, found |-> K,
                  conn |-> made + 1]
    BY <2>1, <2>2 DEF LockInv, Holding, Shape
  <2>4. pc'[c] = "setup" /\ \A d \in Coroutines \ {c} : pc'[d] = pc[d]
    BY <2>1 DEF LockInv, Holding, Shape
  <2>5. op'[c].conn = made + 1
    BY <2>3
  <2>6. conn' = conn /\ conns' = conns + 1 /\ made' = made + 1 /\ left' = left /\ made < MaxConns
    BY <1>4 DEF Opens
  <2> QED BY <1>2, <1>3, <2>1, <2>4, <2>5, <2>6, ProcessesAssumption DEF ConnectionCounted
<1>5. CASE Connected(c)
  <2>1. \A d \in Coroutines : pc'[d] \notin {"connecting", "setup"}
    BY <1>2, <1>5, StartOutside DEF Connected, Goto, Locked, LockInv, Holding, Shape
  <2>2. pc[c] = "setup" /\ conn' = op[c].conn /\ UNCHANGED <<conns, made, left>>
    BY <1>5 DEF Connected
  <2> QED BY <1>3, <2>1, <2>2 DEF ConnectionCounted
<1>6. CASE SetUpFails(c) \/ (Cancelled(c) /\ pc[c] \in {"connecting", "setup"})
  <2>1. Finish(c) /\ conn' = conn
    BY <1>1, <1>6 DEF SetUpFails, FinishLocked, Cancelled, Abandons, TxBody
  <2>2. \A d \in Coroutines : pc'[d] \notin {"connecting", "setup"}
    BY <1>2, <2>1 DEF Finish, LockInv, Holding, Shape
  <2>3. \/ pc[c] = "setup" /\ left' = left + 1 /\ UNCHANGED <<conns, made>>
        \/ pc[c] = "connecting" /\ UNCHANGED <<conns, made, left>>
        \/ /\ pc[c] = "connecting" /\ made < MaxConns
           /\ left' = left + 1 /\ conns' = conns + 1 /\ made' = made + 1
    BY <1>1, <1>6 DEF SetUpFails, Cancelled, LeavesConnection
  <2> QED BY <1>3, <2>1, <2>2, <2>3, ProcessesAssumption DEF ConnectionCounted
<1> QED BY <1>4, <1>5, <1>6

\* Every step counts the connections.
LEMMA CountedNext ==
  ASSUME LockInv, [Next]_vars
  PROVE  ConnectionCounted'
<1>1. ASSUME NEW c \in Coroutines, AsyncStep(c) \/ Invokes(c) \/ Cancelled(c)
      PROVE  ConnectionCounted'
  <2>1. CASE \/ Opens(c) \/ Connected(c) \/ SetUpFails(c)
             \/ Cancelled(c) /\ pc[c] \in {"connecting", "setup"}
    BY <2>1, SetUpCounted
  <2>2. ASSUME Finish(c), pc[c] # "setup", UNCHANGED <<conn, conns, made, left>> PROVE ConnectionCounted'
    <3>1. pc' = [pc EXCEPT ![c] = "idle"] /\ op' = [op EXCEPT ![c] = op'[c]]
      BY <2>2 DEF Finish, LockInv, Holding, Shape
    <3> QED BY <2>2, <3>1, ConnStays
  <2>3. ASSUME NEW place, Goto(c, place), pc[c] # "setup", place # "setup",
               place = "connecting" => conn = 0, UNCHANGED <<conn, conns, made, left>>
        PROVE  ConnectionCounted'
    <3>1. pc' = [pc EXCEPT ![c] = place] /\ op' = [op EXCEPT ![c] = op'[c]]
      BY <2>3 DEF Goto, LockInv, Holding, Shape
    <3> QED BY <2>3, <3>1, ConnStays
  <2>4. CASE TakesLockToConnect(c) \/ Computes(c) \/ Reads(c) \/ FindsTagged(c) \/ Invokes(c)
    <3>1. \A m : Start(m) \notin {"setup", "connecting"}
      BY StartOutside DEF Locked
    <3>2. PICK place :
            /\ pc' = [pc EXCEPT ![c] = place] /\ place # "setup" /\ (place = "connecting" => conn = 0)
            /\ pc[c] # "setup" /\ UNCHANGED <<conn, conns, made, left>>
      BY <2>4, <3>1 DEF TakesLockToConnect, Goto, Computes, Reads, FindsTagged, Invokes, Invoke
    <3>3. op' = [op EXCEPT ![c] = op'[c]]
      BY <2>4 DEF TakesLockToConnect, Goto, Computes, Reads, FindsTagged, Invokes, Invoke,
                  LockInv, Holding, Shape
    <3> QED BY <3>2, <3>3, ConnStays
  <2>5. CASE \/ ConnectFails(c) \/ CleansUp(c) \/ Selects(c) \/ Stores(c) \/ DeletesRows(c)
             \/ DeletesTags(c) \/ ChangesExpiry(c) \/ TakesLock(c) \/ Begins(c) \/ Writes(c)
             \/ DropsRows(c) \/ DropsTags(c) \/ Commits(c) \/ RollsBack(c)
    <3>1. pc[c] # "setup" /\ UNCHANGED <<conn, conns, made, left>>
      BY <2>5 DEF ConnectFails, CleansUp, Selects, Stores, DeletesRows, DeletesTags, ChangesExpiry,
                  TakesLock, Begins, Writes, DropsRows, DropsTags, Commits, RollsBack, Statement
    <3>2. Finish(c) \/ \E place \in Places \ {"setup", "connecting"} : Goto(c, place)
      BY <2>5 DEF ConnectFails, CleansUp, Selects, Stores, DeletesRows, DeletesTags, ChangesExpiry,
                  TakesLock, Begins, Writes, DropsRows, DropsTags, Commits, RollsBack, FinishLocked,
                  Places, Locked, TxBody
    <3> QED BY <2>2, <2>3, <3>1, <3>2
  <2>6. CASE StatementFails(c) \/ (Cancelled(c) /\ pc[c] \notin {"connecting", "setup"})
    <3>1. pc[c] # "setup" /\ Abandons(c) /\ UNCHANGED <<conn, conns, made, left>>
      BY <2>6 DEF StatementFails, Cancelled, LeavesConnection
    <3> QED BY <2>2, <2>3, <3>1 DEF Abandons
  <2> QED BY <1>1, <2>1, <2>4, <2>5, <2>6 DEF AsyncStep
<1>2. CASE Close
  BY <1>2 DEF Close, LockInv, ConnectionCounted
<1>3. CASE LoopCrash
  BY <1>3 DEF LoopCrash, LockInv, ConnectionCounted
<1>4. CASE UNCHANGED <<pc, op, conn, conns, made, left>>
  BY <1>4 DEF LockInv, ConnectionCounted
<1> QED BY <1>1, <1>2, <1>3, <1>4 DEF Next, AsyncNext, AllDone, Tick, vars, asyncVars

\* The invariant always holds.
LEMMA LockAlways == Spec => []LockInv
<1>1. LockInv /\ [Next]_vars => LockInv'
  BY HoldingNext, CountedNext DEF LockInv
<1> QED BY <1>1, LockInit, PTL DEF Spec

\* The asyncio lock of the SQLite backend is held by the one coroutine that is
\* in the region it guards: neither an error nor a cancellation keeps it.
THEOREM LockHeldThroughout == Spec => []LockIsHeld
<1>1. LockInv => LockIsHeld
  BY DEF LockInv, Holding
<1> QED BY <1>1, LockAlways, PTL

\* A transaction open on the coroutines' connection belongs to the holder of the
\* lock, whatever fails, is closed or cancelled, BEGIN excepted.
THEOREM TransactionIsOwned == ASSUME "begin" \notin CancelAt PROVE Spec => []LockOwnsTransaction
<1>1. LockInv => LockOwnsTransaction
  BY DEF LockInv, Holding
<1> QED BY <1>1, LockAlways, PTL

\* However many coroutines find no connection, one at a time sets one up, and one
\* is kept: more are open only where setting up failed or was cancelled.
THEOREM OneConnectionAtMost == Spec => []OneConnection
<1>1. LockInv => OneConnection
  BY DEF LockInv, ConnectionCounted, OneConnection
<1> QED BY <1>1, LockAlways, PTL
-----------------------------------------------------------------------------
(* What the file holds *)

Counter(k) == uses[k] = {"incr"}

TagUses == {"set", "store_text", "get", "add_tags", "invalidate_tags"}
OnlyTagged(k) == uses[k] \subseteq TagUses

\* A database has its two tables; what the rows of other keys are is open.
Tables(d) == d = [rows |-> [k \in Keys |-> d.rows[k]], tags |-> d.tags]

CounterRow == [val : Nat, exp : {None}] \union {None}

\* A counter holds an integer without a deadline, and no tags; a key that is only
\* tagged has no deadline.
Orderly(d) ==
  /\ Tables(d)
  /\ \A k \in Keys : Counter(k) => d.rows[k] \in CounterRow /\ \A t : <<t, k>> \notin d.tags
  /\ \A k \in Keys : OnlyTagged(k) => d.rows[k] = None \/ d.rows[k].exp = None

\* From d to e the counters stay, no key that is only tagged loses its row, and
\* none gets a tag.
Harmless(d, e) ==
  /\ Tables(e)
  /\ \A k \in Keys : Counter(k) => e.rows[k] = d.rows[k]
  /\ \A k \in Keys : OnlyTagged(k) =>
       /\ d.rows[k] # None => e.rows[k] # None
       /\ d.rows[k] = None \/ d.rows[k].exp = None => e.rows[k] = None \/ e.rows[k].exp = None
  /\ e.tags \subseteq d.tags

Count(d, k) == IF d.rows[k] = None THEN 0 ELSE d.rows[k].val

\* The tags of d lead to rows, but for those of the keys K.
TagsLead(d, K) ==
  \A k \in Keys \ K : OnlyTagged(k) => \A t \in Tags : <<t, k>> \in d.tags => d.rows[k] # None

\* The places a call of a method comes by.
Way(m) ==
  {"connect", "connecting", "setup"} \union
  CASE m = "get" -> {"cleanup", "select"}
    [] m = "get_or_set" -> {"cleanup", "select", "compute"}
    [] m \in {"set", "store_text"} -> {"store"}
    [] m \in {"delete", "clear_all", "clear"} -> {"rows", "tags"}
    [] m \in {"expire", "persist"} -> {"expiry"}
    [] m = "invalidate_tags" -> {"lock", "begin", "find", "drop_rows", "drop_tags", "commit", "rollback"}
    [] OTHER -> {"lock", "begin", "read", "write", "commit", "rollback"}

\* A call is one the application makes on its key, and it took a connection.
CallFits(c) ==
  pc[c] # "idle" =>
    /\ op[c].key \in Keys
    /\ pc[c] \in Way(op[c].use)
    /\ op[c].use = "clear_all" => Use("clear_all") = Keys
    /\ Counter(op[c].key) => op[c].use = "incr" /\ op[c].ttl = None
    /\ OnlyTagged(op[c].key) => op[c].use \in TagUses /\ op[c].ttl = None
    /\ pc[c] \notin {"connect", "connecting"} => op[c].conn # 0
    /\ pc[c] = "drop_rows" => \A k \in op[c].found : ~Counter(k)

\* What a process has still to delete or to store is of another kind.
RestFits(p) ==
  rest[p] # None /\ rest[p].next \in {"tags", "rows", "compute"} =>
    \A k \in rest[p].keys : ~Counter(k) /\ ~OnlyTagged(k)

InTransaction(c) == pc[c] \in TxBody \ {"rollback"} /\ op[c].conn = conn

\* Coroutine c is about to commit an increment of k.
Added(c, k) == IF pc[c] = "commit" /\ op[c].use = "incr" /\ op[c].key = k THEN 1 ELSE 0

\* The transaction of c is the one that is open: it has added what c has
\* written, c has read the row as it is, and the tags that lead to no row are
\* those c is about to drop.
TransactionFits(c) ==
  InTransaction(c) =>
    /\ writer = Loop
    /\ \A k \in Keys : Counter(k) => Count(work, k) = Count(db, k) + Added(c, k)
    /\ TagsLead(work, IF pc[c] = "drop_tags" THEN op[c].found ELSE {})
    /\ pc[c] = "write" /\ Counter(op[c].key) => op[c].row = work.rows[op[c].key]
    /\ pc[c] = "write" /\ OnlyTagged(op[c].key) => work.rows[op[c].key] # None

DataInv ==
  /\ acked \in [Keys -> Nat] /\ unsure \in [Keys -> Nat]
  /\ rest = [p \in Processes |-> rest[p]]
  /\ Orderly(db)
  /\ writer = Loop => Orderly(work)
  /\ \A c \in Coroutines : CallFits(c)
  /\ \A c \in Coroutines : TransactionFits(c)
  /\ \A p \in Processes : RestFits(p)
  /\ CountersAddUp
  /\ TagsHaveRows

\* In the beginning the file is empty and nobody calls.
LEMMA DataInit == Init => DataInv
<1> SUFFICES ASSUME Init PROVE DataInv
  OBVIOUS
<1> USE DEF Init, FileInit, SyncInit, AsyncInit
<1>1. db = [rows |-> [k \in Keys |-> None], tags |-> {}] /\ writer # Loop
  BY ProcessesAssumption
<1>2. Orderly(db)
  BY <1>1 DEF Orderly, Tables, CounterRow
<1>3. \A c \in Coroutines : CallFits(c) /\ TransactionFits(c)
  BY DEF CallFits, TransactionFits, InTransaction, TxBody
<1>4. \A p \in Processes : RestFits(p)
  BY DEF RestFits
<1>5. CountersAddUp /\ TagsHaveRows
  BY <1>1 DEF CountersAddUp, TagsHaveRows
<1> QED BY <1>1, <1>2, <1>3, <1>4, <1>5 DEF DataInv

\* What is orderly stays so under a statement that does no harm.
LEMMA HarmlessStaysOrderly ==
  ASSUME NEW d, NEW e, Orderly(d), Harmless(d, e) PROVE Orderly(e)
BY DEF Orderly, Harmless

\* Nothing does no harm.
LEMMA NothingIsHarmless ==
  ASSUME NEW d, Orderly(d) PROVE Harmless(d, d)
BY DEF Orderly, Harmless

\* The statements that do no harm to counters and tagged keys: a row stored for
\* a key that is no counter ...
LEMMA UpsertIsHarmless ==
  ASSUME NEW d, Tables(d), NEW k \in Keys, ~Counter(k), NEW v \in {0, Text}, NEW ttl,
         OnlyTagged(k) => ttl = None
  PROVE  Harmless(d, Upsert(d, k, v, Deadline(ttl)))
<1> DEFINE r == [val |-> v, exp |-> Deadline(ttl)]
           rows == [d.rows EXCEPT ![k] = r]
<1>1. Upsert(d, k, v, Deadline(ttl)) = [rows |-> rows, tags |-> d.tags]
  BY DEF Upsert, Tables
<1>2. \A j \in Keys : rows[j] = IF j = k THEN r ELSE d.rows[j]
  BY DEF Tables
<1>3. OnlyTagged(k) => r.exp = None /\ r # None
  BY ProcessesAssumption DEF Deadline, Row
<1>4. rows = [j \in Keys |-> rows[j]]
  BY DEF Tables
<1> HIDE DEF rows, r
<1> QED BY <1>1, <1>2, <1>3, <1>4 DEF Harmless, Tables

\* ... the deletion of the rows of other keys ...
LEMMA DeletionIsHarmless ==
  ASSUME NEW d, Orderly(d), NEW K, \A k \in K : ~Counter(k) /\ ~OnlyTagged(k)
  PROVE  Harmless(d, DeleteRows(d, K))
<1> DEFINE rows == [k \in Keys |-> IF k \in K THEN None ELSE d.rows[k]]
<1>1. DeleteRows(d, K) = [rows |-> rows, tags |-> d.tags]
  BY DEF DeleteRows, Orderly, Tables
<1> QED BY <1>1 DEF Harmless, Tables

\* ... of the tags of any key ...
LEMMA UntaggingIsHarmless ==
  ASSUME NEW d, Tables(d), NEW K PROVE Harmless(d, DeleteTagsOf(d, K))
<1> DEFINE tags == {p \in d.tags : p[2] \notin K}
<1>1. DeleteTagsOf(d, K) = [d EXCEPT !.tags = tags]
  BY Zenon DEF DeleteTagsOf
<1>2. tags \subseteq d.tags
  OBVIOUS
<1> HIDE DEF tags
<1>3. [d EXCEPT !.tags = tags] = [rows |-> d.rows, tags |-> tags]
  BY DEF Tables
<1>4. d.rows = [k \in Keys |-> d.rows[k]]
  BY DEF Tables
<1> QED BY <1>1, <1>2, <1>3, <1>4 DEF Harmless, Tables

\* ... of an expired row, which no key without deadline has ...
LEMMA CleanupIsHarmless ==
  ASSUME NEW d, Orderly(d), NEW k \in Keys, ~Counter(k)
  PROVE  Harmless(d, Cleanup(d, k))
<1>1. CASE d.rows[k] # None /\ Expired(d.rows[k])
  <2>1. ~OnlyTagged(k)
    BY <1>1 DEF Orderly, Expired
  <2> QED BY <1>1, <2>1, DeletionIsHarmless DEF Cleanup
<1>2. CASE ~(d.rows[k] # None /\ Expired(d.rows[k]))
  <2>1. Cleanup(d, k) = d
    BY <1>2 DEF Cleanup
  <2> QED BY <2>1, NothingIsHarmless
<1> QED BY <1>1, <1>2

\* ... and a new deadline, or none, for a key that has them.
LEMMA ExpiryIsHarmless ==
  ASSUME NEW d, Orderly(d), NEW k \in Keys, ~Counter(k), ~OnlyTagged(k), NEW e
  PROVE  Harmless(d, SetExpiry(d, k, e)) /\ Harmless(d, ClearExpiry(d, k))
<1>1. ASSUME NEW x PROVE Harmless(d, [d EXCEPT !.rows[k].exp = x])
  <2> DEFINE rows == [d.rows EXCEPT ![k].exp = x]
  <2>1. [d EXCEPT !.rows[k].exp = x] = [rows |-> rows, tags |-> d.tags]
    BY DEF Orderly, Tables
  <2>2. rows = [j \in Keys |-> rows[j]] /\ \A j \in Keys \ {k} : rows[j] = d.rows[j]
    BY DEF Orderly, Tables
  <2> HIDE DEF rows
  <2> QED BY <2>1, <2>2 DEF Harmless, Tables
<1>2. Harmless(d, d)
  BY NothingIsHarmless
<1> QED BY <1>1, <1>2 DEF SetExpiry, ClearExpiry

\* Who is no counter may be added to.
LEMMA AdditionIsHarmless ==
  ASSUME NEW d, Orderly(d), NEW k \in Keys, ~Counter(k), ~OnlyTagged(k), NEW row, NEW ttl
  PROVE  Harmless(d, AddOne(d, k, row, ttl))
<1>1. ASSUME NEW x PROVE Harmless(d, [d EXCEPT !.rows[k].val = x])
  <2> DEFINE rows == [d.rows EXCEPT ![k].val = x]
  <2>1. [d EXCEPT !.rows[k].val = x] = [rows |-> rows, tags |-> d.tags]
    BY DEF Orderly, Tables
  <2>2. rows = [j \in Keys |-> rows[j]] /\ \A j \in Keys \ {k} : rows[j] = d.rows[j]
    BY DEF Orderly, Tables
  <2> HIDE DEF rows
  <2> QED BY <2>1, <2>2 DEF Harmless, Tables
<1>2. ASSUME NEW x PROVE Harmless(d, Upsert(d, k, 1, x))
  <2> DEFINE rows == [d.rows EXCEPT ![k] = [val |-> 1, exp |-> x]]
  <2>1. Upsert(d, k, 1, x) = [rows |-> rows, tags |-> d.tags]
    BY DEF Upsert, Orderly, Tables
  <2>2. rows = [j \in Keys |-> rows[j]] /\ \A j \in Keys \ {k} : rows[j] = d.rows[j]
    BY DEF Orderly, Tables
  <2> HIDE DEF rows
  <2> QED BY <2>1, <2>2 DEF Harmless, Tables
<1>3. Harmless(d, d)
  BY NothingIsHarmless
<1> QED BY <1>1, <1>2, <1>3 DEF AddOne

\* An increment of a counter, from the row it has, adds one and nothing else.
LEMMA AddOneAdds ==
  ASSUME NEW d, Orderly(d), NEW k \in Keys, Counter(k)
  PROVE  LET e == AddOne(d, k, d.rows[k], None) IN
         /\ Orderly(e) /\ e.tags = d.tags
         /\ Count(e, k) = Count(d, k) + 1 /\ Count(d, k) \in Nat
         /\ \A j \in Keys \ {k} : e.rows[j] = d.rows[j]
<1> DEFINE e == AddOne(d, k, d.rows[k], None)
           n == IF d.rows[k] = None THEN 1 ELSE d.rows[k].val + 1
           r == [val |-> n, exp |-> None]
           rows == [d.rows EXCEPT ![k] = r]
<1>1. d.rows[k] \in CounterRow /\ \A t : <<t, k>> \notin d.tags
  BY DEF Orderly
<1>2. d.rows[k] # None => d.rows[k] = [val |-> d.rows[k].val, exp |-> None] /\ d.rows[k].val \in Nat
  BY <1>1 DEF CounterRow
<1>3. n \in Nat /\ Count(d, k) \in Nat /\ n = Count(d, k) + 1
  BY <1>2 DEF Count
<1>4. e = [rows |-> rows, tags |-> d.tags]
  <2>1. CASE d.rows[k] = None
    BY <2>1 DEF AddOne, Upsert, Deadline, Orderly, Tables
  <2>2. CASE d.rows[k] # None
    <3>1. e = [d EXCEPT !.rows[k].val = d.rows[k].val + 1]
      BY <1>2, <2>2 DEF AddOne, Expired
    <3>2. [d.rows[k] EXCEPT !.val = d.rows[k].val + 1] = r
      BY <1>2, <2>2
    <3> QED BY <3>1, <3>2 DEF Orderly, Tables
  <2> QED BY <2>1, <2>2
<1>5. r \in CounterRow /\ r # None /\ r.exp = None /\ r.val = n
  BY <1>3, ProcessesAssumption DEF CounterRow, Row
<1>6. rows = [j \in Keys |-> rows[j]] /\ rows[k] = r /\ \A j \in Keys \ {k} : rows[j] = d.rows[j]
  BY DEF Orderly, Tables
<1> HIDE DEF rows, r, n, e
<1>7. Orderly(e)
  BY <1>1, <1>4, <1>5, <1>6 DEF Orderly, Tables
<1>8. Count(e, k) = n
  BY <1>4, <1>5, <1>6 DEF Count
<1> QED BY <1>3, <1>4, <1>6, <1>7, <1>8 DEF e

\* A step of somebody else that leaves what is committed alone.
LEMMA RestStep ==
  ASSUME DataInv, UNCHANGED <<db, uses, acked, unsure, pc, op, conn>>,
         UNCHANGED <<writer, work>> \/ (writer # Loop /\ writer' # Loop),
         rest' = [p \in Processes |-> rest'[p]],
         \A p \in Processes : RestFits(p)'
  PROVE  DataInv'
<1>1. Orderly(db)' /\ (writer' = Loop => Orderly(work)')
  BY DEF DataInv, Orderly, Counter, OnlyTagged
<1>2. \A c \in Coroutines : CallFits(c)'
  BY DEF DataInv, CallFits, Counter, OnlyTagged, Use
<1>3. \A c \in Coroutines : TransactionFits(c)'
  <2> SUFFICES ASSUME NEW c \in Coroutines, InTransaction(c)' PROVE TransactionFits(c)'
    BY DEF TransactionFits
  <2>1. InTransaction(c) /\ writer = Loop
    BY DEF InTransaction, DataInv, TransactionFits
  <2>2. TransactionFits(c)
    BY DEF DataInv
  <2> QED BY <2>1, <2>2 DEF TransactionFits, Counter, OnlyTagged, Count, Added, TagsLead
<1>4. CountersAddUp' /\ TagsHaveRows'
  BY DEF DataInv, CountersAddUp, TagsHaveRows
<1> QED BY <1>1, <1>2, <1>3, <1>4 DEF DataInv

\* A step that commits while the loop has no transaction.
LEMMA CommitStep ==
  ASSUME DataInv, writer # Loop, writer' # Loop, UNCHANGED <<uses, unsure, pc, op, conn>>,
         acked' \in [Keys -> Nat],
         rest' = [p \in Processes |-> rest'[p]],
         \A p \in Processes : RestFits(p)',
         Orderly(db'), CountersAddUp', TagsHaveRows'
  PROVE  DataInv'
<1>1. Orderly(db)'
  BY DEF Orderly, Counter, OnlyTagged
<1>2. \A c \in Coroutines : CallFits(c)'
  BY DEF DataInv, CallFits, Counter, OnlyTagged, Use
<1>3. \A c \in Coroutines : TransactionFits(c)'
  BY DEF DataInv, TransactionFits, InTransaction
<1> QED BY <1>1, <1>2, <1>3 DEF DataInv

\* What does no harm keeps what is promised of the committed database.
LEMMA HarmlessCommit ==
  ASSUME DataInv, UNCHANGED <<uses, acked, unsure>>, Harmless(db, db')
  PROVE  Orderly(db') /\ CountersAddUp' /\ TagsHaveRows'
<1>1. Orderly(db')
  BY HarmlessStaysOrderly DEF DataInv
<1>2. CountersAddUp'
  BY DEF DataInv, CountersAddUp, Harmless, Counter
<1>3. TagsHaveRows'
  BY DEF DataInv, TagsHaveRows, Harmless, OnlyTagged, TagUses
<1> QED BY <1>1, <1>2, <1>3

\* What a process has still to do when it leaves a statement behind.
LEMMA Leaving ==
  ASSUME DataInv, NEW p \in Processes, NEW s, NEW K, Leaves(p, s, K), uses' = uses,
         s \in {"tags", "rows", "compute"} => \A k \in K : ~Counter(k) /\ ~OnlyTagged(k)
  PROVE  rest' = [q \in Processes |-> rest'[q]] /\ \A q \in Processes : RestFits(q)'
<1>1. rest' = [q \in Processes |-> rest'[q]] /\ \A q \in Processes \ {p} : rest'[q] = rest[q]
  BY DEF DataInv, Leaves
<1>2. rest'[p] = IF s = None THEN None ELSE [next |-> s, keys |-> K]
  BY DEF DataInv, Leaves
<1>3. \A q \in Processes \ {p} : RestFits(q)'
  BY <1>1 DEF DataInv, RestFits, Counter, OnlyTagged
<1>4. RestFits(p)'
  BY <1>2 DEF RestFits, Counter, OnlyTagged
<1> QED BY <1>1, <1>3, <1>4

\* A key with another method is neither a counter nor only tagged.
LEMMA OtherKind ==
  ASSUME NEW k, NEW m \in uses[k], m \notin TagUses \union {"incr"}
  PROVE  ~Counter(k) /\ ~OnlyTagged(k)
BY DEF Counter, OnlyTagged

\* Without the method ttl a call has none.
LEMMA NoTtl ==
  ASSUME NEW k, Counter(k) \/ OnlyTagged(k), NEW ttl \in TtlsOf(k) PROVE ttl = None
BY DEF Counter, OnlyTagged, TtlsOf, Use, TagUses

\* A single statement of a process.
LEMMA SyncStatement ==
  ASSUME DataInv, NEW p \in Processes, NEW d, Execute(p, d),
         writer # p => Harmless(db, d),
         UNCHANGED <<uses, acked, unsure, pc, op, conn>>,
         rest' = [q \in Processes |-> rest'[q]],
         \A q \in Processes : RestFits(q)'
  PROVE  DataInv'
<1>1. writer # Loop /\ writer' = writer
  BY ProcessesAssumption DEF Execute, MayWrite
<1>2. CASE writer = p
  BY <1>1, <1>2, RestStep DEF Execute
<1>3. CASE writer # p
  <2>1. Harmless(db, db')
    BY <1>3 DEF Execute
  <2>2. acked' \in [Keys -> Nat]
    BY DEF DataInv
  <2> QED BY <1>1, <2>1, <2>2, HarmlessCommit, CommitStep
<1> QED BY <1>2, <1>3

\* A statement of SQLiteCache outside a transaction: the first or only one of
\* a call, or the second.
LEMMA SyncStatements ==
  ASSUME DataInv, NEW p \in Processes, NEW d, writer # p => Harmless(db, d),
         UNCHANGED <<unsure, pc, op, conn>>,
         \/ Single(p, d)
         \/ \E s \in {"select", "tags", "rows"} : \E K :
              /\ First(p, d, s, K)
              /\ s # "select" => \A k \in K : ~Counter(k) /\ ~OnlyTagged(k)
         \/ \E s : Second(p, s, d)
  PROVE  DataInv'
<1>1. CASE Single(p, d)
  <2>1. Execute(p, d) /\ UNCHANGED <<uses, acked, rest>>
    BY <1>1 DEF Single
  <2>2. rest' = [q \in Processes |-> rest'[q]] /\ \A q \in Processes : RestFits(q)'
    BY <2>1 DEF DataInv, RestFits, Counter, OnlyTagged
  <2> QED BY <2>1, <2>2, SyncStatement
<1>2. ASSUME NEW s \in {"select", "tags", "rows"}, NEW K, First(p, d, s, K),
             s # "select" => \A k \in K : ~Counter(k) /\ ~OnlyTagged(k)
      PROVE  DataInv'
  <2>1. Execute(p, d) /\ Leaves(p, s, K) /\ UNCHANGED <<uses, acked>>
    BY <1>2 DEF First
  <2> QED BY <1>2, <2>1, Leaving, SyncStatement
<1>3. ASSUME NEW s, Second(p, s, d) PROVE DataInv'
  <2>1. Execute(p, d) /\ Leaves(p, None, {}) /\ UNCHANGED <<uses, acked>>
    BY <1>3 DEF Second
  <2>2. rest' = [q \in Processes |-> rest'[q]] /\ \A q \in Processes : RestFits(q)'
    BY <2>1, Leaving
  <2> QED BY <2>1, <2>2, SyncStatement
<1> QED BY <1>1, <1>2, <1>3

\* The calls of SQLiteCache that run statements one by one.
LEMMA SyncCalls ==
  ASSUME DataInv, NEW p \in Processes, NEW k \in Keys, UNCHANGED <<unsure, pc, op, conn>>,
         \/ DeleteRow(p, k) \/ GetCleansUp(p, k) \/ Persist(p, k)
         \/ SetStores(p, k, Text, None)
         \/ \E ttl \in Ttls : Expire(p, k, ttl)
         \/ \E ttl \in TtlsOf(k) : SetStores(p, k, 0, ttl) \/ GetOrSetStores(p, k, ttl)
  PROVE  DataInv'
<1>1. Orderly(db) /\ Tables(db)
  BY DEF DataInv, Orderly
<1>2. writer # p => View(p) = db
  BY DEF View
<1>3. CASE DeleteRow(p, k)
  <2>1. ~Counter(k) /\ ~OnlyTagged(k)
    BY <1>3, OtherKind DEF DeleteRow, Use, TagUses
  <2>2. Harmless(db, DeleteRows(db, {k}))
    BY <1>1, <2>1, DeletionIsHarmless
  <2>3. First(p, DeleteRows(View(p), {k}), "tags", {k})
    BY <1>3 DEF DeleteRow
  <2> QED BY <1>2, <2>1, <2>2, <2>3, SyncStatements
<1>4. CASE GetCleansUp(p, k)
  <2>1. ~Counter(k)
    BY <1>4 DEF GetCleansUp, Use, Counter
  <2>2. Harmless(db, Cleanup(db, k))
    BY <1>1, <2>1, CleanupIsHarmless
  <2>3. First(p, Cleanup(View(p), k), "select", {k})
    BY <1>4 DEF GetCleansUp
  <2> QED BY <1>2, <2>2, <2>3, SyncStatements
<1>5. CASE Persist(p, k)
  <2>1. ~Counter(k) /\ ~OnlyTagged(k)
    BY <1>5, OtherKind DEF Persist, Use, TagUses
  <2>2. Harmless(db, ClearExpiry(db, k))
    BY <1>1, <2>1, ExpiryIsHarmless
  <2>3. Single(p, ClearExpiry(View(p), k))
    BY <1>5 DEF Persist
  <2> QED BY <1>2, <2>2, <2>3, SyncStatements
<1>6. ASSUME NEW v \in {0, Text}, NEW ttl \in TtlsOf(k) \union {None}, SetStores(p, k, v, ttl)
      PROVE  DataInv'
  <2>1. ~Counter(k) /\ (OnlyTagged(k) => ttl = None)
    <3>1. "set" \in uses[k] \/ "store_text" \in uses[k]
      BY <1>6 DEF SetStores, Use
    <3> QED BY <3>1, NoTtl DEF Counter
  <2>2. Harmless(db, Upsert(db, k, v, Deadline(ttl)))
    BY <1>1, <2>1, UpsertIsHarmless
  <2>3. Single(p, Upsert(View(p), k, v, Deadline(ttl)))
    BY <1>6 DEF SetStores
  <2> QED BY <1>2, <2>2, <2>3, SyncStatements
<1>7. ASSUME NEW ttl \in Ttls, Expire(p, k, ttl) PROVE DataInv'
  <2>1. ~Counter(k) /\ ~OnlyTagged(k)
    BY <1>7, OtherKind DEF Expire, Use, TagUses
  <2>2. Harmless(db, SetExpiry(db, k, Deadline(ttl)))
    BY <1>1, <2>1, ExpiryIsHarmless
  <2>3. Single(p, SetExpiry(View(p), k, Deadline(ttl)))
    BY <1>7 DEF Expire
  <2> QED BY <1>2, <2>2, <2>3, SyncStatements
<1>8. ASSUME NEW ttl \in TtlsOf(k), GetOrSetStores(p, k, ttl) PROVE DataInv'
  <2>1. rest[p] # None /\ rest[p].keys = {k} /\ rest[p].next = "compute"
    BY <1>8 DEF GetOrSetStores, Second
  <2>2. ~Counter(k) /\ ~OnlyTagged(k)
    BY <2>1 DEF DataInv, RestFits
  <2>3. Harmless(db, Upsert(db, k, 0, Deadline(ttl)))
    BY <1>1, <2>2, UpsertIsHarmless
  <2>4. Second(p, "compute", Upsert(View(p), k, 0, Deadline(ttl)))
    BY <1>8 DEF GetOrSetStores
  <2> QED BY <1>2, <2>3, <2>4, SyncStatements
<1> QED BY <1>3, <1>4, <1>5, <1>6, <1>7, <1>8

\* The deletions of a namespace, and the second statement of a deletion.
LEMMA SyncDeletions ==
  ASSUME DataInv, NEW p \in Processes, UNCHANGED <<unsure, pc, op, conn>>,
         ClearNamespace(p) \/ ClearAll(p) \/ EndDelete(p)
  PROVE  DataInv'
<1>1. Orderly(db) /\ Tables(db)
  BY DEF DataInv, Orderly
<1>2. writer # p => View(p) = db
  BY DEF View
<1>3. CASE ClearNamespace(p)
  <2>1. \A k \in Use("clear") : ~Counter(k) /\ ~OnlyTagged(k)
    BY OtherKind DEF Use, TagUses
  <2>2. Harmless(db, DeleteTagsOf(db, Use("clear")))
    BY <1>1, UntaggingIsHarmless
  <2>3. First(p, DeleteTagsOf(View(p), Use("clear")), "rows", Use("clear"))
    BY <1>3 DEF ClearNamespace
  <2> QED BY <1>2, <2>1, <2>2, <2>3, SyncStatements
<1>4. CASE ClearAll(p)
  <2>1. \A k \in Keys : ~Counter(k) /\ ~OnlyTagged(k)
    BY <1>4, OtherKind DEF ClearAll, Use, TagUses
  <2>2. Harmless(db, DeleteRows(db, Keys))
    BY <1>1, <2>1, DeletionIsHarmless
  <2>3. First(p, DeleteRows(View(p), Keys), "tags", Keys)
    BY <1>4 DEF ClearAll
  <2> QED BY <1>2, <2>1, <2>2, <2>3, SyncStatements
<1>5. CASE EndDelete(p)
  <2> DEFINE K == rest[p].keys
  <2>1. CASE Second(p, "tags", DeleteTagsOf(View(p), K))
    <3>1. Harmless(db, DeleteTagsOf(db, K))
      BY <1>1, UntaggingIsHarmless
    <3> QED BY <1>2, <2>1, <3>1, SyncStatements
  <2>2. CASE Second(p, "rows", DeleteRows(View(p), K))
    <3>1. \A k \in K : ~Counter(k) /\ ~OnlyTagged(k)
      BY <2>2 DEF Second, DataInv, RestFits
    <3>2. Harmless(db, DeleteRows(db, K))
      BY <1>1, <3>1, DeletionIsHarmless
    <3> QED BY <1>2, <2>2, <3>2, SyncStatements
  <2> QED BY <1>5, <2>1, <2>2 DEF EndDelete
<1> QED BY <1>3, <1>4, <1>5

\* The two tables after the statements of invalidate_tags and add_tags.
LEMMA DroppedRows ==
  ASSUME NEW d, Tables(d), NEW K
  PROVE  /\ Tables(DeleteRows(d, K))
         /\ DeleteRows(d, K).tags = d.tags
         /\ \A k \in Keys : DeleteRows(d, K).rows[k] = IF k \in K THEN None ELSE d.rows[k]
<1> DEFINE rows == [k \in Keys |-> IF k \in K THEN None ELSE d.rows[k]]
<1>1. DeleteRows(d, K) = [rows |-> rows, tags |-> d.tags]
  BY DEF DeleteRows, Tables
<1> QED BY <1>1 DEF Tables

LEMMA DroppedTags ==
  ASSUME NEW d, Tables(d), NEW K, NEW T
  PROVE  LET e == DeleteTags(DeleteTagsOf(d, K), T) IN
         /\ Tables(e) /\ e.rows = d.rows /\ e.tags \subseteq d.tags
         /\ \A t, k : k \in K => <<t, k>> \notin e.tags
<1> DEFINE some == {p \in d.tags : p[2] \notin K}
           few == {p \in some : p[1] \notin T}
<1>1. few \subseteq d.tags /\ \A t, k : k \in K => <<t, k>> \notin few
  OBVIOUS
<1>2. DeleteTagsOf(d, K) = [d EXCEPT !.tags = some]
  BY Zenon DEF DeleteTagsOf
<1>3. d.rows = [k \in Keys |-> d.rows[k]]
  BY DEF Tables
<1>4. DeleteTagsOf(d, K) = [rows |-> d.rows, tags |-> some]
  <2> HIDE DEF some
  <2> QED BY <1>2 DEF Tables
<1>5. DeleteTagsOf(d, K).tags = some
  BY <1>4
<1>6. DeleteTags(DeleteTagsOf(d, K), T) = [DeleteTagsOf(d, K) EXCEPT !.tags = few]
  BY <1>5, Zenon DEF DeleteTags
<1>7. DeleteTags(DeleteTagsOf(d, K), T) = [rows |-> d.rows, tags |-> few]
  <2> HIDE DEF some, few
  <2> QED BY <1>4, <1>6
<1> HIDE DEF some, few
<1> QED BY <1>1, <1>3, <1>7 DEF Tables

LEMMA InsertedTags ==
  ASSUME NEW d, Tables(d), NEW k, NEW T
  PROVE  LET e == InsertTags(d, k, T) IN
         /\ Tables(e) /\ e.rows = d.rows
         /\ \A t, j : <<t, j>> \in e.tags => <<t, j>> \in d.tags \/ j = k
<1>1. InsertTags(d, k, T) = [rows |-> d.rows, tags |-> d.tags \union (T \X {k})]
  BY DEF InsertTags, Tables
<1>2. d.rows = [j \in Keys |-> d.rows[j]]
  BY DEF Tables
<1> QED BY <1>1, <1>2 DEF Tables

\* A transaction of SQLiteCache that commits.
LEMMA SyncCommits ==
  ASSUME DataInv, NEW p \in Processes, NEW d, Transact(p, d), UNCHANGED <<unsure, pc, op, conn>>,
         acked' \in [Keys -> Nat], Orderly(d), CountersAddUp', TagsHaveRows'
  PROVE  DataInv'
<1>1. writer = None /\ writer' = None /\ db' = d /\ UNCHANGED <<rest, uses>>
  BY DEF Transact
<1>2. writer # Loop
  BY <1>1, ProcessesAssumption
<1>3. rest' = [q \in Processes |-> rest'[q]] /\ \A q \in Processes : RestFits(q)'
  BY <1>1 DEF DataInv, RestFits, Counter, OnlyTagged
<1> QED BY <1>1, <1>2, <1>3, CommitStep

\* incr, add_tags and invalidate_tags of SQLiteCache.
LEMMA SyncTransactions ==
  ASSUME DataInv, NEW p \in Processes, UNCHANGED <<unsure, pc, op, conn>>,
         \/ \E k \in Keys : \E ttl \in TtlsOf(k) : Incr(p, k, ttl)
         \/ \E k \in Keys : \E T \in SUBSET Tags : AddTags(p, k, T)
         \/ \E T \in SUBSET Tags : InvalidateTags(p, T)
  PROVE  DataInv'
<1>1. Orderly(db) /\ Tables(db) /\ acked \in [Keys -> Nat] /\ unsure \in [Keys -> Nat]
  BY DEF DataInv, Orderly
<1>2. ASSUME NEW k \in Keys, NEW ttl \in TtlsOf(k), Incr(p, k, ttl) PROVE DataInv'
  <2> DEFINE d == AddOne(db, k, db.rows[k], ttl)
  <2>1. /\ k \in Use("incr") /\ Transact(p, d) /\ acked' = [acked EXCEPT ![k] = @ + 1]
    BY <1>2 DEF Incr
  <2>2. db' = d /\ uses' = uses /\ acked' \in [Keys -> Nat]
    BY <1>1, <2>1 DEF Transact
  <2>3. ~OnlyTagged(k)
    BY <2>1 DEF Use, OnlyTagged, TagUses
  <2>4. CASE Counter(k)
    <3>1. ttl = None
      BY <2>4, NoTtl
    <3>2. /\ Orderly(d) /\ d.tags = db.tags
          /\ Count(d, k) = Count(db, k) + 1 /\ Count(db, k) \in Nat
          /\ \A j \in Keys \ {k} : d.rows[j] = db.rows[j]
      BY <1>1, <2>4, <3>1, AddOneAdds
    <3>3. \A j \in Keys \ {k} : Count(d, j) = Count(db, j) /\ acked'[j] = acked[j]
      BY <1>1, <2>1, <3>2 DEF Count
    <3>4. acked[k] <= Count(db, k) /\ Count(db, k) <= acked[k] + unsure[k]
      BY <2>4 DEF DataInv, CountersAddUp, Counter, Count
    <3>5. acked'[k] <= Count(d, k) /\ Count(d, k) <= acked'[k] + unsure[k]
      BY <1>1, <2>1, <3>2, <3>4
    <3> HIDE DEF d
    <3>6. CountersAddUp'
      <4> SUFFICES ASSUME NEW j \in Keys, uses[j] = {"incr"}
                   PROVE  acked'[j] <= Count(d, j) /\ Count(d, j) <= acked'[j] + unsure[j]
        BY <2>2 DEF CountersAddUp, Count
      <4>1. acked[j] <= Count(db, j) /\ Count(db, j) <= acked[j] + unsure[j]
        BY DEF DataInv, CountersAddUp, Count
      <4> QED BY <3>3, <3>5, <4>1
    <3>7. TagsHaveRows'
      BY <2>2, <2>3, <3>2 DEF DataInv, TagsHaveRows, OnlyTagged, TagUses
    <3> QED BY <2>1, <2>2, <3>2, <3>6, <3>7, SyncCommits DEF d
  <2>5. CASE ~Counter(k)
    <3>1. Harmless(db, d)
      BY <1>1, <2>3, <2>5, AdditionIsHarmless
    <3> HIDE DEF d
    <3>2. Orderly(d)
      BY <1>1, <3>1, HarmlessStaysOrderly
    <3>3. CountersAddUp'
      BY <1>1, <2>1, <2>2, <2>5, <3>1 DEF DataInv, CountersAddUp, Harmless, Counter
    <3>4. TagsHaveRows'
      BY <2>2, <3>1 DEF DataInv, TagsHaveRows, Harmless, OnlyTagged, TagUses
    <3> QED BY <2>1, <2>2, <3>2, <3>3, <3>4, SyncCommits
  <2> QED BY <2>4, <2>5
<1>3. ASSUME NEW k \in Keys, NEW T \in SUBSET Tags, AddTags(p, k, T) PROVE DataInv'
  <2> DEFINE d == InsertTags(db, k, T)
  <2>1. k \in Use("add_tags") /\ db.rows[k] # None /\ Transact(p, d) /\ acked' = acked
    BY <1>3 DEF AddTags
  <2>2. db' = d /\ uses' = uses
    BY <2>1 DEF Transact
  <2>3. /\ Tables(d) /\ d.rows = db.rows
        /\ \A t, j : <<t, j>> \in d.tags => <<t, j>> \in db.tags \/ j = k
    BY <1>1, InsertedTags
  <2>4. ~Counter(k)
    BY <2>1 DEF Use, Counter
  <2> HIDE DEF d
  <2>5. Orderly(d)
    BY <1>1, <2>3, <2>4 DEF Orderly
  <2>6. CountersAddUp'
    BY <2>1, <2>2, <2>3 DEF DataInv, CountersAddUp
  <2>7. TagsHaveRows'
    BY <2>1, <2>2, <2>3 DEF DataInv, TagsHaveRows
  <2> QED BY <1>1, <2>1, <2>5, <2>6, <2>7, SyncCommits
<1>4. ASSUME NEW T \in SUBSET Tags, InvalidateTags(p, T) PROVE DataInv'
  <2> DEFINE K == TaggedKeys(db, T)
             e == DeleteRows(db, K)
             d == DeleteTags(DeleteTagsOf(e, K), T)
  <2>1. Transact(p, d) /\ acked' = acked
    BY <1>4 DEF InvalidateTags
  <2>2. db' = d /\ uses' = uses
    BY <2>1 DEF Transact
  <2>3. \A k \in K : k \in Keys /\ ~Counter(k)
    BY <1>1 DEF TaggedKeys, Orderly
  <2> HIDE DEF K
  <2>4. /\ Tables(e) /\ e.tags = db.tags
        /\ \A k \in Keys : e.rows[k] = IF k \in K THEN None ELSE db.rows[k]
    BY <1>1, DroppedRows
  <2> HIDE DEF e
  <2>5. /\ Tables(d) /\ d.rows = e.rows /\ d.tags \subseteq e.tags
        /\ \A t, k : k \in K => <<t, k>> \notin d.tags
    BY <2>4, DroppedTags
  <2> HIDE DEF d
  <2>6. Orderly(d)
    BY <1>1, <2>3, <2>4, <2>5 DEF Orderly
  <2>7. CountersAddUp'
    BY <2>1, <2>2, <2>3, <2>4, <2>5 DEF DataInv, CountersAddUp, Counter
  <2>8. TagsHaveRows'
    BY <2>1, <2>2, <2>4, <2>5 DEF DataInv, TagsHaveRows
  <2> QED BY <1>1, <2>1, <2>6, <2>7, <2>8, SyncCommits
<1> QED BY <1>2, <1>3, <1>4

\* The steps of SQLiteCache after which nothing else is committed.
LEMMA SyncOthers ==
  ASSUME DataInv, NEW p \in Processes, UNCHANGED <<unsure, pc, op, conn>>,
         \/ \E k \in Keys : GetSelects(p, k)
         \/ \E k \in Keys : \E ttl \in TtlsOf(k) : CommitFails(p, k, ttl)
         \/ Fails(p) \/ Crash(p)
  PROVE  DataInv'
<1>1. ASSUME NEW k \in Keys, GetSelects(p, k) PROVE DataInv'
  <2> DEFINE s == IF k \in Use("get_or_set") /\ View(p).rows[k] = None THEN "compute" ELSE None
  <2>1. /\ Leaves(p, s, {k}) /\ UNCHANGED <<db, writer, work, acked, uses>>
    BY <1>1 DEF GetSelects, fileVars
  <2>2. k \in Use("get_or_set") => ~Counter(k) /\ ~OnlyTagged(k)
    BY OtherKind DEF Use, TagUses
  <2>3. CASE s = "compute" /\ k \in Use("get_or_set")
    <3>1. rest' = [q \in Processes |-> rest'[q]] /\ \A q \in Processes : RestFits(q)'
      BY <2>1, <2>2, <2>3, Leaving
    <3> QED BY <2>1, <3>1, RestStep
  <2>4. CASE s = None
    <3>1. rest' = [rest EXCEPT ![p] = None]
      BY <2>1, <2>4 DEF Leaves
    <3>2. rest' = [q \in Processes |-> rest'[q]]
      BY <3>1 DEF DataInv
    <3>3. \A q \in Processes : RestFits(q)'
      BY <2>1, <3>1 DEF DataInv, RestFits, Counter, OnlyTagged
    <3> QED BY <2>1, <3>2, <3>3, RestStep
  <2> QED BY <2>3, <2>4
<1>2. ASSUME NEW k \in Keys, NEW ttl \in TtlsOf(k), CommitFails(p, k, ttl) PROVE DataInv'
  <2>1. writer = None /\ writer' = p /\ UNCHANGED <<db, rest, acked, uses>>
    BY <1>2 DEF CommitFails
  <2>2. writer # Loop /\ writer' # Loop
    BY <2>1, ProcessesAssumption
  <2>3. rest' = [q \in Processes |-> rest'[q]] /\ \A q \in Processes : RestFits(q)'
    BY <2>1 DEF DataInv, RestFits, Counter, OnlyTagged
  <2> QED BY <2>1, <2>2, <2>3, RestStep
<1>3. CASE Fails(p) \/ Crash(p)
  <2>1. Leaves(p, None, {}) /\ UNCHANGED <<db, acked, uses>>
    BY <1>3 DEF Fails, Crash, Undo, fileVars
  <2>2. UNCHANGED <<writer, work>> \/ (writer # Loop /\ writer' # Loop)
    BY <1>3, ProcessesAssumption DEF Fails, Crash, Undo, fileVars
  <2>3. rest' = [rest EXCEPT ![p] = None]
    BY <2>1 DEF Leaves
  <2>4. rest' = [q \in Processes |-> rest'[q]]
    BY <2>3 DEF DataInv
  <2>5. \A q \in Processes : RestFits(q)'
    BY <2>1, <2>3 DEF DataInv, RestFits, Counter, OnlyTagged
  <2> QED BY <2>1, <2>2, <2>4, <2>5, RestStep
<1> QED BY <1>1, <1>2, <1>3

\* The steps of a process with a SQLiteCache.
LEMMA SyncKeepsData ==
  ASSUME DataInv, NEW p \in Processes, SyncStep(p), UNCHANGED <<asyncVars, unsure>>
  PROVE  DataInv'
<1>1. UNCHANGED <<unsure, pc, op, conn>>
  BY DEF asyncVars
<1>2. CASE \E k \in Keys :
             \/ DeleteRow(p, k) \/ GetCleansUp(p, k) \/ Persist(p, k)
             \/ SetStores(p, k, Text, None)
             \/ \E ttl \in Ttls : Expire(p, k, ttl)
             \/ \E ttl \in TtlsOf(k) : SetStores(p, k, 0, ttl) \/ GetOrSetStores(p, k, ttl)
  BY <1>1, <1>2, SyncCalls
<1>3. CASE \/ \E k \in Keys : \E ttl \in TtlsOf(k) : Incr(p, k, ttl)
           \/ \E k \in Keys : \E T \in SUBSET Tags \ {{}} : AddTags(p, k, T)
           \/ \E T \in SUBSET Tags \ {{}} : InvalidateTags(p, T)
  BY <1>1, <1>3, SyncTransactions
<1>4. CASE ClearNamespace(p) \/ ClearAll(p) \/ EndDelete(p)
  BY <1>1, <1>4, SyncDeletions
<1>5. CASE \/ \E k \in Keys : GetSelects(p, k)
           \/ \E k \in Keys : \E ttl \in TtlsOf(k) : CommitFails(p, k, ttl)
           \/ Fails(p) \/ Crash(p)
  BY <1>1, <1>5, SyncOthers
<1> QED BY <1>2, <1>3, <1>4, <1>5 DEF SyncStep
-----------------------------------------------------------------------------
(* The coroutines *)

\* What the other parts of the invariant say is not about the coroutines.
LEMMA RestStays ==
  ASSUME DataInv, UNCHANGED <<uses, rest>>
  PROVE  /\ rest' = [p \in Processes |-> rest'[p]]
         /\ \A p \in Processes : RestFits(p)'
         /\ \A d : (Orderly(d) => Orderly(d)') /\ (Orderly(d)' => Orderly(d))
BY DEF DataInv, RestFits, Orderly, Counter, OnlyTagged

\* A step of c leaves the calls of the others.
LEMMA OthersStay ==
  ASSUME LockInv, DataInv, NEW c \in Coroutines, NEW place, uses' = uses,
         pc' = [pc EXCEPT ![c] = place], op' = [op EXCEPT ![c] = op'[c]], CallFits(c)'
  PROVE  /\ pc'[c] = place
         /\ \A e \in Coroutines \ {c} : pc'[e] = pc[e] /\ op'[e] = op[e]
         /\ \A e \in Coroutines : CallFits(e)'
<1>1. pc'[c] = place /\ \A e \in Coroutines \ {c} : pc'[e] = pc[e] /\ op'[e] = op[e]
  BY DEF LockInv, Holding, Shape
<1>2. \A e \in Coroutines \ {c} : CallFits(e)'
  BY <1>1 DEF DataInv, CallFits, Counter, OnlyTagged, Use
<1> QED BY <1>1, <1>2

\* Whoever is in the region the lock guards is there alone.
LEMMA Alone ==
  ASSUME LockInv, NEW c \in Coroutines, pc[c] \in Locked
  PROVE  \A e \in Coroutines \ {c} : pc[e] \notin Locked /\ ~InTransaction(e)
BY DEF LockInv, Holding, LockIsHeld, InTransaction, Locked

\* A step of c that leaves the file alone.
LEMMA QuietStep ==
  ASSUME LockInv, DataInv, NEW c \in Coroutines, NEW place,
         UNCHANGED <<db, writer, work, conn, acked, unsure, uses, rest>>,
         pc' = [pc EXCEPT ![c] = place], op' = [op EXCEPT ![c] = op'[c]],
         CallFits(c)', TransactionFits(c)'
  PROVE  DataInv'
<1>1. /\ \A e \in Coroutines \ {c} : pc'[e] = pc[e] /\ op'[e] = op[e]
      /\ \A e \in Coroutines : CallFits(e)'
  BY OthersStay
<1>2. \A e \in Coroutines \ {c} : TransactionFits(e)'
  BY <1>1 DEF DataInv, TransactionFits, InTransaction, Counter, OnlyTagged, Count, Added, TagsLead
<1>3. CountersAddUp' /\ TagsHaveRows'
  BY DEF DataInv, CountersAddUp, TagsHaveRows
<1> QED BY <1>1, <1>2, <1>3, RestStays DEF DataInv

\* A statement of c outside a transaction of its own; it may run inside another's.
LEMMA OutsideStatement ==
  ASSUME LockInv, DataInv, NEW c \in Coroutines, NEW place, NEW d,
         Execute(Loop, d), Harmless(DB, d),
         pc[c] \notin TxBody, place \notin TxBody,
         UNCHANGED <<conn, acked, unsure, uses, rest>>,
         pc' = [pc EXCEPT ![c] = place], op' = [op EXCEPT ![c] = op'[c]],
         CallFits(c)'
  PROVE  DataInv'
<1>1. /\ pc'[c] = place
      /\ \A e \in Coroutines \ {c} : pc'[e] = pc[e] /\ op'[e] = op[e]
      /\ \A e \in Coroutines : CallFits(e)'
  BY OthersStay
<1>2. \A e \in Coroutines : InTransaction(e)' => e # c /\ InTransaction(e)
  BY <1>1 DEF InTransaction
<1>3. CASE writer = Loop
  <2>1. writer' = Loop /\ work' = d /\ db' = db /\ Harmless(work, work')
    BY <1>3 DEF Execute, View, DB
  <2>2. Orderly(work')
    BY <1>3, <2>1, HarmlessStaysOrderly DEF DataInv
  <2>3. \A e \in Coroutines : TransactionFits(e)'
    <3> SUFFICES ASSUME NEW e \in Coroutines, InTransaction(e)' PROVE TransactionFits(e)'
      BY DEF TransactionFits
    <3>1. InTransaction(e) /\ TransactionFits(e) /\ pc'[e] = pc[e] /\ op'[e] = op[e] /\ CallFits(e)
      BY <1>1, <1>2 DEF DataInv
    <3>2. \A k \in Keys : Counter(k) => Count(work', k) = Count(work, k)
      BY <2>1 DEF Harmless, Count
    <3>3. pc[e] = "write" => op[e].key \in Keys
      BY <3>1 DEF CallFits
    <3>4. \A K : TagsLead(work, K) => TagsLead(work', K)
      BY <2>1 DEF Harmless, TagsLead
    <3>5. Counter(op[e].key) /\ pc[e] = "write" => work'.rows[op[e].key] = work.rows[op[e].key]
      BY <2>1, <3>3 DEF Harmless
    <3>6. OnlyTagged(op[e].key) /\ pc[e] = "write" /\ work.rows[op[e].key] # None
          => work'.rows[op[e].key] # None
      BY <2>1, <3>3 DEF Harmless
    <3>7. writer' = Loop /\ \A k \in Keys : Counter(k)' => Count(work, k)' = Count(db, k)' + Added(e, k)'
      BY <2>1, <3>1, <3>2 DEF TransactionFits, Counter, Count, Added
    <3>8. TagsLead(work, IF pc[e] = "drop_tags" THEN op[e].found ELSE {})'
      <4>1. TagsLead(work', IF pc[e] = "drop_tags" THEN op[e].found ELSE {})
        BY <3>1, <3>4 DEF TransactionFits
      <4> QED BY <3>1, <4>1 DEF TagsLead, OnlyTagged
    <3>9. (pc[e] = "write" /\ Counter(op[e].key) => op[e].row = work.rows[op[e].key])'
      BY <3>1, <3>5 DEF TransactionFits, Counter
    <3>10. (pc[e] = "write" /\ OnlyTagged(op[e].key) => work.rows[op[e].key] # None)'
      BY <3>1, <3>6 DEF TransactionFits, OnlyTagged
    <3> QED BY <3>7, <3>8, <3>9, <3>10 DEF TransactionFits
  <2>4. CountersAddUp' /\ TagsHaveRows'
    BY <2>1 DEF DataInv, CountersAddUp, TagsHaveRows
  <2> QED BY <1>1, <2>1, <2>2, <2>3, <2>4, RestStays DEF DataInv
<1>4. CASE writer # Loop
  <2>1. writer' = writer /\ db' = d /\ Harmless(db, db')
    BY <1>4 DEF Execute, View, DB
  <2>2. \A e \in Coroutines : TransactionFits(e)'
    BY <1>2, <1>4 DEF DataInv, TransactionFits
  <2>3. Orderly(db') /\ CountersAddUp' /\ TagsHaveRows'
    BY <2>1, HarmlessCommit
  <2> QED BY <1>1, <1>4, <2>1, <2>2, <2>3, RestStays DEF DataInv
<1> QED BY <1>3, <1>4

\* A statement of c inside its transaction.
LEMMA InsideStatement ==
  ASSUME LockInv, DataInv, NEW c \in Coroutines, NEW place, NEW d,
         InTransaction(c), Execute(Loop, d), Orderly(d),
         UNCHANGED <<conn, acked, unsure, uses, rest>>,
         pc' = [pc EXCEPT ![c] = place], op' = [op EXCEPT ![c] = op'[c]],
         CallFits(c)', TransactionFits(c)'
  PROVE  DataInv'
<1>1. /\ \A e \in Coroutines \ {c} : pc'[e] = pc[e] /\ op'[e] = op[e]
      /\ \A e \in Coroutines : CallFits(e)'
  BY OthersStay
<1>2. writer = Loop /\ writer' = Loop /\ work' = d /\ db' = db
  BY DEF DataInv, TransactionFits, Execute
<1>3. pc[c] \in Locked
  BY DEF InTransaction, Locked
<1>4. \A e \in Coroutines \ {c} : TransactionFits(e)'
  BY <1>1, <1>3, Alone DEF TransactionFits, InTransaction
<1>5. CountersAddUp' /\ TagsHaveRows'
  BY <1>2 DEF DataInv, CountersAddUp, TagsHaveRows
<1> QED BY <1>1, <1>2, <1>4, <1>5, RestStays DEF DataInv

\* A call that ends, and one that goes on with the next statement of its method.
LEMMA Finishing ==
  ASSUME LockInv, NEW c \in Coroutines, Finish(c)
  PROVE  /\ pc' = [pc EXCEPT ![c] = "idle"] /\ op' = [op EXCEPT ![c] = op'[c]]
         /\ CallFits(c)'
         /\ ~InTransaction(c)' /\ TransactionFits(c)'
<1>1. pc' = [pc EXCEPT ![c] = "idle"] /\ op' = [op EXCEPT ![c] = op'[c]] /\ pc'[c] = "idle"
  BY DEF LockInv, Holding, Shape, Finish
<1> QED BY <1>1 DEF CallFits, InTransaction, TransactionFits, TxBody

LEMMA Going ==
  ASSUME LockInv, DataInv, NEW c \in Coroutines, NEW place, Goto(c, place), uses' = uses,
         pc[c] # "idle", place \in Way(op[c].use),
         place \notin {"connect", "connecting"} => op[c].conn # 0,
         place = "drop_rows" => \A k \in op[c].found : ~Counter(k)
  PROVE  /\ pc' = [pc EXCEPT ![c] = place] /\ op' = [op EXCEPT ![c] = op'[c]]
         /\ pc'[c] = place /\ op'[c] = op[c]
         /\ CallFits(c)'
<1>1. /\ pc' = [pc EXCEPT ![c] = place] /\ op' = [op EXCEPT ![c] = op'[c]]
      /\ pc'[c] = place /\ op'[c] = op[c]
  BY DEF LockInv, Holding, Shape, Goto
<1>2. CallFits(c)
  BY DEF DataInv
<1> QED BY <1>1, <1>2 DEF CallFits, Counter, OnlyTagged, Use

\* A call takes a connection, what it read, what it found.
LEMMA ConnTaken ==
  ASSUME LockInv, NEW c \in Coroutines, pc[c] # "idle", NEW x,
         op' = [op EXCEPT ![c].conn = x]
  PROVE  /\ op' = [op EXCEPT ![c] = op'[c]]
         /\ op'[c].conn = x /\ op'[c].found = op[c].found
         /\ op'[c].use = op[c].use /\ op'[c].key = op[c].key /\ op'[c].ttl = op[c].ttl
<1>1. PICK m, k, T, ttl, row, K, n :
        op[c] = [use |-> m, key |-> k, tags |-> T, ttl |-> ttl, row |-> row, found |-> K, conn |-> n]
  BY DEF LockInv, Holding, Shape, CallsRecorded, Recorded
<1>2. op'[c] = [use |-> m, key |-> k, tags |-> T, ttl |-> ttl, row |-> row, found |-> K, conn |-> x]
  BY <1>1 DEF LockInv, Holding, Shape
<1>3. op' = [op EXCEPT ![c] = op'[c]]
  BY DEF LockInv, Holding, Shape
<1> QED BY <1>1, <1>2, <1>3

LEMMA RowTaken ==
  ASSUME LockInv, NEW c \in Coroutines, pc[c] # "idle", NEW x,
         op' = [op EXCEPT ![c].row = x]
  PROVE  /\ op' = [op EXCEPT ![c] = op'[c]]
         /\ op'[c].row = x /\ op'[c].conn = op[c].conn /\ op'[c].found = op[c].found
         /\ op'[c].use = op[c].use /\ op'[c].key = op[c].key /\ op'[c].ttl = op[c].ttl
<1>1. PICK m, k, T, ttl, row, K, n :
        op[c] = [use |-> m, key |-> k, tags |-> T, ttl |-> ttl, row |-> row, found |-> K, conn |-> n]
  BY DEF LockInv, Holding, Shape, CallsRecorded, Recorded
<1>2. op'[c] = [use |-> m, key |-> k, tags |-> T, ttl |-> ttl, row |-> x, found |-> K, conn |-> n]
  BY <1>1 DEF LockInv, Holding, Shape
<1>3. op' = [op EXCEPT ![c] = op'[c]]
  BY DEF LockInv, Holding, Shape
<1> QED BY <1>1, <1>2, <1>3

LEMMA KeysTaken ==
  ASSUME LockInv, NEW c \in Coroutines, pc[c] # "idle", NEW x,
         op' = [op EXCEPT ![c].found = x]
  PROVE  /\ op' = [op EXCEPT ![c] = op'[c]]
         /\ op'[c].found = x /\ op'[c].conn = op[c].conn
         /\ op'[c].use = op[c].use /\ op'[c].key = op[c].key /\ op'[c].ttl = op[c].ttl
<1>1. PICK m, k, T, ttl, row, K, n :
        op[c] = [use |-> m, key |-> k, tags |-> T, ttl |-> ttl, row |-> row, found |-> K, conn |-> n]
  BY DEF LockInv, Holding, Shape, CallsRecorded, Recorded
<1>2. op'[c] = [use |-> m, key |-> k, tags |-> T, ttl |-> ttl, row |-> row, found |-> x, conn |-> n]
  BY <1>1 DEF LockInv, Holding, Shape
<1>3. op' = [op EXCEPT ![c] = op'[c]]
  BY DEF LockInv, Holding, Shape
<1> QED BY <1>1, <1>2, <1>3

\* get_or_set goes on as set.
LEMMA SetTaken ==
  ASSUME LockInv, NEW c \in Coroutines, pc[c] # "idle", NEW x,
         op' = [op EXCEPT ![c].use = "set", ![c].conn = x]
  PROVE  /\ op' = [op EXCEPT ![c] = op'[c]]
         /\ op'[c].use = "set" /\ op'[c].conn = x /\ op'[c].found = op[c].found
         /\ op'[c].key = op[c].key /\ op'[c].ttl = op[c].ttl
<1>1. PICK m, k, T, ttl, row, K, n :
        op[c] = [use |-> m, key |-> k, tags |-> T, ttl |-> ttl, row |-> row, found |-> K, conn |-> n]
  BY DEF LockInv, Holding, Shape, CallsRecorded, Recorded
<1>2. op'[c] = [use |-> "set", key |-> k, tags |-> T, ttl |-> ttl, row |-> row, found |-> K, conn |-> x]
  <2> DEFINE one == [op EXCEPT ![c].use = "set"]
  <2>1. one[c] = [use |-> "set", key |-> k, tags |-> T, ttl |-> ttl, row |-> row, found |-> K, conn |-> n]
    BY <1>1 DEF LockInv, Holding, Shape
  <2>2. one = [e \in Coroutines |-> one[e]] /\ op' = [one EXCEPT ![c].conn = x]
    BY DEF LockInv, Holding, Shape
  <2> HIDE DEF one
  <2>3. op'[c] = [one[c] EXCEPT !.conn = x]
    BY <2>2
  <2> QED BY <2>1, <2>3
<1>3. op' = [op EXCEPT ![c] = op'[c]]
  BY DEF LockInv, Holding, Shape
<1> QED BY <1>1, <1>2, <1>3

\* The statements outside transactions, and the beginning of a call, keep the
\* invariant.
LEMMA OutsideData ==
  ASSUME LockInv, DataInv, NEW c \in Coroutines, rest' = rest,
         \/ CleansUp(c) \/ Selects(c) \/ Computes(c) \/ Stores(c)
         \/ DeletesRows(c) \/ DeletesTags(c) \/ ChangesExpiry(c) \/ Invokes(c)
  PROVE  DataInv'
<1> DEFINE k == op[c].key
<1>1. Orderly(DB) /\ Tables(DB)
  BY DEF DataInv, DB, View, Orderly
<1>2. /\ pc[c] # "idle" => k \in Keys /\ pc[c] \in Way(op[c].use)
      /\ pc[c] \notin {"idle", "connect", "connecting"} => op[c].conn # 0
      /\ pc[c] # "idle" /\ Counter(k) => op[c].use = "incr"
      /\ pc[c] # "idle" /\ OnlyTagged(k) => op[c].use \in TagUses /\ op[c].ttl = None
  BY DEF DataInv, CallFits
<1>3. ASSUME NEW d, Execute(Loop, d), Harmless(DB, d), pc[c] \notin TxBody, Finish(c),
             UNCHANGED <<conn, acked, unsure, uses>>
      PROVE  DataInv'
  <2>1. "idle" \notin TxBody
    BY DEF TxBody
  <2> QED BY <1>3, <2>1, Finishing, OutsideStatement
<1>4. ASSUME NEW d, NEW place, Execute(Loop, d), Harmless(DB, d), pc[c] \notin TxBody,
             Goto(c, place), place \in Way(op[c].use) \ (TxBody \union {"connect", "connecting"}),
             pc[c] \notin {"idle", "connect", "connecting"},
             UNCHANGED <<conn, acked, unsure, uses>>
      PROVE  DataInv'
  <2>1. place # "drop_rows"
    BY <1>4 DEF TxBody
  <2> QED BY <1>2, <1>4, <2>1, Going, OutsideStatement
<1>5. ASSUME NEW place, NEW d, Statement(c, place, d)
      PROVE  pc[c] = place /\ Execute(Loop, d) /\ UNCHANGED <<conn, uses>>
  BY <1>5 DEF Statement
<1>6. CASE CleansUp(c)
  <2>1. pc[c] = "cleanup" /\ Execute(Loop, Cleanup(DB, k)) /\ UNCHANGED <<conn, uses, acked, unsure>>
    BY <1>5, <1>6 DEF CleansUp
  <2>2. op[c].use \in {"get", "get_or_set"}
    BY <1>2, <2>1 DEF Way
  <2>3. Harmless(DB, Cleanup(DB, k))
    BY <1>1, <1>2, <2>1, <2>2, CleanupIsHarmless
  <2>4. "select" \in Way(op[c].use) \ (TxBody \union {"connect", "connecting"}) /\ pc[c] \notin TxBody
    BY <2>1, <2>2 DEF Way, TxBody
  <2> QED BY <1>4, <1>6, <2>1, <2>3, <2>4 DEF CleansUp
<1>7. CASE Selects(c)
  <2>1. pc[c] = "select" /\ UNCHANGED <<db, writer, work, conn, acked, unsure, uses>>
    BY <1>7 DEF Selects, fileVars
  <2>2. CASE Finish(c)
    BY <2>1, <2>2, Finishing, QuietStep
  <2>3. CASE op[c].use = "get_or_set" /\ Goto(c, "compute")
    <3>1. "compute" \in Way(op[c].use)
      BY <2>3 DEF Way
    <3>2. /\ pc' = [pc EXCEPT ![c] = "compute"] /\ op' = [op EXCEPT ![c] = op'[c]]
          /\ pc'[c] = "compute" /\ CallFits(c)'
      BY <1>2, <2>1, <2>3, <3>1, Going
    <3>3. TransactionFits(c)'
      BY <3>2 DEF TransactionFits, InTransaction, TxBody
    <3> QED BY <2>1, <3>2, <3>3, QuietStep
  <2> QED BY <1>7, <2>2, <2>3 DEF Selects
<1>8. CASE Computes(c)
  <2> DEFINE place == IF conn = 0 THEN "connect" ELSE "store"
  <2>1. /\ pc[c] = "compute" /\ pc' = [pc EXCEPT ![c] = place]
        /\ op' = [op EXCEPT ![c].use = "set", ![c].conn = conn]
        /\ UNCHANGED <<db, writer, work, conn, acked, unsure, uses>>
    BY <1>8 DEF Computes, fileVars
  <2>2. op[c].use = "get_or_set"
    BY <1>2, <2>1 DEF Way
  <2>3. ~Counter(k) /\ ~OnlyTagged(k)
    BY <1>2, <2>1, <2>2 DEF TagUses
  <2>4. /\ op' = [op EXCEPT ![c] = op'[c]] /\ op'[c].use = "set" /\ op'[c].conn = conn
        /\ op'[c].key = k
    BY <2>1, SetTaken
  <2>5. pc'[c] = place
    BY <2>1 DEF LockInv, Holding, Shape
  <2>6. CallFits(c)'
    <3>1. /\ place \in Way("set") /\ place # "drop_rows"
          /\ place \notin {"connect", "connecting"} => conn # 0
      BY DEF Way
    <3>2. k \in Keys /\ ~Counter(k)' /\ ~OnlyTagged(k)'
      BY <1>2, <2>1, <2>3, <2>4 DEF Counter, OnlyTagged
    <3> HIDE DEF place
    <3> QED BY <2>4, <2>5, <3>1, <3>2 DEF CallFits, Counter, OnlyTagged
  <2>7. TransactionFits(c)'
    BY <2>5 DEF TransactionFits, InTransaction, TxBody
  <2> QED BY <2>1, <2>4, <2>6, <2>7, QuietStep
<1>9. CASE Stores(c)
  <2> DEFINE v == IF op[c].use = "store_text" THEN Text ELSE 0
             d == Upsert(DB, k, v, Deadline(op[c].ttl))
  <2>1. pc[c] = "store" /\ Execute(Loop, d) /\ Finish(c) /\ UNCHANGED <<conn, uses, acked, unsure>>
    BY <1>5, <1>9 DEF Stores
  <2>2. op[c].use \in {"set", "store_text"}
    BY <1>2, <2>1 DEF Way
  <2>3. Harmless(DB, d)
    BY <1>1, <1>2, <2>1, <2>2, UpsertIsHarmless
  <2>4. pc[c] \notin TxBody
    BY <2>1 DEF TxBody
  <2> QED BY <1>3, <2>1, <2>3, <2>4
<1>10. CASE DeletesRows(c)
  <2>1. pc[c] = "rows" /\ Execute(Loop, DeleteRows(DB, Scope(c))) /\ UNCHANGED <<conn, uses, acked, unsure>>
    BY <1>5, <1>10 DEF DeletesRows
  <2>2. op[c].use \in {"delete", "clear_all", "clear"}
    BY <1>2, <2>1 DEF Way
  <2>3. \A j \in Scope(c) : ~Counter(j) /\ ~OnlyTagged(j)
    <3>1. CASE op[c].use = "delete"
      BY <1>2, <2>1, <3>1 DEF Scope, TagUses
    <3>2. CASE op[c].use = "clear"
      BY <3>2, OtherKind DEF Scope, Use, TagUses
    <3>3. CASE op[c].use = "clear_all"
      <4>1. Use("clear_all") = Keys /\ Scope(c) = Keys
        BY <2>1, <3>3 DEF DataInv, CallFits, Scope
      <4> QED BY <4>1, OtherKind DEF Use, TagUses
    <3> QED BY <2>2, <3>1, <3>2, <3>3
  <2>4. Harmless(DB, DeleteRows(DB, Scope(c)))
    BY <1>1, <2>3, DeletionIsHarmless
  <2>5. "tags" \in Way(op[c].use) \ (TxBody \union {"connect", "connecting"}) /\ pc[c] \notin TxBody
    BY <2>1, <2>2 DEF Way, TxBody
  <2>6. Finish(c) \/ Goto(c, "tags")
    BY <1>10 DEF DeletesRows
  <2> QED BY <1>3, <1>4, <2>1, <2>4, <2>5, <2>6
<1>11. CASE DeletesTags(c)
  <2>1. /\ pc[c] = "tags" /\ Execute(Loop, DeleteTagsOf(DB, Scope(c)))
        /\ UNCHANGED <<conn, uses, acked, unsure>>
    BY <1>5, <1>11 DEF DeletesTags
  <2>2. op[c].use \in {"delete", "clear_all", "clear"}
    BY <1>2, <2>1 DEF Way
  <2>3. Harmless(DB, DeleteTagsOf(DB, Scope(c)))
    BY <1>1, UntaggingIsHarmless
  <2>4. "rows" \in Way(op[c].use) \ (TxBody \union {"connect", "connecting"}) /\ pc[c] \notin TxBody
    BY <2>1, <2>2 DEF Way, TxBody
  <2>5. Finish(c) \/ Goto(c, "rows")
    BY <1>11 DEF DeletesTags
  <2> QED BY <1>3, <1>4, <2>1, <2>3, <2>4, <2>5
<1>12. CASE ChangesExpiry(c)
  <2> DEFINE d == IF op[c].use = "persist" THEN ClearExpiry(DB, k)
                  ELSE SetExpiry(DB, k, Deadline(op[c].ttl))
  <2>1. pc[c] = "expiry" /\ Execute(Loop, d) /\ Finish(c) /\ UNCHANGED <<conn, uses, acked, unsure>>
    BY <1>5, <1>12 DEF ChangesExpiry
  <2>2. op[c].use \in {"expire", "persist"}
    BY <1>2, <2>1 DEF Way
  <2>3. ~Counter(k) /\ ~OnlyTagged(k)
    BY <1>2, <2>1, <2>2 DEF TagUses
  <2>4. Harmless(DB, d)
    BY <1>1, <1>2, <2>1, <2>3, ExpiryIsHarmless
  <2>5. pc[c] \notin TxBody
    BY <2>1 DEF TxBody
  <2> QED BY <1>3, <2>1, <2>4, <2>5
<1>13. CASE Invokes(c)
  <2>1. PICK j \in Keys : \E m \in uses[j] \ {"ttl"} : \E T \in SUBSET Tags :
          \E ttl \in TtlsOf(j) \union Ttls : Invoke(c, m, j, T, ttl)
    BY <1>13 DEF Invokes
  <2>2. PICK m \in uses[j] \ {"ttl"}, T \in SUBSET Tags, ttl \in TtlsOf(j) \union Ttls :
          Invoke(c, m, j, T, ttl)
    BY <2>1
  <2> DEFINE place == IF conn = 0 THEN "connect" ELSE Start(m)
             x == [use |-> m, key |-> j, tags |-> T, ttl |-> ttl,
                   row |-> None, found |-> {}, conn |-> conn]
  <2>3. /\ pc[c] = "idle" /\ pc' = [pc EXCEPT ![c] = place] /\ op' = [op EXCEPT ![c] = x]
        /\ UNCHANGED <<db, writer, work, conn, acked, unsure, uses>>
        /\ m = "clear_all" => Use(m) = Keys
        /\ m \notin {"set", "get_or_set", "expire", "incr"} => ttl = None
        /\ m # "expire" => ttl \in TtlsOf(j)
    BY <2>2 DEF Invoke, fileVars
  <2>4. pc'[c] = place /\ op'[c] = x /\ op' = [op EXCEPT ![c] = op'[c]]
    BY <2>3 DEF LockInv, Holding, Shape
  <2>5. place \in Way(m) /\ place \notin TxBody /\ (place \notin {"connect", "connecting"} => conn # 0)
    BY DEF Start, Way, TxBody
  <2>6. (Counter(j) => m = "incr" /\ ttl = None) /\ (OnlyTagged(j) => m \in TagUses /\ ttl = None)
    <3>1. Counter(j) => m = "incr"
      BY DEF Counter
    <3>2. OnlyTagged(j) => m \in TagUses
      BY DEF OnlyTagged
    <3> QED BY <2>3, <3>1, <3>2, NoTtl DEF TagUses
  <2>7. CallFits(c)'
    BY <2>3, <2>4, <2>5, <2>6 DEF CallFits, Counter, OnlyTagged, Use
  <2>8. TransactionFits(c)'
    BY <2>4, <2>5 DEF TransactionFits, InTransaction
  <2> QED BY <2>3, <2>4, <2>7, <2>8, QuietStep
<1> QED BY <1>6, <1>7, <1>8, <1>9, <1>10, <1>11, <1>12, <1>13

\* The statements of a transaction keep the invariant.
LEMMA InsideData ==
  ASSUME LockInv, DataInv, NEW c \in Coroutines, rest' = rest,
         Reads(c) \/ Writes(c) \/ FindsTagged(c) \/ DropsRows(c) \/ DropsTags(c)
  PROVE  DataInv'
<1> DEFINE k == op[c].key
<1>1. /\ pc[c] \in {"read", "write", "find", "drop_rows", "drop_tags"} /\ op[c].conn = conn
      /\ UNCHANGED <<conn, uses, acked, unsure>>
  BY DEF Reads, Writes, FindsTagged, DropsRows, DropsTags, Statement
<1>2. InTransaction(c)
  BY <1>1 DEF InTransaction, TxBody
<1>3. /\ writer = Loop
      /\ \A j \in Keys : Counter(j) => Count(work, j) = Count(db, j)
      /\ TagsLead(work, IF pc[c] = "drop_tags" THEN op[c].found ELSE {})
      /\ pc[c] = "write" /\ Counter(k) => op[c].row = work.rows[k]
      /\ pc[c] = "write" /\ OnlyTagged(k) => work.rows[k] # None
  <2>1. \A j \in Keys : Counter(j) => Count(db, j) \in Nat
    BY DEF DataInv, Orderly, CounterRow, Count
  <2> QED BY <1>1, <1>2, <2>1 DEF DataInv, TransactionFits, Added
<1>4. Orderly(work) /\ Tables(work) /\ DB = work
  BY <1>3 DEF DataInv, Orderly, DB, View
<1>5. /\ k \in Keys /\ pc[c] \in Way(op[c].use) /\ op[c].conn # 0
      /\ Counter(k) => op[c].use = "incr" /\ op[c].ttl = None
      /\ OnlyTagged(k) => op[c].use \in TagUses
      /\ pc[c] = "drop_rows" => \A j \in op[c].found : ~Counter(j)
  BY <1>1 DEF DataInv, CallFits
<1>6. \A j \in Keys : Counter(j) => Count(db, j) \in Nat
  BY DEF DataInv, Orderly, CounterRow, Count
<1>7. CASE Reads(c)
  <2> DEFINE row == work.rows[k]
             place == IF op[c].use = "incr" /\ NoInteger(row) THEN "rollback"
                      ELSE IF op[c].use = "add_tags" /\ row = None THEN "commit" ELSE "write"
  <2>1. /\ pc[c] = "read" /\ op' = [op EXCEPT ![c].row = row] /\ pc' = [pc EXCEPT ![c] = place]
        /\ UNCHANGED <<db, writer, work>>
    BY <1>4, <1>7 DEF Reads, fileVars
  <2>2. /\ op' = [op EXCEPT ![c] = op'[c]] /\ op'[c].row = row /\ op'[c].conn = op[c].conn
        /\ op'[c].use = op[c].use /\ op'[c].key = op[c].key /\ op'[c].ttl = op[c].ttl
    BY <2>1, RowTaken
  <2>3. pc'[c] = place
    BY <2>1 DEF LockInv, Holding, Shape
  <2>4. op[c].use \notin {"set", "store_text", "get", "invalidate_tags"}
        /\ {"read", "write", "commit", "rollback"} \subseteq Way(op[c].use)
    BY <1>5, <2>1 DEF Way
  <2>5. OnlyTagged(k) => op[c].use = "add_tags"
    BY <1>5, <2>4 DEF TagUses
  <2>6. /\ place \in Way(op[c].use) /\ place \in {"write", "commit", "rollback"}
        /\ place = "commit" => op[c].use # "incr"
        /\ place = "write" /\ OnlyTagged(k) => row # None
    BY <2>4, <2>5
  <2> HIDE DEF place
  <2>7. CallFits(c)'
    <3>1. CallFits(c)
      BY DEF DataInv
    <3> QED BY <1>1, <1>5, <2>2, <2>3, <2>6, <3>1 DEF CallFits, Counter, OnlyTagged, Use
  <2>8. TransactionFits(c)'
    <3>1. \A j \in Keys : Counter(j)' => Count(work, j)' = Count(db, j)' + Added(c, j)'
      BY <1>1, <1>3, <1>6, <2>1, <2>2, <2>3, <2>6 DEF Counter, Count, Added
    <3>2. TagsLead(work, {})
      BY <1>3, <2>1
    <3>3. TagsLead(work, IF pc[c] = "drop_tags" THEN op[c].found ELSE {})'
      BY <1>1, <2>1, <2>3, <2>6, <3>2 DEF TagsLead, OnlyTagged
    <3>4. (pc[c] = "write" /\ Counter(k) => op[c].row = work.rows[k])'
      BY <2>1, <2>2
    <3>5. (pc[c] = "write" /\ OnlyTagged(k) => work.rows[k] # None)'
      BY <1>1, <2>1, <2>2, <2>3, <2>6 DEF OnlyTagged
    <3> QED BY <1>3, <2>1, <3>1, <3>3, <3>4, <3>5 DEF TransactionFits
  <2> QED BY <1>1, <2>1, <2>2, <2>7, <2>8, QuietStep
<1>8. CASE Writes(c)
  <2> DEFINE d == IF op[c].use = "incr" THEN AddOne(work, k, op[c].row, op[c].ttl)
                  ELSE InsertTags(work, k, op[c].tags)
  <2>1. pc[c] = "write" /\ Execute(Loop, d) /\ Goto(c, "commit")
    BY <1>4, <1>8 DEF Writes, Statement
  <2>2. "commit" \in Way(op[c].use) /\ op[c].use \notin {"set", "store_text", "get", "invalidate_tags"}
    BY <1>5, <2>1 DEF Way
  <2>3. /\ pc' = [pc EXCEPT ![c] = "commit"] /\ op' = [op EXCEPT ![c] = op'[c]]
        /\ pc'[c] = "commit" /\ op'[c] = op[c] /\ CallFits(c)'
    BY <1>1, <1>5, <2>1, <2>2, Going
  <2>4. work' = d /\ db' = db /\ writer' = Loop
    BY <1>3, <2>1 DEF Execute
  <2>5. ASSUME Orderly(d), TagsLead(d, {}),
               \A j \in Keys : Counter(j) =>
                 Count(d, j) = Count(db, j) + (IF op[c].use = "incr" /\ k = j THEN 1 ELSE 0)
        PROVE  DataInv'
    <3> HIDE DEF d
    <3>1. \A j \in Keys : Counter(j)' => Count(work, j)' = Count(db, j)' + Added(c, j)'
      BY <1>1, <2>3, <2>4, <2>5 DEF Counter, Count, Added
    <3>2. TagsLead(work, IF pc[c] = "drop_tags" THEN op[c].found ELSE {})'
      BY <1>1, <2>3, <2>4, <2>5 DEF TagsLead, OnlyTagged
    <3>3. TransactionFits(c)'
      BY <2>3, <2>4, <3>1, <3>2 DEF TransactionFits
    <3> QED BY <1>1, <1>2, <2>1, <2>3, <2>5, <3>3, InsideStatement
  <2>6. CASE op[c].use = "incr" /\ Counter(k)
    <3>1. d = AddOne(work, k, work.rows[k], None)
      BY <1>3, <1>5, <2>1, <2>6
    <3>2. /\ Orderly(d) /\ d.tags = work.tags /\ Count(d, k) = Count(work, k) + 1
          /\ \A j \in Keys \ {k} : d.rows[j] = work.rows[j]
      BY <1>4, <1>5, <2>6, <3>1, AddOneAdds
    <3> HIDE DEF d
    <3>3. \A j \in Keys : Counter(j) => Count(d, j) = Count(db, j) + (IF k = j THEN 1 ELSE 0)
      <4> SUFFICES ASSUME NEW j \in Keys, Counter(j)
                   PROVE  Count(d, j) = Count(db, j) + (IF k = j THEN 1 ELSE 0)
        OBVIOUS
      <4>1. CASE j = k
        BY <1>3, <3>2, <4>1
      <4>2. CASE j # k
        <5>1. Count(d, j) = Count(work, j)
          BY <3>2, <4>2 DEF Count
        <5> QED BY <1>3, <1>6, <4>2, <5>1
      <4> QED BY <4>1, <4>2
    <3>4. TagsLead(d, {})
      <4>1. TagsLead(work, {}) /\ ~OnlyTagged(k)
        BY <1>3, <1>5, <2>1, <2>6 DEF TagUses
      <4> QED BY <3>2, <4>1 DEF TagsLead
    <3> QED BY <2>5, <2>6, <3>2, <3>3, <3>4
  <2>7. CASE op[c].use = "incr" /\ ~Counter(k)
    <3>1. ~OnlyTagged(k)
      BY <1>5, <2>7 DEF TagUses
    <3>2. Harmless(work, d)
      BY <1>4, <1>5, <2>7, <3>1, AdditionIsHarmless
    <3> HIDE DEF d
    <3>3. Orderly(d)
      BY <1>4, <3>2, HarmlessStaysOrderly
    <3>4. \A j \in Keys : Counter(j) => Count(d, j) = Count(db, j) + (IF k = j THEN 1 ELSE 0)
      <4>1. \A j \in Keys : Counter(j) => Count(d, j) = Count(work, j) /\ j # k
        BY <2>7, <3>2 DEF Harmless, Count
      <4> QED BY <1>3, <1>6, <4>1
    <3>5. TagsLead(d, {})
      <4>1. TagsLead(work, {})
        BY <1>3, <2>1
      <4> QED BY <3>2, <4>1 DEF TagsLead, Harmless
    <3> QED BY <2>5, <2>7, <3>3, <3>4, <3>5
  <2>8. CASE op[c].use # "incr"
    <3>1. /\ Tables(d) /\ d.rows = work.rows
          /\ \A t, j : <<t, j>> \in d.tags => <<t, j>> \in work.tags \/ j = k
      BY <1>4, <2>8, InsertedTags
    <3> HIDE DEF d
    <3>2. ~Counter(k)
      BY <1>5, <2>8
    <3>3. Orderly(d)
      BY <1>4, <3>1, <3>2 DEF Orderly
    <3>4. \A j \in Keys : Counter(j) => Count(d, j) = Count(db, j) + 0
      BY <1>3, <1>6, <3>1 DEF Count
    <3>5. TagsLead(d, {})
      <4>1. TagsLead(work, {}) /\ (OnlyTagged(k) => work.rows[k] # None)
        BY <1>3, <2>1
      <4> QED BY <3>1, <4>1 DEF TagsLead
    <3> QED BY <2>5, <2>8, <3>3, <3>4, <3>5
  <2> QED BY <2>6, <2>7, <2>8
<1>9. CASE FindsTagged(c)
  <2> DEFINE K == TaggedKeys(work, op[c].tags)
             place == IF K = {} THEN "drop_tags" ELSE "drop_rows"
  <2>1. /\ pc[c] = "find" /\ op' = [op EXCEPT ![c].found = K] /\ pc' = [pc EXCEPT ![c] = place]
        /\ UNCHANGED <<db, writer, work>>
    BY <1>4, <1>9 DEF FindsTagged, fileVars
  <2>2. /\ op' = [op EXCEPT ![c] = op'[c]] /\ op'[c].found = K /\ op'[c].conn = op[c].conn
        /\ op'[c].use = op[c].use /\ op'[c].key = op[c].key /\ op'[c].ttl = op[c].ttl
    BY <2>1, KeysTaken
  <2>3. pc'[c] = place
    BY <2>1 DEF LockInv, Holding, Shape
  <2>4. op[c].use = "invalidate_tags" /\ {"drop_rows", "drop_tags"} \subseteq Way(op[c].use)
    BY <1>5, <2>1 DEF Way
  <2>5. \A j \in K : ~Counter(j)
    BY <1>4 DEF TaggedKeys, Orderly
  <2>6. place \in Way(op[c].use) /\ place \in {"drop_rows", "drop_tags"}
    BY <2>4
  <2> HIDE DEF place, K
  <2>7. CallFits(c)'
    <3>1. CallFits(c)
      BY DEF DataInv
    <3>2. \A j \in K : ~Counter(j)'
      BY <1>1, <2>5 DEF Counter
    <3> QED BY <1>1, <1>5, <2>2, <2>3, <2>6, <3>1, <3>2 DEF CallFits, Counter, OnlyTagged, Use
  <2>8. TransactionFits(c)'
    <3>1. \A j \in Keys : Counter(j)' => Count(work, j)' = Count(db, j)' + Added(c, j)'
      BY <1>1, <1>3, <1>6, <2>1, <2>3, <2>6 DEF Counter, Count, Added
    <3>2. TagsLead(work, {})
      BY <1>3, <2>1
    <3>3. TagsLead(work, IF pc[c] = "drop_tags" THEN op[c].found ELSE {})'
      BY <1>1, <2>1, <3>2 DEF TagsLead, OnlyTagged
    <3> QED BY <1>3, <2>1, <2>3, <2>6, <3>1, <3>3 DEF TransactionFits
  <2> QED BY <1>1, <2>1, <2>2, <2>7, <2>8, QuietStep
<1>10. ASSUME NEW place \in {"drop_tags", "commit"}, NEW d, Execute(Loop, d), Goto(c, place),
              op[c].use = "invalidate_tags", Orderly(d),
              \A j \in Keys : Counter(j) => d.rows[j] = work.rows[j],
              TagsLead(d, IF place = "drop_tags" THEN op[c].found ELSE {})
       PROVE  DataInv'
  <2>1. place \in Way(op[c].use)
    BY <1>10 DEF Way
  <2>2. /\ pc' = [pc EXCEPT ![c] = place] /\ op' = [op EXCEPT ![c] = op'[c]]
        /\ pc'[c] = place /\ op'[c] = op[c] /\ CallFits(c)'
    BY <1>1, <1>5, <1>10, <2>1, Going
  <2>3. work' = d /\ db' = db /\ writer' = Loop
    BY <1>3, <1>10 DEF Execute
  <2>4. \A j \in Keys : Counter(j)' => Count(work, j)' = Count(db, j)' + Added(c, j)'
    BY <1>1, <1>3, <1>6, <1>10, <2>2, <2>3 DEF Counter, Count, Added
  <2>5. TagsLead(work, IF pc[c] = "drop_tags" THEN op[c].found ELSE {})'
    BY <1>1, <1>10, <2>2, <2>3 DEF TagsLead, OnlyTagged
  <2>6. TransactionFits(c)'
    BY <1>10, <2>2, <2>3, <2>4, <2>5 DEF TransactionFits
  <2> QED BY <1>1, <1>2, <1>10, <2>2, <2>6, InsideStatement
<1>11. CASE DropsRows(c)
  <2> DEFINE d == DeleteRows(work, op[c].found)
  <2>1. pc[c] = "drop_rows" /\ Execute(Loop, d) /\ Goto(c, "drop_tags")
    BY <1>4, <1>11 DEF DropsRows, Statement
  <2>2. op[c].use = "invalidate_tags"
    BY <1>5, <2>1 DEF Way
  <2>3. /\ Tables(d) /\ d.tags = work.tags
        /\ \A j \in Keys : d.rows[j] = IF j \in op[c].found THEN None ELSE work.rows[j]
    BY <1>4, DroppedRows
  <2> HIDE DEF d
  <2>4. Orderly(d)
    BY <1>4, <1>5, <2>1, <2>3 DEF Orderly
  <2>5. TagsLead(d, op[c].found)
    BY <1>3, <2>1, <2>3 DEF TagsLead
  <2> QED BY <1>5, <1>10, <2>1, <2>2, <2>3, <2>4, <2>5
<1>12. CASE DropsTags(c)
  <2> DEFINE d == DeleteTags(DeleteTagsOf(work, op[c].found), op[c].tags)
  <2>1. pc[c] = "drop_tags" /\ Execute(Loop, d) /\ Goto(c, "commit")
    BY <1>4, <1>12 DEF DropsTags, Statement
  <2>2. op[c].use = "invalidate_tags"
    BY <1>5, <2>1 DEF Way
  <2>3. /\ Tables(d) /\ d.rows = work.rows /\ d.tags \subseteq work.tags
        /\ \A t, j : j \in op[c].found => <<t, j>> \notin d.tags
    BY <1>4, DroppedTags
  <2> HIDE DEF d
  <2>4. Orderly(d)
    BY <1>4, <2>3 DEF Orderly
  <2>5. TagsLead(d, {})
    BY <1>3, <2>1, <2>3 DEF TagsLead
  <2> QED BY <1>10, <2>1, <2>2, <2>3, <2>4, <2>5
<1> QED BY <1>7, <1>8, <1>9, <1>11, <1>12

\* Whoever has taken the lock only, or gives up what he has not begun, changes
\* nothing in the file.
LEMMA LockData ==
  ASSUME LockInv, DataInv, NEW c \in Coroutines, rest' = rest,
         TakesLockToConnect(c) \/ ConnectFails(c) \/ SetUpFails(c) \/ TakesLock(c)
  PROVE  DataInv'
<1>1. UNCHANGED <<db, writer, work, conn, acked, unsure, uses>>
  BY DEF TakesLockToConnect, ConnectFails, SetUpFails, TakesLock, fileVars
<1>2. /\ pc[c] # "idle" => op[c].key \in Keys /\ pc[c] \in Way(op[c].use) /\ CallFits(c)
      /\ pc[c] \notin {"idle", "connect", "connecting"} => op[c].conn # 0
  BY DEF DataInv, CallFits
<1>3. ASSUME NEW place \in Places \ TxBody, pc[c] # "idle", Goto(c, place),
             place \in Way(op[c].use), place \notin {"connect", "connecting"} => op[c].conn # 0
      PROVE  DataInv'
  <2>1. place # "drop_rows"
    BY <1>3 DEF TxBody
  <2>2. /\ pc' = [pc EXCEPT ![c] = place] /\ op' = [op EXCEPT ![c] = op'[c]]
        /\ pc'[c] = place /\ CallFits(c)'
    BY <1>1, <1>3, <2>1, Going
  <2>3. TransactionFits(c)'
    BY <1>3, <2>2 DEF TransactionFits, InTransaction
  <2> QED BY <1>1, <2>2, <2>3, QuietStep
<1>4. CASE TakesLockToConnect(c)
  <2>1. CASE conn # 0
    <3>1. /\ pc[c] = "connect" /\ pc' = [pc EXCEPT ![c] = Start(op[c].use)]
          /\ op' = [op EXCEPT ![c].conn = conn]
      BY <1>4, <2>1 DEF TakesLockToConnect
    <3>2. /\ op' = [op EXCEPT ![c] = op'[c]] /\ op'[c].conn = conn /\ op'[c].found = op[c].found
          /\ op'[c].use = op[c].use /\ op'[c].key = op[c].key /\ op'[c].ttl = op[c].ttl
      BY <3>1, ConnTaken
    <3>3. pc'[c] = Start(op[c].use)
      BY <3>1 DEF LockInv, Holding, Shape
    <3>4. Start(op[c].use) \in Way(op[c].use) /\ Start(op[c].use) \notin TxBody
          /\ Start(op[c].use) # "drop_rows"
      BY DEF Start, Way, TxBody
    <3>5. CallFits(c)'
      BY <1>1, <1>2, <2>1, <3>1, <3>2, <3>3, <3>4 DEF CallFits, Counter, OnlyTagged, Use
    <3>6. TransactionFits(c)'
      BY <3>3, <3>4 DEF TransactionFits, InTransaction
    <3> QED BY <1>1, <3>1, <3>2, <3>5, <3>6, QuietStep
  <2>2. CASE conn = 0
    <3>1. pc[c] = "connect" /\ Goto(c, "connecting")
      BY <1>4, <2>2 DEF TakesLockToConnect
    <3>2. "connecting" \in Way(op[c].use) /\ "connecting" \in Places \ TxBody
      BY DEF Way, Places, Locked, TxBody
    <3> QED BY <1>3, <3>1, <3>2
  <2> QED BY <2>1, <2>2
<1>5. CASE ConnectFails(c) \/ SetUpFails(c)
  BY <1>1, <1>5, Finishing, QuietStep DEF ConnectFails, SetUpFails, FinishLocked
<1>6. CASE TakesLock(c)
  <2>1. pc[c] = "lock" /\ Goto(c, "begin")
    BY <1>6 DEF TakesLock
  <2>2. "begin" \in Way(op[c].use) /\ "begin" \in Places \ TxBody
    BY <1>2, <2>1 DEF Way, Places, Locked, TxBody
  <2> QED BY <1>2, <1>3, <2>1, <2>2
<1> QED BY <1>4, <1>5, <1>6

\* A step of c after which no coroutine is in a transaction, and the file is as
\* it was or the transaction is gone.
LEMMA NobodyIn ==
  ASSUME LockInv, DataInv, UNCHANGED <<db, acked, unsure, uses, rest>>,
         writer' = Loop => Orderly(work'),
         \A e \in Coroutines : CallFits(e)' /\ ~InTransaction(e)'
  PROVE  DataInv'
<1>1. CountersAddUp' /\ TagsHaveRows'
  BY DEF DataInv, CountersAddUp, TagsHaveRows
<1>2. \A e \in Coroutines : TransactionFits(e)'
  BY DEF TransactionFits
<1> QED BY <1>1, <1>2, RestStays DEF DataInv

\* The connection is opened and remembered, and the transaction begun.
LEMMA BeginData ==
  ASSUME LockInv, DataInv, NEW c \in Coroutines, rest' = rest,
         Opens(c) \/ Connected(c) \/ Begins(c)
  PROVE  DataInv'
<1>1. pc[c] \in Locked
  BY DEF Opens, Connected, Begins, Locked
<1>2. CASE Opens(c) \/ Connected(c)
  <2> DEFINE place == IF pc[c] = "connecting" THEN "setup" ELSE Start(op[c].use)
  <2>1. /\ pc[c] \in {"connecting", "setup"} /\ pc' = [pc EXCEPT ![c] = place]
        /\ UNCHANGED <<db, writer, work, acked, unsure, uses>>
    BY <1>2 DEF Opens, Connected, Goto, fileVars
  <2>2. /\ op' = [op EXCEPT ![c] = op'[c]] /\ op'[c].conn # 0
        /\ op'[c].use = op[c].use /\ op'[c].key = op[c].key /\ op'[c].ttl = op[c].ttl
    <3>1. CASE Opens(c)
      <4>1. made + 1 # 0
        BY DEF LockInv, ConnectionCounted
      <4> QED BY <2>1, <3>1, <4>1, ConnTaken DEF Opens
    <3>2. CASE Connected(c)
      BY <3>2 DEF Connected, Goto, LockInv, Holding, Shape, ConnectionCounted
    <3> QED BY <1>2, <3>1, <3>2
  <2>3. pc'[c] = place
    BY <2>1 DEF LockInv, Holding, Shape
  <2>4. place \in Way(op[c].use) /\ place \notin TxBody /\ place # "drop_rows"
    BY DEF Start, Way, TxBody
  <2> HIDE DEF place
  <2>5. CallFits(c)'
    <3>1. CallFits(c)
      BY DEF DataInv
    <3> QED BY <2>1, <2>2, <2>3, <2>4, <3>1 DEF CallFits, Counter, OnlyTagged, Use
  <2>6. /\ \A e \in Coroutines \ {c} : pc'[e] = pc[e] /\ op'[e] = op[e]
        /\ \A e \in Coroutines : CallFits(e)'
    BY <2>1, <2>2, <2>5, OthersStay
  <2>7. \A e \in Coroutines : ~InTransaction(e)'
    BY <1>1, <2>3, <2>4, <2>6, Alone DEF InTransaction, Locked
  <2>8. writer' = Loop => Orderly(work')
    BY <2>1 DEF DataInv
  <2> QED BY <2>1, <2>6, <2>7, <2>8, NobodyIn
<1>3. CASE Begins(c)
  <2> DEFINE place == IF op[c].use = "invalidate_tags" THEN "find" ELSE "read"
  <2>1. /\ pc[c] = "begin" /\ op[c].conn = conn /\ Goto(c, place)
        /\ writer = None /\ writer' = Loop /\ work' = db /\ db' = db
        /\ UNCHANGED <<conn, acked, unsure, uses>>
    BY <1>3 DEF Begins, Open
  <2>2. pc[c] \in Way(op[c].use) /\ op[c].conn # 0
    BY <2>1 DEF DataInv, CallFits
  <2>3. place \in Way(op[c].use)
    BY <2>1, <2>2 DEF Way
  <2>4. place \in {"find", "read"}
    OBVIOUS
  <2> HIDE DEF place
  <2>5. /\ pc' = [pc EXCEPT ![c] = place] /\ op' = [op EXCEPT ![c] = op'[c]]
        /\ pc'[c] = place /\ op'[c] = op[c] /\ CallFits(c)'
    BY <2>1, <2>2, <2>3, <2>4, Going
  <2>6. /\ \A e \in Coroutines \ {c} : pc'[e] = pc[e] /\ op'[e] = op[e]
        /\ \A e \in Coroutines : CallFits(e)'
    BY <2>1, <2>5, OthersStay
  <2>7. \A e \in Coroutines \ {c} : TransactionFits(e)'
    BY <1>1, <2>6, Alone DEF TransactionFits, InTransaction, Locked
  <2>8. TransactionFits(c)'
    <3>1. \A j \in Keys : Counter(j) => Count(db, j) \in Nat
      BY DEF DataInv, Orderly, CounterRow, Count
    <3>2. \A j \in Keys : Counter(j)' => Count(work, j)' = Count(db, j)' + Added(c, j)'
      BY <2>1, <2>4, <2>5, <3>1 DEF Counter, Count, Added
    <3>3. TagsLead(work, {})'
      BY <2>1 DEF DataInv, TagsHaveRows, TagsLead, OnlyTagged, TagUses
    <3> QED BY <2>1, <2>4, <2>5, <3>2, <3>3 DEF TransactionFits
  <2>9. CountersAddUp' /\ TagsHaveRows'
    BY <2>1 DEF DataInv, CountersAddUp, TagsHaveRows
  <2> QED BY <2>1, <2>6, <2>7, <2>8, <2>9, RestStays DEF DataInv
<1> QED BY <1>2, <1>3

\* A COMMIT that is executed: what was added is acknowledged, or the call was
\* cancelled and nobody knows.
LEMMA KeepData ==
  ASSUME LockInv, DataInv, NEW c \in Coroutines, rest' = rest,
         pc[c] = "commit", op[c].conn = conn, Keep(Loop), UNCHANGED <<conn, uses>>,
         NEW place \in {"idle", "rollback"},
         pc' = [pc EXCEPT ![c] = place], op' = [op EXCEPT ![c] = op'[c]], CallFits(c)',
         \/ /\ acked' = IF Counts(c) THEN [acked EXCEPT ![op[c].key] = @ + 1] ELSE acked
            /\ unsure' = unsure
         \/ /\ unsure' = IF Counts(c) THEN [unsure EXCEPT ![op[c].key] = @ + 1] ELSE unsure
            /\ acked' = acked
  PROVE  DataInv'
<1>1. pc[c] \in Locked /\ InTransaction(c)
  BY DEF Locked, TxBody, InTransaction
<1>2. writer = Loop /\ db' = work /\ writer' # Loop
  BY ProcessesAssumption DEF Keep
<1>3. /\ pc'[c] = place
      /\ \A e \in Coroutines \ {c} : pc'[e] = pc[e] /\ op'[e] = op[e]
      /\ \A e \in Coroutines : CallFits(e)'
  BY OthersStay
<1>4. \A e \in Coroutines : TransactionFits(e)'
  <2>1. \A e \in Coroutines : ~InTransaction(e)'
    BY <1>1, <1>3, Alone DEF InTransaction, Locked, TxBody
  <2> QED BY <2>1 DEF TransactionFits
<1>5. acked \in [Keys -> Nat] /\ unsure \in [Keys -> Nat]
  BY DEF DataInv
<1>6. acked' \in [Keys -> Nat] /\ unsure' \in [Keys -> Nat]
  BY <1>5
<1>7. CountersAddUp'
  <2> SUFFICES ASSUME NEW j \in Keys, uses[j] = {"incr"}
               PROVE  acked'[j] <= Count(work, j) /\ Count(work, j) <= acked'[j] + unsure'[j]
    BY <1>2 DEF CountersAddUp, Count
  <2>1. acked[j] <= Count(db, j) /\ Count(db, j) <= acked[j] + unsure[j] /\ Count(db, j) \in Nat
    BY DEF DataInv, CountersAddUp, Count, Orderly, Counter, CounterRow
  <2>2. Count(work, j) = Count(db, j) + Added(c, j)
    BY <1>1 DEF DataInv, TransactionFits, Counter
  <2>3. CASE op[c].use = "incr" /\ op[c].key = j
    <3>1. Count(work, j) = Count(db, j) + 1
      BY <2>2, <2>3 DEF Added
    <3>2. \/ acked'[j] = acked[j] + 1 /\ unsure'[j] = unsure[j]
          \/ acked'[j] = acked[j] /\ unsure'[j] = unsure[j] + 1
      BY <1>5, <2>3 DEF Counts
    <3> QED BY <1>5, <2>1, <3>1, <3>2
  <2>4. CASE ~(op[c].use = "incr" /\ op[c].key = j)
    <3>1. Count(work, j) = Count(db, j)
      BY <2>1, <2>2, <2>4 DEF Added
    <3>2. acked'[j] = acked[j] /\ unsure'[j] = unsure[j]
      BY <1>5, <2>4 DEF Counts
    <3> QED BY <2>1, <3>1, <3>2
  <2> QED BY <2>3, <2>4
<1>8. TagsHaveRows'
  <2>1. TagsLead(work, {})
    BY <1>1 DEF DataInv, TransactionFits
  <2> QED BY <1>2, <2>1 DEF TagsHaveRows, TagsLead, OnlyTagged, TagUses
<1>9. Orderly(db')
  BY <1>2 DEF DataInv
<1> QED BY <1>2, <1>3, <1>4, <1>6, <1>7, <1>8, <1>9, RestStays DEF DataInv

\* COMMIT and ROLLBACK.
LEMMA EndData ==
  ASSUME LockInv, DataInv, NEW c \in Coroutines, rest' = rest, Commits(c) \/ RollsBack(c)
  PROVE  DataInv'
<1>1. Finish(c) /\ UNCHANGED <<conn, uses>>
  BY DEF Commits, RollsBack, FinishLocked
<1>2. /\ pc' = [pc EXCEPT ![c] = "idle"] /\ op' = [op EXCEPT ![c] = op'[c]]
      /\ CallFits(c)' /\ ~InTransaction(c)' /\ TransactionFits(c)'
  BY <1>1, Finishing
<1>3. CASE Commits(c)
  <2>1. pc[c] = "commit" /\ op[c].conn = conn /\ Keep(Loop)
    BY <1>3 DEF Commits
  <2>2. /\ acked' = IF Counts(c) THEN [acked EXCEPT ![op[c].key] = @ + 1] ELSE acked
        /\ unsure' = unsure
    BY <1>3 DEF Commits
  <2> QED BY <1>1, <1>2, <2>1, <2>2, KeepData
<1>4. CASE RollsBack(c)
  <2>1. pc[c] = "rollback" /\ UNCHANGED <<db, acked, unsure>>
    BY <1>4 DEF RollsBack, Undo, fileVars
  <2>2. CASE UNCHANGED <<writer, work>>
    BY <1>1, <1>2, <2>1, <2>2, QuietStep
  <2>3. CASE writer' # Loop
    <3>1. pc[c] \in Locked
      BY <2>1 DEF Locked, TxBody
    <3>2. /\ \A e \in Coroutines \ {c} : pc'[e] = pc[e] /\ op'[e] = op[e]
          /\ \A e \in Coroutines : CallFits(e)'
      BY <1>1, <1>2, OthersStay
    <3>3. \A e \in Coroutines : ~InTransaction(e)'
      BY <1>2, <3>1, <3>2, Alone DEF InTransaction, Locked
    <3> QED BY <1>1, <2>1, <2>3, <3>2, <3>3, NobodyIn
  <2>4. UNCHANGED <<writer, work>> \/ writer' # Loop
    BY <1>4, ProcessesAssumption DEF RollsBack, Undo, fileVars
  <2> QED BY <2>2, <2>3, <2>4
<1> QED BY <1>3, <1>4

\* A call that is abandoned ends, or goes on to roll back.
LEMMA Abandoning ==
  ASSUME LockInv, DataInv, NEW c \in Coroutines, Abandons(c), uses' = uses, pc[c] # "idle"
  PROVE  \E place \in {"idle", "rollback"} :
           /\ pc' = [pc EXCEPT ![c] = place] /\ op' = [op EXCEPT ![c] = op'[c]]
           /\ CallFits(c)' /\ ~InTransaction(c)' /\ TransactionFits(c)'
<1>1. CASE pc[c] \in TxBody \ {"rollback"}
  <2>1. Goto(c, "rollback")
    BY <1>1 DEF Abandons
  <2>2. pc[c] \in Way(op[c].use) /\ op[c].conn # 0
    BY <1>1 DEF DataInv, CallFits, TxBody
  <2>3. "rollback" \in Way(op[c].use)
    BY <1>1, <2>2 DEF Way, TxBody
  <2>4. /\ pc' = [pc EXCEPT ![c] = "rollback"] /\ op' = [op EXCEPT ![c] = op'[c]]
        /\ pc'[c] = "rollback" /\ CallFits(c)'
    BY <2>1, <2>2, <2>3, Going
  <2>5. ~InTransaction(c)'
    BY <2>4 DEF InTransaction
  <2> QED BY <2>4, <2>5 DEF TransactionFits
<1>2. CASE pc[c] \notin TxBody \ {"rollback"}
  <2>1. Finish(c)
    BY <1>2 DEF Abandons
  <2> QED BY <2>1, Finishing
<1> QED BY <1>1, <1>2

\* Statements that fail and calls that are cancelled, BEGIN and COMMIT included.
LEMMA AbandonData ==
  ASSUME LockInv, DataInv, NEW c \in Coroutines, rest' = rest, StatementFails(c) \/ Cancelled(c)
  PROVE  DataInv'
<1>1. Abandons(c) /\ pc[c] # "idle" /\ UNCHANGED <<conn, acked, uses>>
  BY DEF StatementFails, Cancelled
<1>2. PICK place \in {"idle", "rollback"} :
        /\ pc' = [pc EXCEPT ![c] = place] /\ op' = [op EXCEPT ![c] = op'[c]]
        /\ CallFits(c)' /\ ~InTransaction(c)' /\ TransactionFits(c)'
  BY <1>1, Abandoning
<1>3. CASE UNCHANGED <<fileVars, unsure>>
  BY <1>1, <1>2, <1>3, QuietStep DEF fileVars
<1>4. CASE /\ pc[c] = "commit" /\ op[c].conn = conn /\ Keep(Loop)
           /\ unsure' = IF Counts(c) THEN [unsure EXCEPT ![op[c].key] = @ + 1] ELSE unsure
  BY <1>1, <1>2, <1>4, KeepData
<1>5. CASE pc[c] = "begin" /\ Open(Loop) /\ unsure' = unsure
  <2>1. writer = None /\ writer' = Loop /\ work' = db /\ db' = db
    BY <1>5 DEF Open
  <2>2. pc[c] \in Locked
    BY <1>5 DEF Locked
  <2>3. /\ \A e \in Coroutines \ {c} : pc'[e] = pc[e] /\ op'[e] = op[e]
        /\ \A e \in Coroutines : CallFits(e)'
    BY <1>1, <1>2, OthersStay
  <2>4. \A e \in Coroutines : ~InTransaction(e)'
    BY <1>2, <2>2, <2>3, Alone DEF InTransaction, Locked
  <2>5. Orderly(work')
    BY <2>1 DEF DataInv
  <2> QED BY <1>1, <1>5, <2>1, <2>3, <2>4, <2>5, NobodyIn
<1>6. CASE StatementFails(c)
  BY <1>3, <1>6 DEF StatementFails
<1>7. CASE Cancelled(c)
  BY <1>3, <1>4, <1>5, <1>7 DEF Cancelled
<1> QED BY <1>6, <1>7

\* Every step keeps the invariant.
LEMMA DataNext ==
  ASSUME LockInv, DataInv, [Next]_vars
  PROVE  DataInv'
<1>1. CASE \E p \in Processes : SyncStep(p) /\ UNCHANGED <<asyncVars, unsure>>
  BY <1>1, SyncKeepsData
<1>2. ASSUME NEW c \in Coroutines, rest' = rest, AsyncStep(c) \/ Invokes(c) \/ Cancelled(c)
      PROVE  DataInv'
  BY <1>2, OutsideData, InsideData, LockData, BeginData, EndData, AbandonData DEF AsyncStep
<1>3. CASE Close /\ rest' = rest
  <2>1. /\ conn' = 0 /\ writer' # Loop
        /\ UNCHANGED <<db, pc, op, acked, unsure, uses>>
    BY <1>3, ProcessesAssumption DEF Close, Undo
  <2>2. \A e \in Coroutines : CallFits(e)'
    BY <2>1 DEF DataInv, CallFits, Counter, OnlyTagged, Use
  <2>3. \A e \in Coroutines : ~InTransaction(e)'
    BY <2>1 DEF DataInv, CallFits, InTransaction, TxBody
  <2> QED BY <1>3, <2>1, <2>2, <2>3, NobodyIn
<1>4. CASE LoopCrash
  <2>1. /\ pc' = [d \in Coroutines |-> "idle"] /\ writer' # Loop
        /\ UNCHANGED <<db, acked, unsure, uses, rest>>
    BY <1>4, ProcessesAssumption DEF LoopCrash, Undo, syncVars
  <2>2. \A e \in Coroutines : CallFits(e)' /\ ~InTransaction(e)'
    BY <2>1 DEF CallFits, InTransaction, TxBody
  <2> QED BY <2>1, <2>2, NobodyIn
<1>5. CASE Tick \/ AllDone \/ UNCHANGED vars
  <2>1. UNCHANGED <<db, writer, work, uses, acked, unsure, pc, op, conn, rest>>
    BY <1>5 DEF Tick, AllDone, vars, fileVars, syncVars, asyncVars
  <2> QED BY <2>1, RestStep, RestStays
<1> QED BY <1>1, <1>2, <1>3, <1>4, <1>5 DEF Next, AsyncNext, syncVars

\* So it always holds.
LEMMA DataAlways == Spec => []DataInv
<1>1. LockInv /\ DataInv /\ [Next]_vars => DataInv'
  BY DataNext
<1> QED BY <1>1, DataInit, LockAlways, PTL DEF Spec

\* Whatever processes and coroutines increment a counter, and wherever they
\* fail, crash, close or are cancelled, it has counted each acknowledged
\* increment once, and one committed in a cancelled call at most once.
THEOREM IncrementsAreCounted == Spec => []CountersAddUp
<1>1. DataInv => CountersAddUp
  BY DEF DataInv
<1> QED BY <1>1, DataAlways, PTL

\* What is committed of tagging and invalidation is never half done: the tags
\* of a key that is only stored, tagged and invalidated lead to its row.
THEOREM TagsLeadToRows == Spec => []TagsHaveRows
<1>1. DataInv => TagsHaveRows
  BY DEF DataInv
<1> QED BY <1>1, DataAlways, PTL
-----------------------------------------------------------------------------
(* Types *)

\* What AddOne is given: no row, one that has expired, or one with an integer.
Addable(row) == row # None => Expired(row) \/ row.val \in Nat

FileOK == /\ db \in Database
          /\ writer \in Processes \union {Loop, None}
          /\ IF writer = None THEN work = None ELSE work \in Database
          /\ now \in Nat
          /\ uses \in [Keys -> SUBSET Methods]
          /\ acked \in [Keys -> Nat] /\ unsure \in [Keys -> Nat]

\* A coroutine in a call has a record of it, and incr has refused text by the
\* time it writes.
CallsOK == \A c \in Coroutines :
  /\ op[c] \in Call \union {None}
  /\ pc[c] # "idle" => op[c] \in Call
  /\ pc[c] = "write" /\ Counts(c) => Addable(op[c].row)

TypeInv == FileOK /\ CallsOK /\ SyncTypeOK

\* In the beginning.
LEMMA TypeInit == Init => TypeInv
<1> SUFFICES ASSUME Init PROVE TypeInv
  OBVIOUS
<1> USE DEF Init, FileInit, SyncInit, AsyncInit
<1>1. FileOK
  <2>1. uses \in [Keys -> SUBSET Methods]
    BY FileAssumption
  <2>2. db \in Database
    BY DEF Database
  <2> QED BY <2>1, <2>2 DEF FileOK
<1>2. CallsOK
  BY DEF CallsOK
<1>3. SyncTypeOK
  BY ProcessesAssumption DEF SyncTypeOK
<1> QED BY <1>1, <1>2, <1>3 DEF TypeInv

\* The statements leave a database: those that delete ...
LEMMA DeletionTypes ==
  ASSUME NEW d \in Database
  PROVE  /\ \A K : DeleteRows(d, K) \in Database /\ DeleteTagsOf(d, K) \in Database
         /\ \A T : DeleteTags(d, T) \in Database
<1>1. d = [rows |-> d.rows, tags |-> d.tags] /\ d.rows \in [Keys -> Row \union {None}]
      /\ d.tags \in SUBSET (Tags \X Keys)
  BY DEF Database
<1>2. ASSUME NEW K PROVE DeleteRows(d, K) \in Database
  <2> DEFINE R == [j \in Keys |-> IF j \in K THEN None ELSE d.rows[j]]
  <2>1. R \in [Keys -> Row \union {None}]
    BY <1>1
  <2>2. DeleteRows(d, K) = [rows |-> R, tags |-> d.tags]
    BY <1>1 DEF DeleteRows
  <2> HIDE DEF R
  <2> QED BY <1>1, <2>1, <2>2 DEF Database
<1>3. ASSUME NEW S, S \subseteq d.tags PROVE [d EXCEPT !.tags = S] \in Database
  BY <1>1, <1>3 DEF Database
<1>4. ASSUME NEW K PROVE DeleteTagsOf(d, K) \in Database
  <2> DEFINE S == {p \in d.tags : p[2] \notin K}
  <2>1. DeleteTagsOf(d, K) = [d EXCEPT !.tags = S]
    BY Zenon DEF DeleteTagsOf
  <2> QED BY <1>3, <2>1
<1>5. ASSUME NEW T PROVE DeleteTags(d, T) \in Database
  <2> DEFINE S == {p \in d.tags : p[1] \notin T}
  <2>1. DeleteTags(d, T) = [d EXCEPT !.tags = S]
    BY Zenon DEF DeleteTags
  <2> QED BY <1>3, <2>1
<1> QED BY <1>2, <1>4, <1>5

\* ... and those that store, tag and change deadlines.
LEMMA StatementTypes ==
  ASSUME FileOK, NEW d \in Database, NEW k \in Keys, NEW ttl \in Ttls \union {None}
  PROVE  /\ \A v \in Nat \union {Text} : Upsert(d, k, v, Deadline(ttl)) \in Database
         /\ \A T \in SUBSET Tags : InsertTags(d, k, T) \in Database
         /\ Cleanup(d, k) \in Database
         /\ SetExpiry(d, k, Deadline(ttl)) \in Database /\ ClearExpiry(d, k) \in Database
<1>1. d = [rows |-> d.rows, tags |-> d.tags] /\ d.rows \in [Keys -> Row \union {None}]
      /\ d.tags \in SUBSET (Tags \X Keys)
  BY DEF Database
<1>2. Deadline(ttl) \in Nat \union {None}
  <2>1. now \in Nat
    BY DEF FileOK
  <2>2. ttl # None => ttl \in Nat
    BY FileAssumption
  <2> QED BY <2>1, <2>2 DEF Deadline
<1>3. ASSUME NEW R \in [Keys -> Row \union {None}], NEW S \in SUBSET (Tags \X Keys)
      PROVE  [rows |-> R, tags |-> S] \in Database
  BY DEF Database
<1>4. ASSUME NEW v \in Nat \union {Text} PROVE Upsert(d, k, v, Deadline(ttl)) \in Database
  <2>1. [val |-> v, exp |-> Deadline(ttl)] \in Row
    BY <1>2 DEF Row
  <2> DEFINE R == [d.rows EXCEPT ![k] = [val |-> v, exp |-> Deadline(ttl)]]
  <2>2. R \in [Keys -> Row \union {None}]
    BY <1>1, <2>1
  <2>3. Upsert(d, k, v, Deadline(ttl)) = [rows |-> R, tags |-> d.tags]
    BY <1>1 DEF Upsert
  <2> QED BY <1>1, <1>3, <2>2, <2>3
<1>5. ASSUME NEW T \in SUBSET Tags PROVE InsertTags(d, k, T) \in Database
  <2> DEFINE U == d.tags \union (T \X {k})
  <2>1. InsertTags(d, k, T) = [rows |-> d.rows, tags |-> U]
    BY <1>1 DEF InsertTags
  <2>2. U \subseteq Tags \X Keys
    BY <1>1
  <2> HIDE DEF U
  <2> QED BY <1>1, <1>3, <2>1, <2>2
<1>6. ASSUME NEW e \in Nat \union {None}, d.rows[k] # None PROVE [d EXCEPT !.rows[k].exp = e] \in Database
  <2> DEFINE R == [d.rows EXCEPT ![k].exp = e]
  <2>1. d.rows[k] \in Row
    BY <1>1, <1>6
  <2>2. R \in [Keys -> Row \union {None}]
    BY <1>1, <2>1 DEF Row
  <2>3. [d EXCEPT !.rows[k].exp = e] = [rows |-> R, tags |-> d.tags]
    BY <1>1
  <2> HIDE DEF R
  <2> QED BY <1>1, <1>3, <2>2, <2>3
<1>7. Cleanup(d, k) \in Database
  BY DeletionTypes DEF Cleanup
<1>8. SetExpiry(d, k, Deadline(ttl)) \in Database /\ ClearExpiry(d, k) \in Database
  BY <1>2, <1>6 DEF SetExpiry, ClearExpiry
<1> QED BY <1>4, <1>5, <1>7, <1>8

\* So does an increment of what is no text.
LEMMA AddOneTypes ==
  ASSUME FileOK, NEW d \in Database, NEW k \in Keys, NEW ttl \in Ttls \union {None},
         NEW row, Addable(row)
  PROVE  AddOne(d, k, row, ttl) \in Database
<1>1. CASE row # None /\ ~Expired(row) /\ d.rows[k] # None
  <2> DEFINE R == [d.rows EXCEPT ![k].val = row.val + 1]
  <2>1. d.rows[k] \in Row /\ d.rows \in [Keys -> Row \union {None}] /\ row.val \in Nat
    BY <1>1 DEF Database, Addable
  <2>2. R \in [Keys -> Row \union {None}]
    BY <2>1 DEF Row
  <2>3. AddOne(d, k, row, ttl) = [rows |-> R, tags |-> d.tags]
    BY <1>1 DEF AddOne, Database
  <2> HIDE DEF R
  <2> QED BY <2>2, <2>3 DEF Database
<1>2. CASE row # None /\ ~Expired(row) /\ d.rows[k] = None
  BY <1>2 DEF AddOne
<1>3. CASE ~(row # None /\ ~Expired(row))
  BY <1>3, StatementTypes DEF AddOne
<1> QED BY <1>1, <1>2, <1>3

\* A row that is no text can be added to.
LEMMA NoTextIsAddable ==
  ASSUME FileOK, NEW d \in Database, NEW k \in Keys, ~NoInteger(d.rows[k])
  PROVE  Addable(d.rows[k]) /\ d.rows[k] \in Row \union {None}
BY DEF NoInteger, Addable, Database, Row

\* What a connection reads is a database.
LEMMA ViewTypes ==
  ASSUME FileOK, NEW c \in Processes \union {Loop} PROVE View(c) \in Database
BY ProcessesAssumption DEF FileOK, View

\* A statement and a transaction leave the file in order.
LEMMA ExecuteTypes ==
  ASSUME FileOK, NEW c \in Processes \union {Loop}, NEW d \in Database, Execute(c, d),
         UNCHANGED <<now, uses, acked, unsure>>
  PROVE  FileOK'
BY ProcessesAssumption DEF FileOK, Execute, MayWrite

\* Where the calls are as they were, their types are too, also when time passes.
LEMMA CallsStay ==
  ASSUME CallsOK, FileOK, UNCHANGED <<pc, op>>, now' \in {now, now + 1}
  PROVE  CallsOK'
<1>1. \A row : row \in Row /\ Expired(row) => Expired(row)'
  BY DEF Row, Expired, FileOK
<1>2. \A c \in Coroutines : op[c] \in Call => op[c].row \in Row \union {None}
  BY DEF Call
<1>3. \A row \in Row \union {None} : Addable(row) => Addable(row)'
  BY <1>1 DEF Addable
<1>4. \A c \in Coroutines : pc[c] = "write" => pc[c] # "idle"
  OBVIOUS
<1> QED BY <1>2, <1>3, <1>4 DEF CallsOK, Counts

\* A call of SQLiteCache begins; it leaves a statement to do, or none.
LEMMA StartsTypes ==
  ASSUME SyncTypeOK, NEW p \in Processes, Starts(p)
  PROVE  calls' \in [Processes -> 0..MaxCalls]
BY ProcessesAssumption DEF SyncTypeOK, Starts

LEMMA LeavesTypes ==
  ASSUME SyncTypeOK, NEW p \in Processes, NEW s \in {"select", "compute", "tags", "rows", None},
         NEW K \in SUBSET Keys, Leaves(p, s, K)
  PROVE  rest' \in [Processes -> [next : {"select", "compute", "tags", "rows"}, keys : SUBSET Keys]
                                 \union {None}]
<1> DEFINE x == IF s = None THEN None ELSE [next |-> s, keys |-> K]
<1>1. x \in [next : {"select", "compute", "tags", "rows"}, keys : SUBSET Keys] \union {None}
  OBVIOUS
<1>2. rest' = [rest EXCEPT ![p] = x]
  BY DEF Leaves
<1> HIDE DEF x
<1> QED BY <1>1, <1>2 DEF SyncTypeOK

\* A statement of SQLiteCache outside a transaction.
LEMMA SyncStatementTypes ==
  ASSUME FileOK, SyncTypeOK, NEW p \in Processes, NEW d \in Database, unsure' = unsure,
         \/ Single(p, d)
         \/ \E s \in {"select", "tags", "rows"}, K \in SUBSET Keys : First(p, d, s, K)
         \/ \E s : Second(p, s, d)
  PROVE  FileOK' /\ SyncTypeOK'
<1>1. CASE Single(p, d)
  BY <1>1, StartsTypes, ExecuteTypes DEF Single, SyncTypeOK
<1>2. ASSUME NEW s \in {"select", "tags", "rows"}, NEW K \in SUBSET Keys, First(p, d, s, K)
      PROVE  FileOK' /\ SyncTypeOK'
  BY <1>2, StartsTypes, LeavesTypes, ExecuteTypes DEF First, SyncTypeOK
<1>3. ASSUME NEW s, Second(p, s, d) PROVE FileOK' /\ SyncTypeOK'
  BY <1>3, LeavesTypes, ExecuteTypes DEF Second, SyncTypeOK
<1> QED BY <1>1, <1>2, <1>3

\* A method of SQLiteCache that commits a transaction.
LEMMA TransactTypes ==
  ASSUME FileOK, SyncTypeOK, NEW p \in Processes, NEW d \in Database, Transact(p, d),
         acked' \in [Keys -> Nat], unsure' = unsure
  PROVE  FileOK' /\ SyncTypeOK'
BY StartsTypes DEF Transact, FileOK, SyncTypeOK

LEMMA SyncTypes ==
  ASSUME FileOK, SyncTypeOK, NEW p \in Processes, SyncStep(p), unsure' = unsure
  PROVE  FileOK' /\ SyncTypeOK'
<1> DEFINE V == View(p)
<1>0. /\ V \in Database /\ \A k \in Keys : TtlsOf(k) \subseteq Ttls \union {None}
      /\ \A m : Use(m) \in SUBSET Keys
      /\ writer = None => db = V
  BY ViewTypes, ProcessesAssumption DEF TtlsOf, Use, View
<1> HIDE DEF V
<1>1. ASSUME NEW k \in Keys,
             DeleteRow(p, k) \/ GetCleansUp(p, k) \/ Persist(p, k)
      PROVE  FileOK' /\ SyncTypeOK'
  <2>1. None \in Ttls \union {None}
    OBVIOUS
  <2>2. DeleteRows(V, {k}) \in Database /\ Cleanup(V, k) \in Database /\ ClearExpiry(V, k) \in Database
    BY <1>0, <2>1, StatementTypes, DeletionTypes
  <2> QED BY <1>1, <2>2, SyncStatementTypes DEF DeleteRow, GetCleansUp, Persist, V
<1>2. ASSUME NEW k \in Keys, GetSelects(p, k) PROVE FileOK' /\ SyncTypeOK'
  <2>1. /\ Leaves(p, IF k \in Use("get_or_set") /\ View(p).rows[k] = None THEN "compute" ELSE None, {k})
        /\ UNCHANGED <<fileVars, calls, acked, now, uses>>
    BY <1>2 DEF GetSelects
  <2>2. SyncTypeOK'
    BY <2>1, LeavesTypes DEF SyncTypeOK
  <2> QED BY <2>1, <2>2 DEF FileOK, fileVars
<1>3. ASSUME NEW k \in Keys, NEW v \in {0, Text}, NEW ttl \in Ttls \union {None},
             SetStores(p, k, v, ttl)
      PROVE  FileOK' /\ SyncTypeOK'
  <2>1. Upsert(V, k, v, Deadline(ttl)) \in Database
    BY <1>0, StatementTypes
  <2> QED BY <1>3, <2>1, SyncStatementTypes DEF SetStores, V
<1>4. ASSUME NEW k \in Keys, NEW ttl \in Ttls, Expire(p, k, ttl) PROVE FileOK' /\ SyncTypeOK'
  <2>1. SetExpiry(V, k, Deadline(ttl)) \in Database
    BY <1>0, StatementTypes
  <2> QED BY <1>4, <2>1, SyncStatementTypes DEF Expire, V
<1>5. ASSUME NEW k \in Keys, NEW ttl \in TtlsOf(k), GetOrSetStores(p, k, ttl)
      PROVE  FileOK' /\ SyncTypeOK'
  <2>1. Upsert(V, k, 0, Deadline(ttl)) \in Database
    BY <1>0, StatementTypes
  <2> QED BY <1>5, <2>1, SyncStatementTypes DEF GetOrSetStores, V
<1>6. ASSUME NEW k \in Keys, NEW ttl \in TtlsOf(k), writer = None, ~NoInteger(db.rows[k])
      PROVE  AddOne(db, k, db.rows[k], ttl) \in Database
  <2>1. Addable(db.rows[k]) /\ db \in Database
    BY <1>0, <1>6, NoTextIsAddable
  <2> QED BY <1>0, <2>1, AddOneTypes
<1>7. ASSUME NEW k \in Keys, NEW ttl \in TtlsOf(k), Incr(p, k, ttl) PROVE FileOK' /\ SyncTypeOK'
  <2>1. AddOne(db, k, db.rows[k], ttl) \in Database /\ Transact(p, AddOne(db, k, db.rows[k], ttl))
    BY <1>6, <1>7 DEF Incr, Transact
  <2>2. acked' \in [Keys -> Nat]
    BY <1>7 DEF Incr, FileOK
  <2> QED BY <2>1, <2>2, TransactTypes
<1>8. ASSUME NEW k \in Keys, NEW ttl \in TtlsOf(k), CommitFails(p, k, ttl) PROVE FileOK' /\ SyncTypeOK'
  <2>1. AddOne(db, k, db.rows[k], ttl) \in Database
    BY <1>6, <1>8 DEF CommitFails
  <2>2. writer' = p /\ work' = AddOne(db, k, db.rows[k], ttl) /\ UNCHANGED <<db, rest, acked, now, uses>>
        /\ Starts(p)
    BY <1>8 DEF CommitFails
  <2> QED BY <2>1, <2>2, StartsTypes, ProcessesAssumption DEF FileOK, SyncTypeOK
<1>9. ASSUME NEW k \in Keys, NEW T \in SUBSET Tags, AddTags(p, k, T) PROVE FileOK' /\ SyncTypeOK'
  <2>1. Transact(p, InsertTags(db, k, T)) /\ acked' = acked /\ writer = None
    BY <1>9 DEF AddTags, Transact
  <2>2. InsertTags(db, k, T) \in Database
    BY <1>0, <2>1, StatementTypes
  <2> QED BY <2>1, <2>2, TransactTypes DEF FileOK
<1>10. ASSUME NEW T \in SUBSET Tags, InvalidateTags(p, T) PROVE FileOK' /\ SyncTypeOK'
  <2> DEFINE K == TaggedKeys(db, T)
  <2>1. /\ Transact(p, DeleteTags(DeleteTagsOf(DeleteRows(db, K), K), T)) /\ acked' = acked
        /\ writer = None
    BY <1>10 DEF InvalidateTags, Transact
  <2>2. DeleteTags(DeleteTagsOf(DeleteRows(db, K), K), T) \in Database
    BY <1>0, <2>1, DeletionTypes
  <2> QED BY <2>1, <2>2, TransactTypes DEF FileOK
<1>11. CASE ClearNamespace(p)
  <2> DEFINE K == Use("clear")
  <2>1. First(p, DeleteTagsOf(V, K), "rows", K) /\ K \in SUBSET Keys
    BY <1>0, <1>11 DEF ClearNamespace, V
  <2> QED BY <1>0, <2>1, DeletionTypes, SyncStatementTypes
<1>12. CASE ClearAll(p)
  <2>1. First(p, DeleteRows(V, Keys), "tags", Keys)
    BY <1>12 DEF ClearAll, V
  <2> QED BY <1>0, <2>1, DeletionTypes, SyncStatementTypes
<1>13. CASE EndDelete(p)
  <2>1. \/ Second(p, "tags", DeleteTagsOf(V, rest[p].keys))
        \/ Second(p, "rows", DeleteRows(V, rest[p].keys))
    BY <1>13 DEF EndDelete, V
  <2> QED BY <1>0, <2>1, DeletionTypes, SyncStatementTypes
<1>14. CASE Fails(p) \/ Crash(p)
  <2>1. Leaves(p, None, {}) /\ UNCHANGED <<calls, acked, now, uses>>
    BY <1>14 DEF Fails, Crash
  <2>2. UNCHANGED fileVars \/ Undo(p)
    BY <1>14 DEF Fails, Crash
  <2>3. SyncTypeOK'
    BY <2>1, LeavesTypes DEF SyncTypeOK
  <2>4. FileOK'
    BY <2>1, <2>2, ProcessesAssumption DEF FileOK, Undo, fileVars
  <2> QED BY <2>3, <2>4
<1>15. ASSUME NEW k \in Keys,
              \/ DeleteRow(p, k) \/ GetCleansUp(p, k) \/ GetSelects(p, k) \/ Persist(p, k)
              \/ SetStores(p, k, Text, None)
              \/ \E ttl \in Ttls : Expire(p, k, ttl)
              \/ \E ttl \in TtlsOf(k) :
                   \/ SetStores(p, k, 0, ttl) \/ GetOrSetStores(p, k, ttl)
                   \/ Incr(p, k, ttl) \/ CommitFails(p, k, ttl)
              \/ \E T \in SUBSET Tags \ {{}} : AddTags(p, k, T)
       PROVE  FileOK' /\ SyncTypeOK'
  <2>1. CASE \E ttl \in TtlsOf(k) : SetStores(p, k, 0, ttl)
    BY <1>0, <1>3, <2>1
  <2> QED BY <1>1, <1>2, <1>3, <1>4, <1>5, <1>7, <1>8, <1>9, <1>15, <2>1
<1> QED BY <1>10, <1>11, <1>12, <1>13, <1>14, <1>15 DEF SyncStep

\* A step of c leaves the calls of the others: it ends its call, or goes on.
LEMMA CallTypes ==
  ASSUME LockInv, CallsOK, NEW c \in Coroutines, NEW place, now' = now,
         pc' = [pc EXCEPT ![c] = place], op' = [op EXCEPT ![c] = op'[c]],
         op'[c] \in Call \union {None}, place # "idle" => op'[c] \in Call,
         place = "write" /\ op'[c].use = "incr" => Addable(op'[c].row)
  PROVE  CallsOK'
<1>1. pc'[c] = place /\ \A e \in Coroutines \ {c} : pc'[e] = pc[e] /\ op'[e] = op[e]
  BY DEF LockInv, Holding, Shape
<1>2. \A row : Addable(row)' <=> Addable(row)
  BY DEF Addable, Expired
<1> QED BY <1>1, <1>2 DEF CallsOK, Counts

LEMMA FinishTypes ==
  ASSUME LockInv, CallsOK, NEW c \in Coroutines, now' = now, Finish(c)
  PROVE  CallsOK'
<1>1. op' = [op EXCEPT ![c] = op'[c]] /\ op'[c] = None
  BY DEF LockInv, Holding, Shape, Finish
<1> QED BY <1>1, CallTypes DEF Finish

LEMMA GotoTypes ==
  ASSUME LockInv, CallsOK, NEW c \in Coroutines, NEW place, now' = now, Goto(c, place),
         pc[c] # "idle", place # "write"
  PROVE  CallsOK'
<1>1. op' = [op EXCEPT ![c] = op'[c]] /\ op'[c] = op[c] /\ op[c] \in Call
  BY DEF LockInv, Holding, Shape, Goto, CallsOK
<1> QED BY <1>1, CallTypes DEF Goto

\* A call that takes a connection.
LEMMA ConnTypes ==
  ASSUME LockInv, CallsOK, NEW c \in Coroutines, NEW place, now' = now, pc[c] # "idle",
         NEW n \in Nat, place # "write", NEW m \in Methods,
         pc' = [pc EXCEPT ![c] = place],
         op' = [op EXCEPT ![c] = [op[c] EXCEPT !.use = m, !.conn = n]]
  PROVE  CallsOK'
<1>1. op[c] \in Call
  BY DEF CallsOK
<1>2. op'[c] = [op[c] EXCEPT !.use = m, !.conn = n]
  BY DEF LockInv, Holding, Shape
<1>3. op'[c] \in Call
  <2>1. op[c] = [use |-> op[c].use, key |-> op[c].key, tags |-> op[c].tags, ttl |-> op[c].ttl,
                 row |-> op[c].row, found |-> op[c].found, conn |-> op[c].conn]
    BY <1>1 DEF Call
  <2>2. op'[c] = [use |-> m, key |-> op[c].key, tags |-> op[c].tags, ttl |-> op[c].ttl,
                  row |-> op[c].row, found |-> op[c].found, conn |-> n]
    <3> DEFINE one == [op[c] EXCEPT !.use = m]
    <3>1. one = [use |-> m, key |-> op[c].key, tags |-> op[c].tags, ttl |-> op[c].ttl,
                 row |-> op[c].row, found |-> op[c].found, conn |-> op[c].conn]
      BY <2>1
    <3>2. op'[c] = [one EXCEPT !.conn = n]
      BY <1>2, Zenon
    <3> HIDE DEF one
    <3> QED BY <3>1, <3>2
  <2> QED BY <1>1, <2>2 DEF Call
<1>4. op' = [op EXCEPT ![c] = op'[c]]
  BY <1>2
<1> QED BY <1>3, <1>4, CallTypes

\* The statements of a coroutine outside transactions, and the beginning of its calls.
LEMMA OutsideTypes ==
  ASSUME LockInv, TypeInv, NEW c \in Coroutines,
         \/ TakesLockToConnect(c) \/ Opens(c) \/ Connected(c) \/ ConnectFails(c) \/ SetUpFails(c)
         \/ CleansUp(c) \/ Selects(c) \/ Computes(c) \/ Stores(c)
         \/ DeletesRows(c) \/ DeletesTags(c) \/ ChangesExpiry(c) \/ Invokes(c)
  PROVE  FileOK' /\ CallsOK'
<1> USE DEF TypeInv
<1>0. /\ DB \in Database
      /\ pc[c] # "idle" => op[c] \in Call /\ op[c].key \in Keys /\ op[c].ttl \in Ttls \union {None}
                          /\ op[c].use \in Methods
      /\ conn \in Nat /\ made + 1 \in Nat
      /\ \A m : Start(m) # "write"
  BY ViewTypes DEF DB, CallsOK, Call, LockInv, ConnectionCounted, Start
<1>1. ASSUME UNCHANGED <<fileVars, acked, unsure, now, uses>> PROVE FileOK'
  BY <1>1 DEF FileOK, fileVars
<1>3. CASE TakesLockToConnect(c)
  <2>1. CASE conn # 0
    <3>1. pc' = [pc EXCEPT ![c] = Start(op[c].use)] /\ op' = [op EXCEPT ![c].conn = conn] /\ pc[c] = "connect"
      BY <1>3, <2>1 DEF TakesLockToConnect
    <3>2. op' = [op EXCEPT ![c] = [op[c] EXCEPT !.use = op[c].use, !.conn = conn]]
      BY <1>0, <3>1 DEF Call
    <3> QED BY <1>0, <1>1, <1>3, <3>1, <3>2, ConnTypes DEF TakesLockToConnect
  <2>2. CASE conn = 0
    BY <1>1, <1>3, <2>2, GotoTypes DEF TakesLockToConnect
  <2> QED BY <2>1, <2>2
<1>4. CASE Opens(c)
  <2>1. pc' = [pc EXCEPT ![c] = "setup"] /\ op' = [op EXCEPT ![c].conn = made + 1]
        /\ pc[c] = "connecting" /\ now' = now
    BY <1>4 DEF Opens
  <2>2. op' = [op EXCEPT ![c] = [op[c] EXCEPT !.use = op[c].use, !.conn = made + 1]]
    BY <1>0, <2>1 DEF Call
  <2>3. CallsOK'
    BY <1>0, <2>1, <2>2, ConnTypes
  <2> QED BY <1>1, <1>4, <2>3 DEF Opens
<1>5. CASE Connected(c)
  BY <1>0, <1>1, <1>5, GotoTypes DEF Connected
<1>2. CASE ConnectFails(c) \/ SetUpFails(c)
  BY <1>1, <1>2, FinishTypes DEF ConnectFails, SetUpFails, FinishLocked
<1>6. ASSUME NEW place, NEW d \in Database, Statement(c, place, d), UNCHANGED <<acked, unsure>>
      PROVE  FileOK' /\ now' = now /\ pc[c] = place
  BY <1>6, ExecuteTypes DEF Statement
<1>7. CASE CleansUp(c)
  <2>1. pc[c] = "cleanup"
    BY <1>7 DEF CleansUp, Statement
  <2>2. Cleanup(DB, op[c].key) \in Database
    BY <1>0, <2>1, StatementTypes
  <2> QED BY <1>6, <1>7, <2>1, <2>2, GotoTypes DEF CleansUp
<1>8. CASE Selects(c)
  BY <1>1, <1>8, FinishTypes, GotoTypes DEF Selects
<1>9. CASE Computes(c)
  <2>1. op' = [op EXCEPT ![c].use = "set", ![c].conn = conn] /\ pc[c] = "compute"
    BY <1>9 DEF Computes
  <2>2. op' = [op EXCEPT ![c] = [op[c] EXCEPT !.use = "set", !.conn = conn]]
    <3> DEFINE one == [op EXCEPT ![c].use = "set"]
    <3>1. /\ one = [op EXCEPT ![c] = [op[c] EXCEPT !.use = "set"]]
          /\ op' = [one EXCEPT ![c] = [one[c] EXCEPT !.conn = conn]]
      BY <2>1
    <3>2. op = [e \in Coroutines |-> op[e]]
      BY DEF LockInv, Holding, Shape
    <3>3. one[c] = [op[c] EXCEPT !.use = "set"]
      BY <3>1, <3>2
    <3> HIDE DEF one
    <3> QED BY <3>1, <3>2, <3>3
  <2>3. CallsOK'
    <3> DEFINE place == IF conn = 0 THEN "connect" ELSE "store"
    <3>1. "set" \in Methods /\ place # "write" /\ pc[c] # "idle"
      BY <2>1 DEF Methods
    <3>2. pc' = [pc EXCEPT ![c] = place] /\ now' = now
      BY <1>9 DEF Computes
    <3> HIDE DEF place
    <3> QED BY <1>0, <2>2, <3>1, <3>2, ConnTypes
  <2> QED BY <1>1, <1>9, <2>3 DEF Computes
<1>10. CASE Stores(c)
  <2>1. pc[c] = "store"
    BY <1>10 DEF Stores, Statement
  <2>2. \A v \in {0, Text} : Upsert(DB, op[c].key, v, Deadline(op[c].ttl)) \in Database
    BY <1>0, <2>1, StatementTypes
  <2> QED BY <1>6, <1>10, <2>2, FinishTypes DEF Stores
<1>11. CASE DeletesRows(c) \/ DeletesTags(c)
  <2>1. DeleteRows(DB, Scope(c)) \in Database /\ DeleteTagsOf(DB, Scope(c)) \in Database
    BY <1>0, DeletionTypes
  <2>2. FileOK' /\ now' = now /\ pc[c] \in {"rows", "tags"}
    BY <1>6, <1>11, <2>1 DEF DeletesRows, DeletesTags
  <2> QED BY <1>11, <2>2, FinishTypes, GotoTypes DEF DeletesRows, DeletesTags
<1>12. CASE ChangesExpiry(c)
  <2>1. pc[c] = "expiry"
    BY <1>12 DEF ChangesExpiry, Statement
  <2>2. ClearExpiry(DB, op[c].key) \in Database /\ SetExpiry(DB, op[c].key, Deadline(op[c].ttl)) \in Database
    BY <1>0, <2>1, StatementTypes
  <2> QED BY <1>6, <1>12, <2>2, FinishTypes DEF ChangesExpiry
<1>13. CASE Invokes(c)
  <2>0. PICK k \in Keys : \E m \in uses[k] \ {"ttl"}, T \in SUBSET Tags, ttl \in TtlsOf(k) \union Ttls :
          Invoke(c, m, k, T, ttl)
    BY <1>13 DEF Invokes
  <2>1. PICK m \in uses[k] \ {"ttl"}, T \in SUBSET Tags, ttl \in TtlsOf(k) \union Ttls :
          Invoke(c, m, k, T, ttl)
    BY <2>0
  <2> DEFINE r == [use |-> m, key |-> k, tags |-> T, ttl |-> ttl, row |-> None, found |-> {}, conn |-> conn]
  <2>2. m \in Methods /\ ttl \in Ttls \union {None}
    BY <2>1 DEF FileOK, TtlsOf
  <2>3. r \in Call
    BY <1>0, <2>2 DEF Call
  <2>4. /\ op' = [op EXCEPT ![c] = r] /\ now' = now
        /\ pc' = [pc EXCEPT ![c] = IF conn = 0 THEN "connect" ELSE Start(m)]
        /\ UNCHANGED <<fileVars, acked, unsure, uses, conn, made>>
    BY <2>1 DEF Invoke
  <2> HIDE DEF r
  <2>5. op'[c] = r
    BY <2>4 DEF LockInv, Holding, Shape
  <2> QED BY <1>0, <1>1, <2>3, <2>4, <2>5, CallTypes
<1> QED BY <1>2, <1>3, <1>4, <1>5, <1>7, <1>8, <1>9, <1>10, <1>11, <1>12, <1>13

\* The statements of a transaction.
LEMMA InsideTypes ==
  ASSUME LockInv, TypeInv, NEW c \in Coroutines,
         \/ TakesLock(c) \/ Begins(c) \/ Reads(c) \/ Writes(c)
         \/ FindsTagged(c) \/ DropsRows(c) \/ DropsTags(c) \/ Commits(c) \/ RollsBack(c)
         \/ StatementFails(c) \/ Cancelled(c)
  PROVE  FileOK' /\ CallsOK'
<1> USE DEF TypeInv
<1>0. /\ DB \in Database
      /\ pc[c] # "idle" => op[c] \in Call /\ op[c].key \in Keys /\ op[c].ttl \in Ttls \union {None}
                          /\ op[c].tags \in SUBSET Tags
      /\ op = [e \in Coroutines |-> op[e]]
  BY ViewTypes DEF DB, CallsOK, Call, LockInv, Holding, Shape
<1>1. ASSUME UNCHANGED <<fileVars, acked, unsure, now, uses>> PROVE FileOK'
  BY <1>1 DEF FileOK, fileVars
<1>3. ASSUME NEW place, NEW d \in Database, Statement(c, place, d), UNCHANGED <<acked, unsure>>
      PROVE  FileOK' /\ now' = now /\ pc[c] = place
  BY <1>3, ExecuteTypes DEF Statement
<1>4. ASSUME Abandons(c), now' = now, pc[c] # "idle" PROVE CallsOK'
  BY <1>4, FinishTypes, GotoTypes DEF Abandons
<1>5. ASSUME Open(Loop) \/ Keep(Loop) \/ Undo(Loop), UNCHANGED <<now, uses>>,
             acked' \in [Keys -> Nat], unsure' \in [Keys -> Nat]
      PROVE  FileOK'
  BY <1>5, ProcessesAssumption DEF FileOK, Open, Keep, Undo
<1>6. CASE TakesLock(c)
  BY <1>1, <1>6, GotoTypes DEF TakesLock
<1>7. CASE Begins(c)
  BY <1>5, <1>7, GotoTypes DEF Begins, FileOK
<1>8. CASE Reads(c)
  <2> DEFINE row == DB.rows[op[c].key]
             place == IF op[c].use = "incr" /\ NoInteger(row) THEN "rollback"
                      ELSE IF op[c].use = "add_tags" /\ row = None THEN "commit" ELSE "write"
  <2>1. pc[c] = "read" /\ op' = [op EXCEPT ![c].row = row] /\ pc' = [pc EXCEPT ![c] = place]
    BY <1>8 DEF Reads
  <2>2. row \in Row \union {None} /\ (~NoInteger(row) => Addable(row))
    BY <1>0, <2>1, NoTextIsAddable DEF Database
  <2>3. place = "write" /\ op[c].use = "incr" => ~NoInteger(row)
    OBVIOUS
  <2> HIDE DEF row, place
  <2>4. op'[c] = [op[c] EXCEPT !.row = row] /\ op' = [op EXCEPT ![c] = op'[c]]
    BY <1>0, <2>1
  <2>5. op'[c] \in Call /\ op'[c].row = row /\ op'[c].use = op[c].use
    BY <1>0, <2>1, <2>2, <2>4 DEF Call
  <2>6. CallsOK'
    BY <1>8, <2>1, <2>2, <2>3, <2>4, <2>5, CallTypes DEF Reads
  <2> QED BY <1>1, <1>8, <2>6 DEF Reads
<1>9. CASE Writes(c)
  <2>1. pc[c] = "write"
    BY <1>9 DEF Writes, Statement
  <2>2. op[c].use = "incr" => AddOne(DB, op[c].key, op[c].row, op[c].ttl) \in Database
    BY <1>0, <2>1, AddOneTypes DEF CallsOK, Counts
  <2>3. InsertTags(DB, op[c].key, op[c].tags) \in Database
    BY <1>0, <2>1, StatementTypes
  <2> QED BY <1>3, <1>9, <2>1, <2>2, <2>3, GotoTypes DEF Writes
<1>10. CASE FindsTagged(c)
  <2> DEFINE K == TaggedKeys(DB, op[c].tags)
             place == IF K = {} THEN "drop_tags" ELSE "drop_rows"
  <2>1. pc[c] = "find" /\ op' = [op EXCEPT ![c].found = K] /\ pc' = [pc EXCEPT ![c] = place]
    BY <1>10 DEF FindsTagged
  <2>2. K \in SUBSET Keys /\ place \notin {"idle", "write"}
    BY DEF TaggedKeys
  <2> HIDE DEF K, place
  <2>3. op'[c] = [op[c] EXCEPT !.found = K] /\ op' = [op EXCEPT ![c] = op'[c]]
    BY <1>0, <2>1
  <2>4. op'[c] \in Call
    BY <1>0, <2>1, <2>2, <2>3 DEF Call
  <2>5. CallsOK'
    BY <1>10, <2>1, <2>2, <2>3, <2>4, CallTypes DEF FindsTagged
  <2> QED BY <1>1, <1>10, <2>5 DEF FindsTagged
<1>11. CASE DropsRows(c) \/ DropsTags(c)
  <2>1. /\ DeleteRows(DB, op[c].found) \in Database
        /\ DeleteTags(DeleteTagsOf(DB, op[c].found), op[c].tags) \in Database
    BY <1>0, DeletionTypes
  <2>2. FileOK' /\ now' = now /\ pc[c] \in {"drop_rows", "drop_tags"}
    BY <1>3, <1>11, <2>1 DEF DropsRows, DropsTags
  <2> QED BY <1>11, <2>2, GotoTypes DEF DropsRows, DropsTags
<1>12. CASE Commits(c)
  <2>1. acked' \in [Keys -> Nat] /\ unsure' \in [Keys -> Nat]
    BY <1>0, <1>12 DEF Commits, FileOK
  <2> QED BY <1>5, <1>12, <2>1, FinishTypes DEF Commits, FinishLocked
<1>13. CASE RollsBack(c)
  <2>1. acked' \in [Keys -> Nat] /\ unsure' \in [Keys -> Nat]
    BY <1>13 DEF RollsBack, FileOK
  <2>2. FileOK'
    BY <1>1, <1>5, <1>13, <2>1 DEF RollsBack
  <2> QED BY <1>13, <2>2, FinishTypes DEF RollsBack, FinishLocked
<1>14. CASE StatementFails(c)
  BY <1>1, <1>4, <1>14 DEF StatementFails
<1>15. CASE Cancelled(c)
  <2>1. Abandons(c) /\ pc[c] # "idle" /\ UNCHANGED <<acked, now, uses>>
    BY <1>15 DEF Cancelled
  <2>2. \/ UNCHANGED <<fileVars, unsure>>
        \/ Open(Loop) /\ UNCHANGED unsure
        \/ /\ Keep(Loop)
           /\ unsure' = IF Counts(c) THEN [unsure EXCEPT ![op[c].key] = @ + 1] ELSE unsure
    BY <1>15 DEF Cancelled
  <2>3. unsure' \in [Keys -> Nat] /\ acked' \in [Keys -> Nat]
    BY <1>0, <2>1, <2>2 DEF FileOK
  <2>4. FileOK'
    BY <1>1, <1>5, <2>1, <2>2, <2>3
  <2> QED BY <1>4, <2>1, <2>4
<1> QED BY <1>6, <1>7, <1>8, <1>9, <1>10, <1>11, <1>12, <1>13, <1>14, <1>15

\* Every step keeps the types.
LEMMA TypeNext ==
  ASSUME LockInv, TypeInv, [Next]_vars PROVE TypeInv'
<1> USE DEF TypeInv
<1>1. CASE \E p \in Processes : SyncStep(p) /\ UNCHANGED <<asyncVars, unsure>>
  <2>1. FileOK' /\ SyncTypeOK'
    BY <1>1, SyncTypes
  <2>2. UNCHANGED asyncVars /\ now' = now
    <3>1. PICK p \in Processes : SyncStep(p) /\ UNCHANGED <<asyncVars, unsure>>
      BY <1>1
    <3>2. now' = now
      BY <3>1 DEF SyncStep, DeleteRow, GetCleansUp, GetSelects, Persist, SetStores, Expire,
                  GetOrSetStores, Incr, CommitFails, AddTags, InvalidateTags, ClearNamespace, ClearAll,
                  EndDelete, Fails, Crash, Single, First, Second, Transact
    <3> QED BY <3>1, <3>2
  <2>3. CallsOK'
    BY <2>2, CallsStay DEF asyncVars
  <2> QED BY <2>1, <2>3
<1>2. ASSUME UNCHANGED syncVars PROVE SyncTypeOK'
  BY <1>2 DEF SyncTypeOK, syncVars
<1>3. CASE AsyncNext /\ UNCHANGED syncVars
  <2>1. ASSUME NEW c \in Coroutines, AsyncStep(c) \/ Invokes(c) \/ Cancelled(c)
        PROVE  FileOK' /\ CallsOK'
    BY <2>1, OutsideTypes, InsideTypes DEF AsyncStep
  <2>2. ASSUME Close PROVE FileOK' /\ CallsOK'
    <3>1. FileOK'
      BY <2>2, ProcessesAssumption DEF Close, FileOK, Undo
    <3>2. CallsOK'
      BY <2>2, CallsStay DEF Close
    <3> QED BY <3>1, <3>2
  <2> QED BY <1>2, <1>3, <2>1, <2>2 DEF AsyncNext
<1>4. CASE LoopCrash
  <2>1. FileOK'
    BY <1>4, ProcessesAssumption DEF LoopCrash, FileOK, Undo
  <2>2. CallsOK'
    BY <1>4 DEF LoopCrash, CallsOK
  <2> QED BY <1>2, <1>4, <2>1, <2>2 DEF LoopCrash
<1>5. CASE Tick
  <2>1. FileOK'
    BY <1>5 DEF Tick, FileOK, fileVars
  <2>2. CallsOK'
    BY <1>5, CallsStay DEF Tick, asyncVars
  <2> QED BY <1>2, <1>5, <2>1, <2>2 DEF Tick, asyncVars
<1>6. CASE UNCHANGED vars
  BY <1>2, <1>6, CallsStay DEF vars, fileVars, asyncVars, FileOK
<1> QED BY <1>1, <1>3, <1>4, <1>5, <1>6 DEF Next, AllDone

\* The database the processes share, the calls and the connections are well
\* typed in every state; incr never adds to text.
THEOREM TypesAreKept == Spec => []TypeOK
<1>1. LockInv /\ TypeInv /\ [Next]_vars => TypeInv'
  BY TypeNext
<1>2. LockInv /\ TypeInv => TypeOK
  <2> SUFFICES ASSUME LockInv, TypeInv PROVE TypeOK
    OBVIOUS
  <2>1. {conn, conns, made, left} \subseteq 0..MaxConns
    BY ProcessesAssumption DEF LockInv, ConnectionCounted
  <2>2. op \in [Coroutines -> Call \union {None}]
    BY DEF LockInv, Holding, Shape, TypeInv, CallsOK
  <2> QED BY <2>1, <2>2 DEF TypeOK, TypeInv, FileOK, AsyncTypeOK, LockInv, Holding, Shape
<1> QED BY <1>1, <1>2, TypeInit, LockAlways, PTL DEF Spec
=============================================================================
