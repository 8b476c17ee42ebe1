-------------------------- MODULE AsyncSQLiteCache --------------------------
(***************************************************************************)
(* AsyncSQLiteCache (cachine/backends/sqlite/async_.py): one object used   *)
(* by the coroutines of one event loop.  They share one connection, so a   *)
(* statement of any of them runs inside a transaction that one of them has *)
(* open; the asyncio lock is taken by the methods that open transactions   *)
(* and while the connection is made, by no other.  Each statement is an    *)
(* await, where other coroutines run and where the call can be cancelled:  *)
(* the worker thread then still runs the statement it was given.           *)
(***************************************************************************)
EXTENDS SQLiteFile

CONSTANTS
  Coroutines,
  Loop,         \* the name of the loop's connection
  CancelAt,     \* the places where a call may be cancelled
  MaxTasks,     \* bound: calls a coroutine makes
  MaxConns      \* bound: times the connection is made

VARIABLES
  pc,      \* the statement each coroutine awaits next
  op,      \* the call it is in: [use, key, tags, row, conn, ttl], or None
  lock,    \* the coroutine that holds the asyncio lock, or None
  conn,    \* the number of the connection self._conn, 0 for None
  conns,   \* how many connections were made and not closed
  made,    \* how many were made
  left,    \* how many were left open by a call that failed or was cancelled while it set them up
  tasks,   \* bound: how many calls each coroutine has made
  unsure   \* history: increments that were committed in a call that was cancelled

asyncVars == <<pc, op, lock, conn, conns, made, left, tasks>>

\* Where a coroutine may be once it holds the lock of a transaction.
TxBody == {"read", "write", "find", "drop_rows", "drop_tags", "commit", "rollback"}
Locked == TxBody \union {"begin", "connecting", "setup"}
Places == Locked \union {"idle", "connect", "cleanup", "select", "compute", "store", "rows",
                         "tags", "expiry", "lock"}

Call == [use : Methods, key : Keys, tags : SUBSET Tags, ttl : Ttls \union {None},
         row : Row \union {None}, found : SUBSET Keys, conn : Nat]

AsyncTypeOK ==
  /\ pc \in [Coroutines -> Places]
  /\ op \in [Coroutines -> Call \union {None}]
  /\ lock \in Coroutines \union {None}
  /\ conn \in 0..MaxConns /\ conns \in 0..MaxConns /\ made \in 0..MaxConns /\ left \in 0..MaxConns
  /\ unsure \in [Keys -> Nat]

AsyncInit ==
  /\ pc = [c \in Coroutines |-> "idle"]
  /\ op = [c \in Coroutines |-> None]
  /\ lock = None
  /\ conn = 0 /\ conns = 0 /\ made = 0 /\ left = 0
  /\ tasks = [c \in Coroutines |-> 0]
  /\ unsure = [k \in Keys |-> 0]
-----------------------------------------------------------------------------
Goto(c, place) == pc' = [pc EXCEPT ![c] = place] /\ UNCHANGED op

\* The call ends: it returns or raises.
Finish(c) == pc' = [pc EXCEPT ![c] = "idle"] /\ op' = [op EXCEPT ![c] = None]

\* It ends and `async with self._lock` gives the lock back.
FinishLocked(c) == Finish(c) /\ lock' = None

\* The first statement of a method.
Start(m) ==
  CASE m \in {"get", "get_or_set"} -> "cleanup"
    [] m \in {"set", "store_text"} -> "store"
    [] m \in {"delete", "clear_all"} -> "rows"
    [] m = "clear" -> "tags"
    [] m \in {"expire", "persist"} -> "expiry"
    [] OTHER -> "lock"

\* The rows a delete or a clear removes.
Scope(c) == IF op[c].use = "clear" THEN Use("clear")
            ELSE IF op[c].use = "clear_all" THEN Keys ELSE {op[c].key}

\* A statement of c on the connection it took, with the database it leaves.
Statement(c, place, d) ==
  /\ pc[c] = place
  /\ op[c].conn = conn
  /\ Execute(Loop, d)
  /\ UNCHANGED <<conn, conns, made, left, tasks, now, uses>>

DB == View(Loop)

Invoke(c, m, k, T, ttl) ==
  /\ pc[c] = "idle" /\ tasks[c] < MaxTasks
  /\ k \in Use(m) /\ (m = "clear_all" => Use(m) = Keys)
  /\ m \notin {"add_tags", "invalidate_tags"} => T = {}
  /\ m \in {"add_tags", "invalidate_tags"} => T # {}
  /\ m \notin {"set", "get_or_set", "expire", "incr"} => ttl = None
  /\ m = "expire" => ttl # None
  /\ m # "expire" => ttl \in TtlsOf(k)
  /\ tasks' = [tasks EXCEPT ![c] = @ + 1]
  /\ op' = [op EXCEPT ![c] = [use |-> m, key |-> k, tags |-> T, ttl |-> ttl,
                              row |-> None, found |-> {}, conn |-> conn]]
  /\ pc' = [pc EXCEPT ![c] = IF conn = 0 THEN "connect" ELSE Start(m)]
  /\ UNCHANGED <<fileVars, lock, conn, conns, made, left, acked, unsure, now, uses>>
-----------------------------------------------------------------------------
(* _ensure_conn *)

\* Mutant: self._conn is not looked at again under the lock.
ConnectsAgain(c) ==
  /\ pc[c] = "connect" /\ lock = None
  /\ lock' = c /\ Goto(c, "connecting")
  /\ UNCHANGED <<fileVars, conn, conns, made, left, tasks, acked, unsure, now, uses>>

\* The lock is free: if there is a connection by now it is used.
TakesLockToConnect(c) ==
  /\ pc[c] = "connect" /\ lock = None
  /\ IF conn # 0
     THEN /\ pc' = [pc EXCEPT ![c] = Start(op[c].use)]
          /\ op' = [op EXCEPT ![c].conn = conn]
          /\ UNCHANGED lock
     ELSE lock' = c /\ Goto(c, "connecting")
  /\ UNCHANGED <<fileVars, conn, conns, made, left, tasks, acked, unsure, now, uses>>

\* aiosqlite.connect has returned; the PRAGMAs and the schema are awaited next.
Opens(c) ==
  /\ pc[c] = "connecting" /\ made < MaxConns
  /\ made' = made + 1 /\ conns' = conns + 1
  /\ pc' = [pc EXCEPT ![c] = "setup"]
  /\ op' = [op EXCEPT ![c].conn = made + 1]
  /\ UNCHANGED <<fileVars, lock, conn, left, tasks, acked, unsure, now, uses>>

\* Only then is the connection remembered.
Connected(c) ==
  /\ pc[c] = "setup"
  /\ conn' = op[c].conn
  /\ lock' = None
  /\ Goto(c, Start(op[c].use))
  /\ UNCHANGED <<fileVars, conns, made, left, tasks, acked, unsure, now, uses>>

\* aiosqlite.connect raises.
ConnectFails(c) ==
  /\ pc[c] = "connecting" /\ ("busy" \in Faults \/ made = MaxConns)
  /\ FinishLocked(c)
  /\ UNCHANGED <<fileVars, conn, conns, made, left, tasks, acked, unsure, now, uses>>

\* A PRAGMA, but journal_mode, or the schema fails: nobody closes the connection.
SetUpFails(c) ==
  /\ pc[c] = "setup" /\ "busy" \in Faults
  /\ FinishLocked(c)
  /\ left' = left + 1
  /\ UNCHANGED <<fileVars, conn, conns, made, tasks, acked, unsure, now, uses>>
-----------------------------------------------------------------------------
(* Methods without a transaction *)

CleansUp(c) == /\ Statement(c, "cleanup", Cleanup(DB, op[c].key))
               /\ Goto(c, "select")
               /\ UNCHANGED <<lock, acked, unsure>>

Selects(c) ==
  /\ pc[c] = "select" /\ op[c].conn = conn
  /\ IF op[c].use = "get_or_set" /\ DB.rows[op[c].key] = None
     THEN Goto(c, "compute") ELSE Finish(c)
  /\ UNCHANGED <<fileVars, lock, conn, conns, made, left, tasks, acked, unsure, now, uses>>

\* The factory has returned; set looks for the connection again.
Computes(c) ==
  /\ pc[c] = "compute"
  /\ pc' = [pc EXCEPT ![c] = IF conn = 0 THEN "connect" ELSE "store"]
  /\ op' = [op EXCEPT ![c].use = "set", ![c].conn = conn]
  /\ UNCHANGED <<fileVars, lock, conn, conns, made, left, tasks, acked, unsure, now, uses>>

Stores(c) ==
  /\ Statement(c, "store", Upsert(DB, op[c].key, IF op[c].use = "store_text" THEN Text ELSE 0,
                                  Deadline(op[c].ttl)))
  /\ Finish(c)
  /\ UNCHANGED <<lock, acked, unsure>>

\* delete removes the row and then its tags, clear(all=True) likewise ...
DeletesRows(c) ==
  /\ Statement(c, "rows", DeleteRows(DB, Scope(c)))
  /\ IF op[c].use = "clear" THEN Finish(c) ELSE Goto(c, "tags")
  /\ UNCHANGED <<lock, acked, unsure>>

\* ... and the clear of a namespace the tags before the rows.
DeletesTags(c) ==
  /\ Statement(c, "tags", DeleteTagsOf(DB, Scope(c)))
  /\ IF op[c].use = "clear" THEN Goto(c, "rows") ELSE Finish(c)
  /\ UNCHANGED <<lock, acked, unsure>>

ChangesExpiry(c) ==
  /\ Statement(c, "expiry", IF op[c].use = "persist" THEN ClearExpiry(DB, op[c].key)
                            ELSE SetExpiry(DB, op[c].key, Deadline(op[c].ttl)))
  /\ Finish(c)
  /\ UNCHANGED <<lock, acked, unsure>>
-----------------------------------------------------------------------------
(* Transactions: incr, add_tags, invalidate_tags *)

\* Mutant: the methods of a transaction do not take the lock.
TakesLockNever(c) ==
  /\ pc[c] = "lock"
  /\ lock' = c /\ Goto(c, "begin")
  /\ UNCHANGED <<fileVars, conn, conns, made, left, tasks, acked, unsure, now, uses>>

TakesLock(c) ==
  /\ pc[c] = "lock" /\ lock = None
  /\ lock' = c /\ Goto(c, "begin")
  /\ UNCHANGED <<fileVars, conn, conns, made, left, tasks, acked, unsure, now, uses>>

Begins(c) ==
  /\ pc[c] = "begin" /\ op[c].conn = conn
  /\ Open(Loop)
  /\ Goto(c, IF op[c].use = "invalidate_tags" THEN "find" ELSE "read")
  /\ UNCHANGED <<lock, conn, conns, made, left, tasks, acked, unsure, now, uses>>

\* SELECT by incr and add_tags. incr raises inside the try block if the value
\* is no integer; add_tags commits at once if there is no row.
Reads(c) ==
  LET row == DB.rows[op[c].key] IN
  /\ pc[c] = "read" /\ op[c].conn = conn
  /\ op' = [op EXCEPT ![c].row = row]
  /\ pc' = [pc EXCEPT ![c] =
              IF op[c].use = "incr" /\ NoInteger(row) THEN "rollback"
              ELSE IF op[c].use = "add_tags" /\ row = None THEN "commit" ELSE "write"]
  /\ UNCHANGED <<fileVars, lock, conn, conns, made, left, tasks, acked, unsure, now, uses>>

Writes(c) ==
  /\ Statement(c, "write",
       IF op[c].use = "incr" THEN AddOne(DB, op[c].key, op[c].row, op[c].ttl)
       ELSE InsertTags(DB, op[c].key, op[c].tags))
  /\ Goto(c, "commit")
  /\ UNCHANGED <<lock, acked, unsure>>

FindsTagged(c) ==
  LET K == TaggedKeys(DB, op[c].tags) IN
  /\ pc[c] = "find" /\ op[c].conn = conn
  /\ op' = [op EXCEPT ![c].found = K]
  /\ pc' = [pc EXCEPT ![c] = IF K = {} THEN "drop_tags" ELSE "drop_rows"]
  /\ UNCHANGED <<fileVars, lock, conn, conns, made, left, tasks, acked, unsure, now, uses>>

DropsRows(c) ==
  /\ Statement(c, "drop_rows", DeleteRows(DB, op[c].found))
  /\ Goto(c, "drop_tags")
  /\ UNCHANGED <<lock, acked, unsure>>

\* Two DELETEs, the tags of the keys and the tags asked for; a coroutine that
\* runs between them finds no statement that tells the difference.
DropsTags(c) ==
  /\ Statement(c, "drop_tags", DeleteTags(DeleteTagsOf(DB, op[c].found), op[c].tags))
  /\ Goto(c, "commit")
  /\ UNCHANGED <<lock, acked, unsure>>

Counts(c) == op[c].use = "incr"

Commits(c) ==
  /\ pc[c] = "commit" /\ op[c].conn = conn
  /\ Keep(Loop)
  /\ FinishLocked(c)
  /\ acked' = IF Counts(c) THEN [acked EXCEPT ![op[c].key] = @ + 1] ELSE acked
  /\ UNCHANGED <<conn, conns, made, left, tasks, unsure, now, uses>>

\* Mutant: the error path of a transaction leaves it open.
RollsBackNothing(c) ==
  /\ pc[c] = "rollback"
  /\ FinishLocked(c)
  /\ UNCHANGED <<fileVars, conn, conns, made, left, tasks, acked, unsure, now, uses>>

\* except BaseException: ROLLBACK, whose own failure is dropped.
RollsBack(c) ==
  /\ pc[c] = "rollback"
  /\ IF op[c].conn = conn THEN Undo(Loop) ELSE UNCHANGED fileVars
  /\ FinishLocked(c)
  /\ UNCHANGED <<conn, conns, made, left, tasks, acked, unsure, now, uses>>
-----------------------------------------------------------------------------
(* Failures *)

\* Mutant: the lock is not given back when BEGIN or connecting fails.
AbandonsHolding(c) ==
  /\ IF pc[c] \in TxBody \ {"rollback"} THEN Goto(c, "rollback") ELSE Finish(c)
  /\ UNCHANGED lock

\* A call is left at the place it awaits: an open transaction is rolled back
\* first, except by BEGIN itself, which stands before the try block.
Abandons(c) ==
  IF pc[c] \in TxBody \ {"rollback"} THEN Goto(c, "rollback") /\ UNCHANGED lock
  ELSE /\ Finish(c)
       /\ lock' = IF lock = c THEN None ELSE lock

\* A statement fails: the file is busy, the disk full, the connection closed.
StatementFails(c) ==
  /\ pc[c] \notin {"idle", "connect", "connecting", "setup", "compute", "lock", "rollback"}
  /\ \/ "busy" \in Faults /\ (pc[c] = "commit" => "commit" \in Faults)
     \/ op[c].conn # conn
     \/ ~MayWrite(Loop)
     \/ pc[c] = "begin" /\ writer # None
     \/ pc[c] = "commit" /\ writer # Loop
  /\ Abandons(c)
  /\ UNCHANGED <<fileVars, conn, conns, made, left, tasks, acked, unsure, now, uses>>

\* What a cancelled set-up leaves open: the connection it had, or the one that
\* the worker thread may yet open for it.
LeavesConnection(c) ==
  CASE pc[c] = "setup" -> left' = left + 1 /\ UNCHANGED <<conns, made>>
    [] pc[c] = "connecting" /\ made < MaxConns ->
         \/ UNCHANGED <<conns, made, left>>
         \/ left' = left + 1 /\ conns' = conns + 1 /\ made' = made + 1
    [] OTHER -> UNCHANGED <<conns, made, left>>

\* What a cancelled await leaves behind: BEGIN and COMMIT are still executed,
\* and so may be a write.
Cancelled(c) ==
  /\ pc[c] \in CancelAt \ {"idle", "rollback"}
  /\ IF op[c].conn # conn THEN UNCHANGED <<fileVars, unsure>>
     ELSE CASE pc[c] = "begin" /\ writer = None -> Open(Loop) /\ UNCHANGED unsure
            [] pc[c] = "commit" /\ writer = Loop ->
                 /\ Keep(Loop)
                 /\ unsure' = IF Counts(c) THEN [unsure EXCEPT ![op[c].key] = @ + 1] ELSE unsure
            [] OTHER -> UNCHANGED <<fileVars, unsure>>
  /\ LeavesConnection(c)
  /\ Abandons(c)
  /\ UNCHANGED <<conn, tasks, acked, now, uses>>

\* close(): the connection goes, with the transaction it has open; coroutines
\* in a call keep the closed one.
Close ==
  /\ "close" \in Faults /\ conn # 0
  /\ Undo(Loop)
  /\ conn' = 0 /\ conns' = conns - 1
  /\ UNCHANGED <<pc, op, lock, made, left, tasks, acked, unsure, now, uses>>
-----------------------------------------------------------------------------
AsyncStep(c) ==
  \/ TakesLockToConnect(c) \/ Opens(c) \/ Connected(c) \/ ConnectFails(c) \/ SetUpFails(c)
  \/ CleansUp(c) \/ Selects(c) \/ Computes(c) \/ Stores(c)
  \/ DeletesRows(c) \/ DeletesTags(c) \/ ChangesExpiry(c)
  \/ TakesLock(c) \/ Begins(c) \/ Reads(c) \/ Writes(c)
  \/ FindsTagged(c) \/ DropsRows(c) \/ DropsTags(c)
  \/ Commits(c) \/ RollsBack(c) \/ StatementFails(c)

Invokes(c) ==
  \E k \in Keys : \E m \in uses[k] \ {"ttl"}, T \in SUBSET Tags, ttl \in TtlsOf(k) \union Ttls :
    Invoke(c, m, k, T, ttl)

AsyncNext == \/ \E c \in Coroutines : AsyncStep(c) \/ Invokes(c) \/ Cancelled(c)
             \/ Close
=============================================================================
