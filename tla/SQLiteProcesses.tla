-------------------------- MODULE SQLiteProcesses ---------------------------
(***************************************************************************)
(* One SQLite file used by processes with a SQLiteCache each and by a      *)
(* process whose coroutines share an AsyncSQLiteCache.                     *)
(***************************************************************************)
EXTENDS SQLiteCache, AsyncSQLiteCache

ASSUME ProcessesAssumption ==
  /\ Loop \notin Processes
  /\ None \notin Processes \union {Loop} \union Coroutines \union Nat
  /\ None \notin Row
  /\ CancelAt \subseteq Places
  /\ MaxCalls \in Nat /\ MaxConns \in Nat

vars == <<fileVars, now, uses, acked, syncVars, asyncVars, unsure>>

Init == FileInit /\ SyncInit /\ AsyncInit

\* The process of the loop ends and starts anew.
LoopCrash ==
  /\ "crash" \in Faults
  /\ \E c \in Coroutines : pc[c] # "idle"
  /\ Undo(Loop)
  /\ pc' = [c \in Coroutines |-> "idle"]
  /\ op' = [c \in Coroutines |-> None]
  /\ lock' = None /\ conn' = 0 /\ conns' = 0 /\ left' = 0
  /\ UNCHANGED <<made, tasks, acked, unsure, now, uses, syncVars>>

Tick == /\ now < MaxTime
        /\ now' = now + 1
        /\ UNCHANGED <<fileVars, uses, acked, syncVars, asyncVars, unsure>>

\* The bounds stop the system once every call has ended.
AllDone == /\ \A p \in Processes : calls[p] = MaxCalls /\ rest[p] = None
           /\ \A c \in Coroutines : tasks[c] = MaxTasks /\ pc[c] = "idle"
           /\ UNCHANGED vars

Next ==
  \/ \E p \in Processes : SyncStep(p) /\ UNCHANGED <<asyncVars, unsure>>
  \/ AsyncNext /\ UNCHANGED syncVars
  \/ LoopCrash \/ Tick \/ AllDone

\* The loop runs every coroutine whose await has ended, the asyncio lock is
\* first come first served, and a statement ends at its busy timeout at the latest.
Fairness == \A c \in Coroutines : /\ WF_vars(AsyncStep(c) /\ UNCHANGED syncVars)
                                  /\ SF_vars((TakesLock(c) \/ TakesLockToConnect(c)) /\ UNCHANGED syncVars)

Spec     == Init /\ [][Next]_vars
FairSpec == Spec /\ Fairness
-----------------------------------------------------------------------------
(* Properties *)

\* Every variable keeps its type, and the uncommitted database exists while a
\* transaction is open.
TypeOK == /\ db \in Database
          /\ writer \in Processes \union {Loop, None}
          /\ IF writer = None THEN work = None ELSE work \in Database
          /\ now \in Nat /\ acked \in [Keys -> Nat]
          /\ SyncTypeOK /\ AsyncTypeOK

\* A transaction open on the connection the coroutines share belongs to the
\* coroutine that holds the lock and is about to end it, on every path of
\* failure and cancellation: otherwise nobody ever ends it, what the other
\* coroutines store is never committed, and no other process can write.
LockOwnsTransaction == writer = Loop => lock # None /\ pc[lock] \in TxBody

\* The lock is free or held by a coroutine in the region the lock guards.
LockIsHeld == \A c \in Coroutines : pc[c] \in Locked <=> lock = c

\* Coroutines that start together share one connection: besides it only those
\* are open that a call left when setting them up failed or was cancelled.
OneConnection == conns <= 1 + left

\* A counter that is only incremented counts each acknowledged increment once,
\* and one that was cancelled while it was committed at most once, whatever
\* processes, coroutines, crashes and rollbacks come in between.
CountersAddUp ==
  \A k \in Keys : uses[k] = {"incr"} =>
    LET count == IF db.rows[k] = None THEN 0 ELSE db.rows[k].val IN
    /\ acked[k] <= count
    /\ count <= acked[k] + unsure[k]

\* Tags of a key that is only stored, tagged and invalidated lead to a row:
\* tagging and invalidation are never half done in what is committed.
TagsHaveRows ==
  \A k \in Keys : uses[k] \subseteq {"set", "store_text", "get", "add_tags", "invalidate_tags"} =>
    \A t \in Tags : <<t, k>> \in db.tags => db.rows[k] # None

\* Every call of a coroutine ends, and gives the lock back.
CallsEnd == \A c \in Coroutines : (pc[c] # "idle") ~> (pc[c] = "idle")
=============================================================================
