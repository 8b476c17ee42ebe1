---------------------------- MODULE SQLiteCache -----------------------------
(***************************************************************************)
(* SQLiteCache (cachine/backends/sqlite/sync.py): one object per process,  *)
(* each with a connection of its own.  Every method holds the object's     *)
(* RLock, so the threads of a process take turns; other connections come   *)
(* in between two statements.  A method that runs in a transaction is one  *)
(* step: nobody sees it half done, and BEGIN IMMEDIATE keeps other writers *)
(* out.                                                                    *)
(***************************************************************************)
EXTENDS SQLiteFile

CONSTANTS Processes, MaxCalls

VARIABLES
  rest,    \* rest[p]: the statement p's method has still to run, or None
  calls    \* bound: how many calls each process has made

syncVars == <<rest, calls>>

SyncTypeOK ==
  /\ rest \in [Processes -> [next : {"select", "compute", "tags", "rows"}, keys : SUBSET Keys]
                            \union {None}]
  /\ calls \in [Processes -> 0..MaxCalls]

SyncInit == /\ rest = [p \in Processes |-> None]
            /\ calls = [p \in Processes |-> 0]

Starts(p) == rest[p] = None /\ calls[p] < MaxCalls /\ calls' = [calls EXCEPT ![p] = @ + 1]

Leaves(p, statement, K) ==
  rest' = [rest EXCEPT ![p] = IF statement = None THEN None ELSE [next |-> statement, keys |-> K]]

\* A method of one statement.
Single(p, d) == Starts(p) /\ Execute(p, d) /\ UNCHANGED <<rest, acked, now, uses>>

\* The first of two statements.
First(p, d, statement, K) ==
  Starts(p) /\ Execute(p, d) /\ Leaves(p, statement, K) /\ UNCHANGED <<acked, now, uses>>

\* The pending statement of p.
Second(p, statement, d) ==
  /\ rest[p] # None /\ rest[p].next = statement
  /\ Execute(p, d)
  /\ Leaves(p, None, {})
  /\ UNCHANGED <<calls, acked, now, uses>>
-----------------------------------------------------------------------------
SetStores(p, k, v, ttl) ==
  /\ k \in (IF v = Text THEN Use("store_text") ELSE Use("set"))
  /\ Single(p, Upsert(View(p), k, v, Deadline(ttl)))

\* delete, and set, expire and expire_at with a time that is over.
DeleteRow(p, k) == k \in Use("delete") /\ First(p, DeleteRows(View(p), {k}), "tags", {k})

\* Within a namespace the tags go first, with all=True the rows do.
ClearNamespace(p) == LET K == Use("clear") IN
                     K # {} /\ First(p, DeleteTagsOf(View(p), K), "rows", K)

ClearAll(p) == /\ Use("clear_all") = Keys
               /\ First(p, DeleteRows(View(p), Keys), "tags", Keys)

EndDelete(p) == rest[p] # None /\ \/ Second(p, "tags", DeleteTagsOf(View(p), rest[p].keys))
                                  \/ Second(p, "rows", DeleteRows(View(p), rest[p].keys))

\* get, exists and ttl begin by deleting the row if it has expired.
GetCleansUp(p, k) ==
  k \in Use("get") \union Use("get_or_set") /\ First(p, Cleanup(View(p), k), "select", {k})

\* Their SELECT; get_or_set goes on when there is no row.
GetSelects(p, k) ==
  /\ rest[p] = [next |-> "select", keys |-> {k}]
  /\ Leaves(p, IF k \in Use("get_or_set") /\ View(p).rows[k] = None THEN "compute" ELSE None, {k})
  /\ UNCHANGED <<fileVars, calls, acked, now, uses>>

\* The factory has returned: set, whatever the key holds by now.
GetOrSetStores(p, k, ttl) ==
  /\ rest[p] # None /\ rest[p].keys = {k}
  /\ Second(p, "compute", Upsert(View(p), k, 0, Deadline(ttl)))

Expire(p, k, ttl) == k \in Use("expire") /\ Single(p, SetExpiry(View(p), k, Deadline(ttl)))

Persist(p, k) == k \in Use("persist") /\ Single(p, ClearExpiry(View(p), k))
-----------------------------------------------------------------------------
(* Methods that run in a transaction *)

\* A transaction that commits leaves d.
Transact(p, d) ==
  Starts(p) /\ writer = None /\ db' = d /\ UNCHANGED <<writer, work, rest, now, uses>>

\* Mutant: an increment reads outside its transaction, at the last commit but one.
IncrFromZero(p, k, ttl) ==
  /\ k \in Use("incr") /\ ~NoInteger(db.rows[k])
  /\ Transact(p, AddOne(db, k, None, ttl))
  /\ acked' = [acked EXCEPT ![k] = @ + 1]

\* The ttl counts for a counter that is new or expired.
Incr(p, k, ttl) ==
  /\ k \in Use("incr") /\ ~NoInteger(db.rows[k])
  /\ Transact(p, AddOne(db, k, db.rows[k], ttl))
  /\ acked' = [acked EXCEPT ![k] = @ + 1]

\* add_tags asks whether there is a row, expired or not.
AddTags(p, k, T) ==
  /\ k \in Use("add_tags") /\ db.rows[k] # None
  /\ Transact(p, InsertTags(db, k, T))
  /\ UNCHANGED acked

\* Mutant: the rows go, their tags stay.
InvalidateRowsOnly(p, T) ==
  /\ Use("invalidate_tags") # {}
  /\ Transact(p, DeleteRows(db, TaggedKeys(db, T)))
  /\ UNCHANGED acked

InvalidateTags(p, T) ==
  LET K == TaggedKeys(db, T) IN
  /\ Use("invalidate_tags") # {}
  /\ Transact(p, DeleteTags(DeleteTagsOf(DeleteRows(db, K), K), T))
  /\ UNCHANGED acked

\* COMMIT raises out of __exit__: nothing rolls back, and the transaction
\* stays open on the connection; later BEGINs of p fail.
CommitFails(p, k, ttl) ==
  /\ "commit" \in Faults
  /\ k \in Use("incr") /\ ~NoInteger(db.rows[k])
  /\ Starts(p) /\ writer = None
  /\ writer' = p /\ work' = AddOne(db, k, db.rows[k], ttl)
  /\ UNCHANGED <<db, rest, acked, now, uses>>

\* A statement fails after the busy timeout: the method raises, and what it
\* has still to do is not done.
Fails(p) ==
  /\ rest[p] # None
  /\ "busy" \in Faults \/ ~MayWrite(p)
  /\ Leaves(p, None, {})
  /\ UNCHANGED <<fileVars, calls, acked, now, uses>>

\* The process ends, or closes its connection, and starts anew.
Crash(p) ==
  /\ "crash" \in Faults
  /\ rest[p] # None \/ writer = p
  /\ Undo(p)
  /\ Leaves(p, None, {})
  /\ UNCHANGED <<calls, acked, now, uses>>
-----------------------------------------------------------------------------
SyncStep(p) ==
  \/ \E k \in Keys : \/ DeleteRow(p, k) \/ GetCleansUp(p, k) \/ GetSelects(p, k) \/ Persist(p, k)
                     \/ SetStores(p, k, Text, None)
                     \/ \E ttl \in Ttls : Expire(p, k, ttl)
                     \/ \E ttl \in TtlsOf(k) :
                          \/ SetStores(p, k, 0, ttl) \/ GetOrSetStores(p, k, ttl)
                          \/ Incr(p, k, ttl) \/ CommitFails(p, k, ttl)
                     \/ \E T \in SUBSET Tags \ {{}} : AddTags(p, k, T)
  \/ \E T \in SUBSET Tags \ {{}} : InvalidateTags(p, T)
  \/ ClearNamespace(p) \/ ClearAll(p) \/ EndDelete(p) \/ Fails(p) \/ Crash(p)
=============================================================================
