----------------------------- MODULE SQLiteFile -----------------------------
(***************************************************************************)
(* One SQLite database file shared by several connections, with the two    *)
(* tables of cachine/backends/sqlite/_schema.py and the statements that    *)
(* both SQLite backends run on them.  A connection outside a transaction   *)
(* commits each statement (isolation_level None); BEGIN IMMEDIATE makes it *)
(* the file's only writer until COMMIT or ROLLBACK.  In WAL mode the       *)
(* others go on reading what is committed.                                 *)
(***************************************************************************)
EXTENDS Integers, FiniteSets

CONSTANTS
  Keys, Tags, None,
  Text,        \* a stored value that is no integer
  Ttls,        \* ttl arguments: positive naturals
  Workloads,   \* the ways the file is used: functions from keys to sets of Methods
  Faults,      \* what may go wrong, a subset of AllFaults
  MaxTime      \* bound: the clock stops there

\* The methods an application may use on a key.  "store_text": set with a value
\* that is no integer; "clear": the key lies in the namespace that is cleared;
\* "ttl" is no method: the calls on the key pass ttls.
Methods == {"get", "get_or_set", "set", "store_text", "delete", "clear", "clear_all",
            "expire", "persist", "incr", "add_tags", "invalidate_tags", "ttl"}

\* "busy": a statement may fail (locked file, full disk).  "commit": a COMMIT
\* may.  "crash": a process may end anywhere.  "close": the loop's cache may be
\* closed under its users.
AllFaults == {"busy", "commit", "crash", "close"}

ASSUME FileAssumption ==
  /\ Ttls \subseteq Nat \ {0}
  /\ Workloads \subseteq [Keys -> SUBSET Methods]
  /\ Faults \subseteq AllFaults
  /\ MaxTime \in Nat

VARIABLES
  db,      \* what is committed
  writer,  \* the connection with an open write transaction, or None
  work,    \* the database as that transaction has changed it, or None
  now,     \* now_epoch()
  uses,    \* the workload: the methods the application uses on each key
  acked    \* history: how many increments of each key were acknowledged

fileVars == <<db, writer, work>>

Row == [val : Nat \union {Text}, exp : Nat \union {None}]

\* cache_data and cache_tags.
Database == [rows : [Keys -> Row \union {None}], tags : SUBSET (Tags \X Keys)]

Use(m) == {k \in Keys : m \in uses[k]}

\* The ttl arguments passed with k.
TtlsOf(k) == {None} \union (IF k \in Use("ttl") THEN Ttls ELSE {})

FileInit ==
  /\ db = [rows |-> [k \in Keys |-> None], tags |-> {}]
  /\ writer = None /\ work = None
  /\ now = 0
  /\ uses \in Workloads
  /\ acked = [k \in Keys |-> 0]
-----------------------------------------------------------------------------
(* Connections *)

\* What connection c reads.
View(c) == IF writer = c THEN work ELSE db

\* The file's write lock is free for a statement of c.
MayWrite(c) == writer \in {None, c}

\* A statement of c leaves the database d: inside its transaction if it has
\* one, committed at once if not.
Execute(c, d) ==
  /\ MayWrite(c)
  /\ work' = IF writer = c THEN d ELSE work
  /\ db' = IF writer = c THEN db ELSE d
  /\ UNCHANGED writer

\* BEGIN IMMEDIATE fails when a transaction is open, on c or elsewhere.
Open(c) == writer = None /\ writer' = c /\ work' = db /\ UNCHANGED db

Keep(c) == writer = c /\ db' = work /\ writer' = None /\ work' = None

\* ROLLBACK, and what the library does when c is closed or its process ends.
Undo(c) == /\ writer' = IF writer = c THEN None ELSE writer
           /\ work' = IF writer = c THEN None ELSE work
           /\ UNCHANGED db
-----------------------------------------------------------------------------
(* The statements, as functions of a database *)

Expired(row) == row.exp # None /\ row.exp <= now

Deadline(ttl) == IF ttl = None THEN None ELSE now + ttl

\* INSERT ... ON CONFLICT(key) DO UPDATE: the key's tags stay.
Upsert(d, k, v, e) == [d EXCEPT !.rows[k] = [val |-> v, exp |-> e]]

\* DELETE FROM cache_data WHERE key ...
DeleteRows(d, K) == [d EXCEPT !.rows = [k \in Keys |-> IF k \in K THEN None ELSE @[k]]]

\* DELETE FROM cache_tags WHERE key ...
DeleteTagsOf(d, K) == [d EXCEPT !.tags = {p \in @ : p[2] \notin K}]

\* DELETE FROM cache_tags WHERE tag IN ...
DeleteTags(d, T) == [d EXCEPT !.tags = {p \in @ : p[1] \notin T}]

\* INSERT OR IGNORE INTO cache_tags
InsertTags(d, k, T) == [d EXCEPT !.tags = @ \union (T \X {k})]

\* SELECT DISTINCT key FROM cache_tags WHERE tag IN ...
TaggedKeys(d, T) == {k \in Keys : \E t \in T : <<t, k>> \in d.tags}

\* _cleanup_if_expired: the row goes, its tags stay.
Cleanup(d, k) == IF d.rows[k] # None /\ Expired(d.rows[k]) THEN DeleteRows(d, {k}) ELSE d

\* UPDATE ... SET expires_at WHERE key AND not expired
SetExpiry(d, k, e) == IF d.rows[k] = None \/ Expired(d.rows[k]) THEN d
                      ELSE [d EXCEPT !.rows[k].exp = e]

\* UPDATE ... SET expires_at = NULL: an expired row comes back.
ClearExpiry(d, k) == IF d.rows[k] = None THEN d ELSE [d EXCEPT !.rows[k].exp = None]

\* The second statement of incr, after its SELECT returned row: an UPDATE of
\* the row (which may be gone by now), or an INSERT that starts the counter.
AddOne(d, k, row, ttl) ==
  IF row # None /\ ~Expired(row)
  THEN IF d.rows[k] = None THEN d ELSE [d EXCEPT !.rows[k].val = row.val + 1]
  ELSE Upsert(d, k, 1, Deadline(ttl))

\* The row holds a value incr cannot add to: _coerce_int raises.
NoInteger(row) == IF row = None THEN FALSE ELSE row.val = Text /\ ~Expired(row)
=============================================================================
