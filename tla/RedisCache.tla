----------------------------- MODULE RedisCache -----------------------------
(***************************************************************************)
(* RedisCache (cachine/backends/redis/sync.py): the commands each method   *)
(* sends, and where its except clauses go on after an error.  The clauses  *)
(* for AttributeError serve incomplete clients: redis-py never gets there. *)
(***************************************************************************)
EXTENDS RedisServer

CONSTANT SyncClients

\* The first command of a method.
SyncStart(m) ==
  CASE m \in {"get", "get_or_set"} -> "get"
    [] m = "set" -> "set"
    [] m = "delete" -> "del"
    [] m = "clear" -> "scan"
    [] m = "clear_all" -> "flush"
    [] m = "incr" -> "incr"
    [] m = "add_tags" -> "next_tag"
    [] m = "invalidate_tags" -> "next_tag"
    [] OTHER -> m

\* get, exists, ttl, and the first half of get_or_set.
Reads(c) ==
  /\ frame[c].at = "get"
  /\ Sends(c, kv, sets, IF frame[c].use = "get_or_set" /\ kv[frame[c].key] = None
                        THEN At(c, "set") ELSE Ended(c), Ended(c))

\* set; in get_or_set the factory has run since the key was read. The server
\* refuses EX 0.
Stores(c) ==
  /\ frame[c].at = "set"
  /\ Sends(c, IF frame[c].ttl = 0 THEN kv ELSE SetKey(frame[c].key, frame[c].ttl), sets, Ended(c), Ended(c))

Deletes(c) ==
  /\ frame[c].at = "del"
  /\ Sends(c, DelKeys({frame[c].key}), sets, Ended(c), Ended(c))

\* expire and expire_at, with a time that may be over.
Expires(c) ==
  /\ frame[c].at = "expire"
  /\ Sends(c, ExpireKey(frame[c].key, Deadline(frame[c].ttl)), sets, Ended(c), Ended(c))

Touches(c) == frame[c].at = "touch" /\ Sends(c, kv, sets, Ended(c), Ended(c))

Persists(c) ==
  /\ frame[c].at = "persist"
  /\ Sends(c, PersistKey(frame[c].key), sets, Ended(c), Ended(c))
-----------------------------------------------------------------------------
(* clear *)

\* FLUSHDB, whose errors are dropped.
Flushes(c) ==
  /\ frame[c].at = "flush"
  /\ Sends(c, DelKeys(Keys), DelSets(Tags), Ended(c), Ended(c))

\* SCAN of the namespace: the few names of one batch. After an error nothing
\* is deleted.
Stored == {k \in Keys : kv[k] # None} \union {t \in Tags : sets[t].members # {}}
Scans(c) ==
  /\ frame[c].at = "scan"
  /\ Sends(c, kv, sets, IF Stored = {} THEN Ended(c)
                        ELSE [At(c, "del_all") EXCEPT !.found = Stored], Ended(c))

\* DEL of all names at once, and after an error one by one.
DeletesAll(c) ==
  /\ frame[c].at = "del_all"
  /\ Sends(c, DelKeys(frame[c].found), DelSets(frame[c].found), Ended(c), At(c, "del_each"))

DeletesEach(c) ==
  /\ frame[c].at = "del_each"
  /\ \E n \in frame[c].found :
       LET rest == frame[c].found \ {n}
           then == IF rest = {} THEN Ended(c) ELSE [frame[c] EXCEPT !.found = rest]
       IN Sends(c, DelKeys({n}), DelSets({n}), then, then)
-----------------------------------------------------------------------------
(* Counters *)

\* Mutant: a new counter gets no deadline.
IncrementsForever(c) ==
  /\ frame[c].at = "incr"
  /\ SendsIncrement(c, frame[c].key, IncrKey(frame[c].key), Ended(c), Ended(c))

\* The script of incr: EXISTS, INCRBY and PEXPIRE in one command.
IncrWindow(k, ttl) ==
  [IncrKey(k) EXCEPT ![k].exp = IF kv[k] = None /\ ttl # 0 THEN Deadline(ttl) ELSE @]

\* INCRBY, or the script if there is a ttl.
Increments(c) ==
  /\ frame[c].at = "incr"
  /\ SendsIncrement(c, frame[c].key, IncrWindow(frame[c].key, frame[c].ttl), Ended(c), Ended(c))
-----------------------------------------------------------------------------
(* Tags *)

\* The loop over the tags takes the next one, or ends: invalidate_tags may
\* have to publish.
NextTag(c) ==
  LET f == frame[c] IN
  /\ f.at = "next_tag"
  /\ IF f.tags = {} THEN Goes(c, IF f.use = "add_tags" THEN Ended(c) ELSE At(c, "publish"))
     ELSE \E t \in f.tags :
            Goes(c, [f EXCEPT !.at = IF f.use = "add_tags" THEN "sadd" ELSE "smembers",
                              !.tag = t, !.tags = @ \ {t}])
  /\ UNCHANGED <<serverVars, now, uses, calls, faults, historyVars>>

\* SMEMBERS; an error counts as an empty set.
FindsMembers(c) ==
  /\ frame[c].at = "smembers"
  /\ Sends(c, kv, sets, [At(c, "del_member") EXCEPT !.found = sets[frame[c].tag].members],
                        [At(c, "del_member") EXCEPT !.found = {}])

\* DEL of each member and then of the set; errors are dropped.
DeletesMembers(c) ==
  /\ frame[c].at = "del_member"
  /\ IF frame[c].found = {}
     THEN Sends(c, kv, DelSets({frame[c].tag}), At(c, "next_tag"), At(c, "next_tag"))
     ELSE \E k \in frame[c].found :
            LET then == [frame[c] EXCEPT !.found = @ \ {k}]
            IN Sends(c, DelKeys({k}), sets, then, then)

\* SADD; an error drops the tag and goes on with the next.
AddsTag(c) ==
  /\ frame[c].at = "sadd"
  /\ \/ /\ Answered(c, kv, AddMember(frame[c].tag, frame[c].key),
                    At(c, IF frame[c].ttl \in {None, 0} THEN "next_tag" ELSE "set_life"))
        /\ owed' = IF frame[c].ttl \notin {None, 0} \/ \E d \in Clients : Deleting(d) THEN owed
                   ELSE owed \union {<<frame[c].tag, frame[c].key, None>>}
     \/ Fails(c, kv, AddMember(frame[c].tag, frame[c].key), At(c, "next_tag")) /\ UNCHANGED owed
  /\ UNCHANGED <<acked, unsure, fellBack>>

\* Mutant: the first one who tags decides how long the set lives.
LimitsTagOnce(c) ==
  LET f == frame[c]
      S == IF sets[f.tag].exp = None THEN ExpireSet(f.tag, Deadline(f.ttl)) ELSE sets
  IN
  /\ f.at = "set_life"
  /\ \/ /\ Answered(c, kv, S, At(c, "next_tag"))
        /\ owed' = IF f.key \notin sets[f.tag].members \/ \E d \in Clients : Deleting(d) THEN owed
                   ELSE owed \union {<<f.tag, f.key, Deadline(f.ttl)>>}
     \/ Fails(c, kv, S, At(c, "next_tag")) /\ UNCHANGED owed
  /\ UNCHANGED <<acked, unsure, fellBack>>

\* EXPIRE of the set, which may have ended since the SADD.
LimitsTag(c) ==
  LET f == frame[c]
      S == ExpireSet(f.tag, Deadline(f.ttl))
  IN
  /\ f.at = "set_life"
  /\ \/ /\ Answered(c, kv, S, At(c, "next_tag"))
        /\ owed' = IF f.key \notin sets[f.tag].members \/ \E d \in Clients : Deleting(d) THEN owed
                   ELSE owed \union {<<f.tag, f.key, Deadline(f.ttl)>>}
     \/ Fails(c, kv, S, At(c, "next_tag")) /\ UNCHANGED owed
  /\ UNCHANGED <<acked, unsure, fellBack>>
-----------------------------------------------------------------------------
\* publish_invalidation follows in InvalidationBus.
SyncStep(c) ==
  \/ Reads(c) \/ Stores(c) \/ Deletes(c) \/ Expires(c) \/ Touches(c) \/ Persists(c)
  \/ Flushes(c) \/ Scans(c) \/ DeletesAll(c) \/ DeletesEach(c)
  \/ Increments(c)
  \/ NextTag(c) \/ FindsMembers(c) \/ DeletesMembers(c) \/ AddsTag(c) \/ LimitsTag(c)
=============================================================================
