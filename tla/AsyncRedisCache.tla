-------------------------- MODULE AsyncRedisCache ---------------------------
(***************************************************************************)
(* AsyncRedisCache (cachine/backends/redis/async_.py): the commands each   *)
(* method awaits.  Its except clauses for Exception also catch what the    *)
(* network does, and then try in a second way what may have been done.     *)
(***************************************************************************)
EXTENDS RedisServer

CONSTANT AsyncClients

\* The first command of a method; expire and touch with a time that is over
\* delete.
AsyncStart(m, ttl) ==
  CASE m \in {"get", "get_or_set"} -> "a_get"
    [] m = "set" -> "a_set"
    [] m = "delete" \/ (m = "expire" /\ ttl = 0) -> "a_del"
    [] m = "clear" -> "a_scan"
    [] m = "clear_all" -> "a_flush"
    [] m = "expire" -> "a_expire"
    [] m = "touch" -> "a_touch"
    [] m = "persist" -> "a_persist"
    [] m = "incr" -> "a_incr"
    [] OTHER -> "a_next_tag"

\* get, exists, ttl, and the first half of get_or_set.
AwaitsGet(c) ==
  /\ frame[c].at = "a_get"
  /\ Sends(c, kv, sets, IF frame[c].use = "get_or_set" /\ kv[frame[c].key] = None
                        THEN At(c, "a_set") ELSE Ended(c), Ended(c))

\* set; in get_or_set the factory has been awaited since. The server refuses EX 0.
AwaitsSet(c) ==
  /\ frame[c].at = "a_set"
  /\ Sends(c, IF frame[c].ttl = 0 THEN kv ELSE SetKey(frame[c].key, frame[c].ttl), sets,
           Ended(c), Ended(c))

AwaitsDelete(c) ==
  /\ frame[c].at = "a_del"
  /\ Sends(c, DelKeys({frame[c].key}), sets, Ended(c), Ended(c))

\* expire, and expire_at, which leaves the past to the server.
AwaitsExpire(c) ==
  /\ frame[c].at = "a_expire"
  /\ Sends(c, ExpireKey(frame[c].key, Deadline(frame[c].ttl)), sets, Ended(c), Ended(c))

\* TOUCH, or after an error EXISTS.
AwaitsTouch(c) ==
  \/ frame[c].at = "a_touch" /\ Sends(c, kv, sets, Ended(c), At(c, "a_exists"))
  \/ frame[c].at = "a_exists" /\ Sends(c, kv, sets, Ended(c), Ended(c))

\* PERSIST, or after an error TTL.
AwaitsPersist(c) ==
  /\ frame[c].at = "a_persist"
  /\ Sends(c, PersistKey(frame[c].key), sets, Ended(c), At(c, "a_ttl"))

\* A key with a deadline, and then PEXPIRE 0: the server deletes it.
AwaitsTtl(c) ==
  LET e == kv[frame[c].key] IN
  /\ frame[c].at = "a_ttl"
  /\ Sends(c, kv, sets, IF e # None /\ (e = None \/ e.exp # None) THEN At(c, "a_pexpire") ELSE Ended(c),
           Ended(c))
AwaitsEnd(c) ==
  /\ frame[c].at = "a_pexpire"
  /\ Sends(c, ExpireKey(frame[c].key, now), sets, Ended(c), Ended(c))
-----------------------------------------------------------------------------
(* clear *)

AwaitsFlush(c) ==
  /\ frame[c].at = "a_flush"
  /\ Sends(c, DelKeys(Keys), DelSets(Tags), Ended(c), Ended(c))

\* SCAN: the few names of one batch, none after an error.
AwaitsScan(c) ==
  LET stored == {k \in Keys : kv[k] # None} \union {t \in Tags : sets[t].members # {}} IN
  /\ frame[c].at = "a_scan"
  /\ Sends(c, kv, sets, IF stored = {} THEN Ended(c)
                        ELSE [At(c, "a_del_all") EXCEPT !.found = stored], Ended(c))

AwaitsDeleteAll(c) ==
  /\ frame[c].at = "a_del_all"
  /\ Sends(c, DelKeys(frame[c].found), DelSets(frame[c].found), Ended(c), At(c, "a_del_each"))

AwaitsDeleteEach(c) ==
  /\ frame[c].at = "a_del_each"
  /\ \E n \in frame[c].found :
       LET rest == frame[c].found \ {n}
           then == IF rest = {} THEN Ended(c) ELSE [frame[c] EXCEPT !.found = rest]
       IN Sends(c, DelKeys({n}), DelSets({n}), then, then)
-----------------------------------------------------------------------------
(* Counters *)

\* INCRBY, or the script if there is a ttl; the script's errors, also a
\* reply that is lost, lead to its commands one by one.
AwaitsIncrement(c) ==
  LET k == frame[c].key
      e == IF kv[k] = None /\ frame[c].ttl # 0 THEN Deadline(frame[c].ttl)
           ELSE IF kv[k] = None THEN None ELSE kv[k].exp
  IN
  /\ frame[c].at = "a_incr"
  /\ SendsIncrement(c, k, [IncrKey(k) EXCEPT ![k].exp = e], Ended(c),
                    IF frame[c].ttl = None THEN Ended(c) ELSE At(c, "incr_exists"))

AwaitsExists(c) ==
  /\ frame[c].at = "incr_exists"
  /\ Sends(c, kv, sets, [At(c, "a_incrby") EXCEPT !.existed = kv[frame[c].key] # None], Ended(c))

\* Mutant: a counter that did not exist is set to 1.
AwaitsSetOne(c) ==
  LET k == frame[c].key IN
  /\ frame[c].at = "a_incrby"
  /\ SendsIncrement(c, k, IF frame[c].existed THEN IncrKey(k) ELSE [kv EXCEPT ![k] = [val |-> 1, exp |-> None]],
                    IF frame[c].existed \/ frame[c].ttl = 0 THEN Ended(c) ELSE At(c, "a_window"), Ended(c))

AwaitsIncrBy(c) ==
  /\ frame[c].at = "a_incrby"
  /\ SendsIncrement(c, frame[c].key, IncrKey(frame[c].key),
                    IF frame[c].existed \/ frame[c].ttl = 0 THEN Ended(c) ELSE At(c, "a_window"), Ended(c))

\* PEXPIRE, or after an error EXPIRE, of whatever the key holds by now.
AwaitsWindow(c) ==
  LET K == ExpireKey(frame[c].key, Deadline(frame[c].ttl)) IN
  \/ frame[c].at = "a_window"  /\ Sends(c, K, sets, Ended(c), At(c, "a_seconds"))
  \/ frame[c].at = "a_seconds" /\ Sends(c, K, sets, Ended(c), Ended(c))
-----------------------------------------------------------------------------
(* Tags *)

\* The loop over the tags takes the next one, or ends.
AwaitsNextTag(c) ==
  LET f == frame[c] IN
  /\ f.at = "a_next_tag"
  /\ IF f.tags = {} THEN Goes(c, IF f.use = "add_tags" THEN Ended(c) ELSE At(c, "a_publish"))
     ELSE \E t \in f.tags :
            Goes(c, [f EXCEPT !.at = IF f.use = "add_tags" THEN "a_sadd" ELSE "a_smembers",
                              !.tag = t, !.tags = @ \ {t}])
  /\ UNCHANGED <<serverVars, now, uses, calls, faults, historyVars>>

\* Mutant: the set is deleted before its members are asked for.
AwaitsMembersLate(c) ==
  /\ frame[c].at = "a_smembers"
  /\ Sends(c, kv, DelSets({frame[c].tag}), [At(c, "a_del_member") EXCEPT !.found = {}],
                                           [At(c, "a_del_member") EXCEPT !.found = {}])

AwaitsMembers(c) ==
  /\ frame[c].at = "a_smembers"
  /\ Sends(c, kv, sets, [At(c, "a_del_member") EXCEPT !.found = sets[frame[c].tag].members],
                        [At(c, "a_del_member") EXCEPT !.found = {}])

\* DEL of each member and then of the set; errors are dropped.
AwaitsDeleteMembers(c) ==
  /\ frame[c].at = "a_del_member"
  /\ IF frame[c].found = {}
     THEN Sends(c, kv, DelSets({frame[c].tag}), At(c, "a_next_tag"), At(c, "a_next_tag"))
     ELSE \E k \in frame[c].found :
            LET then == [frame[c] EXCEPT !.found = @ \ {k}]
            IN Sends(c, DelKeys({k}), sets, then, then)

\* SADD and EXPIRE; an error drops the tag and goes on with the next.
AwaitsAddTag(c) ==
  LET f == frame[c]
      S == IF f.at = "a_sadd" THEN AddMember(f.tag, f.key) ELSE ExpireSet(f.tag, Deadline(f.ttl))
      life == f.at = "a_sadd" /\ f.ttl \notin {None, 0}   \* EXPIRE is still to come
  IN
  /\ f.at \in {"a_sadd", "a_set_life"}
  /\ \/ /\ Answered(c, kv, S, At(c, IF life THEN "a_set_life" ELSE "a_next_tag"))
        /\ owed' = IF life \/ f.key \notin S[f.tag].members \/ \E d \in Clients : Deleting(d) THEN owed
                   ELSE owed \union {<<f.tag, f.key, IF f.ttl = 0 THEN None ELSE Deadline(f.ttl)>>}
     \/ Fails(c, kv, S, At(c, "a_next_tag")) /\ UNCHANGED owed
  /\ UNCHANGED <<acked, unsure, fellBack>>
-----------------------------------------------------------------------------
AsyncStep(c) ==
  \/ AwaitsGet(c) \/ AwaitsSet(c) \/ AwaitsDelete(c) \/ AwaitsExpire(c) \/ AwaitsTouch(c)
  \/ AwaitsPersist(c) \/ AwaitsTtl(c) \/ AwaitsEnd(c)
  \/ AwaitsFlush(c) \/ AwaitsScan(c) \/ AwaitsDeleteAll(c) \/ AwaitsDeleteEach(c)
  \/ AwaitsIncrement(c) \/ AwaitsExists(c) \/ AwaitsIncrBy(c) \/ AwaitsWindow(c)
  \/ AwaitsNextTag(c) \/ AwaitsMembers(c) \/ AwaitsDeleteMembers(c) \/ AwaitsAddTag(c)
=============================================================================
