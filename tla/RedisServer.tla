---------------------------- MODULE RedisServer -----------------------------
(***************************************************************************)
(* One Redis database and the clients of one namespace in it.  The server  *)
(* is external: each command is atomic, and what has expired is missing.   *)
(* Between two commands of a call other clients run.  A command may fail   *)
(* for its client before the server has executed it or after (the reply is *)
(* lost), and a call may end between two commands: its process dies, its   *)
(* task is cancelled.                                                      *)
(***************************************************************************)
EXTENDS Integers, FiniteSets

CONSTANTS
  Clients, Keys, Tags, None,
  Text,        \* a stored value that is no integer
  Workloads,   \* from keys to the Methods used on it and the ttls they pass
  MaxCalls,    \* bound: calls of all clients together
  MaxFaults,   \* bound: lost requests, lost replies and ended clients
  MaxTime      \* bound: the clock stops there

Methods == {"get", "get_or_set", "set", "delete", "clear", "clear_all", "expire", "touch",
            "persist", "incr", "add_tags", "invalidate_tags"}

Entry == [val : Nat \union {Text}, exp : Nat \union {None}]

ASSUME ServerAssumption ==
  /\ Keys \intersect Tags = {} /\ None \notin Nat /\ None \notin Entry
  /\ Workloads \subseteq [Keys -> [does : SUBSET Methods, ttls : SUBSET (Nat \union {None})]]
  /\ MaxCalls \in Nat /\ MaxFaults \in Nat /\ MaxTime \in Nat

VARIABLES
  kv,      \* the entries
  sets,    \* the set <ns>tag:<tag> of each tag
  now,
  frame,   \* the call of each client, with the command it sends next
  uses,    \* the workload
  calls, faults,  \* bounds: how many there were
  acked,   \* history: increments of each key's present life that were answered
  unsure,  \* history: those that failed, executed or not
  fellBack, \* history: the keys an async incr tried in a second way
  owed,    \* history: who was tagged without an error, and for how long
  doomed   \* history: per client, what was tagged when its invalidation began
           \* and has not been stored since

serverVars  == <<kv, sets>>
historyVars == <<acked, unsure, fellBack, owed, doomed>>

TagSet == [members : SUBSET Keys, exp : Nat \union {None}]
NoSet == [members |-> {}, exp |-> None]

\* Under the namespace lie the entries and the tag sets.
Names == Keys \union Tags

\* What a call is at: a command that it sends next, or a step of its loop.
Places == {"idle", "get", "set", "del", "expire", "touch", "persist", "incr", "scan", "del_all", "del_each",
           "flush", "next_tag", "sadd", "set_life", "smembers", "del_member", "publish",
           "a_get", "a_set", "a_del", "a_expire", "a_touch", "a_exists", "a_persist", "a_ttl", "a_pexpire",
           "a_incr", "incr_exists", "a_incrby", "a_window", "a_seconds", "a_scan", "a_del_all", "a_del_each",
           "a_flush", "a_next_tag", "a_sadd", "a_set_life", "a_smembers", "a_del_member", "a_publish"}

Frame == [at : Places, use : Methods \union {None}, key : Keys \union {None}, tags : SUBSET Tags,
          tag : Tags \union {None}, found : SUBSET Names, ttl : Nat \union {None},
          existed : BOOLEAN, clean : BOOLEAN]

NoCall == [at |-> "idle", use |-> None, key |-> None, tags |-> {}, tag |-> None, found |-> {},
           ttl |-> None, existed |-> FALSE, clean |-> TRUE]

Use(m) == {k \in Keys : m \in uses[k].does}

ServerTypeOK ==
  /\ kv \in [Keys -> Entry \union {None}]
  /\ sets \in [Tags -> TagSet] /\ \A t \in Tags : sets[t].members = {} => sets[t] = NoSet
  /\ frame \in [Clients -> Frame]
  /\ acked \in [Keys -> Nat] /\ unsure \in [Keys -> Nat] /\ fellBack \subseteq Keys
  /\ now \in 0..MaxTime /\ calls \in 0..MaxCalls /\ faults \in 0..MaxFaults
  /\ owed \subseteq Tags \X Keys \X (Nat \union {None})
  /\ doomed \in [Clients -> SUBSET Keys]

ServerInit ==
  /\ kv = [k \in Keys |-> None]
  /\ sets = [t \in Tags |-> NoSet]
  /\ now = 0 /\ calls = 0 /\ faults = 0
  /\ frame = [c \in Clients |-> NoCall]
  /\ uses \in Workloads
  /\ acked = [k \in Keys |-> 0] /\ unsure = [k \in Keys |-> 0] /\ fellBack = {}
  /\ owed = {} /\ doomed = [c \in Clients |-> {}]
-----------------------------------------------------------------------------
(* The commands, as functions of the entries or of the tag sets *)

Deadline(ttl) == IF ttl = None THEN None ELSE now + ttl

Over(e) == e # None /\ e <= now

\* SET key value [EX ttl]
SetKey(k, ttl) == [kv EXCEPT ![k] = [val |-> Text, exp |-> Deadline(ttl)]]

\* DEL name ..., of entries and tag sets.
DelKeys(N) == [k \in Keys |-> IF k \in N THEN None ELSE kv[k]]
DelSets(N) == [t \in Tags |-> IF t \in N THEN NoSet ELSE sets[t]]

\* EXPIRE and EXPIREAT delete at once what is over.
ExpireKey(k, e) == IF kv[k] = None THEN kv
                   ELSE [kv EXCEPT ![k] = IF Over(e) THEN None ELSE [@ EXCEPT !.exp = e]]

\* PERSIST
PersistKey(k) == IF kv[k] = None THEN kv ELSE [kv EXCEPT ![k].exp = None]

\* INCRBY: the deadline stays. It fails on a value that is no integer.
NoInteger(k) == IF kv[k] = None THEN FALSE ELSE kv[k].val = Text
IncrKey(k) == [kv EXCEPT ![k] = IF @ = None THEN [val |-> 1, exp |-> None]
                                ELSE [val |-> @.val + 1, exp |-> @.exp]]

\* SADD, and EXPIRE on a set.
AddMember(t, k) == [sets EXCEPT ![t].members = @ \union {k}]

ExpireSet(t, e) == IF sets[t] = NoSet THEN sets ELSE [sets EXCEPT ![t].exp = e]

\* Time passes; the server drops what is over.
Tick ==
  LET Gone(e) == e # None /\ e <= now + 1
      dead    == {k \in Keys : IF kv[k] = None THEN FALSE ELSE Gone(kv[k].exp)}
      fading  == {t \in Tags : Gone(sets[t].exp)}
      Reset(h) == [k \in Keys |-> IF k \in dead THEN 0 ELSE h[k]]
  IN
  /\ now < MaxTime
  /\ now' = now + 1
  /\ kv' = DelKeys(dead) /\ sets' = DelSets(fading)
  /\ acked' = Reset(acked) /\ unsure' = Reset(unsure)
  /\ owed' = {p \in owed : ~Gone(p[3])}
  /\ doomed' = [c \in Clients |-> doomed[c] \ UNION {sets[t].members : t \in fading}]
  /\ UNCHANGED <<frame, uses, calls, faults, fellBack>>
-----------------------------------------------------------------------------
(* Calls *)

At(c, place) == [frame[c] EXCEPT !.at = place]
Ended(c) == At(c, "idle")

\* c is in a call that deletes tag sets.
Deleting(c) == frame[c].use \in {"invalidate_tags", "clear", "clear_all"} /\ frame[c].at # "idle"

\* The client goes on with f.
Goes(c, f) == frame' = [frame EXCEPT ![c] = f]

\* What is stored now is not what an invalidation found.
KeepDoomed == doomed' = [c \in Clients |-> {k \in doomed[c] : kv'[k] \in {kv[k], None}}]

\* A command that leaves the entries K and the tag sets S is executed and answered: the call
\* goes on with ok.
Answered(c, K, S, ok) ==
  /\ kv' = K /\ sets' = S
  /\ Goes(c, ok)
  /\ KeepDoomed
  /\ UNCHANGED <<faults, now, uses, calls>>

\* It fails, executed or not: the call goes on with err. What an invalidation
\* that meets an error leaves, none may find any more.
Fails(c, K, S, err) ==
  /\ faults < MaxFaults /\ faults' = faults + 1
  /\ \/ kv' = K /\ sets' = S
     \/ UNCHANGED serverVars
  /\ Goes(c, [err EXCEPT !.clean = FALSE])
  /\ IF Deleting(c) THEN doomed' = [d \in Clients |-> {}] ELSE KeepDoomed
  /\ UNCHANGED <<now, uses, calls>>

Sends(c, K, S, ok, err) ==
  /\ Answered(c, K, S, ok) \/ Fails(c, K, S, err)
  /\ UNCHANGED <<acked, unsure, fellBack, owed>>

\* An increment of k.
SendsIncrement(c, k, K, ok, err) ==
  /\ \/ ~NoInteger(k) /\ Answered(c, K, sets, ok)
        /\ acked' = [acked EXCEPT ![k] = @ + 1] /\ UNCHANGED unsure
     \/ ~NoInteger(k) /\ Fails(c, K, sets, err)
        /\ unsure' = [unsure EXCEPT ![k] = @ + 1] /\ UNCHANGED acked
     \/ NoInteger(k) /\ Answered(c, kv, sets, err) /\ UNCHANGED <<acked, unsure>>
  /\ fellBack' = IF frame'[c].at = "incr_exists" THEN fellBack \union {k} ELSE fellBack
  /\ UNCHANGED owed

\* The call ends here: the process dies or its task is cancelled.
Dies(c) ==
  /\ frame[c].at # "idle"
  /\ faults < MaxFaults /\ faults' = faults + 1
  /\ Goes(c, [Ended(c) EXCEPT !.clean = FALSE])
  /\ doomed' = IF Deleting(c) THEN [d \in Clients |-> {}] ELSE doomed
  /\ UNCHANGED <<serverVars, now, uses, calls, acked, unsure, fellBack, owed>>

\* A method is called; its first command is the one at place.
Invoke(c, m, k, T, ttl, place) ==
  /\ frame[c].at = "idle" /\ calls < MaxCalls
  /\ k \in Use(m) /\ ttl \in uses[k].ttls
  /\ m \in {"clear", "clear_all"} => Use(m) = Keys
  /\ m \in {"clear", "clear_all", "invalidate_tags"} => k = CHOOSE j \in Use(m) : TRUE
  /\ m = "expire" => ttl # None
  /\ m \in {"set", "get_or_set", "expire", "incr", "add_tags"} \/ ttl = CHOOSE x \in uses[k].ttls : TRUE
  /\ IF m \in {"add_tags", "invalidate_tags"} THEN T # {} ELSE T = {}
  /\ calls' = calls + 1
  /\ Goes(c, [NoCall EXCEPT !.at = place, !.use = m, !.key = k, !.tags = T, !.ttl = ttl])
  /\ owed' = IF m \in {"clear", "clear_all"} THEN {}
             ELSE IF m = "invalidate_tags" THEN {p \in owed : p[1] \notin T} ELSE owed
  /\ doomed' = [doomed EXCEPT ![c] =
       IF m = "invalidate_tags" /\ ~ \E d \in Clients : Deleting(d)
       THEN {j \in UNION {sets[t].members : t \in T} : kv[j] # None} ELSE {}]
  /\ UNCHANGED <<serverVars, now, uses, faults, acked, unsure, fellBack>>
=============================================================================
