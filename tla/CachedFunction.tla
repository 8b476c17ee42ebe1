--------------------------- MODULE CachedFunction ---------------------------
(***************************************************************************)
(* Calls of one function decorated by @cached (sync_wrapper and            *)
(* _background_refresh of cachine/decorators/cached.py) made by several    *)
(* threads, over the process-wide singleflight registry (_Singleflight).   *)
(* The backend is InMemoryCache, whose get, set, add_tags, delete and      *)
(* invalidate_tags run under one lock and are single steps here; a call of *)
(* the decorated function is a sequence of them.                           *)
(*                                                                         *)
(* An event of the registry is named by the thread that made it and the    *)
(* number of that thread's call: a call makes at most one event.           *)
(***************************************************************************)
EXTENDS Integers, FiniteSets

CONSTANTS
  Callers,       \* application threads
  Workers,       \* daemon threads started by stale hits (names are reused)
  Keys,          \* cache keys the calls map to
  None,          \* Python's None: no entry, no event, no ttl, no stale_ttl
  SingleFlight,  \* the decorator's singleflight argument
  Ttls,          \* what ttl may evaluate to: naturals and None
  Jitter,        \* the decorator's jitter argument (0 when it is None)
  StaleTtl,      \* the decorator's stale_ttl argument, or None
  HasTags,       \* whether the decorator attaches tags
  Outcomes,      \* how the function may end, a subset of AllOutcomes
  Env,           \* what the environment may do, a subset of AllEnv
  MaxCalls,      \* bound: calls one application thread makes
  MaxRefreshes,  \* bound: times one worker name is used
  MaxTime        \* bound: the clock stops there

Threads == Callers \union Workers
Bound(t) == IF t \in Callers THEN MaxCalls ELSE MaxRefreshes
Events  == Threads \X (Nat \ {0})

\* "uncached": None without cache_none, or a result that condition rejects.
AllOutcomes == {"value", "uncached", "raise"}

\* "bypass": enabled(...) may be false.  "get", "set", "tags": a backend
\* read, a backend write, the tags callable or add_tags may raise.  "threads": a
\* daemon thread may fail to start.
\* "purge": the application deletes keys and invalidates tags.
AllEnv == {"bypass", "get", "set", "tags", "threads", "purge"}

OptNat == Nat \union {None}

\* What the backend holds under a key: fu is the envelope's "fresh until"
\* (None for a raw value), exp the backend's expiry (None: never).
Entry == [fu : OptNat, exp : OptNat]

\* A result about to be stored: fu as above, life the ttl given to set.
Item == [fu : OptNat, life : OptNat]

ASSUME ConstantsAssumption ==
  /\ Callers \intersect Workers = {}
  /\ None \notin Threads /\ None \notin Keys /\ None \notin Nat
  /\ None \notin Events /\ None \notin Entry
  /\ SingleFlight \in BOOLEAN /\ HasTags \in BOOLEAN
  /\ Ttls \subseteq Nat \union {None}
  /\ Jitter \in Nat
  /\ StaleTtl \in Nat \union {None}
  /\ Outcomes \subseteq AllOutcomes
  /\ Env \subseteq AllEnv
  /\ MaxCalls \in Nat /\ MaxRefreshes \in Nat /\ MaxTime \in Nat
-----------------------------------------------------------------------------
VARIABLES
  pc,         \* where each thread is in the wrapper
  key,        \* the key of its call, None between calls
  calls,      \* how many calls (for a worker: lives) it has begun
  seen,       \* what its first read of the cache returned
  ev,         \* the event it waits for, or is about to set
  item,       \* the result it is about to store
  registry,   \* _sf._events: the registered event of each key, or None
  signalled,  \* the events that are set
  store,      \* the backend: an entry per key, or None
  tagged,     \* whether the key has its tags in the backend's tag index
  now         \* time.time() and the backend's clock

threadVars == <<pc, key, calls, seen, ev, item>>
vars == <<pc, key, calls, seen, ev, item, registry, signalled, store, tagged, now>>

\* Places before the thread holds or needs the key, places inside the
\* wrapper's try block, and the two steps of _Singleflight.release.
Body   == {"compute", "store", "tag"}
Places == {"idle", "bypass", "lookup", "decide", "acquire", "refresh",
           "wait", "reread", "release", "signal"} \union Body

\* Every variable keeps its type: places, events and entries are what the code
\* can hold, and no thread keeps an item or an event of the wrong shape.
TypeOK ==
  /\ pc \in [Threads -> Places]
  /\ key \in [Threads -> Keys \union {None}]
  /\ calls \in [Threads -> Nat]
  /\ seen \in [Threads -> Entry \union {None}]
  /\ ev \in [Threads -> Events \union {None}]
  /\ item \in [Threads -> Item \union {None}]
  /\ registry \in [Keys -> Events \union {None}]
  /\ signalled \subseteq Events
  /\ store \in [Keys -> Entry \union {None}]
  /\ tagged \in [Keys -> BOOLEAN]
  /\ now \in Nat

Init ==
  /\ pc = [t \in Threads |-> "idle"]
  /\ key = [t \in Threads |-> None]
  /\ calls = [t \in Threads |-> 0]
  /\ seen = [t \in Threads |-> None]
  /\ ev = [t \in Threads |-> None]
  /\ item = [t \in Threads |-> None]
  /\ registry = [k \in Keys |-> None]
  /\ signalled = {}
  /\ store = [k \in Keys |-> None]
  /\ tagged = [k \in Keys |-> FALSE]
  /\ now = 0
-----------------------------------------------------------------------------
(* The backend, as the wrapper uses it *)

Expired(e) == e.exp # None /\ e.exp <= now

\* What get returns: the entry, or None for a miss.
Read(k) == IF store[k] # None /\ ~Expired(store[k]) THEN store[k] ELSE None

\* get removes an expired entry together with its tags.
DropIfExpired(k) ==
  LET dead == store[k] # None /\ Expired(store[k]) IN
  /\ store' = [store EXCEPT ![k] = IF dead THEN None ELSE @]
  /\ tagged' = [tagged EXCEPT ![k] = IF dead THEN FALSE ELSE @]

\* Mutant: the expiry is computed with the wrong sign.
WriteBackwards(k, i) ==
  /\ store' = [store EXCEPT ![k] =
                 IF i.life = 0 THEN None
                 ELSE [fu |-> i.fu,
                       exp |-> IF i.life = None THEN None ELSE now - i.life]]
  /\ tagged' = [tagged EXCEPT ![k] = IF i.life = 0 THEN FALSE ELSE @]

\* set overwrites the value and keeps the key's tags; a ttl of zero removes the key.
Write(k, i) ==
  /\ store' = [store EXCEPT ![k] =
                 IF i.life = 0 THEN None
                 ELSE [fu |-> i.fu,
                       exp |-> IF i.life = None THEN None ELSE now + i.life]]
  /\ tagged' = [tagged EXCEPT ![k] = IF i.life = 0 THEN FALSE ELSE @]

\* Freshness of an entry that a read returned, against the clock of now.
Fresh(e) == e.fu # None => now <= e.fu
Stale(e) == ~Fresh(e) /\ StaleTtl # None /\ now <= e.fu + StaleTtl
-----------------------------------------------------------------------------
(* The wrapper *)

Goto(t, place) == pc' = [pc EXCEPT ![t] = place]

\* The call of t ends: it returns or raises, and its locals are gone.
Finish(t) == /\ Goto(t, "idle")
             /\ key' = [key EXCEPT ![t] = None]
             /\ seen' = [seen EXCEPT ![t] = None]
             /\ ev' = [ev EXCEPT ![t] = None]
             /\ item' = [item EXCEPT ![t] = None]
             /\ UNCHANGED calls

\* Leaving the try block: its finally clause releases the key.
LeaveBody(t) ==
  IF SingleFlight
  THEN /\ Goto(t, "release")
       /\ item' = [item EXCEPT ![t] = None]
       /\ UNCHANGED <<key, calls, seen, ev>>
  ELSE Finish(t)

Begin(t, k, place) == /\ calls[t] < Bound(t)
                      /\ pc' = [pc EXCEPT ![t] = place]
                      /\ key' = [key EXCEPT ![t] = k]
                      /\ calls' = [calls EXCEPT ![t] = @ + 1]

Call(t, k) ==
  /\ t \in Callers /\ pc[t] = "idle"
  /\ \/ Begin(t, k, "lookup")
     \/ "bypass" \in Env /\ Begin(t, k, "bypass")
  /\ UNCHANGED <<seen, ev, item, registry, signalled, store, tagged, now>>

\* Caching disabled for this call: the function runs outside the cache.
BypassReturns(t) ==
  /\ pc[t] = "bypass"
  /\ Finish(t)
  /\ UNCHANGED <<registry, signalled, store, tagged, now>>

Lookup(t) ==
  /\ pc[t] = "lookup"
  /\ seen' = [seen EXCEPT ![t] = Read(key[t])]
  /\ DropIfExpired(key[t])
  /\ Goto(t, "decide")
  /\ UNCHANGED <<key, calls, ev, item, registry, signalled, now>>

\* A backend read raises out of the call, before the try block.
ReadRaises(t) ==
  /\ "get" \in Env
  /\ pc[t] \in {"lookup", "reread"}
  /\ Finish(t)
  /\ UNCHANGED <<registry, signalled, store, tagged, now>>

ServeFresh(t) ==
  /\ pc[t] = "decide"
  /\ seen[t] # None /\ Fresh(seen[t])
  /\ Finish(t)
  /\ UNCHANGED <<registry, signalled, store, tagged, now>>

\* Mutant: the stale value is served and no refresh is started.
ServeStaleOnly(t) ==
  /\ pc[t] = "decide"
  /\ seen[t] # None /\ Stale(seen[t])
  /\ Finish(t)
  /\ UNCHANGED <<registry, signalled, store, tagged, now>>

\* The stale value is returned at once; only with singleflight is a daemon
\* thread started to refresh it.
ServeStale(t) ==
  /\ pc[t] = "decide"
  /\ seen[t] # None /\ Stale(seen[t])
  /\ IF SingleFlight
     THEN \E w \in Workers :
            /\ pc[w] = "idle" /\ calls[w] < Bound(w)
            /\ pc' = [pc EXCEPT ![t] = "idle", ![w] = "refresh"]
            /\ key' = [key EXCEPT ![t] = None, ![w] = key[t]]
            /\ calls' = [calls EXCEPT ![w] = @ + 1]
            /\ seen' = [seen EXCEPT ![t] = None]
            /\ UNCHANGED <<ev, item>>
     ELSE Finish(t)
  /\ UNCHANGED <<registry, signalled, store, tagged, now>>

\* No entry, or one past its stale window.
Miss(t) ==
  /\ pc[t] = "decide"
  /\ seen[t] # None => ~Fresh(seen[t]) /\ ~Stale(seen[t])
  /\ Goto(t, IF SingleFlight THEN "acquire" ELSE "compute")
  /\ seen' = [seen EXCEPT ![t] = None]
  /\ UNCHANGED <<key, calls, ev, item, registry, signalled, store, tagged, now>>

\* Starting the daemon thread may fail; the error leaves the call.
SpawnRaises(t) ==
  /\ "threads" \in Env /\ SingleFlight
  /\ pc[t] = "decide"
  /\ seen[t] # None /\ Stale(seen[t])
  /\ Finish(t)
  /\ UNCHANGED <<registry, signalled, store, tagged, now>>

\* Mutant: a refresher does not look for a flight already open.
LeadRefreshAnyway(t) ==
  /\ pc[t] \in {"acquire", "refresh"}
  /\ registry[key[t]] = None \/ pc[t] = "refresh"
  /\ registry' = [registry EXCEPT ![key[t]] = <<t, calls[t]>>]
  /\ Goto(t, "compute")
  /\ UNCHANGED <<key, calls, seen, ev, item, signalled, store, tagged, now>>

\* acquire finds no event: the thread registers its own and leads.
Lead(t) ==
  /\ pc[t] \in {"acquire", "refresh"}
  /\ registry[key[t]] = None
  /\ registry' = [registry EXCEPT ![key[t]] = <<t, calls[t]>>]
  /\ Goto(t, "compute")
  /\ UNCHANGED <<key, calls, seen, ev, item, signalled, store, tagged, now>>

\* acquire finds an event: a caller waits for it.
Follow(t) ==
  /\ pc[t] = "acquire"
  /\ registry[key[t]] # None
  /\ ev' = [ev EXCEPT ![t] = registry[key[t]]]
  /\ Goto(t, "wait")
  /\ UNCHANGED <<key, calls, seen, item, registry, signalled, store, tagged, now>>

\* A refresher that finds an event leaves the refresh to its owner.
GiveUpRefresh(t) ==
  /\ pc[t] = "refresh"
  /\ registry[key[t]] # None
  /\ Finish(t)
  /\ UNCHANGED <<registry, signalled, store, tagged, now>>

\* Mutant: the wait gives up before the event is set.
WakeEarly(t) ==
  /\ pc[t] = "wait"
  /\ ev' = [ev EXCEPT ![t] = None]
  /\ Goto(t, "reread")
  /\ UNCHANGED <<key, calls, seen, item, registry, signalled, store, tagged, now>>

Wake(t) ==
  /\ pc[t] = "wait"
  /\ ev[t] \in signalled
  /\ ev' = [ev EXCEPT ![t] = None]
  /\ Goto(t, "reread")
  /\ UNCHANGED <<key, calls, seen, item, registry, signalled, store, tagged, now>>

\* The woken follower reads again, whatever the entry's freshness; on a miss
\* it computes although it registered nothing.
RereadHit(t) ==
  /\ pc[t] = "reread"
  /\ Read(key[t]) # None
  /\ Finish(t)
  /\ UNCHANGED <<registry, signalled, store, tagged, now>>

RereadMiss(t) ==
  /\ pc[t] = "reread"
  /\ Read(key[t]) = None
  /\ DropIfExpired(key[t])
  /\ Goto(t, "compute")
  /\ UNCHANGED <<key, calls, seen, ev, item, registry, signalled, now>>

\* Mutant: the stale window is left out of the ttl given to the backend.
ComputeValueShort(t) ==
  /\ pc[t] = "compute" /\ "value" \in Outcomes
  /\ \E ttl \in Ttls, j \in 0..Jitter :
       item' = [item EXCEPT ![t] =
         IF ttl = None \/ StaleTtl = None
         THEN [fu |-> None, life |-> ttl]
         ELSE [fu |-> now + ttl + j, life |-> ttl + j]]
  /\ Goto(t, "store")
  /\ UNCHANGED <<key, calls, seen, ev, registry, signalled, store, tagged, now>>

\* The function (with the retries the wrapper makes when it raises TypeError)
\* ends with a result to cache; its freshness is fixed now, it is stored later.
ComputeValue(t) ==
  /\ pc[t] = "compute" /\ "value" \in Outcomes
  /\ \E ttl \in Ttls, j \in 0..Jitter :
       item' = [item EXCEPT ![t] =
         IF ttl = None \/ StaleTtl = None
         THEN [fu |-> None, life |-> ttl]
         ELSE [fu |-> now + ttl + j, life |-> ttl + j + StaleTtl]]
  /\ Goto(t, "store")
  /\ UNCHANGED <<key, calls, seen, ev, registry, signalled, store, tagged, now>>

\* It ends with a result that is not cached, or raises.
ComputeNothing(t) ==
  /\ pc[t] = "compute"
  /\ Outcomes \intersect {"uncached", "raise"} # {}
  /\ LeaveBody(t)
  /\ UNCHANGED <<registry, signalled, store, tagged, now>>

Store(t) ==
  /\ pc[t] = "store"
  /\ Write(key[t], item[t])
  /\ IF HasTags
     THEN /\ Goto(t, "tag")
          /\ item' = [item EXCEPT ![t] = None]
          /\ UNCHANGED <<key, calls, seen, ev>>
     ELSE LeaveBody(t)
  /\ UNCHANGED <<registry, signalled, now>>

\* Mutant: a failed write leaves the call without releasing the key.
StoreRaisesOut(t) ==
  /\ "set" \in Env
  /\ pc[t] = "store"
  /\ Finish(t)
  /\ UNCHANGED <<registry, signalled, store, tagged, now>>

StoreRaises(t) ==
  /\ "set" \in Env
  /\ pc[t] = "store"
  /\ LeaveBody(t)
  /\ UNCHANGED <<registry, signalled, store, tagged, now>>

\* Mutant: tags are attached only by the call that made the registered event.
TagOwn(t) ==
  /\ pc[t] = "tag"
  /\ tagged' = [tagged EXCEPT ![key[t]] =
                  @ \/ (store[key[t]] # None /\ registry[key[t]] = <<t, calls[t]>>)]
  /\ LeaveBody(t)
  /\ UNCHANGED <<registry, signalled, store, now>>

\* add_tags tags the key only while the backend still holds it.
Tag(t) ==
  /\ pc[t] = "tag"
  /\ tagged' = [tagged EXCEPT ![key[t]] = @ \/ store[key[t]] # None]
  /\ LeaveBody(t)
  /\ UNCHANGED <<registry, signalled, store, now>>

\* Mutant: an error in the tags callable leaves without releasing the key.
TagsRaiseOut(t) ==
  /\ "tags" \in Env
  /\ pc[t] = "tag"
  /\ Finish(t)
  /\ UNCHANGED <<registry, signalled, store, tagged, now>>

\* The tags callable raises out of the call, or add_tags raises and the error
\* is dropped: either way the entry stays stored, without tags.
TagsRaise(t) ==
  /\ "tags" \in Env
  /\ pc[t] = "tag"
  /\ LeaveBody(t)
  /\ UNCHANGED <<registry, signalled, store, tagged, now>>

\* Mutant: the event is set and never taken out of the registry.
ReleaseKeepsEvent(t) ==
  /\ pc[t] = "release"
  /\ signalled' = signalled \union ({registry[key[t]]} \ {None})
  /\ Finish(t)
  /\ UNCHANGED <<registry, store, tagged, now>>

\* Mutant: the event is taken out and never set.
ReleaseNoSet(t) ==
  /\ pc[t] = "release"
  /\ registry' = [registry EXCEPT ![key[t]] = None]
  /\ Finish(t)
  /\ UNCHANGED <<signalled, store, tagged, now>>

\* release, under the registry's lock: take out the key's event, whoever made it.
Release(t) ==
  /\ pc[t] = "release"
  /\ registry' = [registry EXCEPT ![key[t]] = None]
  /\ IF registry[key[t]] = None
     THEN Finish(t)
     ELSE /\ ev' = [ev EXCEPT ![t] = registry[key[t]]]
          /\ Goto(t, "signal")
          /\ UNCHANGED <<key, calls, seen, item>>
  /\ UNCHANGED <<signalled, store, tagged, now>>

\* release, after the lock: set the event that was taken out.
Signal(t) ==
  /\ pc[t] = "signal"
  /\ signalled' = signalled \union {ev[t]}
  /\ Finish(t)
  /\ UNCHANGED <<registry, store, tagged, now>>
-----------------------------------------------------------------------------
(* The environment *)

Tick == /\ now < MaxTime
        /\ now' = now + 1
        /\ UNCHANGED <<threadVars, registry, signalled, store, tagged>>

Delete(k) == /\ "purge" \in Env
             /\ store[k] # None
             /\ store' = [store EXCEPT ![k] = None]
             /\ tagged' = [tagged EXCEPT ![k] = FALSE]
             /\ UNCHANGED <<threadVars, registry, signalled, now>>

\* invalidate_tags removes the key only if the tag index knows it.
Invalidate(k) == /\ "purge" \in Env
                 /\ tagged[k]
                 /\ store' = [store EXCEPT ![k] = None]
                 /\ tagged' = [tagged EXCEPT ![k] = FALSE]
                 /\ UNCHANGED <<threadVars, registry, signalled, now>>

\* The bounds stop the system once every call has ended.
AllDone == /\ \A t \in Threads : pc[t] = "idle"
           /\ \A t \in Callers : calls[t] = MaxCalls
           /\ UNCHANGED vars
-----------------------------------------------------------------------------
Step(t) ==
  \/ BypassReturns(t) \/ Lookup(t) \/ ReadRaises(t)
  \/ ServeFresh(t) \/ ServeStale(t) \/ SpawnRaises(t) \/ Miss(t)
  \/ Lead(t) \/ Follow(t) \/ GiveUpRefresh(t) \/ Wake(t)
  \/ RereadHit(t) \/ RereadMiss(t)
  \/ ComputeValue(t) \/ ComputeNothing(t)
  \/ Store(t) \/ StoreRaises(t) \/ Tag(t) \/ TagsRaise(t)
  \/ Release(t) \/ Signal(t)

Next ==
  \/ \E t \in Threads : Step(t) \/ \E k \in Keys : Call(t, k)
  \/ Tick
  \/ \E k \in Keys : Delete(k) \/ Invalidate(k)
  \/ AllDone

\* The interpreter runs every runnable thread and the function returns;
\* nothing is assumed of the clock, of new calls or of invalidations.
Fairness == \A t \in Threads : WF_vars(Step(t))

Spec     == Init /\ [][Next]_vars
FairSpec == Spec /\ Fairness
-----------------------------------------------------------------------------
(* Properties *)

\* An event is registered only while the call that made it is computing,
\* storing, tagging or about to release the key: no error path leaves an
\* event behind, on which every later miss of the key would wait for ever.
RegisteredHasLeader ==
  \A k \in Keys : registry[k] # None =>
    \E t \in Threads : /\ registry[k] = <<t, calls[t]>>
                       /\ key[t] = k
                       /\ pc[t] \in Body \union {"release"}

\* A follower's event is set, or registered, or was taken out by a thread
\* that is about to set it: release drops no event, although a thread may
\* release the key of another thread's flight.
NoLostWakeup ==
  \A t \in Threads : pc[t] = "wait" =>
    \/ ev[t] \in signalled
    \/ registry[key[t]] = ev[t]
    \/ \E u \in Threads : pc[u] = "signal" /\ ev[u] = ev[t]

\* An event that is registered is not set yet: release takes the event out
\* before it sets it, so whoever joins a flight really waits for its end.
RegisteredNotSet ==
  \A k \in Keys : registry[k] # None =>
    /\ registry[k] \notin signalled
    /\ \A u \in Threads : pc[u] = "signal" => ev[u] # registry[k]

\* Unless tagging fails, an entry without tags is one whose
\* writer has not attached them yet: invalidate_tags cannot miss an entry
\* of a call that has returned.
UntaggedHasTagger ==
  \A k \in Keys : HasTags /\ store[k] # None /\ ~tagged[k] =>
    \E t \in Threads : pc[t] = "tag" /\ key[t] = k

\* The backend keeps an enveloped value for the whole window in which the
\* wrapper may serve it: freshness is computed from one reading of the clock
\* and the expiry from a later one, and the second must not fall short.
WindowIsStored ==
  \A k \in Keys : store[k] # None /\ store[k].fu # None =>
    /\ StaleTtl # None
    /\ store[k].exp # None
    /\ store[k].exp >= store[k].fu + StaleTtl

\* At most one thread computes a key at a time.
OneComputation ==
  \A s, t \in Threads :
    pc[s] = "compute" /\ pc[t] = "compute" /\ key[s] = key[t] => s = t

\* Every call ends: no follower waits for ever, whatever the function, the
\* backend and the other callers do.
CallsReturn == \A t \in Threads : (pc[t] # "idle") ~> (pc[t] = "idle")

\* A computation of k is under way, or its flight is still open.
Computing(k) == \/ registry[k] # None
                \/ \E u \in Threads : key[u] = k /\ pc[u] \in Body

\* A caller that is about to be served a stale value leads to a refresh of the key.
StaleIsRefreshed ==
  \A t \in Threads, k \in Keys :
    (/\ pc[t] = "decide" /\ key[t] = k
     /\ seen[t] # None /\ Stale(seen[t])) ~> Computing(k)
-----------------------------------------------------------------------------
(* Refinement of the singleflight contract *)

FlightLeader == [k \in Keys |-> IF registry[k] = None THEN None ELSE registry[k][1]]

FlightRole == [t \in Threads |->
  CASE pc[t] \in Body \union {"release"} -> "lead"
    [] pc[t] \in {"wait", "reread"} -> "follow"
    [] OTHER -> "out"]

Contract == INSTANCE Flight WITH leader <- FlightLeader, role <- FlightRole

\* While every result is cacheable and stays so, the wrapper and its
\* refreshers keep the contract of singleflight.
FlightSpec == Contract!Spec
=============================================================================
