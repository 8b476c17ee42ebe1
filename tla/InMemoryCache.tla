---------------------------- MODULE InMemoryCache ---------------------------
(***************************************************************************)
(* One InMemoryCache object (cachine/backends/inmemory/cache.py) used by   *)
(* several threads.  Every method runs under the object's RLock and is one *)
(* step, except get_or_set, which takes the lock twice and calls the       *)
(* factory in between.                                                     *)
(***************************************************************************)
EXTENDS EvictionPolicies

CONSTANTS
  Tags,
  Threads,      \* threads that call get_or_set
  Policy,       \* "none", "lru" or "lfu": the eviction_policy of the constructor
  MaxSize,      \* max_size, or None
  Namespaced,   \* whether a namespace prefix is configured
  Ops,          \* the methods the application uses, a subset of AllOps
  Ttls,         \* the ttl arguments it passes, positive naturals
  MaxValue,     \* bound: counters stay within -MaxValue..MaxValue
  MaxTime       \* bound: the clock stops there

AllOps == {"get", "set", "delete", "exists", "clear", "get_or_set", "expire",
           "expire_at", "touch", "ttl", "persist", "incr", "invalidate_tags", "add_tags"}

Values == -MaxValue..MaxValue
OptNat == Nat \union {None}

ASSUME CacheAssumption ==
  /\ None \notin Int /\ None \notin Tags /\ None \notin Threads
  /\ Policy \in {"none", "lru", "lfu"}
  /\ MaxSize \in OptNat
  /\ Namespaced \in BOOLEAN
  /\ Ops \subseteq AllOps
  /\ Ttls \subseteq Nat \ {0}
  /\ MaxValue \in Nat /\ MaxTime \in Nat

VARIABLES
  store,    \* _store: the value under each key, or None
  deadline, \* _ttl: when a key expires, or None
  tagKeys,  \* _tag_to_keys
  keyTags,  \* _key_to_tags
  policy,   \* _policy: [kind, lru, lfu], the state of the policy object
  pending,  \* pending[t]: the key t is computing inside get_or_set, or None
  written,  \* history: the key the last step stored a value under, or None
  now

vars == <<store, deadline, tagKeys, keyTags, policy, pending, written, now>>

Stored == {k \in Keys : store[k] # None}

Policies == [kind : {"none", "lru", "lfu"},
             lru  : Seq(Keys),
             lfu  : [freq    : [Keys -> 0..MaxFreq],
                     buckets : [Freqs -> Seq(Keys)],
                     min     : Freqs \union {None}]]

\* Every variable keeps its type; in particular the policy's buckets and
\* frequencies hold keys only, and counters stay integers.
TypeOK ==
  /\ store \in [Keys -> Values \union {None}]
  /\ deadline \in [Keys -> OptNat]
  /\ tagKeys \in [Tags -> SUBSET Keys]
  /\ keyTags \in [Keys -> SUBSET Tags]
  /\ policy \in Policies
  /\ pending \in [Threads -> Keys \union {None}]
  /\ written \in Keys \union {None}
  /\ now \in Nat

NewPolicy(kind) == [kind |-> kind, lru |-> LruEmpty, lfu |-> LfuEmpty]

Init ==
  /\ store = [k \in Keys |-> None]
  /\ deadline = [k \in Keys |-> None]
  /\ tagKeys = [t \in Tags |-> {}]
  /\ keyTags = [k \in Keys |-> {}]
  /\ policy = NewPolicy(IF Policy = "none" /\ MaxSize \notin {None, 0} THEN "lru" ELSE Policy)
  /\ pending = [t \in Threads |-> None]
  /\ written = None
  /\ now = 0
-----------------------------------------------------------------------------
(* The policy object *)

NoteAccess(p, k) ==
  CASE p.kind = "lru" -> [p EXCEPT !.lru = LruAccess(@, k)]
    [] p.kind = "lfu" -> [p EXCEPT !.lfu = LfuAccess(@, k)]
    [] OTHER -> p

\* Mutant: _remove_key does not tell the policy.
NoteRemoveNothing(p, k) == p

NoteRemove(p, k) ==
  CASE p.kind = "lru" -> [p EXCEPT !.lru = LruRemove(@, k)]
    [] p.kind = "lfu" -> [p EXCEPT !.lfu = LfuRemove(@, k)]
    [] OTHER -> p

\* note_remove for every key of S, in any order.
NoteRemoveAll(p, S) == FoldSet(LAMBDA k, q : NoteRemove(q, k), p, S)

EvictOne(p) ==
  IF p.kind = "lru"
  THEN LET e == LruEvict(p.lru) IN [victim |-> e.victim, left |-> [p EXCEPT !.lru = e.left]]
  ELSE LET e == LfuEvict(p.lfu) IN [victim |-> e.victim, left |-> [p EXCEPT !.lfu = e.left]]

\* Keys the policy could evict.
Tracked(p) == CASE p.kind = "lru" -> ToSet(p.lru)
                [] p.kind = "lfu" -> LfuTracked(p.lfu)
                [] OTHER -> {}

\* The bound on frequencies.
MayAccess(k) == policy.kind = "lfu" => policy.lfu.freq[k] < MaxFreq

\* One round of _evict_if_needed: the keys gone so far and the policy left.
EvictRound(r) ==
  LET e == EvictOne(r.left)
  IN [gone |-> r.gone \union ({e.victim} \ {None}), left |-> e.left]

\* What n rounds do to the policy; a round without a victim ends the loop. (No key of
\* the model is the empty string, which the code takes for no victim.)
Evictions(p, n) ==
  LET round[i \in 0..n] == IF i = 0 THEN [gone |-> {}, left |-> p]
                           ELSE EvictRound(round[i - 1])
  IN round[n]
-----------------------------------------------------------------------------
(* Helpers of the cache *)

Expired(k) == deadline[k] # None /\ deadline[k] <= now

\* A key get returns.
Live(k) == store[k] # None /\ ~Expired(k)

\* tagKeys once the keys of S are taken out of the tags they know of.
Without(S) == [t \in Tags |-> tagKeys[t] \ {k \in S : t \in keyTags[k]}]

\* _remove_key for every key of S: value, deadline, tags.
Forget(S) ==
  /\ store' = [k \in Keys |-> IF k \in S THEN None ELSE store[k]]
  /\ deadline' = [k \in Keys |-> IF k \in S THEN None ELSE deadline[k]]
  /\ keyTags' = [k \in Keys |-> IF k \in S THEN {} ELSE keyTags[k]]

RemoveKeys(S) == /\ Forget(S)
                 /\ tagKeys' = Without(S)
                 /\ policy' = NoteRemoveAll(policy, S)

CleanupIfExpired(k) ==
  IF Expired(k) THEN RemoveKeys({k})
  ELSE UNCHANGED <<store, deadline, tagKeys, keyTags, policy>>

\* What is stored under k after an eviction that took the keys of gone.
WriteWith(k, v, d, e) ==
  /\ store' = [j \in Keys |-> IF j \in e.gone THEN None ELSE IF j = k THEN v ELSE store[j]]
  /\ deadline' = [j \in Keys |-> IF j \in e.gone THEN None ELSE IF j = k THEN d ELSE deadline[j]]
  /\ keyTags' = [j \in Keys |-> IF j \in e.gone THEN {} ELSE keyTags[j]]
  /\ tagKeys' = Without(e.gone)
  /\ policy' = e.left

\* _evict_if_needed for a store of the keys of S, and a policy p.
EvictIfNeeded(p, S) ==
  Evictions(p, IF MaxSize = None \/ p.kind = "none" \/ Cardinality(S) <= MaxSize THEN 0
               ELSE Cardinality(S) - MaxSize)

DeadlineOf(ttl) == IF ttl = None THEN None ELSE now + ttl

\* Mutant: the loop evicts at the size, not above it.
WriteFullIsOver(k, v, ttl) ==
  WriteWith(k, v, DeadlineOf(ttl),
            Evictions(NoteAccess(policy, k),
                      IF MaxSize = None \/ policy.kind = "none" \/ Cardinality(Stored \union {k}) < MaxSize
                      THEN 0 ELSE Cardinality(Stored \union {k}) + 1 - MaxSize))

\* Mutant: the size is taken before the key is written.
WriteMakesRoomLate(k, v, ttl) ==
  WriteWith(k, v, DeadlineOf(ttl), EvictIfNeeded(NoteAccess(policy, k), Stored))

\* Mutant: set without a ttl leaves the old deadline in place.
WriteKeepsDeadline(k, v, ttl) ==
  WriteWith(k, v, IF ttl = None THEN deadline[k] ELSE DeadlineOf(ttl),
            EvictIfNeeded(NoteAccess(policy, k), Stored \union {k}))

\* Mutant: the policy does not hear of the key.
WriteUnnoticed(k, v, ttl) ==
  WriteWith(k, v, DeadlineOf(ttl), EvictIfNeeded(policy, Stored \union {k}))

\* The write of set with ttl None or positive: the key keeps the tags it has,
\* the policy hears of it, and victims go while the store is over its size.
Write(k, v, ttl) ==
  WriteWith(k, v, DeadlineOf(ttl), EvictIfNeeded(NoteAccess(policy, k), Stored \union {k}))
-----------------------------------------------------------------------------
(* The methods *)

\* The read of get: a hit is an access, a miss removes an expired key.
Read(k) == IF Live(k)
           THEN /\ MayAccess(k)
                /\ policy' = NoteAccess(policy, k)
                /\ UNCHANGED <<store, deadline, tagKeys, keyTags>>
           ELSE CleanupIfExpired(k)

Get(k) == /\ "get" \in Ops
          /\ Read(k)
          /\ written' = None
          /\ UNCHANGED <<pending, now>>

Set(k, v, ttl) == /\ "set" \in Ops
                  /\ MayAccess(k)
                  /\ Write(k, v, ttl)
                  /\ written' = k
                  /\ UNCHANGED <<pending, now>>

\* set, expire and touch with a ttl of zero or less, and expire_at with a
\* moment that has passed, remove the key.
SetAlreadyExpired(k) == /\ Ops \intersect {"set", "expire", "expire_at", "touch"} # {}
                        /\ "set" \notin Ops => store[k] # None
                        /\ RemoveKeys({k})
                        /\ written' = None
                        /\ UNCHANGED <<pending, now>>

Delete(k) == /\ "delete" \in Ops
             /\ RemoveKeys({k})
             /\ written' = None
             /\ UNCHANGED <<pending, now>>

\* exists and ttl read without being an access.
Peek(k) == /\ Ops \intersect {"exists", "ttl"} # {}
           /\ CleanupIfExpired(k)
           /\ written' = None
           /\ UNCHANGED <<pending, now>>

\* Within a namespace every key is removed; without one the indexes are
\* emptied and the policy object is replaced by a new LRUEviction.
ClearNamespace == /\ "clear" \in Ops /\ Namespaced
                  /\ RemoveKeys(Stored)
                  /\ written' = None
                  /\ UNCHANGED <<pending, now>>

ClearAll == /\ "clear" \in Ops
            /\ Forget(Keys)
            /\ tagKeys' = [t \in Tags |-> {}]
            /\ policy' = IF policy.kind = "none" THEN policy
                         ELSE NewPolicy(IF MaxSize \notin {None, 0} THEN "lru" ELSE "none")
            /\ written' = None
            /\ UNCHANGED <<pending, now>>

GetOrSetReads(t, k) ==
  /\ "get_or_set" \in Ops
  /\ pending[t] = None
  /\ Read(k)
  /\ pending' = [pending EXCEPT ![t] = IF Live(k) THEN None ELSE k]
  /\ written' = None
  /\ UNCHANGED now

\* The factory has returned v; set is called whatever happened meanwhile.
GetOrSetStores(t, v, ttl) ==
  /\ pending[t] # None
  /\ MayAccess(pending[t])
  /\ Write(pending[t], v, ttl)
  /\ pending' = [pending EXCEPT ![t] = None]
  /\ written' = pending[t]
  /\ UNCHANGED now

\* The same with a ttl of zero or less.
GetOrSetRemoves(t) ==
  /\ pending[t] # None
  /\ RemoveKeys({pending[t]})
  /\ pending' = [pending EXCEPT ![t] = None]
  /\ written' = None
  /\ UNCHANGED now

GetOrSetRaises(t) ==
  /\ pending[t] # None
  /\ pending' = [pending EXCEPT ![t] = None]
  /\ written' = None
  /\ UNCHANGED <<store, deadline, tagKeys, keyTags, policy, now>>

\* expire, expire_at and touch ask only whether the store holds the key.
Expire(k, ttl) == /\ Ops \intersect {"expire", "expire_at", "touch"} # {}
                  /\ store[k] # None
                  /\ deadline' = [deadline EXCEPT ![k] = now + ttl]
                  /\ written' = None
                  /\ UNCHANGED <<store, tagKeys, keyTags, policy, pending, now>>

Persist(k) == /\ "persist" \in Ops
              /\ store[k] # None
              /\ deadline' = [deadline EXCEPT ![k] = None]
              /\ written' = None
              /\ UNCHANGED <<store, tagKeys, keyTags, policy, pending, now>>

\* incr and decr add to what the store holds, expired or not; the ttl counts
\* only for a new key; the policy does not hear of it and nothing is evicted.
Incr(k, delta, ttl) ==
  LET value == (IF store[k] = None THEN 0 ELSE store[k]) + delta IN
  /\ "incr" \in Ops
  /\ value \in Values
  /\ store' = [store EXCEPT ![k] = value]
  /\ deadline' = [deadline EXCEPT ![k] = IF store[k] = None /\ ttl # None THEN now + ttl ELSE @]
  /\ written' = k
  /\ UNCHANGED <<tagKeys, keyTags, policy, pending, now>>

InvalidateTags(T) == /\ "invalidate_tags" \in Ops
                     /\ LET S == (UNION {tagKeys[t] : t \in T}) \intersect Stored IN
                        /\ Forget(S)
                        /\ tagKeys' = [t \in Tags |-> IF t \in T THEN {} ELSE Without(S)[t]]
                        /\ policy' = NoteRemoveAll(policy, S)
                     /\ written' = None
                     /\ UNCHANGED <<pending, now>>

\* Mutant: the tags a key has are replaced.
AddTagsReplaces(k, T) ==
  /\ "add_tags" \in Ops
  /\ store[k] # None
  /\ tagKeys' = [t \in Tags |-> IF t \in T THEN tagKeys[t] \union {k} ELSE tagKeys[t]]
  /\ keyTags' = [keyTags EXCEPT ![k] = T]
  /\ written' = None
  /\ UNCHANGED <<store, deadline, policy, pending, now>>

\* add_tags asks only whether the store holds the key.
AddTags(k, T) == /\ "add_tags" \in Ops
                 /\ store[k] # None
                 /\ tagKeys' = [t \in Tags |-> IF t \in T THEN tagKeys[t] \union {k} ELSE tagKeys[t]]
                 /\ keyTags' = [keyTags EXCEPT ![k] = @ \union T]
                 /\ written' = None
                 /\ UNCHANGED <<store, deadline, policy, pending, now>>

Tick == /\ now < MaxTime
        /\ now' = now + 1
        /\ written' = None
        /\ UNCHANGED <<store, deadline, tagKeys, keyTags, policy, pending>>

OnKey(k) ==
  \/ Get(k) \/ Delete(k) \/ Peek(k) \/ SetAlreadyExpired(k) \/ Persist(k)
  \/ \E v \in {0}, ttl \in Ttls \union {None} : Set(k, v, ttl)
  \/ \E ttl \in Ttls : Expire(k, ttl)
  \/ \E delta \in {-1, 1}, ttl \in Ttls \union {None} : Incr(k, delta, ttl)
  \/ \E T \in SUBSET Tags : AddTags(k, T)

Next ==
  \/ \E k \in Keys : OnKey(k)
  \/ \E T \in SUBSET Tags : InvalidateTags(T)
  \/ ClearNamespace \/ ClearAll
  \/ \E t \in Threads : \/ \E k \in Keys : GetOrSetReads(t, k)
                        \/ \E ttl \in Ttls \union {None} : GetOrSetStores(t, 0, ttl)
                        \/ GetOrSetRemoves(t) \/ GetOrSetRaises(t)
  \/ Tick

Spec == Init /\ [][Next]_vars
-----------------------------------------------------------------------------
(* Properties *)

\* The two tag indexes agree, and only stored keys have tags or deadlines:
\* invalidate_tags finds every tagged key, and a key stored anew after a
\* removal does not inherit what its predecessor had.
IndexesAgree ==
  /\ \A k \in Keys, t \in Tags : k \in tagKeys[t] <=> t \in keyTags[k]
  /\ \A k \in Keys : store[k] = None => keyTags[k] = {} /\ deadline[k] = None

\* The policy never offers a victim that is not in the store: each round of
\* the eviction loop makes room, and a policy object does not leak keys.
TrackedAreStored == Tracked(policy) \subseteq Stored

\* With a policy, a store filled by set and get_or_set holds no key the policy could not evict.
StoredAreTracked == policy.kind # "none" => Stored \subseteq Tracked(policy)

\* The store never holds more keys than max_size.
SizeBound == MaxSize \notin {None, 0} => Cardinality(Stored) <= MaxSize

\* A value is there once the call that stored it has returned: the eviction
\* that ends set does not pick the key just written.
JustSetIsKept == written # None => Live(written)

\* Whoever removes k on purpose.
Removes(k) == \/ Delete(k) \/ SetAlreadyExpired(k) \/ ClearNamespace \/ ClearAll
              \/ \E t \in Threads : pending[t] = k /\ GetOrSetRemoves(t)
              \/ \E T \in SUBSET Tags : InvalidateTags(T) /\ keyTags[k] \intersect T # {}

\* A key nobody removed and that has not expired goes only to make room: the
\* store is exactly full afterwards.
EvictsOnlyWhenFull ==
  [][\A k \in Keys : Live(k) /\ store'[k] = None /\ ~Removes(k)
       => Cardinality(Stored') = MaxSize]_vars

-----------------------------------------------------------------------------
(* Refinement of the cache contract *)

Contract == INSTANCE CacheContract WITH
  Deltas   <- {-1, 1},
  value    <- [k \in Keys |-> IF Live(k) THEN store[k] ELSE None],
  deadline <- [k \in Keys |-> IF Live(k) THEN deadline[k] ELSE None]

\* An application that stores, reads, tags and removes sees a cache in which
\* expired keys are missing and only storing drops others.
ContractSpec == Contract!Spec
=============================================================================
