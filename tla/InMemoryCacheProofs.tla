------------------------- MODULE InMemoryCacheProofs ------------------------
(***************************************************************************)
(* Proofs about InMemoryCache, for any keys, tags, threads, policy, size   *)
(* and set of methods.                                                     *)
(***************************************************************************)
EXTENDS InMemoryCache, EvictionProofs

\* Values, deadlines and the two indexes are kept per key or per tag.
Shape == /\ DOMAIN store = Keys
         /\ DOMAIN deadline = Keys
         /\ DOMAIN tagKeys = Tags
         /\ DOMAIN keyTags = Keys

IndexInv == Shape /\ IndexesAgree

\* A step that leaves values, deadlines and indexes alone keeps the invariant.
LEMMA IdleAgrees ==
  ASSUME IndexInv, UNCHANGED <<store, deadline, tagKeys, keyTags>>
  PROVE  IndexInv'
BY DEF IndexInv, Shape, IndexesAgree

\* Removing keys takes them out of both indexes, whatever the set of keys.
LEMMA RemoveAgrees ==
  ASSUME IndexInv, NEW S, Forget(S), tagKeys' = Without(S)
  PROVE  IndexInv'
BY DEF IndexInv, Shape, IndexesAgree, Forget, Without

\* So does collecting an expired key.
LEMMA CleanupAgrees ==
  ASSUME IndexInv, NEW k \in Keys, CleanupIfExpired(k)
  PROVE  IndexInv'
BY RemoveAgrees, IdleAgrees DEF CleanupIfExpired, RemoveKeys

\* Writing a value leaves the tags of the keys that stay, and takes those the
\* policy gave up out of every index, whichever the policy chose.
LEMMA WriteAgrees ==
  ASSUME IndexInv, NEW k \in Keys, NEW v, v # None, NEW ttl, Write(k, v, ttl)
  PROVE  IndexInv'
<1> PICK d, e : WriteWith(k, v, d, e)
  BY DEF Write
<1> QED BY DEF WriteWith, IndexInv, Shape, IndexesAgree, Without

\* A read changes nothing or collects the key.
LEMMA ReadAgrees ==
  ASSUME IndexInv, NEW k \in Keys, Read(k)
  PROVE  IndexInv'
BY CleanupAgrees, IdleAgrees DEF Read

\* Invalidation empties the tags it is given and forgets every stored key they
\* lead to; a key that is not stored is in no tag.
LEMMA InvalidateAgrees ==
  ASSUME IndexInv, NEW T \in SUBSET Tags, InvalidateTags(T)
  PROVE  IndexInv'
<1> DEFINE Found == UNION {tagKeys[t] : t \in T}
           S == Found \intersect Stored
<1>1. Forget(S) /\ tagKeys' = [t \in Tags |-> IF t \in T THEN {} ELSE Without(S)[t]]
  BY DEF InvalidateTags
<1>2. ASSUME NEW k \in Keys, NEW t \in T, k \in tagKeys[t] PROVE k \in S
  <2>1. t \in keyTags[k]
    BY <1>2 DEF IndexInv, IndexesAgree
  <2>2. k \in Stored
    BY <2>1 DEF Stored, IndexInv, IndexesAgree
  <2>3. k \in Found
    BY <1>2, Zenon
  <2> HIDE DEF Found
  <2> QED BY <2>2, <2>3
<1>3. \A k \in Keys, t \in T : t \notin keyTags'[k]
  BY <1>1, <1>2 DEF Forget, IndexInv, IndexesAgree
<1>4. \A k \in Keys, t \in Tags \ T : k \in tagKeys'[t] <=> t \in keyTags'[k]
  BY <1>1 DEF Forget, Without, IndexInv, IndexesAgree
<1>5. \A k \in Keys, t \in T : k \notin tagKeys'[t]
  BY <1>1
<1> HIDE DEF S
<1>6. \A k \in Keys : store'[k] = None => keyTags'[k] = {} /\ deadline'[k] = None
  BY <1>1 DEF Forget, IndexInv, IndexesAgree
<1> QED BY <1>1, <1>3, <1>4, <1>5, <1>6 DEF Forget, IndexInv, Shape, IndexesAgree

\* Tagging a stored key enters it in both indexes.
LEMMA TagAgrees ==
  ASSUME IndexInv, NEW k \in Keys, NEW T \in SUBSET Tags, AddTags(k, T)
  PROVE  IndexInv'
BY DEF AddTags, IndexInv, Shape, IndexesAgree

\* The methods on one key keep the invariant.
LEMMA KeyAgrees ==
  ASSUME IndexInv, NEW k \in Keys, OnKey(k)
  PROVE  IndexInv'
<1>1. CASE Get(k) BY <1>1, ReadAgrees DEF Get
<1>2. CASE Delete(k) BY <1>2, RemoveAgrees DEF Delete, RemoveKeys
<1>3. CASE Peek(k) BY <1>3, CleanupAgrees DEF Peek
<1>4. CASE SetAlreadyExpired(k) BY <1>4, RemoveAgrees DEF SetAlreadyExpired, RemoveKeys
<1>5. CASE Persist(k) BY <1>5 DEF Persist, IndexInv, Shape, IndexesAgree
<1>6. CASE \E v \in {0}, ttl \in Ttls \union {None} : Set(k, v, ttl)
  BY <1>6, WriteAgrees, CacheAssumption DEF Set
<1>7. CASE \E ttl \in Ttls : Expire(k, ttl)
  BY <1>7 DEF Expire, IndexInv, Shape, IndexesAgree
<1>8. CASE \E delta \in {-1, 1}, ttl \in Ttls \union {None} : Incr(k, delta, ttl)
  <2>1. PICK delta \in {-1, 1}, ttl \in Ttls \union {None} : Incr(k, delta, ttl)
    BY <1>8
  <2>2. PICK value \in Values :
           /\ store' = [store EXCEPT ![k] = value]
           /\ UNCHANGED <<tagKeys, keyTags>>
           /\ deadline' = [deadline EXCEPT ![k] = IF store[k] = None /\ ttl # None THEN now + ttl ELSE @]
    BY <2>1 DEF Incr
  <2>3. value # None
    BY CacheAssumption DEF Values
  <2> QED BY <2>2, <2>3 DEF IndexInv, Shape, IndexesAgree
<1>9. CASE \E T \in SUBSET Tags : AddTags(k, T)
  BY <1>9, TagAgrees
<1> QED BY <1>1, <1>2, <1>3, <1>4, <1>5, <1>6, <1>7, <1>8, <1>9 DEF OnKey

\* So does every step.
LEMMA NextAgrees ==
  ASSUME IndexInv, pending \in [Threads -> Keys \union {None}], [Next]_vars
  PROVE  IndexInv'
<1>1. CASE \E k \in Keys : OnKey(k)
  BY <1>1, KeyAgrees
<1>2. CASE \E T \in SUBSET Tags : InvalidateTags(T)
  BY <1>2, InvalidateAgrees
<1>3. CASE ClearNamespace
  BY <1>3, RemoveAgrees DEF ClearNamespace, RemoveKeys
<1>4. CASE ClearAll
  BY <1>4 DEF ClearAll, Forget, IndexInv, Shape, IndexesAgree
<1>5. CASE \E t \in Threads, k \in Keys : GetOrSetReads(t, k)
  BY <1>5, ReadAgrees DEF GetOrSetReads
<1>6. CASE \E t \in Threads, ttl \in Ttls \union {None} : GetOrSetStores(t, 0, ttl)
  BY <1>6, WriteAgrees, CacheAssumption DEF GetOrSetStores
<1>7. CASE \E t \in Threads : GetOrSetRemoves(t)
  BY <1>7, RemoveAgrees DEF GetOrSetRemoves, RemoveKeys
<1>8. CASE \E t \in Threads : GetOrSetRaises(t)
  BY <1>8, IdleAgrees DEF GetOrSetRaises
<1>9. CASE Tick \/ UNCHANGED vars
  BY <1>9, IdleAgrees DEF Tick, vars
<1> QED BY <1>1, <1>2, <1>3, <1>4, <1>5, <1>6, <1>7, <1>8, <1>9 DEF Next

\* get_or_set computes a key of the cache.
LEMMA PendingType == Spec => [](pending \in [Threads -> Keys \union {None}])
<1> DEFINE PendingOK == pending \in [Threads -> Keys \union {None}]
<1>1. Init => PendingOK
  BY DEF Init
<1>2. PendingOK /\ [Next]_vars => PendingOK'
  BY DEF Next, vars, OnKey, Get, Delete, Peek, SetAlreadyExpired, Persist, Set, Expire, Incr, AddTags,
         InvalidateTags, ClearNamespace, ClearAll, GetOrSetReads, GetOrSetStores, GetOrSetRemoves,
         GetOrSetRaises, Tick
<1> QED BY <1>1, <1>2, PTL DEF Spec

LEMMA IndexInvHolds == Spec => []IndexInv
<1>1. Init => IndexInv
  BY DEF Init, IndexInv, Shape, IndexesAgree
<1>2. IndexInv /\ pending \in [Threads -> Keys \union {None}] /\ [Next]_vars => IndexInv'
  BY NextAgrees
<1> QED BY <1>1, <1>2, PendingType, PTL DEF Spec

\* Whatever the policy evicts and whatever expires in between, the two tag
\* indexes agree and only stored keys have tags and deadlines.
THEOREM IndexesStayInStep == Spec => []IndexesAgree
<1>1. IndexInv => IndexesAgree
  BY DEF IndexInv
<1> QED BY <1>1, IndexInvHolds, PTL
-----------------------------------------------------------------------------
(* The policy object *)

\* A policy object in a state its methods lead to.
PolicyInv(p) == p \in Policies /\ Distinct(p.lru) /\ LfuInv(p.lfu)

LEMMA NewPolicyFacts ==
  ASSUME NEW kind \in {"none", "lru", "lfu"}
  PROVE  PolicyInv(NewPolicy(kind)) /\ Tracked(NewPolicy(kind)) = {} /\ NewPolicy(kind).kind = kind
<1>1. <<>> \in Seq(Keys) /\ Len(<<>>) = 0
  OBVIOUS
<1>2. Distinct(<<>>) /\ ToSet(<<>>) = {}
  BY <1>1, ElementsOf DEF Distinct
<1>3. LfuInv(LfuEmpty) /\ LfuTracked(LfuEmpty) = {}
  BY LfuEmptyInv
<1>4. NewPolicy(kind) = [kind |-> kind, lru |-> <<>>, lfu |-> LfuEmpty]
  BY DEF NewPolicy, LruEmpty
<1> QED BY <1>1, <1>2, <1>3, <1>4 DEF PolicyInv, Policies, LfuInv, Tracked

LEMMA NoteAccessFacts ==
  ASSUME NEW p, PolicyInv(p), NEW k \in Keys, p.kind = "lfu" => p.lfu.freq[k] < MaxFreq
  PROVE  /\ PolicyInv(NoteAccess(p, k)) /\ NoteAccess(p, k).kind = p.kind
         /\ p.kind # "none" => Tracked(NoteAccess(p, k)) = Tracked(p) \union {k}
         /\ p.kind = "lru" => \A b \in Tracked(p) \ {k} : Before(NoteAccess(p, k).lru, b, k)
<1> DEFINE q == NoteAccess(p, k)
<1>1. CASE p.kind = "none"
  BY <1>1 DEF NoteAccess
<1>2. CASE p.kind = "lru"
  <2> DEFINE rest == RemoveFirst(p.lru, k)
  <2>1. p.lru \in Seq(Keys) /\ Distinct(p.lru)
    BY DEF PolicyInv, Policies
  <2>2. rest \in Seq(Keys) /\ Distinct(rest) /\ ToSet(rest) = ToSet(p.lru) \ {k}
    BY <2>1, RemoveFirstFacts
  <2>3. q.lru = Append(rest, k) /\ q.kind = "lru" /\ q.lfu = p.lfu
        /\ q = [kind |-> q.kind, lru |-> q.lru, lfu |-> q.lfu]
    BY <1>2 DEF NoteAccess, LruAccess, PolicyInv, Policies
  <2> HIDE DEF rest, q
  <2>4. /\ q.lru \in Seq(Keys) /\ Distinct(q.lru) /\ ToSet(q.lru) = ToSet(rest) \union {k}
        /\ \A a, b : Before(q.lru, a, b) <=> Before(rest, a, b) \/ (a \in ToSet(rest) /\ b = k)
    BY <2>2, <2>3, AppendFacts
  <2>5. PolicyInv(q)
    BY <2>3, <2>4 DEF PolicyInv, Policies
  <2>6. Tracked(q) = Tracked(p) \union {k} /\ Tracked(p) = ToSet(p.lru)
    BY <1>2, <2>2, <2>3, <2>4 DEF Tracked
  <2>7. \A b \in Tracked(p) \ {k} : Before(q.lru, b, k)
    BY <2>2, <2>4, <2>6
  <2> QED BY <1>2, <2>3, <2>5, <2>6, <2>7 DEF q
<1>3. CASE p.kind = "lfu"
  <2>1. /\ LfuInv(LfuAccess(p.lfu, k))
        /\ LfuTracked(LfuAccess(p.lfu, k)) = LfuTracked(p.lfu) \union {k}
    BY <1>3, LfuAccessFacts DEF PolicyInv
  <2>2. q.lru = p.lru /\ q.kind = "lfu" /\ q.lfu = LfuAccess(p.lfu, k)
        /\ q = [kind |-> q.kind, lru |-> q.lru, lfu |-> q.lfu]
    BY <1>3 DEF NoteAccess, PolicyInv, Policies
  <2> HIDE DEF q
  <2>3. q.lfu \in [freq : [Keys -> 0..MaxFreq], buckets : [Freqs -> Seq(Keys)], min : Freqs \union {None}]
    BY <2>1, <2>2 DEF LfuInv
  <2>4. PolicyInv(q)
    BY <2>1, <2>2, <2>3 DEF PolicyInv, Policies
  <2>5. Tracked(q) = Tracked(p) \union {k}
    BY <1>3, <2>1, <2>2 DEF Tracked
  <2> QED BY <1>3, <2>2, <2>4, <2>5 DEF q
<1> QED BY <1>1, <1>2, <1>3 DEF PolicyInv, Policies

LEMMA NoteRemoveFacts ==
  ASSUME NEW p, PolicyInv(p), NEW k \in Keys
  PROVE  /\ PolicyInv(NoteRemove(p, k)) /\ NoteRemove(p, k).kind = p.kind
         /\ Tracked(NoteRemove(p, k)) = Tracked(p) \ {k}
<1> DEFINE q == NoteRemove(p, k)
<1>1. CASE p.kind = "none"
  BY <1>1 DEF NoteRemove, Tracked
<1>2. CASE p.kind = "lru"
  <2>1. p.lru \in Seq(Keys) /\ Distinct(p.lru)
    BY DEF PolicyInv, Policies
  <2>2. q.lru = RemoveFirst(p.lru, k) /\ q.kind = "lru" /\ q.lfu = p.lfu
        /\ q = [kind |-> q.kind, lru |-> q.lru, lfu |-> q.lfu]
    BY <1>2 DEF NoteRemove, LruRemove, PolicyInv, Policies
  <2> HIDE DEF q
  <2>3. q.lru \in Seq(Keys) /\ Distinct(q.lru) /\ ToSet(q.lru) = ToSet(p.lru) \ {k}
    BY <2>1, <2>2, RemoveFirstFacts
  <2>4. PolicyInv(q) /\ Tracked(q) = Tracked(p) \ {k}
    BY <1>2, <2>2, <2>3 DEF PolicyInv, Policies, Tracked
  <2> QED BY <1>2, <2>2, <2>4 DEF q
<1>3. CASE p.kind = "lfu"
  <2>1. /\ LfuInv(LfuRemove(p.lfu, k))
        /\ LfuTracked(LfuRemove(p.lfu, k)) = LfuTracked(p.lfu) \ {k}
    BY LfuRemoveFacts DEF PolicyInv
  <2>2. q.lru = p.lru /\ q.kind = "lfu" /\ q.lfu = LfuRemove(p.lfu, k)
        /\ q = [kind |-> q.kind, lru |-> q.lru, lfu |-> q.lfu]
    BY <1>3 DEF NoteRemove, PolicyInv, Policies
  <2> HIDE DEF q
  <2>3. q.lfu \in [freq : [Keys -> 0..MaxFreq], buckets : [Freqs -> Seq(Keys)], min : Freqs \union {None}]
    BY <2>1, <2>2 DEF LfuInv
  <2>4. PolicyInv(q) /\ Tracked(q) = Tracked(p) \ {k}
    BY <1>3, <2>1, <2>2, <2>3 DEF PolicyInv, Policies, Tracked
  <2> QED BY <1>3, <2>2, <2>4 DEF q
<1> QED BY <1>1, <1>2, <1>3 DEF PolicyInv, Policies

\* evict_one gives up one key it tracks, or none if it tracks none; LRUEviction
\* gives up one that came before every other.
LEMMA EvictOneFacts ==
  ASSUME NEW p, PolicyInv(p), p.kind # "none"
  PROVE  LET v == EvictOne(p).victim
             q == EvictOne(p).left
         IN  /\ PolicyInv(q) /\ q.kind = p.kind
             /\ Tracked(p) = {} => v = None /\ Tracked(q) = {}
             /\ Tracked(p) # {} => v \in Tracked(p) /\ Tracked(q) = Tracked(p) \ {v}
             /\ p.kind = "lru" /\ Tracked(p) # {} =>
                  /\ \A b \in Tracked(p) \ {v} : Before(p.lru, v, b)
                  /\ \A a, b : Before(q.lru, a, b) <=> Before(p.lru, a, b) /\ a # v /\ b # v
<1> DEFINE v == EvictOne(p).victim
           q == EvictOne(p).left
<1>1. CASE p.kind = "lru"
  <2> DEFINE s == p.lru
  <2>1. s \in Seq(Keys) /\ Distinct(s) /\ Tracked(p) = ToSet(s)
    BY <1>1 DEF PolicyInv, Policies, Tracked
  <2>2. v = LruEvict(s).victim /\ q = [p EXCEPT !.lru = LruEvict(s).left]
    BY <1>1 DEF EvictOne
  <2>3. q.lru = LruEvict(s).left /\ q.kind = "lru" /\ q.lfu = p.lfu
        /\ q = [kind |-> q.kind, lru |-> q.lru, lfu |-> q.lfu]
    BY <1>1, <2>2 DEF PolicyInv, Policies
  <2> HIDE DEF q, v, s
  <2>4. CASE s = <<>>
    <3>1. v = None /\ q.lru = s
      BY <2>2, <2>3, <2>4 DEF LruEvict
    <3>2. Tracked(p) = {} /\ Tracked(q) = {}
      BY <2>1, <2>3, <2>4, <3>1, ElementsOf DEF Tracked
    <3>3. PolicyInv(q)
      BY <2>1, <2>3, <3>1 DEF PolicyInv, Policies
    <3> QED BY <1>1, <2>3, <3>1, <3>2, <3>3 DEF q, v
  <2>5. CASE s # <<>>
    <3>1. v = Head(s) /\ q.lru = Tail(s)
      BY <2>2, <2>3, <2>5 DEF LruEvict
    <3>2. /\ v \in ToSet(s) /\ q.lru = RemoveFirst(s, v)
          /\ \A b \in ToSet(s) \ {v} : Before(s, v, b)
      BY <2>1, <2>5, <3>1, HeadFacts
    <3>3. /\ q.lru \in Seq(Keys) /\ Distinct(q.lru) /\ ToSet(q.lru) = ToSet(s) \ {v}
          /\ \A a, b : Before(q.lru, a, b) <=> Before(s, a, b) /\ a # v /\ b # v
      BY <2>1, <3>2, RemoveFirstFacts
    <3>4. PolicyInv(q)
      BY <2>3, <3>3 DEF PolicyInv, Policies
    <3>5. Tracked(q) = Tracked(p) \ {v} /\ Tracked(p) # {}
      BY <2>1, <2>3, <3>2, <3>3 DEF Tracked
    <3> QED BY <1>1, <2>1, <2>3, <3>2, <3>3, <3>4, <3>5 DEF q, v, s
  <2> QED BY <2>4, <2>5
<1>2. CASE p.kind = "lfu"
  <2> DEFINE f == p.lfu
  <2>1. LfuInv(f) /\ Tracked(p) = LfuTracked(f)
    BY <1>2 DEF PolicyInv, Tracked
  <2>2. v = LfuEvict(f).victim /\ q = [p EXCEPT !.lfu = LfuEvict(f).left]
    BY <1>2 DEF EvictOne
  <2>3. q.lfu = LfuEvict(f).left /\ q.kind = "lfu" /\ q.lru = p.lru
        /\ q = [kind |-> q.kind, lru |-> q.lru, lfu |-> q.lfu]
    BY <1>2, <2>2 DEF PolicyInv, Policies
  <2> HIDE DEF q, v, f
  <2>4. /\ Tracked(p) = {} => v = None /\ q.lfu = f
        /\ Tracked(p) # {} => v \in Tracked(p) /\ q.lfu = LfuRemove(f, v)
    BY <2>1, <2>2, <2>3, LfuEvictFacts
  <2>5. Tracked(p) \subseteq Keys
    BY <2>1 DEF LfuTracked
  <2>6. /\ LfuInv(q.lfu) /\ Tracked(p) = {} => Tracked(q) = {}
        /\ Tracked(p) # {} => Tracked(q) = Tracked(p) \ {v}
    <3>1. CASE Tracked(p) = {} BY <2>1, <2>3, <2>4, <3>1 DEF Tracked
    <3>2. CASE Tracked(p) # {}
      <4>1. v \in Keys /\ q.lfu = LfuRemove(f, v)
        BY <2>4, <2>5, <3>2
      <4>2. LfuTracked(q.lfu) = LfuTracked(f) \ {v}
        BY <2>1, <4>1, LfuRemoveFacts
      <4> QED BY <2>1, <2>3, <3>2, <4>2 DEF Tracked
    <3> QED BY <3>1, <3>2
  <2>7. LfuInv(q.lfu)
    <3>1. CASE Tracked(p) = {} BY <2>1, <2>4, <3>1
    <3>2. CASE Tracked(p) # {}
      <4>1. v \in Keys /\ q.lfu = LfuRemove(f, v)
        BY <2>4, <2>5, <3>2
      <4>2. LfuInv(LfuRemove(f, v))
        BY <2>1, <4>1, LfuRemoveFacts
      <4> QED BY <4>1, <4>2
    <3> QED BY <3>1, <3>2
  <2>8. q.lfu \in [freq : [Keys -> 0..MaxFreq], buckets : [Freqs -> Seq(Keys)], min : Freqs \union {None}]
    BY <2>7 DEF LfuInv
  <2>9. PolicyInv(q)
    BY <2>3, <2>7, <2>8 DEF PolicyInv, Policies
  <2> QED BY <1>2, <2>3, <2>4, <2>6, <2>9, <2>7 DEF q, v
<1> QED BY <1>1, <1>2 DEF PolicyInv, Policies

\* note_remove for the keys of a finite set, in whichever order.
LEMMA NoteRemoveAllFacts ==
  ASSUME NEW p, PolicyInv(p), NEW S \in SUBSET Keys, IsFiniteSet(S)
  PROVE  /\ PolicyInv(NoteRemoveAll(p, S)) /\ NoteRemoveAll(p, S).kind = p.kind
         /\ Tracked(NoteRemoveAll(p, S)) = Tracked(p) \ S
<1> DEFINE any(u) == CHOOSE k \in u : TRUE
           Small(n) == {u \in SUBSET S : Cardinality(u) <= n}
           Fold(f, D) == f = [u \in D |-> IF u = {} THEN p ELSE NoteRemove(f[u \ {any(u)}], any(u))]
           iter == CHOOSE f : Fold(f, SUBSET S)
<1>1. NoteRemoveAll(p, S) = iter[S]
  BY DEF NoteRemoveAll, FoldSet, MapThenFoldSet
<1>2. ASSUME NEW u \in SUBSET S, u # {}
      PROVE  /\ any(u) \in u /\ u \ {any(u)} \in SUBSET S
             /\ Cardinality(u) \in Nat \ {0} /\ Cardinality(u \ {any(u)}) = Cardinality(u) - 1
  <2>1. any(u) \in u
    BY <1>2
  <2> HIDE DEF any
  <2>2. IsFiniteSet(u) /\ Cardinality(u) \in Nat
    BY FS_Subset, FS_CardinalityType
  <2>3. Cardinality(u \ {any(u)}) = Cardinality(u) - 1
    BY <2>1, <2>2, FS_RemoveElement
  <2>4. Cardinality(u) # 0
    BY <1>2, <2>2, FS_EmptySet
  <2> QED BY <2>1, <2>2, <2>3, <2>4
<1> HIDE DEF any
<1>3. \E f : Fold(f, SUBSET S)
  <2> DEFINE A == {n \in Nat : \E f : Fold(f, Small(n))}
  <2>1. 0 \in A
    <3>1. ASSUME NEW u \in Small(0) PROVE u = {}
      <4> SUFFICES ASSUME u # {} PROVE FALSE
        OBVIOUS
      <4>1. u \in SUBSET S /\ Cardinality(u) <= 0
        OBVIOUS
      <4>2. Cardinality(u) \in Nat \ {0}
        BY <1>2, <4>1, Zenon
      <4> QED BY <4>1, <4>2
    <3>2. Fold([u \in Small(0) |-> p], Small(0))
      BY <3>1
    <3> QED BY <3>2
  <2>2. ASSUME NEW n \in Nat, n \in A PROVE n + 1 \in A
    <3>1. PICK f : Fold(f, Small(n))
      BY <2>2
    <3> DEFINE g == [u \in Small(n + 1) |-> IF u = {} THEN p ELSE NoteRemove(f[u \ {any(u)}], any(u))]
    <3>2. ASSUME NEW u \in Small(n) PROVE u \in Small(n + 1) /\ g[u] = f[u]
      <4>1. u \in SUBSET S /\ Cardinality(u) <= n
        OBVIOUS
      <4>2. u \in Small(n + 1)
        <5>1. Cardinality(u) \in Nat
          BY <4>1, FS_Subset, FS_CardinalityType
        <5> QED BY <4>1, <5>1
      <4>3. f[u] = IF u = {} THEN p ELSE NoteRemove(f[u \ {any(u)}], any(u))
        BY <3>1
      <4> QED BY <4>2, <4>3
    <3>3. ASSUME NEW u \in Small(n + 1), u # {} PROVE u \ {any(u)} \in Small(n)
      BY <1>2, <3>3
    <3>4. Fold(g, Small(n + 1))
      <4>1. ASSUME NEW u \in Small(n + 1), u # {} PROVE g[u \ {any(u)}] = f[u \ {any(u)}]
        BY <3>2, <3>3, <4>1
      <4> QED BY <4>1
    <3> HIDE DEF g, Fold, Small
    <3>5. \E h : Fold(h, Small(n + 1))
      BY <3>4
    <3> QED BY <3>5
  <2>3. Nat \subseteq A
    <3> HIDE DEF A
    <3> QED BY <2>1, <2>2, SetInduction
  <2>4. Cardinality(S) \in Nat /\ Small(Cardinality(S)) = SUBSET S
    BY FS_Subset, FS_CardinalityType
  <2> QED BY <2>3, <2>4
<1>4. Fold(iter, SUBSET S)
  BY <1>3
<1> HIDE DEF iter
<1> DEFINE Good(u) == /\ PolicyInv(iter[u]) /\ iter[u].kind = p.kind
                      /\ Tracked(iter[u]) = Tracked(p) \ u
           B == {n \in Nat : \A u \in SUBSET S : Cardinality(u) = n => Good(u)}
<1>5. ASSUME NEW u \in SUBSET S, u # {}, Good(u \ {any(u)}) PROVE Good(u)
  <2>1. iter[u] = NoteRemove(iter[u \ {any(u)}], any(u))
    BY <1>4, <1>5
  <2>2. any(u) \in Keys /\ any(u) \in u
    BY <1>2, <1>5
  <2> DEFINE q == iter[u \ {any(u)}]
  <2>3. PolicyInv(q) /\ q.kind = p.kind /\ Tracked(q) = Tracked(p) \ (u \ {any(u)})
    BY <1>5
  <2> HIDE DEF q
  <2>4. PolicyInv(NoteRemove(q, any(u))) /\ NoteRemove(q, any(u)).kind = p.kind
        /\ Tracked(NoteRemove(q, any(u))) = Tracked(q) \ {any(u)}
    BY <2>2, <2>3, NoteRemoveFacts
  <2>5. Tracked(q) \ {any(u)} = Tracked(p) \ u
    BY <2>2, <2>3
  <2>6. iter[u] = NoteRemove(q, any(u))
    BY <2>1 DEF q
  <2> QED BY <2>4, <2>5, <2>6
<1>6. Good({})
  <2>1. iter[{}] = p
    BY <1>4
  <2> QED BY <2>1
<1>7. 0 \in B
  <2>1. ASSUME NEW u \in SUBSET S, Cardinality(u) = 0 PROVE u = {}
    BY <1>2, <2>1
  <2> HIDE DEF Good
  <2> QED BY <1>6, <2>1
<1>8. ASSUME NEW n \in Nat, n \in B PROVE n + 1 \in B
  <2> HIDE DEF Good
  <2>1. ASSUME NEW u \in SUBSET S, Cardinality(u) = n + 1 PROVE Good(u)
    <3>1. u # {}
      BY <2>1, FS_EmptySet
    <3>2. u \ {any(u)} \in SUBSET S /\ Cardinality(u \ {any(u)}) = n
      BY <1>2, <2>1, <3>1
    <3> QED BY <1>5, <1>8, <3>1, <3>2
  <2> QED BY <2>1
<1>9. Nat \subseteq B
  <2> HIDE DEF B
  <2> QED BY <1>7, <1>8, SetInduction
<1>10. Good(S)
  <2> HIDE DEF Good
  <2>1. Cardinality(S) \in Nat
    BY FS_CardinalityType
  <2> QED BY <1>9, <2>1
<1> QED BY <1>1, <1>10

\* k came behind every other key of an LRUEviction.
Newest(p, k) == \A b \in Tracked(p) \ {k} : Before(p.lru, b, k)

\* What r = [gone, left] is after i rounds of the eviction loop from p: the
\* keys gone are keys p tracked and no others, one per round while there are
\* any, and LRUEviction has kept its newest one if it kept any.
After(i, p, r) ==
  /\ PolicyInv(r.left) /\ r.left.kind = p.kind
  /\ r.gone \subseteq Tracked(p) /\ Tracked(r.left) = Tracked(p) \ r.gone
  /\ Cardinality(Tracked(r.left)) = IF i <= Cardinality(Tracked(p)) THEN Cardinality(Tracked(p)) - i ELSE 0
  /\ p.kind = "lru" /\ i < Cardinality(Tracked(p)) =>
       \A k \in Tracked(p) : Newest(p, k) => k \notin r.gone /\ Newest(r.left, k)

LEMMA TrackedAreKeys ==
  ASSUME NEW p, PolicyInv(p)
  PROVE  Tracked(p) \subseteq Keys
<1>1. CASE p.kind = "lru"
  <2>1. Tracked(p) = ToSet(p.lru) /\ p.lru \in Seq(Keys)
    BY <1>1 DEF Tracked, PolicyInv, Policies
  <2> QED BY <2>1, ElementsOf
<1>2. CASE p.kind # "lru"
  BY <1>2 DEF Tracked, LfuTracked
<1> QED BY <1>1, <1>2

LEMMA EvictRoundFacts ==
  ASSUME NEW p, IsFiniteSet(Tracked(p)), p.kind # "none",
         NEW i \in Nat, NEW r, After(i, p, r)
  PROVE  After(i + 1, p, EvictRound(r))
<1> DEFINE T == Tracked(p)
           q == r.left
           U == Tracked(q)
           v == EvictOne(q).victim
           z == EvictOne(q).left
           x == EvictRound(r)
<1>1. x.gone = r.gone \union ({v} \ {None}) /\ x.left = z
  BY DEF EvictRound
<1>2. /\ PolicyInv(q) /\ q.kind = p.kind /\ r.gone \subseteq T /\ U = T \ r.gone
      /\ Cardinality(U) = IF i <= Cardinality(T) THEN Cardinality(T) - i ELSE 0
      /\ p.kind = "lru" /\ i < Cardinality(T) =>
           \A k \in T : Newest(p, k) => k \notin r.gone /\ Newest(q, k)
  BY DEF After
<1>3. /\ PolicyInv(z) /\ z.kind = p.kind
      /\ U = {} => v = None /\ Tracked(z) = {}
      /\ U # {} => v \in U /\ Tracked(z) = U \ {v}
      /\ p.kind = "lru" /\ U # {} =>
           /\ \A b \in U \ {v} : Before(q.lru, v, b)
           /\ \A a, b : Before(z.lru, a, b) <=> Before(q.lru, a, b) /\ a # v /\ b # v
  <2> HIDE DEF q
  <2>1. PolicyInv(q) /\ q.kind # "none"
    BY <1>2
  <2> QED BY <1>2, <2>1, EvictOneFacts
<1>4. /\ IsFiniteSet(U) /\ Cardinality(T) \in Nat /\ Cardinality(U) \in Nat
      /\ Cardinality(U \ {v}) = IF v \in U THEN Cardinality(U) - 1 ELSE Cardinality(U)
      /\ Cardinality(U) = 0 <=> U = {}
  <2> HIDE DEF T, U, v
  <2>1. IsFiniteSet(T)
    BY DEF T
  <2>2. IsFiniteSet(U)
    BY <1>2, <2>1, FS_Subset
  <2> QED BY <2>1, <2>2, FS_CardinalityType, FS_RemoveElement, FS_EmptySet
<1>5. U \subseteq Keys /\ None \notin U
  <2> HIDE DEF q
  <2> QED BY <1>2, TrackedAreKeys, PolicyAssumption
<1>6. /\ p.kind = "lru" => q.lru \in Seq(Keys) /\ Distinct(q.lru)
  BY <1>2 DEF PolicyInv, Policies
<1>7. ASSUME p.kind = "lru", i + 1 < Cardinality(T), NEW k \in T, Newest(p, k)
      PROVE  k \notin x.gone /\ \A b \in Tracked(z) \ {k} : Before(z.lru, b, k)
  <2> HIDE DEF T, U, v, x, z, q
  <2>1. k \notin r.gone /\ \A b \in U \ {k} : Before(q.lru, b, k)
    <3>1. i < Cardinality(T)
      BY <1>4, <1>7
    <3>2. k \notin r.gone /\ Newest(q, k)
      BY <1>2, <1>7, <3>1
    <3> QED BY <3>2 DEF Newest, U
  <2>2. Cardinality(U) # 0 /\ Cardinality(U) # 1
    BY <1>2, <1>4, <1>7
  <2>3. U # {} /\ v \in U
    BY <1>3, <1>4, <2>2
  <2>4. PICK b \in U : b # v
    <3>1. Cardinality(U \ {v}) # 0
      BY <1>4, <2>2, <2>3
    <3>2. U \ {v} # {}
      BY <3>1, FS_EmptySet
    <3> QED BY <3>2
  <2>5. v # k
    <3> SUFFICES ASSUME v = k PROVE FALSE
      OBVIOUS
    <3>1. Before(q.lru, k, b) /\ Before(q.lru, b, k)
      BY <1>3, <1>7, <2>1, <2>3, <2>4
    <3> QED BY <1>6, <1>7, <3>1, BeforeIsStrict
  <2>6. k \notin x.gone
    BY <1>1, <2>1, <2>5
  <2>7. ASSUME NEW a \in Tracked(z) \ {k} PROVE Before(z.lru, a, k)
    <3>1. a \in U \ {k} /\ a # v
      BY <1>3, <2>3
    <3> QED BY <1>3, <1>7, <2>1, <2>3, <2>5, <3>1
  <2> QED BY <2>6, <2>7
<1>8. p.kind = "lru" /\ i + 1 < Cardinality(T) =>
        \A k \in T : Newest(p, k) => k \notin x.gone /\ Newest(z, k)
  <2> HIDE DEF T, x, z
  <2> QED BY <1>7 DEF Newest
<1>9. /\ x.gone \subseteq T /\ Tracked(z) = T \ x.gone
      /\ Cardinality(Tracked(z)) = IF i + 1 <= Cardinality(T) THEN Cardinality(T) - (i + 1) ELSE 0
  <2> HIDE DEF T, U, v, x, z, q
  <2>1. CASE U = {}
    <3>1. x.gone = r.gone /\ Tracked(z) = U
      BY <1>1, <1>3, <2>1
    <3> QED BY <1>2, <1>4, <2>1, <3>1
  <2>2. CASE U # {}
    <3>1. x.gone = r.gone \union {v} /\ v \in U /\ Tracked(z) = U \ {v}
      BY <1>1, <1>3, <1>5, <2>2
    <3>2. Cardinality(Tracked(z)) = Cardinality(U) - 1
      BY <1>4, <3>1
    <3> QED BY <1>2, <1>4, <2>2, <3>1, <3>2
  <2> QED BY <2>1, <2>2
<1> HIDE DEF T, x, z, v, U, q
<1>10. x.left = z
  BY <1>1
<1>11. After(i + 1, p, x)
  BY <1>3, <1>8, <1>9, <1>10 DEF After, T
<1> QED BY <1>11 DEF x

\* The eviction loop: nothing for no rounds, and what After says for any number.
LEMMA EvictionsFacts ==
  ASSUME NEW p, PolicyInv(p), NEW n \in Nat, IsFiniteSet(Tracked(p)), n # 0 => p.kind # "none"
  PROVE  After(n, p, Evictions(p, n)) /\ (n = 0 => Evictions(p, n).gone = {})
<1> DEFINE none == [gone |-> {}, left |-> p]
           Loop(f, m) == f = [i \in 0..m |-> IF i = 0 THEN none ELSE EvictRound(f[i - 1])]
           round == CHOOSE f : Loop(f, n)
<1>1. Evictions(p, n) = round[n]
  BY DEF Evictions
<1>2. \E f : Loop(f, n)
  <2> DEFINE A == {m \in Nat : \E f : Loop(f, m)}
  <2>1. 0 \in A
    <3>1. Loop([i \in 0..0 |-> none], 0)
      OBVIOUS
    <3> QED BY <3>1
  <2>2. ASSUME NEW m \in Nat, m \in A PROVE m + 1 \in A
    <3>1. PICK f : Loop(f, m)
      BY <2>2
    <3> DEFINE g == [i \in 0..(m + 1) |-> IF i = 0 THEN none ELSE EvictRound(f[i - 1])]
    <3>2. ASSUME NEW i \in 0..m PROVE g[i] = f[i]
      <4>1. f[i] = IF i = 0 THEN none ELSE EvictRound(f[i - 1])
        BY <3>1
      <4> QED BY <4>1
    <3>3. ASSUME NEW i \in 0..(m + 1), i # 0 PROVE g[i - 1] = f[i - 1]
      <4>1. i - 1 \in 0..m
        BY <3>3
      <4> HIDE DEF g
      <4> QED BY <3>2, <4>1
    <3>4. Loop(g, m + 1)
      BY <3>3
    <3> HIDE DEF g, Loop
    <3>5. \E h : Loop(h, m + 1)
      BY <3>4
    <3> QED BY <3>5
  <2>3. Nat \subseteq A
    <3> HIDE DEF A
    <3> QED BY <2>1, <2>2, SetInduction
  <2> QED BY <2>3
<1>3. Loop(round, n)
  BY <1>2
<1> HIDE DEF round
<1>4. After(0, p, round[0]) /\ round[0].gone = {}
  <2>1. round[0] = none
    BY <1>3
  <2>2. Cardinality(Tracked(p)) \in Nat
    BY FS_CardinalityType
  <2> QED BY <2>1, <2>2 DEF After
<1>5. CASE n = 0
  BY <1>1, <1>4, <1>5
<1>6. CASE n # 0
  <2> DEFINE A == {m \in Nat : m \in 0..n => After(m, p, round[m])}
  <2>1. 0 \in A
    BY <1>4
  <2>2. ASSUME NEW m \in Nat, m \in A PROVE m + 1 \in A
    <3> SUFFICES ASSUME m + 1 \in 0..n PROVE After(m + 1, p, round[m + 1])
      OBVIOUS
    <3>1. m \in 0..n /\ After(m, p, round[m])
      BY <2>2
    <3>2. round[m + 1] = EvictRound(round[m])
      <4> DEFINE j == m + 1
      <4>1. j \in 0..n /\ j # 0 /\ j - 1 = m
        OBVIOUS
      <4> HIDE DEF j
      <4>2. round[j] = EvictRound(round[j - 1])
        BY <1>3, <4>1
      <4> QED BY <4>1, <4>2 DEF j
    <3> QED BY <1>6, <3>1, <3>2, EvictRoundFacts
  <2>3. Nat \subseteq A
    <3> HIDE DEF A
    <3> QED BY <2>1, <2>2, SetInduction
  <2>4. After(n, p, round[n])
    BY <2>3
  <2> QED BY <1>1, <1>6, <2>4
<1> QED BY <1>5, <1>6
-----------------------------------------------------------------------------
(* Types, and what the policy tracks *)

PlainTypes ==
  /\ store \in [Keys -> Values \union {None}]
  /\ deadline \in [Keys -> OptNat]
  /\ tagKeys \in [Tags -> SUBSET Keys]
  /\ keyTags \in [Keys -> SUBSET Tags]
  /\ pending \in [Threads -> Keys \union {None}]
  /\ written \in Keys \union {None}
  /\ now \in Nat

PolicyPart == /\ PolicyInv(policy)
              /\ IsFiniteSet(Stored)
              /\ TrackedAreStored

CacheInv == PlainTypes /\ PolicyPart

LEMMA StoredIsFinite ==
  ASSUME PolicyPart
  PROVE  /\ Stored \subseteq Keys /\ IsFiniteSet(Stored) /\ Cardinality(Stored) \in Nat
         /\ Tracked(policy) \subseteq Stored /\ IsFiniteSet(Tracked(policy))
<1>1. Stored \subseteq Keys /\ IsFiniteSet(Stored) /\ Tracked(policy) \subseteq Stored
  BY DEF PolicyPart, TrackedAreStored, Stored
<1> QED BY <1>1, FS_Subset, FS_CardinalityType

\* Removing keys from store and policy.
LEMMA RemoveFacts ==
  ASSUME PolicyPart, NEW S \in SUBSET Keys, IsFiniteSet(S),
         Forget(S), policy' = NoteRemoveAll(policy, S)
  PROVE  /\ PolicyPart' /\ policy'.kind = policy.kind
         /\ Stored' = Stored \ S /\ Tracked(policy') = Tracked(policy) \ S
<1>1. Stored' = Stored \ S
  BY DEF Stored, Forget
<1>2. /\ PolicyInv(policy') /\ policy'.kind = policy.kind
      /\ Tracked(policy') = Tracked(policy) \ S
  BY NoteRemoveAllFacts DEF PolicyPart
<1>3. IsFiniteSet(Stored') /\ Tracked(policy') \subseteq Stored'
  BY <1>1, <1>2, StoredIsFinite, FS_Subset
<1> QED BY <1>1, <1>2, <1>3 DEF PolicyPart, TrackedAreStored

LEMMA RemoveKeyFacts ==
  ASSUME PolicyPart, NEW k \in Keys, RemoveKeys({k})
  PROVE  /\ PolicyPart' /\ policy'.kind = policy.kind
         /\ Stored' = Stored \ {k} /\ Tracked(policy') = Tracked(policy) \ {k}
<1>1. IsFiniteSet({k})
  BY FS_Singleton
<1> QED BY <1>1, RemoveFacts DEF RemoveKeys

\* A read is an access to a stored key, a removal of an expired one, or nothing.
LEMMA ReadFacts ==
  ASSUME PolicyPart, NEW k \in Keys, Read(k) \/ CleanupIfExpired(k)
  PROVE  /\ PolicyPart' /\ policy'.kind = policy.kind
         /\ \/ Stored' = Stored /\ Tracked(policy') \in {Tracked(policy), Tracked(policy) \union {k}}
            \/ Stored' = Stored \ {k} /\ Tracked(policy') = Tracked(policy) \ {k}
<1>1. CASE CleanupIfExpired(k)
  <2>1. CASE Expired(k)
    BY <1>1, <2>1, RemoveKeyFacts DEF CleanupIfExpired
  <2>2. CASE ~Expired(k)
    BY <1>1, <2>2 DEF CleanupIfExpired, PolicyPart, TrackedAreStored, Stored
  <2> QED BY <2>1, <2>2
<1>2. CASE Read(k) /\ Live(k)
  <2>1. /\ MayAccess(k) /\ policy' = NoteAccess(policy, k) /\ store' = store
        /\ k \in Stored
    BY <1>2 DEF Read, Live, Stored
  <2>2. Stored' = Stored
    BY <2>1 DEF Stored
  <2>3. /\ PolicyInv(policy') /\ policy'.kind = policy.kind
        /\ policy.kind # "none" => Tracked(policy') = Tracked(policy) \union {k}
    BY <2>1, NoteAccessFacts DEF PolicyPart, MayAccess
  <2>4. policy.kind = "none" => Tracked(policy') = Tracked(policy)
    BY <2>3 DEF Tracked
  <2> QED BY <2>1, <2>2, <2>3, <2>4 DEF PolicyPart, TrackedAreStored
<1> QED BY <1>1, <1>2 DEF Read

\* How many victims the eviction of a write looks for.
Rounds(k) == IF MaxSize = None \/ policy.kind = "none" \/ Cardinality(Stored \union {k}) <= MaxSize THEN 0
             ELSE Cardinality(Stored \union {k}) - MaxSize

\* A write stores the key, and then what the eviction loop gave up goes.
LEMMA WriteFacts ==
  ASSUME PolicyPart, NEW k \in Keys, NEW v, v # None, NEW ttl, MayAccess(k), Write(k, v, ttl)
  PROVE  \E e : /\ WriteWith(k, v, DeadlineOf(ttl), e)
                /\ Rounds(k) \in Nat
                /\ After(Rounds(k), NoteAccess(policy, k), e)
                /\ Rounds(k) = 0 => e.gone = {}
                /\ Stored' = (Stored \union {k}) \ e.gone
                /\ PolicyPart' /\ policy'.kind = policy.kind
<1> DEFINE p == NoteAccess(policy, k)
           n == Rounds(k)
           e == Evictions(p, n)
           T == Stored \union {k}
<1>1. /\ PolicyInv(p) /\ p.kind = policy.kind
      /\ policy.kind # "none" => Tracked(p) = Tracked(policy) \union {k}
  BY NoteAccessFacts DEF PolicyPart, MayAccess
<1>2. Tracked(p) \subseteq T /\ IsFiniteSet(T) /\ IsFiniteSet(Tracked(p)) /\ Cardinality(T) \in Nat
  <2>1. IsFiniteSet(T) /\ Cardinality(T) \in Nat
    BY StoredIsFinite, FS_AddElement, FS_CardinalityType
  <2>2. policy.kind = "none" => Tracked(p) = {}
    BY <1>1 DEF Tracked
  <2>3. Tracked(p) \subseteq T
    BY <1>1, <2>2, StoredIsFinite
  <2> QED BY <2>1, <2>3, FS_Subset
<1>3. n \in Nat /\ (n # 0 => p.kind # "none")
  <2> HIDE DEF p
  <2> QED BY <1>1, <1>2, CacheAssumption DEF Rounds, OptNat
<1>4. After(n, p, e) /\ (n = 0 => e.gone = {})
  <2> HIDE DEF p, n
  <2> QED BY <1>1, <1>2, <1>3, EvictionsFacts
<1>5. WriteWith(k, v, DeadlineOf(ttl), e)
  <2> HIDE DEF p
  <2>1. EvictIfNeeded(p, T) = e
    BY <1>1 DEF EvictIfNeeded, Rounds
  <2> QED BY <2>1 DEF Write, p
<1> HIDE DEF e, p, n
<1>6. Stored' = T \ e.gone
  BY <1>5 DEF WriteWith, Stored
<1>7. PolicyInv(policy') /\ policy'.kind = policy.kind /\ Tracked(policy') = Tracked(p) \ e.gone
  BY <1>1, <1>4, <1>5 DEF After, WriteWith
<1>8. PolicyPart'
  <2>1. IsFiniteSet(Stored') /\ Tracked(policy') \subseteq Stored'
    BY <1>2, <1>6, <1>7, FS_Subset
  <2> QED BY <1>7, <2>1 DEF PolicyPart, TrackedAreStored
<1> QED BY <1>3, <1>4, <1>5, <1>6, <1>7, <1>8 DEF p, n

\* The keys that tags lead to are keys.
LEMMA InvalidateFacts ==
  ASSUME CacheInv, NEW T \in SUBSET Tags, InvalidateTags(T)
  PROVE  /\ PolicyPart' /\ policy'.kind = policy.kind
         /\ \E S \in SUBSET Stored : /\ S = (UNION {tagKeys[t] : t \in T}) \intersect Stored
                                     /\ Stored' = Stored \ S /\ Tracked(policy') = Tracked(policy) \ S
<1> DEFINE S == (UNION {tagKeys[t] : t \in T}) \intersect Stored
<1>1. Forget(S) /\ policy' = NoteRemoveAll(policy, S)
  BY DEF InvalidateTags
<1>2. S \subseteq Stored
  OBVIOUS
<1> HIDE DEF S
<1>3. S \in SUBSET Keys /\ IsFiniteSet(S)
  BY <1>2, StoredIsFinite, FS_Subset DEF CacheInv
<1>4. /\ PolicyPart' /\ policy'.kind = policy.kind
      /\ Stored' = Stored \ S /\ Tracked(policy') = Tracked(policy) \ S
  BY <1>1, <1>3, RemoveFacts DEF CacheInv
<1> QED BY <1>2, <1>4 DEF S

\* The policy part when the step leaves the policy and no key goes.
LEMMA IdlePolicy ==
  ASSUME PolicyPart, policy' = policy, IsFiniteSet(Stored'), Stored \subseteq Stored'
  PROVE  PolicyPart'
BY DEF PolicyPart, TrackedAreStored

LEMMA SameStore ==
  ASSUME PolicyPart, policy' = policy, store' = store
  PROVE  PolicyPart' /\ Stored' = Stored
BY DEF PolicyPart, TrackedAreStored, Stored

LEMMA ClearFacts ==
  ASSUME PolicyPart, ClearAll
  PROVE  /\ PolicyPart' /\ Stored' = {} /\ Tracked(policy') = {}
         /\ policy'.kind = (IF policy.kind # "none" /\ MaxSize \notin {None, 0} THEN "lru" ELSE "none")
<1>1. Stored' = {}
  BY DEF ClearAll, Forget, Stored
<1>2. CASE policy.kind = "none"
  <2>1. policy' = policy
    BY <1>2 DEF ClearAll
  <2> QED BY <1>1, <1>2, <2>1, FS_EmptySet DEF PolicyPart, TrackedAreStored, Tracked
<1>3. CASE policy.kind # "none"
  <2> DEFINE kind == IF MaxSize \notin {None, 0} THEN "lru" ELSE "none"
  <2>1. policy' = NewPolicy(kind) /\ kind \in {"none", "lru", "lfu"}
    BY <1>3 DEF ClearAll
  <2> HIDE DEF kind
  <2>2. PolicyInv(policy') /\ Tracked(policy') = {} /\ policy'.kind = kind
    BY <2>1, NewPolicyFacts
  <2> QED BY <1>1, <1>3, <2>2, FS_EmptySet DEF PolicyPart, TrackedAreStored, kind
<1> QED BY <1>2, <1>3

LEMMA IncrFacts ==
  ASSUME CacheInv, NEW k \in Keys, NEW delta, NEW ttl, Incr(k, delta, ttl)
  PROVE  PolicyPart' /\ policy' = policy /\ Stored' = Stored \union {k}
<1>1. PICK value \in Values : store' = [store EXCEPT ![k] = value] /\ policy' = policy
  BY DEF Incr
<1>2. value # None
  BY CacheAssumption DEF Values
<1>3. Stored' = Stored \union {k}
  BY <1>1, <1>2 DEF CacheInv, PlainTypes, Stored
<1>4. IsFiniteSet(Stored')
  BY <1>3, FS_AddElement DEF CacheInv, PolicyPart
<1> QED BY <1>1, <1>3, <1>4, IdlePolicy DEF CacheInv

LEMMA KeyKeepsPolicy ==
  ASSUME CacheInv, NEW k \in Keys, OnKey(k)
  PROVE  PolicyPart'
<1> USE DEF CacheInv
<1>1. CASE Get(k) BY <1>1, ReadFacts DEF Get
<1>2. CASE Delete(k) BY <1>2, RemoveKeyFacts DEF Delete
<1>3. CASE Peek(k) BY <1>3, ReadFacts DEF Peek
<1>4. CASE SetAlreadyExpired(k) BY <1>4, RemoveKeyFacts DEF SetAlreadyExpired
<1>5. CASE Persist(k) BY <1>5, SameStore DEF Persist
<1>6. CASE \E v \in {0}, ttl \in Ttls \union {None} : Set(k, v, ttl)
  BY <1>6, WriteFacts, CacheAssumption DEF Set
<1>7. CASE \E ttl \in Ttls : Expire(k, ttl) BY <1>7, SameStore DEF Expire
<1>8. CASE \E delta \in {-1, 1}, ttl \in Ttls \union {None} : Incr(k, delta, ttl)
  BY <1>8, IncrFacts
<1>9. CASE \E T \in SUBSET Tags : AddTags(k, T) BY <1>9, SameStore DEF AddTags
<1> QED BY <1>1, <1>2, <1>3, <1>4, <1>5, <1>6, <1>7, <1>8, <1>9 DEF OnKey

LEMMA NextKeepsPolicy ==
  ASSUME CacheInv, [Next]_vars
  PROVE  PolicyPart'
<1> USE DEF CacheInv
<1>1. CASE \E k \in Keys : OnKey(k)
  BY <1>1, KeyKeepsPolicy
<1>2. CASE \E T \in SUBSET Tags : InvalidateTags(T)
  BY <1>2, InvalidateFacts
<1>3. CASE ClearNamespace
  BY <1>3, RemoveFacts, StoredIsFinite DEF ClearNamespace, RemoveKeys
<1>4. CASE ClearAll
  BY <1>4, ClearFacts
<1>5. CASE \E t \in Threads, k \in Keys : GetOrSetReads(t, k)
  BY <1>5, ReadFacts DEF GetOrSetReads
<1>6. CASE \E t \in Threads, ttl \in Ttls \union {None} : GetOrSetStores(t, 0, ttl)
  <2>1. PICK t \in Threads, ttl \in Ttls \union {None} : GetOrSetStores(t, 0, ttl)
    BY <1>6
  <2>2. pending[t] \in Keys /\ MayAccess(pending[t]) /\ Write(pending[t], 0, ttl)
    BY <2>1 DEF GetOrSetStores, PlainTypes
  <2> QED BY <2>2, WriteFacts, CacheAssumption
<1>7. CASE \E t \in Threads : GetOrSetRemoves(t)
  <2>1. PICK t \in Threads : GetOrSetRemoves(t)
    BY <1>7
  <2>2. pending[t] \in Keys /\ RemoveKeys({pending[t]})
    BY <2>1 DEF GetOrSetRemoves, PlainTypes
  <2> QED BY <2>2, RemoveKeyFacts
<1>8. CASE \E t \in Threads : GetOrSetRaises(t)
  BY <1>8, SameStore DEF GetOrSetRaises
<1>9. CASE Tick \/ UNCHANGED vars
  BY <1>9, SameStore DEF Tick, vars
<1> QED BY <1>1, <1>2, <1>3, <1>4, <1>5, <1>6, <1>7, <1>8, <1>9 DEF Next

LEMMA ForgetTypes ==
  ASSUME PlainTypes, NEW S, Forget(S)
  PROVE  /\ store' \in [Keys -> Values \union {None}] /\ deadline' \in [Keys -> OptNat]
         /\ keyTags' \in [Keys -> SUBSET Tags]
         /\ Without(S) \in [Tags -> SUBSET Keys]
BY DEF PlainTypes, Forget, Without, OptNat

\* A key's new deadline is a moment or none.
LEMMA DeadlineType ==
  ASSUME PlainTypes, NEW ttl \in Ttls \union {None}
  PROVE  DeadlineOf(ttl) \in OptNat
BY CacheAssumption DEF PlainTypes, DeadlineOf, OptNat

LEMMA ReadTypes ==
  ASSUME PlainTypes, NEW k \in Keys, Read(k) \/ CleanupIfExpired(k) \/ RemoveKeys({k}),
         pending' \in [Threads -> Keys \union {None}], written' \in Keys \union {None}, now' = now
  PROVE  PlainTypes'
<1>1. CASE RemoveKeys({k})
  BY <1>1, ForgetTypes DEF PlainTypes, RemoveKeys
<1>2. CASE UNCHANGED <<store, deadline, tagKeys, keyTags>>
  BY <1>2 DEF PlainTypes
<1> QED BY <1>1, <1>2 DEF Read, CleanupIfExpired

LEMMA WriteTypes ==
  ASSUME CacheInv, NEW k \in Keys, NEW ttl \in Ttls \union {None}, MayAccess(k), Write(k, 0, ttl),
         pending' \in [Threads -> Keys \union {None}], written' = k, now' = now
  PROVE  PlainTypes'
<1>1. 0 \in Values /\ 0 # None
  BY CacheAssumption DEF Values
<1>2. PICK e : WriteWith(k, 0, DeadlineOf(ttl), e)
  BY <1>1, WriteFacts DEF CacheInv
<1>3. DeadlineOf(ttl) \in OptNat /\ None \in OptNat
  BY DeadlineType DEF CacheInv, OptNat
<1>4. store' \in [Keys -> Values \union {None}] /\ deadline' \in [Keys -> OptNat]
  BY <1>1, <1>2, <1>3 DEF CacheInv, PlainTypes, WriteWith
<1>5. keyTags' \in [Keys -> SUBSET Tags] /\ tagKeys' \in [Tags -> SUBSET Keys]
  BY <1>2 DEF CacheInv, PlainTypes, WriteWith, Without
<1> QED BY <1>4, <1>5 DEF CacheInv, PlainTypes

LEMMA KeyKeepsTypes ==
  ASSUME CacheInv, NEW k \in Keys, OnKey(k)
  PROVE  PlainTypes'
<1>0. PlainTypes /\ None \in OptNat
  BY DEF CacheInv, OptNat
<1>1. CASE Get(k) BY <1>0, <1>1, ReadTypes DEF Get, PlainTypes
<1>2. CASE Delete(k) BY <1>0, <1>2, ReadTypes DEF Delete, PlainTypes
<1>3. CASE Peek(k) BY <1>0, <1>3, ReadTypes DEF Peek, PlainTypes
<1>4. CASE SetAlreadyExpired(k) BY <1>0, <1>4, ReadTypes DEF SetAlreadyExpired, PlainTypes
<1>5. CASE Persist(k) BY <1>0, <1>5 DEF Persist, PlainTypes
<1>6. CASE \E v \in {0}, ttl \in Ttls \union {None} : Set(k, v, ttl)
  BY <1>0, <1>6, WriteTypes DEF Set, PlainTypes
<1>7. CASE \E ttl \in Ttls : Expire(k, ttl)
  BY <1>0, <1>7, CacheAssumption DEF Expire, PlainTypes, OptNat
<1>8. CASE \E delta \in {-1, 1}, ttl \in Ttls \union {None} : Incr(k, delta, ttl)
  <2>1. PICK delta \in {-1, 1}, ttl \in Ttls \union {None} : Incr(k, delta, ttl)
    BY <1>8
  <2>2. ttl # None => now + ttl \in OptNat
    BY <1>0, CacheAssumption DEF PlainTypes, OptNat
  <2>3. store' \in [Keys -> Values \union {None}]
    BY <1>0, <2>1 DEF Incr, PlainTypes
  <2>4. deadline' \in [Keys -> OptNat]
    BY <1>0, <2>1, <2>2 DEF Incr, PlainTypes
  <2> QED BY <1>0, <2>1, <2>3, <2>4 DEF Incr, PlainTypes
<1>9. CASE \E T \in SUBSET Tags : AddTags(k, T)
  <2>1. PICK T \in SUBSET Tags : AddTags(k, T)
    BY <1>9
  <2>2. tagKeys' \in [Tags -> SUBSET Keys] /\ keyTags' \in [Keys -> SUBSET Tags]
    BY <1>0, <2>1 DEF AddTags, PlainTypes
  <2> QED BY <1>0, <2>1, <2>2 DEF AddTags, PlainTypes
<1> QED BY <1>1, <1>2, <1>3, <1>4, <1>5, <1>6, <1>7, <1>8, <1>9 DEF OnKey

LEMMA NextKeepsTypes ==
  ASSUME CacheInv, [Next]_vars
  PROVE  PlainTypes'
<1>0. PlainTypes
  BY DEF CacheInv
<1>1. CASE \E k \in Keys : OnKey(k)
  BY <1>1, KeyKeepsTypes
<1>2. CASE \E T \in SUBSET Tags : InvalidateTags(T)
  <2>1. PICK T \in SUBSET Tags : InvalidateTags(T)
    BY <1>2
  <2>2. PICK S : Forget(S) /\ tagKeys' = [t \in Tags |-> IF t \in T THEN {} ELSE Without(S)[t]]
    BY <2>1 DEF InvalidateTags
  <2>3. tagKeys' \in [Tags -> SUBSET Keys]
    BY <1>0, <2>2, ForgetTypes
  <2> QED BY <1>0, <2>1, <2>2, <2>3, ForgetTypes DEF InvalidateTags, PlainTypes
<1>3. CASE ClearNamespace
  BY <1>0, <1>3, ForgetTypes DEF ClearNamespace, RemoveKeys, PlainTypes
<1>4. CASE ClearAll
  BY <1>0, <1>4, ForgetTypes DEF ClearAll, PlainTypes
<1>5. CASE \E t \in Threads, k \in Keys : GetOrSetReads(t, k)
  <2>1. PICK t \in Threads, k \in Keys : GetOrSetReads(t, k)
    BY <1>5
  <2>2. pending' \in [Threads -> Keys \union {None}]
    BY <1>0, <2>1 DEF GetOrSetReads, PlainTypes
  <2> QED BY <1>0, <2>1, <2>2, ReadTypes DEF GetOrSetReads
<1>6. CASE \E t \in Threads, ttl \in Ttls \union {None} : GetOrSetStores(t, 0, ttl)
  <2>1. PICK t \in Threads, ttl \in Ttls \union {None} : GetOrSetStores(t, 0, ttl)
    BY <1>6
  <2>2. pending[t] \in Keys /\ pending' \in [Threads -> Keys \union {None}]
    BY <1>0, <2>1 DEF GetOrSetStores, PlainTypes
  <2> QED BY <2>1, <2>2, WriteTypes DEF GetOrSetStores
<1>7. CASE \E t \in Threads : GetOrSetRemoves(t)
  BY <1>0, <1>7, ForgetTypes DEF GetOrSetRemoves, RemoveKeys, PlainTypes
<1>8. CASE \E t \in Threads : GetOrSetRaises(t)
  BY <1>0, <1>8 DEF GetOrSetRaises, PlainTypes
<1>9. CASE Tick \/ UNCHANGED vars
  BY <1>0, <1>9 DEF Tick, vars, PlainTypes
<1> QED BY <1>1, <1>2, <1>3, <1>4, <1>5, <1>6, <1>7, <1>8, <1>9 DEF Next

LEMMA InitCache ==
  ASSUME Init
  PROVE  /\ CacheInv /\ Stored = {} /\ Tracked(policy) = {}
         /\ policy.kind = IF Policy = "none" /\ MaxSize \notin {None, 0} THEN "lru" ELSE Policy
<1>1. Stored = {}
  BY DEF Init, Stored
<1> DEFINE kind == IF Policy = "none" /\ MaxSize \notin {None, 0} THEN "lru" ELSE Policy
<1>2. kind \in {"none", "lru", "lfu"} /\ policy = NewPolicy(kind)
  BY CacheAssumption DEF Init
<1> HIDE DEF kind
<1>3. PolicyInv(policy) /\ Tracked(policy) = {} /\ policy.kind = kind
  BY <1>2, NewPolicyFacts
<1>4. PlainTypes
  BY DEF Init, PlainTypes, OptNat
<1> QED BY <1>1, <1>3, <1>4, FS_EmptySet DEF CacheInv, PolicyPart, TrackedAreStored, kind

LEMMA CacheInvHolds == Spec => []CacheInv
<1>1. Init => CacheInv
  BY InitCache
<1>2. CacheInv /\ [Next]_vars => CacheInv'
  BY NextKeepsTypes, NextKeepsPolicy DEF CacheInv
<1> QED BY <1>1, <1>2, PTL DEF Spec

\* The buckets, frequencies and order of the policy object hold keys only,
\* and every other variable keeps its type, for every method, policy and size.
THEOREM CacheTypesAreKept == Spec => []TypeOK
<1>1. CacheInv => TypeOK
  BY DEF CacheInv, PlainTypes, PolicyPart, PolicyInv, TypeOK
<1> QED BY <1>1, CacheInvHolds, PTL

\* Whatever the methods do to a key, the policy only ever knows of keys in the
\* store: a victim of _evict_if_needed is a key that can go.
THEOREM VictimsAreStored == Spec => []TrackedAreStored
<1>1. CacheInv => TrackedAreStored
  BY DEF CacheInv, PolicyPart
<1> QED BY <1>1, CacheInvHolds, PTL
-----------------------------------------------------------------------------
(* The size of the store *)

\* Without incr, which the policy does not hear of, the policy tracks what is
\* stored, and the store is within its size.
BoundPart == /\ StoredAreTracked
             /\ SizeBound
             /\ MaxSize \notin {None, 0} => policy.kind # "none"

BoundInv == CacheInv /\ BoundPart

\* A step after which no more is stored and no less is tracked keeps the bound.
LEMMA ShrinkKeepsBound ==
  ASSUME BoundInv, policy'.kind = policy.kind, NEW S,
         Stored' = Stored \ S, Tracked(policy) \ S \subseteq Tracked(policy')
  PROVE  BoundPart'
<1>1. Cardinality(Stored') \in Nat /\ Cardinality(Stored') <= Cardinality(Stored) /\ Cardinality(Stored) \in Nat
  <2>1. IsFiniteSet(Stored) /\ Stored' \subseteq Stored
    BY StoredIsFinite DEF BoundInv, CacheInv
  <2> QED BY <2>1, FS_Subset, FS_CardinalityType
<1>2. SizeBound'
  BY <1>1, CacheAssumption DEF BoundInv, BoundPart, SizeBound, OptNat
<1>3. StoredAreTracked'
  BY DEF BoundInv, BoundPart, StoredAreTracked
<1> QED BY <1>2, <1>3 DEF BoundInv, BoundPart

\* A write evicts down to the size, and only then.
LEMMA WriteKeepsBound ==
  ASSUME BoundInv, NEW k \in Keys, NEW v, v # None, NEW ttl, MayAccess(k), Write(k, v, ttl)
  PROVE  /\ BoundPart'
         /\ \A j \in Keys : store[j] # None /\ store'[j] = None => Cardinality(Stored') = MaxSize
<1> DEFINE p == NoteAccess(policy, k)
           n == Rounds(k)
           T == Stored \union {k}
<1>1. PICK e : /\ WriteWith(k, v, DeadlineOf(ttl), e) /\ n \in Nat /\ After(n, p, e)
               /\ n = 0 => e.gone = {}
               /\ Stored' = T \ e.gone /\ policy'.kind = policy.kind
  BY WriteFacts DEF BoundInv, CacheInv
<1>2. IsFiniteSet(T) /\ Cardinality(T) \in Nat
  BY StoredIsFinite, FS_AddElement, FS_CardinalityType DEF BoundInv, CacheInv
<1>3. policy.kind # "none" => Tracked(p) = T
  <2>1. policy.kind # "none" => Tracked(p) = Tracked(policy) \union {k}
    BY NoteAccessFacts DEF BoundInv, CacheInv, PolicyPart, MayAccess
  <2>2. policy.kind # "none" => Tracked(policy) = Stored
    BY DEF BoundInv, CacheInv, PolicyPart, BoundPart, TrackedAreStored, StoredAreTracked
  <2> QED BY <2>1, <2>2
<1>4. policy.kind # "none" =>
        /\ Tracked(policy') = Stored'
        /\ Cardinality(Stored') = IF n <= Cardinality(T) THEN Cardinality(T) - n ELSE 0
  <2>1. policy' = e.left
    BY <1>1 DEF WriteWith
  <2> HIDE DEF n, p, T
  <2> QED BY <1>1, <1>3, <2>1 DEF After
<1>5. n = (IF MaxSize = None \/ policy.kind = "none" \/ Cardinality(T) <= MaxSize THEN 0
           ELSE Cardinality(T) - MaxSize)
  BY DEF Rounds
<1>6. MaxSize # None => MaxSize \in Nat
  BY CacheAssumption DEF OptNat
<1> HIDE DEF n, p, T
<1>7. StoredAreTracked'
  BY <1>1, <1>4 DEF StoredAreTracked
<1>8. SizeBound'
  <2> SUFFICES ASSUME MaxSize \notin {None, 0} PROVE Cardinality(Stored') <= MaxSize
    BY DEF SizeBound
  <2>1. policy.kind # "none"
    BY DEF BoundInv, BoundPart
  <2> QED BY <1>2, <1>4, <1>5, <1>6, <2>1
<1>9. ASSUME NEW j \in Keys, store[j] # None, store'[j] = None PROVE Cardinality(Stored') = MaxSize
  <2>1. j \in e.gone
    <3>1. store'[j] = IF j \in e.gone THEN None ELSE IF j = k THEN v ELSE store[j]
      BY <1>1 DEF WriteWith
    <3> QED BY <1>9, <3>1
  <2>2. n # 0
    BY <1>1, <2>1
  <2>3. policy.kind # "none" /\ MaxSize \in Nat /\ n = Cardinality(T) - MaxSize /\ ~(Cardinality(T) <= MaxSize)
    BY <1>5, <1>6, <2>2
  <2> QED BY <1>2, <1>4, <2>3
<1> QED BY <1>1, <1>7, <1>8, <1>9 DEF BoundInv, BoundPart

LEMMA ReadKeepsBound ==
  ASSUME BoundInv, NEW k \in Keys, Read(k) \/ CleanupIfExpired(k)
  PROVE  BoundPart'
<1>1. /\ policy'.kind = policy.kind
      /\ \/ Stored' = Stored /\ Tracked(policy') \in {Tracked(policy), Tracked(policy) \union {k}}
         \/ Stored' = Stored \ {k} /\ Tracked(policy') = Tracked(policy) \ {k}
  BY ReadFacts DEF BoundInv, CacheInv
<1>2. CASE Stored' = Stored /\ Tracked(policy') \in {Tracked(policy), Tracked(policy) \union {k}}
  <2>1. Stored' = Stored \ {} /\ Tracked(policy) \ {} \subseteq Tracked(policy')
    BY <1>2
  <2> QED BY <1>1, <2>1, ShrinkKeepsBound
<1>3. CASE Stored' = Stored \ {k} /\ Tracked(policy') = Tracked(policy) \ {k}
  BY <1>1, <1>3, ShrinkKeepsBound
<1> QED BY <1>1, <1>2, <1>3

LEMMA RemoveKeepsBound ==
  ASSUME BoundInv, NEW k \in Keys, RemoveKeys({k})
  PROVE  BoundPart'
BY RemoveKeyFacts, ShrinkKeepsBound DEF BoundInv, CacheInv

LEMMA IdleKeepsBound ==
  ASSUME BoundInv, policy' = policy, store' = store
  PROVE  BoundPart'
BY DEF BoundInv, BoundPart, StoredAreTracked, SizeBound, Stored

LEMMA KeyKeepsBound ==
  ASSUME "incr" \notin Ops, BoundInv, NEW k \in Keys, OnKey(k)
  PROVE  BoundPart'
<1>1. CASE Get(k) BY <1>1, ReadKeepsBound DEF Get
<1>2. CASE Delete(k) BY <1>2, RemoveKeepsBound DEF Delete
<1>3. CASE Peek(k) BY <1>3, ReadKeepsBound DEF Peek
<1>4. CASE SetAlreadyExpired(k) BY <1>4, RemoveKeepsBound DEF SetAlreadyExpired
<1>5. CASE Persist(k) BY <1>5, IdleKeepsBound DEF Persist
<1>6. CASE \E v \in {0}, ttl \in Ttls \union {None} : Set(k, v, ttl)
  BY <1>6, WriteKeepsBound, CacheAssumption DEF Set
<1>7. CASE \E ttl \in Ttls : Expire(k, ttl) BY <1>7, IdleKeepsBound DEF Expire
<1>8. CASE \E delta \in {-1, 1}, ttl \in Ttls \union {None} : Incr(k, delta, ttl)
  BY <1>8 DEF Incr
<1>9. CASE \E T \in SUBSET Tags : AddTags(k, T) BY <1>9, IdleKeepsBound DEF AddTags
<1> QED BY <1>1, <1>2, <1>3, <1>4, <1>5, <1>6, <1>7, <1>8, <1>9 DEF OnKey

LEMMA NextKeepsBound ==
  ASSUME "incr" \notin Ops, BoundInv, [Next]_vars
  PROVE  BoundPart'
<1>0. CacheInv /\ PlainTypes
  BY DEF BoundInv, CacheInv
<1>1. CASE \E k \in Keys : OnKey(k)
  BY <1>1, KeyKeepsBound
<1>2. CASE \E T \in SUBSET Tags : InvalidateTags(T)
  BY <1>0, <1>2, InvalidateFacts, ShrinkKeepsBound
<1>3. CASE ClearNamespace
  <2>1. policy'.kind = policy.kind /\ Stored' = Stored \ Stored /\ Tracked(policy') = Tracked(policy) \ Stored
    BY <1>0, <1>3, RemoveFacts, StoredIsFinite DEF ClearNamespace, RemoveKeys, CacheInv
  <2> QED BY <2>1, ShrinkKeepsBound
<1>4. CASE ClearAll
  <2>1. /\ Stored' = {} /\ Cardinality({}) = 0
        /\ policy'.kind = (IF policy.kind # "none" /\ MaxSize \notin {None, 0} THEN "lru" ELSE "none")
    BY <1>0, <1>4, ClearFacts, FS_EmptySet DEF CacheInv
  <2> QED BY <2>1, CacheAssumption DEF BoundInv, BoundPart, StoredAreTracked, SizeBound, OptNat
<1>5. CASE \E t \in Threads, k \in Keys : GetOrSetReads(t, k)
  BY <1>5, ReadKeepsBound DEF GetOrSetReads
<1>6. CASE \E t \in Threads, ttl \in Ttls \union {None} : GetOrSetStores(t, 0, ttl)
  <2>1. PICK t \in Threads, ttl \in Ttls \union {None} : GetOrSetStores(t, 0, ttl)
    BY <1>6
  <2>2. pending[t] \in Keys /\ MayAccess(pending[t]) /\ Write(pending[t], 0, ttl)
    BY <1>0, <2>1 DEF GetOrSetStores, PlainTypes
  <2> QED BY <2>2, WriteKeepsBound, CacheAssumption
<1>7. CASE \E t \in Threads : GetOrSetRemoves(t)
  <2>1. PICK t \in Threads : GetOrSetRemoves(t)
    BY <1>7
  <2>2. pending[t] \in Keys /\ RemoveKeys({pending[t]})
    BY <1>0, <2>1 DEF GetOrSetRemoves, PlainTypes
  <2> QED BY <2>2, RemoveKeepsBound
<1>8. CASE \E t \in Threads : GetOrSetRaises(t)
  BY <1>8, IdleKeepsBound DEF GetOrSetRaises
<1>9. CASE Tick \/ UNCHANGED vars
  BY <1>9, IdleKeepsBound DEF Tick, vars
<1> QED BY <1>1, <1>2, <1>3, <1>4, <1>5, <1>6, <1>7, <1>8, <1>9 DEF Next

LEMMA BoundInvHolds ==
  ASSUME "incr" \notin Ops
  PROVE  Spec => []BoundInv
<1>1. Init => BoundInv
  <2> SUFFICES ASSUME Init PROVE BoundInv
    OBVIOUS
  <2>1. Cardinality({}) = 0
    BY FS_EmptySet
  <2> QED BY <2>1, InitCache, CacheAssumption
          DEF BoundInv, BoundPart, StoredAreTracked, SizeBound, OptNat
<1>2. BoundInv /\ [Next]_vars => BoundInv'
  BY NextKeepsBound, NextKeepsTypes, NextKeepsPolicy DEF BoundInv, CacheInv
<1> QED BY <1>1, <1>2, PTL DEF Spec

\* Every key that set or get_or_set stored can be evicted.
THEOREM StoredCanBeEvicted ==
  ASSUME "incr" \notin Ops
  PROVE  Spec => []StoredAreTracked
<1>1. BoundInv => StoredAreTracked
  BY DEF BoundInv, BoundPart
<1> QED BY <1>1, BoundInvHolds, PTL

\* The store never holds more than max_size keys, under LRU and LFU, through
\* expiry, removal, invalidation and clear.
THEOREM SizeIsBounded ==
  ASSUME "incr" \notin Ops
  PROVE  Spec => []SizeBound
<1>1. BoundInv => SizeBound
  BY DEF BoundInv, BoundPart
<1> QED BY <1>1, BoundInvHolds, PTL
-----------------------------------------------------------------------------
(* What a step drops *)

\* A step that takes the keys of S out of the store and leaves the others.
Drops(S) == \A k \in Keys : IF k \in S THEN store'[k] = None
                            ELSE store'[k] = store[k] /\ deadline'[k] = deadline[k]

LEMMA ForgetDrops ==
  ASSUME NEW S, Forget(S)
  PROVE  Drops(S)
BY DEF Forget, Drops

\* A read drops its key if it has expired, and nothing else.
LEMMA ReadDrops ==
  ASSUME NEW k \in Keys, Read(k) \/ CleanupIfExpired(k)
  PROVE  Drops({}) \/ (Expired(k) /\ Drops({k}))
BY ForgetDrops DEF Read, CleanupIfExpired, RemoveKeys, Drops

LEMMA DropsOnlyDropped ==
  ASSUME NEW S, Drops(S), NEW k \in Keys, Live(k), store'[k] = None
  PROVE  k \in S
BY DEF Drops, Live

LEMMA ReadKeepsLive ==
  ASSUME NEW j \in Keys, Read(j) \/ CleanupIfExpired(j), NEW k \in Keys, Live(k)
  PROVE  store'[k] # None
<1>1. CASE Drops({})
  BY <1>1, DropsOnlyDropped
<1>2. CASE Expired(j) /\ Drops({j})
  <2>1. k # j
    BY <1>2 DEF Live
  <2> QED BY <1>2, <2>1, DropsOnlyDropped
<1> QED BY <1>1, <1>2, ReadDrops

\* The methods on one key.
LEMMA KeyEvictsWhenFull ==
  ASSUME "incr" \notin Ops, BoundInv, NEW j \in Keys, OnKey(j),
         NEW k \in Keys, Live(k), store'[k] = None, ~Removes(k)
  PROVE  Cardinality(Stored') = MaxSize
<1>0. store[k] # None /\ ~Expired(k)
  BY DEF Live
<1>1. CASE Get(j) BY <1>1, ReadKeepsLive DEF Get
<1>2. CASE Delete(j) BY <1>2, ForgetDrops, DropsOnlyDropped DEF Delete, RemoveKeys, Removes
<1>3. CASE Peek(j) BY <1>3, ReadKeepsLive DEF Peek
<1>4. CASE SetAlreadyExpired(j)
  BY <1>4, ForgetDrops, DropsOnlyDropped DEF SetAlreadyExpired, RemoveKeys, Removes
<1>5. CASE Persist(j) BY <1>0, <1>5 DEF Persist
<1>6. CASE \E v \in {0}, ttl \in Ttls \union {None} : Set(j, v, ttl)
  BY <1>0, <1>6, WriteKeepsBound, CacheAssumption DEF Set
<1>7. CASE \E ttl \in Ttls : Expire(j, ttl) BY <1>0, <1>7 DEF Expire
<1>8. CASE \E delta \in {-1, 1}, ttl \in Ttls \union {None} : Incr(j, delta, ttl)
  BY <1>8 DEF Incr
<1>9. CASE \E T \in SUBSET Tags : AddTags(j, T) BY <1>0, <1>9 DEF AddTags
<1> QED BY <1>1, <1>2, <1>3, <1>4, <1>5, <1>6, <1>7, <1>8, <1>9 DEF OnKey

LEMMA NextEvictsWhenFull ==
  ASSUME "incr" \notin Ops, BoundInv, IndexInv, [Next]_vars,
         NEW k \in Keys, Live(k), store'[k] = None, ~Removes(k)
  PROVE  Cardinality(Stored') = MaxSize
<1>0. store[k] # None /\ ~Expired(k) /\ PlainTypes
  BY DEF Live, BoundInv, CacheInv
<1>1. CASE \E j \in Keys : OnKey(j)
  BY <1>1, KeyEvictsWhenFull
<1>2. CASE \E T \in SUBSET Tags : InvalidateTags(T)
  <2>1. PICK T \in SUBSET Tags : InvalidateTags(T)
    BY <1>2
  <2>2. Forget((UNION {tagKeys[t] : t \in T}) \intersect Stored)
    BY <2>1 DEF InvalidateTags
  <2>3. k \in (UNION {tagKeys[t] : t \in T}) \intersect Stored
    BY <2>2, ForgetDrops, DropsOnlyDropped, Zenon
  <2>4. PICK t \in T : k \in tagKeys[t]
    BY <2>3
  <2>5. t \in keyTags[k]
    BY <2>4 DEF IndexInv, IndexesAgree
  <2> QED BY <2>1, <2>5 DEF Removes
<1>3. CASE ClearNamespace BY <1>3 DEF Removes
<1>4. CASE ClearAll BY <1>4 DEF Removes
<1>5. CASE \E t \in Threads, j \in Keys : GetOrSetReads(t, j)
  BY <1>5, ReadKeepsLive DEF GetOrSetReads
<1>6. CASE \E t \in Threads, ttl \in Ttls \union {None} : GetOrSetStores(t, 0, ttl)
  <2>1. PICK t \in Threads, ttl \in Ttls \union {None} : GetOrSetStores(t, 0, ttl)
    BY <1>6
  <2>2. pending[t] \in Keys /\ MayAccess(pending[t]) /\ Write(pending[t], 0, ttl)
    BY <1>0, <2>1 DEF GetOrSetStores, PlainTypes
  <2> QED BY <1>0, <2>2, WriteKeepsBound, CacheAssumption
<1>7. CASE \E t \in Threads : GetOrSetRemoves(t)
  <2>1. PICK t \in Threads : GetOrSetRemoves(t)
    BY <1>7
  <2>2. k = pending[t]
    BY <2>1, ForgetDrops, DropsOnlyDropped DEF GetOrSetRemoves, RemoveKeys
  <2> QED BY <2>1, <2>2 DEF Removes
<1>8. CASE \E t \in Threads : GetOrSetRaises(t)
  BY <1>0, <1>8 DEF GetOrSetRaises
<1>9. CASE Tick \/ UNCHANGED vars
  BY <1>0, <1>9 DEF Tick, vars
<1> QED BY <1>1, <1>2, <1>3, <1>4, <1>5, <1>6, <1>7, <1>8, <1>9 DEF Next

\* A key nobody removed and that has not expired goes only from a store that
\* is exactly full afterwards.
THEOREM EvictsForRoomOnly ==
  ASSUME "incr" \notin Ops
  PROVE  Spec => EvictsOnlyWhenFull
<1>1. BoundInv /\ IndexInv /\ [Next]_vars =>
        [\A k \in Keys : Live(k) /\ store'[k] = None /\ ~Removes(k)
           => Cardinality(Stored') = MaxSize]_vars
  BY NextEvictsWhenFull
<1> QED BY <1>1, BoundInvHolds, IndexInvHolds, PTL DEF Spec, EvictsOnlyWhenFull
-----------------------------------------------------------------------------
(* The key just written *)

\* Whether the policy keeps the key written last.  LFUEviction may evict it,
\* and a size of 0 keeps nothing.
KeepsNewest == MaxSize = None \/ policy.kind = "none" \/ (policy.kind = "lru" /\ MaxSize # 0)

LEMMA WriteKeepsKey ==
  ASSUME BoundInv, KeepsNewest, NEW k \in Keys, NEW v, v # None, NEW ttl \in Ttls \union {None},
         MayAccess(k), Write(k, v, ttl)
  PROVE  \E e : WriteWith(k, v, DeadlineOf(ttl), e) /\ k \notin e.gone /\ e.gone \subseteq Keys
<1> DEFINE p == NoteAccess(policy, k)
           n == Rounds(k)
           T == Stored \union {k}
<1>1. PICK e : /\ WriteWith(k, v, DeadlineOf(ttl), e) /\ n \in Nat /\ After(n, p, e)
               /\ n = 0 => e.gone = {}
  BY WriteFacts DEF BoundInv, CacheInv
<1>2. /\ PolicyInv(p) /\ p.kind = policy.kind
      /\ policy.kind # "none" => Tracked(p) = Tracked(policy) \union {k}
      /\ policy.kind = "lru" => \A b \in Tracked(policy) \ {k} : Before(p.lru, b, k)
  <2>1. p.kind = policy.kind
    BY NoteAccessFacts DEF BoundInv, CacheInv, PolicyPart, MayAccess
  <2> QED BY <2>1, NoteAccessFacts DEF BoundInv, CacheInv, PolicyPart, MayAccess
<1>3. e.gone \subseteq Keys
  BY <1>1, <1>2, TrackedAreKeys DEF After
<1>4. CASE n = 0
  BY <1>1, <1>3, <1>4
<1>5. CASE n # 0
  <2>1. /\ policy.kind = "lru" /\ MaxSize \in Nat \ {0}
        /\ n = Cardinality(T) - MaxSize
    BY <1>5, CacheAssumption DEF Rounds, KeepsNewest, OptNat
  <2>2. Tracked(policy) = Stored
    BY <2>1 DEF BoundInv, CacheInv, PolicyPart, BoundPart, TrackedAreStored, StoredAreTracked
  <2>3. IsFiniteSet(T) /\ Cardinality(T) \in Nat
    BY StoredIsFinite, FS_AddElement, FS_CardinalityType DEF BoundInv, CacheInv
  <2> HIDE DEF p, n
  <2>4. Tracked(p) = T /\ k \in Tracked(p) /\ Newest(p, k) /\ p.kind = "lru"
    BY <1>2, <2>1, <2>2 DEF Newest
  <2>5. n < Cardinality(Tracked(p))
    BY <2>1, <2>3, <2>4
  <2>6. k \notin e.gone
    BY <1>1, <2>4, <2>5 DEF After
  <2> QED BY <1>1, <1>3, <2>6
<1> QED BY <1>4, <1>5

\* What was written is there, and has not expired yet.
LEMMA WriteIsLive ==
  ASSUME BoundInv, KeepsNewest, NEW k \in Keys, NEW v, v # None, NEW ttl \in Ttls \union {None},
         MayAccess(k), Write(k, v, ttl), now' = now
  PROVE  store'[k] # None /\ ~(deadline'[k] # None /\ deadline'[k] <= now')
<1>1. PICK e : WriteWith(k, v, DeadlineOf(ttl), e) /\ k \notin e.gone
  BY WriteKeepsKey
<1>2. store'[k] = v /\ deadline'[k] = DeadlineOf(ttl)
  BY <1>1 DEF WriteWith
<1>3. DeadlineOf(ttl) # None => now \in Nat /\ DeadlineOf(ttl) \in Nat /\ DeadlineOf(ttl) > now
  BY CacheAssumption DEF DeadlineOf, BoundInv, CacheInv, PlainTypes
<1> QED BY <1>2, <1>3

LEMMA KeyKeepsNewest ==
  ASSUME "incr" \notin Ops, BoundInv, KeepsNewest, NEW k \in Keys, OnKey(k)
  PROVE  KeepsNewest' /\ JustSetIsKept'
<1>0. PolicyPart /\ 0 # None
  BY CacheAssumption DEF BoundInv, CacheInv
<1> USE DEF KeepsNewest, JustSetIsKept
<1>1. CASE Get(k) BY <1>0, <1>1, ReadFacts DEF Get
<1>2. CASE Delete(k) BY <1>0, <1>2, RemoveKeyFacts DEF Delete
<1>3. CASE Peek(k) BY <1>0, <1>3, ReadFacts DEF Peek
<1>4. CASE SetAlreadyExpired(k) BY <1>0, <1>4, RemoveKeyFacts DEF SetAlreadyExpired
<1>5. CASE Persist(k) BY <1>5 DEF Persist
<1>6. CASE \E v \in {0}, ttl \in Ttls \union {None} : Set(k, v, ttl)
  <2>1. PICK ttl \in Ttls \union {None} : Set(k, 0, ttl)
    BY <1>6
  <2>2. JustSetIsKept'
    BY <1>0, <2>1, WriteIsLive DEF Set, Live, Expired
  <2>3. policy'.kind = policy.kind
    BY <1>0, <2>1, WriteFacts DEF Set
  <2> QED BY <2>2, <2>3
<1>7. CASE \E ttl \in Ttls : Expire(k, ttl) BY <1>7 DEF Expire
<1>8. CASE \E delta \in {-1, 1}, ttl \in Ttls \union {None} : Incr(k, delta, ttl)
  BY <1>8 DEF Incr
<1>9. CASE \E T \in SUBSET Tags : AddTags(k, T) BY <1>9 DEF AddTags
<1> QED BY <1>1, <1>2, <1>3, <1>4, <1>5, <1>6, <1>7, <1>8, <1>9 DEF OnKey

LEMMA NextKeepsNewest ==
  ASSUME "incr" \notin Ops, BoundInv, KeepsNewest, JustSetIsKept, [Next]_vars
  PROVE  KeepsNewest' /\ JustSetIsKept'
<1>0. PolicyPart /\ CacheInv /\ PlainTypes /\ 0 # None
  BY CacheAssumption DEF BoundInv, CacheInv
<1>1. CASE \E k \in Keys : OnKey(k)
  BY <1>1, KeyKeepsNewest
<1> USE DEF KeepsNewest
<1>2. CASE \E T \in SUBSET Tags : InvalidateTags(T)
  BY <1>0, <1>2, InvalidateFacts DEF InvalidateTags, JustSetIsKept
<1>3. CASE ClearNamespace
  BY <1>0, <1>3, RemoveFacts, StoredIsFinite DEF ClearNamespace, RemoveKeys, JustSetIsKept
<1>4. CASE ClearAll
  <2>1. policy'.kind = (IF policy.kind # "none" /\ MaxSize \notin {None, 0} THEN "lru" ELSE "none")
    BY <1>0, <1>4, ClearFacts
  <2> QED BY <1>4, <2>1 DEF ClearAll, JustSetIsKept
<1>5. CASE \E t \in Threads, k \in Keys : GetOrSetReads(t, k)
  BY <1>0, <1>5, ReadFacts DEF GetOrSetReads, JustSetIsKept
<1>6. CASE \E t \in Threads, ttl \in Ttls \union {None} : GetOrSetStores(t, 0, ttl)
  <2>1. PICK t \in Threads, ttl \in Ttls \union {None} : GetOrSetStores(t, 0, ttl)
    BY <1>6
  <2>2. pending[t] \in Keys /\ MayAccess(pending[t]) /\ Write(pending[t], 0, ttl)
        /\ now' = now /\ written' = pending[t]
    BY <1>0, <2>1 DEF GetOrSetStores, PlainTypes
  <2>3. policy'.kind = policy.kind
    BY <1>0, <2>2, WriteFacts
  <2>4. store'[written'] # None /\ ~(deadline'[written'] # None /\ deadline'[written'] <= now')
    BY <1>0, <2>2, WriteIsLive
  <2> QED BY <2>3, <2>4 DEF JustSetIsKept, Live, Expired
<1>7. CASE \E t \in Threads : GetOrSetRemoves(t)
  <2>1. PICK t \in Threads : GetOrSetRemoves(t)
    BY <1>7
  <2>2. pending[t] \in Keys /\ RemoveKeys({pending[t]}) /\ written' = None
    BY <1>0, <2>1 DEF GetOrSetRemoves, PlainTypes
  <2> QED BY <1>0, <2>2, RemoveKeyFacts DEF JustSetIsKept
<1>8. CASE \E t \in Threads : GetOrSetRaises(t)
  BY <1>8 DEF GetOrSetRaises, JustSetIsKept
<1>9. CASE Tick
  BY <1>9 DEF Tick, JustSetIsKept
<1>10. CASE UNCHANGED vars
  BY <1>10 DEF vars, JustSetIsKept, Live, Expired
<1> QED BY <1>1, <1>2, <1>3, <1>4, <1>5, <1>6, <1>7, <1>8, <1>9, <1>10 DEF Next

\* The configurations in which a policy keeps the newest key.
NewestStays == MaxSize = None \/ Policy = "none" \/ (Policy = "lru" /\ MaxSize # 0)

LEMMA NewestInvHolds ==
  ASSUME "incr" \notin Ops, NewestStays
  PROVE  Spec => [](BoundInv /\ KeepsNewest /\ JustSetIsKept)
<1>1. Init => KeepsNewest /\ JustSetIsKept
  <2> SUFFICES ASSUME Init PROVE KeepsNewest /\ JustSetIsKept
    OBVIOUS
  <2>1. policy.kind = IF Policy = "none" /\ MaxSize \notin {None, 0} THEN "lru" ELSE Policy
    BY InitCache
  <2>2. written = None
    BY DEF Init
  <2> QED BY <2>1, <2>2 DEF KeepsNewest, JustSetIsKept, NewestStays
<1>2. BoundInv /\ KeepsNewest /\ JustSetIsKept /\ [Next]_vars => KeepsNewest' /\ JustSetIsKept'
  BY NextKeepsNewest
<1> QED BY <1>1, <1>2, BoundInvHolds, PTL DEF Spec

\* With LRUEviction, or without a bound, what a call has just stored is there
\* when it returns, and has not expired.
THEOREM WrittenIsThere ==
  ASSUME "incr" \notin Ops, NewestStays
  PROVE  Spec => []JustSetIsKept
BY NewestInvHolds, PTL
-----------------------------------------------------------------------------
(* The cache contract *)

\* A step that only takes keys out is a drop of the contract; what had expired
\* before was not there for the contract.
LEMMA DropsRefine ==
  ASSUME NEW S \in SUBSET Keys, Drops(S), written' = None, now' = now
  PROVE  Contract!Next
<1>1. ASSUME NEW k \in Keys
      PROVE  /\ k \in S => ~Live(k)'
             /\ k \notin S => (Live(k)' <=> Live(k)) /\ store'[k] = store[k] /\ deadline'[k] = deadline[k]
  BY DEF Drops, Live, Expired
<1>2. Contract!Drop(S)
  BY <1>1 DEF Contract!Drop
<1> QED BY <1>2 DEF Contract!Next

LEMMA ReadRefines ==
  ASSUME NEW k \in Keys, Read(k) \/ CleanupIfExpired(k), written' = None, now' = now
  PROVE  Contract!Next
<1>1. Drops({}) \/ Drops({k})
  BY ReadDrops
<1> QED BY <1>1, DropsRefine

LEMMA WriteRefines ==
  ASSUME BoundInv, KeepsNewest, NEW k \in Keys, NEW v \in Values, NEW ttl \in Ttls \union {None},
         MayAccess(k), Write(k, v, ttl), written' = k, now' = now
  PROVE  Contract!Next
<1>0. v # None
  BY CacheAssumption DEF Values
<1>1. PICK e : WriteWith(k, v, DeadlineOf(ttl), e) /\ k \notin e.gone /\ e.gone \subseteq Keys
  BY <1>0, WriteKeepsKey
<1>2. ASSUME NEW j \in Keys
      PROVE  /\ store'[j] = IF j \in e.gone THEN None ELSE IF j = k THEN v ELSE store[j]
             /\ deadline'[j] = IF j \in e.gone THEN None ELSE IF j = k THEN DeadlineOf(ttl) ELSE deadline[j]
  BY <1>1 DEF WriteWith
<1>3. store'[k] # None /\ ~(deadline'[k] # None /\ deadline'[k] <= now')
  BY <1>0, WriteIsLive
<1>4. ASSUME NEW j \in Keys
      PROVE  /\ j \in e.gone => ~Live(j)'
             /\ j = k => Live(j)' /\ store'[j] = v /\ deadline'[j] = DeadlineOf(ttl)
             /\ j \notin e.gone /\ j # k =>
                  (Live(j)' <=> Live(j)) /\ store'[j] = store[j] /\ deadline'[j] = deadline[j]
  BY <1>1, <1>2, <1>3 DEF Live, Expired
<1>5. Contract!Deadline(ttl) = DeadlineOf(ttl)
  BY DEF Contract!Deadline, DeadlineOf
<1>6. Contract!Keep(k, v, Contract!Deadline(ttl), e.gone)
  BY <1>4, <1>5 DEF Contract!Keep
<1>7. Contract!Put(k, v, ttl)
  BY <1>1, <1>6 DEF Contract!Put
<1> QED BY <1>7 DEF Contract!Next

LEMMA TickRefines ==
  ASSUME PlainTypes, Tick
  PROVE  Contract!Next
<1>1. now' = now + 1 /\ written' = None /\ store' = store /\ deadline' = deadline /\ now \in Nat
  BY DEF Tick, PlainTypes
<1> DEFINE late == {k \in Keys : Live(k) /\ deadline[k] # None /\ deadline[k] <= now + 1}
<1>2. ASSUME NEW k \in Keys
      PROVE  /\ k \in late => ~Live(k)'
             /\ k \notin late => (Live(k)' <=> Live(k)) /\ store'[k] = store[k] /\ deadline'[k] = deadline[k]
  <2>1. deadline[k] # None => deadline[k] \in Nat
    BY DEF PlainTypes, OptNat
  <2> QED BY <1>1, <2>1 DEF Live, Expired
<1> DEFINE seen == [k \in Keys |-> IF Live(k) THEN deadline[k] ELSE None]
<1>3. {k \in Keys : seen[k] # None /\ seen[k] <= now + 1} = late
  OBVIOUS
<1> HIDE DEF late
<1>4. Contract!Tick
  BY <1>1, <1>2, <1>3 DEF Contract!Tick
<1> QED BY <1>4 DEF Contract!Next

\* The methods the contract describes.
PlainUse == Ops \intersect {"incr", "persist", "expire", "expire_at", "touch"} = {}

LEMMA KeyRefines ==
  ASSUME PlainUse, BoundInv, KeepsNewest, NEW k \in Keys, OnKey(k)
  PROVE  Contract!Next
<1>0. 0 \in Values
  BY CacheAssumption DEF Values
<1>1. CASE Get(k) BY <1>1, ReadRefines DEF Get
<1>2. CASE Delete(k) BY <1>2, ForgetDrops, DropsRefine DEF Delete, RemoveKeys
<1>3. CASE Peek(k) BY <1>3, ReadRefines DEF Peek
<1>4. CASE SetAlreadyExpired(k) BY <1>4, ForgetDrops, DropsRefine DEF SetAlreadyExpired, RemoveKeys
<1>5. CASE Persist(k) BY <1>5 DEF Persist, PlainUse
<1>6. CASE \E v \in {0}, ttl \in Ttls \union {None} : Set(k, v, ttl)
  BY <1>0, <1>6, WriteRefines DEF Set
<1>7. CASE \E ttl \in Ttls : Expire(k, ttl) BY <1>7 DEF Expire, PlainUse
<1>8. CASE \E delta \in {-1, 1}, ttl \in Ttls \union {None} : Incr(k, delta, ttl)
  BY <1>8 DEF Incr, PlainUse
<1>9. CASE \E T \in SUBSET Tags : AddTags(k, T)
  <2>1. Drops({}) /\ written' = None /\ now' = now
    BY <1>9 DEF AddTags, Drops
  <2> QED BY <2>1, DropsRefine
<1> QED BY <1>1, <1>2, <1>3, <1>4, <1>5, <1>6, <1>7, <1>8, <1>9 DEF OnKey

LEMMA NextRefines ==
  ASSUME PlainUse, BoundInv, KeepsNewest, [Next]_vars
  PROVE  [Contract!Next]_(Contract!vars)
<1>0. CacheInv /\ PolicyPart /\ PlainTypes /\ 0 \in Values
  BY CacheAssumption DEF BoundInv, CacheInv, Values
<1>1. CASE \E k \in Keys : OnKey(k)
  BY <1>1, KeyRefines
<1>2. CASE \E T \in SUBSET Tags : InvalidateTags(T)
  <2>1. PICK T \in SUBSET Tags : InvalidateTags(T)
    BY <1>2
  <2> DEFINE S == (UNION {tagKeys[t] : t \in T}) \intersect Stored
  <2>2. Forget(S) /\ written' = None /\ now' = now
    BY <2>1 DEF InvalidateTags
  <2>3. S \in SUBSET Keys
    BY DEF Stored
  <2> HIDE DEF S
  <2> QED BY <2>2, <2>3, ForgetDrops, DropsRefine
<1>3. CASE ClearNamespace
  BY <1>0, <1>3, StoredIsFinite, ForgetDrops, DropsRefine DEF ClearNamespace, RemoveKeys
<1>4. CASE ClearAll
  BY <1>4, ForgetDrops, DropsRefine DEF ClearAll
<1>5. CASE \E t \in Threads, k \in Keys : GetOrSetReads(t, k)
  BY <1>5, ReadRefines DEF GetOrSetReads
<1>6. CASE \E t \in Threads, ttl \in Ttls \union {None} : GetOrSetStores(t, 0, ttl)
  <2>1. PICK t \in Threads, ttl \in Ttls \union {None} : GetOrSetStores(t, 0, ttl)
    BY <1>6
  <2>2. pending[t] \in Keys /\ MayAccess(pending[t]) /\ Write(pending[t], 0, ttl)
        /\ now' = now /\ written' = pending[t]
    BY <1>0, <2>1 DEF GetOrSetStores, PlainTypes
  <2> QED BY <1>0, <2>2, WriteRefines
<1>7. CASE \E t \in Threads : GetOrSetRemoves(t)
  <2>1. PICK t \in Threads : GetOrSetRemoves(t)
    BY <1>7
  <2>2. Forget({pending[t]}) /\ {pending[t]} \in SUBSET Keys /\ written' = None /\ now' = now
    BY <1>0, <2>1 DEF GetOrSetRemoves, RemoveKeys, PlainTypes
  <2> QED BY <2>2, ForgetDrops, DropsRefine
<1>8. CASE \E t \in Threads : GetOrSetRaises(t)
  <2>1. Drops({}) /\ written' = None /\ now' = now
    BY <1>8 DEF GetOrSetRaises, Drops
  <2> QED BY <2>1, DropsRefine
<1>9. CASE Tick
  BY <1>0, <1>9, TickRefines
<1>10. CASE UNCHANGED vars
  BY <1>10 DEF vars, Contract!vars, Live, Expired
<1> QED BY <1>1, <1>2, <1>3, <1>4, <1>5, <1>6, <1>7, <1>8, <1>9, <1>10 DEF Next

\* An application that stores, reads, tags and removes sees the contract: an
\* expired key is missing for every method, whenever it is collected, and only
\* storing drops other keys.
THEOREM KeepsTheContract ==
  ASSUME PlainUse, NewestStays
  PROVE  Spec => ContractSpec
<1>1. Init => Contract!Init
  BY DEF Init, Contract!Init, Live
<1>2. BoundInv /\ KeepsNewest /\ [Next]_vars => [Contract!Next]_(Contract!vars)
  BY NextRefines
<1>3. "incr" \notin Ops
  BY DEF PlainUse
<1> QED BY <1>1, <1>2, <1>3, NewestInvHolds, PTL DEF Spec, ContractSpec, Contract!Spec
=============================================================================
