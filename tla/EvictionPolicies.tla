-------------------------- MODULE EvictionPolicies --------------------------
(***************************************************************************)
(* The two eviction policies of cachine/strategies/eviction.py, as         *)
(* operators on the state of a policy object.  A policy tells the cache    *)
(* which key to drop; dropping it from the store is the cache's business.  *)
(*                                                                         *)
(* LRUEviction keeps its keys in an OrderedDict: a sequence, the least     *)
(* recently used first.  LFUEviction keeps a frequency per key (0 here for *)
(* a key it does not track), a bucket of keys per frequency (an empty      *)
(* bucket is one the dictionary does not hold) and the least frequency.    *)
(***************************************************************************)
EXTENDS Integers, SequencesExt

CONSTANTS Keys, None,
          MaxFreq   \* bound: the highest frequency a key reaches

ASSUME PolicyAssumption == None \notin Keys /\ None \notin Nat /\ MaxFreq \in Nat \ {0}

Freqs == 1..MaxFreq
-----------------------------------------------------------------------------
(* LRUEviction *)

LruEmpty == <<>>

\* Mutant: a key used again enters at the wrong end.
LruAccessAtFront(order, k) == <<k>> \o RemoveFirst(order, k)

LruAccess(order, k) == Append(RemoveFirst(order, k), k)

LruRemove(order, k) == RemoveFirst(order, k)

\* evict_one: the victim (None when nothing is tracked) and what is left.
LruEvict(order) ==
  IF order = <<>> THEN [victim |-> None, left |-> order]
  ELSE [victim |-> Head(order), left |-> Tail(order)]
-----------------------------------------------------------------------------
(* LFUEviction *)

LfuEmpty == [freq    |-> [k \in Keys |-> 0],
             buckets |-> [f \in Freqs |-> <<>>],
             min     |-> None]

LfuTracked(p) == {k \in Keys : p.freq[k] # 0}

\* min(self._buckets.keys(), default=None)
LeastBucket(buckets) ==
  LET used == {f \in DOMAIN buckets : buckets[f] # <<>>}
  IN IF used = {} THEN None ELSE Min(used)

\* note_access: a new key enters the first bucket, a known one moves up.
LfuAccess(p, k) ==
  LET f == p.freq[k]
      rest == RemoveFirst(p.buckets[f], k) IN
  IF f = 0
  THEN [freq    |-> [p.freq EXCEPT ![k] = 1],
        buckets |-> [p.buckets EXCEPT ![1] = Append(@, k)],
        min     |-> 1]
  ELSE [freq    |-> [p.freq EXCEPT ![k] = f + 1],
        buckets |-> [p.buckets EXCEPT ![f] = rest, ![f + 1] = Append(@, k)],
        min     |-> IF rest = <<>> /\ p.min = f THEN f + 1 ELSE p.min]

\* Mutant: the key stays in its bucket.
LfuRemoveKeepsBucket(p, k) == [p EXCEPT !.freq[k] = 0]

\* Mutant: the least frequency is not recomputed.
LfuRemoveStaleMin(p, k) ==
  LET f == p.freq[k] IN
  IF f = 0 THEN p
  ELSE [freq    |-> [p.freq EXCEPT ![k] = 0],
        buckets |-> [p.buckets EXCEPT ![f] = RemoveFirst(@, k)],
        min     |-> p.min]

\* note_remove: the least frequency is recomputed when its bucket empties.
LfuRemove(p, k) ==
  LET f == p.freq[k]
      buckets == [p.buckets EXCEPT ![f] = RemoveFirst(@, k)] IN
  IF f = 0 THEN p
  ELSE [freq    |-> [p.freq EXCEPT ![k] = 0],
        buckets |-> buckets,
        min     |-> IF buckets[f] = <<>> /\ p.min = f THEN LeastBucket(buckets) ELSE p.min]

\* Mutant: the newest key of the bucket goes, not the oldest.
LfuEvictNewest(p) ==
  IF p.min = None THEN [victim |-> None, left |-> p]
  ELSE LET b == p.buckets[p.min]
           k == Last(b)
           buckets == [p.buckets EXCEPT ![p.min] = Front(b)]
       IN [victim |-> k,
           left |-> [freq    |-> [p.freq EXCEPT ![k] = 0],
                     buckets |-> buckets,
                     min     |-> LeastBucket(buckets)]]

\* evict_one: the oldest key of the least bucket; a least frequency whose
\* bucket is gone is recomputed first.
LfuEvict(p) ==
  LET least == IF p.min # None /\ p.buckets[p.min] = <<>>
               THEN LeastBucket(p.buckets) ELSE p.min IN
  IF least = None THEN [victim |-> None, left |-> [p EXCEPT !.min = None]]
  ELSE LET k == Head(p.buckets[least])
           buckets == [p.buckets EXCEPT ![least] = Tail(@)]
       IN [victim |-> k,
           left |-> [freq    |-> [p.freq EXCEPT ![k] = 0],
                     buckets |-> buckets,
                     min     |-> IF buckets[least] = <<>> THEN LeastBucket(buckets) ELSE least]]
=============================================================================
