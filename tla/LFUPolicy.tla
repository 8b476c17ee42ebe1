----------------------------- MODULE LFUPolicy ------------------------------
(***************************************************************************)
(* One LFUEviction object driven by a cache: any sequence of note_access,  *)
(* note_remove and evict_one (cachine/strategies/eviction.py).             *)
(***************************************************************************)
EXTENDS EvictionPolicies

VARIABLES policy,   \* the object: frequencies, buckets, least frequency
          victim,   \* what the last evict_one returned
          recent    \* history: tracked keys in the order of their last access

vars == <<policy, victim, recent>>

\* Every variable keeps its type: the least frequency is one a key can have.
TypeOK ==
  /\ policy.freq \in [Keys -> 0..MaxFreq]
  /\ \A f \in Freqs : policy.buckets[f] \in Seq(Keys)
  /\ policy.min \in Freqs \union {None}
  /\ victim \in Keys \union {None}

Init == policy = LfuEmpty /\ victim = None /\ recent = <<>>

NoteAccess(k) == /\ policy.freq[k] < MaxFreq
                 /\ policy' = LfuAccess(policy, k)
                 /\ recent' = Append(RemoveFirst(recent, k), k)
                 /\ victim' = None

NoteRemove(k) == /\ policy' = LfuRemove(policy, k)
                 /\ recent' = RemoveFirst(recent, k)
                 /\ victim' = None

EvictOne == LET e == LfuEvict(policy) IN
            /\ policy' = e.left
            /\ victim' = e.victim
            /\ recent' = RemoveFirst(recent, e.victim)

Next == \/ \E k \in Keys : NoteAccess(k) \/ NoteRemove(k)
        \/ EvictOne

Spec == Init /\ [][Next]_vars
-----------------------------------------------------------------------------
\* The frequency map and the buckets describe the same keys: a key is in the
\* bucket of its frequency, once, and in no other.
BucketsMatchFreq ==
  \A f \in Freqs : /\ ToSet(policy.buckets[f]) = {k \in Keys : policy.freq[k] = f}
                   /\ Len(policy.buckets[f]) = Cardinality(ToSet(policy.buckets[f]))

\* The least frequency is exact after every operation, not only when evict_one
\* repairs it: note_access and note_remove keep it up to date.
MinFreqIsLeast == policy.min = LeastBucket(policy.buckets)

Contract == INSTANCE EvictionContract WITH uses <- policy.freq

\* The object evicts what its docstring says, whatever the accesses before.
EvictsAsPromised == Contract!Spec
=============================================================================
