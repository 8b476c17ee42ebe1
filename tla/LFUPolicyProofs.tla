-------------------------- MODULE LFUPolicyProofs ---------------------------
(***************************************************************************)
(* Proofs about one LFUEviction object, for any keys and any sequence of   *)
(* its methods.                                                            *)
(***************************************************************************)
EXTENDS LFUPolicy, EvictionProofs

\* The order of the last accesses: the tracked keys, each once, and in every
\* bucket the keys stand in that order.
OrderInv ==
  /\ recent \in Seq(Keys) /\ Distinct(recent)
  /\ ToSet(recent) = LfuTracked(policy)
  /\ \A f \in Freqs, a, b \in Keys : Before(policy.buckets[f], a, b) => Before(recent, a, b)

IInv == LfuInv(policy) /\ OrderInv /\ victim \in Keys \union {None}

LEMMA InitInv == Init => IInv
<1> SUFFICES ASSUME Init PROVE IInv
  OBVIOUS
<1>1. LfuInv(policy) /\ LfuTracked(policy) = {}
  BY LfuEmptyInv DEF Init
<1>2. recent \in Seq(Keys) /\ Distinct(recent) /\ ToSet(recent) = {}
  <2>1. <<>> \in Seq(Keys) /\ Len(<<>>) = 0
    OBVIOUS
  <2>2. Distinct(<<>>) /\ ToSet(<<>>) = {}
    BY <2>1, ElementsOf DEF Distinct
  <2> QED BY <2>1, <2>2 DEF Init
<1>3. ASSUME NEW f \in Freqs, NEW a, NEW b PROVE ~Before(policy.buckets[f], a, b)
  BY DEF Init, LfuEmpty, Before
<1> QED BY <1>1, <1>2, <1>3 DEF IInv, OrderInv, Init

LEMMA AccessInv ==
  ASSUME IInv, NEW k \in Keys, NoteAccess(k)
  PROVE  IInv'
<1>1. /\ LfuInv(policy') /\ LfuTracked(policy') = LfuTracked(policy) \union {k}
      /\ KeepsOrder(policy, policy', k)
  BY LfuAccessFacts DEF IInv, NoteAccess
<1> DEFINE rest == RemoveFirst(recent, k)
<1>2. /\ rest \in Seq(Keys) /\ Distinct(rest) /\ ToSet(rest) = ToSet(recent) \ {k}
      /\ \A a, b : Before(rest, a, b) <=> Before(recent, a, b) /\ a # k /\ b # k
  BY RemoveFirstFacts DEF IInv, OrderInv
<1>3. recent' = Append(rest, k)
  BY DEF NoteAccess
<1> HIDE DEF rest
<1>4. k \notin ToSet(rest)
  BY <1>2
<1>5. /\ recent' \in Seq(Keys) /\ Distinct(recent')
      /\ ToSet(recent') = ToSet(rest) \union {k}
      /\ \A a, b : Before(recent', a, b) <=> Before(rest, a, b) \/ (a \in ToSet(rest) /\ b = k)
  BY <1>2, <1>3, <1>4, AppendFacts
<1>6. ASSUME NEW f \in Freqs, NEW a \in Keys, NEW b \in Keys, Before(policy'.buckets[f], a, b)
      PROVE  Before(recent', a, b)
  <2>1. CASE Before(policy.buckets[f], a, b) /\ a # k /\ b # k
    BY <1>2, <1>5, <2>1 DEF IInv, OrderInv
  <2>2. CASE a \in ToSet(policy.buckets[f]) /\ a # k /\ b = k
    <3>1. policy.freq[a] = f /\ f # 0
      BY <2>2 DEF IInv, LfuInv, Freqs
    <3>2. a \in ToSet(rest)
      BY <1>2, <2>2, <3>1 DEF IInv, OrderInv, LfuTracked
    <3> QED BY <1>5, <2>2, <3>2
  <2> QED BY <1>1, <1>6, <2>1, <2>2 DEF KeepsOrder
<1>7. ToSet(recent') = LfuTracked(policy')
  BY <1>1, <1>2, <1>5 DEF IInv, OrderInv
<1> QED BY <1>1, <1>5, <1>6, <1>7 DEF IInv, OrderInv, NoteAccess

\* Whoever forgets k, note_remove or evict_one, does it by LfuRemove.
LEMMA RemoveInv ==
  ASSUME IInv, NEW k \in Keys,
         policy' = LfuRemove(policy, k), recent' = RemoveFirst(recent, k), victim' \in Keys \union {None}
  PROVE  IInv'
<1>1. /\ LfuInv(policy') /\ LfuTracked(policy') = LfuTracked(policy) \ {k}
      /\ KeepsOrder(policy, policy', k)
  BY LfuRemoveFacts DEF IInv
<1>2. /\ recent' \in Seq(Keys) /\ Distinct(recent') /\ ToSet(recent') = ToSet(recent) \ {k}
      /\ \A a, b : Before(recent', a, b) <=> Before(recent, a, b) /\ a # k /\ b # k
  BY RemoveFirstFacts DEF IInv, OrderInv
<1>3. ASSUME NEW f \in Freqs, NEW a \in Keys, NEW b \in Keys, Before(policy'.buckets[f], a, b)
      PROVE  Before(recent', a, b)
  <2>1. k \notin ToSet(policy'.buckets[f])
    <3>1. ToSet(policy'.buckets[f]) = {j \in Keys : policy'.freq[j] = f}
      BY <1>1 DEF LfuInv
    <3>2. policy'.freq[k] = 0
      BY <1>1 DEF LfuInv, LfuTracked
    <3> QED BY <3>1, <3>2 DEF Freqs
  <2>2. b # k
    <3>1. policy'.buckets[f] \in Seq(Keys) /\ Distinct(policy'.buckets[f])
      BY <1>1 DEF LfuInv
    <3> QED BY <1>3, <2>1, <3>1, BeforeIsStrict
  <2>3. Before(policy.buckets[f], a, b) /\ a # k
    BY <1>1, <1>3, <2>2 DEF KeepsOrder
  <2> QED BY <1>2, <2>2, <2>3 DEF IInv, OrderInv
<1>4. ToSet(recent') = LfuTracked(policy')
  BY <1>1, <1>2 DEF IInv, OrderInv
<1> QED BY <1>1, <1>2, <1>3, <1>4 DEF IInv, OrderInv

\* evict_one either forgets its victim or, with nothing tracked, does nothing.
LEMMA EvictCases ==
  ASSUME IInv, EvictOne
  PROVE  \/ LfuTracked(policy) = {} /\ victim' = None /\ UNCHANGED <<policy, recent>>
         \/ /\ victim' \in LfuTracked(policy)
            /\ policy' = LfuRemove(policy, victim')
            /\ recent' = RemoveFirst(recent, victim')
            /\ \A k \in LfuTracked(policy) : policy.freq[victim'] <= policy.freq[k]
            /\ \A k \in LfuTracked(policy) \ {victim'} :
                 policy.freq[k] = policy.freq[victim']
                   => Before(policy.buckets[policy.freq[victim']], victim', k)
<1>1. /\ victim' = LfuEvict(policy).victim /\ policy' = LfuEvict(policy).left
      /\ recent' = RemoveFirst(recent, victim')
  BY DEF EvictOne
<1>2. CASE LfuTracked(policy) = {}
  <2>1. victim' = None /\ policy' = policy
    BY <1>1, <1>2, LfuEvictFacts DEF IInv
  <2>2. RemoveFirst(recent, None) = recent
    BY <1>2, RemoveFirstFacts DEF IInv, OrderInv
  <2> QED BY <1>1, <1>2, <2>1, <2>2
<1>3. CASE LfuTracked(policy) # {}
  BY <1>1, <1>3, LfuEvictFacts DEF IInv
<1> QED BY <1>2, <1>3

LEMMA NextInv == IInv /\ [Next]_vars => IInv'
<1> SUFFICES ASSUME IInv, [Next]_vars PROVE IInv'
  OBVIOUS
<1>1. CASE \E k \in Keys : NoteAccess(k)
  BY <1>1, AccessInv
<1>2. CASE \E k \in Keys : NoteRemove(k)
  BY <1>2, RemoveInv DEF NoteRemove
<1>3. CASE EvictOne
  <2>1. CASE LfuTracked(policy) = {} /\ victim' = None /\ UNCHANGED <<policy, recent>>
    BY <2>1 DEF IInv, OrderInv
  <2>2. CASE /\ victim' \in LfuTracked(policy)
             /\ policy' = LfuRemove(policy, victim')
             /\ recent' = RemoveFirst(recent, victim')
    <3>1. victim' \in Keys
      BY <2>2 DEF LfuTracked
    <3> QED BY <2>2, <3>1, RemoveInv
  <2> QED BY <1>3, <2>1, <2>2, EvictCases
<1>4. CASE UNCHANGED vars
  BY <1>4 DEF vars, IInv, OrderInv
<1> QED BY <1>1, <1>2, <1>3, <1>4 DEF Next

LEMMA Invariant == Spec => []IInv
<1> QED BY InitInv, NextInv, PTL DEF Spec
-----------------------------------------------------------------------------
\* A sequence without repetitions has as many elements as positions.
LEMMA DistinctLength ==
  ASSUME NEW s \in Seq(Keys), Distinct(s)
  PROVE  Len(s) = Cardinality(ToSet(s))
<1>1. s \in [1..Len(s) -> ToSet(s)] /\ Len(s) \in Nat
  BY ElementsOf
<1>2. \A e \in ToSet(s) : \E i \in 1..Len(s) : s[i] = e
  BY ElementsOf
<1>3. s \in Bijection(1..Len(s), ToSet(s))
  BY <1>1, <1>2 DEF Distinct, Bijection, Injection, Surjection, IsInjective
<1>4. ExistsBijection(1..Len(s), ToSet(s))
  BY <1>3 DEF ExistsBijection
<1> QED BY <1>1, <1>4, FS_CountingElements

\* The frequency map and the buckets of LFUEviction describe the same keys
\* after every call of its methods: a key is in the bucket of its frequency,
\* once, and in no other.
THEOREM BucketsStayInStep == Spec => []BucketsMatchFreq
<1>1. IInv => BucketsMatchFreq
  <2> SUFFICES ASSUME IInv, NEW f \in Freqs
               PROVE  /\ ToSet(policy.buckets[f]) = {k \in Keys : policy.freq[k] = f}
                      /\ Len(policy.buckets[f]) = Cardinality(ToSet(policy.buckets[f]))
    BY DEF BucketsMatchFreq
  <2>1. policy.buckets[f] \in Seq(Keys) /\ Distinct(policy.buckets[f])
    BY DEF IInv, LfuInv
  <2> QED BY <2>1, DistinctLength DEF IInv, LfuInv
<1> QED BY <1>1, Invariant, PTL

\* The least frequency is exact after every method, so evict_one never has to
\* repair it.
THEOREM LeastIsExact == Spec => []MinFreqIsLeast
<1>1. IInv => MinFreqIsLeast
  BY DEF IInv, LfuInv, MinFreqIsLeast
<1> QED BY <1>1, Invariant, PTL

\* The contract removes a key from its sequence as the policy does.
LEMMA SameRemove ==
  ASSUME NEW s, NEW k
  PROVE  Contract!RemoveFirst(s, k) = RemoveFirst(s, k)
BY DEF Contract!RemoveFirst, RemoveFirst, Contract!RemoveAt, RemoveAt,
       Contract!SelectInSeq, SelectInSeq, Contract!Min, Min

\* LFUEviction evicts what its docstring says: every method is a step of the
\* contract, which knows no buckets.
THEOREM KeepsThePromise == Spec => EvictsAsPromised
<1>1. Init => Contract!Init
  BY DEF Init, Contract!Init, LfuEmpty
<1>2. IInv /\ [Next]_vars => [Contract!Next]_(Contract!vars)
  <2> SUFFICES ASSUME IInv, [Next]_vars PROVE [Contract!Next]_(Contract!vars)
    OBVIOUS
  <2>1. CASE \E k \in Keys : NoteAccess(k)
    <3>1. PICK k \in Keys : NoteAccess(k)
      BY <2>1
    <3>2. policy'.freq = [policy.freq EXCEPT ![k] = @ + 1]
      BY <3>1, LfuAccessFacts DEF IInv, NoteAccess
    <3>3. Contract!Access(k)
      BY <3>1, <3>2, SameRemove DEF NoteAccess, Contract!Access
    <3> QED BY <3>3 DEF Contract!Next
  <2>2. CASE \E k \in Keys : NoteRemove(k)
    <3>1. PICK k \in Keys : NoteRemove(k)
      BY <2>2
    <3>2. policy'.freq = [policy.freq EXCEPT ![k] = 0]
      BY <3>1, LfuRemoveFacts DEF IInv, NoteRemove
    <3>3. Contract!Forget(k)
      BY <3>1, <3>2, SameRemove DEF NoteRemove, Contract!Forget
    <3> QED BY <3>3 DEF Contract!Next
  <2>3. CASE EvictOne
    <3>1. CASE LfuTracked(policy) = {} /\ victim' = None /\ UNCHANGED <<policy, recent>>
      <4>1. recent = <<>>
        BY <3>1, ElementsOf DEF IInv, OrderInv
      <4>2. Contract!EvictNothing
        BY <3>1, <4>1 DEF Contract!EvictNothing
      <4> QED BY <4>2 DEF Contract!Next
    <3>2. CASE /\ victim' \in LfuTracked(policy)
               /\ policy' = LfuRemove(policy, victim')
               /\ recent' = RemoveFirst(recent, victim')
               /\ \A k \in LfuTracked(policy) : policy.freq[victim'] <= policy.freq[k]
               /\ \A k \in LfuTracked(policy) \ {victim'} :
                    policy.freq[k] = policy.freq[victim']
                      => Before(policy.buckets[policy.freq[victim']], victim', k)
      <4>1. /\ recent \in Seq(Keys) /\ Distinct(recent) /\ DOMAIN recent = 1..Len(recent)
            /\ \A j \in DOMAIN recent : recent[j] \in LfuTracked(policy)
        BY ElementsOf DEF IInv, OrderInv
      <4>2. PICK i \in DOMAIN recent : recent[i] = victim'
        BY <3>2, ElementsOf DEF IInv, OrderInv
      <4>3. \A j \in DOMAIN recent : policy.freq[recent[i]] <= policy.freq[recent[j]]
        BY <3>2, <4>1, <4>2
      <4>4. ASSUME NEW j \in 1..(i - 1) PROVE policy.freq[recent[i]] < policy.freq[recent[j]]
        <5>1. j \in DOMAIN recent /\ j < i /\ recent[j] # recent[i]
          BY <4>1, <4>2 DEF Distinct
        <5>2. ASSUME policy.freq[recent[j]] = policy.freq[recent[i]] PROVE FALSE
          <6> DEFINE f == policy.freq[victim']
          <6>1. f \in Freqs /\ victim' \in Keys /\ recent[j] \in Keys
            BY <3>2, <4>1, <5>1, PolicyAssumption DEF IInv, LfuInv, LfuTracked, Freqs
          <6>2. Before(policy.buckets[f], victim', recent[j])
            BY <3>2, <4>1, <4>2, <5>1, <5>2
          <6>3. Before(recent, victim', recent[j])
            BY <6>1, <6>2 DEF IInv, OrderInv
          <6>4. Before(recent, recent[j], victim')
            BY <4>1, <4>2, <5>1 DEF Before
          <6> QED BY <4>1, <6>3, <6>4, BeforeIsStrict
        <5>3. policy.freq[recent[i]] \in Nat /\ policy.freq[recent[j]] \in Nat
          BY <4>1, <5>1, PolicyAssumption DEF IInv, LfuInv, LfuTracked
        <5> QED BY <4>3, <5>1, <5>2, <5>3
      <4>5. policy'.freq = [policy.freq EXCEPT ![recent[i]] = 0]
        BY <3>2, <4>2, LfuRemoveFacts DEF IInv, LfuTracked
      <4>6. Contract!Evict
        BY <3>2, <4>2, <4>3, <4>4, <4>5, SameRemove DEF Contract!Evict
      <4> QED BY <4>6 DEF Contract!Next
    <3> QED BY <2>3, <3>1, <3>2, EvictCases
  <2>4. CASE UNCHANGED vars
    BY <2>4 DEF vars, Contract!vars
  <2> QED BY <2>1, <2>2, <2>3, <2>4 DEF Next
<1> QED BY <1>1, <1>2, Invariant, PTL DEF Spec, EvictsAsPromised, Contract!Spec
=============================================================================
