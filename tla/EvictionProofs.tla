--------------------------- MODULE EvictionProofs ---------------------------
(***************************************************************************)
(* Facts about the eviction policies, for any keys: the sequences they are *)
(* made of, and what each of their methods does.                           *)
(***************************************************************************)
EXTENDS EvictionPolicies, FiniteSetTheorems, SequenceTheorems, TLAPS

-----------------------------------------------------------------------------
(* Least elements and induction *)

\* A set of naturals has a least element.
LEMMA LeastOf ==
  ASSUME NEW S \in SUBSET Nat, S # {}
  PROVE  \E n \in S : \A m \in S : n <= m
<1> DEFINE R == OpToRel(<, Nat)
<1>1. IsWellFoundedOn(R, Nat)
  BY NatLessThanWellFounded
<1>2. ASSUME NEW m \in Nat, NEW n \in Nat, m < n PROVE <<m, n>> \in R
  BY <1>2 DEF OpToRel
<1> HIDE DEF R
<1>3. PICK n \in S : \A m \in S : ~(<<m, n>> \in R)
  BY <1>1, WFMin
<1>4. ASSUME NEW m \in S PROVE n <= m
  <2>1. ~(m < n) /\ m \in Nat /\ n \in Nat
    BY <1>2, <1>3
  <2> QED BY <2>1
<1> QED BY <1>4

\* Min is that element.
LEMMA MinProperties ==
  ASSUME NEW S \in SUBSET Nat, S # {}
  PROVE  Min(S) \in S /\ \A n \in S : Min(S) <= n
<1>1. PICK n \in S : \A m \in S : n <= m
  BY LeastOf
<1> QED BY <1>1 DEF Min

\* Induction over the naturals, for the set of those that have a property.
LEMMA SetInduction ==
  ASSUME NEW A, 0 \in A, \A n \in Nat : n \in A => n + 1 \in A
  PROVE  Nat \subseteq A
<1> SUFFICES ASSUME Nat \ A # {} PROVE FALSE
  OBVIOUS
<1>1. PICK n \in Nat \ A : \A m \in Nat \ A : n <= m
  BY LeastOf
<1>2. n # 0 /\ n - 1 \in Nat
  OBVIOUS
<1>3. n - 1 \notin A
  BY <1>2
<1> QED BY <1>1, <1>2, <1>3
-----------------------------------------------------------------------------
(* Sequences without repetitions *)

Distinct(s) == \A i, j \in 1..Len(s) : s[i] = s[j] => i = j

\* a stands before b.
Before(s, a, b) == \E i, j \in 1..Len(s) : i < j /\ s[i] = a /\ s[j] = b

LEMMA ElementsOf ==
  ASSUME NEW s \in Seq(Keys)
  PROVE  /\ ToSet(s) \in SUBSET Keys
         /\ \A k : k \in ToSet(s) <=> \E i \in 1..Len(s) : s[i] = k
         /\ ToSet(s) = {} <=> s = <<>>
<1>1. DOMAIN s = 1..Len(s) /\ \A i \in 1..Len(s) : s[i] \in Keys
  OBVIOUS
<1>2. \A k : k \in ToSet(s) <=> \E i \in 1..Len(s) : s[i] = k
  BY <1>1 DEF ToSet
<1>3. s # <<>> => s[1] \in ToSet(s)
  BY <1>2
<1>4. s = <<>> => ToSet(s) = {}
  BY <1>2
<1> QED BY <1>1, <1>2, <1>3, <1>4

\* Taking a key out of a sequence takes out nothing else and keeps the order.
LEMMA RemoveFirstFacts ==
  ASSUME NEW s \in Seq(Keys), Distinct(s), NEW k
  PROVE  /\ RemoveFirst(s, k) \in Seq(Keys)
         /\ Distinct(RemoveFirst(s, k))
         /\ ToSet(RemoveFirst(s, k)) = ToSet(s) \ {k}
         /\ \A a, b : Before(RemoveFirst(s, k), a, b) <=> Before(s, a, b) /\ a # k /\ b # k
         /\ k \notin ToSet(s) => RemoveFirst(s, k) = s
<1>1. CASE \A i \in 1..Len(s) : s[i] # k
  <2>1. RemoveFirst(s, k) = s
    BY <1>1 DEF RemoveFirst
  <2> QED BY <1>1, <2>1, ElementsOf DEF Before
<1>2. CASE \E i \in 1..Len(s) : s[i] = k
  <2> DEFINE I == {i \in 1..Len(s) : s[i] = k}
             p == Min(I)
             r == RemoveAt(s, p)
  <2>1. I \in SUBSET Nat /\ I # {}
    BY <1>2
  <2>2. p \in 1..Len(s) /\ s[p] = k
    <3>1. p \in I
      BY <2>1, MinProperties
    <3> QED BY <3>1
  <2>3. RemoveFirst(s, k) = r
    BY <1>2, <2>1 DEF RemoveFirst, SelectInSeq
  <2> HIDE DEF p
  <2>4. /\ r \in Seq(Keys)
        /\ Len(r) = Len(s) - 1
        /\ \A j \in 1..Len(r) : r[j] = IF j < p THEN s[j] ELSE s[j + 1]
    <3> DEFINE u == SubSeq(s, 1, p - 1)
               v == SubSeq(s, p + 1, Len(s))
    <3>1. /\ u \in Seq(Keys) /\ Len(u) = p - 1
          /\ \A j \in 1..(p - 1) : u[j] = s[j]
      BY <2>2
    <3>2. /\ v \in Seq(Keys) /\ Len(v) = Len(s) - p
          /\ \A j \in 1..(Len(s) - p) : v[j] = s[p + j]
      BY <2>2
    <3>3. r = u \o v
      BY DEF RemoveAt
    <3> HIDE DEF u, v, r
    <3>0. /\ u \o v \in Seq(Keys) /\ Len(u \o v) = Len(u) + Len(v)
          /\ \A j \in 1..(Len(u) + Len(v)) : (u \o v)[j] = IF j <= Len(u) THEN u[j] ELSE v[j - Len(u)]
      <4>1. u \in Seq(Keys) /\ v \in Seq(Keys)
        BY <3>1, <3>2
      <4> QED BY <4>1, ConcatProperties, Zenon
    <3>4. /\ r \in Seq(Keys) /\ Len(r) = Len(u) + Len(v)
          /\ \A j \in 1..Len(r) : r[j] = IF j <= Len(u) THEN u[j] ELSE v[j - Len(u)]
      BY <3>0, <3>3, Zenon
    <3>5. ASSUME NEW j \in 1..Len(r), ~(j < p) PROVE r[j] = s[j + 1]
      <4>1. r[j] = v[j - Len(u)] /\ j - Len(u) \in 1..(Len(s) - p)
        BY <2>2, <3>1, <3>2, <3>4, <3>5
      <4> QED BY <2>2, <3>1, <3>2, <4>1
    <3>6. ASSUME NEW j \in 1..Len(r), j < p PROVE r[j] = s[j]
      BY <2>2, <3>1, <3>2, <3>4, <3>6
    <3> QED BY <2>2, <3>1, <3>2, <3>4, <3>5, <3>6
  <2> HIDE DEF r, I
  <2>5. \A i \in 1..Len(s) : s[i] = k <=> i = p
    BY <2>2 DEF Distinct
  <2>6. Distinct(r)
    <3> SUFFICES ASSUME NEW i \in 1..Len(r), NEW j \in 1..Len(r), r[i] = r[j] PROVE i = j
      BY DEF Distinct
    <3> DEFINE a == IF i < p THEN i ELSE i + 1
               b == IF j < p THEN j ELSE j + 1
    <3>1. a \in 1..Len(s) /\ b \in 1..Len(s) /\ r[i] = s[a] /\ r[j] = s[b] /\ (a = b => i = j)
      BY <2>2, <2>4
    <3> HIDE DEF a, b
    <3> QED BY <3>1 DEF Distinct
  <2>7. \A i \in 1..Len(s) : i # p => \E j \in 1..Len(r) : r[j] = s[i] /\ j = (IF i < p THEN i ELSE i - 1)
    BY <2>2, <2>4
  <2>8. \A j \in 1..Len(r) : \E i \in 1..Len(s) : r[j] = s[i] /\ i # p /\ i = (IF j < p THEN j ELSE j + 1)
    BY <2>2, <2>4
  <2>9. ToSet(r) = ToSet(s) \ {k}
    <3>1. ASSUME NEW a PROVE a \in ToSet(r) <=> a \in ToSet(s) /\ a # k
      <4>1. a \in ToSet(r) <=> \E j \in 1..Len(r) : r[j] = a
        BY <2>4, ElementsOf
      <4>2. a \in ToSet(s) <=> \E i \in 1..Len(s) : s[i] = a
        BY ElementsOf
      <4>3. ASSUME NEW j \in 1..Len(r), r[j] = a PROVE a \in ToSet(s) /\ a # k
        BY <4>2, <4>3, <2>5, <2>8
      <4>4. ASSUME NEW i \in 1..Len(s), s[i] = a, a # k PROVE a \in ToSet(r)
        BY <4>1, <4>4, <2>5, <2>7
      <4> QED BY <4>1, <4>2, <4>3, <4>4
    <3> QED BY <3>1
  <2>10. ASSUME NEW a, NEW b, Before(r, a, b) PROVE Before(s, a, b) /\ a # k /\ b # k
    BY <2>10, <2>2, <2>4, <2>5 DEF Before
  <2>11. ASSUME NEW a, NEW b, Before(s, a, b), a # k, b # k PROVE Before(r, a, b)
    <3>1. PICK i, j \in 1..Len(s) : i < j /\ s[i] = a /\ s[j] = b
      BY <2>11 DEF Before
    <3>2. i # p /\ j # p
      BY <2>5, <2>11, <3>1
    <3> DEFINE x == IF i < p THEN i ELSE i - 1
               y == IF j < p THEN j ELSE j - 1
    <3>3. x \in 1..Len(r) /\ y \in 1..Len(r) /\ r[x] = s[i] /\ r[y] = s[j]
      BY <2>7, <3>2
    <3>4. x < y
      BY <2>2, <3>1, <3>2
    <3> QED BY <3>1, <3>3, <3>4 DEF Before
  <2> QED BY <1>2, <2>3, <2>4, <2>6, <2>9, <2>10, <2>11, ElementsOf
<1> QED BY <1>1, <1>2

LEMMA AppendFacts ==
  ASSUME NEW s \in Seq(Keys), Distinct(s), NEW k \in Keys, k \notin ToSet(s)
  PROVE  /\ Append(s, k) \in Seq(Keys)
         /\ Append(s, k) # <<>>
         /\ Distinct(Append(s, k))
         /\ ToSet(Append(s, k)) = ToSet(s) \union {k}
         /\ \A a, b : Before(Append(s, k), a, b) <=> Before(s, a, b) \/ (a \in ToSet(s) /\ b = k)
<1> DEFINE t == Append(s, k)
<1>1. /\ t \in Seq(Keys) /\ t # <<>> /\ Len(t) = Len(s) + 1
      /\ \A i \in 1..Len(s) : t[i] = s[i]
      /\ t[Len(s) + 1] = k
  BY AppendProperties
<1>2. Len(s) \in Nat /\ \A i \in 1..Len(s) : s[i] # k
  BY ElementsOf
<1> HIDE DEF t
<1>3. Distinct(t)
  BY <1>1, <1>2 DEF Distinct
<1>4. ASSUME NEW a PROVE a \in ToSet(t) <=> a \in ToSet(s) \/ a = k
  <2>1. a \in ToSet(t) <=> \E i \in 1..(Len(s) + 1) : t[i] = a
    BY <1>1, ElementsOf
  <2>2. a \in ToSet(s) <=> \E i \in 1..Len(s) : s[i] = a
    BY ElementsOf
  <2> QED BY <1>1, <1>2, <2>1, <2>2
<1>5. ASSUME NEW a, NEW b, Before(t, a, b) PROVE Before(s, a, b) \/ (a \in ToSet(s) /\ b = k)
  <2>1. PICK i, j \in 1..Len(t) : i < j /\ t[i] = a /\ t[j] = b
    BY <1>5 DEF Before
  <2>2. i \in 1..Len(s) /\ s[i] = a
    BY <1>1, <1>2, <2>1
  <2>3. a \in ToSet(s)
    BY <2>2, ElementsOf
  <2>4. CASE j = Len(s) + 1 BY <1>1, <2>1, <2>3, <2>4
  <2>5. CASE j \in 1..Len(s) BY <1>1, <2>1, <2>2, <2>5 DEF Before
  <2> QED BY <1>1, <1>2, <2>4, <2>5
<1>6. ASSUME NEW a, NEW b, Before(s, a, b) PROVE Before(t, a, b)
  BY <1>1, <1>2, <1>6 DEF Before
<1>7. ASSUME NEW a, NEW b, a \in ToSet(s), b = k PROVE Before(t, a, b)
  <2>1. PICK i \in 1..Len(s) : s[i] = a
    BY <1>7, ElementsOf
  <2>2. i \in 1..Len(t) /\ Len(s) + 1 \in 1..Len(t) /\ i < Len(s) + 1
    BY <1>1, <1>2
  <2> QED BY <1>1, <1>7, <2>1, <2>2 DEF Before
<1>8. ToSet(t) = ToSet(s) \union {k}
  BY <1>4
<1>9. \A a, b : Before(t, a, b) <=> Before(s, a, b) \/ (a \in ToSet(s) /\ b = k)
  BY <1>5, <1>6, <1>7
<1> QED BY <1>1, <1>3, <1>8, <1>9 DEF t

\* popitem(last=False) takes the first key out, and every other came after it.
LEMMA HeadFacts ==
  ASSUME NEW s \in Seq(Keys), Distinct(s), s # <<>>
  PROVE  /\ Head(s) \in ToSet(s) /\ Head(s) \in Keys
         /\ Tail(s) = RemoveFirst(s, Head(s))
         /\ \A b \in ToSet(s) \ {Head(s)} : Before(s, Head(s), b)
<1>1. Len(s) \in Nat /\ Len(s) > 0 /\ Head(s) = s[1]
  OBVIOUS
<1>2. Head(s) \in ToSet(s)
  BY <1>1, ElementsOf
<1>3. Head(s) \in Keys
  BY <1>1
<1>4. ASSUME NEW b \in ToSet(s) \ {Head(s)} PROVE Before(s, Head(s), b)
  <2>1. PICK j \in 1..Len(s) : s[j] = b
    BY ElementsOf
  <2>2. 1 \in 1..Len(s) /\ 1 < j
    BY <1>1, <2>1
  <2> QED BY <1>1, <2>1, <2>2 DEF Before
<1>5. Tail(s) = RemoveFirst(s, Head(s))
  <2> DEFINE I == {i \in 1..Len(s) : s[i] = Head(s)}
             p == Min(I)
  <2>1. I = {1}
    BY <1>1 DEF Distinct
  <2>2. p = 1
    <3>1. I \in SUBSET Nat /\ I # {}
      BY <2>1
    <3> HIDE DEF I
    <3>2. p \in I
      BY <3>1, MinProperties
    <3> QED BY <2>1, <3>2
  <2>3. RemoveFirst(s, Head(s)) = RemoveAt(s, p)
    BY <1>1 DEF RemoveFirst, SelectInSeq
  <2>4. RemoveAt(s, 1) = SubSeq(s, 1, 0) \o SubSeq(s, 2, Len(s))
    BY DEF RemoveAt
  <2>5. SubSeq(s, 1, 0) = <<>>
    BY SubSeqEmpty
  <2>6. SubSeq(s, 2, Len(s)) = Tail(s) /\ Tail(s) \in Seq(Keys)
    BY TailIsSubSeq, HeadTailProperties
  <2>7. <<>> \o Tail(s) = Tail(s)
    BY <2>6, ConcatEmptySeq
  <2> QED BY <2>2, <2>3, <2>4, <2>5, <2>6, <2>7
<1> QED BY <1>2, <1>3, <1>4, <1>5

\* Positions order the keys of a sequence.
LEMMA BeforeIsStrict ==
  ASSUME NEW s \in Seq(Keys), Distinct(s), NEW a, NEW b, Before(s, a, b)
  PROVE  ~Before(s, b, a) /\ a \in ToSet(s) /\ b \in ToSet(s) /\ a # b
BY ElementsOf DEF Before, Distinct
-----------------------------------------------------------------------------
(* The least bucket *)

LEMMA LeastBucketFacts ==
  ASSUME NEW b \in [Freqs -> Seq(Keys)]
  PROVE  /\ LeastBucket(b) = None <=> \A f \in Freqs : b[f] = <<>>
         /\ LeastBucket(b) # None => /\ LeastBucket(b) \in Freqs
                                     /\ b[LeastBucket(b)] # <<>>
                                     /\ \A f \in Freqs : f < LeastBucket(b) => b[f] = <<>>
<1> DEFINE S == {f \in Freqs : b[f] # <<>>}
<1>1. LeastBucket(b) = IF S = {} THEN None ELSE Min(S)
  BY DEF LeastBucket
<1>2. S \in SUBSET Nat
  BY DEF Freqs
<1>3. S # {} => Min(S) \in S /\ \A n \in S : Min(S) <= n
  BY <1>2, MinProperties
<1>4. S # {} => Min(S) # None
  BY <1>2, <1>3, PolicyAssumption
<1>5. CASE S = {}
  BY <1>1, <1>5
<1>6. CASE S # {}
  <2> DEFINE m == Min(S)
  <2>1. LeastBucket(b) = m /\ m # None /\ m \in S /\ \A n \in S : m <= n
    BY <1>1, <1>3, <1>4, <1>6
  <2> HIDE DEF m
  <2>2. m \in Freqs /\ b[m] # <<>>
    BY <2>1
  <2>3. ASSUME NEW f \in Freqs, f < m PROVE b[f] = <<>>
    BY <2>1, <2>2, <2>3 DEF Freqs
  <2> QED BY <2>1, <2>2, <2>3
<1> QED BY <1>5, <1>6

LEMMA LeastBucketIs ==
  ASSUME NEW b \in [Freqs -> Seq(Keys)], NEW m \in Freqs, b[m] # <<>>,
         \A f \in Freqs : f < m => b[f] = <<>>
  PROVE  LeastBucket(b) = m
<1>1. LeastBucket(b) # None
  BY LeastBucketFacts
<1>2. /\ LeastBucket(b) \in Freqs /\ b[LeastBucket(b)] # <<>>
      /\ \A f \in Freqs : f < LeastBucket(b) => b[f] = <<>>
  BY <1>1, LeastBucketFacts
<1> QED BY <1>2 DEF Freqs
-----------------------------------------------------------------------------
(* LFUEviction *)

\* The buckets partition the tracked keys by frequency, and the least
\* frequency is that of the first bucket in use.
LfuInv(p) ==
  /\ p \in [freq : [Keys -> 0..MaxFreq], buckets : [Freqs -> Seq(Keys)], min : Freqs \union {None}]
  /\ \A f \in Freqs : /\ Distinct(p.buckets[f])
                      /\ ToSet(p.buckets[f]) = {k \in Keys : p.freq[k] = f}
  /\ p.min = LeastBucket(p.buckets)

\* From p to q no bucket changes the order of its keys; only k may have left
\* its bucket and come behind all the keys of another one.
KeepsOrder(p, q, k) ==
  \A f \in Freqs, a, b \in Keys :
    Before(q.buckets[f], a, b) => \/ Before(p.buckets[f], a, b) /\ a # k /\ b # k
                                  \/ a \in ToSet(p.buckets[f]) /\ a # k /\ b = k

LEMMA LfuEmptyInv == LfuInv(LfuEmpty) /\ LfuTracked(LfuEmpty) = {}
<1> DEFINE none == [f \in Freqs |-> <<>>]
<1>1. none \in [Freqs -> Seq(Keys)]
  OBVIOUS
<1>2. LeastBucket(none) = None
  BY <1>1, LeastBucketFacts
<1>3. \A f \in Freqs : Distinct(none[f]) /\ ToSet(none[f]) = {}
  <2>1. <<>> \in Seq(Keys) /\ Len(<<>>) = 0
    OBVIOUS
  <2>2. Distinct(<<>>) /\ ToSet(<<>>) = {}
    BY <2>1, ElementsOf DEF Distinct
  <2> QED BY <2>2
<1>4. \A k \in Keys : LfuEmpty.freq[k] = 0
  BY DEF LfuEmpty
<1>5. LfuEmpty.buckets = none /\ LfuEmpty.min = None
  BY DEF LfuEmpty
<1>6. \A f \in Freqs : f # 0
  BY DEF Freqs
<1>7. LfuEmpty \in [freq : [Keys -> 0..MaxFreq], buckets : [Freqs -> Seq(Keys)], min : Freqs \union {None}]
  BY <1>1, PolicyAssumption DEF LfuEmpty
<1> QED BY <1>2, <1>3, <1>4, <1>5, <1>6, <1>7 DEF LfuInv, LfuTracked

\* note_access counts one access of the key and nothing else.
LEMMA LfuAccessFacts ==
  ASSUME NEW p, LfuInv(p), NEW k \in Keys, p.freq[k] < MaxFreq
  PROVE  /\ LfuInv(LfuAccess(p, k))
         /\ LfuAccess(p, k).freq = [p.freq EXCEPT ![k] = @ + 1]
         /\ LfuTracked(LfuAccess(p, k)) = LfuTracked(p) \union {k}
         /\ KeepsOrder(p, LfuAccess(p, k), k)
<1> DEFINE f == p.freq[k]
           q == LfuAccess(p, k)
<1>1. /\ p.freq \in [Keys -> 0..MaxFreq] /\ p.buckets \in [Freqs -> Seq(Keys)]
      /\ \A g \in Freqs : Distinct(p.buckets[g]) /\ ToSet(p.buckets[g]) = {j \in Keys : p.freq[j] = g}
      /\ p.min = LeastBucket(p.buckets)
      /\ f \in 0..MaxFreq /\ f + 1 \in Freqs
  BY PolicyAssumption DEF LfuInv, Freqs
<1>2. q.freq = [p.freq EXCEPT ![k] = f + 1]
  BY DEF LfuAccess
<1>3. /\ q.buckets \in [Freqs -> Seq(Keys)]
      /\ q.buckets[f + 1] = Append(p.buckets[f + 1], k)
      /\ f # 0 => q.buckets[f] = RemoveFirst(p.buckets[f], k)
      /\ \A g \in Freqs : g # f /\ g # f + 1 => q.buckets[g] = p.buckets[g]
  <2>1. CASE f = 0
    BY <1>1, <2>1 DEF LfuAccess
  <2>2. CASE f # 0
    <3>1. f \in Freqs /\ f # f + 1
      BY <1>1, <2>2 DEF Freqs
    <3>2. q.buckets = [p.buckets EXCEPT ![f] = RemoveFirst(p.buckets[f], k), ![f + 1] = Append(@, k)]
      BY <2>2 DEF LfuAccess
    <3>3. RemoveFirst(p.buckets[f], k) \in Seq(Keys)
      BY <1>1, <3>1, RemoveFirstFacts
    <3> DEFINE rest == RemoveFirst(p.buckets[f], k)
               b == [p.buckets EXCEPT ![f] = rest]
    <3>4. /\ b \in [Freqs -> Seq(Keys)] /\ b[f] = rest /\ b[f + 1] = p.buckets[f + 1]
          /\ \A g \in Freqs : g # f => b[g] = p.buckets[g]
      BY <1>1, <3>1, <3>3
    <3>5. q.buckets = [b EXCEPT ![f + 1] = Append(b[f + 1], k)]
      BY <1>1, <3>1, <3>2, <3>4
    <3> HIDE DEF b, rest, q
    <3>6. Append(b[f + 1], k) \in Seq(Keys)
      BY <1>1, <3>4
    <3> QED BY <1>1, <3>1, <3>4, <3>5, <3>6 DEF rest
  <2> QED BY <2>1, <2>2
<1>4. k \notin ToSet(p.buckets[f + 1])
  BY <1>1
<1>5. /\ Distinct(q.buckets[f + 1]) /\ q.buckets[f + 1] # <<>>
      /\ ToSet(q.buckets[f + 1]) = ToSet(p.buckets[f + 1]) \union {k}
      /\ \A a, b : Before(q.buckets[f + 1], a, b)
           <=> Before(p.buckets[f + 1], a, b) \/ (a \in ToSet(p.buckets[f + 1]) /\ b = k)
  <2> DEFINE s == p.buckets[f + 1]
  <2>1. s \in Seq(Keys) /\ Distinct(s) /\ k \notin ToSet(s)
    BY <1>1, <1>4
  <2> HIDE DEF s
  <2>2. /\ Append(s, k) # <<>> /\ Distinct(Append(s, k))
        /\ ToSet(Append(s, k)) = ToSet(s) \union {k}
        /\ \A a, b : Before(Append(s, k), a, b) <=> Before(s, a, b) \/ (a \in ToSet(s) /\ b = k)
    BY <2>1, AppendFacts
  <2>3. q.buckets[f + 1] = Append(s, k)
    BY <1>3 DEF s
  <2> QED BY <2>2, <2>3 DEF s
<1>6. ASSUME f # 0
      PROVE  /\ f \in Freqs
             /\ Distinct(q.buckets[f])
             /\ ToSet(q.buckets[f]) = ToSet(p.buckets[f]) \ {k}
             /\ \A a, b : Before(q.buckets[f], a, b) <=> Before(p.buckets[f], a, b) /\ a # k /\ b # k
  <2>1. f \in Freqs
    BY <1>1, <1>6 DEF Freqs
  <2> DEFINE s == p.buckets[f]
  <2>2. s \in Seq(Keys) /\ Distinct(s) /\ q.buckets[f] = RemoveFirst(s, k)
    BY <1>1, <1>3, <1>6, <2>1
  <2> HIDE DEF s
  <2>3. /\ Distinct(RemoveFirst(s, k)) /\ ToSet(RemoveFirst(s, k)) = ToSet(s) \ {k}
        /\ \A a, b : Before(RemoveFirst(s, k), a, b) <=> Before(s, a, b) /\ a # k /\ b # k
    BY <2>2, RemoveFirstFacts
  <2> QED BY <2>1, <2>2, <2>3 DEF s
<1> HIDE DEF q
<1>7. ASSUME NEW g \in Freqs
      PROVE  Distinct(q.buckets[g]) /\ ToSet(q.buckets[g]) = {j \in Keys : q.freq[j] = g}
  <2>1. \A j \in Keys : q.freq[j] = IF j = k THEN f + 1 ELSE p.freq[j]
    BY <1>1, <1>2
  <2>2. CASE g = f + 1 BY <1>1, <1>5, <2>1, <2>2
  <2>3. CASE g = f
    <3>1. f # 0
      BY <2>3 DEF Freqs
    <3> QED BY <1>1, <1>6, <2>1, <2>3, <3>1
  <2>4. CASE g # f /\ g # f + 1 BY <1>1, <1>3, <2>1, <2>4
  <2> QED BY <2>2, <2>3, <2>4
<1>8. KeepsOrder(p, q, k)
  <2> SUFFICES ASSUME NEW g \in Freqs, NEW a \in Keys, NEW b \in Keys, Before(q.buckets[g], a, b)
               PROVE  \/ Before(p.buckets[g], a, b) /\ a # k /\ b # k
                      \/ a \in ToSet(p.buckets[g]) /\ a # k /\ b = k
    BY DEF KeepsOrder
  <2>1. Before(p.buckets[g], a, b) => a \in ToSet(p.buckets[g]) /\ b \in ToSet(p.buckets[g])
    BY <1>1, BeforeIsStrict
  <2>2. CASE g = f + 1 BY <1>4, <1>5, <2>1, <2>2
  <2>3. CASE g = f
    <3>1. f # 0
      BY <2>3 DEF Freqs
    <3> QED BY <1>6, <2>3, <3>1
  <2>4. CASE g # f /\ g # f + 1 BY <1>1, <1>3, <2>1, <2>4
  <2> QED BY <2>2, <2>3, <2>4
<1>9. q.min = LeastBucket(q.buckets) /\ q.min \in Freqs
  <2>1. CASE f = 0
    <3>1. q.min = 1
      BY <2>1 DEF LfuAccess, q
    <3>2. 1 \in Freqs /\ \A g \in Freqs : ~(g < 1)
      BY PolicyAssumption DEF Freqs
    <3> QED BY <1>3, <1>5, <2>1, <3>1, <3>2, LeastBucketIs
  <2>2. CASE f # 0
    <3>1. q.min = IF q.buckets[f] = <<>> /\ p.min = f THEN f + 1 ELSE p.min
      BY <1>3, <2>2 DEF LfuAccess, q
    <3>2. f \in Freqs /\ k \in ToSet(p.buckets[f])
      BY <1>1, <1>6, <2>2
    <3>3. p.buckets[f] # <<>>
      BY <1>1, <3>2, ElementsOf
    <3>4. /\ p.min \in Freqs /\ p.buckets[p.min] # <<>>
          /\ \A g \in Freqs : g < p.min => p.buckets[g] = <<>>
      BY <1>1, <3>2, <3>3, LeastBucketFacts
    <3>5. p.min <= f
      BY <3>2, <3>3, <3>4 DEF Freqs
    <3>6. CASE q.buckets[f] = <<>> /\ p.min = f
      <4>1. \A g \in Freqs : g < f + 1 => q.buckets[g] = <<>>
        BY <1>3, <3>2, <3>4, <3>6 DEF Freqs
      <4> QED BY <1>1, <1>3, <1>5, <3>1, <3>6, <4>1, LeastBucketIs
    <3>7. CASE ~(q.buckets[f] = <<>> /\ p.min = f)
      <4>1. q.buckets[p.min] # <<>>
        BY <1>1, <1>3, <1>5, <3>4, <3>7
      <4>2. \A g \in Freqs : g < p.min => q.buckets[g] = <<>>
        BY <1>3, <3>2, <3>4, <3>5 DEF Freqs
      <4> QED BY <1>3, <3>1, <3>4, <3>7, <4>1, <4>2, LeastBucketIs
    <3> QED BY <3>6, <3>7
  <2> QED BY <2>1, <2>2
<1>10. q \in [freq : [Keys -> 0..MaxFreq], buckets : [Freqs -> Seq(Keys)], min : Freqs \union {None}]
  <2>1. q = [freq |-> q.freq, buckets |-> q.buckets, min |-> q.min]
    BY DEF LfuAccess, q
  <2>2. q.freq \in [Keys -> 0..MaxFreq]
    BY <1>1, <1>2 DEF Freqs
  <2> QED BY <1>3, <1>9, <2>1, <2>2
<1>11. LfuTracked(q) = LfuTracked(p) \union {k}
  BY <1>1, <1>2 DEF LfuTracked, Freqs
<1> QED BY <1>2, <1>7, <1>8, <1>9, <1>10, <1>11 DEF LfuInv, q

\* note_remove forgets the key and nothing else.
LEMMA LfuRemoveFacts ==
  ASSUME NEW p, LfuInv(p), NEW k \in Keys
  PROVE  /\ LfuInv(LfuRemove(p, k))
         /\ LfuRemove(p, k).freq = [p.freq EXCEPT ![k] = 0]
         /\ LfuTracked(LfuRemove(p, k)) = LfuTracked(p) \ {k}
         /\ KeepsOrder(p, LfuRemove(p, k), k)
<1> DEFINE f == p.freq[k]
           q == LfuRemove(p, k)
<1>1. /\ p.freq \in [Keys -> 0..MaxFreq] /\ p.buckets \in [Freqs -> Seq(Keys)]
      /\ \A g \in Freqs : Distinct(p.buckets[g]) /\ ToSet(p.buckets[g]) = {j \in Keys : p.freq[j] = g}
      /\ p.min = LeastBucket(p.buckets)
      /\ f \in 0..MaxFreq
  BY PolicyAssumption DEF LfuInv
<1>2. CASE f = 0
  <2>1. q = p /\ p.freq = [p.freq EXCEPT ![k] = 0] /\ k \notin LfuTracked(p)
    BY <1>1, <1>2 DEF LfuRemove, LfuTracked
  <2>2. \A g \in Freqs : k \notin ToSet(p.buckets[g])
    BY <1>1, <1>2 DEF Freqs
  <2>3. KeepsOrder(p, p, k)
    BY <1>1, <2>2, BeforeIsStrict DEF KeepsOrder
  <2> QED BY <2>1, <2>3
<1>3. CASE f # 0
  <2>1. f \in Freqs
    BY <1>1, <1>3 DEF Freqs
  <2> DEFINE s == p.buckets[f]
  <2>2. s \in Seq(Keys) /\ Distinct(s)
    BY <1>1, <2>1
  <2>3. /\ RemoveFirst(s, k) \in Seq(Keys) /\ Distinct(RemoveFirst(s, k))
        /\ ToSet(RemoveFirst(s, k)) = ToSet(s) \ {k}
        /\ \A a, b : Before(RemoveFirst(s, k), a, b) <=> Before(s, a, b) /\ a # k /\ b # k
    <3> HIDE DEF s
    <3> QED BY <2>2, RemoveFirstFacts
  <2>4. /\ q.freq = [p.freq EXCEPT ![k] = 0]
        /\ q.buckets \in [Freqs -> Seq(Keys)]
        /\ q.buckets[f] = RemoveFirst(s, k)
        /\ \A g \in Freqs : g # f => q.buckets[g] = p.buckets[g]
        /\ q.min = IF q.buckets[f] = <<>> /\ p.min = f THEN LeastBucket(q.buckets) ELSE p.min
        /\ q = [freq |-> q.freq, buckets |-> q.buckets, min |-> q.min]
    BY <1>1, <1>3, <2>1, <2>3 DEF LfuRemove
  <2> HIDE DEF q
  <2>5. ASSUME NEW g \in Freqs
        PROVE  Distinct(q.buckets[g]) /\ ToSet(q.buckets[g]) = {j \in Keys : q.freq[j] = g}
    <3>1. \A j \in Keys : q.freq[j] = IF j = k THEN 0 ELSE p.freq[j]
      BY <1>1, <2>4
    <3>2. g # 0
      BY DEF Freqs
    <3>3. CASE g = f BY <1>1, <2>1, <2>3, <2>4, <3>1, <3>2, <3>3
    <3>4. CASE g # f BY <1>1, <2>4, <3>1, <3>2, <3>4
    <3> QED BY <3>3, <3>4
  <2>6. KeepsOrder(p, q, k)
    <3> SUFFICES ASSUME NEW g \in Freqs, NEW a \in Keys, NEW b \in Keys, Before(q.buckets[g], a, b)
                 PROVE  Before(p.buckets[g], a, b) /\ a # k /\ b # k
      BY DEF KeepsOrder
    <3>1. CASE g = f BY <2>3, <2>4, <3>1
    <3>2. CASE g # f
      <4>1. Before(p.buckets[g], a, b)
        BY <2>4, <3>2
      <4>2. a \in ToSet(p.buckets[g]) /\ b \in ToSet(p.buckets[g])
        BY <1>1, <4>1, BeforeIsStrict
      <4> QED BY <1>1, <3>2, <4>1, <4>2
    <3> QED BY <3>1, <3>2
  <2>7. q.min = LeastBucket(q.buckets)
    <3>1. CASE q.buckets[f] = <<>> /\ p.min = f
      BY <2>4, <3>1
    <3>2. CASE ~(q.buckets[f] = <<>> /\ p.min = f)
      <4>1. k \in ToSet(p.buckets[f])
        BY <1>1, <2>1
      <4>2. p.buckets[f] # <<>>
        BY <2>2, <4>1, ElementsOf
      <4>3. /\ p.min \in Freqs /\ p.buckets[p.min] # <<>>
            /\ \A g \in Freqs : g < p.min => p.buckets[g] = <<>>
        BY <1>1, <2>1, <4>2, LeastBucketFacts
      <4>4. p.min <= f
        BY <2>1, <4>2, <4>3 DEF Freqs
      <4>5. q.buckets[p.min] # <<>>
        BY <2>4, <3>2, <4>3
      <4>6. \A g \in Freqs : g < p.min => q.buckets[g] = <<>>
        BY <2>1, <2>4, <4>3, <4>4 DEF Freqs
      <4> QED BY <2>4, <3>2, <4>3, <4>5, <4>6, LeastBucketIs
    <3> QED BY <3>1, <3>2
  <2>8. q.min \in Freqs \union {None}
    BY <2>4, <2>7, LeastBucketFacts
  <2>9. q.freq \in [Keys -> 0..MaxFreq]
    BY <1>1, <2>4, PolicyAssumption
  <2>10. q \in [freq : [Keys -> 0..MaxFreq], buckets : [Freqs -> Seq(Keys)], min : Freqs \union {None}]
    BY <2>4, <2>8, <2>9
  <2>11. LfuTracked(q) = LfuTracked(p) \ {k}
    BY <1>1, <2>4 DEF LfuTracked
  <2> QED BY <2>4, <2>5, <2>6, <2>7, <2>10, <2>11 DEF LfuInv, q
<1> QED BY <1>2, <1>3

\* evict_one removes a key of the lowest frequency and, among those, the one
\* that entered the bucket first; it finds none only if none is tracked.
LEMMA LfuEvictFacts ==
  ASSUME NEW p, LfuInv(p)
  PROVE  LET v == LfuEvict(p).victim IN
         /\ LfuTracked(p) = {} => v = None /\ LfuEvict(p).left = p
         /\ LfuTracked(p) # {} => /\ v \in LfuTracked(p)
                                  /\ LfuEvict(p).left = LfuRemove(p, v)
                                  /\ \A k \in LfuTracked(p) : p.freq[v] <= p.freq[k]
                                  /\ \A k \in LfuTracked(p) \ {v} :
                                       p.freq[k] = p.freq[v] => Before(p.buckets[p.freq[v]], v, k)
<1>1. /\ p.freq \in [Keys -> 0..MaxFreq] /\ p.buckets \in [Freqs -> Seq(Keys)]
      /\ \A g \in Freqs : Distinct(p.buckets[g]) /\ ToSet(p.buckets[g]) = {j \in Keys : p.freq[j] = g}
      /\ p.min = LeastBucket(p.buckets)
      /\ p = [freq |-> p.freq, buckets |-> p.buckets, min |-> p.min]
  BY PolicyAssumption DEF LfuInv
<1>2. \A k \in LfuTracked(p) : k \in Keys /\ p.freq[k] \in Freqs /\ p.buckets[p.freq[k]] # <<>>
  <2> SUFFICES ASSUME NEW k \in LfuTracked(p)
               PROVE  k \in Keys /\ p.freq[k] \in Freqs /\ p.buckets[p.freq[k]] # <<>>
    OBVIOUS
  <2>1. k \in Keys /\ p.freq[k] \in Freqs
    BY <1>1, PolicyAssumption DEF LfuTracked, Freqs
  <2>2. k \in ToSet(p.buckets[p.freq[k]])
    BY <1>1, <2>1
  <2>3. p.buckets[p.freq[k]] \in Seq(Keys)
    BY <1>1, <2>1
  <2> QED BY <2>1, <2>2, <2>3, ElementsOf
<1>3. CASE LfuTracked(p) = {}
  <2>1. ASSUME NEW g \in Freqs PROVE p.buckets[g] = <<>>
    <3>1. g # 0
      BY DEF Freqs
    <3>2. ToSet(p.buckets[g]) = {}
      BY <1>1, <1>3, <3>1 DEF LfuTracked
    <3>3. p.buckets[g] \in Seq(Keys)
      BY <1>1
    <3> QED BY <3>2, <3>3, ElementsOf
  <2>2. p.min = None
    BY <1>1, <2>1, LeastBucketFacts
  <2> QED BY <1>1, <1>3, <2>2 DEF LfuEvict
<1>4. CASE LfuTracked(p) # {}
  <2> DEFINE m == p.min
             s == p.buckets[m]
             v == Head(s)
  <2>1. /\ m \in Freqs /\ m # None /\ s # <<>>
        /\ \A g \in Freqs : g < m => p.buckets[g] = <<>>
    BY <1>1, <1>2, <1>4, LeastBucketFacts
  <2>2. s \in Seq(Keys) /\ Distinct(s) /\ ToSet(s) = {j \in Keys : p.freq[j] = m}
    BY <1>1, <2>1
  <2>3. /\ v \in ToSet(s) /\ v \in Keys
        /\ Tail(s) = RemoveFirst(s, v)
        /\ \A b \in ToSet(s) \ {v} : Before(s, v, b)
    <3> HIDE DEF s
    <3> QED BY <2>1, <2>2, HeadFacts
  <2>4. p.freq[v] = m /\ m # 0
    BY <2>1, <2>2, <2>3 DEF Freqs
  <2>5. v \in LfuTracked(p)
    BY <2>3, <2>4 DEF LfuTracked
  <2>6. LfuEvict(p).victim = v
    BY <2>1 DEF LfuEvict
  <2>7. LfuEvict(p).left = LfuRemove(p, v)
    <3>1. LfuEvict(p).left = LET buckets == [p.buckets EXCEPT ![m] = Tail(s)] IN
            [freq |-> [p.freq EXCEPT ![v] = 0], buckets |-> buckets,
             min |-> IF buckets[m] = <<>> THEN LeastBucket(buckets) ELSE m]
      BY <2>1 DEF LfuEvict
    <3>2. LfuRemove(p, v) = LET buckets == [p.buckets EXCEPT ![m] = RemoveFirst(s, v)] IN
            [freq |-> [p.freq EXCEPT ![v] = 0], buckets |-> buckets,
             min |-> IF buckets[m] = <<>> /\ p.min = m THEN LeastBucket(buckets) ELSE p.min]
      BY <2>4 DEF LfuRemove
    <3> QED BY <2>3, <3>1, <3>2
  <2>8. \A k \in LfuTracked(p) : p.freq[v] <= p.freq[k]
    BY <1>2, <2>1, <2>4 DEF Freqs
  <2>9. \A k \in LfuTracked(p) \ {v} : p.freq[k] = p.freq[v] => Before(p.buckets[p.freq[v]], v, k)
    BY <1>2, <2>2, <2>3, <2>4
  <2> QED BY <1>4, <2>5, <2>6, <2>7, <2>8, <2>9
<1> QED BY <1>3, <1>4
=============================================================================
