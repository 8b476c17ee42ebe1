-------------------------- MODULE MiddlewareProofs --------------------------
(***************************************************************************)
(* Proofs about Middleware, for any stacks of layers, any callers and any  *)
(* number of calls and faults.                                             *)
(***************************************************************************)
EXTENDS Middleware, SequenceTheorems, FiniteSetTheorems, WellFoundedInduction, TLAPS

\* Induction over the naturals, for the set of those that have a property.
LEMMA SetInduction ==
  ASSUME NEW A, 0 \in A, \A n \in Nat : n \in A => n + 1 \in A
  PROVE  Nat \subseteq A
<1> SUFFICES ASSUME Nat \ A # {} PROVE FALSE
  OBVIOUS
<1> DEFINE R == OpToRel(<, Nat)
<1>1. IsWellFoundedOn(R, Nat)
  BY NatLessThanWellFounded
<1>2. ASSUME NEW m \in Nat, NEW n \in Nat, m < n PROVE <<m, n>> \in R
  BY <1>2 DEF OpToRel
<1> HIDE DEF R
<1>3. PICK n \in Nat \ A : \A m \in Nat \ A : ~(<<m, n>> \in R)
  BY <1>1, WFMin
<1>4. n # 0 /\ n - 1 \in Nat /\ n - 1 < n /\ (n - 1) + 1 = n
  OBVIOUS
<1>5. n - 1 \notin A
  BY <1>4
<1> QED BY <1>2, <1>3, <1>4, <1>5
-----------------------------------------------------------------------------
(* What a layer does to a value, and undoes *)

Marks == Kinds \union {"dumps", "utf8", "C", "E", "error", "missing"}
Words == Seq(Marks) \ {<<>>}

LEMMA OneMark ==
  ASSUME NEW S, NEW x \in S
  PROVE  << x >> \in Seq(S) /\ << x >> # <<>> /\ Len(<< x >>) = 1 /\ << x >>[1] = x /\ Head(<< x >>) = x
OBVIOUS

LEMMA WrapFacts ==
  ASSUME NEW x \in Marks, NEW v \in Words
  PROVE  /\ << x >> \o v \in Words /\ Head(<< x >> \o v) = x /\ Tail(<< x >> \o v) = v
         /\ (<< x >> \o v)[2] = Head(v)
         /\ ToSet(<< x >> \o v) = {x} \union ToSet(v)
<1> DEFINE w == << x >> \o v
<1>1. v \in Seq(Marks) /\ v # <<>> /\ Len(v) \in Nat \ {0} /\ Head(v) = v[1]
  BY EmptySeq DEF Words
<1>2. << x >> \in Seq(Marks) /\ Len(<< x >>) = 1 /\ << x >>[1] = x
  BY OneMark
<1>3. /\ w \in Seq(Marks) /\ Len(w) = 1 + Len(v)
      /\ \A i \in 1..(1 + Len(v)) : w[i] = IF i <= 1 THEN << x >>[i] ELSE v[i - 1]
  BY <1>1, <1>2, ConcatProperties
<1> HIDE DEF w
<1>4. w[1] = x /\ \A i \in 1..Len(v) : w[i + 1] = v[i]
  <2>1. w[1] = x
    BY <1>1, <1>2, <1>3
  <2>2. ASSUME NEW i \in 1..Len(v) PROVE w[i + 1] = v[i]
    <3>1. i + 1 \in 1..(1 + Len(v)) /\ ~(i + 1 <= 1) /\ (i + 1) - 1 = i
      BY <1>1
    <3> QED BY <1>3, <3>1
  <2> QED BY <2>1, <2>2
<1>5. w # <<>> /\ Head(w) = x
  BY <1>1, <1>3, <1>4
<1>6. Tail(w) = v
  <2>1. Tail(w) \in Seq(Marks) /\ Len(Tail(w)) = Len(w) - 1
        /\ \A i \in 1..Len(Tail(w)) : Tail(w)[i] = w[i + 1]
    BY <1>3, <1>5, HeadTailProperties
  <2>2. Len(Tail(w)) = Len(v)
    BY <1>1, <1>3, <2>1
  <2>3. \A i \in 1..Len(Tail(w)) : Tail(w)[i] = v[i]
    BY <1>4, <2>1, <2>2
  <2> QED BY <1>1, <2>1, <2>2, <2>3, SeqEqual
<1>7. w[2] = Head(v)
  <2>1. 1 \in 1..Len(v) /\ 1 + 1 = 2
    BY <1>1
  <2> QED BY <1>1, <1>4, <2>1
<1>8. ToSet(w) = {x} \union ToSet(v)
  <2>1. DOMAIN w = 1..(1 + Len(v)) /\ DOMAIN v = 1..Len(v)
    BY <1>1, <1>3
  <2>2. ASSUME NEW i \in DOMAIN w PROVE w[i] \in {x} \union ToSet(v)
    <3>1. CASE i = 1
      BY <1>4, <3>1
    <3>2. CASE i # 1
      <4>1. i - 1 \in 1..Len(v) /\ i - 1 \in DOMAIN v /\ (i - 1) + 1 = i
        BY <1>1, <2>1, <3>2
      <4>2. w[i] = v[i - 1]
        BY <1>4, <4>1
      <4> QED BY <4>1, <4>2 DEF ToSet
    <3> QED BY <3>1, <3>2
  <2>3. ASSUME NEW i \in DOMAIN v PROVE v[i] \in ToSet(w)
    <3>1. i + 1 \in DOMAIN w /\ w[i + 1] = v[i]
      BY <1>1, <1>4, <2>1
    <3> QED BY <3>1 DEF ToSet
  <2>4. x \in ToSet(w)
    <3>1. 1 \in DOMAIN w
      BY <1>1, <2>1
    <3> QED BY <1>4, <3>1 DEF ToSet
  <2> QED BY <2>2, <2>3, <2>4 DEF ToSet
<1> QED BY <1>3, <1>5, <1>6, <1>7, <1>8 DEF w, Words

LEMMA ShortWords ==
  ASSUME NEW x \in Marks
  PROVE  << x >> \in Words /\ Head(<< x >>) = x /\ ToSet(<< x >>) = {x}
<1>1. << x >> \in Words /\ Head(<< x >>) = x
  BY OneMark DEF Words
<1>2. DOMAIN << x >> = {1} /\ << x >>[1] = x
  OBVIOUS
<1> QED BY <1>1, <1>2 DEF ToSet

LEMMA TheMarks == Kinds \subseteq Marks /\ {"dumps", "utf8", "C", "E", "error", "missing"} \subseteq Marks
BY DEF Marks

\* dumps puts a word in front or fails.
LEMMA DumpsFacts ==
  ASSUME NEW s, NEW v \in Words, NEW w, w = Dumps(s, v), w # Error
  PROVE  /\ w \in Words /\ Head(w) = "dumps" /\ Tail(w) = v
         /\ ToSet(v) \subseteq ToSet(w) /\ w # Missing
<1>1. w = << "dumps" >> \o v
  BY DEF Dumps
<1>2. "dumps" \in Marks /\ "missing" \in Marks
  BY TheMarks
<1>3. w \in Words /\ Head(w) = "dumps" /\ Tail(w) = v /\ ToSet(w) = {"dumps"} \union ToSet(v)
  BY <1>1, <1>2, WrapFacts
<1>4. Head(Missing) = "missing"
  BY <1>2, ShortWords DEF Missing
<1> QED BY <1>3, <1>4

\* An envelope is put around the value, and its inside is the value again;
\* without a serializer only str and bytes are wrapped.
LEMMA WrapsFacts ==
  ASSUME NEW s, NEW env \in {"C", "E"}, NEW v \in Words, NEW w, w = Wraps(s, env, v), w # Error
  PROVE  \/ w = v /\ s.ser = "none" /\ Head(v) \notin {"bytes", "str", "short"}
         \/ /\ w \in Words /\ Head(w) = env /\ Inner(s, w) = v
            /\ {env} \union ToSet(v) \subseteq ToSet(w)
            /\ s.ser = "none" => Head(v) \in {"bytes", "str", "short"}
<1> DEFINE p == Payload(s, v)
<1>1. Head(Error) = "error" /\ Head(Missing) = "missing"
  BY TheMarks, ShortWords DEF Error, Missing
<1>m. env \in Marks /\ "utf8" \in Marks
  BY TheMarks
<1>2. w = IF p = Error THEN Error ELSE IF p = Missing THEN v ELSE << env >> \o p
  BY DEF Wraps
<1>3. CASE s.ser # "none"
  <2>1. p = Dumps(s, v)
    BY <1>3 DEF Payload
  <2> HIDE DEF p
  <2>2. p \in Words /\ Tail(p) = v /\ ToSet(v) \subseteq ToSet(p) /\ w = << env >> \o p
    BY <1>2, <2>1, DumpsFacts
  <2>3. w \in Words /\ Head(w) = env /\ Tail(w) = p /\ ToSet(w) = {env} \union ToSet(p)
    BY <1>m, <2>2, WrapFacts
  <2> QED BY <1>3, <2>2, <2>3 DEF Inner
<1>4. CASE s.ser = "none" /\ Head(v) = "bytes"
  <2>1. p = v
    BY <1>4 DEF Payload
  <2> HIDE DEF p
  <2>2. w = << env >> \o v
    BY <1>1, <1>2, <1>4, <2>1
  <2>3. w \in Words /\ Head(w) = env /\ Tail(w) = v /\ ToSet(w) = {env} \union ToSet(v)
    BY <1>m, <2>2, WrapFacts
  <2>4. w[2] = Head(v)
    <3>1. (<< env >> \o v)[2] = Head(v)
      BY <1>m, WrapFacts
    <3> QED BY <2>2, <3>1
  <2> QED BY <1>4, <2>3, <2>4 DEF Inner
<1>5. CASE s.ser = "none" /\ Head(v) \in {"str", "short"}
  <2>1. p = << "utf8" >> \o v
    BY <1>5 DEF Payload
  <2> HIDE DEF p
  <2>2. p \in Words /\ Head(p) = "utf8" /\ Tail(p) = v /\ ToSet(p) = {"utf8"} \union ToSet(v)
    BY <1>m, <2>1, WrapFacts
  <2>3. w = << env >> \o p
    BY <1>1, <1>2, <2>2
  <2>4. w \in Words /\ Head(w) = env /\ Tail(w) = p /\ w[2] = "utf8" /\ ToSet(w) = {env} \union ToSet(p)
    BY <1>m, <2>2, <2>3, WrapFacts
  <2> QED BY <1>5, <2>2, <2>4 DEF Inner
<1>6. CASE s.ser = "none" /\ Head(v) \notin {"bytes", "str", "short"}
  <2>1. p = Missing
    BY <1>6 DEF Payload
  <2>2. Missing # Error
    BY <1>1
  <2> QED BY <1>2, <1>6, <2>1, <2>2
<1> QED BY <1>3, <1>4, <1>5, <1>6

\* What travels through a stack when a value of some kind is set: the value,
\* or an envelope; compression, and without a serializer encryption too, only
\* ever wraps the value itself.
Travels(s, v, kind) ==
  /\ v \in Words
  /\ IF Head(v) \in {"C", "E"} THEN Head(v) = "C" \/ s.ser = "none" => Inner(s, v) = << kind >>
     ELSE v = << kind >>

\* What get may have in its hands where set had v: v, the value itself when a
\* layer further in has opened the envelope, or nothing for None.
Got(s, x, v, kind) == \/ x \in {v, << kind >>}
                      \/ x = Missing /\ kind = "null" /\ Envelopes(s) # {}

LEMMA SealedByFacts ==
  ASSUME NEW s, NEW kind \in Kinds, NEW layer \in Layers,
         layer \in {"compress", "encrypt"} => Envelopes(s) # {},
         NEW v, Travels(s, v, kind), NEW w, w = SealedBy(s, layer, v), w # Error
  PROVE  /\ Travels(s, w, kind)
         /\ ToSet(v) \subseteq ToSet(w)
         /\ \A x : Got(s, x, w, kind) => Got(s, OpenedBy(s, layer, x), v, kind)
<1>1. /\ << kind >> \in Words /\ Head(<< kind >>) = kind
      /\ Head(Error) = "error" /\ Head(Missing) = "missing"
      /\ Missing # Error /\ << kind >> # Error /\ << kind >> # Missing
  <2>1. kind \in Marks /\ "error" \in Marks /\ "missing" \in Marks /\ kind \notin {"error", "missing"}
    BY TheMarks DEF Kinds
  <2>2. << kind >> \in Words /\ Head(<< kind >>) = kind /\ Head(Error) = "error" /\ Head(Missing) = "missing"
    BY <2>1, ShortWords DEF Error, Missing
  <2> QED BY <2>1, <2>2
<1>n. "null" \in Marks
  BY TheMarks DEF Kinds
<1>2. v \in Words /\ v # Error /\ v # Missing
  BY <1>1 DEF Travels, Kinds
<1>3. CASE layer \in {"metrics", "fail_open"}
  <2>1. w = v
    BY <1>2, <1>3 DEF SealedBy
  <2>2. ASSUME NEW x, Got(s, x, v, kind) PROVE OpenedBy(s, layer, x) = x
    BY <1>1, <1>2, <1>3, <2>2 DEF Got, OpenedBy, FailOpenGet
  <2> QED BY <2>1, <2>2
<1>4. CASE layer = "compress"
  <2>1. w = CompressSet(s, v) /\ Envelopes(s) # {}
    BY <1>2, <1>4 DEF SealedBy
  <2>2. w = v \/ (Head(v) \notin {"C", "E"} /\ w = Wraps(s, "C", v))
    BY <2>1 DEF CompressSet
  <2>3. w = v \/ (/\ w \in Words /\ Head(w) = "C" /\ Inner(s, w) = v /\ v = << kind >>
                  /\ ToSet(v) \subseteq ToSet(w))
    BY <1>2, <2>2, WrapsFacts DEF Travels
  <2>4. Travels(s, w, kind) /\ ToSet(v) \subseteq ToSet(w)
    BY <2>3 DEF Travels
  <2>5. ASSUME NEW x, Got(s, x, w, kind) PROVE Got(s, OpenedBy(s, layer, x), v, kind)
    <3>1. Head(<< "null" >>) = "null"
      BY <1>n, ShortWords
    <3>2. x # Error /\ OpenedBy(s, layer, x) = CompressGet(s, x)
      BY <1>1, <1>4, <2>4, <2>5 DEF Got, OpenedBy, Travels, Kinds
    <3>3. CASE x = w
      <4>1. CASE Head(w) = "C"
        <5>1. CompressGet(s, w) = Inner(s, w)
          BY <1>1, <3>1, <4>1 DEF CompressGet
        <5> QED BY <2>4, <3>2, <3>3, <4>1, <5>1 DEF Got, Travels
      <4>2. CASE Head(w) # "C"
        <5>1. w = v
          BY <2>3, <4>2
        <5>2. CASE w \in {Missing, << "null" >>}
          <6>1. kind = "null"
            BY <1>1, <2>4, <3>1, <5>2 DEF Travels
          <6> QED BY <2>1, <3>2, <3>3, <5>2, <6>1 DEF Got, CompressGet
        <5>3. CASE w \notin {Missing, << "null" >>}
          BY <3>2, <3>3, <4>2, <5>1, <5>3 DEF Got, CompressGet
        <5> QED BY <5>2, <5>3
      <4> QED BY <4>1, <4>2
    <3>4. CASE x = << kind >>
      BY <1>1, <2>1, <3>1, <3>2, <3>4 DEF Got, CompressGet, Kinds
    <3>5. CASE x = Missing /\ kind = "null"
      BY <2>1, <3>2, <3>5 DEF Got, CompressGet
    <3> QED BY <2>5, <3>3, <3>4, <3>5 DEF Got
  <2> QED BY <2>4, <2>5
<1>5. CASE layer = "encrypt"
  <2>1. w = Wraps(s, "E", v) /\ Envelopes(s) # {}
    BY <1>2, <1>5 DEF SealedBy, EncryptSet
  <2>2. \/ w = v /\ s.ser = "none"
        \/ /\ w \in Words /\ Head(w) = "E" /\ Inner(s, w) = v /\ ToSet(v) \subseteq ToSet(w)
           /\ s.ser = "none" => v = << kind >>
    BY <1>2, <2>1, WrapsFacts DEF Travels
  <2>4. Travels(s, w, kind) /\ ToSet(v) \subseteq ToSet(w)
    BY <2>2 DEF Travels
  <2>5. ASSUME NEW x, Got(s, x, w, kind) PROVE Got(s, OpenedBy(s, layer, x), v, kind)
    <3>1. Head(<< "null" >>) = "null"
      BY <1>n, ShortWords
    <3>2. x # Error /\ OpenedBy(s, layer, x) = EncryptGet(s, x)
      BY <1>1, <1>5, <2>4, <2>5 DEF Got, OpenedBy, Travels, Kinds
    <3>3. CASE x = w
      <4>1. CASE Head(w) = "E"
        <5>1. EncryptGet(s, w) = Inner(s, w)
          BY <1>1, <3>1, <4>1 DEF EncryptGet
        <5> QED BY <2>2, <2>4, <3>2, <3>3, <4>1, <5>1 DEF Got, Travels
      <4>2. CASE Head(w) # "E"
        <5>1. w = v
          BY <2>2, <4>2
        <5>2. CASE w \in {Missing, << "null" >>}
          <6>1. kind = "null"
            BY <1>1, <2>4, <3>1, <5>2 DEF Travels
          <6> QED BY <2>1, <3>2, <3>3, <5>2, <6>1 DEF Got, EncryptGet
        <5>3. CASE w \notin {Missing, << "null" >>}
          BY <3>2, <3>3, <4>2, <5>1, <5>3 DEF Got, EncryptGet
        <5> QED BY <5>2, <5>3
      <4> QED BY <4>1, <4>2
    <3>4. CASE x = << kind >>
      BY <1>1, <2>1, <3>1, <3>2, <3>4 DEF Got, EncryptGet, Kinds
    <3>5. CASE x = Missing /\ kind = "null"
      BY <2>1, <3>2, <3>5 DEF Got, EncryptGet
    <3> QED BY <2>5, <3>3, <3>4, <3>5 DEF Got
  <2> QED BY <2>4, <2>5
<1> QED BY <1>3, <1>4, <1>5 DEF Layers
-----------------------------------------------------------------------------
(* The whole way in and out *)

IsDown(s, v, g) ==
  g = [i \in 0..Len(s.layers) |-> IF i = 0 THEN v ELSE SealedBy(s, s.layers[i], g[i - 1])]

IsUp(s, top, g) ==
  g = [i \in 0..Len(s.layers) |-> IF i = Len(s.layers) THEN top
                                  ELSE LayerGet(s, i + 1, g[i + 1])]

LEMMA DownExists ==
  ASSUME NEW s, Len(s.layers) \in Nat, NEW v
  PROVE  \E g : IsDown(s, v, g)
<1> DEFINE Upto(m, g) == g = [i \in 0..m |-> IF i = 0 THEN v ELSE SealedBy(s, s.layers[i], g[i - 1])]
           A == {m \in Nat : \E g : Upto(m, g)}
<1>1. 0 \in A
  <2> DEFINE g == [i \in 0..0 |-> v]
  <2>1. Upto(0, g)
    OBVIOUS
  <2> QED BY <2>1
<1>2. ASSUME NEW m \in Nat, m \in A PROVE m + 1 \in A
  <2>1. PICK g : Upto(m, g)
    BY <1>2
  <2> DEFINE h == [i \in 0..(m + 1) |-> IF i = m + 1 THEN SealedBy(s, s.layers[m + 1], g[m]) ELSE g[i]]
  <2>2. ASSUME NEW i \in 0..(m + 1)
        PROVE  h[i] = IF i = 0 THEN v ELSE SealedBy(s, s.layers[i], h[i - 1])
    <3>1. CASE i = 0
      <4>1. h[i] = g[i] /\ 0 \in 0..m
        BY <3>1
      <4>2. g[0] = v
        BY <2>1, <4>1
      <4> QED BY <3>1, <4>1, <4>2
    <3>2. CASE i # 0 /\ i <= m
      <4>1. i \in 0..m /\ i - 1 \in 0..m /\ h[i] = g[i] /\ h[i - 1] = g[i - 1]
        BY <3>2
      <4>2. g[i] = SealedBy(s, s.layers[i], g[i - 1])
        BY <2>1, <3>2, <4>1
      <4> HIDE DEF h
      <4> QED BY <3>2, <4>1, <4>2
    <3>3. CASE i = m + 1
      <4>1. i # 0 /\ i - 1 = m /\ m \in 0..(m + 1) /\ m # m + 1
        BY <3>3
      <4>2. h[i - 1] = g[m] /\ h[i] = SealedBy(s, s.layers[m + 1], g[m])
        BY <3>3, <4>1
      <4> HIDE DEF h
      <4> QED BY <3>3, <4>1, <4>2
    <3> QED BY <3>1, <3>2, <3>3
  <2>3. Upto(m + 1, h)
    <3>1. DOMAIN h = 0..(m + 1) /\ h = [i \in 0..(m + 1) |-> h[i]]
      OBVIOUS
    <3> HIDE DEF h
    <3> QED BY <2>2, <3>1
  <2> HIDE DEF h, Upto
  <2> QED BY <2>3
<1> HIDE DEF A
<1>3. Nat \subseteq A
  BY <1>1, <1>2, SetInduction
<1> QED BY <1>3 DEF A, IsDown

LEMMA UpExists ==
  ASSUME NEW s, Len(s.layers) \in Nat, NEW top
  PROVE  \E g : IsUp(s, top, g)
<1> DEFINE n == Len(s.layers)
           From(k, g) == g = [i \in k..n |-> IF i = n THEN top
                                             ELSE LayerGet(s, i + 1, g[i + 1])]
           A == {m \in Nat : m <= n => \E g : From(n - m, g)}
<1>n. n \in Nat
  OBVIOUS
<1> HIDE DEF n
<1>1. 0 \in A
  <2> DEFINE g == [i \in n..n |-> top]
  <2>1. n - 0 = n
    BY <1>n
  <2>2. From(n, g)
    BY <1>n
  <2> QED BY <2>1, <2>2
<1>2. ASSUME NEW m \in Nat, m \in A PROVE m + 1 \in A
  <2> SUFFICES ASSUME m + 1 <= n PROVE \E g : From(n - (m + 1), g)
    OBVIOUS
  <2> DEFINE k == n - (m + 1)
  <2>k. k \in Nat /\ k < n /\ n - m = k + 1 /\ m <= n
    BY <1>n
  <2> HIDE DEF k
  <2>1. PICK g : From(k + 1, g)
    BY <1>2, <2>k
  <2> DEFINE h == [i \in k..n |-> IF i = k THEN LayerGet(s, k + 1, g[k + 1]) ELSE g[i]]
  <2>2. ASSUME NEW i \in k..n
        PROVE  h[i] = IF i = n THEN top ELSE LayerGet(s, i + 1, h[i + 1])
    <3>1. CASE i = n
      <4>1. h[i] = g[i] /\ n \in (k + 1)..n
        BY <1>n, <2>k, <3>1
      <4>2. g[n] = top
        BY <2>1, <4>1
      <4> QED BY <3>1, <4>1, <4>2
    <3>2. CASE i # n /\ i # k
      <4>1. i \in (k + 1)..n /\ i + 1 \in (k + 1)..n /\ h[i] = g[i] /\ h[i + 1] = g[i + 1]
        BY <1>n, <2>k, <3>2
      <4>2. g[i] = LayerGet(s, i + 1, g[i + 1])
        BY <2>1, <3>2, <4>1
      <4> HIDE DEF h
      <4> QED BY <3>2, <4>1, <4>2
    <3>3. CASE i = k
      <4>1. i # n /\ k + 1 \in k..n /\ k + 1 # k /\ k \in k..n
        BY <1>n, <2>k, <3>3
      <4>2. h[k + 1] = g[k + 1] /\ h[k] = LayerGet(s, k + 1, g[k + 1])
        BY <4>1
      <4> HIDE DEF h
      <4> QED BY <3>3, <4>1, <4>2
    <3> QED BY <3>1, <3>2, <3>3
  <2>3. From(k, h)
    <3>1. h = [i \in k..n |-> h[i]]
      OBVIOUS
    <3> HIDE DEF h
    <3> QED BY <2>2, <3>1
  <2> QED BY <2>3 DEF k
<1> HIDE DEF A
<1>3. Nat \subseteq A
  BY <1>1, <1>2, SetInduction
<1>4. n \in A /\ n - n = 0 /\ n <= n
  BY <1>3, <1>n
<1>5. PICK g : From(0, g)
  BY <1>4 DEF A
<1> QED BY <1>5 DEF IsUp, n

\* What Sealed and Opened are.
LEMMA SealedIs ==
  ASSUME NEW s, Len(s.layers) \in Nat, NEW v
  PROVE  \E d : /\ d[0] = v
                /\ \A i \in 1..Len(s.layers) : d[i] = SealedBy(s, s.layers[i], d[i - 1])
                /\ Sealed(s, v) = IF d[Len(s.layers)] = Error \/ ~s.dumps THEN d[Len(s.layers)]
                                  ELSE Dumps(s, d[Len(s.layers)])
<1> DEFINE d == CHOOSE g : IsDown(s, v, g)
<1>1. IsDown(s, v, d)
  BY DownExists
<1>2. Sealed(s, v) = IF d[Len(s.layers)] = Error \/ ~s.dumps THEN d[Len(s.layers)]
                     ELSE Dumps(s, d[Len(s.layers)])
  BY DEF Sealed, IsDown
<1> HIDE DEF d
<1>3. d[0] = v
  <2>1. 0 \in 0..Len(s.layers)
    OBVIOUS
  <2> QED BY <1>1, <2>1 DEF IsDown
<1>4. ASSUME NEW i \in 1..Len(s.layers) PROVE d[i] = SealedBy(s, s.layers[i], d[i - 1])
  <2>1. i \in 0..Len(s.layers) /\ i # 0
    OBVIOUS
  <2> QED BY <1>1, <2>1 DEF IsDown
<1> QED BY <1>2, <1>3, <1>4

LEMMA OpenedIs ==
  ASSUME NEW s, Len(s.layers) \in Nat, NEW v
  PROVE  LET up == Opened(s, v) IN
         /\ up[Len(s.layers)] = IF v \in {Missing, Error} \/ ~s.dumps THEN v ELSE Tail(v)
         /\ \A i \in 0..(Len(s.layers) - 1) : up[i] = LayerGet(s, i + 1, up[i + 1])
<1> DEFINE top == IF v \in {Missing, Error} \/ ~s.dumps THEN v ELSE Tail(v)
           up == CHOOSE g : IsUp(s, top, g)
<1>1. IsUp(s, top, up)
  <2> HIDE DEF top
  <2> QED BY UpExists
<1>2. Opened(s, v) = up
  BY DEF Opened, IsUp
<1> HIDE DEF up, top
<1>3. up[Len(s.layers)] = top
  <2>1. Len(s.layers) \in 0..Len(s.layers)
    OBVIOUS
  <2> QED BY <1>1, <2>1 DEF IsUp
<1>4. ASSUME NEW i \in 0..(Len(s.layers) - 1) PROVE up[i] = LayerGet(s, i + 1, up[i + 1])
  <2>1. i \in 0..Len(s.layers) /\ i # Len(s.layers)
    OBVIOUS
  <2> QED BY <1>1, <2>1 DEF IsUp
<1> QED BY <1>2, <1>3, <1>4 DEF top
\* What comes out is what went in, or nothing for None.
LEMMA ThereAndBack ==
  ASSUME NEW s, s.layers \in Seq(Layers), NEW kind \in Kinds,
         \A i \in 1..Len(s.layers) : ~IsUnawaited(s, i),
         NEW w, w = Sealed(s, << kind >>), w # Error
  PROVE  Got(s, Opened(s, w)[0], << kind >>, kind)
<1> DEFINE n == Len(s.layers)
<1>n. n \in Nat /\ \A i \in 1..n : s.layers[i] \in Layers
  OBVIOUS
<1>1. PICK d : /\ d[0] = << kind >>
               /\ \A i \in 1..n : d[i] = SealedBy(s, s.layers[i], d[i - 1])
               /\ w = IF d[n] = Error \/ ~s.dumps THEN d[n] ELSE Dumps(s, d[n])
  BY <1>n, SealedIs
<1> DEFINE u == Opened(s, w)
<1>2. /\ u[n] = IF w \in {Missing, Error} \/ ~s.dumps THEN w ELSE Tail(w)
      /\ \A i \in 0..(n - 1) : u[i] = OpenedBy(s, s.layers[i + 1], u[i + 1])
  <2>1. ASSUME NEW i \in 0..(n - 1) PROVE ~IsUnawaited(s, i + 1)
    BY <1>n
  <2>2. /\ u[n] = IF w \in {Missing, Error} \/ ~s.dumps THEN w ELSE Tail(w)
        /\ \A i \in 0..(n - 1) : u[i] = LayerGet(s, i + 1, u[i + 1])
    BY <1>n, OpenedIs
  <2> HIDE DEF u, n
  <2> QED BY <2>1, <2>2 DEF LayerGet
<1> HIDE DEF u
<1>3. ASSUME NEW i \in 1..n
      PROVE  s.layers[i] \in {"compress", "encrypt"} => Envelopes(s) # {}
  BY <1>n DEF Envelopes
<1> HIDE DEF n
<1>4. \A i \in 0..n : d[i] # Error
  <2> DEFINE A == {i \in Nat : i <= n => d[n - i] # Error}
  <2>1. 0 \in A
    <3>1. n - 0 = n /\ d[n] # Error
      BY <1>n, <1>1
    <3> QED BY <3>1
  <2>2. ASSUME NEW i \in Nat, i \in A PROVE i + 1 \in A
    <3> SUFFICES ASSUME i + 1 <= n PROVE d[n - (i + 1)] # Error
      OBVIOUS
    <3>1. n - i \in 1..n /\ (n - i) - 1 = n - (i + 1) /\ d[n - i] # Error
      BY <1>n, <2>2
    <3>2. d[n - i] = SealedBy(s, s.layers[n - i], d[n - (i + 1)])
      BY <1>1, <3>1
    <3> QED BY <3>1, <3>2 DEF SealedBy
  <2> HIDE DEF A
  <2>3. Nat \subseteq A
    BY <2>1, <2>2, SetInduction
  <2> TAKE i \in 0..n
  <2>4. n - i \in A /\ n - (n - i) = i /\ n - i <= n
    BY <1>n, <2>3
  <2> QED BY <2>4 DEF A
<1>5. \A i \in 0..n : Travels(s, d[i], kind)
  <2> DEFINE A == {i \in Nat : i <= n => Travels(s, d[i], kind)}
  <2>1. 0 \in A
    <3>1. << kind >> \in Words /\ Head(<< kind >>) = kind /\ kind \notin {"C", "E"}
      BY TheMarks, ShortWords DEF Kinds
    <3> QED BY <1>1, <3>1 DEF Travels
  <2>2. ASSUME NEW i \in Nat, i \in A PROVE i + 1 \in A
    <3> SUFFICES ASSUME i + 1 <= n PROVE Travels(s, d[i + 1], kind)
      OBVIOUS
    <3>1. i + 1 \in 1..n /\ i + 1 \in 0..n /\ (i + 1) - 1 = i /\ i <= n
      BY <1>n
    <3>2. d[i + 1] = SealedBy(s, s.layers[i + 1], d[i]) /\ d[i + 1] # Error
      BY <1>1, <1>4, <3>1
    <3>3. Travels(s, d[i], kind)
      BY <2>2, <3>1
    <3> HIDE DEF A
    <3> QED BY <1>n, <1>3, <3>1, <3>2, <3>3, SealedByFacts
  <2> HIDE DEF A
  <2>3. Nat \subseteq A
    BY <2>1, <2>2, SetInduction
  <2> TAKE i \in 0..n
  <2>4. i \in A /\ i <= n
    BY <1>n, <2>3
  <2> QED BY <2>4 DEF A
<1>6. u[n] = d[n]
  <2>1. n \in 0..n
    BY <1>n
  <2>2. d[n] # Error /\ d[n] \in Words
    BY <1>4, <1>5, <2>1 DEF Travels
  <2>3. CASE s.dumps
    <3>1. w = Dumps(s, d[n])
      BY <1>1, <2>2, <2>3
    <3>2. Tail(w) = d[n] /\ w # Missing
      BY <2>2, <3>1, DumpsFacts
    <3> QED BY <1>2, <2>3, <3>2
  <2>4. CASE ~s.dumps
    BY <1>1, <1>2, <2>4
  <2> QED BY <2>3, <2>4
<1>7. \A i \in 0..n : Got(s, u[i], d[i], kind)
  <2> DEFINE A == {i \in Nat : i <= n => Got(s, u[n - i], d[n - i], kind)}
  <2>1. 0 \in A
    <3>1. n - 0 = n
      BY <1>n
    <3> QED BY <1>6, <3>1 DEF Got
  <2>2. ASSUME NEW i \in Nat, i \in A PROVE i + 1 \in A
    <3> SUFFICES ASSUME i + 1 <= n PROVE Got(s, u[n - (i + 1)], d[n - (i + 1)], kind)
      OBVIOUS
    <3> DEFINE k == n - (i + 1)
    <3>1. k \in 0..(n - 1) /\ k \in 0..n /\ k + 1 \in 1..n /\ k + 1 \in 0..n /\ (k + 1) - 1 = k /\ n - i = k + 1
      BY <1>n
    <3>2. Got(s, u[k + 1], d[k + 1], kind)
      BY <1>n, <2>2, <3>1
    <3> HIDE DEF k, A
    <3>3. /\ d[k + 1] = SealedBy(s, s.layers[k + 1], d[k]) /\ d[k + 1] # Error
          /\ u[k] = OpenedBy(s, s.layers[k + 1], u[k + 1]) /\ Travels(s, d[k], kind)
      BY <1>1, <1>2, <1>4, <1>5, <3>1
    <3>4. Got(s, u[k], d[k], kind)
      BY <1>n, <1>3, <3>1, <3>2, <3>3, SealedByFacts
    <3> QED BY <3>4 DEF k
  <2> HIDE DEF A
  <2>3. Nat \subseteq A
    BY <2>1, <2>2, SetInduction
  <2> TAKE i \in 0..n
  <2>4. n - i \in A /\ n - (n - i) = i /\ n - i <= n
    BY <1>n, <2>3
  <2> QED BY <2>4 DEF A
<1>8. 0 \in 0..n
  BY <1>n
<1> QED BY <1>1, <1>7, <1>8 DEF u
\* Where encryption is in the stack, and gets something it can make bytes, what
\* is stored holds its envelope.
LEMMA Encrypted ==
  ASSUME NEW s, s.layers \in Seq(Layers), NEW kind \in Kinds,
         NEW w, w = Sealed(s, << kind >>), w # Error,
         NEW e \in 1..Len(s.layers), s.layers[e] = "encrypt",
         \/ s.ser # "none"
         \/ kind \in {"str", "short", "bytes"} /\ \A i \in 1..Len(s.layers) : s.layers[i] = "compress" => e < i
  PROVE  "E" \in ToSet(w)
<1> DEFINE n == Len(s.layers)
<1>n. n \in Nat /\ \A i \in 1..n : s.layers[i] \in Layers
  OBVIOUS
<1>1. PICK d : /\ d[0] = << kind >>
               /\ \A i \in 1..n : d[i] = SealedBy(s, s.layers[i], d[i - 1])
               /\ w = IF d[n] = Error \/ ~s.dumps THEN d[n] ELSE Dumps(s, d[n])
  BY <1>n, SealedIs
<1>3. ASSUME NEW i \in 1..n
      PROVE  s.layers[i] \in {"compress", "encrypt"} => Envelopes(s) # {}
  BY <1>n DEF Envelopes
<1> HIDE DEF n
\* Until encryption comes the value is bare, or dumped, or there is a serializer.
<1> DEFINE Bare(i) == i < e => s.ser # "none" \/ "E" \in ToSet(d[i]) \/ d[i] = << kind >>
           A == {i \in Nat : i <= n => \/ d[i] = Error
                                       \/ /\ Travels(s, d[i], kind)
                                          /\ Bare(i)
                                          /\ i >= e => "E" \in ToSet(d[i])}
<1>4. 0 \in A
  <2>1. << kind >> \in Words /\ Head(<< kind >>) = kind /\ kind \notin {"C", "E"}
    BY TheMarks, ShortWords DEF Kinds
  <2>2. Travels(s, d[0], kind)
    BY <1>1, <2>1 DEF Travels
  <2>3. ~(0 >= e)
    BY <1>n DEF n
  <2> QED BY <1>1, <2>2, <2>3
<1>5. ASSUME NEW i \in Nat, i \in A PROVE i + 1 \in A
  <2> SUFFICES ASSUME i + 1 <= n, d[i + 1] # Error
               PROVE  /\ Travels(s, d[i + 1], kind)
                      /\ Bare(i + 1)
                      /\ i + 1 >= e => "E" \in ToSet(d[i + 1])
    OBVIOUS
  <2>1. i + 1 \in 1..n /\ (i + 1) - 1 = i /\ i <= n
    BY <1>n
  <2>2. d[i + 1] = SealedBy(s, s.layers[i + 1], d[i])
    BY <1>1, <2>1
  <2>3. d[i] # Error
    BY <2>2 DEF SealedBy
  <2>4. Travels(s, d[i], kind) /\ Bare(i) /\ (i >= e => "E" \in ToSet(d[i]))
    BY <1>5, <2>1, <2>3
  <2> HIDE DEF A, Bare
  <2>5. Travels(s, d[i + 1], kind) /\ ToSet(d[i]) \subseteq ToSet(d[i + 1])
    <3>1. /\ s.layers[i + 1] \in Layers /\ Travels(s, d[i], kind) /\ d[i + 1] # Error
          /\ s.layers[i + 1] \in {"compress", "encrypt"} => Envelopes(s) # {}
      BY <1>n, <1>3, <2>1, <2>4
    <3> DEFINE layer == s.layers[i + 1]
               x == d[i]
               y == d[i + 1]
    <3>2. /\ layer \in Layers /\ Travels(s, x, kind) /\ y = SealedBy(s, layer, x) /\ y # Error
          /\ layer \in {"compress", "encrypt"} => Envelopes(s) # {}
      BY <2>2, <3>1
    <3> HIDE DEF layer, x, y
    <3>3. Travels(s, y, kind) /\ ToSet(x) \subseteq ToSet(y)
      BY <3>2, SealedByFacts
    <3> QED BY <3>3 DEF x, y
  <2>6. ASSUME s.layers[i + 1] = "encrypt", s.ser # "none" \/ "E" \in ToSet(d[i]) \/ d[i] = << kind >>,
               s.ser # "none" \/ kind \in {"str", "short", "bytes"}
        PROVE  "E" \in ToSet(d[i + 1])
    <3>1. d[i + 1] = Wraps(s, "E", d[i]) /\ d[i] \in Words
      BY <2>2, <2>3, <2>4, <2>6 DEF SealedBy, EncryptSet, Travels
    <3>2. \/ s.ser = "none" /\ Head(d[i]) \notin {"bytes", "str", "short"}
          \/ "E" \in ToSet(d[i + 1])
      BY <3>1, WrapsFacts
    <3>3. Head(<< kind >>) = kind
      BY TheMarks, ShortWords
    <3> QED BY <2>5, <2>6, <3>2, <3>3
  <2>7. Bare(i + 1)
    <3> SUFFICES ASSUME i + 1 < e, s.ser = "none" PROVE "E" \in ToSet(d[i + 1]) \/ d[i + 1] = << kind >>
      BY DEF Bare
    <3>1. kind \in {"str", "short", "bytes"} /\ s.layers[i + 1] # "compress"
      BY <1>n, <2>1 DEF n
    <3>2. i < e
      BY <1>n DEF n
    <3>3. "E" \in ToSet(d[i]) \/ d[i] = << kind >>
      BY <2>4, <3>2 DEF Bare
    <3>4. CASE s.layers[i + 1] = "encrypt"
      BY <2>6, <3>1, <3>3, <3>4
    <3>5. CASE s.layers[i + 1] # "encrypt"
      <4>1. d[i + 1] = d[i]
        BY <2>2, <2>3, <3>1, <3>5 DEF SealedBy
      <4> QED BY <3>3, <4>1
    <3> QED BY <3>4, <3>5
  <2>8. ASSUME i + 1 >= e PROVE "E" \in ToSet(d[i + 1])
    <3>1. CASE i >= e
      BY <2>4, <2>5, <3>1
    <3>2. CASE i + 1 = e
      <4>1. i < e
        BY <3>2
      <4>2. s.ser # "none" \/ "E" \in ToSet(d[i]) \/ d[i] = << kind >>
        BY <2>4, <4>1 DEF Bare
      <4> QED BY <2>6, <3>2, <4>2
    <3> QED BY <2>8, <3>1, <3>2 DEF n
  <2> QED BY <2>5, <2>7, <2>8
<1> HIDE DEF A
<1>6. n \in A
  BY <1>4, <1>5, <1>n, SetInduction
<1>7. d[n] # Error
  BY <1>1
<1>8. Travels(s, d[n], kind) /\ "E" \in ToSet(d[n])
  <2>1. n >= e
    BY <1>n DEF n
  <2> QED BY <1>6, <1>7, <1>n, <2>1 DEF A
<1>9. CASE s.dumps
  <2>1. w = Dumps(s, d[n]) /\ d[n] \in Words
    BY <1>1, <1>7, <1>8, <1>9 DEF Travels
  <2>2. ToSet(d[n]) \subseteq ToSet(w)
    BY <2>1, DumpsFacts
  <2> QED BY <1>8, <2>2
<1>10. CASE ~s.dumps
  BY <1>1, <1>8, <1>10
<1> QED BY <1>9, <1>10

\* Through layers that only count and forgive, a value comes out as it is.
LEMMA CountedIsSeen ==
  ASSUME NEW s, s.layers \in Seq(Layers), NEW w, NEW m \in 1..Len(s.layers),
         \A i \in 1..m : s.layers[i] \in {"metrics", "fail_open"}
  PROVE  LET up == Opened(s, w) IN
         IF up[m] \in {Error, Missing} THEN up[0] \in {Error, Missing} ELSE up[0] = up[m]
<1> DEFINE n == Len(s.layers)
           u == Opened(s, w)
<1>n. n \in Nat /\ m \in 1..n
  OBVIOUS
<1>1. \A i \in 0..(n - 1) : u[i] = LayerGet(s, i + 1, u[i + 1])
  BY <1>n, OpenedIs
<1> HIDE DEF u, n
<1> DEFINE Same(x) == IF u[m] \in {Error, Missing} THEN x \in {Error, Missing} ELSE x = u[m]
           A == {i \in Nat : i <= m => Same(u[m - i])}
<1>2. 0 \in A
  <2>1. m - 0 = m
    BY <1>n
  <2> QED BY <2>1
<1>3. ASSUME NEW i \in Nat, i \in A PROVE i + 1 \in A
  <2> SUFFICES ASSUME i + 1 <= m PROVE Same(u[m - (i + 1)])
    OBVIOUS
  <2> DEFINE k == m - (i + 1)
  <2>1. k \in 0..(n - 1) /\ k + 1 \in 1..m /\ m - i = k + 1
    BY <1>n
  <2>2. Same(u[k + 1])
    BY <1>n, <1>3, <2>1
  <2> HIDE DEF k, A
  <2>3. s.layers[k + 1] \in {"metrics", "fail_open"} /\ u[k] = OpenedBy(s, s.layers[k + 1], u[k + 1])
    BY <1>1, <2>1 DEF LayerGet, IsUnawaited, Envelopes
  <2>4. Same(u[k])
    BY <2>2, <2>3 DEF OpenedBy, FailOpenGet
  <2> QED BY <2>4 DEF k
<1> HIDE DEF A
<1>4. m \in A /\ m - m = 0 /\ m <= m
  BY <1>2, <1>3, <1>n, SetInduction
<1> QED BY <1>4 DEF A, u

\* Where there is nothing every layer that is awaited finds nothing.
LEMMA NothingStaysNothing ==
  ASSUME NEW s, s.layers \in Seq(Layers), \A i \in 1..Len(s.layers) : ~IsUnawaited(s, i),
         NEW w \in {Missing, Error}
  PROVE  \A i \in 0..Len(s.layers) : Opened(s, w)[i] \in {Missing, Error}
<1> DEFINE n == Len(s.layers)
           u == Opened(s, w)
           A == {i \in Nat : i <= n => u[n - i] \in {Missing, Error}}
<1>n. n \in Nat
  OBVIOUS
<1>1. u[n] = w /\ \A i \in 0..(n - 1) : u[i] = OpenedBy(s, s.layers[i + 1], u[i + 1])
  <2>1. ASSUME NEW i \in 0..(n - 1) PROVE ~IsUnawaited(s, i + 1)
    BY <1>n
  <2> QED BY <1>n, <2>1, OpenedIs DEF LayerGet
<1> HIDE DEF u, n
<1>2. 0 \in A
  <2>1. n - 0 = n
    BY <1>n
  <2> QED BY <1>1, <2>1
<1>3. ASSUME NEW i \in Nat, i \in A PROVE i + 1 \in A
  <2> SUFFICES ASSUME i + 1 <= n PROVE u[n - (i + 1)] \in {Missing, Error}
    OBVIOUS
  <2> DEFINE k == n - (i + 1)
  <2>1. k \in 0..(n - 1) /\ n - i = k + 1 /\ i <= n
    BY <1>n
  <2>2. u[k + 1] \in {Missing, Error}
    BY <1>3, <2>1
  <2> HIDE DEF k, A
  <2>3. u[k] = OpenedBy(s, s.layers[k + 1], u[k + 1])
    BY <1>1, <2>1
  <2>4. u[k] \in {Missing, Error}
    BY <2>2, <2>3 DEF OpenedBy, FailOpenGet, CompressGet, EncryptGet
  <2> QED BY <2>4 DEF k
<1> HIDE DEF A
<1>4. Nat \subseteq A
  BY <1>2, <1>3, SetInduction
<1> TAKE i \in 0..Len(s.layers)
<1>5. n - i \in A /\ n - (n - i) = i /\ n - i <= n
  BY <1>n, <1>4 DEF n
<1> QED BY <1>5 DEF A, u
-----------------------------------------------------------------------------
(* The value that is stored *)

\* What set stored last is the value on its way in.
StoreInv ==
  /\ stack \in Stacks
  /\ put # None => put \in Kinds /\ store = Sealed(stack, << put >>) /\ store # Error /\ Awaits

LEMMA StoreInit == Init => StoreInv
BY DEF Init, StoreInv

LEMMA StoreNext == StoreInv /\ [Next]_vars => StoreInv'
<1> SUFFICES ASSUME StoreInv, [Next]_vars PROVE StoreInv'
  OBVIOUS
<1> USE DEF StoreInv
<1>1. ASSUME UNCHANGED <<stack, store, put>> PROVE StoreInv'
  BY <1>1 DEF Awaits
<1>2. CASE UNCHANGED vars
  BY <1>1, <1>2 DEF vars
<1>3. ASSUME NEW c \in Callers, Get(c) \/ LoadsCount(c) \/ StoresCount(c) PROVE StoreInv'
  BY <1>1, <1>3 DEF Get, LoadsCount, StoresCount
<1>4. CASE AsyncGet
  BY <1>1, <1>4 DEF AsyncGet
<1>5. ASSUME UNCHANGED stack, EntryGoes PROVE StoreInv'
  BY <1>5 DEF EntryGoes
<1>6. CASE Delete \/ AsyncDelete \/ Clear
  BY <1>5, <1>6 DEF Delete, AsyncDelete, Clear
<1>7. ASSUME NEW kind \in Kinds, UNCHANGED stack, Awaits, SetReturns(kind) PROVE StoreInv'
  BY <1>7 DEF SetReturns, Awaits
<1>8. ASSUME NEW kind \in Kinds, Set(kind) PROVE StoreInv'
  BY <1>7, <1>8 DEF Set, Awaits
<1>9. ASSUME NEW kind \in Kinds, AsyncSet(kind) PROVE StoreInv'
  <2>1. CASE Awaits
    BY <1>7, <1>9, <2>1 DEF AsyncSet
  <2>2. CASE ~Awaits
    BY <1>1, <1>9, <2>2 DEF AsyncSet
  <2> QED BY <2>1, <2>2
<1>10. ASSUME NEW kind \in Kinds, GetOrSet(kind) PROVE StoreInv'
  BY <1>10 DEF GetOrSet
<1>11. ASSUME NEW delta \in Deltas, AsyncFallsBack(delta) PROVE StoreInv'
  BY <1>1, <1>11 DEF AsyncFallsBack
<1>12. ASSUME NEW c \in Callers, NEW delta \in Deltas, FallsBack(c, delta) PROVE StoreInv'
  BY <1>1, <1>12 DEF FallsBack
<1>13. ASSUME NEW c \in Callers, CountsLocally(c) PROVE StoreInv'
  BY <1>1, <1>13 DEF CountsLocally
<1>14. CASE AllDone
  BY <1>2, <1>14 DEF AllDone
<1> QED BY <1>2, <1>3, <1>4, <1>6, <1>8, <1>9, <1>10, <1>11, <1>12, <1>13, <1>14 DEF Next

LEMMA StoreAlways == Spec => []StoreInv
BY StoreInit, StoreNext, PTL DEF Spec

\* What set stored, get gives back unchanged through every stack of layers, in
\* every order and any number of times, and every serializer; only None may be
\* given back as the default, where an envelope layer is in the stack.
THEOREM ComesBackUnchanged == Spec => []RoundTrip
<1>1. StoreInv => RoundTrip
  <2> SUFFICES ASSUME StoreInv, put # None
               PROVE  LET x == Opened(stack, store)[0] IN
                      \/ x = << put >>
                      \/ x = Missing /\ put = "null" /\ Envelopes(stack) # {}
    BY DEF RoundTrip
  <2>1. stack.layers \in Seq(Layers) /\ put \in Kinds /\ store = Sealed(stack, << put >>) /\ store # Error
    BY MiddlewareAssumption DEF StoreInv
  <2>3. ASSUME NEW i \in 1..Len(stack.layers) PROVE ~IsUnawaited(stack, i)
    BY <2>1 DEF StoreInv, Awaits, IsUnawaited
  <2>2. Got(stack, Opened(stack, store)[0], << put >>, put)
    BY <2>1, <2>3, ThereAndBack
  <2> QED BY <2>2 DEF Got
<1> QED BY <1>1, StoreAlways, PTL

\* With encryption in the stack nothing that set stored lies in the backend in
\* the clear, as long as what reaches the layer can be made bytes.
THEOREM StoredIsSealed == Spec => []SealedAtRest
<1>1. StoreInv => SealedAtRest
  <2> DEFINE e == Depth(stack, "encrypt")
  <2> SUFFICES ASSUME StoreInv, put # None, Has(stack, "encrypt"),
                      \/ stack.ser # "none"
                      \/ put \in {"str", "short", "bytes"} /\ \A i \in DOMAIN stack.layers :
                           stack.layers[i] = "compress" => e < i
               PROVE  "E" \in ToSet(store)
    BY DEF SealedAtRest
  <2>1. stack.layers \in Seq(Layers) /\ put \in Kinds /\ store = Sealed(stack, << put >>) /\ store # Error
    BY MiddlewareAssumption DEF StoreInv
  <2>2. e \in DOMAIN stack.layers /\ stack.layers[e] = "encrypt"
    <3>1. \E i \in DOMAIN stack.layers : stack.layers[i] = "encrypt"
      BY DEF Has, ToSet
    <3> QED BY <3>1 DEF Depth
  <2> HIDE DEF e
  <2>3. DOMAIN stack.layers = 1..Len(stack.layers)
    BY <2>1
  <2> QED BY <2>1, <2>2, <2>3, Encrypted
<1> QED BY <1>1, StoreAlways, PTL
-----------------------------------------------------------------------------
(* The metrics *)

\* What a thread may have left to count.
Lists == {<<>>, << "hits" >>, << "misses" >>, << "timed" >>, << "errors", "timed" >>,
          << "timed", "misses" >>, << "timed", "hits" >>}

\* The threads that have yet to raise a counter, and where it will then stand.
Waiting(n) == {c \in Callers : n \in ToSet(counting[c])}
Total(n)   == stats[n] + Cardinality(Waiting(n))

\* What a thread has read is still the count, and no other thread has read it.
LoadsAreFresh ==
  \A c \in Callers : loaded[c] # None =>
    /\ loaded[c] = stats[Head(counting[c])]
    /\ \A d \in Callers \ {c} : loaded[d] # None => Head(counting[d]) # Head(counting[c])

TotalsMatch ==
  /\ Total("hits") = outcomes["value"] + outcomes["other"]
  /\ Total("misses") + Total("errors") = outcomes["default"] + outcomes["raised"]
  /\ Total("timed") = outcomes["value"] + outcomes["other"] + outcomes["default"]
                      + outcomes["raised"] + outcomes["cancelled"]
  /\ Awaits => outcomes["other"] = 0

CountsType ==
  /\ stack \in Stacks
  /\ stats \in [Counters -> Int] /\ outcomes \in [Outcomes -> Int]
  /\ counting \in [Callers -> Lists] /\ loaded \in [Callers -> Int \union {None}]
  /\ \A n \in Counters : IsFiniteSet(Waiting(n))
  /\ \A c \in Callers : loaded[c] # None => counting[c] # <<>>
  /\ stack.async => countingFree

CountsInv ==
  /\ CountsType
  /\ ~raced => LoadsAreFresh
  /\ MetricsOnTop /\ ~raced => TotalsMatch

LEMMA Elements ==
  /\ ToSet(<<>>) = {}
  /\ \A a : ToSet(<< a >>) = {a}
  /\ \A a, b : ToSet(<< a, b >>) = {a, b}
<1>1. DOMAIN <<>> = {}
  OBVIOUS
<1>2. ASSUME NEW a PROVE ToSet(<< a >>) = {a}
  <2>1. DOMAIN << a >> = {1} /\ << a >>[1] = a
    OBVIOUS
  <2> QED BY <2>1 DEF ToSet
<1>3. ASSUME NEW a, NEW b PROVE ToSet(<< a, b >>) = {a, b}
  <2>1. DOMAIN << a, b >> = {1, 2} /\ << a, b >>[1] = a /\ << a, b >>[2] = b
    OBVIOUS
  <2> QED BY <2>1 DEF ToSet
<1>4. ToSet(<<>>) = {}
  BY <1>1 DEF ToSet
<1> QED BY <1>2, <1>3, <1>4

\* A counter is raised once.
LEMMA ListFacts ==
  ASSUME NEW l \in Lists, l # <<>>
  PROVE  /\ Head(l) \in Counters /\ Tail(l) \in Lists
         /\ Head(l) \notin ToSet(Tail(l)) /\ ToSet(l) = {Head(l)} \union ToSet(Tail(l))
<1>1. ASSUME NEW a, l = << a >> PROVE Head(l) = a /\ Tail(l) = <<>>
  BY <1>1
<1>2. ASSUME NEW a, NEW b, l = << a, b >> PROVE Head(l) = a /\ Tail(l) = << b >>
  BY <1>2
<1>3. CASE l \in {<< "hits" >>, << "misses" >>, << "timed" >>}
  <2>1. PICK a \in Counters : l = << a >>
    BY <1>3 DEF Counters
  <2> QED BY <1>1, <2>1, Elements DEF Lists
<1>4. CASE l \in {<< "errors", "timed" >>, << "timed", "misses" >>, << "timed", "hits" >>}
  <2>1. PICK a \in Counters : \E b \in Counters : l = << a, b >> /\ a # b /\ << b >> \in Lists
    BY <1>4 DEF Counters, Lists
  <2>2. PICK b \in Counters : l = << a, b >> /\ a # b /\ << b >> \in Lists
    BY <2>1
  <2> QED BY <1>2, <2>2, Elements
<1> QED BY <1>3, <1>4 DEF Lists

\* What is counted for what the layer below the metrics returned.
LEMMA CountedFacts ==
  ASSUME NEW x
  PROVE  /\ Counted(x) \in Lists
         /\ x = Error => ToSet(Counted(x)) = {"errors", "timed"}
         /\ x = Missing => ToSet(Counted(x)) = {"timed", "misses"}
         /\ x \notin {Error, Missing} => ToSet(Counted(x)) = {"timed", "hits"}
<1>1. Error # Missing
  BY TheMarks, ShortWords DEF Error, Missing
<1>2. CASE x = Error
  BY <1>1, <1>2, Elements DEF Counted, Lists
<1>3. CASE x = Missing
  BY <1>1, <1>3, Elements DEF Counted, Lists
<1>4. CASE x \notin {Error, Missing}
  BY <1>4, Elements DEF Counted, Lists
<1> QED BY <1>1, <1>2, <1>3, <1>4

LEMMA ToCountIsList == ASSUME NEW v PROVE ToCount(v) \in Lists
BY CountedFacts DEF ToCount, Lists

LEMMA CountsInit == Init => CountsInv
<1> SUFFICES ASSUME Init PROVE CountsInv
  OBVIOUS
<1>1. /\ stack \in Stacks /\ stats = [n \in Counters |-> 0] /\ outcomes = [o \in Outcomes |-> 0]
      /\ counting = [c \in Callers |-> <<>>] /\ loaded = [c \in Callers |-> None]
  BY DEF Init
<1>2. \A n \in Counters : Waiting(n) = {}
  BY <1>1, Elements DEF Waiting
<1>3. \A n \in Counters : IsFiniteSet(Waiting(n)) /\ Total(n) = 0
  BY <1>1, <1>2, FS_EmptySet DEF Total
<1>4. TotalsMatch
  BY <1>1, <1>3 DEF TotalsMatch, Counters, Outcomes
<1>5. CountsType
  BY <1>1, <1>3 DEF CountsType, Lists, countingFree
<1>6. LoadsAreFresh
  BY <1>1 DEF LoadsAreFresh
<1> QED BY <1>4, <1>5, <1>6 DEF CountsInv

\* A get that has been answered moves the totals as its outcome does.
LEMMA GetMatches ==
  ASSUME CountsInv, UNCHANGED stack, MetricsOnTop, TotalsMatch, NEW v,
         Ends(Outcome(v, Opened(stack, v)[0])),
         \A n \in Counters : /\ Total(n) \in Int
                             /\ Total(n)' = Total(n) + IF n \in ToSet(ToCount(v)) THEN 1 ELSE 0
  PROVE  TotalsMatch'
<1> DEFINE D == Depth(stack, "metrics")
           x == Opened(stack, v)[D]
           y == Opened(stack, v)[0]
<1>1. stack.layers \in Seq(Layers)
  BY MiddlewareAssumption DEF CountsInv, CountsType
<1>2. D \in 1..Len(stack.layers)
  <2>1. \E i \in DOMAIN stack.layers : stack.layers[i] = "metrics"
    BY DEF MetricsOnTop, Has, ToSet
  <2> QED BY <1>1, <2>1 DEF Depth
<1>3. \A i \in 1..D : stack.layers[i] \in {"metrics", "fail_open"}
  BY DEF MetricsOnTop
<1>4. IF x \in {Error, Missing} THEN y \in {Error, Missing} ELSE y = x
  <2> HIDE DEF D
  <2> QED BY <1>1, <1>2, <1>3, CountedIsSeen
<1>5. ASSUME Awaits, v \in {Error, Missing} PROVE x \in {Error, Missing}
  <2>1. ASSUME NEW i \in 1..Len(stack.layers) PROVE ~IsUnawaited(stack, i)
    BY <1>1, <1>5 DEF Awaits, IsUnawaited
  <2> HIDE DEF D
  <2> QED BY <1>1, <1>2, <1>5, <2>1, NothingStaysNothing
<1>6. ToCount(v) = Counted(x)
  BY DEF ToCount, MetricsOnTop
<1>7. outcomes' = [outcomes EXCEPT ![Outcome(v, y)] = @ + 1] /\ outcomes \in [Outcomes -> Int]
  BY DEF Ends, CountsInv, CountsType
<1>8. Error # Missing
  BY TheMarks, ShortWords DEF Error, Missing
<1>11. Awaits' <=> Awaits
  BY DEF Awaits
<1> HIDE DEF D, x, y
<1>9. CASE x \in {Error, Missing}
  <2>1. Outcome(v, y) \in {"raised", "default"}
    BY <1>4, <1>8, <1>9 DEF Outcome
  <2>2. /\ outcomes'["value"] = outcomes["value"] /\ outcomes'["cancelled"] = outcomes["cancelled"]
        /\ outcomes'["other"] = outcomes["other"]
        /\ outcomes'["default"] + outcomes'["raised"] = outcomes["default"] + outcomes["raised"] + 1
    BY <1>7, <2>1 DEF Outcomes
  <2>3. "timed" \in ToSet(ToCount(v)) /\ "hits" \notin ToSet(ToCount(v))
        /\ ("errors" \in ToSet(ToCount(v)) <=> "misses" \notin ToSet(ToCount(v)))
    BY <1>6, <1>8, <1>9, CountedFacts
  <2>4. /\ Total("hits")' = Total("hits") /\ Total("timed")' = Total("timed") + 1
        /\ Total("misses")' + Total("errors")' = Total("misses") + Total("errors") + 1
    BY <2>3 DEF Counters
  <2>5. Total("hits") \in Int /\ Total("timed") \in Int /\ Total("misses") \in Int /\ Total("errors") \in Int
    BY DEF Counters
  <2>6. \A o \in Outcomes : outcomes[o] \in Int /\ outcomes'[o] \in Int
    BY <1>7
  <2> QED BY <1>11, <2>2, <2>4, <2>5, <2>6 DEF TotalsMatch, Outcomes
<1>10. CASE x \notin {Error, Missing}
  <2>1. Outcome(v, y) \in {"value", "other"} /\ (Awaits => Outcome(v, y) = "value")
    BY <1>4, <1>5, <1>8, <1>10 DEF Outcome
  <2>2. /\ outcomes'["value"] + outcomes'["other"] = outcomes["value"] + outcomes["other"] + 1
        /\ outcomes'["cancelled"] = outcomes["cancelled"]
        /\ outcomes'["default"] = outcomes["default"] /\ outcomes'["raised"] = outcomes["raised"]
        /\ Awaits => outcomes'["other"] = outcomes["other"]
    BY <1>7, <2>1 DEF Outcomes
  <2>3. ToSet(ToCount(v)) = {"timed", "hits"}
    BY <1>6, <1>10, CountedFacts
  <2>4. /\ Total("hits")' = Total("hits") + 1 /\ Total("timed")' = Total("timed") + 1
        /\ Total("misses")' = Total("misses") /\ Total("errors")' = Total("errors")
    BY <2>3 DEF Counters
  <2>5. \A o \in Outcomes : outcomes[o] \in Int /\ outcomes'[o] \in Int
    BY <1>7
  <2>6. Total("hits") \in Int /\ Total("timed") \in Int
    BY DEF Counters
  <2> QED BY <1>11, <2>2, <2>4, <2>5, <2>6 DEF TotalsMatch, Outcomes
<1> QED BY <1>9, <1>10

\* Totals are integers, and outcomes stay integers.
LEMMA TotalsAreInt == ASSUME CountsType PROVE \A n \in Counters : Total(n) \in Int
BY FS_CardinalityType DEF CountsType, Total

LEMMA EndsInt ==
  ASSUME outcomes \in [Outcomes -> Int], NEW o \in Outcomes, Ends(o)
  PROVE  outcomes' \in [Outcomes -> Int]
BY DEF Ends

\* A thread's get: what it has to count it waits for.
LEMMA CountsGet == ASSUME CountsInv, NEW c \in Callers, Get(c) PROVE CountsInv'
<1>1. PICK v \in {store, Error} : Answers(v) /\ counting' = [counting EXCEPT ![c] = ToCount(v)]
  BY DEF Get
<1>2. ~stack.async /\ counting[c] = <<>> /\ UNCHANGED <<stack, stats, loaded, raced>>
  BY DEF Get
<1>3. /\ CountsType /\ counting \in [Callers -> Lists] /\ loaded[c] = None
      /\ outcomes \in [Outcomes -> Int] /\ ToCount(v) \in Lists
  BY <1>2, ToCountIsList DEF CountsInv, CountsType
<1>4. Ends(Outcome(v, Opened(stack, v)[0])) /\ Outcome(v, Opened(stack, v)[0]) \in Outcomes
  BY <1>1 DEF Answers, Outcome, Outcomes
<1>5. ASSUME NEW n \in Counters
      PROVE  Waiting(n)' = IF n \in ToSet(ToCount(v)) THEN Waiting(n) \union {c} ELSE Waiting(n)
  BY <1>1, <1>2, <1>3, Elements DEF Waiting
<1>6. ASSUME NEW n \in Counters PROVE c \notin Waiting(n) /\ IsFiniteSet(Waiting(n))
  BY <1>2, <1>3, Elements DEF Waiting, CountsType
<1>7. ASSUME NEW n \in Counters
      PROVE  IsFiniteSet(Waiting(n)') /\ Total(n)' = Total(n) + IF n \in ToSet(ToCount(v)) THEN 1 ELSE 0
  <2>1. stats[n] \in Int /\ stats'[n] = stats[n] /\ Cardinality(Waiting(n)) \in Nat
    BY <1>2, <1>3, <1>6, FS_CardinalityType DEF CountsType
  <2>2. CASE n \in ToSet(ToCount(v))
    <3>1. IsFiniteSet(Waiting(n) \union {c}) /\ Cardinality(Waiting(n) \union {c}) = Cardinality(Waiting(n)) + 1
      BY <1>6, FS_AddElement
    <3> QED BY <1>5, <2>1, <2>2, <3>1 DEF Total
  <2>3. CASE n \notin ToSet(ToCount(v))
    BY <1>5, <1>6, <2>1, <2>3 DEF Total
  <2> QED BY <2>2, <2>3
<1>8. CountsType'
  <2>1. counting' \in [Callers -> Lists] /\ outcomes' \in [Outcomes -> Int]
    BY <1>1, <1>3, <1>4, EndsInt
  <2>2. \A d \in Callers : loaded'[d] # None => counting'[d] # <<>>
    BY <1>1, <1>2, <1>3 DEF CountsType
  <2> QED BY <1>2, <1>3, <1>7, <2>1, <2>2 DEF CountsType
<1>9. ASSUME LoadsAreFresh PROVE LoadsAreFresh'
  <2>1. \A d \in Callers : loaded[d] # None => counting'[d] = counting[d]
    BY <1>1, <1>3
  <2> QED BY <1>2, <1>9, <2>1 DEF LoadsAreFresh
<1>10. ASSUME MetricsOnTop, TotalsMatch PROVE TotalsMatch'
  BY <1>2, <1>3, <1>4, <1>7, <1>10, GetMatches, TotalsAreInt
<1>11. (MetricsOnTop' <=> MetricsOnTop) /\ raced' = raced
  BY <1>2 DEF MetricsOnTop, Has, Depth
<1> QED BY <1>8, <1>9, <1>10, <1>11 DEF CountsInv

\* A coroutine's get counts at once.
LEMMA CountsAsyncGet == ASSUME CountsInv, AsyncGet PROVE CountsInv'
<1>1. stack.async /\ UNCHANGED <<stack, counting, loaded, raced>>
  BY DEF AsyncGet
<1>2. CountsType /\ countingFree /\ \A c \in Callers : loaded[c] = None
  BY <1>1 DEF CountsInv, CountsType, countingFree
<1>3. (MetricsOnTop' <=> MetricsOnTop) /\ (Awaits' <=> Awaits) /\ raced' = raced
  BY <1>1 DEF MetricsOnTop, Awaits, Has, Depth
<1>4. ASSUME stats' \in [Counters -> Int], outcomes' \in [Outcomes -> Int],
             MetricsOnTop /\ TotalsMatch => TotalsMatch'
      PROVE  CountsInv'
  <2>1. \A n \in Counters : Waiting(n)' = Waiting(n)
    BY <1>1 DEF Waiting
  <2>2. CountsType'
    BY <1>1, <1>2, <1>4, <2>1 DEF CountsType, countingFree
  <2>3. LoadsAreFresh'
    BY <1>1, <1>2 DEF LoadsAreFresh
  <2> QED BY <1>3, <1>4, <2>2, <2>3 DEF CountsInv
<1>5. ASSUME NEW l \in Lists, CountsAtOnce(l)
      PROVE  /\ stats' \in [Counters -> Int]
             /\ \A n \in Counters : Total(n)' = Total(n) + IF n \in ToSet(l) THEN 1 ELSE 0
  <2>1. stats' = [n \in Counters |-> IF n \in ToSet(l) THEN stats[n] + 1 ELSE stats[n]]
        /\ stats \in [Counters -> Int]
    BY <1>2, <1>5 DEF CountsAtOnce, CountsType
  <2>2. ASSUME NEW n \in Counters PROVE Waiting(n)' = Waiting(n) /\ Cardinality(Waiting(n)) \in Nat
    BY <1>1, <1>2, FS_CardinalityType DEF Waiting, CountsType
  <2> QED BY <2>1, <2>2 DEF Total
<1>6. CASE GivesCoroutine /\ Ends("other") /\ UNCHANGED <<stats, faults>>
  <2>1. ~MetricsOnTop
    <3> SUFFICES ASSUME MetricsOnTop PROVE FALSE
      OBVIOUS
    <3>1. stack.layers \in Seq(Layers) /\ Has(stack, "metrics")
      BY <1>2, MiddlewareAssumption DEF CountsType, MetricsOnTop
    <3>2. Depth(stack, "metrics") \in 1..Len(stack.layers)
      <4>1. \E i \in DOMAIN stack.layers : stack.layers[i] = "metrics"
        BY <3>1 DEF Has, ToSet
      <4> QED BY <3>1, <4>1 DEF Depth
    <3>3. stack.layers[1] \in {"metrics", "fail_open"}
      BY <3>2 DEF MetricsOnTop
    <3>4. stack.layers[1] \in {"compress", "encrypt"}
      BY <1>6 DEF GivesCoroutine, Envelopes
    <3> QED BY <3>3, <3>4
  <2>2. outcomes' \in [Outcomes -> Int] /\ stats' \in [Counters -> Int]
    BY <1>2, <1>6, EndsInt DEF Outcomes, CountsType
  <2> QED BY <1>4, <2>1, <2>2
<1>7. ASSUME NEW v \in {store, Error}, Answers(v), CountsAtOnce(ToCount(v)) PROVE CountsInv'
  <2>1. Ends(Outcome(v, Opened(stack, v)[0])) /\ Outcome(v, Opened(stack, v)[0]) \in Outcomes
    BY <1>7 DEF Answers, Outcome, Outcomes
  <2>2. outcomes' \in [Outcomes -> Int]
    BY <1>2, <2>1, EndsInt DEF CountsType
  <2>3. /\ stats' \in [Counters -> Int]
        /\ \A n \in Counters : Total(n)' = Total(n) + IF n \in ToSet(ToCount(v)) THEN 1 ELSE 0
    BY <1>5, <1>7, ToCountIsList
  <2>4. ASSUME MetricsOnTop, TotalsMatch PROVE TotalsMatch'
    BY <1>1, <1>2, <2>1, <2>3, <2>4, GetMatches, TotalsAreInt
  <2> QED BY <1>4, <2>2, <2>3, <2>4
<1>8. CASE Ends("cancelled") /\ CountsAtOnce(IF Has(stack, "metrics") THEN << "timed" >> ELSE <<>>)
  <2> DEFINE l == IF Has(stack, "metrics") THEN << "timed" >> ELSE <<>>
  <2>1. l \in Lists
    BY DEF Lists
  <2>2. outcomes' \in [Outcomes -> Int]
    BY <1>2, <1>8, EndsInt DEF Outcomes, CountsType
  <2>3. /\ stats' \in [Counters -> Int]
        /\ \A n \in Counters : Total(n)' = Total(n) + IF n \in ToSet(l) THEN 1 ELSE 0
    BY <1>5, <1>8, <2>1
  <2>4. ASSUME MetricsOnTop, TotalsMatch PROVE TotalsMatch'
    <3>1. ToSet(l) = {"timed"}
      BY <2>4, Elements DEF MetricsOnTop
    <3>2. \A n \in Counters : Total(n) \in Int
      BY <1>2, TotalsAreInt
    <3>3. /\ Total("hits")' = Total("hits") /\ Total("misses")' = Total("misses")
          /\ Total("errors")' = Total("errors") /\ Total("timed")' = Total("timed") + 1
      BY <2>3, <3>1, <3>2 DEF Counters
    <3>4. outcomes' = [outcomes EXCEPT !["cancelled"] = @ + 1] /\ outcomes \in [Outcomes -> Int]
      BY <1>2, <1>8 DEF Ends, CountsType
    <3>5. /\ outcomes'["value"] = outcomes["value"] /\ outcomes'["default"] = outcomes["default"]
          /\ outcomes'["other"] = outcomes["other"] /\ (Awaits' <=> Awaits)
          /\ outcomes'["raised"] = outcomes["raised"] /\ outcomes'["cancelled"] = outcomes["cancelled"] + 1
          /\ \A o \in Outcomes : outcomes[o] \in Int
      BY <1>3, <3>4 DEF Outcomes
    <3> QED BY <2>4, <3>2, <3>3, <3>5 DEF TotalsMatch, Counters, Outcomes
  <2> QED BY <1>4, <2>2, <2>3, <2>4
<1> QED BY <1>6, <1>7, <1>8 DEF AsyncGet

LEMMA CountsLoad == ASSUME CountsInv, NEW c \in Callers, LoadsCount(c) PROVE CountsInv'
<1>1. /\ counting[c] # <<>> /\ loaded[c] = None
      /\ loaded' = [loaded EXCEPT ![c] = stats[Head(counting[c])]]
      /\ raced' = (raced \/ \E d \in Callers : loaded[d] # None /\ Head(counting[d]) = Head(counting[c]))
      /\ UNCHANGED <<stack, stats, counting, outcomes>>
  BY DEF LoadsCount
<1>2. CountsType /\ Head(counting[c]) \in Counters /\ stats[Head(counting[c])] \in Int
  BY <1>1, ListFacts DEF CountsInv, CountsType
<1>3. CountsType' /\ \A n \in Counters : Total(n)' = Total(n)
  BY <1>1, <1>2 DEF CountsType, Waiting, Total, countingFree
<1>4. ASSUME ~raced' PROVE ~raced /\ LoadsAreFresh'
  <2>1. ~raced /\ LoadsAreFresh
        /\ \A d \in Callers : loaded[d] # None => Head(counting[d]) # Head(counting[c])
    BY <1>1, <1>4 DEF CountsInv
  <2>2. loaded \in [Callers -> Int \union {None}]
    BY <1>2 DEF CountsType
  <2> QED BY <1>1, <2>1, <2>2 DEF LoadsAreFresh
<1>5. ASSUME MetricsOnTop', ~raced' PROVE TotalsMatch'
  <2>1. TotalsMatch
    BY <1>1, <1>4, <1>5 DEF CountsInv, MetricsOnTop, Has, Depth
  <2> QED BY <1>1, <1>3, <2>1 DEF TotalsMatch, Counters, Awaits
<1> QED BY <1>3, <1>4, <1>5 DEF CountsInv

LEMMA CountsStore == ASSUME CountsInv, NEW c \in Callers, StoresCount(c) PROVE CountsInv'
<1> DEFINE h == Head(counting[c])
<1>1. /\ counting[c] # <<>> /\ loaded[c] # None
      /\ stats' = [stats EXCEPT ![h] = loaded[c] + 1]
      /\ counting' = [counting EXCEPT ![c] = Tail(counting[c])]
      /\ loaded' = [loaded EXCEPT ![c] = None]
      /\ UNCHANGED <<stack, raced, outcomes>>
  BY DEF StoresCount
<1>2. /\ CountsType /\ counting \in [Callers -> Lists] /\ loaded \in [Callers -> Int \union {None}]
      /\ stats \in [Counters -> Int] /\ loaded[c] \in Int
  BY <1>1 DEF CountsInv, CountsType
<1>3. /\ h \in Counters /\ Tail(counting[c]) \in Lists
      /\ h \notin ToSet(Tail(counting[c])) /\ ToSet(counting[c]) = {h} \union ToSet(Tail(counting[c]))
  BY <1>1, <1>2, ListFacts
<1> HIDE DEF h
<1>4. ASSUME NEW n \in Counters
      PROVE  Waiting(n)' = IF n = h THEN Waiting(n) \ {c} ELSE Waiting(n)
  <2>1. \A d \in Callers \ {c} : counting'[d] = counting[d]
    BY <1>1, <1>2
  <2>2. counting'[c] = Tail(counting[c])
    BY <1>1, <1>2
  <2> QED BY <1>3, <2>1, <2>2 DEF Waiting
<1>5. c \in Waiting(h) /\ \A n \in Counters : IsFiniteSet(Waiting(n)) /\ Cardinality(Waiting(n)) \in Nat
  BY <1>2, <1>3, FS_CardinalityType DEF Waiting, CountsType
<1>6. IsFiniteSet(Waiting(h) \ {c}) /\ Cardinality(Waiting(h) \ {c}) = Cardinality(Waiting(h)) - 1
  BY <1>3, <1>5, FS_RemoveElement
<1>7. CountsType'
  <2>1. stats' \in [Counters -> Int] /\ counting' \in [Callers -> Lists]
        /\ loaded' \in [Callers -> Int \union {None}]
    BY <1>1, <1>2, <1>3
  <2>2. \A n \in Counters : IsFiniteSet(Waiting(n)')
    BY <1>4, <1>5, <1>6
  <2>3. \A d \in Callers : loaded'[d] # None => counting'[d] # <<>>
    BY <1>1, <1>2 DEF CountsType
  <2>4. ~stack'.async
    BY <1>1, <1>2 DEF CountsType, countingFree
  <2> QED BY <1>1, <1>2, <2>1, <2>2, <2>3, <2>4 DEF CountsType
<1>8. ASSUME ~raced' PROVE LoadsAreFresh' /\ \A n \in Counters : Total(n)' = Total(n)
  <2>1. LoadsAreFresh
    BY <1>1, <1>8 DEF CountsInv
  <2>2. loaded[c] = stats[h]
    BY <1>1, <2>1 DEF LoadsAreFresh, h
  <2>3. ASSUME NEW n \in Counters PROVE Total(n)' = Total(n)
    <3>1. CASE n = h
      <4>1. stats'[n] = stats[n] + 1 /\ stats[n] \in Int
        BY <1>1, <1>2, <2>2, <3>1
      <4>2. Cardinality(Waiting(n)') = Cardinality(Waiting(n)) - 1 /\ Cardinality(Waiting(n)) \in Nat
        BY <1>4, <1>5, <1>6, <3>1
      <4> QED BY <4>1, <4>2 DEF Total
    <3>2. CASE n # h
      BY <1>1, <1>2, <1>4, <3>2 DEF Total
    <3> QED BY <3>1, <3>2
  <2>4. ASSUME NEW d \in Callers, loaded'[d] # None
        PROVE  d # c /\ loaded'[d] = loaded[d] /\ counting'[d] = counting[d] /\ Head(counting[d]) # h
               /\ Head(counting[d]) \in Counters
    <3>1. d # c /\ loaded'[d] = loaded[d] /\ counting'[d] = counting[d]
      BY <1>1, <1>2, <2>4
    <3>2. Head(counting[d]) # h
      BY <1>1, <2>1, <2>4, <3>1 DEF LoadsAreFresh, h
    <3>3. Head(counting[d]) \in Counters
      BY <1>2, <2>4, <3>1, ListFacts DEF CountsType
    <3> QED BY <3>1, <3>2, <3>3
  <2>5. \A d \in Callers : loaded'[d] # None => stats'[Head(counting[d])] = stats[Head(counting[d])]
    BY <1>1, <1>2, <2>4
  <2>6. LoadsAreFresh'
    BY <2>1, <2>4, <2>5 DEF LoadsAreFresh
  <2> QED BY <2>3, <2>6
<1>9. ASSUME MetricsOnTop', ~raced' PROVE TotalsMatch'
  <2>1. TotalsMatch
    BY <1>1, <1>9 DEF CountsInv, MetricsOnTop, Has, Depth
  <2> QED BY <1>1, <1>8, <1>9, <2>1 DEF TotalsMatch, Counters, Awaits
<1> QED BY <1>7, <1>8, <1>9 DEF CountsInv

LEMMA CountsNext == CountsInv /\ [Next]_vars => CountsInv'
<1> SUFFICES ASSUME CountsInv, [Next]_vars PROVE CountsInv'
  OBVIOUS
<1>1. ASSUME UNCHANGED <<stack, metrics, outcomes>> PROVE CountsInv'
  BY <1>1 DEF metrics, CountsInv, CountsType, LoadsAreFresh, TotalsMatch, Total, Waiting,
              countingFree, MetricsOnTop, Awaits, Has, Depth
<1>2. CASE UNCHANGED vars
  BY <1>1, <1>2 DEF vars
<1>3. ASSUME NEW c \in Callers, Get(c) \/ LoadsCount(c) \/ StoresCount(c) PROVE CountsInv'
  BY <1>3, CountsGet, CountsLoad, CountsStore
<1>4. CASE AsyncGet
  BY <1>4, CountsAsyncGet
<1>5. CASE Delete \/ AsyncDelete \/ Clear
  BY <1>1, <1>5 DEF Delete, AsyncDelete, Clear
<1>6. ASSUME NEW kind \in Kinds, Set(kind) \/ AsyncSet(kind) \/ GetOrSet(kind) PROVE CountsInv'
  BY <1>1, <1>6 DEF Set, AsyncSet, GetOrSet
<1>7. ASSUME NEW delta \in Deltas, AsyncFallsBack(delta) PROVE CountsInv'
  BY <1>1, <1>7 DEF AsyncFallsBack
<1>8. ASSUME NEW c \in Callers, NEW delta \in Deltas, FallsBack(c, delta) PROVE CountsInv'
  BY <1>1, <1>8 DEF FallsBack
<1>9. ASSUME NEW c \in Callers, CountsLocally(c) PROVE CountsInv'
  BY <1>1, <1>9 DEF CountsLocally
<1>10. CASE AllDone
  BY <1>2, <1>10 DEF AllDone
<1> QED BY <1>2, <1>3, <1>4, <1>5, <1>6, <1>7, <1>8, <1>9, <1>10 DEF Next

\* On top of any layers the metrics count what the callers saw, also where
\* threads interleave between reading and writing a counter, as long as no two
\* of them are in the same increment at once; if every layer is awaited no
\* default is among the hits.
THEOREM CountsWhatIsSeen == Spec => []MetricsMatch
<1>1. CountsInv => MetricsMatch
  <2> SUFFICES ASSUME CountsInv, MetricsOnTop, countingFree, ~raced PROVE MetricsMatch
    BY DEF MetricsMatch
  <2>1. TotalsMatch /\ stats \in [Counters -> Int] /\ outcomes \in [Outcomes -> Int]
    BY DEF CountsInv, CountsType
  <2>2. \A n \in Counters : Waiting(n) = {}
    BY Elements DEF countingFree, Waiting
  <2>3. \A n \in Counters : Total(n) = stats[n]
    <3> SUFFICES ASSUME NEW n \in Counters PROVE Total(n) = stats[n]
      OBVIOUS
    <3>1. stats[n] \in Int /\ Cardinality(Waiting(n)) = 0
      BY <2>1, <2>2, FS_EmptySet
    <3> QED BY <3>1 DEF Total
  <2>4. \A n \in Counters : stats[n] \in Int
    BY <2>1
  <2>5. \A o \in Outcomes : outcomes[o] \in Int
    BY <2>1
  <2> QED BY <2>1, <2>3, <2>4, <2>5 DEF MetricsMatch, TotalsMatch, Counters, Outcomes
<1> QED BY <1>1, CountsInit, CountsNext, PTL DEF Spec
-----------------------------------------------------------------------------
(* The counters of the fail-open layer *)

\* At most one thread is in the except clause, unless two overlapped, and what
\* it is to write is the sum.
LocalInv ==
  /\ local \in Int /\ fallen \in Int /\ overlap \in BOOLEAN
  /\ seen \in [Callers -> Int \union {None}]
  /\ stack.async => fallbackFree
  /\ ~overlap => \/ fallbackFree /\ local = fallen
                 \/ \E c \in Callers : seen[c] = fallen /\ \A b \in Callers \ {c} : seen[b] = None

LEMMA LocalInit == Init => LocalInv
<1> SUFFICES ASSUME Init PROVE LocalInv
  OBVIOUS
<1>1. fallbackFree
  BY DEF Init, fallbackFree
<1>2. seen \in [Callers -> Int \union {None}]
  BY DEF Init
<1>3. local \in Int /\ fallen \in Int /\ local = fallen
  BY DEF Init
<1>4. overlap \in BOOLEAN
  BY Zenon DEF Init
<1> QED BY <1>1, <1>2, <1>3, <1>4, Zenon DEF LocalInv

LEMMA LocalNext == LocalInv /\ [Next]_vars => LocalInv'
<1> SUFFICES ASSUME LocalInv, [Next]_vars PROVE LocalInv'
  OBVIOUS
<1>1. ASSUME UNCHANGED <<stack, local, seen, fallen, overlap>> PROVE LocalInv'
  BY <1>1 DEF LocalInv, fallbackFree
<1>2. CASE UNCHANGED vars
  BY <1>1, <1>2 DEF vars
<1>3. CASE AsyncGet
  BY <1>1, <1>3 DEF AsyncGet
<1>10. ASSUME NEW c \in Callers, Get(c) \/ LoadsCount(c) \/ StoresCount(c) PROVE LocalInv'
  BY <1>1, <1>10 DEF Get, LoadsCount, StoresCount
<1>4. CASE Delete \/ AsyncDelete \/ Clear
  BY <1>1, <1>4 DEF Delete, AsyncDelete, Clear
<1>5. ASSUME NEW kind \in Kinds, Set(kind) \/ AsyncSet(kind) \/ GetOrSet(kind) PROVE LocalInv'
  BY <1>1, <1>5 DEF Set, AsyncSet, GetOrSet
<1>6. ASSUME NEW delta \in Deltas, AsyncFallsBack(delta) PROVE LocalInv'
  <2>1. fallbackFree /\ delta \in Int
    BY <1>6 DEF AsyncFallsBack, LocalInv, Deltas
  <2>2. /\ local' = local + delta /\ fallen' = fallen + delta
        /\ UNCHANGED <<stack, seen, overlap>>
    BY <1>6 DEF AsyncFallsBack
  <2>3. ~overlap => local = fallen
    BY <2>1, MiddlewareAssumption DEF LocalInv, fallbackFree
  <2> QED BY <2>1, <2>2, <2>3 DEF LocalInv, fallbackFree
<1>7. ASSUME NEW c \in Callers, NEW delta \in Deltas, FallsBack(c, delta) PROVE LocalInv'
  <2>1. /\ ~stack.async /\ delta \in Int
        /\ seen' = [seen EXCEPT ![c] = local + delta]
        /\ fallen' = fallen + delta
        /\ overlap' = (overlap \/ ~fallbackFree)
        /\ UNCHANGED <<stack, local>>
    BY <1>7 DEF FallsBack, Deltas
  <2>2. /\ local' \in Int /\ fallen' \in Int /\ overlap' \in BOOLEAN
        /\ seen' \in [Callers -> Int \union {None}] /\ ~stack'.async
    BY <2>1 DEF LocalInv
  <2>3. ASSUME ~overlap'
        PROVE  seen'[c] = fallen' /\ \A b \in Callers \ {c} : seen'[b] = None
    <3>1. ~overlap /\ fallbackFree
      BY <2>1, <2>3
    <3>2. local = fallen
      BY <3>1, MiddlewareAssumption DEF LocalInv, fallbackFree
    <3> QED BY <2>1, <3>1, <3>2 DEF LocalInv, fallbackFree
  <2> QED BY <2>2, <2>3 DEF LocalInv
<1>8. ASSUME NEW c \in Callers, CountsLocally(c) PROVE LocalInv'
  <2>1. /\ seen[c] # None /\ local' = seen[c] /\ seen' = [seen EXCEPT ![c] = None]
        /\ UNCHANGED <<stack, fallen, overlap>>
    BY <1>8 DEF CountsLocally
  <2>2. /\ local' \in Int /\ fallen' \in Int /\ overlap' \in BOOLEAN
        /\ seen' \in [Callers -> Int \union {None}]
    BY <2>1 DEF LocalInv
  <2>3. stack'.async => fallbackFree'
    BY <2>1 DEF LocalInv, fallbackFree
  <2>4. ASSUME ~overlap' PROVE fallbackFree' /\ local' = fallen'
    <3>1. ~overlap /\ ~fallbackFree
      BY <2>1, <2>4 DEF fallbackFree
    <3>2. PICK d \in Callers : seen[d] = fallen /\ \A b \in Callers \ {d} : seen[b] = None
      BY <3>1 DEF LocalInv
    <3>3. d = c
      BY <2>1, <3>2
    <3> QED BY <2>1, <3>2, <3>3 DEF LocalInv, fallbackFree
  <2> QED BY <2>2, <2>3, <2>4 DEF LocalInv
<1>9. CASE AllDone
  BY <1>2, <1>9 DEF AllDone
<1> QED BY <1>2, <1>3, <1>4, <1>5, <1>6, <1>7, <1>8, <1>9, <1>10 DEF Next

\* The local counter is the sum of the increments the backend raised for,
\* unless two threads were in the except clause at once.
THEOREM LocalCountIsExact == Spec => []LocalCountsFallbacks
<1>1. LocalInv => LocalCountsFallbacks
  BY MiddlewareAssumption DEF LocalInv, LocalCountsFallbacks, fallbackFree
<1> QED BY <1>1, LocalInit, LocalNext, PTL DEF Spec
=============================================================================
