---------------------------- MODULE RedisProofs -----------------------------
(***************************************************************************)
(* Proofs about RedisClients: what counters hold, what an invalidation     *)
(* removes and what is found under a tag, for any clients, keys, tags,     *)
(* workloads and faults.                                                   *)
(***************************************************************************)
EXTENDS RedisClients, SequenceTheorems, TLAPS

\* The keys that are only incremented.
Counters == {k \in Keys : uses[k].does = {"incr"}}

\* Places of incr and of its second way, of clear, of add_tags and of
\* invalidate_tags.
SecondPlaces  == {"incr_exists", "a_incrby", "a_window", "a_seconds"}
CounterPlaces == {"incr", "a_incr"} \union SecondPlaces
AllPlaces     == {"del_all", "a_del_all"}
EachPlaces    == {"del_each", "a_del_each"}
ScanPlaces    == {"scan", "a_scan"} \union AllPlaces \union EachPlaces
ClearPlaces   == {"flush", "a_flush"} \union ScanPlaces
LoopPlaces    == {"next_tag", "a_next_tag"}
LifePlaces    == {"set_life", "a_set_life"}
TagPlaces     == {"sadd", "a_sadd"} \union LifePlaces
FindPlaces    == {"smembers", "a_smembers"}
MemberPlaces  == {"del_member", "a_del_member"}
PublishPlaces == {"publish", "a_publish"}
KeyPlaces     == {"get", "set", "del", "expire", "touch", "persist", "a_get", "a_set", "a_del", "a_expire",
                  "a_touch", "a_exists", "a_persist", "a_ttl", "a_pexpire"}
\* Where a call of method m can be.
UsePlaces(m) ==
  CASE m = "incr" -> CounterPlaces
    [] m = "clear" -> ScanPlaces
    [] m = "clear_all" -> {"flush", "a_flush"}
    [] m = "add_tags" -> LoopPlaces \union TagPlaces
    [] m = "invalidate_tags" -> LoopPlaces \union FindPlaces \union MemberPlaces \union PublishPlaces
    [] OTHER -> KeyPlaces

\* A call under way is a use the workload has of its key, at a place of its
\* method; a clear is one of the whole namespace, and what it found to delete
\* is no counter; F are the keys tried in a second way.
GoodIn(f, F) ==
  /\ f \in Frame
  /\ f.found \intersect Counters = {}
  /\ f.at # "idle" => /\ f.key \in Keys
                      /\ f.use \in uses[f.key].does
                      /\ f.at \in UsePlaces(f.use)
                      /\ f.use \in {"clear", "clear_all"} => Counters = {}
                      /\ f.ttl \in uses[f.key].ttls
  /\ f.at \in SecondPlaces => f.key \in F /\ f.ttl # None
  /\ f.at \in {"a_window", "a_seconds"} => f.ttl # 0
  /\ f.at \in LifePlaces => f.ttl \notin {None, 0}
  /\ f.at \in TagPlaces \union FindPlaces \union MemberPlaces => f.tag \in Tags
GoodFrame(f) == GoodIn(f, fellBack)

\* No tag set holds a counter.
GoodSets(S) ==
  /\ S \in [Tags -> TagSet]
  /\ \A t \in Tags : S[t].members \intersect Counters = {}

\* The count of an entry, and whether it lies between the increments that were
\* answered and those that may have been executed.
CountOf(e) == IF e = None THEN 0 ELSE e.val

Counts(e, k) ==
  /\ e # None => e \in [val : Nat, exp : Nat \union {None}]
  /\ acked[k] \in Nat /\ unsure[k] \in Nat
  /\ acked[k] <= CountOf(e)
  /\ CountOf(e) <= acked[k] + unsure[k]

\* Such a counter always has a deadline.
Windowed(k) == {None, 0} \intersect uses[k].ttls = {} /\ k \notin fellBack

CounterInv ==
  /\ uses \in Workloads
  /\ now \in Nat
  /\ DOMAIN kv = Keys /\ DOMAIN acked = Keys /\ DOMAIN unsure = Keys
  /\ DOMAIN frame = Clients
  /\ GoodSets(sets)
  /\ \A c \in Clients : GoodFrame(frame[c])
  /\ \A k \in Counters : /\ Counts(kv[k], k)
                         /\ Windowed(k) /\ kv[k] # None => kv[k].exp # None
-----------------------------------------------------------------------------
\* A place tells the method.
LEMMA UseOfPlace ==
  ASSUME NEW m, NEW p \in UsePlaces(m)
  PROVE  /\ p \in CounterPlaces <=> m = "incr"
         /\ p \in ClearPlaces <=> m \in {"clear", "clear_all"}
         /\ p \in ScanPlaces <=> m = "clear"
         /\ p \in TagPlaces => m = "add_tags"
         /\ p \in LoopPlaces => m \in {"add_tags", "invalidate_tags"}
         /\ p \in FindPlaces \union MemberPlaces \union PublishPlaces => m = "invalidate_tags"
         /\ p \in KeyPlaces => UsePlaces(m) = KeyPlaces
         /\ p # "idle"
BY DEF UsePlaces, CounterPlaces, SecondPlaces, ClearPlaces, ScanPlaces, AllPlaces, EachPlaces, LoopPlaces,
       TagPlaces, LifePlaces, FindPlaces, MemberPlaces, PublishPlaces, KeyPlaces

\* The workload of every key is as the constants say.
LEMMA WorkloadType ==
  ASSUME CounterInv
  PROVE  /\ uses \in [Keys -> [does : SUBSET Methods, ttls : SUBSET (Nat \union {None})]]
         /\ \A k \in Keys : uses[k].does \subseteq Methods /\ uses[k].ttls \subseteq Nat \union {None}
<1>1. uses \in [Keys -> [does : SUBSET Methods, ttls : SUBSET (Nat \union {None})]]
  BY ServerAssumption DEF CounterInv
<1> QED BY <1>1

\* A call that is not an increment has a key that is no counter.
LEMMA ForeignKey ==
  ASSUME CounterInv, NEW c \in Clients, frame[c].at # "idle", frame[c].at \notin CounterPlaces
  PROVE  frame[c].key \in Keys \ Counters
BY UseOfPlace DEF CounterInv, GoodFrame, GoodIn, Counters

\* At a place of clear there are no counters.
LEMMA ClearIsForeign ==
  ASSUME CounterInv, NEW c \in Clients, frame[c].at \in ClearPlaces
  PROVE  Counters = {}
<1>1. frame[c].at # "idle"
  BY DEF ClearPlaces, ScanPlaces, AllPlaces, EachPlaces
<1> QED BY <1>1, UseOfPlace DEF CounterInv, GoodFrame, GoodIn

\* Entries in which no counter has another count than now, or loses its deadline.
KeepsCounts(K) ==
  /\ DOMAIN K = Keys
  /\ \A k \in Counters :
       \/ K[k] = kv[k]
       \/ kv[k] # None /\ K[k] \in [val : Nat, exp : Nat] /\ K[k].val = kv[k].val

\* An entry is not None.
LEMMA EntryIsSome ==
  ASSUME NEW e \in [val : Nat, exp : Nat \union {None}]
  PROVE  e # None
<1>1. e \in Entry BY DEF Entry
<1> QED BY <1>1, ServerAssumption

\* A step that changes no count, puts no counter under a tag, and lets c go on
\* with a good frame.
LEMMA ForeignStep ==
  ASSUME CounterInv, NEW c \in Clients, NEW f, GoodFrame(f), Goes(c, f),
         KeepsCounts(kv'), GoodSets(sets'), now' = now,
         UNCHANGED <<uses, acked, unsure, fellBack>>
  PROVE  CounterInv'
<1>1. Counters' = Counters
  BY DEF Counters
<1>2. ASSUME NEW d \in Clients PROVE GoodFrame(frame[d])'
  <2>1. CASE frame'[d] = f
    BY <1>1, <2>1 DEF GoodFrame, GoodIn, Frame
  <2>2. CASE frame'[d] = frame[d]
    <3>1. GoodFrame(frame[d]) BY DEF CounterInv
    <3> QED BY <1>1, <2>2, <3>1 DEF GoodFrame, GoodIn, Frame
  <2> QED BY <2>1, <2>2 DEF CounterInv, Goes
<1>3. DOMAIN frame' = Clients
  BY DEF CounterInv, Goes
<1>4. GoodSets(sets)'
  BY <1>1 DEF GoodSets, TagSet
<1>5. \A k \in Counters : /\ Counts(kv[k], k)'
                          /\ Windowed(k)' /\ kv'[k] # None => kv'[k].exp # None
  <2> SUFFICES ASSUME NEW k \in Counters
               PROVE  /\ Counts(kv[k], k)'
                      /\ Windowed(k)' /\ kv'[k] # None => kv'[k].exp # None
    OBVIOUS
  <2>1. Counts(kv[k], k) /\ (Windowed(k) /\ kv[k] # None => kv[k].exp # None)
    BY DEF CounterInv
  <2>2. CASE kv'[k] = kv[k]
    BY <2>1, <2>2 DEF Counts, CountOf, Windowed
  <2>3. CASE kv[k] # None /\ kv'[k] \in [val : Nat, exp : Nat] /\ kv'[k].val = kv[k].val
    <3>1. kv'[k] \in [val : Nat, exp : Nat \union {None}] /\ kv'[k].exp # None /\ kv'[k] # None
      BY <2>3, EntryIsSome, ServerAssumption
    <3> QED BY <2>1, <2>3, <3>1 DEF Counts, CountOf
  <2> QED BY <2>2, <2>3 DEF KeepsCounts
<1> QED BY <1>1, <1>2, <1>3, <1>4, <1>5 DEF CounterInv, KeepsCounts

\* A frame is as good after an error.
LEMMA UncleanIsGood ==
  ASSUME NEW f, GoodFrame(f)
  PROVE  GoodFrame([f EXCEPT !.clean = FALSE])
<1> DEFINE g == [f EXCEPT !.clean = FALSE]
<1>1. f \in Frame BY DEF GoodFrame, GoodIn
<1>2. /\ g \in Frame /\ g.at = f.at
      /\ g.found = f.found /\ g.key = f.key /\ g.use = f.use /\ g.ttl = f.ttl /\ g.tag = f.tag
  BY <1>1 DEF Frame
<1> SUFFICES GoodFrame(g) OBVIOUS
<1> HIDE DEF g
<1> QED BY <1>2 DEF GoodFrame, GoodIn

\* A command of that kind, answered or not.
LEMMA ForeignCommand ==
  ASSUME CounterInv, NEW c \in Clients, NEW K, NEW S, NEW ok, NEW err, Sends(c, K, S, ok, err),
         GoodFrame(ok), GoodFrame(err), KeepsCounts(K), GoodSets(S)
  PROVE  CounterInv'
<1>1. CASE Answered(c, K, S, ok)
  BY <1>1, ForeignStep DEF Sends, Answered
<1>2. CASE Fails(c, K, S, err)
  <2>1. GoodFrame([err EXCEPT !.clean = FALSE])
    BY UncleanIsGood
  <2>2. KeepsCounts(kv') /\ GoodSets(sets')
    <3>1. CASE kv' = K /\ sets' = S
      BY <3>1 DEF KeepsCounts, GoodSets
    <3>2. CASE UNCHANGED serverVars
      BY <3>2 DEF serverVars, KeepsCounts, CounterInv, GoodSets
    <3> QED BY <1>2, <3>1, <3>2 DEF Fails
  <2> QED BY <1>2, <2>1, <2>2, ForeignStep DEF Sends, Fails
<1> QED BY <1>1, <1>2 DEF Sends

\* The frame of c at another place.
LEMMA AtFrame ==
  ASSUME CounterInv, NEW c \in Clients, NEW place \in Places
  PROVE  /\ At(c, place) \in Frame
         /\ At(c, place).at = place
         /\ At(c, place).found = frame[c].found /\ At(c, place).key = frame[c].key
         /\ At(c, place).use = frame[c].use /\ At(c, place).ttl = frame[c].ttl
         /\ At(c, place).tag = frame[c].tag
<1>1. frame[c] \in Frame BY DEF CounterInv, GoodFrame, GoodIn
<1> QED BY <1>1 DEF At, Frame

\* A call that ends leaves a good frame.
LEMMA EndedIsGood ==
  ASSUME CounterInv, NEW c \in Clients
  PROVE  GoodFrame(Ended(c))
<1> DEFINE g == Ended(c)
<1>1. g \in Frame /\ g.at = "idle" /\ g.found = frame[c].found
  <2>1. "idle" \in Places BY DEF Places
  <2>2. frame[c] \in Frame BY DEF CounterInv, GoodFrame, GoodIn
  <2> QED BY <2>1, <2>2 DEF Ended, At, Frame
<1>2. frame[c].found \intersect Counters = {}
  BY DEF CounterInv, GoodFrame, GoodIn
<1> SUFFICES GoodFrame(g) OBVIOUS
<1> HIDE DEF g
<1> QED BY <1>1, <1>2 DEF GoodFrame, GoodIn, SecondPlaces, LifePlaces, TagPlaces, FindPlaces, MemberPlaces

\* How a call that is no increment moves from one place of its method to another.
MayMove(f, place) ==
  \/ f.at \in KeyPlaces /\ place \in KeyPlaces
  \/ f.at \in ScanPlaces /\ place \in ScanPlaces
  \/ f.at \in TagPlaces /\ place \in LoopPlaces
  \/ f.at \in TagPlaces /\ place \in LifePlaces /\ f.ttl \notin {None, 0}
  \/ f.at \in LoopPlaces /\ f.use # "add_tags" /\ place \in PublishPlaces
  \/ f.at \in FindPlaces /\ place \in MemberPlaces
  \/ f.at \in MemberPlaces /\ place \in LoopPlaces

\* So does a call that goes on at such a place.
LEMMA MovedIsGood ==
  ASSUME CounterInv, NEW c \in Clients, NEW place, MayMove(frame[c], place)
  PROVE  GoodFrame(At(c, place))
<1> DEFINE g == At(c, place)
<1>0. GoodFrame(frame[c]) /\ frame[c].at # "idle"
  BY DEF CounterInv, MayMove, ScanPlaces, AllPlaces, EachPlaces,
       LoopPlaces, TagPlaces, LifePlaces, FindPlaces, MemberPlaces, KeyPlaces
<1>2. frame[c].at \in UsePlaces(frame[c].use)
  BY <1>0 DEF GoodFrame, GoodIn
<1>3. /\ place \in UsePlaces(frame[c].use)
      /\ place \in Places /\ place # "idle" /\ place \notin CounterPlaces
  <2>1. place \in KeyPlaces \union ScanPlaces \union LoopPlaces \union LifePlaces \union PublishPlaces
                  \union MemberPlaces
    BY DEF MayMove
  <2>2. place \in Places /\ place # "idle" /\ place \notin CounterPlaces
    BY <2>1 DEF Places, CounterPlaces, SecondPlaces, ClearPlaces, ScanPlaces, AllPlaces, EachPlaces,
       LoopPlaces, TagPlaces, LifePlaces, FindPlaces, MemberPlaces, PublishPlaces, KeyPlaces
  <2>3. place \in UsePlaces(frame[c].use)
    <3>1. CASE frame[c].at \in KeyPlaces /\ place \in KeyPlaces
      BY <1>2, <3>1, UseOfPlace
    <3>2. CASE frame[c].at \in ScanPlaces /\ place \in ScanPlaces
      BY <1>2, <3>2, UseOfPlace DEF UsePlaces
    <3>3. CASE frame[c].at \in TagPlaces /\ place \in LoopPlaces \union LifePlaces
      BY <1>2, <3>3, UseOfPlace DEF UsePlaces, TagPlaces
    <3>4. CASE frame[c].at \in LoopPlaces /\ frame[c].use # "add_tags" /\ place \in PublishPlaces
      BY <1>2, <3>4, UseOfPlace DEF UsePlaces
    <3>5. CASE frame[c].at \in FindPlaces \union MemberPlaces /\ place \in MemberPlaces \union LoopPlaces
      BY <1>2, <3>5, UseOfPlace DEF UsePlaces
    <3> QED BY <3>1, <3>2, <3>3, <3>4, <3>5 DEF MayMove
  <2> QED BY <2>2, <2>3
<1>1. /\ g \in Frame /\ g.at = place
      /\ g.found = frame[c].found /\ g.key = frame[c].key /\ g.use = frame[c].use /\ g.ttl = frame[c].ttl /\ g.tag = frame[c].tag
  BY <1>3, AtFrame
<1>4. place \notin SecondPlaces /\ place \notin {"a_window", "a_seconds"}
  BY <1>3 DEF SecondPlaces, CounterPlaces
<1>5. place \in LifePlaces => frame[c].ttl \notin {None, 0}
  BY DEF MayMove, ScanPlaces, AllPlaces, EachPlaces, LoopPlaces, LifePlaces, MemberPlaces, PublishPlaces, KeyPlaces
<1>6. place \in TagPlaces \union FindPlaces \union MemberPlaces => frame[c].tag \in Tags
  BY <1>0 DEF MayMove, GoodFrame, GoodIn, ScanPlaces, AllPlaces, EachPlaces, LoopPlaces, LifePlaces, MemberPlaces,
         PublishPlaces, KeyPlaces, TagPlaces, FindPlaces
<1> SUFFICES GoodFrame(g) OBVIOUS
<1> HIDE DEF g
<1> QED BY <1>0, <1>1, <1>3, <1>4, <1>5, <1>6 DEF GoodFrame, GoodIn

\* The same frame with other names found.
LEMMA FoundIsGood ==
  ASSUME CounterInv, NEW f, GoodFrame(f), NEW N \in SUBSET Names, N \intersect Counters = {}
  PROVE  GoodFrame([f EXCEPT !.found = N])
<1> DEFINE g == [f EXCEPT !.found = N]
<1>1. f \in Frame BY DEF GoodFrame, GoodIn
<1>2. /\ g \in Frame /\ g.at = f.at
      /\ g.found = N /\ g.key = f.key /\ g.use = f.use /\ g.ttl = f.ttl /\ g.tag = f.tag
  BY <1>1 DEF Frame
<1> SUFFICES GoodFrame(g) OBVIOUS
<1> HIDE DEF g
<1> QED BY <1>2 DEF GoodFrame, GoodIn

\* Places that ask more of a call.
UnlikeCounter == {"idle"} \union LifePlaces \union TagPlaces \union FindPlaces \union MemberPlaces

LEMMA SecondPlacesAre ==
  ASSUME NEW place \in SecondPlaces
  PROVE  place \in Places /\ place \in CounterPlaces /\ place \notin UnlikeCounter
BY DEF Places, CounterPlaces, SecondPlaces, UnlikeCounter, LifePlaces, TagPlaces, FindPlaces, MemberPlaces

\* So are the later places of incr's second way.
LEMMA SecondIsGood ==
  ASSUME CounterInv, NEW c \in Clients, frame[c].at \in SecondPlaces,
         NEW place \in SecondPlaces,
         place \in {"a_window", "a_seconds"} => frame[c].ttl # 0
  PROVE  /\ GoodFrame(At(c, place))
         /\ \A b \in BOOLEAN : GoodFrame([At(c, place) EXCEPT !.existed = b])
<1>2. GoodFrame(frame[c]) /\ frame[c].at # "idle" /\ frame[c].at \in CounterPlaces
  BY DEF CounterInv, CounterPlaces, SecondPlaces
<1>1. place \in Places /\ place \in UsePlaces(frame[c].use) /\ place \notin UnlikeCounter
  <2>1. frame[c].use = "incr"
    BY <1>2, UseOfPlace DEF GoodFrame, GoodIn
  <2> QED BY <2>1, SecondPlacesAre DEF UsePlaces
<1>3. GoodFrame(At(c, place))
  <2> DEFINE g == At(c, place)
  <2>1. /\ g \in Frame /\ g.at = place
        /\ g.found = frame[c].found /\ g.key = frame[c].key /\ g.use = frame[c].use /\ g.ttl = frame[c].ttl /\ g.tag = frame[c].tag
    BY <1>1, AtFrame
  <2> SUFFICES GoodFrame(g) OBVIOUS
  <2> HIDE DEF g
  <2> QED BY <1>1, <1>2, <2>1 DEF GoodFrame, GoodIn, UnlikeCounter
<1>4. ASSUME NEW b \in BOOLEAN PROVE GoodFrame([At(c, place) EXCEPT !.existed = b])
  <2> DEFINE f == At(c, place)
             g == [f EXCEPT !.existed = b]
  <2>1. f \in Frame /\ GoodFrame(f)
    BY <1>3 DEF GoodFrame, GoodIn
  <2> HIDE DEF f
  <2>2. /\ g \in Frame /\ g.at = f.at
        /\ g.found = f.found /\ g.key = f.key /\ g.use = f.use /\ g.ttl = f.ttl /\ g.tag = f.tag
    BY <2>1 DEF Frame
  <2> SUFFICES GoodFrame(g) BY DEF f
  <2> HIDE DEF g
  <2> QED BY <2>1, <2>2 DEF GoodFrame, GoodIn
<1> QED BY <1>3, <1>4
-----------------------------------------------------------------------------
\* The commands on a key that is no counter, and those that change nothing.
LEMMA ForeignEntries ==
  ASSUME CounterInv
  PROVE  /\ KeepsCounts(kv)
         /\ \A k \in Keys \ Counters : /\ \A ttl : KeepsCounts(SetKey(k, ttl))
                                       /\ \A e : KeepsCounts(ExpireKey(k, e))
                                       /\ KeepsCounts(PersistKey(k))
         /\ \A N : N \intersect Counters = {} => KeepsCounts(DelKeys(N))
BY DEF CounterInv, KeepsCounts, SetKey, ExpireKey, PersistKey, DelKeys, Counters

\* The commands on tag sets.
LEMMA ForeignSets ==
  ASSUME CounterInv
  PROVE  /\ GoodSets(sets)
         /\ \A N : GoodSets(DelSets(N))
         /\ \A t : \A k \in Keys \ Counters : GoodSets(AddMember(t, k))
         /\ \A t : \A e \in Nat \union {None} : GoodSets(ExpireSet(t, e))
<1>1. GoodSets(sets) BY DEF CounterInv
<1>2. ASSUME NEW N PROVE GoodSets(DelSets(N))
  BY <1>1 DEF GoodSets, DelSets, TagSet, NoSet
<1>3. ASSUME NEW t, NEW k \in Keys \ Counters PROVE GoodSets(AddMember(t, k))
  BY <1>1, <1>3 DEF GoodSets, AddMember, TagSet
<1>4. ASSUME NEW t, NEW e \in Nat \union {None} PROVE GoodSets(ExpireSet(t, e))
  BY <1>1 DEF GoodSets, ExpireSet, TagSet
<1> QED BY <1>1, <1>2, <1>3, <1>4

\* A deadline is a time or none.
LEMMA DeadlineType ==
  ASSUME CounterInv, NEW c \in Clients
  PROVE  Deadline(frame[c].ttl) \in Nat \union {None}
<1>1. frame[c].ttl \in Nat \union {None} /\ now \in Nat
  BY DEF CounterInv, GoodFrame, GoodIn, Frame
<1> QED BY <1>1 DEF Deadline

\* The commands of add_tags, which also note what is owed.
LEMMA TagCommand ==
  ASSUME CounterInv, NEW c \in Clients, NEW S, NEW ok, NEW err,
         Answered(c, kv, S, ok) \/ Fails(c, kv, S, err), UNCHANGED <<acked, unsure, fellBack>>,
         GoodFrame(ok), GoodFrame(err), GoodSets(S)
  PROVE  CounterInv'
<1>1. KeepsCounts(kv) BY ForeignEntries
<1>2. CASE Answered(c, kv, S, ok)
  BY <1>1, <1>2, ForeignStep DEF Answered
<1>3. CASE Fails(c, kv, S, err)
  <2>1. GoodFrame([err EXCEPT !.clean = FALSE])
    BY UncleanIsGood
  <2>2. KeepsCounts(kv') /\ GoodSets(sets')
    BY <1>1, <1>3 DEF Fails, serverVars, KeepsCounts, CounterInv, GoodSets
  <2> QED BY <1>3, <2>1, <2>2, ForeignStep DEF Fails
<1> QED BY <1>2, <1>3

\* The loop over the tags, of both kinds of clients.
LEMMA NextTagStep ==
  ASSUME CounterInv, NEW c \in Clients, NEW loop \in {"next_tag", "a_next_tag"},
         NEW publish \in {"publish", "a_publish"}, NEW add \in {"sadd", "a_sadd"},
         NEW members \in {"smembers", "a_smembers"}, frame[c].at = loop,
         IF frame[c].tags = {}
         THEN Goes(c, IF frame[c].use = "add_tags" THEN Ended(c) ELSE At(c, publish))
         ELSE \E t \in frame[c].tags :
                Goes(c, [frame[c] EXCEPT !.at = IF frame[c].use = "add_tags" THEN add ELSE members,
                                         !.tag = t, !.tags = @ \ {t}]),
         UNCHANGED <<serverVars, now, uses, calls, faults, historyVars>>
  PROVE  CounterInv'
<1> USE DEF Places, CounterPlaces, SecondPlaces, ClearPlaces, ScanPlaces, AllPlaces, EachPlaces, LoopPlaces,
        TagPlaces, LifePlaces, FindPlaces, MemberPlaces, PublishPlaces, KeyPlaces
<1>1. KeepsCounts(kv') /\ GoodSets(sets') /\ UNCHANGED <<uses, acked, unsure, fellBack, now>>
  BY ForeignEntries DEF serverVars, historyVars, KeepsCounts, CounterInv, GoodSets
<1>2. CASE frame[c].tags = {}
  <2>1. frame[c].use # "add_tags" => GoodFrame(At(c, publish))
    BY MovedIsGood DEF MayMove
  <2>2. GoodFrame(Ended(c))
    BY EndedIsGood
  <2> QED BY <1>1, <1>2, <2>1, <2>2, ForeignStep
<1>3. CASE frame[c].tags # {}
  <2> DEFINE place == IF frame[c].use = "add_tags" THEN add ELSE members
             g(t) == [frame[c] EXCEPT !.at = place, !.tag = t, !.tags = @ \ {t}]
  <2>1. PICK t \in frame[c].tags : Goes(c, g(t))
    BY <1>3
  <2>2. GoodFrame(frame[c]) /\ frame[c] \in Frame /\ t \in Tags
    BY DEF CounterInv, GoodFrame, GoodIn, Frame
  <2>3. /\ place \in {"sadd", "a_sadd", "smembers", "a_smembers"}
        /\ place \in UsePlaces(frame[c].use)
    <3>1. frame[c].use \in {"add_tags", "invalidate_tags"}
      BY <2>2, UseOfPlace DEF GoodFrame, GoodIn
    <3> QED BY <3>1 DEF UsePlaces
  <2> HIDE DEF place
  <2>4. /\ g(t) \in Frame /\ g(t).at = place /\ g(t).tag = t
        /\ g(t).found = frame[c].found /\ g(t).key = frame[c].key
        /\ g(t).use = frame[c].use /\ g(t).ttl = frame[c].ttl
    BY <2>2, <2>3 DEF Frame
  <2> HIDE DEF g
  <2>5. GoodFrame(g(t))
    BY <2>2, <2>3, <2>4 DEF GoodFrame, GoodIn
  <2> QED BY <1>1, <2>1, <2>5, ForeignStep
<1> QED BY <1>2, <1>3
-----------------------------------------------------------------------------
(* RedisCache *)

\* Names that lie under the namespace, without the counters.
LEMMA FoundNames ==
  ASSUME CounterInv
  PROVE  /\ \A t : sets[t].members \intersect Counters = {} \/ t \notin Tags
         /\ \A t \in Tags : sets[t].members \subseteq Names
         /\ {k \in Keys : kv[k] # None} \union {t \in Tags : sets[t].members # {}} \subseteq Names
BY DEF CounterInv, GoodSets, TagSet, Names

\* Every step of a synchronous client that is no increment keeps the invariant.
LEMMA SyncForeign ==
  ASSUME CounterInv, NEW c \in Clients, SyncStep(c), ~Increments(c)
  PROVE  CounterInv'
<1> USE DEF Places, CounterPlaces, SecondPlaces, ClearPlaces, ScanPlaces, AllPlaces, EachPlaces, LoopPlaces,
        TagPlaces, LifePlaces, FindPlaces, MemberPlaces, PublishPlaces, KeyPlaces
<1>0. GoodFrame(Ended(c)) /\ KeepsCounts(kv) /\ GoodSets(sets)
  BY EndedIsGood, ForeignEntries, ForeignSets
<1>1. CASE Reads(c)
  <2>1. GoodFrame(At(c, "set"))
    BY <1>1, MovedIsGood DEF MayMove, Reads
  <2> QED BY <1>0, <1>1, <2>1, ForeignCommand DEF Reads
<1>2. CASE Stores(c)
  <2>1. KeepsCounts(SetKey(frame[c].key, frame[c].ttl))
    BY <1>2, ForeignKey, ForeignEntries DEF Stores
  <2> QED BY <1>0, <1>2, <2>1, ForeignCommand DEF Stores
<1>3. CASE Deletes(c)
  <2>1. KeepsCounts(DelKeys({frame[c].key}))
    BY <1>3, ForeignKey, ForeignEntries DEF Deletes
  <2> QED BY <1>0, <1>3, <2>1, ForeignCommand DEF Deletes
<1>4. CASE Expires(c)
  <2>1. KeepsCounts(ExpireKey(frame[c].key, Deadline(frame[c].ttl)))
    BY <1>4, ForeignKey, ForeignEntries DEF Expires
  <2> QED BY <1>0, <1>4, <2>1, ForeignCommand DEF Expires
<1>5. CASE Touches(c)
  BY <1>0, <1>5, ForeignCommand DEF Touches
<1>6. CASE Persists(c)
  <2>1. KeepsCounts(PersistKey(frame[c].key))
    BY <1>6, ForeignKey, ForeignEntries DEF Persists
  <2> QED BY <1>0, <1>6, <2>1, ForeignCommand DEF Persists
<1>7. CASE Flushes(c)
  <2>1. KeepsCounts(DelKeys(Keys)) /\ GoodSets(DelSets(Tags))
    BY <1>7, ClearIsForeign, ForeignEntries, ForeignSets DEF Flushes
  <2> QED BY <1>0, <1>7, <2>1, ForeignCommand DEF Flushes
<1>8. CASE Scans(c)
  <2>1. Counters = {} /\ GoodFrame(At(c, "del_all"))
    BY <1>8, ClearIsForeign, MovedIsGood DEF MayMove, Scans
  <2>2. GoodFrame([At(c, "del_all") EXCEPT !.found = Stored])
    BY <2>1, FoundNames, FoundIsGood DEF Stored
  <2> QED BY <1>0, <1>8, <2>2, ForeignCommand DEF Scans
<1>9. CASE DeletesAll(c)
  <2>1. Counters = {} /\ GoodFrame(At(c, "del_each"))
    BY <1>9, ClearIsForeign, MovedIsGood DEF MayMove, DeletesAll
  <2>2. KeepsCounts(DelKeys(frame[c].found)) /\ GoodSets(DelSets(frame[c].found))
    BY <2>1, ForeignEntries, ForeignSets
  <2> QED BY <1>0, <1>9, <2>1, <2>2, ForeignCommand DEF DeletesAll
<1>10. CASE DeletesEach(c)
  <2>1. PICK n \in frame[c].found :
          LET rest == frame[c].found \ {n}
              then == IF rest = {} THEN Ended(c) ELSE [frame[c] EXCEPT !.found = rest]
          IN Sends(c, DelKeys({n}), DelSets({n}), then, then)
    BY <1>10 DEF DeletesEach
  <2>2. Counters = {}
    BY <1>10, ClearIsForeign DEF DeletesEach
  <2>3. KeepsCounts(DelKeys({n})) /\ GoodSets(DelSets({n}))
    BY <2>2, ForeignEntries, ForeignSets
  <2>4. GoodFrame(frame[c]) /\ frame[c].found \subseteq Names
    BY DEF CounterInv, GoodFrame, GoodIn, Frame
  <2>5. GoodFrame([frame[c] EXCEPT !.found = frame[c].found \ {n}])
    BY <2>2, <2>4, FoundIsGood
  <2> QED BY <1>0, <2>1, <2>3, <2>5, ForeignCommand
<1>11. CASE FindsMembers(c)
  <2>1. GoodFrame(At(c, "del_member"))
    BY <1>11, MovedIsGood DEF MayMove, FindsMembers
  <2>2. frame[c].tag \in Tags
    BY <1>11 DEF FindsMembers, CounterInv, GoodFrame, GoodIn
  <2>3. /\ GoodFrame([At(c, "del_member") EXCEPT !.found = sets[frame[c].tag].members])
        /\ GoodFrame([At(c, "del_member") EXCEPT !.found = {}])
    BY <2>1, <2>2, FoundNames, FoundIsGood
  <2> QED BY <1>0, <1>11, <2>3, ForeignCommand DEF FindsMembers
<1>12. CASE DeletesMembers(c)
  <2>1. CASE frame[c].found = {}
    <3>1. GoodFrame(At(c, "next_tag"))
      BY <1>12, MovedIsGood DEF MayMove, DeletesMembers
    <3> QED BY <1>0, <1>12, <2>1, <3>1, ForeignCommand, ForeignSets DEF DeletesMembers
  <2>2. CASE frame[c].found # {}
    <3>1. PICK k \in frame[c].found :
            LET then == [frame[c] EXCEPT !.found = @ \ {k}]
            IN Sends(c, DelKeys({k}), sets, then, then)
      BY <1>12, <2>2 DEF DeletesMembers
    <3>2. /\ GoodFrame(frame[c]) /\ frame[c].found \subseteq Names
          /\ frame[c].found \intersect Counters = {}
      BY DEF CounterInv, GoodFrame, GoodIn, Frame
    <3>3. KeepsCounts(DelKeys({k}))
      BY <3>2, ForeignEntries
    <3>4. GoodFrame([frame[c] EXCEPT !.found = frame[c].found \ {k}])
      BY <3>2, FoundIsGood
    <3> QED BY <1>0, <3>1, <3>3, <3>4, ForeignCommand
  <2> QED BY <2>1, <2>2
<1>13. CASE AddsTag(c)
  <2>1. GoodFrame(At(c, "next_tag")) /\ (frame[c].ttl \notin {None, 0} => GoodFrame(At(c, "set_life")))
    BY <1>13, MovedIsGood DEF MayMove, AddsTag
  <2>2. GoodSets(AddMember(frame[c].tag, frame[c].key))
    BY <1>13, ForeignKey, ForeignSets DEF AddsTag
  <2> QED BY <1>0, <1>13, <2>1, <2>2, TagCommand DEF AddsTag
<1>14. CASE LimitsTag(c)
  <2>1. GoodFrame(At(c, "next_tag"))
    BY <1>14, MovedIsGood DEF MayMove, LimitsTag
  <2>2. GoodSets(ExpireSet(frame[c].tag, Deadline(frame[c].ttl)))
    BY ForeignSets, DeadlineType
  <2> QED BY <1>0, <1>14, <2>1, <2>2, TagCommand DEF LimitsTag
<1>15. CASE NextTag(c)
  BY <1>15, NextTagStep DEF NextTag
<1> QED
  BY <1>1, <1>2, <1>3, <1>4, <1>5, <1>6, <1>7, <1>8, <1>9, <1>10, <1>11, <1>12, <1>13,
     <1>14, <1>15 DEF SyncStep
-----------------------------------------------------------------------------
(* AsyncRedisCache *)

\* Every step of a coroutine that is no increment keeps the invariant; the
\* second way of incr looks first whether the counter exists, and may set its
\* deadline afterwards.
LEMMA AsyncForeign ==
  ASSUME CounterInv, NEW c \in Clients, AsyncStep(c), ~AwaitsIncrement(c), ~AwaitsIncrBy(c)
  PROVE  CounterInv'
<1> USE DEF Places, CounterPlaces, SecondPlaces, ClearPlaces, ScanPlaces, AllPlaces, EachPlaces, LoopPlaces,
        TagPlaces, LifePlaces, FindPlaces, MemberPlaces, PublishPlaces, KeyPlaces
<1>0. GoodFrame(Ended(c)) /\ KeepsCounts(kv) /\ GoodSets(sets)
  BY EndedIsGood, ForeignEntries, ForeignSets
<1>1. CASE AwaitsGet(c)
  <2>1. GoodFrame(At(c, "a_set"))
    BY <1>1, MovedIsGood DEF MayMove, AwaitsGet
  <2> QED BY <1>0, <1>1, <2>1, ForeignCommand DEF AwaitsGet
<1>2. CASE AwaitsSet(c)
  <2>1. KeepsCounts(SetKey(frame[c].key, frame[c].ttl))
    BY <1>2, ForeignKey, ForeignEntries DEF AwaitsSet
  <2> QED BY <1>0, <1>2, <2>1, ForeignCommand DEF AwaitsSet
<1>3. CASE AwaitsDelete(c)
  <2>1. KeepsCounts(DelKeys({frame[c].key}))
    BY <1>3, ForeignKey, ForeignEntries DEF AwaitsDelete
  <2> QED BY <1>0, <1>3, <2>1, ForeignCommand DEF AwaitsDelete
<1>4. CASE AwaitsExpire(c)
  <2>1. KeepsCounts(ExpireKey(frame[c].key, Deadline(frame[c].ttl)))
    BY <1>4, ForeignKey, ForeignEntries DEF AwaitsExpire
  <2> QED BY <1>0, <1>4, <2>1, ForeignCommand DEF AwaitsExpire
<1>5. CASE AwaitsTouch(c)
  <2>1. frame[c].at = "a_touch" => GoodFrame(At(c, "a_exists"))
    BY MovedIsGood DEF MayMove
  <2> QED BY <1>0, <1>5, <2>1, ForeignCommand DEF AwaitsTouch
<1>6. CASE AwaitsPersist(c)
  <2>1. KeepsCounts(PersistKey(frame[c].key)) /\ GoodFrame(At(c, "a_ttl"))
    BY <1>6, ForeignKey, ForeignEntries, MovedIsGood DEF MayMove, AwaitsPersist
  <2> QED BY <1>0, <1>6, <2>1, ForeignCommand DEF AwaitsPersist
<1>7. CASE AwaitsTtl(c)
  <2>1. GoodFrame(At(c, "a_pexpire"))
    BY <1>7, MovedIsGood DEF MayMove, AwaitsTtl
  <2> QED BY <1>0, <1>7, <2>1, ForeignCommand DEF AwaitsTtl
<1>8. CASE AwaitsEnd(c)
  <2>1. KeepsCounts(ExpireKey(frame[c].key, now))
    BY <1>8, ForeignKey, ForeignEntries DEF AwaitsEnd
  <2> QED BY <1>0, <1>8, <2>1, ForeignCommand DEF AwaitsEnd
<1>9. CASE AwaitsFlush(c)
  <2>1. KeepsCounts(DelKeys(Keys)) /\ GoodSets(DelSets(Tags))
    BY <1>9, ClearIsForeign, ForeignEntries, ForeignSets DEF AwaitsFlush
  <2> QED BY <1>0, <1>9, <2>1, ForeignCommand DEF AwaitsFlush
<1>10. CASE AwaitsScan(c)
  <2> DEFINE stored == {k \in Keys : kv[k] # None} \union {t \in Tags : sets[t].members # {}}
  <2>1. Counters = {} /\ GoodFrame(At(c, "a_del_all"))
    BY <1>10, ClearIsForeign, MovedIsGood DEF MayMove, AwaitsScan
  <2>2. GoodFrame([At(c, "a_del_all") EXCEPT !.found = stored])
    BY <2>1, FoundNames, FoundIsGood
  <2> QED BY <1>0, <1>10, <2>2, ForeignCommand DEF AwaitsScan
<1>11. CASE AwaitsDeleteAll(c)
  <2>1. Counters = {} /\ GoodFrame(At(c, "a_del_each"))
    BY <1>11, ClearIsForeign, MovedIsGood DEF MayMove, AwaitsDeleteAll
  <2>2. KeepsCounts(DelKeys(frame[c].found)) /\ GoodSets(DelSets(frame[c].found))
    BY <2>1, ForeignEntries, ForeignSets
  <2> QED BY <1>0, <1>11, <2>1, <2>2, ForeignCommand DEF AwaitsDeleteAll
<1>12. CASE AwaitsDeleteEach(c)
  <2>1. PICK n \in frame[c].found :
          LET rest == frame[c].found \ {n}
              then == IF rest = {} THEN Ended(c) ELSE [frame[c] EXCEPT !.found = rest]
          IN Sends(c, DelKeys({n}), DelSets({n}), then, then)
    BY <1>12 DEF AwaitsDeleteEach
  <2>2. Counters = {}
    BY <1>12, ClearIsForeign DEF AwaitsDeleteEach
  <2>3. KeepsCounts(DelKeys({n})) /\ GoodSets(DelSets({n}))
    BY <2>2, ForeignEntries, ForeignSets
  <2>4. GoodFrame(frame[c]) /\ frame[c].found \subseteq Names
    BY DEF CounterInv, GoodFrame, GoodIn, Frame
  <2>5. GoodFrame([frame[c] EXCEPT !.found = frame[c].found \ {n}])
    BY <2>2, <2>4, FoundIsGood
  <2> QED BY <1>0, <2>1, <2>3, <2>5, ForeignCommand
<1>13. CASE AwaitsExists(c)
  <2>1. GoodFrame([At(c, "a_incrby") EXCEPT !.existed = (kv[frame[c].key] # None)])
    BY <1>13, SecondIsGood DEF AwaitsExists
  <2> QED BY <1>0, <1>13, <2>1, ForeignCommand DEF AwaitsExists
<1>14. CASE AwaitsWindow(c)
  <2> DEFINE K == ExpireKey(frame[c].key, Deadline(frame[c].ttl))
  <2>1. frame[c].at \in {"a_window", "a_seconds"}
    BY <1>14 DEF AwaitsWindow
  <2>2. /\ frame[c].ttl \in Nat /\ frame[c].ttl # 0 /\ frame[c].key \in Keys
    BY <2>1 DEF CounterInv, GoodFrame, GoodIn, Frame
  <2>3. Deadline(frame[c].ttl) \in Nat /\ ~Over(Deadline(frame[c].ttl))
    BY <2>2, ServerAssumption DEF Deadline, Over, CounterInv
  <2>4. KeepsCounts(K)
    BY <2>2, <2>3 DEF ExpireKey, KeepsCounts, CounterInv, Counts
  <2>5. GoodFrame(At(c, "a_seconds"))
    BY <2>1, <2>2, SecondIsGood
  <2> HIDE DEF K
  <2> QED BY <1>0, <1>14, <2>4, <2>5, ForeignCommand DEF AwaitsWindow, K
<1>15. CASE AwaitsNextTag(c)
  BY <1>15, NextTagStep DEF AwaitsNextTag
<1>16. CASE AwaitsMembers(c)
  <2>1. GoodFrame(At(c, "a_del_member"))
    BY <1>16, MovedIsGood DEF MayMove, AwaitsMembers
  <2>2. frame[c].tag \in Tags
    BY <1>16 DEF AwaitsMembers, CounterInv, GoodFrame, GoodIn
  <2>3. /\ GoodFrame([At(c, "a_del_member") EXCEPT !.found = sets[frame[c].tag].members])
        /\ GoodFrame([At(c, "a_del_member") EXCEPT !.found = {}])
    BY <2>1, <2>2, FoundNames, FoundIsGood
  <2> QED BY <1>0, <1>16, <2>3, ForeignCommand DEF AwaitsMembers
<1>17. CASE AwaitsDeleteMembers(c)
  <2>1. CASE frame[c].found = {}
    <3>1. GoodFrame(At(c, "a_next_tag"))
      BY <1>17, MovedIsGood DEF MayMove, AwaitsDeleteMembers
    <3> QED BY <1>0, <1>17, <2>1, <3>1, ForeignCommand, ForeignSets DEF AwaitsDeleteMembers
  <2>2. CASE frame[c].found # {}
    <3>1. PICK k \in frame[c].found :
            LET then == [frame[c] EXCEPT !.found = @ \ {k}]
            IN Sends(c, DelKeys({k}), sets, then, then)
      BY <1>17, <2>2 DEF AwaitsDeleteMembers
    <3>2. /\ GoodFrame(frame[c]) /\ frame[c].found \subseteq Names
          /\ frame[c].found \intersect Counters = {}
      BY DEF CounterInv, GoodFrame, GoodIn, Frame
    <3>3. KeepsCounts(DelKeys({k}))
      BY <3>2, ForeignEntries
    <3>4. GoodFrame([frame[c] EXCEPT !.found = frame[c].found \ {k}])
      BY <3>2, FoundIsGood
    <3> QED BY <1>0, <3>1, <3>3, <3>4, ForeignCommand
  <2> QED BY <2>1, <2>2
<1>18. CASE AwaitsAddTag(c)
  <2>1. GoodFrame(At(c, "a_next_tag")) /\ (frame[c].ttl \notin {None, 0} => GoodFrame(At(c, "a_set_life")))
    BY <1>18, MovedIsGood DEF MayMove, AwaitsAddTag
  <2>2. /\ GoodSets(AddMember(frame[c].tag, frame[c].key))
        /\ GoodSets(ExpireSet(frame[c].tag, Deadline(frame[c].ttl)))
    BY <1>18, ForeignKey, ForeignSets, DeadlineType DEF AwaitsAddTag
  <2> QED BY <1>0, <1>18, <2>1, <2>2, TagCommand DEF AwaitsAddTag
<1> QED
  BY <1>1, <1>2, <1>3, <1>4, <1>5, <1>6, <1>7, <1>8, <1>9, <1>10, <1>11, <1>12, <1>13,
     <1>14, <1>15, <1>16, <1>17, <1>18 DEF AsyncStep
-----------------------------------------------------------------------------
(* Increments *)

\* Where an increment sends a call whose command failed.
GoodError(c, err) ==
  \/ GoodFrame(err)
  \/ err = At(c, "incr_exists") /\ frame[c].at = "a_incr" /\ frame[c].ttl # None

\* An increment of k that leaves K: counted if it is answered, perhaps if not.
CountsUp(k, K) ==
  /\ DOMAIN K = Keys
  /\ \A j \in Keys \ {k} : K[j] = kv[j]
  /\ k \in Counters => /\ K[k] \in [val : Nat, exp : Nat \union {None}]
                       /\ K[k].val = CountOf(kv[k]) + 1
                       /\ Windowed(k) => K[k].exp # None

\* The frame after an error, when the key has been noted in F.
LEMMA ErrorIsGood ==
  ASSUME CounterInv, NEW c \in Clients, NEW err, GoodError(c, err), NEW F,
         F = IF err.at = "incr_exists" THEN fellBack \union {frame[c].key} ELSE fellBack
  PROVE  GoodIn(err, F) /\ GoodIn([err EXCEPT !.clean = FALSE], F)
<1>1. CASE GoodFrame(err)
  <2>1. GoodFrame([err EXCEPT !.clean = FALSE])
    BY <1>1, UncleanIsGood
  <2> DEFINE h == [err EXCEPT !.clean = FALSE]
  <2> HIDE DEF h
  <2>2. GoodFrame(h) BY <2>1 DEF h
  <2>3. GoodIn(err, F) /\ GoodIn(h, F)
    BY <1>1, <2>2 DEF GoodFrame, GoodIn
  <2> QED BY <2>3 DEF h
<1>2. CASE err = At(c, "incr_exists") /\ frame[c].at = "a_incr" /\ frame[c].ttl # None
  <2> DEFINE g == At(c, "incr_exists")
             h == [g EXCEPT !.clean = FALSE]
  <2>1. /\ "incr_exists" \in SecondPlaces /\ "incr_exists" \in Places
        /\ "incr_exists" \in UsePlaces(frame[c].use) /\ "incr_exists" \notin UnlikeCounter
    <3>1. "incr_exists" \in SecondPlaces /\ "a_incr" \in CounterPlaces
      BY DEF SecondPlaces, CounterPlaces
    <3>2. frame[c].use = "incr"
      BY <1>2, <3>1, UseOfPlace DEF CounterInv, GoodFrame, GoodIn
    <3> QED BY <3>1, <3>2, SecondPlacesAre DEF UsePlaces
  <2>2. /\ g \in Frame /\ g.at = "incr_exists"
        /\ g.found = frame[c].found /\ g.key = frame[c].key
        /\ g.use = frame[c].use /\ g.ttl = frame[c].ttl /\ g.tag = frame[c].tag
    BY <2>1, AtFrame
  <2>3. GoodFrame(frame[c]) BY DEF CounterInv
  <2>4. frame[c].key \in F
    BY <1>2, <2>2
  <2> HIDE DEF g
  <2>5. /\ h \in Frame /\ h.at = g.at /\ h.found = g.found /\ h.key = g.key
        /\ h.use = g.use /\ h.ttl = g.ttl /\ h.tag = g.tag
    BY <2>2 DEF Frame
  <2> HIDE DEF h
  <2>6. ASSUME NEW f \in {g, h} PROVE GoodIn(f, F)
    <3>1. /\ f \in Frame /\ f.at = "incr_exists"
          /\ f.found = frame[c].found /\ f.key = frame[c].key
          /\ f.use = frame[c].use /\ f.ttl = frame[c].ttl
      BY <2>2, <2>5
    <3> QED BY <1>2, <2>1, <2>3, <2>4, <3>1 DEF GoodFrame, GoodIn, UnlikeCounter
  <2>7. GoodIn(g, F) /\ GoodIn(h, F) BY <2>6
  <2> QED BY <1>2, <2>7 DEF g, h
<1> QED BY <1>1, <1>2 DEF GoodError

\* An increment, answered, lost or refused, keeps the invariant.
LEMMA IncrementStep ==
  ASSUME CounterInv, NEW c \in Clients, NEW K, NEW ok, NEW err,
         frame[c].at # "idle",
         SendsIncrement(c, frame[c].key, K, ok, err), CountsUp(frame[c].key, K),
         GoodFrame(ok), ok.at # "incr_exists", GoodError(c, err)
  PROVE  CounterInv'
<1> DEFINE k == frame[c].key
<1>0. k \in Keys /\ c \in DOMAIN frame
  BY DEF CounterInv, GoodFrame, GoodIn
<1>1. /\ uses' = uses /\ now' = now /\ fellBack \subseteq fellBack'
      /\ sets' = sets /\ DOMAIN frame' = Clients
      /\ \A d \in Clients \ {c} : frame'[d] = frame[d]
  BY DEF SendsIncrement, Answered, Fails, Goes, serverVars, CounterInv
<1>2. Counters' = Counters BY <1>1 DEF Counters
<1>3. GoodIn(frame'[c], fellBack')
  <2>1. CASE frame'[c] = ok
    <3>1. GoodIn(ok, fellBack')
      BY <1>1 DEF GoodFrame, GoodIn
    <3> QED BY <2>1, <3>1
  <2>2. CASE frame'[c] = err
    <3>1. fellBack' = IF err.at = "incr_exists" THEN fellBack \union {frame[c].key} ELSE fellBack
      BY <2>2 DEF SendsIncrement
    <3> QED BY <2>2, <3>1, ErrorIsGood
  <2>3. CASE frame'[c] = [err EXCEPT !.clean = FALSE]
    <3>0. [err EXCEPT !.clean = FALSE].at = err.at
      <4>1. CASE GoodFrame(err)
        BY <4>1 DEF GoodFrame, GoodIn, Frame
      <4>2. CASE err = At(c, "incr_exists")
        <5>1. frame[c] \in Frame BY DEF CounterInv, GoodFrame, GoodIn
        <5> QED BY <4>2, <5>1 DEF At, Frame
      <4> QED BY <4>1, <4>2 DEF GoodError
    <3>1. fellBack' = IF err.at = "incr_exists" THEN fellBack \union {frame[c].key} ELSE fellBack
      BY <2>3, <3>0 DEF SendsIncrement
    <3> QED BY <2>3, <3>1, ErrorIsGood
  <2> QED BY <1>0, <2>1, <2>2, <2>3 DEF SendsIncrement, Answered, Fails, Goes
<1>4. ASSUME NEW d \in Clients PROVE GoodFrame(frame[d])'
  <2>1. GoodIn(frame'[d], fellBack')
    <3>1. CASE d # c
      <4>1. frame'[d] = frame[d] /\ GoodIn(frame[d], fellBack)
        BY <1>1, <3>1 DEF CounterInv, GoodFrame
      <4>2. GoodIn(frame[d], fellBack')
        BY <1>1, <4>1 DEF GoodIn
      <4> QED BY <4>1, <4>2
    <3> QED BY <1>3, <3>1
  <2> QED BY <1>1, <1>2, <2>1 DEF GoodFrame, GoodIn, Frame
<1>5. GoodSets(sets)' BY <1>1, <1>2 DEF CounterInv, GoodSets, TagSet
<1>6. /\ DOMAIN kv' = Keys /\ DOMAIN acked' = Keys /\ DOMAIN unsure' = Keys
  BY DEF SendsIncrement, Answered, Fails, serverVars, CounterInv, CountsUp
<1>7. ASSUME NEW j \in Counters
      PROVE  Counts(kv[j], j)' /\ (Windowed(j)' /\ kv'[j] # None => kv'[j].exp # None)
  <2>0. j \in Keys BY DEF Counters
  <2>1. Counts(kv[j], j) /\ (Windowed(j) /\ kv[j] # None => kv[j].exp # None)
    BY DEF CounterInv
  <2>2. Windowed(j)' => Windowed(j)
    BY <1>1 DEF Windowed
  <2>3. CASE j # k
    <3>1. kv'[j] = kv[j] /\ acked'[j] = acked[j] /\ unsure'[j] = unsure[j]
      BY <2>0, <2>3 DEF SendsIncrement, Answered, Fails, serverVars, CountsUp, CounterInv
    <3> QED BY <2>1, <2>2, <3>1 DEF Counts, CountOf
  <2>4. CASE j = k
    <3>1. /\ K[j] \in [val : Nat, exp : Nat \union {None}]
          /\ K[j].val = CountOf(kv[j]) + 1
          /\ Windowed(j) => K[j].exp # None
      BY <2>4 DEF CountsUp
    <3>2. K[j] # None /\ CountOf(kv[j]) \in Nat
      BY <2>1, <3>1, EntryIsSome DEF Counts, CountOf
    <3>3. \/ kv'[j] = K[j] /\ acked'[j] = acked[j] + 1 /\ unsure'[j] = unsure[j]
          \/ kv'[j] \in {K[j], kv[j]} /\ acked'[j] = acked[j] /\ unsure'[j] = unsure[j] + 1
          \/ kv'[j] = kv[j] /\ acked'[j] = acked[j] /\ unsure'[j] = unsure[j]
      BY <2>0, <2>4 DEF SendsIncrement, Answered, Fails, serverVars, CounterInv
    <3>4. CASE kv'[j] = K[j] /\ acked'[j] = acked[j] + 1 /\ unsure'[j] = unsure[j]
      BY <2>1, <2>2, <3>1, <3>2, <3>4 DEF Counts, CountOf
    <3>5. CASE kv'[j] = K[j] /\ acked'[j] = acked[j] /\ unsure'[j] = unsure[j] + 1
      BY <2>1, <2>2, <3>1, <3>2, <3>5 DEF Counts, CountOf
    <3>6. CASE kv'[j] = kv[j] /\ acked'[j] = acked[j] /\ unsure'[j] \in {unsure[j], unsure[j] + 1}
      BY <2>1, <2>2, <3>6 DEF Counts, CountOf
    <3> QED BY <3>3, <3>4, <3>5, <3>6
  <2> QED BY <2>3, <2>4
<1>8. uses' \in Workloads /\ now' \in Nat
  BY <1>1 DEF CounterInv
<1> QED BY <1>1, <1>2, <1>4, <1>5, <1>6, <1>7, <1>8 DEF CounterInv

\* A synchronous increment: INCRBY, or the script, which gives a new counter
\* its deadline.
LEMMA SyncIncrement ==
  ASSUME CounterInv, NEW c \in Clients, Increments(c)
  PROVE  CounterInv'
<1> DEFINE k == frame[c].key
           K == IncrWindow(k, frame[c].ttl)
<1>1. frame[c].at = "incr" /\ frame[c].at # "idle"
  BY DEF Increments
<1>2. k \in Keys /\ frame[c].ttl \in uses[k].ttls /\ frame[c].ttl \in Nat \union {None} /\ now \in Nat
  BY <1>1 DEF CounterInv, GoodFrame, GoodIn, Frame
<1>3. GoodFrame(Ended(c)) /\ Ended(c).at = "idle"
  <2>1. frame[c] \in Frame BY DEF CounterInv, GoodFrame, GoodIn
  <2> QED BY <2>1, EndedIsGood DEF Ended, At, Frame
<1>4. CountsUp(k, K)
  <2>1. DOMAIN kv = Keys BY DEF CounterInv
  <2>2. DOMAIN K = Keys /\ \A j \in Keys \ {k} : K[j] = kv[j]
    BY <1>2, <2>1 DEF IncrWindow, IncrKey
  <2>3. ASSUME k \in Counters
        PROVE  /\ K[k] \in [val : Nat, exp : Nat \union {None}]
               /\ K[k].val = CountOf(kv[k]) + 1
               /\ Windowed(k) => K[k].exp # None
    <3>1. CASE kv[k] = None
      <4>1. K[k] = [val |-> 1, exp |-> IF frame[c].ttl # 0 THEN Deadline(frame[c].ttl) ELSE None]
        BY <1>2, <2>1, <3>1 DEF IncrWindow, IncrKey
      <4>2. Deadline(frame[c].ttl) \in Nat \union {None}
        BY DeadlineType
      <4>3. Windowed(k) => frame[c].ttl # None /\ frame[c].ttl # 0
        BY <1>2 DEF Windowed
      <4>4. frame[c].ttl # None => Deadline(frame[c].ttl) # None
        BY <1>2, ServerAssumption DEF Deadline
      <4> QED BY <3>1, <4>1, <4>2, <4>3, <4>4 DEF CountOf
    <3>2. CASE kv[k] # None
      <4>1. /\ kv[k] \in [val : Nat, exp : Nat \union {None}]
            /\ Windowed(k) => kv[k].exp # None
        BY <2>3, <3>2 DEF CounterInv, Counts
      <4>2. K[k] = [val |-> kv[k].val + 1, exp |-> kv[k].exp]
        BY <1>2, <2>1, <3>2, <4>1 DEF IncrWindow, IncrKey
      <4> QED BY <3>2, <4>1, <4>2 DEF CountOf
    <3> QED BY <3>1, <3>2
  <2> QED BY <2>2, <2>3 DEF CountsUp
<1>5. SendsIncrement(c, k, K, Ended(c), Ended(c))
  BY DEF Increments
<1>6. GoodError(c, Ended(c)) /\ Ended(c).at # "incr_exists"
  BY <1>3 DEF GoodError
<1> HIDE DEF K
<1> QED BY <1>1, <1>3, <1>4, <1>5, <1>6, IncrementStep

\* An awaited increment: INCRBY or the script, which may fail into the second
\* way.
LEMMA AsyncIncrement ==
  ASSUME CounterInv, NEW c \in Clients, AwaitsIncrement(c)
  PROVE  CounterInv'
<1> DEFINE k == frame[c].key
           e == IF kv[k] = None /\ frame[c].ttl # 0 THEN Deadline(frame[c].ttl)
                ELSE IF kv[k] = None THEN None ELSE kv[k].exp
           K == [IncrKey(k) EXCEPT ![k].exp = e]
           err == IF frame[c].ttl = None THEN Ended(c) ELSE At(c, "incr_exists")
<1>1. frame[c].at = "a_incr" /\ frame[c].at # "idle"
  BY DEF AwaitsIncrement
<1>2. k \in Keys /\ frame[c].ttl \in uses[k].ttls /\ frame[c].ttl \in Nat \union {None} /\ now \in Nat
  BY <1>1 DEF CounterInv, GoodFrame, GoodIn, Frame
<1>3. GoodFrame(Ended(c)) /\ Ended(c).at = "idle"
  <2>1. frame[c] \in Frame BY DEF CounterInv, GoodFrame, GoodIn
  <2> QED BY <2>1, EndedIsGood DEF Ended, At, Frame
<1>4. CountsUp(k, K)
  <2>1. DOMAIN kv = Keys BY DEF CounterInv
  <2>2. DOMAIN K = Keys /\ \A j \in Keys \ {k} : K[j] = kv[j]
    BY <1>2, <2>1 DEF IncrKey
  <2>3. ASSUME k \in Counters
        PROVE  /\ K[k] \in [val : Nat, exp : Nat \union {None}]
               /\ K[k].val = CountOf(kv[k]) + 1
               /\ Windowed(k) => K[k].exp # None
    <3>1. CASE kv[k] = None
      <4>1. K[k] = [val |-> 1, exp |-> IF frame[c].ttl # 0 THEN Deadline(frame[c].ttl) ELSE None]
        BY <1>2, <2>1, <3>1 DEF IncrKey
      <4>2. Deadline(frame[c].ttl) \in Nat \union {None}
        BY DeadlineType
      <4>3. Windowed(k) => frame[c].ttl # None /\ frame[c].ttl # 0
        BY <1>2 DEF Windowed
      <4>4. frame[c].ttl # None => Deadline(frame[c].ttl) # None
        BY <1>2, ServerAssumption DEF Deadline
      <4> QED BY <3>1, <4>1, <4>2, <4>3, <4>4 DEF CountOf
    <3>2. CASE kv[k] # None
      <4>1. /\ kv[k] \in [val : Nat, exp : Nat \union {None}]
            /\ Windowed(k) => kv[k].exp # None
        BY <2>3, <3>2 DEF CounterInv, Counts
      <4>2. K[k] = [val |-> kv[k].val + 1, exp |-> kv[k].exp]
        BY <1>2, <2>1, <3>2, <4>1 DEF IncrKey
      <4> QED BY <3>2, <4>1, <4>2 DEF CountOf
    <3> QED BY <3>1, <3>2
  <2> QED BY <2>2, <2>3 DEF CountsUp
<1>5. SendsIncrement(c, k, K, Ended(c), err)
  BY DEF AwaitsIncrement
<1>6. GoodError(c, err) /\ Ended(c).at # "incr_exists"
  BY <1>1, <1>3 DEF GoodError
<1> HIDE DEF K, err
<1> QED BY <1>1, <1>3, <1>4, <1>5, <1>6, IncrementStep

\* The INCRBY of the second way: its key has been noted, so that it need not
\* have a deadline.
LEMMA AsyncIncrBy ==
  ASSUME CounterInv, NEW c \in Clients, AwaitsIncrBy(c)
  PROVE  CounterInv'
<1> DEFINE k == frame[c].key
           K == IncrKey(k)
           ok == IF frame[c].existed \/ frame[c].ttl = 0 THEN Ended(c) ELSE At(c, "a_window")
<1>1. frame[c].at = "a_incrby" /\ frame[c].at # "idle" /\ frame[c].at \in SecondPlaces
  BY DEF AwaitsIncrBy, SecondPlaces
<1>2. k \in Keys /\ k \in fellBack
  BY <1>1 DEF CounterInv, GoodFrame, GoodIn
<1>3. GoodFrame(Ended(c)) /\ Ended(c).at = "idle" /\ At(c, "a_window").at = "a_window"
  <2>1. frame[c] \in Frame BY DEF CounterInv, GoodFrame, GoodIn
  <2> QED BY <2>1, EndedIsGood DEF Ended, At, Frame
<1>4. CountsUp(k, K)
  <2>1. DOMAIN kv = Keys BY DEF CounterInv
  <2>2. DOMAIN K = Keys /\ \A j \in Keys \ {k} : K[j] = kv[j]
    BY <1>2, <2>1 DEF IncrKey
  <2>3. ~Windowed(k)
    BY <1>2 DEF Windowed
  <2>4. ASSUME k \in Counters
        PROVE  /\ K[k] \in [val : Nat, exp : Nat \union {None}]
               /\ K[k].val = CountOf(kv[k]) + 1
    <3>1. CASE kv[k] = None
      <4>1. K[k] = [val |-> 1, exp |-> None]
        BY <1>2, <2>1, <3>1 DEF IncrKey
      <4> QED BY <3>1, <4>1 DEF CountOf
    <3>2. CASE kv[k] # None
      <4>1. kv[k] \in [val : Nat, exp : Nat \union {None}]
        BY <2>4, <3>2 DEF CounterInv, Counts
      <4>2. K[k] = [val |-> kv[k].val + 1, exp |-> kv[k].exp]
        BY <1>2, <2>1, <3>2, <4>1 DEF IncrKey
      <4> QED BY <3>2, <4>1, <4>2 DEF CountOf
    <3> QED BY <3>1, <3>2
  <2> QED BY <2>2, <2>3, <2>4 DEF CountsUp
<1>5. SendsIncrement(c, k, K, ok, Ended(c))
  BY DEF AwaitsIncrBy
<1>6. GoodFrame(ok) /\ ok.at # "incr_exists" /\ GoodError(c, Ended(c))
  <2>1. frame[c].ttl # 0 => GoodFrame(At(c, "a_window"))
    BY <1>1, SecondIsGood DEF SecondPlaces
  <2> QED BY <1>3, <2>1 DEF GoodError
<1> HIDE DEF K, ok
<1> QED BY <1>1, <1>4, <1>5, <1>6, IncrementStep
-----------------------------------------------------------------------------
(* Calls, the channel and time *)

\* The last command of invalidate_tags changes no entry.
LEMMA PublishStep ==
  ASSUME CounterInv, NEW c \in Clients, Publishes(c) \/ AwaitsPublish(c)
  PROVE  CounterInv'
<1>1. Sends(c, kv, sets, Ended(c), Ended(c))
  BY DEF Publishes, AwaitsPublish
<1> QED BY <1>1, EndedIsGood, ForeignEntries, ForeignSets, ForeignCommand

\* A call that ends midway leaves what it did.
LEMMA DeathStep ==
  ASSUME CounterInv, NEW c \in Clients, Dies(c)
  PROVE  CounterInv'
<1>1. GoodFrame([Ended(c) EXCEPT !.clean = FALSE])
  BY EndedIsGood, UncleanIsGood
<1>2. KeepsCounts(kv') /\ GoodSets(sets')
  BY DEF Dies, serverVars, KeepsCounts, CounterInv, GoodSets
<1> QED BY <1>1, <1>2, ForeignStep DEF Dies

\* A call begins: incr at a counter place, a clear only where every key is
\* cleared, so that there is no counter.
LEMMA InvokeStep ==
  ASSUME CounterInv, NEW c \in Clients, Invokes(c)
  PROVE  CounterInv'
<1>1. PICK k \in Keys : \E m \in uses[k].does, T \in SUBSET Tags, ttl \in uses[k].ttls :
        Invoke(c, m, k, T, ttl, IF c \in SyncClients THEN SyncStart(m) ELSE AsyncStart(m, ttl))
  BY DEF Invokes
<1>2. PICK m \in uses[k].does, T \in SUBSET Tags, ttl \in uses[k].ttls :
        Invoke(c, m, k, T, ttl, IF c \in SyncClients THEN SyncStart(m) ELSE AsyncStart(m, ttl))
  BY <1>1
<1> DEFINE place == IF c \in SyncClients THEN SyncStart(m) ELSE AsyncStart(m, ttl)
           g == [NoCall EXCEPT !.at = place, !.use = m, !.key = k, !.tags = T, !.ttl = ttl]
<1>3. m \in Methods /\ ttl \in Nat \union {None}
  BY WorkloadType
<1>4. /\ place \in Places \ (SecondPlaces \union UnlikeCounter)
      /\ place \in UsePlaces(m)
  BY <1>3 DEF SyncStart, AsyncStart, Methods, UsePlaces, UnlikeCounter, Places, CounterPlaces, SecondPlaces,
       ClearPlaces, ScanPlaces, AllPlaces, EachPlaces, LoopPlaces, TagPlaces, LifePlaces, FindPlaces,
       MemberPlaces, PublishPlaces, KeyPlaces
<1> HIDE DEF place
<1>5. /\ g \in Frame /\ g.at = place /\ g.found = {} /\ g.key = k /\ g.use = m /\ g.ttl = ttl
  BY <1>3, <1>4 DEF NoCall, Frame
<1>6. Invoke(c, m, k, T, ttl, place)
  BY <1>2 DEF place
<1>7. m \in {"clear", "clear_all"} => Counters = {}
  BY <1>6 DEF Invoke, Use, Counters
<1>8. Goes(c, g)
  BY <1>6 DEF Invoke
<1> HIDE DEF g
<1>9. GoodFrame(g)
  BY <1>4, <1>5, <1>7 DEF GoodFrame, GoodIn, SecondPlaces, UnlikeCounter
<1>10. KeepsCounts(kv') /\ GoodSets(sets') /\ UNCHANGED <<uses, acked, unsure, fellBack, now>>
  BY <1>6 DEF Invoke, serverVars, KeepsCounts, CounterInv, GoodSets
<1> QED BY <1>8, <1>9, <1>10, ForeignStep

\* What concerns only subscribers.
LEMMA OtherStep ==
  ASSUME CounterInv, UNCHANGED clientVars
  PROVE  CounterInv'
<1>1. /\ kv' = kv /\ sets' = sets /\ now' = now /\ frame' = frame /\ uses' = uses
      /\ acked' = acked /\ unsure' = unsure /\ fellBack' = fellBack
  BY DEF clientVars, serverVars, historyVars
<1>2. Counters' = Counters BY <1>1 DEF Counters
<1>3. \A c \in Clients : GoodFrame(frame[c])'
  BY <1>1, <1>2 DEF CounterInv, GoodFrame, GoodIn, Frame
<1>4. GoodSets(sets)'
  BY <1>1, <1>2 DEF CounterInv, GoodSets, TagSet
<1>5. \A k \in Counters : /\ Counts(kv[k], k)'
                          /\ Windowed(k)' /\ kv'[k] # None => kv'[k].exp # None
  BY <1>1 DEF CounterInv, Counts, CountOf, Windowed
<1> QED BY <1>1, <1>2, <1>3, <1>4, <1>5 DEF CounterInv

\* A counter whose window ends is gone, and its history with it.
LEMMA TickStep ==
  ASSUME CounterInv, Tick
  PROVE  CounterInv'
<1> DEFINE Gone(e) == e # None /\ e <= now + 1
           dead    == {k \in Keys : IF kv[k] = None THEN FALSE ELSE Gone(kv[k].exp)}
           fading  == {t \in Tags : Gone(sets[t].exp)}
<1>1. /\ now' = now + 1 /\ kv' = DelKeys(dead) /\ sets' = DelSets(fading)
      /\ acked' = [k \in Keys |-> IF k \in dead THEN 0 ELSE acked[k]]
      /\ unsure' = [k \in Keys |-> IF k \in dead THEN 0 ELSE unsure[k]]
      /\ frame' = frame /\ uses' = uses /\ fellBack' = fellBack
  BY DEF Tick
<1> HIDE DEF dead, fading
<1>2. Counters' = Counters BY <1>1 DEF Counters
<1>3. \A c \in Clients : GoodFrame(frame[c])'
  BY <1>1, <1>2 DEF CounterInv, GoodFrame, GoodIn, Frame
<1>4. GoodSets(sets)'
  <2>1. GoodSets(DelSets(fading)) BY ForeignSets
  <2> QED BY <1>1, <1>2, <2>1 DEF GoodSets, TagSet
<1>5. ASSUME NEW k \in Counters
      PROVE  Counts(kv[k], k)' /\ (Windowed(k)' /\ kv'[k] # None => kv'[k].exp # None)
  <2>1. k \in Keys /\ Counts(kv[k], k) /\ (Windowed(k) /\ kv[k] # None => kv[k].exp # None)
    BY DEF CounterInv, Counters
  <2>2. CASE k \in dead
    <3>1. kv'[k] = None /\ acked'[k] = 0 /\ unsure'[k] = 0
      BY <1>1, <2>1, <2>2 DEF DelKeys
    <3> QED BY <3>1 DEF Counts, CountOf
  <2>3. CASE k \notin dead
    <3>1. kv'[k] = kv[k] /\ acked'[k] = acked[k] /\ unsure'[k] = unsure[k]
      BY <1>1, <2>1, <2>3 DEF DelKeys
    <3> QED BY <1>1, <2>1, <3>1 DEF Counts, CountOf, Windowed
  <2> QED BY <2>2, <2>3
<1>6. DOMAIN kv' = Keys /\ DOMAIN acked' = Keys /\ DOMAIN unsure' = Keys
  BY <1>1 DEF DelKeys
<1> QED BY <1>1, <1>2, <1>3, <1>4, <1>5, <1>6 DEF CounterInv
-----------------------------------------------------------------------------
(* Counters: the theorems *)

\* At first there are no entries and no calls.
LEMMA CounterInit == Init => CounterInv
<1> SUFFICES ASSUME Init PROVE CounterInv OBVIOUS
<1>1. /\ uses \in Workloads /\ now = 0 /\ kv = [k \in Keys |-> None]
      /\ acked = [k \in Keys |-> 0] /\ unsure = [k \in Keys |-> 0]
      /\ frame = [c \in Clients |-> NoCall] /\ sets = [t \in Tags |-> NoSet]
  BY DEF Init, ServerInit
<1>2. GoodSets(sets)
  BY <1>1 DEF GoodSets, TagSet, NoSet
<1>3. GoodFrame(NoCall)
  <2>1. /\ "idle" \in Places /\ "idle" \notin SecondPlaces \union {"a_window", "a_seconds"}
        /\ "idle" \notin LifePlaces \union TagPlaces \union FindPlaces \union MemberPlaces
    BY DEF Places, SecondPlaces, LifePlaces, TagPlaces, FindPlaces, MemberPlaces
  <2>2. NoCall \in Frame
    BY <2>1 DEF NoCall, Frame
  <2> QED BY <2>1, <2>2 DEF GoodFrame, GoodIn, NoCall
<1>4. ASSUME NEW k \in Counters
      PROVE Counts(kv[k], k) /\ (Windowed(k) /\ kv[k] # None => kv[k].exp # None)
  BY <1>1 DEF Counts, CountOf, Counters
<1> QED BY <1>1, <1>2, <1>3, <1>4 DEF CounterInv

\* One step of any client, subscriber or of time keeps the invariant.
LEMMA CounterStep == CounterInv /\ [Next]_vars => CounterInv'
<1> SUFFICES ASSUME CounterInv, [Next]_vars PROVE CounterInv' OBVIOUS
<1>1. ASSUME NEW c \in SyncClients, SyncStep(c) PROVE CounterInv'
  BY <1>1, ClientsAssumption, SyncForeign, SyncIncrement
<1>2. ASSUME NEW c \in AsyncClients, AsyncStep(c) PROVE CounterInv'
  BY <1>2, ClientsAssumption, AsyncForeign, AsyncIncrement, AsyncIncrBy
<1>3. ASSUME NEW c \in Clients, Publishes(c) \/ AwaitsPublish(c) PROVE CounterInv'
  BY <1>3, PublishStep
<1>4. ASSUME NEW c \in Clients, Dies(c) \/ Invokes(c) PROVE CounterInv'
  BY <1>4, DeathStep, InvokeStep
<1>5. ASSUME NEW s \in Subscribers, Subscribes(s) \/ TakesMessage(s) \/ HandlerEnds(s) \/ Stops(s)
      PROVE CounterInv'
  <2>1. UNCHANGED clientVars
    BY <1>5 DEF Subscribes, TakesMessage, HandlerEnds, Stops
  <2> QED BY <2>1, OtherStep
<1>6. CASE Disturbs
  BY <1>6, OtherStep DEF Disturbs
<1>7. CASE Tick
  BY <1>7, TickStep
<1>8. CASE UNCHANGED vars
  <2>1. UNCHANGED clientVars BY <1>8 DEF vars, clientVars
  <2> QED BY <2>1, OtherStep
<1> QED BY <1>1, <1>2, <1>3, <1>4, <1>5, <1>6, <1>7, <1>8 DEF Next, AllDone

\* So the invariant always holds: what counters hold, what calls are at, what
\* tag sets contain.
THEOREM CounterAlways == Spec => []CounterInv
BY CounterInit, CounterStep, PTL DEF Spec

\* Whatever clients share a counter, crash, lose requests or replies, it holds
\* each answered increment exactly once, and at most one more for each that
\* failed.
THEOREM IncrementsAddUp == Spec => []CountersAddUp
<1>1. CounterInv => CountersAddUp
  BY DEF CounterInv, CountersAddUp, Counters, Counts, CountOf
<1> QED BY <1>1, CounterAlways, PTL

\* A counter with a window keeps a deadline, unless an async incr has tried its
\* commands one by one.
THEOREM WindowsEnd == Spec => []WindowHasEnd
<1>1. CounterInv => WindowHasEnd
  BY DEF CounterInv, WindowHasEnd, Counters, Windowed
<1> QED BY <1>1, CounterAlways, PTL
-----------------------------------------------------------------------------
(* What a step of a client does to the tag sets, whichever cache it uses *)

\* A command that is answered or fails.
Command(c, K, S, ok, err) == Answered(c, K, S, ok) \/ Fails(c, K, S, err)

Entries == [Keys -> Entry \union {None}]

\* The tag sets there can be.
SetsType(S) == S \in [Tags -> TagSet] /\ \A t \in Tags : S[t].members = {} => S[t] = NoSet

\* A command on one key, which leaves the tag sets alone.
KeyCommand(c) ==
  /\ frame[c].at \in KeyPlaces \union CounterPlaces
  /\ \E K \in Entries : \E ok, err : /\ Command(c, K, sets, ok, err)
                                     /\ ok.use = frame[c].use /\ err.use = frame[c].use
  /\ acked' \in [Keys -> Nat] /\ unsure' \in [Keys -> Nat] /\ fellBack' \subseteq Keys /\ UNCHANGED owed

FlushCommand(c) ==
  /\ frame[c].at \in {"flush", "a_flush"}
  /\ Sends(c, DelKeys(Keys), DelSets(Tags), Ended(c), Ended(c))

ScanCommand(c) ==
  /\ frame[c].at \in {"scan", "a_scan"}
  /\ \E place \in AllPlaces :
       Sends(c, kv, sets, IF Stored = {} THEN Ended(c) ELSE [At(c, place) EXCEPT !.found = Stored], Ended(c))

AllCommand(c) ==
  /\ frame[c].at \in AllPlaces
  /\ \E place \in EachPlaces :
       Sends(c, DelKeys(frame[c].found), DelSets(frame[c].found), Ended(c), At(c, place))

EachCommand(c) ==
  /\ frame[c].at \in EachPlaces
  /\ \E n \in frame[c].found :
       LET rest == frame[c].found \ {n}
           then == IF rest = {} THEN Ended(c) ELSE [frame[c] EXCEPT !.found = rest]
       IN Sends(c, DelKeys({n}), DelSets({n}), then, then)

\* The loop over the tags.
LoopStep(c) ==
  /\ frame[c].at \in LoopPlaces
  /\ IF frame[c].tags = {}
     THEN \E place \in {"idle"} \union PublishPlaces : Goes(c, At(c, place))
     ELSE \E t \in frame[c].tags, place \in FindPlaces \union TagPlaces :
            /\ place \in FindPlaces <=> frame[c].use # "add_tags"
            /\ Goes(c, [frame[c] EXCEPT !.at = place, !.tag = t, !.tags = @ \ {t}])
  /\ UNCHANGED <<serverVars, now, uses, calls, faults, historyVars>>

FindCommand(c) ==
  /\ frame[c].at \in FindPlaces
  /\ \E place \in MemberPlaces :
       Sends(c, kv, sets, [At(c, place) EXCEPT !.found = sets[frame[c].tag].members],
                          [At(c, place) EXCEPT !.found = {}])

MemberCommand(c) ==
  /\ frame[c].at \in MemberPlaces
  /\ IF frame[c].found = {}
     THEN \E place \in LoopPlaces : Sends(c, kv, DelSets({frame[c].tag}), At(c, place), At(c, place))
     ELSE \E k \in frame[c].found :
            LET then == [frame[c] EXCEPT !.found = @ \ {k}]
            IN Sends(c, DelKeys({k}), sets, then, then)

\* SADD, after which a tag without a life is owed.
AddCommand(c) ==
  LET f == frame[c]
      S == AddMember(f.tag, f.key)
  IN
  /\ f.at \in TagPlaces \ LifePlaces
  /\ \E loop \in LoopPlaces, life \in LifePlaces :
       \/ /\ Answered(c, kv, S, At(c, IF f.ttl \in {None, 0} THEN loop ELSE life))
          /\ owed' = IF f.ttl \notin {None, 0} \/ \E d \in Clients : Deleting(d) THEN owed
                     ELSE owed \union {<<f.tag, f.key, None>>}
       \/ Fails(c, kv, S, At(c, loop)) /\ UNCHANGED owed
  /\ UNCHANGED <<acked, unsure, fellBack>>

\* EXPIRE of a tag set, after which the tag is owed as long as that.
LifeCommand(c) ==
  LET f == frame[c]
      S == ExpireSet(f.tag, Deadline(f.ttl))
  IN
  /\ f.at \in LifePlaces
  /\ \E loop \in LoopPlaces :
       \/ /\ Answered(c, kv, S, At(c, loop))
          /\ owed' = IF f.key \notin S[f.tag].members \/ \E d \in Clients : Deleting(d) THEN owed
                     ELSE owed \union {<<f.tag, f.key, Deadline(f.ttl)>>}
       \/ Fails(c, kv, S, At(c, loop)) /\ UNCHANGED owed
  /\ UNCHANGED <<acked, unsure, fellBack>>

PublishCommand(c) ==
  /\ frame[c].at \in PublishPlaces
  /\ Sends(c, kv, sets, Ended(c), Ended(c))

ClientStep(c) ==
  \/ KeyCommand(c) \/ FlushCommand(c) \/ ScanCommand(c) \/ AllCommand(c) \/ EachCommand(c)
  \/ LoopStep(c) \/ FindCommand(c) \/ MemberCommand(c) \/ AddCommand(c) \/ LifeCommand(c)
-----------------------------------------------------------------------------
\* The commands on an entry leave entries.
LEMMA EntriesStay ==
  ASSUME CounterInv, ServerTypeOK
  PROVE  /\ kv \in Entries
         /\ \A k \in Keys : /\ \A ttl \in Nat \union {None} : SetKey(k, ttl) \in Entries
                            /\ \A e \in Nat \union {None} : ExpireKey(k, e) \in Entries
                            /\ PersistKey(k) \in Entries
         /\ \A N : DelKeys(N) \in Entries
<1>0. kv \in Entries /\ now \in Nat
  BY DEF ServerTypeOK, Entries, CounterInv
<1>1. ASSUME NEW k \in Keys, NEW ttl \in Nat \union {None} PROVE SetKey(k, ttl) \in Entries
  <2>1. Deadline(ttl) \in Nat \union {None}
    BY <1>0, <1>1 DEF Deadline
  <2> QED BY <1>0, <2>1 DEF SetKey, Entries, Entry
<1>2. ASSUME NEW k \in Keys, NEW e \in Nat \union {None} PROVE ExpireKey(k, e) \in Entries
  BY <1>0, <1>2 DEF ExpireKey, Entries, Entry
<1>3. ASSUME NEW k \in Keys PROVE PersistKey(k) \in Entries
  BY <1>0, <1>3 DEF PersistKey, Entries, Entry
<1>4. ASSUME NEW N PROVE DelKeys(N) \in Entries
  BY <1>0 DEF DelKeys, Entries
<1> QED BY <1>0, <1>1, <1>2, <1>3, <1>4

\* INCRBY of what is an integer, with any deadline.
LEMMA IncrementedEntry ==
  ASSUME CounterInv, ServerTypeOK, NEW k \in Keys, ~NoInteger(k)
  PROVE  /\ IncrKey(k) \in Entries
         /\ \A e \in Nat \union {None} : [IncrKey(k) EXCEPT ![k].exp = e] \in Entries
<1>0. kv \in Entries
  BY EntriesStay
<1>1. CASE kv[k] = None
  BY <1>0, <1>1 DEF IncrKey, Entries, Entry
<1>2. CASE kv[k] # None
  <2>1. kv[k] \in Entry /\ kv[k].val \in Nat
    BY <1>0, <1>2 DEF NoInteger, Entries, Entry
  <2> QED BY <1>0, <1>2, <2>1 DEF IncrKey, Entries, Entry
<1> QED BY <1>1, <1>2

\* An increment is a command on one key.
LEMMA IncrementCommand ==
  ASSUME CounterInv, ServerTypeOK, NEW c \in Clients, NEW K, NEW ok, NEW err,
         frame[c].at \in CounterPlaces,
         SendsIncrement(c, frame[c].key, K, ok, err), ~NoInteger(frame[c].key) => K \in Entries,
         ok.use = frame[c].use, err.use = frame[c].use
  PROVE  KeyCommand(c)
<1>1. frame[c].key \in Keys
  BY DEF CounterInv, GoodFrame, GoodIn, CounterPlaces, SecondPlaces
<1>2. kv \in Entries /\ acked \in [Keys -> Nat] /\ unsure \in [Keys -> Nat] /\ fellBack \subseteq Keys
  BY DEF ServerTypeOK, Entries
<1>3. acked' \in [Keys -> Nat] /\ unsure' \in [Keys -> Nat] /\ fellBack' \subseteq Keys /\ UNCHANGED owed
  BY <1>1, <1>2 DEF SendsIncrement
<1>4. CASE NoInteger(frame[c].key)
  BY <1>2, <1>3, <1>4 DEF SendsIncrement, KeyCommand, Command
<1>5. CASE ~NoInteger(frame[c].key)
  BY <1>3, <1>5 DEF SendsIncrement, KeyCommand, Command
<1> QED BY <1>4, <1>5

\* So is any other command on the key of the call.
LEMMA EntryCommand ==
  ASSUME CounterInv, ServerTypeOK, NEW c \in Clients, NEW K \in Entries, NEW ok, NEW err,
         frame[c].at \in KeyPlaces \union CounterPlaces,
         Sends(c, K, sets, ok, err),
         ok.use = frame[c].use, err.use = frame[c].use
  PROVE  KeyCommand(c)
BY DEF KeyCommand, Sends, Command, ServerTypeOK

\* A frame at another place is one of the same method.
LEMMA SameUse ==
  ASSUME CounterInv, NEW c \in Clients
  PROVE  /\ Ended(c).use = frame[c].use
         /\ \A place : At(c, place).use = frame[c].use
<1>1. frame[c] \in Frame BY DEF CounterInv, GoodFrame, GoodIn
<1> QED BY <1>1 DEF Ended, At, Frame

\* A key and a ttl of a call under way.
LEMMA CallArguments ==
  ASSUME CounterInv, NEW c \in Clients, frame[c].at # "idle"
  PROVE  /\ frame[c].key \in Keys /\ frame[c].ttl \in Nat \union {None}
         /\ frame[c].use \in uses[frame[c].key].does /\ frame[c].use \in Methods
         /\ frame[c].ttl \in uses[frame[c].key].ttls
         /\ Deadline(frame[c].ttl) \in Nat \union {None} /\ now \in Nat
<1>1. /\ frame[c].key \in Keys /\ frame[c].ttl \in Nat \union {None} /\ now \in Nat
      /\ frame[c].use \in uses[frame[c].key].does /\ frame[c].ttl \in uses[frame[c].key].ttls
  BY DEF CounterInv, GoodFrame, GoodIn, Frame
<1> QED BY <1>1, WorkloadType DEF Deadline

\* Every step of a synchronous client is one of these.
LEMMA SyncSteps ==
  ASSUME CounterInv, ServerTypeOK, NEW c \in SyncClients, SyncStep(c)
  PROVE  ClientStep(c)
<1>0. c \in Clients
  BY ClientsAssumption
<1>1. CASE Reads(c) \/ Stores(c) \/ Deletes(c) \/ Expires(c) \/ Touches(c) \/ Persists(c)
  <2>1. frame[c].at \in KeyPlaces /\ frame[c].at # "idle"
    BY <1>1 DEF Reads, Stores, Deletes, Expires, Touches, Persists, KeyPlaces
  <2>2. \E K \in Entries : \E ok, err : Sends(c, K, sets, ok, err) /\ ok.use = frame[c].use /\ err.use = frame[c].use
    BY <1>0, <1>1, <2>1, CallArguments, EntriesStay, SameUse DEF Reads, Stores, Deletes, Expires, Touches, Persists
  <2> QED BY <1>0, <2>1, <2>2, EntryCommand DEF ClientStep
<1>2. CASE Increments(c)
  <2> DEFINE k == frame[c].key
             e == IF kv[k] = None /\ frame[c].ttl # 0 THEN Deadline(frame[c].ttl) ELSE IncrKey(k)[k].exp
  <2>1. frame[c].at \in CounterPlaces /\ frame[c].at # "idle"
    BY <1>2 DEF Increments, CounterPlaces
  <2>2. k \in Keys /\ Deadline(frame[c].ttl) \in Nat \union {None}
    BY <1>0, <2>1, CallArguments
  <2>3. ~NoInteger(k) => IncrWindow(k, frame[c].ttl) \in Entries
    <3> SUFFICES ASSUME ~NoInteger(k) PROVE IncrWindow(k, frame[c].ttl) \in Entries
      OBVIOUS
    <3>1. IncrKey(k) \in Entries
      BY <2>2, IncrementedEntry
    <3>2. IncrKey(k)[k].exp \in Nat \union {None}
      <4>1. kv[k] \in Entry \union {None} /\ IncrKey(k)[k] = IF kv[k] = None THEN [val |-> 1, exp |-> None]
                                           ELSE [val |-> kv[k].val + 1, exp |-> kv[k].exp]
        BY <2>2, EntriesStay DEF IncrKey, Entries
      <4> QED BY <4>1 DEF Entry
    <3>3. e \in Nat \union {None}
      BY <2>2, <3>2
    <3>4. IncrWindow(k, frame[c].ttl) = [IncrKey(k) EXCEPT ![k].exp = e]
      BY DEF IncrWindow
    <3> HIDE DEF e
    <3> QED BY <2>2, <3>3, <3>4, IncrementedEntry
  <2> QED BY <1>0, <1>2, <2>1, <2>3, SameUse, IncrementCommand DEF Increments, ClientStep
<1>3. CASE Flushes(c) \/ Scans(c) \/ DeletesAll(c) \/ DeletesEach(c)
  BY <1>3 DEF Flushes, Scans, DeletesAll, DeletesEach, ClientStep, FlushCommand, ScanCommand, AllCommand,
         EachCommand, AllPlaces, EachPlaces
<1>4. CASE NextTag(c)
  <2>1. frame[c].at \in LoopPlaces
    BY <1>4 DEF NextTag, LoopPlaces
  <2>2. LoopStep(c)
    BY <1>4, <2>1 DEF NextTag, LoopStep, Ended, PublishPlaces, FindPlaces, TagPlaces
  <2> QED BY <2>2 DEF ClientStep
<1>5. CASE FindsMembers(c) \/ DeletesMembers(c)
  BY <1>5 DEF FindsMembers, DeletesMembers, ClientStep, FindCommand, MemberCommand, FindPlaces, MemberPlaces, LoopPlaces
<1>6. CASE AddsTag(c)
  <2>1. AddCommand(c)
    BY <1>6 DEF AddsTag, AddCommand, TagPlaces, LifePlaces, LoopPlaces
  <2> QED BY <2>1 DEF ClientStep
<1>7. CASE LimitsTag(c)
  <2>0. frame[c].at = "set_life" /\ frame[c].tag \in Tags
    BY <1>0, <1>7 DEF LimitsTag, CounterInv, GoodFrame, GoodIn, TagPlaces, LifePlaces
  <2>1. ExpireSet(frame[c].tag, Deadline(frame[c].ttl))[frame[c].tag].members = sets[frame[c].tag].members
    BY <2>0 DEF ExpireSet, ServerTypeOK, TagSet
  <2>2. LifeCommand(c)
    BY <1>7, <2>1 DEF LimitsTag, LifeCommand, LifePlaces, LoopPlaces
  <2> QED BY <2>2 DEF ClientStep
<1> QED
  BY <1>1, <1>2, <1>3, <1>4, <1>5, <1>6, <1>7 DEF SyncStep

\* Every step of a coroutine is one of these, too.
LEMMA AsyncSteps ==
  ASSUME CounterInv, ServerTypeOK, NEW c \in AsyncClients, AsyncStep(c)
  PROVE  ClientStep(c)
<1>0. c \in Clients
  BY ClientsAssumption
<1>1. CASE AwaitsGet(c) \/ AwaitsSet(c) \/ AwaitsDelete(c) \/ AwaitsExpire(c) \/ AwaitsTouch(c)
           \/ AwaitsPersist(c) \/ AwaitsTtl(c) \/ AwaitsEnd(c)
  <2>1. frame[c].at \in KeyPlaces /\ frame[c].at # "idle"
    BY <1>1 DEF AwaitsGet, AwaitsSet, AwaitsDelete, AwaitsExpire, AwaitsTouch, AwaitsPersist, AwaitsTtl,
           AwaitsEnd, KeyPlaces
  <2> DEFINE Some == \E K \in Entries : \E ok, err : /\ Sends(c, K, sets, ok, err)
                                                      /\ ok.use = frame[c].use /\ err.use = frame[c].use
  <2>3. ASSUME AwaitsGet(c) \/ AwaitsSet(c) \/ AwaitsDelete(c) \/ AwaitsExpire(c) PROVE Some
    BY <1>0, <2>1, <2>3, CallArguments, EntriesStay, SameUse DEF AwaitsGet, AwaitsSet, AwaitsDelete, AwaitsExpire
  <2>4. ASSUME AwaitsTouch(c) PROVE Some
    BY <1>0, <2>4, EntriesStay, SameUse DEF AwaitsTouch
  <2>5. ASSUME AwaitsPersist(c) PROVE Some
    BY <1>0, <2>1, <2>5, CallArguments, EntriesStay, SameUse DEF AwaitsPersist
  <2>6. ASSUME AwaitsTtl(c) PROVE Some
    BY <1>0, <2>6, EntriesStay, SameUse DEF AwaitsTtl
  <2>7. ASSUME AwaitsEnd(c) PROVE Some
    BY <1>0, <2>1, <2>7, CallArguments, EntriesStay, SameUse DEF AwaitsEnd
  <2>2. Some
    BY <1>1, <2>3, <2>4, <2>5, <2>6, <2>7
  <2> QED BY <1>0, <2>1, <2>2, EntryCommand DEF ClientStep
<1>2. CASE AwaitsExists(c) \/ AwaitsWindow(c)
  <2>1. frame[c].at \in CounterPlaces /\ frame[c].at # "idle"
    BY <1>2 DEF AwaitsExists, AwaitsWindow, CounterPlaces, SecondPlaces
  <2> DEFINE Some == \E K \in Entries : \E ok, err : /\ Sends(c, K, sets, ok, err)
                                                      /\ ok.use = frame[c].use /\ err.use = frame[c].use
  <2>3. ASSUME AwaitsExists(c) PROVE Some
    <3> DEFINE ok == [At(c, "a_incrby") EXCEPT !.existed = (kv[frame[c].key] # None)]
    <3>1. frame[c] \in Frame
      BY <1>0 DEF CounterInv, GoodFrame, GoodIn
    <3>2. ok.use = frame[c].use
      BY <3>1 DEF At, Frame
    <3>3. Sends(c, kv, sets, ok, Ended(c))
      BY <2>3 DEF AwaitsExists
    <3> HIDE DEF ok
    <3> QED BY <1>0, <3>2, <3>3, EntriesStay, SameUse
  <2>4. ASSUME AwaitsWindow(c) PROVE Some
    BY <1>0, <2>1, <2>4, CallArguments, EntriesStay, SameUse DEF AwaitsWindow
  <2>2. Some
    BY <1>2, <2>3, <2>4
  <2> QED BY <1>0, <2>1, <2>2, EntryCommand DEF ClientStep
<1>3. CASE AwaitsIncrement(c)
  <2> DEFINE k == frame[c].key
             e == IF kv[k] = None /\ frame[c].ttl # 0 THEN Deadline(frame[c].ttl)
                  ELSE IF kv[k] = None THEN None ELSE kv[k].exp
             err == IF frame[c].ttl = None THEN Ended(c) ELSE At(c, "incr_exists")
  <2>1. frame[c].at \in CounterPlaces /\ frame[c].at # "idle"
    BY <1>3 DEF AwaitsIncrement, CounterPlaces
  <2>2. k \in Keys /\ Deadline(frame[c].ttl) \in Nat \union {None}
    BY <1>0, <2>1, CallArguments
  <2>3. kv[k] \in Entry \union {None}
    BY <2>2, EntriesStay DEF Entries
  <2>4. e \in Nat \union {None}
    BY <2>2, <2>3 DEF Entry
  <2>5. SendsIncrement(c, k, [IncrKey(k) EXCEPT ![k].exp = e], Ended(c), err)
    BY <1>3 DEF AwaitsIncrement
  <2>6. err.use = frame[c].use /\ Ended(c).use = frame[c].use
    BY <1>0, SameUse
  <2> HIDE DEF e, err
  <2>7. ~NoInteger(k) => [IncrKey(k) EXCEPT ![k].exp = e] \in Entries
    BY <2>2, <2>4, IncrementedEntry
  <2> QED BY <1>0, <2>1, <2>5, <2>6, <2>7, IncrementCommand DEF ClientStep
<1>4. CASE AwaitsIncrBy(c)
  <2>1. frame[c].at \in CounterPlaces /\ frame[c].at # "idle"
    BY <1>4 DEF AwaitsIncrBy, CounterPlaces, SecondPlaces
  <2>2. frame[c].key \in Keys
    BY <1>0, <2>1, CallArguments
  <2>3. ~NoInteger(frame[c].key) => IncrKey(frame[c].key) \in Entries
    BY <2>2, IncrementedEntry
  <2> QED BY <1>0, <1>4, <2>1, <2>3, SameUse, IncrementCommand DEF AwaitsIncrBy, ClientStep
<1>5. CASE AwaitsFlush(c) \/ AwaitsScan(c) \/ AwaitsDeleteAll(c) \/ AwaitsDeleteEach(c)
  BY <1>5 DEF AwaitsFlush, AwaitsScan, AwaitsDeleteAll, AwaitsDeleteEach, ClientStep, FlushCommand, ScanCommand,
         AllCommand, EachCommand, AllPlaces, EachPlaces, Stored
<1>6. CASE AwaitsNextTag(c)
  <2>1. frame[c].at \in LoopPlaces
    BY <1>6 DEF AwaitsNextTag, LoopPlaces
  <2>2. LoopStep(c)
    BY <1>6, <2>1 DEF AwaitsNextTag, LoopStep, Ended, PublishPlaces, FindPlaces, TagPlaces
  <2> QED BY <2>2 DEF ClientStep
<1>7. CASE AwaitsMembers(c) \/ AwaitsDeleteMembers(c)
  BY <1>7 DEF AwaitsMembers, AwaitsDeleteMembers, ClientStep, FindCommand, MemberCommand, FindPlaces, MemberPlaces,
         LoopPlaces
<1>8. CASE AwaitsAddTag(c) /\ frame[c].at = "a_sadd"
  <2>0. frame[c].tag \in Tags /\ frame[c].key \in Keys
    BY <1>0, <1>8, CallArguments DEF CounterInv, GoodFrame, GoodIn, TagPlaces
  <2>1. frame[c].key \in AddMember(frame[c].tag, frame[c].key)[frame[c].tag].members
    BY <2>0 DEF AddMember, ServerTypeOK, TagSet
  <2>2. AddCommand(c)
    BY <1>8, <2>1 DEF AwaitsAddTag, AddCommand, TagPlaces, LifePlaces, LoopPlaces, Deadline
  <2> QED BY <2>2 DEF ClientStep
<1>9. CASE AwaitsAddTag(c) /\ frame[c].at = "a_set_life"
  <2>1. frame[c].ttl \notin {None, 0}
    BY <1>0, <1>9 DEF CounterInv, GoodFrame, GoodIn, LifePlaces
  <2>2. LifeCommand(c)
    BY <1>9, <2>1 DEF AwaitsAddTag, LifeCommand, LifePlaces, LoopPlaces
  <2> QED BY <2>2 DEF ClientStep
<1> QED
  BY <1>1, <1>2, <1>3, <1>4, <1>5, <1>6, <1>7, <1>8, <1>9 DEF AsyncStep, AwaitsAddTag
-----------------------------------------------------------------------------
(* Types *)

\* The commands on tag sets leave tag sets.
LEMMA SetsStay ==
  ASSUME CounterInv, ServerTypeOK
  PROVE  /\ SetsType(sets)
         /\ \A N : SetsType(DelSets(N))
         /\ \A t : \A k \in Keys : SetsType(AddMember(t, k))
         /\ \A t : \A e \in Nat \union {None} : SetsType(ExpireSet(t, e))
<1>0. SetsType(sets)
  BY DEF ServerTypeOK, SetsType
<1>1. ASSUME NEW N PROVE SetsType(DelSets(N))
  BY <1>0 DEF SetsType, DelSets, TagSet, NoSet
<1>2. ASSUME NEW t, NEW k \in Keys PROVE SetsType(AddMember(t, k))
  BY <1>0 DEF SetsType, AddMember, TagSet
<1>3. ASSUME NEW t, NEW e \in Nat \union {None} PROVE SetsType(ExpireSet(t, e))
  <2>1. CASE t \in Tags /\ sets[t] # NoSet
    <3>1. sets[t] \in TagSet /\ sets[t].members # {}
      BY <1>0, <2>1 DEF SetsType
    <3> QED BY <1>0, <2>1, <3>1 DEF SetsType, ExpireSet, TagSet
  <2>2. CASE t \notin Tags \/ sets[t] = NoSet
    <3>1. ExpireSet(t, e) = sets
      BY <1>0, <2>2 DEF SetsType, ExpireSet
    <3> QED BY <1>0, <3>1
  <2> QED BY <2>1, <2>2
<1> QED BY <1>0, <1>1, <1>2, <1>3

\* The frames are frames.
LEMMA FramesStay ==
  ASSUME CounterInv, ServerTypeOK, CounterInv', NEW c \in Clients, NEW f, Goes(c, f)
  PROVE  frame' \in [Clients -> Frame]
<1>1. frame'[c] \in Frame
  BY DEF CounterInv, GoodFrame, GoodIn
<1> QED BY <1>1 DEF ServerTypeOK, Goes

\* What is doomed are keys.
LEMMA DoomedStay ==
  ASSUME ServerTypeOK, KeepDoomed \/ doomed' = [c \in Clients |-> {}]
  PROVE  doomed' \in [Clients -> SUBSET Keys]
BY DEF ServerTypeOK, KeepDoomed

\* A command with such entries and tag sets keeps the types.
LEMMA TypedCommand ==
  ASSUME CounterInv, ServerTypeOK, CounterInv', NEW c \in Clients, NEW K \in Entries, NEW S, SetsType(S),
         NEW ok, NEW err, Command(c, K, S, ok, err),
         acked' \in [Keys -> Nat], unsure' \in [Keys -> Nat], fellBack' \subseteq Keys,
         owed' \subseteq Tags \X Keys \X (Nat \union {None})
  PROVE  ServerTypeOK'
<1>1. frame' \in [Clients -> Frame]
  BY FramesStay DEF Command, Answered, Fails
<1>2. doomed' \in [Clients -> SUBSET Keys]
  BY DoomedStay DEF Command, Answered, Fails
<1>3. kv' \in Entries /\ SetsType(sets')
  BY EntriesStay, SetsStay DEF Command, Answered, Fails, serverVars
<1>4. now' = now /\ calls' = calls /\ faults' \in 0..MaxFaults
  BY ServerAssumption DEF Command, Answered, Fails, ServerTypeOK
<1> QED BY <1>1, <1>2, <1>3, <1>4 DEF ServerTypeOK, SetsType, Entries

\* So does every step of a client.
LEMMA TypedStep ==
  ASSUME CounterInv, ServerTypeOK, CounterInv', NEW c \in Clients, ClientStep(c) \/ PublishCommand(c)
  PROVE  ServerTypeOK'
<1>0. /\ kv \in Entries /\ SetsType(sets) /\ acked \in [Keys -> Nat] /\ unsure \in [Keys -> Nat]
      /\ fellBack \subseteq Keys /\ owed \subseteq Tags \X Keys \X (Nat \union {None})
  BY DEF ServerTypeOK, SetsType, Entries
<1>1. CASE KeyCommand(c)
  BY <1>0, <1>1, TypedCommand DEF KeyCommand
<1>2. CASE FlushCommand(c) \/ ScanCommand(c) \/ AllCommand(c) \/ EachCommand(c) \/ FindCommand(c) \/ MemberCommand(c)
           \/ PublishCommand(c)
  <2>1. \E K \in Entries : \E S, ok, err : SetsType(S) /\ Sends(c, K, S, ok, err)
    BY <1>0, <1>2, EntriesStay, SetsStay DEF FlushCommand, ScanCommand, AllCommand, EachCommand, FindCommand,
           MemberCommand, PublishCommand
  <2> QED BY <1>0, <2>1, TypedCommand DEF Sends, Command
<1>3. CASE LoopStep(c)
  <2>1. \E f : Goes(c, f)
    BY <1>3 DEF LoopStep
  <2>2. frame' \in [Clients -> Frame]
    BY <2>1, FramesStay
  <2> QED BY <1>3, <2>2 DEF LoopStep, ServerTypeOK, serverVars, historyVars
<1>4. CASE AddCommand(c) \/ LifeCommand(c)
  <2>1. frame[c].at # "idle" /\ frame[c].tag \in Tags
    BY <1>4 DEF AddCommand, LifeCommand, TagPlaces, LifePlaces, CounterInv, GoodFrame, GoodIn
  <2>2. frame[c].key \in Keys /\ Deadline(frame[c].ttl) \in Nat \union {None}
    BY <2>1, CallArguments
  <2>3. \E S, ok, err : SetsType(S) /\ Command(c, kv, S, ok, err)
    BY <1>4, <2>2, SetsStay DEF AddCommand, LifeCommand, Command
  <2>4. owed' \subseteq Tags \X Keys \X (Nat \union {None})
    BY <1>0, <1>4, <2>1, <2>2 DEF AddCommand, LifeCommand
  <2>5. UNCHANGED <<acked, unsure, fellBack>>
    BY <1>4 DEF AddCommand, LifeCommand
  <2> QED BY <1>0, <2>3, <2>4, <2>5, TypedCommand
<1> QED BY <1>1, <1>2, <1>3, <1>4 DEF ClientStep

\* A call that begins or dies keeps the types.
LEMMA TypedCall ==
  ASSUME CounterInv, ServerTypeOK, CounterInv', NEW c \in Clients, Invokes(c) \/ Dies(c)
  PROVE  ServerTypeOK'
<1>1. CASE Dies(c)
  <2>1. frame' \in [Clients -> Frame]
    BY <1>1, FramesStay DEF Dies
  <2>2. doomed' \in [Clients -> SUBSET Keys]
    BY <1>1 DEF Dies, ServerTypeOK
  <2>3. faults' \in 0..MaxFaults
    BY <1>1, ServerAssumption DEF Dies, ServerTypeOK
  <2> QED BY <1>1, <2>1, <2>2, <2>3 DEF Dies, ServerTypeOK, serverVars
<1>2. CASE Invokes(c)
  <2>1. PICK m, ttl, place : \E k \in Keys, T \in SUBSET Tags : Invoke(c, m, k, T, ttl, place)
    BY <1>2 DEF Invokes
  <2>0. PICK k \in Keys, T \in SUBSET Tags : Invoke(c, m, k, T, ttl, place)
    BY <2>1
  <2>2. frame' \in [Clients -> Frame]
    BY <2>0, FramesStay DEF Invoke
  <2>3. UNION {sets[t].members : t \in T} \subseteq Keys
    BY DEF ServerTypeOK, TagSet
  <2>4. doomed' \in [Clients -> SUBSET Keys]
    BY <2>0, <2>3 DEF Invoke, ServerTypeOK
  <2>5. calls' \in 0..MaxCalls
    BY <2>0, ServerAssumption DEF Invoke, ServerTypeOK
  <2>6. owed' \subseteq owed
    BY <2>0 DEF Invoke
  <2> QED BY <2>0, <2>2, <2>4, <2>5, <2>6 DEF Invoke, ServerTypeOK, serverVars
<1> QED BY <1>1, <1>2

\* So does time.
LEMMA TypedTick ==
  ASSUME CounterInv, ServerTypeOK, Tick
  PROVE  ServerTypeOK'
<1>1. kv' \in Entries /\ SetsType(sets')
  BY EntriesStay, SetsStay DEF Tick
<1>2. acked' \in [Keys -> Nat] /\ unsure' \in [Keys -> Nat]
  BY DEF Tick, ServerTypeOK
<1>3. doomed' \in [Clients -> SUBSET Keys]
  BY DEF Tick, ServerTypeOK
<1>4. now' \in 0..MaxTime
  BY ServerAssumption DEF Tick, ServerTypeOK
<1> QED BY <1>1, <1>2, <1>3, <1>4 DEF Tick, ServerTypeOK, SetsType, Entries

\* Subscribers and the channel keep their types.
LEMMA TypedBus ==
  ASSUME BusTypeOK, [Next]_vars
  PROVE  BusTypeOK'
<1> DEFINE Boxes == [Subscribers -> Seq({Event, Garbage})]
<1>0. inbox \in Boxes /\ listening \subseteq Subscribers /\ busy \subseteq listening
  BY DEF BusTypeOK
<1>1. ASSUME NEW m \in {Event, Garbage}, Deliver(m) PROVE inbox' \in Boxes
  <2>1. \A s \in Subscribers : Append(inbox[s], m) \in Seq({Event, Garbage})
    BY <1>0, AppendProperties
  <2> QED BY <1>0, <1>1, <2>1 DEF Deliver
<1>2. ASSUME UNCHANGED busVars PROVE BusTypeOK'
  BY <1>2 DEF BusTypeOK, busVars
<1>3. ASSUME NEW c \in Clients, Publishes(c) \/ AwaitsPublish(c) PROVE BusTypeOK'
  BY <1>0, <1>1, <1>3 DEF Publishes, AwaitsPublish, BusTypeOK
<1>4. ASSUME NEW s \in Subscribers, Subscribes(s) PROVE BusTypeOK'
  BY <1>0, <1>4 DEF Subscribes, BusTypeOK
<1>5. ASSUME NEW s \in Subscribers, TakesMessage(s) PROVE BusTypeOK'
  <2>1. inbox[s] \in Seq({Event, Garbage}) /\ inbox[s] # << >>
    BY <1>0, <1>5 DEF TakesMessage
  <2>2. Tail(inbox[s]) \in Seq({Event, Garbage})
    BY <2>1, HeadTailProperties
  <2> QED BY <1>0, <1>5, <2>2 DEF TakesMessage, BusTypeOK
<1>6. ASSUME NEW s \in Subscribers, HandlerEnds(s) PROVE BusTypeOK'
  BY <1>0, <1>6 DEF HandlerEnds, BusTypeOK
<1>7. ASSUME NEW s \in Subscribers, Stops(s) PROVE BusTypeOK'
  <2>1. << >> \in Seq({Event, Garbage})
    BY EmptySeq
  <2> QED BY <1>0, <1>7, <2>1 DEF Stops, BusTypeOK
<1>8. CASE Disturbs
  BY <1>0, <1>1, <1>8 DEF Disturbs, BusTypeOK
<1>9. CASE UNCHANGED vars
  BY <1>2, <1>9 DEF vars, busVars
<1> QED BY <1>2, <1>3, <1>4, <1>5, <1>6, <1>7, <1>8, <1>9 DEF Next, AllDone

\* What the subscribers do leaves the database and the calls alone.
LEMMA TypedOther ==
  ASSUME ServerTypeOK, UNCHANGED clientVars, faults' \in 0..MaxFaults
  PROVE  ServerTypeOK'
BY DEF clientVars, serverVars, historyVars, ServerTypeOK

\* The steps there are, for the invariants that follow: one of a client, a
\* call that begins or dies, time, or what concerns only subscribers.
LEMMA NextSteps ==
  ASSUME CounterInv, ServerTypeOK, [Next]_vars
  PROVE  \/ \E c \in Clients : ClientStep(c) \/ PublishCommand(c) \/ Invokes(c) \/ Dies(c)
         \/ Tick
         \/ UNCHANGED clientVars /\ faults' \in 0..MaxFaults
<1>0. faults \in 0..MaxFaults /\ MaxFaults \in Nat
  BY ServerAssumption DEF ServerTypeOK
<1>1. ASSUME NEW c \in SyncClients, SyncStep(c) PROVE c \in Clients /\ ClientStep(c)
  BY <1>1, SyncSteps, ClientsAssumption
<1>2. ASSUME NEW c \in AsyncClients, AsyncStep(c) PROVE c \in Clients /\ ClientStep(c)
  BY <1>2, AsyncSteps, ClientsAssumption
<1>3. ASSUME NEW c \in Clients, Publishes(c) \/ AwaitsPublish(c) PROVE PublishCommand(c)
  BY <1>3 DEF Publishes, AwaitsPublish, PublishCommand, PublishPlaces
<1>4. ASSUME NEW s \in Subscribers, Subscribes(s) \/ TakesMessage(s) \/ HandlerEnds(s) \/ Stops(s)
      PROVE  UNCHANGED clientVars /\ faults' \in 0..MaxFaults
  BY <1>0, <1>4 DEF Subscribes, TakesMessage, HandlerEnds, Stops
<1>5. ASSUME Disturbs PROVE UNCHANGED clientVars /\ faults' \in 0..MaxFaults
  BY <1>0, <1>5 DEF Disturbs
<1>6. ASSUME UNCHANGED vars PROVE UNCHANGED clientVars /\ faults' \in 0..MaxFaults
  BY <1>0, <1>6 DEF vars, clientVars
<1> QED BY <1>1, <1>2, <1>3, <1>4, <1>5, <1>6 DEF Next, AllDone

\* Every step keeps the types.
LEMMA TypeStep ==
  CounterInv /\ CounterInv' /\ TypeOK /\ [Next]_vars => TypeOK'
<1> SUFFICES ASSUME CounterInv, CounterInv', TypeOK, [Next]_vars PROVE TypeOK'
  OBVIOUS
<1>1. ServerTypeOK'
  BY NextSteps, TypedStep, TypedCall, TypedTick, TypedOther DEF TypeOK
<1> QED BY <1>1, TypedBus DEF TypeOK

LEMMA TypeInit == Init => TypeOK
<1> SUFFICES ASSUME Init PROVE TypeOK OBVIOUS
<1>1. BusTypeOK
  BY EmptySeq DEF Init, BusInit, BusTypeOK
<1>2. NoCall \in Frame
  BY DEF NoCall, Frame, Places
<1> QED BY <1>1, <1>2, ServerAssumption DEF Init, ServerInit, TypeOK, ServerTypeOK, Entry, TagSet, NoSet

\* Every variable keeps its type, and a tag set without members does not exist.
THEOREM TypesHold == Spec => []TypeOK
BY TypeInit, TypeStep, CounterAlways, PTL DEF Spec
-----------------------------------------------------------------------------
(* Invalidation *)

\* The call f has still to ask for the members of t.
Ahead(f, t) == t \in f.tags \/ (f.at \in FindPlaces /\ f.tag = t)

\* When the call f deletes the set of t, it has deleted k before.
Spares(f, t, k) ==
  /\ f.at \in MemberPlaces /\ f.tag = t => k \in f.found
  /\ f.at \in AllPlaces /\ t \in f.found => k \in f.found

\* The invalidation of c has still to delete k: it has found k, or will find it
\* under a tag whose set no other call deletes and leaves k.
StillToGo(c, k) ==
  LET f == frame[c] IN
  /\ f.use = "invalidate_tags" /\ f.at # "idle" /\ f.at \notin PublishPlaces
  /\ \/ f.at \in MemberPlaces /\ k \in f.found
     \/ \E t \in Tags : /\ Ahead(f, t) /\ k \in sets[t].members
                        /\ \A d \in Clients : Spares(frame[d], t, k)

\* The inductive invariant. A clear that deletes names one by one, after an
\* error, may leave entries whose sets are gone.
DoomInv ==
  /\ \A c \in Clients : \A k \in doomed[c] : kv[k] # None => StillToGo(c, k)
  /\ \A d \in Clients : frame[d].at \in EachPlaces => \A c \in Clients : doomed[c] = {}

\* A step after which no more is doomed, and what is doomed was or is gone.
Dooms(c) == \A k \in doomed'[c] : k \in doomed[c] /\ kv'[k] \in {kv[k], None}

LEMMA KeptIsDoomed ==
  ASSUME KeepDoomed, NEW c \in Clients
  PROVE  Dooms(c)
BY DEF KeepDoomed, Dooms

\* A call that is deleting tag sets is in a method that does.
LEMMA DeletingPlaces ==
  ASSUME CounterInv, NEW d \in Clients,
         frame[d].at \in MemberPlaces \union AllPlaces \union EachPlaces \union FindPlaces \union ClearPlaces
  PROVE  Deleting(d)
<1>1. frame[d].at # "idle"
  BY DEF MemberPlaces, AllPlaces, EachPlaces, FindPlaces, ClearPlaces, ScanPlaces
<1>2. frame[d].at \in UsePlaces(frame[d].use)
  BY <1>1 DEF CounterInv, GoodFrame, GoodIn
<1> QED BY <1>1, <1>2, UseOfPlace DEF Deleting, ClearPlaces, ScanPlaces

\* A step in which no invalidation finds or deletes anything and no set loses a member.
LEMMA DoomSpared ==
  ASSUME CounterInv, ServerTypeOK, DoomInv, NEW c \in Clients, NEW f, Goes(c, f),
         \A d \in Clients : Dooms(d),
         \A t \in Tags : sets[t].members \subseteq sets'[t].members,
         f.at \notin MemberPlaces \union AllPlaces \union EachPlaces,
         ~ (frame[c].use = "invalidate_tags" /\ frame[c].at # "idle" /\ frame[c].at \notin PublishPlaces)
  PROVE  DoomInv'
<1>1. frame'[c] = f /\ \A d \in Clients \ {c} : frame'[d] = frame[d]
  BY DEF Goes, ServerTypeOK
<1>2. ASSUME NEW d \in Clients, NEW k \in doomed'[d], kv'[k] # None PROVE StillToGo(d, k)'
  <2>1. k \in doomed[d] /\ kv[k] # None
    BY <1>2 DEF Dooms
  <2>2. StillToGo(d, k)
    BY <2>1 DEF DoomInv
  <2>3. d # c /\ frame'[d] = frame[d]
    BY <1>1, <2>2 DEF StillToGo
  <2>4. CASE frame[d].at \in MemberPlaces /\ k \in frame[d].found
    BY <2>2, <2>3, <2>4 DEF StillToGo
  <2>5. CASE \E t \in Tags : /\ Ahead(frame[d], t) /\ k \in sets[t].members
                             /\ \A e \in Clients : Spares(frame[e], t, k)
    <3>1. PICK t \in Tags : /\ Ahead(frame[d], t) /\ k \in sets[t].members
                            /\ \A e \in Clients : Spares(frame[e], t, k)
      BY <2>5
    <3>2. \A e \in Clients : Spares(frame'[e], t, k)
      BY <1>1, <3>1 DEF Spares
    <3>3. Ahead(frame'[d], t) /\ k \in sets'[t].members
      BY <2>3, <3>1
    <3> QED BY <2>2, <2>3, <3>2, <3>3 DEF StillToGo, Ahead, Spares
  <2> QED BY <2>2, <2>4, <2>5 DEF StillToGo
<1>3. ASSUME NEW d \in Clients, frame'[d].at \in EachPlaces, NEW e \in Clients PROVE doomed'[e] = {}
  <2>1. frame[d].at \in EachPlaces
    BY <1>1, <1>3
  <2>2. doomed[e] = {}
    BY <2>1 DEF DoomInv
  <2> QED BY <2>2 DEF Dooms
<1> QED BY <1>2, <1>3 DEF DoomInv

\* After an error of a call that deletes nothing is doomed any more.
LEMMA DoomForgotten ==
  ASSUME doomed' = [d \in Clients |-> {}]
  PROVE  DoomInv'
BY DEF DoomInv

\* A failed command of such a call.
LEMMA FailedDeletion ==
  ASSUME NEW c, NEW K, NEW S, NEW err, Fails(c, K, S, err), Deleting(c)
  PROVE  DoomInv'
BY DoomForgotten DEF Fails

\* After an error a frame has its other fields.
LEMMA UncleanFields ==
  ASSUME NEW f, [f EXCEPT !.clean = FALSE] \in Frame
  PROVE  /\ [f EXCEPT !.clean = FALSE].at = f.at /\ [f EXCEPT !.clean = FALSE].use = f.use
         /\ [f EXCEPT !.clean = FALSE].tags = f.tags /\ [f EXCEPT !.clean = FALSE].tag = f.tag
BY DEF Frame

\* The frame of c after a command.
LEMMA CommandFrame ==
  ASSUME CounterInv, CounterInv', NEW c \in Clients, NEW K, NEW S, NEW ok, NEW err, Command(c, K, S, ok, err)
  PROVE  \E f : /\ Goes(c, f) /\ frame'[c] = f /\ \A d \in Clients \ {c} : frame'[d] = frame[d]
                /\ \E g \in {ok, err} : f.at = g.at /\ f.use = g.use /\ f.tags = g.tags /\ f.tag = g.tag
<1>0. DOMAIN frame = Clients
  BY DEF CounterInv
<1>1. CASE Answered(c, K, S, ok)
  BY <1>0, <1>1 DEF Answered, Goes
<1>2. CASE Fails(c, K, S, err)
  <2> DEFINE f == [err EXCEPT !.clean = FALSE]
  <2>1. Goes(c, f)
    BY <1>2 DEF Fails
  <2>2. frame'[c] = f /\ \A d \in Clients \ {c} : frame'[d] = frame[d]
    BY <1>0, <2>1 DEF Goes
  <2>3. f \in Frame
    BY <2>2 DEF CounterInv, GoodFrame, GoodIn
  <2>4. f.at = err.at /\ f.use = err.use /\ f.tags = err.tags /\ f.tag = err.tag
    BY <2>3, UncleanFields
  <2> HIDE DEF f
  <2> QED BY <2>1, <2>2, <2>4
<1> QED BY <1>1, <1>2 DEF Command

\* The calls that delete tag sets, by their methods.
LEMMA SparingPlaces ==
  ASSUME CounterInv', NEW c \in Clients, frame'[c].use \notin {"invalidate_tags", "clear", "clear_all"}
  PROVE  frame'[c].at \notin MemberPlaces \union AllPlaces \union EachPlaces
<1>1. CASE frame'[c].at = "idle"
  BY <1>1 DEF MemberPlaces, AllPlaces, EachPlaces
<1>2. CASE frame'[c].at # "idle"
  <2>1. frame'[c].at \in UsePlaces(frame'[c].use)
    BY <1>2 DEF CounterInv, GoodFrame, GoodIn
  <2> QED BY <2>1, UseOfPlace DEF ScanPlaces
<1> QED BY <1>1, <1>2

\* A command that leaves no set smaller, of a call that is no invalidation or
\* has only to publish.
LEMMA SparingCommand ==
  ASSUME CounterInv, CounterInv', ServerTypeOK, DoomInv, NEW c \in Clients, NEW K, NEW S, NEW ok, NEW err,
         Command(c, K, S, ok, err), \A t \in Tags : sets[t].members \subseteq S[t].members,
         frame'[c].at \notin MemberPlaces \union AllPlaces \union EachPlaces,
         ~ (frame[c].use = "invalidate_tags" /\ frame[c].at # "idle" /\ frame[c].at \notin PublishPlaces)
  PROVE  DoomInv'
<1>1. CASE Fails(c, K, S, err) /\ Deleting(c)
  BY <1>1, FailedDeletion
<1>2. CASE ~ (Fails(c, K, S, err) /\ Deleting(c))
  <2>1. KeepDoomed
    BY <1>2 DEF Command, Answered, Fails
  <2>2. \A t \in Tags : sets[t].members \subseteq sets'[t].members
    BY DEF Command, Answered, Fails, serverVars
  <2>3. PICK f : Goes(c, f) /\ frame'[c] = f
    BY CommandFrame
  <2> QED BY <2>1, <2>2, <2>3, KeptIsDoomed, DoomSpared
<1> QED BY <1>1, <1>2

\* The sets grow, or keep their members.
LEMMA SetsGrow ==
  ASSUME ServerTypeOK, NEW t \in Tags
  PROVE  /\ \A u, k : sets[t].members \subseteq AddMember(u, k)[t].members
         /\ \A u, e : sets[t].members \subseteq ExpireSet(u, e)[t].members
BY DEF ServerTypeOK, TagSet, AddMember, ExpireSet

\* A command on one key is of no method that deletes tag sets.
LEMMA KeyCommandUse ==
  ASSUME CounterInv, NEW c \in Clients, KeyCommand(c)
  PROVE  frame[c].use \notin {"invalidate_tags", "clear", "clear_all"}
<1>1. frame[c].at \in UsePlaces(frame[c].use)
  BY DEF KeyCommand, CounterInv, GoodFrame, GoodIn, KeyPlaces, CounterPlaces, SecondPlaces
<1>2. /\ frame[c].at \notin ClearPlaces \union LoopPlaces
      /\ frame[c].at \notin FindPlaces \union MemberPlaces \union PublishPlaces
  BY DEF KeyCommand, KeyPlaces, CounterPlaces, SecondPlaces, ClearPlaces, ScanPlaces, AllPlaces, EachPlaces,
         LoopPlaces, FindPlaces, MemberPlaces, PublishPlaces
<1> QED BY <1>1, <1>2 DEF UsePlaces, ClearPlaces

\* The steps of calls that delete no set, and the last one of an invalidation.
LEMMA DoomUntouched ==
  ASSUME CounterInv, CounterInv', ServerTypeOK, DoomInv, NEW c \in Clients,
         KeyCommand(c) \/ AddCommand(c) \/ LifeCommand(c) \/ PublishCommand(c)
  PROVE  DoomInv'
<1>0. \A f : At(c, f).use = frame[c].use
  BY SameUse
<1>1. CASE KeyCommand(c)
  <2>1. PICK K, ok, err : Command(c, K, sets, ok, err) /\ ok.use = frame[c].use /\ err.use = frame[c].use
    BY <1>1 DEF KeyCommand
  <2>2. frame[c].use \notin {"invalidate_tags", "clear", "clear_all"}
    BY <1>1, KeyCommandUse
  <2>3. frame'[c].use = frame[c].use
    BY <2>1, CommandFrame
  <2>4. frame'[c].at \notin MemberPlaces \union AllPlaces \union EachPlaces
    BY <2>2, <2>3, SparingPlaces
  <2> QED BY <2>1, <2>2, <2>4, SparingCommand
<1>2. CASE AddCommand(c) \/ LifeCommand(c)
  <2>1. PICK S, p, q : /\ Command(c, kv, S, At(c, p), At(c, q))
                       /\ \A t \in Tags : sets[t].members \subseteq S[t].members
    BY <1>2, SetsGrow DEF AddCommand, LifeCommand, Command
  <2>2. frame[c].at # "idle" /\ frame[c].at \in TagPlaces
    BY <1>2 DEF AddCommand, LifeCommand, TagPlaces, LifePlaces
  <2>3. frame[c].use = "add_tags"
    BY <2>2, UseOfPlace DEF CounterInv, GoodFrame, GoodIn
  <2>4. frame'[c].use = frame[c].use
    BY <1>0, <2>1, CommandFrame
  <2>5. frame'[c].at \notin MemberPlaces \union AllPlaces \union EachPlaces
    BY <2>3, <2>4, SparingPlaces
  <2> QED BY <2>1, <2>3, <2>5, SparingCommand
<1>3. CASE PublishCommand(c)
  <2>1. Command(c, kv, sets, Ended(c), Ended(c))
    BY <1>3 DEF PublishCommand, Sends, Command
  <2>2. Ended(c).at = "idle"
    BY DEF Ended, At, CounterInv, GoodFrame, GoodIn, Frame
  <2>3. frame'[c].at \notin MemberPlaces \union AllPlaces \union EachPlaces
    BY <2>1, <2>2, CommandFrame DEF MemberPlaces, AllPlaces, EachPlaces
  <2>4. frame[c].at \in PublishPlaces
    BY <1>3 DEF PublishCommand
  <2> QED BY <2>1, <2>3, <2>4, SparingCommand
<1> QED BY <1>1, <1>2, <1>3

\* What an invalidation has still to delete it has after a step of c, if c
\* leaves the sets it spares and goes on sparing what it spared, and, if c is
\* the invalidation, has still to look where it had.
LEMMA StillCarried ==
  ASSUME NEW c \in Clients, NEW f, frame'[c] = f, \A d \in Clients \ {c} : frame'[d] = frame[d],
         NEW d \in Clients, NEW k, StillToGo(d, k),
         \A t \in Tags : k \in sets[t].members /\ Spares(frame[c], t, k)
                         => k \in sets'[t].members /\ Spares(f, t, k),
         d = c => /\ f.use = "invalidate_tags" /\ f.at # "idle" /\ f.at \notin PublishPlaces
                  /\ \A t \in Tags : Ahead(frame[c], t) /\ k \in sets[t].members /\ Spares(frame[c], t, k)
                                     => Ahead(f, t) \/ (f.at \in MemberPlaces /\ k \in f.found)
                  /\ frame[c].at \in MemberPlaces /\ k \in frame[c].found => f.at \in MemberPlaces /\ k \in f.found
  PROVE  StillToGo(d, k)'
<1>1. CASE frame[d].at \in MemberPlaces /\ k \in frame[d].found
  <2>1. frame'[d].at \in MemberPlaces /\ k \in frame'[d].found
    BY <1>1
  <2> QED BY <2>1 DEF StillToGo
<1>2. CASE \E t \in Tags : /\ Ahead(frame[d], t) /\ k \in sets[t].members
                           /\ \A e \in Clients : Spares(frame[e], t, k)
  <2>1. PICK t \in Tags : /\ Ahead(frame[d], t) /\ k \in sets[t].members
                          /\ \A e \in Clients : Spares(frame[e], t, k)
    BY <1>2
  <2>2. k \in sets'[t].members
    BY <2>1
  <2>3. ASSUME NEW e \in Clients PROVE Spares(frame[e], t, k)'
    <3>1. Spares(frame'[e], t, k)
      BY <2>1
    <3> QED BY <3>1 DEF Spares
  <2>4. Ahead(frame'[d], t) \/ (frame'[d].at \in MemberPlaces /\ k \in frame'[d].found)
    BY <2>1
  <2>5. frame'[d].use = "invalidate_tags" /\ frame'[d].at # "idle" /\ frame'[d].at \notin PublishPlaces
    BY DEF StillToGo
  <2> QED BY <2>2, <2>3, <2>4, <2>5 DEF StillToGo, Ahead
<1> QED BY <1>1, <1>2 DEF StillToGo

\* If so for all that is doomed and left, the invariant goes on.
LEMMA DoomCarried ==
  ASSUME ServerTypeOK, DoomInv, NEW c \in Clients, NEW f, Goes(c, f), KeepDoomed,
         \A d \in Clients : \A k \in Keys : kv'[k] # None /\ k \in doomed'[d] /\ StillToGo(d, k) => StillToGo(d, k)',
         f.at \in EachPlaces => frame[c].at \in EachPlaces
  PROVE  DoomInv'
<1>1. frame'[c] = f /\ \A d \in Clients \ {c} : frame'[d] = frame[d]
  BY DEF Goes, ServerTypeOK
<1>2. ASSUME NEW d \in Clients, NEW k \in doomed'[d], kv'[k] # None PROVE StillToGo(d, k)'
  <2>1. k \in Keys /\ k \in doomed[d] /\ kv[k] # None
    BY <1>2, KeptIsDoomed DEF Dooms, ServerTypeOK
  <2>2. StillToGo(d, k)
    BY <2>1 DEF DoomInv
  <2> QED BY <1>2, <2>1, <2>2
<1>3. ASSUME NEW d \in Clients, frame'[d].at \in EachPlaces, NEW e \in Clients PROVE doomed'[e] = {}
  <2>1. frame[d].at \in EachPlaces
    BY <1>1, <1>3
  <2>2. doomed[e] = {}
    BY <2>1 DEF DoomInv
  <2> QED BY <2>2, KeptIsDoomed DEF Dooms
<1> QED BY <1>2, <1>3 DEF DoomInv

\* A call that is at no place of invalidate_tags.
LEMMA NotInvalidating ==
  ASSUME CounterInv, NEW c \in Clients, frame[c].at \in ClearPlaces
  PROVE  \A k : ~StillToGo(c, k)
<1>1. frame[c].at # "idle"
  BY DEF ClearPlaces, ScanPlaces, AllPlaces, EachPlaces
<1> QED BY <1>1, UseOfPlace DEF CounterInv, GoodFrame, GoodIn, StillToGo

\* The steps of clear: what it deletes it deletes with its entries, unless it
\* has met an error.
LEMMA DoomCleared ==
  ASSUME CounterInv, CounterInv', ServerTypeOK, DoomInv, NEW c \in Clients,
         FlushCommand(c) \/ ScanCommand(c) \/ AllCommand(c) \/ EachCommand(c)
  PROVE  DoomInv'
<1>0. frame[c].at \in ClearPlaces
  BY DEF FlushCommand, ScanCommand, AllCommand, EachCommand, ClearPlaces, ScanPlaces, AllPlaces, EachPlaces
<1>1. Deleting(c) /\ \A k : ~StillToGo(c, k)
  BY <1>0, DeletingPlaces, NotInvalidating
<1>2. ASSUME NEW K, NEW S, NEW ok, NEW err, Sends(c, K, S, ok, err),
             ok.at \in EachPlaces => frame[c].at \in EachPlaces,
             \A k \in Keys : K[k] # None /\ (\E d \in Clients : k \in doomed[d])
                => \A t \in Tags : k \in sets[t].members /\ Spares(frame[c], t, k)
                                   => k \in S[t].members /\ Spares(ok, t, k)
      PROVE DoomInv'
  <2>1. CASE Fails(c, K, S, err)
    BY <1>1, <2>1, FailedDeletion
  <2>2. CASE Answered(c, K, S, ok)
    <3>1. frame'[c] = ok /\ \A d \in Clients \ {c} : frame'[d] = frame[d]
      BY <2>2 DEF Answered, Goes, ServerTypeOK
    <3>2. ASSUME NEW d \in Clients, NEW k \in Keys, kv'[k] # None, k \in doomed'[d], StillToGo(d, k)
          PROVE  StillToGo(d, k)'
      <4>1. d # c /\ k \in doomed[d]
        BY <1>1, <2>2, <3>2, KeptIsDoomed DEF Answered, Dooms
      <4>2. \A t \in Tags : k \in sets[t].members /\ Spares(frame[c], t, k)
                            => k \in sets'[t].members /\ Spares(ok, t, k)
        BY <1>2, <2>2, <3>2, <4>1 DEF Answered
      <4> QED BY <3>1, <3>2, <4>1, <4>2, StillCarried
    <3> QED BY <1>2, <2>2, <3>2, DoomCarried DEF Answered
  <2> QED BY <1>2, <2>1, <2>2 DEF Sends
<1>3. \A t, k : Spares(Ended(c), t, k)
  <2>1. Ended(c).at = "idle"
    BY DEF Ended, At, CounterInv, GoodFrame, GoodIn, Frame
  <2> QED BY <2>1 DEF Spares, MemberPlaces, AllPlaces
<1>4. CASE FlushCommand(c)
  <2>1. \A k \in Keys : DelKeys(Keys)[k] = None
    BY DEF DelKeys
  <2>2. Ended(c).at \notin EachPlaces
    BY DEF Ended, At, CounterInv, GoodFrame, GoodIn, Frame, EachPlaces
  <2> QED BY <1>2, <1>4, <2>1, <2>2 DEF FlushCommand
<1>5. CASE ScanCommand(c)
  <2>1. PICK place \in AllPlaces :
          Sends(c, kv, sets, IF Stored = {} THEN Ended(c) ELSE [At(c, place) EXCEPT !.found = Stored], Ended(c))
    BY <1>5 DEF ScanCommand
  <2> DEFINE ok == IF Stored = {} THEN Ended(c) ELSE [At(c, place) EXCEPT !.found = Stored]
  <2>2. \/ ok.at = "idle" /\ ok = Ended(c)
        \/ ok.at \in AllPlaces /\ ok.found = Stored
    BY DEF Ended, At, CounterInv, GoodFrame, GoodIn, Frame
  <2> HIDE DEF ok
  <2>3. ok.at \notin EachPlaces
    BY <2>2 DEF EachPlaces, AllPlaces
  <2>4. \A k \in Keys : kv[k] # None => \A t \in Tags : Spares(ok, t, k)
    BY <1>3, <2>2 DEF Stored, Spares, MemberPlaces, AllPlaces
  <2>5. Sends(c, kv, sets, ok, Ended(c))
    BY <2>1 DEF ok
  <2> QED BY <1>2, <2>3, <2>4, <2>5
<1>6. CASE AllCommand(c)
  <2>1. PICK place \in EachPlaces :
          Sends(c, DelKeys(frame[c].found), DelSets(frame[c].found), Ended(c), At(c, place))
    BY <1>6 DEF AllCommand
  <2>2. Ended(c).at \notin EachPlaces
    BY DEF Ended, At, CounterInv, GoodFrame, GoodIn, Frame, EachPlaces
  <2>3. ASSUME NEW k \in Keys, DelKeys(frame[c].found)[k] # None, NEW t \in Tags,
               k \in sets[t].members, Spares(frame[c], t, k)
        PROVE  k \in DelSets(frame[c].found)[t].members
    <3>1. k \notin frame[c].found
      BY <2>3 DEF DelKeys
    <3>2. t \notin frame[c].found
      BY <1>6, <2>3, <3>1 DEF AllCommand, Spares
    <3> QED BY <2>3, <3>2 DEF DelSets
  <2> QED BY <1>2, <1>3, <2>1, <2>2, <2>3
<1>7. CASE EachCommand(c)
  <2>1. PICK n, then : Sends(c, DelKeys({n}), DelSets({n}), then, then)
    BY <1>7 DEF EachCommand
  <2>2. frame[c].at \in EachPlaces
    BY <1>7 DEF EachCommand
  <2>3. \A d \in Clients : doomed[d] = {}
    BY <2>2 DEF DoomInv
  <2> QED BY <1>2, <2>1, <2>2, <2>3
<1> QED BY <1>4, <1>5, <1>6, <1>7

\* The loop over the tags: the tag that is taken is as much ahead as before.
LEMMA DoomLooped ==
  ASSUME CounterInv, ServerTypeOK, DoomInv, NEW c \in Clients, LoopStep(c)
  PROVE  DoomInv'
<1>1. kv' = kv /\ sets' = sets /\ doomed' = doomed /\ KeepDoomed
  BY DEF LoopStep, serverVars, historyVars, KeepDoomed, ServerTypeOK
<1>2. frame[c] \in Frame /\ frame[c].at \in LoopPlaces
  BY DEF LoopStep, CounterInv, GoodFrame, GoodIn
<1>3. PICK f : /\ Goes(c, f) /\ f.use = frame[c].use
               /\ f.at \notin MemberPlaces \union AllPlaces \union EachPlaces
               /\ \/ frame[c].tags = {}
                  \/ /\ f.at \in FindPlaces \union TagPlaces /\ f.tag \in frame[c].tags /\ f.tags = frame[c].tags \ {f.tag}
                     /\ f.at \in FindPlaces <=> f.use # "add_tags"
  <2>1. CASE frame[c].tags = {}
    <3>1. PICK place \in {"idle"} \union PublishPlaces : Goes(c, At(c, place))
      BY <2>1 DEF LoopStep
    <3>2. At(c, place).use = frame[c].use /\ At(c, place).at = place
      BY <1>2 DEF At, Frame
    <3>3. place \notin MemberPlaces \union AllPlaces \union EachPlaces
      BY DEF MemberPlaces, AllPlaces, EachPlaces, PublishPlaces
    <3> QED BY <2>1, <3>1, <3>2, <3>3
  <2>2. CASE frame[c].tags # {}
    <3>1. PICK t \in frame[c].tags, place \in FindPlaces \union TagPlaces :
             /\ place \in FindPlaces <=> frame[c].use # "add_tags"
             /\ Goes(c, [frame[c] EXCEPT !.at = place, !.tag = t, !.tags = @ \ {t}])
      BY <2>2 DEF LoopStep
    <3> DEFINE f == [frame[c] EXCEPT !.at = place, !.tag = t, !.tags = @ \ {t}]
    <3>2. f.use = frame[c].use /\ f.at = place /\ f.tag = t /\ f.tags = frame[c].tags \ {t}
      BY <1>2 DEF Frame
    <3>3. place \notin MemberPlaces \union AllPlaces \union EachPlaces
      BY DEF MemberPlaces, AllPlaces, EachPlaces, FindPlaces, TagPlaces, LifePlaces
    <3> HIDE DEF f
    <3> QED BY <3>1, <3>2, <3>3 DEF f
  <2> QED BY <2>1, <2>2
<1>4. frame'[c] = f /\ \A d \in Clients \ {c} : frame'[d] = frame[d]
  BY <1>3 DEF Goes, ServerTypeOK
<1>5. ASSUME NEW d \in Clients, NEW k, StillToGo(d, k) PROVE StillToGo(d, k)'
  <2>1. \A t : Spares(f, t, k)
    BY <1>3 DEF Spares
  <2>2. frame[c].at \notin MemberPlaces \union FindPlaces
    BY <1>2 DEF LoopPlaces, MemberPlaces, FindPlaces
  <2>3. ASSUME d = c
        PROVE  /\ f.use = "invalidate_tags" /\ f.at # "idle" /\ f.at \notin PublishPlaces
               /\ \A t \in Tags : Ahead(frame[c], t) => Ahead(f, t)
    <3>1. PICK u \in Tags : Ahead(frame[c], u)
      BY <1>5, <2>2, <2>3 DEF StillToGo
    <3>2. frame[c].tags # {} /\ f.use = "invalidate_tags"
      BY <1>3, <1>5, <2>2, <2>3, <3>1 DEF Ahead, StillToGo
    <3>3. f.at \in FindPlaces /\ f.tags = frame[c].tags \ {f.tag}
      BY <1>3, <3>2
    <3> QED BY <2>2, <3>2, <3>3 DEF Ahead, FindPlaces, PublishPlaces
  <2> QED BY <1>1, <1>4, <1>5, <2>1, <2>2, <2>3, StillCarried
<1> QED BY <1>1, <1>3, <1>5, DoomCarried

\* The members that are found are to be deleted, and of what is under the tag
\* all are found.
LEMMA DoomFound ==
  ASSUME CounterInv, ServerTypeOK, DoomInv, NEW c \in Clients, FindCommand(c)
  PROVE  DoomInv'
<1>0. frame[c].at \in FindPlaces /\ Deleting(c) /\ frame[c] \in Frame /\ frame[c].use = "invalidate_tags"
  <2>1. frame[c].at \in FindPlaces /\ frame[c].at # "idle"
    BY DEF FindCommand, FindPlaces
  <2> QED BY <2>1, UseOfPlace, DeletingPlaces DEF CounterInv, GoodFrame, GoodIn
<1>1. PICK place \in MemberPlaces :
        Sends(c, kv, sets, [At(c, place) EXCEPT !.found = sets[frame[c].tag].members],
                           [At(c, place) EXCEPT !.found = {}])
  BY DEF FindCommand
<1> DEFINE ok  == [At(c, place) EXCEPT !.found = sets[frame[c].tag].members]
           err == [At(c, place) EXCEPT !.found = {}]
<1>2. /\ ok.at = place /\ ok.found = sets[frame[c].tag].members /\ ok.tag = frame[c].tag
      /\ ok.tags = frame[c].tags /\ ok.use = frame[c].use
  BY <1>0 DEF At, Frame
<1>3. CASE Fails(c, kv, sets, err)
  BY <1>0, <1>3, FailedDeletion
<1>4. CASE Answered(c, kv, sets, ok)
  <2> HIDE DEF ok
  <2>1. frame'[c] = ok /\ (\A d \in Clients \ {c} : frame'[d] = frame[d]) /\ sets' = sets
    BY <1>4 DEF Answered, Goes, ServerTypeOK
  <2>2. ok.at \notin AllPlaces \union EachPlaces \union PublishPlaces \union {"idle"} /\ frame[c].at \notin MemberPlaces
    BY <1>0, <1>2 DEF MemberPlaces, AllPlaces, EachPlaces, PublishPlaces, FindPlaces
  <2>3. ASSUME NEW d \in Clients, NEW k, StillToGo(d, k) PROVE StillToGo(d, k)'
    <3>1. \A t \in Tags : k \in sets[t].members => Spares(ok, t, k)
      BY <1>2, <2>2 DEF Spares
    <3>2. \A t \in Tags : Ahead(frame[c], t) /\ k \in sets[t].members
                          => Ahead(ok, t) \/ (ok.at \in MemberPlaces /\ k \in ok.found)
      BY <1>2 DEF Ahead
    <3> QED BY <1>0, <1>2, <2>1, <2>2, <2>3, <3>1, <3>2, StillCarried
  <2> QED BY <1>4, <2>2, <2>3, DoomCarried DEF Answered
<1> QED BY <1>1, <1>3, <1>4 DEF Sends

\* A member is deleted, or the set when all that were found are.
LEMMA DoomDeleted ==
  ASSUME CounterInv, ServerTypeOK, DoomInv, NEW c \in Clients, MemberCommand(c)
  PROVE  DoomInv'
<1>0. frame[c].at \in MemberPlaces /\ Deleting(c) /\ frame[c] \in Frame /\ frame[c].use = "invalidate_tags"
  <2>1. frame[c].at \in MemberPlaces /\ frame[c].at # "idle"
    BY DEF MemberCommand, MemberPlaces
  <2> QED BY <2>1, UseOfPlace, DeletingPlaces DEF CounterInv, GoodFrame, GoodIn
<1>1. CASE frame[c].found = {}
  <2>1. PICK place \in LoopPlaces : Sends(c, kv, DelSets({frame[c].tag}), At(c, place), At(c, place))
    BY <1>1 DEF MemberCommand
  <2> DEFINE ok == At(c, place)
  <2>2. ok.at = place /\ ok.tags = frame[c].tags /\ ok.use = frame[c].use
    BY <1>0 DEF At, Frame
  <2>3. CASE Fails(c, kv, DelSets({frame[c].tag}), ok)
    BY <1>0, <2>3, FailedDeletion
  <2>4. CASE Answered(c, kv, DelSets({frame[c].tag}), ok)
    <3> HIDE DEF ok
    <3>1. /\ frame'[c] = ok /\ \A d \in Clients \ {c} : frame'[d] = frame[d]
          /\ \A t \in Tags \ {frame[c].tag} : sets'[t] = sets[t]
      BY <2>4 DEF Answered, Goes, ServerTypeOK, DelSets
    <3>2. /\ ok.at \notin MemberPlaces \union AllPlaces \union EachPlaces \union PublishPlaces \union {"idle"}
          /\ frame[c].at \notin FindPlaces
      BY <1>0, <2>2 DEF MemberPlaces, AllPlaces, EachPlaces, PublishPlaces, LoopPlaces, FindPlaces
    <3>3. ASSUME NEW d \in Clients, NEW k, StillToGo(d, k) PROVE StillToGo(d, k)'
      <4>1. \A t \in Tags : k \in sets[t].members /\ Spares(frame[c], t, k)
                            => k \in sets'[t].members /\ Spares(ok, t, k)
        BY <1>0, <1>1, <3>1, <3>2 DEF Spares
      <4>2. \A t \in Tags : Ahead(frame[c], t) => Ahead(ok, t)
        BY <2>2, <3>2 DEF Ahead
      <4> QED BY <1>0, <1>1, <2>2, <3>1, <3>2, <3>3, <4>1, <4>2, StillCarried
    <3> QED BY <2>4, <3>2, <3>3, DoomCarried DEF Answered
  <2> QED BY <2>1, <2>3, <2>4 DEF Sends
<1>2. CASE frame[c].found # {}
  <2>1. PICK n \in frame[c].found : LET then == [frame[c] EXCEPT !.found = @ \ {n}]
                                    IN Sends(c, DelKeys({n}), sets, then, then)
    BY <1>2 DEF MemberCommand
  <2> DEFINE ok == [frame[c] EXCEPT !.found = @ \ {n}]
  <2>2. /\ ok.at = frame[c].at /\ ok.tags = frame[c].tags /\ ok.tag = frame[c].tag /\ ok.use = frame[c].use
        /\ ok.found = frame[c].found \ {n}
    BY <1>0 DEF Frame
  <2>3. CASE Fails(c, DelKeys({n}), sets, ok)
    BY <1>0, <2>3, FailedDeletion
  <2>4. CASE Answered(c, DelKeys({n}), sets, ok)
    <3> HIDE DEF ok
    <3>1. /\ frame'[c] = ok /\ \A d \in Clients \ {c} : frame'[d] = frame[d]
          /\ sets' = sets /\ kv' = DelKeys({n})
      BY <2>4 DEF Answered, Goes, ServerTypeOK
    <3>2. frame[c].at \notin AllPlaces \union EachPlaces \union PublishPlaces \union FindPlaces \union {"idle"}
      BY <1>0 DEF MemberPlaces, AllPlaces, EachPlaces, PublishPlaces, FindPlaces
    <3>3. ASSUME NEW d \in Clients, NEW k \in Keys, kv'[k] # None, StillToGo(d, k) PROVE StillToGo(d, k)'
      <4>0. k # n
        BY <3>1, <3>3 DEF DelKeys
      <4>1. \A t \in Tags : Spares(frame[c], t, k) => Spares(ok, t, k)
        BY <2>2, <4>0 DEF Spares
      <4>2. \A t \in Tags : Ahead(frame[c], t) => Ahead(ok, t)
        BY <2>2 DEF Ahead
      <4> QED BY <1>0, <2>2, <3>1, <3>2, <3>3, <4>0, <4>1, <4>2, StillCarried
    <3> QED BY <2>2, <2>4, <3>2, <3>3, DoomCarried DEF Answered
  <2> QED BY <2>1, <2>3, <2>4 DEF Sends
<1> QED BY <1>1, <1>2

\* What was under a set that fades is not doomed any more.
LEMMA DoomTick ==
  ASSUME ServerTypeOK, DoomInv, Tick
  PROVE  DoomInv'
<1> DEFINE Gone(e) == e # None /\ e <= now + 1
           dead    == {k \in Keys : IF kv[k] = None THEN FALSE ELSE Gone(kv[k].exp)}
           fading  == {t \in Tags : Gone(sets[t].exp)}
<1>1. /\ kv' = DelKeys(dead) /\ sets' = DelSets(fading) /\ frame' = frame
      /\ doomed' = [c \in Clients |-> doomed[c] \ UNION {sets[t].members : t \in fading}]
  BY DEF Tick
<1> HIDE DEF dead, fading
<1>2. ASSUME NEW c \in Clients, NEW k \in doomed'[c], kv'[k] # None PROVE StillToGo(c, k)'
  <2>1. k \in doomed[c] /\ k \in Keys /\ \A t \in fading : k \notin sets[t].members
    BY <1>1, <1>2 DEF ServerTypeOK
  <2>2. kv[k] # None
    BY <1>1, <1>2, <2>1 DEF DelKeys
  <2>3. StillToGo(c, k)
    BY <2>1, <2>2 DEF DoomInv
  <2>4. CASE frame[c].at \in MemberPlaces /\ k \in frame[c].found
    BY <1>1, <2>3, <2>4 DEF StillToGo
  <2>5. CASE \E t \in Tags : /\ Ahead(frame[c], t) /\ k \in sets[t].members
                             /\ \A e \in Clients : Spares(frame[e], t, k)
    <3>1. PICK t \in Tags : /\ Ahead(frame[c], t) /\ k \in sets[t].members
                            /\ \A e \in Clients : Spares(frame[e], t, k)
      BY <2>5
    <3>2. k \in sets'[t].members
      BY <1>1, <2>1, <3>1 DEF DelSets
    <3>3. /\ Ahead(frame[c], t)' /\ \A e \in Clients : Spares(frame[e], t, k)'
      BY <1>1, <3>1 DEF Ahead, Spares
    <3> QED BY <1>1, <2>3, <3>2, <3>3 DEF StillToGo
  <2> QED BY <2>3, <2>4, <2>5 DEF StillToGo
<1>3. ASSUME NEW d \in Clients, frame'[d].at \in EachPlaces, NEW e \in Clients PROVE doomed'[e] = {}
  BY <1>1, <1>3 DEF DoomInv
<1> QED BY <1>2, <1>3 DEF DoomInv

\* A call that dies midway is no deletion, or nothing is doomed any more.
LEMMA DoomDies ==
  ASSUME CounterInv, ServerTypeOK, DoomInv, NEW c \in Clients, Dies(c)
  PROVE  DoomInv'
<1> DEFINE f == [Ended(c) EXCEPT !.clean = FALSE]
<1>1. f.at = "idle"
  BY DEF Ended, At, CounterInv, GoodFrame, GoodIn, Frame
<1>2. CASE Deleting(c)
  BY <1>2, DoomForgotten DEF Dies
<1>3. CASE ~Deleting(c)
  <2>1. \A d \in Clients : Dooms(d)
    BY <1>3 DEF Dies, Dooms, serverVars
  <2>2. Goes(c, f) /\ \A t \in Tags : sets[t].members \subseteq sets'[t].members
    BY DEF Dies, serverVars
  <2>3. frame[c].use # "invalidate_tags"
    BY <1>3 DEF Dies, Deleting
  <2> HIDE DEF f
  <2> QED BY <1>1, <2>1, <2>2, <2>3, DoomSpared DEF MemberPlaces, AllPlaces, EachPlaces
<1> QED BY <1>2, <1>3

\* An invalidation begins, and dooms what is tagged, if no other call deletes
\* sets; another call begins at a place where it has deleted nothing.
LEMMA DoomInvoked ==
  ASSUME CounterInv, CounterInv', ServerTypeOK, DoomInv, NEW c \in Clients, Invokes(c)
  PROVE  DoomInv'
<1>1. PICK k \in Keys : \E m \in uses[k].does, T \in SUBSET Tags, ttl \in uses[k].ttls :
        Invoke(c, m, k, T, ttl, IF c \in SyncClients THEN SyncStart(m) ELSE AsyncStart(m, ttl))
  BY DEF Invokes
<1>2. PICK m \in uses[k].does, T \in SUBSET Tags, ttl \in uses[k].ttls :
        Invoke(c, m, k, T, ttl, IF c \in SyncClients THEN SyncStart(m) ELSE AsyncStart(m, ttl))
  BY <1>1
<1> DEFINE place == IF c \in SyncClients THEN SyncStart(m) ELSE AsyncStart(m, ttl)
           f == [NoCall EXCEPT !.at = place, !.use = m, !.key = k, !.tags = T, !.ttl = ttl]
           X == {j \in UNION {sets[t].members : t \in T} : kv[j] # None}
<1>3. place \notin MemberPlaces \union AllPlaces \union EachPlaces \union PublishPlaces \union {"idle"}
  <2>1. m \in Methods
    BY WorkloadType
  <2> QED BY <2>1 DEF SyncStart, AsyncStart, Methods, MemberPlaces, AllPlaces, EachPlaces, PublishPlaces
<1>4. Invoke(c, m, k, T, ttl, place)
  BY <1>2
<1> HIDE DEF place
<1>5. f.at = place /\ f.use = m /\ f.tags = T
  BY DEF NoCall
<1>6. frame'[c] = f /\ \A d \in Clients \ {c} : frame'[d] = frame[d]
  BY <1>4 DEF Invoke, Goes, ServerTypeOK
<1>7. /\ kv' = kv /\ sets' = sets /\ \A d \in Clients \ {c} : doomed'[d] = doomed[d]
      /\ doomed'[c] = IF m = "invalidate_tags" /\ ~ \E d \in Clients : Deleting(d) THEN X ELSE {}
  BY <1>4 DEF Invoke, serverVars, ServerTypeOK
<1> HIDE DEF f, X
<1>8. \A t, j : Spares(f, t, j)
  BY <1>3, <1>5 DEF Spares
<1>9. ASSUME NEW d \in Clients \ {c}, NEW j \in doomed'[d], kv'[j] # None PROVE StillToGo(d, j)'
  <2>1. StillToGo(d, j)
    BY <1>7, <1>9 DEF DoomInv
  <2> QED BY <1>6, <1>7, <1>8, <2>1, StillCarried
<1>10. ASSUME NEW j \in doomed'[c] PROVE StillToGo(c, j)'
  <2>1. m = "invalidate_tags" /\ j \in X /\ \A d \in Clients : ~Deleting(d)
    BY <1>7, <1>10
  <2>2. PICK t \in T : j \in sets[t].members
    BY <2>1 DEF X
  <2>3. t \in Tags /\ j \in sets'[t].members /\ Ahead(frame'[c], t)
    BY <1>5, <1>6, <1>7, <2>2 DEF Ahead
  <2>4. ASSUME NEW d \in Clients PROVE Spares(frame[d], t, j)'
    <3>1. CASE d = c
      BY <1>6, <1>8, <3>1 DEF Spares
    <3>2. CASE d # c
      BY <1>6, <2>1, <3>2, DeletingPlaces DEF Spares
    <3> QED BY <3>1, <3>2
  <2>5. frame'[c].use = "invalidate_tags" /\ frame'[c].at # "idle" /\ frame'[c].at \notin PublishPlaces
    BY <1>3, <1>5, <1>6, <2>1
  <2> QED BY <2>3, <2>4, <2>5 DEF StillToGo, Ahead
<1>11. ASSUME NEW d \in Clients, frame'[d].at \in EachPlaces, NEW e \in Clients PROVE doomed'[e] = {}
  <2>1. d # c /\ frame[d].at \in EachPlaces
    BY <1>3, <1>5, <1>6, <1>11
  <2>2. Deleting(d) /\ doomed[e] = {}
    BY <2>1, DeletingPlaces DEF DoomInv
  <2> QED BY <1>7, <2>2
<1> QED BY <1>9, <1>10, <1>11 DEF DoomInv

\* What concerns only subscribers.
LEMMA DoomOther ==
  ASSUME DoomInv, UNCHANGED clientVars
  PROVE  DoomInv'
BY DEF DoomInv, StillToGo, Ahead, Spares, clientVars, serverVars, historyVars

LEMMA DoomStep == CounterInv /\ CounterInv' /\ TypeOK /\ DoomInv /\ [Next]_vars => DoomInv'
<1> SUFFICES ASSUME CounterInv, CounterInv', TypeOK, DoomInv, [Next]_vars PROVE DoomInv'
  OBVIOUS
<1>1. ServerTypeOK
  BY DEF TypeOK
<1>2. ASSUME NEW c \in Clients, ClientStep(c) \/ PublishCommand(c) PROVE DoomInv'
  BY <1>1, <1>2, DoomUntouched, DoomCleared, DoomLooped, DoomFound, DoomDeleted DEF ClientStep
<1> QED BY <1>1, <1>2, NextSteps, DoomInvoked, DoomDies, DoomTick, DoomOther

\* An invalidation that began alone and met no error has removed what was
\* tagged when it began, and not been stored since, before it publishes or
\* returns: whoever tags, stores, clears, crashes or invalidates at the same time.
THEOREM InvalidationsRemove == Spec => []InvalidationRemoves
<1>1. Init => DoomInv
  BY DEF Init, ServerInit, DoomInv, NoCall, EachPlaces
<1>2. DoomInv => InvalidationRemoves
  BY DEF DoomInv, StillToGo, PublishPlaces, InvalidationRemoves
<1> QED BY <1>1, <1>2, DoomStep, TypesHold, CounterAlways, PTL DEF Spec
-----------------------------------------------------------------------------
(* What is owed to those who tag *)

\* The life that add_tags gives a set for a ttl.
Life(ttl) == IF ttl \in {None, 0} THEN None ELSE ttl

\* All who tag give the sets the same life: otherwise the last one decides.
SameLives ==
  \A w \in Workloads : \E x \in Nat \union {None} :
    \A k \in Keys : "add_tags" \in w[k].does => \A ttl \in w[k].ttls : Life(ttl) = x

TagLife(x) == \A k \in Use("add_tags") : \A ttl \in uses[k].ttls : Life(ttl) = x

\* With the tag sets S the tagging p is still there, and its set lives long enough.
Owing(S, x, p) ==
  /\ p[2] \in S[p[1]].members
  /\ IF x = None THEN p[3] = None
     ELSE p[3] \in Nat /\ p[3] <= now + x /\ (S[p[1]].exp = None \/ p[3] <= S[p[1]].exp)

\* The call f, if it deletes tag sets, does not delete that of p.
Passes(f, p) ==
  f.use \in {"invalidate_tags", "clear", "clear_all"} /\ f.at # "idle" =>
    /\ f.use = "invalidate_tags" /\ ~Ahead(f, p[1])
    /\ f.at \in MemberPlaces => p[1] # f.tag

\* The inductive invariant, for the life x.
OwedIn(x) ==
  /\ TagLife(x)
  /\ x = None => \A t \in Tags : sets[t].exp = None
  /\ \A p \in owed : Owing(sets, x, p) /\ \A d \in Clients : Passes(frame[d], p)

OwedInv == \E x \in Nat \union {None} : OwedIn(x)

\* Only the method, the place and the tags of a call matter.
LEMMA PassesLike ==
  ASSUME NEW f, NEW g, f.at = g.at, f.use = g.use, f.tags = g.tags, f.tag = g.tag, NEW p, Passes(g, p)
  PROVE  Passes(f, p)
BY DEF Passes, Ahead

\* A step of c that spares all that is owed.
LEMMA OwedStep ==
  ASSUME CounterInv, NEW c \in Clients, NEW x \in Nat \union {None}, OwedIn(x),
         \A d \in Clients \ {c} : frame'[d] = frame[d], uses' = uses, now' = now,
         x = None => \A t \in Tags : sets'[t].exp = None,
         \A p \in owed' : Owing(sets', x, p) /\ Passes(frame'[c], p) /\ \A d \in Clients \ {c} : Passes(frame[d], p)
  PROVE  OwedIn(x)'
<1>1. TagLife(x)'
  BY DEF TagLife, OwedIn, Use
<1>2. ASSUME NEW p \in owed' PROVE Owing(sets, x, p)' /\ \A d \in Clients : Passes(frame[d], p)'
  <2>1. Owing(sets, x, p)'
    <3>1. Owing(sets', x, p)
      BY <1>2
    <3> QED BY <3>1 DEF Owing
  <2>2. ASSUME NEW d \in Clients PROVE Passes(frame[d], p)'
    <3>1. Passes(frame'[d], p)
      BY <1>2
    <3> QED BY <3>1 DEF Passes, Ahead
  <2> QED BY <2>1, <2>2
<1> QED BY <1>1, <1>2 DEF OwedIn

\* A command that leaves the sets S and what is owed.
LEMMA OwedCommand ==
  ASSUME CounterInv, CounterInv', NEW c \in Clients, NEW x \in Nat \union {None}, OwedIn(x),
         NEW K, NEW S, NEW ok, NEW err, Command(c, K, S, ok, err), owed' = owed,
         x = None => \A t \in Tags : S[t].exp = None,
         \A p \in owed : Owing(S, x, p) /\ Passes(ok, p) /\ Passes(err, p)
  PROVE  OwedIn(x)'
<1>1. PICK f : /\ Goes(c, f) /\ frame'[c] = f /\ \A d \in Clients \ {c} : frame'[d] = frame[d]
               /\ \E g \in {ok, err} : f.at = g.at /\ f.use = g.use /\ f.tags = g.tags /\ f.tag = g.tag
  BY CommandFrame
<1>2. \A p \in owed : Passes(f, p)
  BY <1>1, PassesLike
<1>3. uses' = uses /\ now' = now /\ (sets' = S \/ sets' = sets)
  BY DEF Command, Answered, Fails, serverVars
<1> QED BY <1>1, <1>2, <1>3, OwedStep DEF OwedIn

\* An idle call deletes nothing.
LEMMA EndedPasses ==
  ASSUME CounterInv, NEW c \in Clients
  PROVE  \A p : Passes(Ended(c), p)
<1>1. Ended(c).at = "idle"
  BY DEF Ended, At, CounterInv, GoodFrame, GoodIn, Frame
<1> QED BY <1>1 DEF Passes

\* Commands on keys, and the last one of an invalidation.
LEMMA OwedByKeys ==
  ASSUME CounterInv, CounterInv', NEW c \in Clients, NEW x \in Nat \union {None}, OwedIn(x),
         KeyCommand(c) \/ PublishCommand(c)
  PROVE  OwedIn(x)'
<1>1. CASE KeyCommand(c)
  <2>1. PICK K, ok, err : Command(c, K, sets, ok, err) /\ ok.use = frame[c].use /\ err.use = frame[c].use
    BY <1>1 DEF KeyCommand
  <2>2. frame[c].use \notin {"invalidate_tags", "clear", "clear_all"}
    BY <1>1, KeyCommandUse
  <2>3. \A p : Passes(ok, p) /\ Passes(err, p)
    BY <2>1, <2>2 DEF Passes
  <2> QED BY <1>1, <2>1, <2>3, OwedCommand DEF KeyCommand, OwedIn
<1>2. CASE PublishCommand(c)
  BY <1>2, EndedPasses, OwedCommand DEF PublishCommand, Sends, Command, OwedIn
<1> QED BY <1>1, <1>2

\* A clear has made all that was owed void.
LEMMA OwedByClear ==
  ASSUME CounterInv, CounterInv', NEW c \in Clients, NEW x \in Nat \union {None}, OwedIn(x),
         FlushCommand(c) \/ ScanCommand(c) \/ AllCommand(c) \/ EachCommand(c)
  PROVE  OwedIn(x)'
<1>1. frame[c].at \in ClearPlaces /\ frame[c].at # "idle"
  BY DEF FlushCommand, ScanCommand, AllCommand, EachCommand, ClearPlaces, ScanPlaces, AllPlaces, EachPlaces
<1>2. frame[c].use \in {"clear", "clear_all"}
  BY <1>1, UseOfPlace DEF CounterInv, GoodFrame, GoodIn
<1>3. owed = {}
  BY <1>1, <1>2 DEF OwedIn, Passes
<1>4. \A N : x = None => \A t \in Tags : DelSets(N)[t].exp = None
  BY DEF OwedIn, DelSets, NoSet
<1>5. PICK K, S, ok, err : Sends(c, K, S, ok, err) /\ (x = None => \A t \in Tags : S[t].exp = None)
  BY <1>4 DEF FlushCommand, ScanCommand, AllCommand, EachCommand, OwedIn
<1> QED BY <1>3, <1>5, OwedCommand DEF Sends, Command

\* The loop over the tags.
LEMMA OwedByLoop ==
  ASSUME CounterInv, NEW c \in Clients, NEW x \in Nat \union {None}, OwedIn(x), LoopStep(c)
  PROVE  OwedIn(x)'
<1>1. /\ sets' = sets /\ owed' = owed /\ uses' = uses /\ now' = now
      /\ frame[c] \in Frame /\ frame[c].at \in LoopPlaces /\ DOMAIN frame = Clients
  BY DEF LoopStep, serverVars, historyVars, CounterInv, GoodFrame, GoodIn
<1>2. frame[c].at # "idle" /\ frame[c].at \notin FindPlaces \union MemberPlaces
  BY <1>1 DEF LoopPlaces, FindPlaces, MemberPlaces
<1>3. CASE frame[c].tags = {}
  <2>1. PICK place \in {"idle"} \union PublishPlaces : Goes(c, At(c, place))
    BY <1>3 DEF LoopStep
  <2>2. At(c, place).use = frame[c].use /\ At(c, place).at = place /\ At(c, place).tags = {}
    BY <1>1, <1>3 DEF At, Frame
  <2>3. place \notin MemberPlaces \union FindPlaces
    BY DEF MemberPlaces, FindPlaces, PublishPlaces
  <2>4. \A p \in owed : Passes(At(c, place), p)
    BY <1>2, <2>2, <2>3 DEF Passes, Ahead, OwedIn
  <2>5. frame'[c] = At(c, place) /\ \A d \in Clients \ {c} : frame'[d] = frame[d]
    BY <1>1, <2>1 DEF Goes
  <2> QED BY <1>1, <2>4, <2>5, OwedStep DEF OwedIn
<1>4. CASE frame[c].tags # {}
  <2>1. PICK t \in frame[c].tags, place \in FindPlaces \union TagPlaces :
           Goes(c, [frame[c] EXCEPT !.at = place, !.tag = t, !.tags = @ \ {t}])
    BY <1>4 DEF LoopStep
  <2> DEFINE f == [frame[c] EXCEPT !.at = place, !.tag = t, !.tags = @ \ {t}]
  <2>2. f.use = frame[c].use /\ f.at = place /\ f.tag = t /\ f.tags = frame[c].tags \ {t}
    BY <1>1 DEF Frame
  <2>3. place \notin MemberPlaces
    BY DEF MemberPlaces, FindPlaces, TagPlaces, LifePlaces
  <2>5. frame'[c] = f /\ \A d \in Clients \ {c} : frame'[d] = frame[d]
    BY <1>1, <2>1 DEF Goes
  <2> HIDE DEF f
  <2>4. \A p \in owed : Passes(f, p)
    BY <1>2, <2>2, <2>3 DEF Passes, Ahead, OwedIn
  <2> QED BY <1>1, <2>4, <2>5, OwedStep DEF OwedIn
<1> QED BY <1>3, <1>4

\* An invalidation deletes only sets in which nothing is owed.
LEMMA OwedByInvalidation ==
  ASSUME CounterInv, CounterInv', ServerTypeOK, NEW c \in Clients, NEW x \in Nat \union {None}, OwedIn(x),
         FindCommand(c) \/ MemberCommand(c)
  PROVE  OwedIn(x)'
<1>0. frame[c] \in Frame /\ frame[c].use = "invalidate_tags" /\ frame[c].at # "idle"
  <2>1. frame[c].at \in FindPlaces \union MemberPlaces /\ frame[c].at # "idle"
    BY DEF FindCommand, MemberCommand, FindPlaces, MemberPlaces
  <2> QED BY <2>1, UseOfPlace DEF CounterInv, GoodFrame, GoodIn
<1>1. \A p \in owed : Passes(frame[c], p)
  BY DEF OwedIn
<1>2. CASE FindCommand(c)
  <2>1. PICK place \in MemberPlaces :
          Sends(c, kv, sets, [At(c, place) EXCEPT !.found = sets[frame[c].tag].members],
                             [At(c, place) EXCEPT !.found = {}])
    BY <1>2 DEF FindCommand
  <2>2. ASSUME NEW N, NEW p \in owed PROVE Passes([At(c, place) EXCEPT !.found = N], p)
    <3> DEFINE f == [At(c, place) EXCEPT !.found = N]
    <3>1. f.at = place /\ f.tag = frame[c].tag /\ f.tags = frame[c].tags /\ f.use = frame[c].use
      BY <1>0 DEF At, Frame
    <3>2. frame[c].at \in FindPlaces /\ place \notin FindPlaces
      BY <1>2 DEF FindCommand, FindPlaces, MemberPlaces
    <3> HIDE DEF f
    <3>3. Passes(f, p)
      BY <1>0, <1>1, <3>1, <3>2 DEF Passes, Ahead
    <3> QED BY <3>3 DEF f
  <2> DEFINE ok  == [At(c, place) EXCEPT !.found = sets[frame[c].tag].members]
             err == [At(c, place) EXCEPT !.found = {}]
  <2>3. \A p \in owed : Passes(ok, p) /\ Passes(err, p)
    BY <2>2
  <2>4. Command(c, kv, sets, ok, err) /\ owed' = owed
    BY <2>1 DEF Sends, Command
  <2>5. (x = None => \A t \in Tags : sets[t].exp = None) /\ \A p \in owed : Owing(sets, x, p)
    BY DEF OwedIn
  <2> HIDE DEF ok, err
  <2> QED BY <2>3, <2>4, <2>5, OwedCommand
<1>3. CASE MemberCommand(c) /\ frame[c].found = {}
  <2>1. PICK place \in LoopPlaces : Sends(c, kv, DelSets({frame[c].tag}), At(c, place), At(c, place))
    BY <1>3 DEF MemberCommand
  <2>2. frame[c].at \in MemberPlaces /\ place \notin FindPlaces \union MemberPlaces
    BY <1>3 DEF MemberCommand, FindPlaces, MemberPlaces, LoopPlaces
  <2>3. At(c, place).at = place /\ At(c, place).tags = frame[c].tags /\ At(c, place).use = frame[c].use
    BY <1>0 DEF At, Frame
  <2>4. \A p \in owed : Passes(At(c, place), p)
    BY <1>0, <1>1, <2>2, <2>3 DEF Passes, Ahead
  <2>5. x = None => \A t \in Tags : DelSets({frame[c].tag})[t].exp = None
    BY DEF OwedIn, DelSets, NoSet
  <2>6. ASSUME NEW p \in owed PROVE Owing(DelSets({frame[c].tag}), x, p)
    <3>1. p[1] \in Tags /\ p[1] # frame[c].tag
      BY <1>0, <1>1, <2>2 DEF Passes, ServerTypeOK
    <3>2. DelSets({frame[c].tag})[p[1]] = sets[p[1]]
      BY <3>1 DEF DelSets
    <3> QED BY <3>2 DEF Owing, OwedIn
  <2>7. Command(c, kv, DelSets({frame[c].tag}), At(c, place), At(c, place)) /\ owed' = owed
    BY <2>1 DEF Sends, Command
  <2> QED BY <2>4, <2>5, <2>6, <2>7, OwedCommand
<1>4. CASE MemberCommand(c) /\ frame[c].found # {}
  <2>1. PICK n \in frame[c].found : LET then == [frame[c] EXCEPT !.found = @ \ {n}]
                                    IN Sends(c, DelKeys({n}), sets, then, then)
    BY <1>4 DEF MemberCommand
  <2> DEFINE ok == [frame[c] EXCEPT !.found = @ \ {n}]
  <2>2. ok.at = frame[c].at /\ ok.tags = frame[c].tags /\ ok.tag = frame[c].tag /\ ok.use = frame[c].use
    BY <1>0 DEF Frame
  <2> HIDE DEF ok
  <2>3. \A p \in owed : Passes(ok, p)
    BY <1>1, <2>2, PassesLike
  <2>4. Sends(c, DelKeys({n}), sets, ok, ok)
    BY <2>1 DEF ok
  <2>5. Command(c, DelKeys({n}), sets, ok, ok) /\ owed' = owed
    BY <2>4 DEF Sends, Command
  <2>6. (x = None => \A t \in Tags : sets[t].exp = None) /\ \A p \in owed : Owing(sets, x, p)
    BY DEF OwedIn
  <2> QED BY <2>3, <2>5, <2>6, OwedCommand
<1> QED BY <1>2, <1>3, <1>4

\* What is added to a set is not lost, and the last one who sets its life gives
\* it the life that all give.
LEMMA OwedByTagging ==
  ASSUME CounterInv, CounterInv', ServerTypeOK, NEW c \in Clients, NEW x \in Nat \union {None}, OwedIn(x),
         AddCommand(c) \/ LifeCommand(c)
  PROVE  OwedIn(x)'
<1> DEFINE f == frame[c]
<1>0. f \in Frame /\ f.use = "add_tags" /\ f.at # "idle" /\ f.tag \in Tags
  <2>1. f.at \in TagPlaces /\ f.at # "idle"
    BY DEF AddCommand, LifeCommand, TagPlaces, LifePlaces
  <2> QED BY <2>1, UseOfPlace DEF CounterInv, GoodFrame, GoodIn
<1>1. f.key \in Keys /\ f.ttl \in Nat \union {None} /\ f.ttl \in uses[f.key].ttls /\ now \in Nat /\ None \notin Nat
  BY <1>0, CallArguments, ServerAssumption
<1>2. Life(f.ttl) = x
  <2>1. f.key \in Use("add_tags")
    BY <1>0, <1>1, CallArguments DEF Use
  <2> QED BY <1>1, <2>1 DEF OwedIn, TagLife
<1>3. sets[f.tag] \in TagSet /\ (sets[f.tag] = NoSet => sets[f.tag].members = {}) /\ DOMAIN sets = Tags
  BY <1>0 DEF ServerTypeOK, NoSet
<1>4. \A p \in owed : p[1] \in Tags /\ Owing(sets, x, p)
  BY DEF OwedIn, ServerTypeOK
\* The call goes on as one of add_tags.
<1>5. ASSUME NEW K, NEW S, NEW ok, NEW err, Command(c, K, S, ok, err), ok.use = f.use, err.use = f.use
      PROVE  /\ \A d \in Clients \ {c} : frame'[d] = frame[d]
             /\ uses' = uses /\ now' = now /\ sets' \in {S, sets}
             /\ \A p : Passes(frame'[c], p)
  <2>1. (\A d \in Clients \ {c} : frame'[d] = frame[d]) /\ frame'[c].use = "add_tags"
    BY <1>0, <1>5, CommandFrame
  <2> QED BY <1>5, <2>1 DEF Passes, Command, Answered, Fails, serverVars
<1>6. \A place : At(c, place).use = f.use
  BY SameUse
\* What is owed besides is so if nothing deletes sets.
<1>7. ASSUME NEW q, NEW p \in owed \union {q}, p \in owed \/ ~ \E d \in Clients : Deleting(d)
      PROVE  \A d \in Clients : Passes(frame[d], p)
  BY <1>7 DEF OwedIn, Passes, Deleting
<1>8. CASE AddCommand(c)
  <2> DEFINE S == AddMember(f.tag, f.key)
             q == <<f.tag, f.key, None>>
  <2>1. PICK loop \in LoopPlaces, life \in LifePlaces :
          \/ /\ Answered(c, kv, S, At(c, IF f.ttl \in {None, 0} THEN loop ELSE life))
             /\ owed' = IF f.ttl \notin {None, 0} \/ \E d \in Clients : Deleting(d) THEN owed ELSE owed \union {q}
          \/ Fails(c, kv, S, At(c, loop)) /\ UNCHANGED owed
    BY <1>8 DEF AddCommand
  <2>2. /\ \A t \in Tags : sets[t].members \subseteq S[t].members /\ S[t].exp = sets[t].exp
        /\ f.key \in S[f.tag].members
    BY <1>0, <1>3 DEF AddMember, ServerTypeOK, TagSet
  <2> HIDE DEF S
  <2>3. /\ \A d \in Clients \ {c} : frame'[d] = frame[d]
        /\ uses' = uses /\ now' = now /\ sets' \in {S, sets}
        /\ \A p : Passes(frame'[c], p)
    BY <1>5, <1>6, <2>1 DEF Command
  <2>4. \A p \in owed : Owing(S, x, p)
    BY <1>4, <2>2 DEF Owing
  <2>5. x = None => \A t \in Tags : S[t].exp = None
    BY <2>2 DEF OwedIn
  <2>6. CASE owed' = owed
    <3>1. \A p \in owed : Owing(sets', x, p) /\ \A d \in Clients : Passes(frame[d], p)
      BY <1>4, <2>3, <2>4 DEF OwedIn
    <3>2. x = None => \A t \in Tags : sets'[t].exp = None
      BY <2>3, <2>5 DEF OwedIn
    <3> QED BY <2>3, <2>6, <3>1, <3>2, OwedStep
  <2>7. CASE owed' # owed
    <3>1. /\ sets' = S /\ owed' = owed \union {q} /\ f.ttl \in {None, 0}
          /\ ~ \E d \in Clients : Deleting(d)
      BY <2>1, <2>7 DEF Answered
    <3>2. Owing(S, x, q)
      BY <1>2, <2>2, <3>1 DEF Owing, Life
    <3> HIDE DEF q
    <3>3. \A p \in owed' : \A d \in Clients : Passes(frame[d], p)
      BY <1>7, <3>1
    <3> QED BY <2>3, <2>4, <2>5, <3>1, <3>2, <3>3, OwedStep
  <2> QED BY <2>6, <2>7
<1>9. CASE LifeCommand(c)
  <2> DEFINE e == Deadline(f.ttl)
             S == ExpireSet(f.tag, e)
             q == <<f.tag, f.key, e>>
  <2>1. PICK loop \in LoopPlaces :
          \/ /\ Answered(c, kv, S, At(c, loop))
             /\ owed' = IF f.key \notin S[f.tag].members \/ \E d \in Clients : Deleting(d) THEN owed
                        ELSE owed \union {q}
          \/ Fails(c, kv, S, At(c, loop)) /\ UNCHANGED owed
    BY <1>9 DEF LifeCommand
  <2>2. f.ttl \notin {None, 0}
    BY <1>9 DEF LifeCommand, CounterInv, GoodFrame, GoodIn
  <2>3. x = f.ttl /\ x # None /\ x \in Nat /\ e = now + x /\ e \in Nat
    BY <1>1, <1>2, <2>2 DEF Life, Deadline
  <2>4. /\ \A t \in Tags : S[t].members = sets[t].members /\ (S[t].exp = sets[t].exp \/ S[t].exp = e)
        /\ f.key \in S[f.tag].members => S[f.tag].exp = e
    BY <1>0, <1>3 DEF ExpireSet, ServerTypeOK, TagSet
  <2> HIDE DEF S, e
  <2>5. /\ \A d \in Clients \ {c} : frame'[d] = frame[d]
        /\ uses' = uses /\ now' = now /\ sets' \in {S, sets}
        /\ \A p : Passes(frame'[c], p)
    BY <1>5, <1>6, <2>1 DEF Command
  <2>6. \A p \in owed : Owing(S, x, p)
    BY <1>4, <2>3, <2>4 DEF Owing
  <2>7. CASE owed' = owed
    <3>1. \A p \in owed : Owing(sets', x, p) /\ \A d \in Clients : Passes(frame[d], p)
      BY <1>4, <2>5, <2>6 DEF OwedIn
    <3> QED BY <2>3, <2>5, <2>7, <3>1, OwedStep
  <2>8. CASE owed' # owed
    <3>1. sets' = S /\ owed' = owed \union {q} /\ f.key \in S[f.tag].members /\ ~ \E d \in Clients : Deleting(d)
      BY <2>1, <2>8 DEF Answered
    <3>2. Owing(S, x, q)
      BY <2>3, <2>4, <3>1 DEF Owing
    <3> HIDE DEF q
    <3>3. \A p \in owed' : \A d \in Clients : Passes(frame[d], p)
      BY <1>7, <3>1
    <3> QED BY <2>3, <2>5, <2>6, <3>1, <3>2, <3>3, OwedStep
  <2> QED BY <2>7, <2>8
<1> QED BY <1>8, <1>9

\* What is owed until later is in a set that does not fade.
LEMMA OwedTick ==
  ASSUME CounterInv, ServerTypeOK, NEW x \in Nat \union {None}, OwedIn(x), Tick
  PROVE  OwedIn(x)'
<1> DEFINE Gone(e) == e # None /\ e <= now + 1
           fading  == {t \in Tags : Gone(sets[t].exp)}
<1>0. now \in Nat /\ None \notin Nat
  BY ServerAssumption DEF CounterInv
<1>1. /\ now' = now + 1 /\ sets' = DelSets(fading) /\ owed' = {p \in owed : ~Gone(p[3])}
      /\ frame' = frame /\ uses' = uses
  BY DEF Tick
<1>2. TagLife(x)'
  BY <1>1 DEF OwedIn, TagLife, Use
<1>3. x = None => \A t \in Tags : sets'[t].exp = None
  BY <1>1 DEF OwedIn, DelSets, NoSet
<1>4. ASSUME NEW p \in owed' PROVE Owing(sets, x, p)' /\ \A d \in Clients : Passes(frame[d], p)'
  <2>1. p \in owed /\ ~Gone(p[3]) /\ p[1] \in Tags /\ Owing(sets, x, p)
    BY <1>1 DEF OwedIn, ServerTypeOK
  <2>2. sets[p[1]].exp \in Nat \union {None}
    BY <2>1 DEF ServerTypeOK, TagSet
  <2>3. p[1] \notin fading
    BY <1>0, <2>1, <2>2 DEF Owing, OwedIn
  <2>4. sets'[p[1]] = sets[p[1]]
    BY <1>1, <2>1, <2>3 DEF DelSets
  <2>5. Owing(sets, x, p)'
    BY <1>0, <1>1, <2>1, <2>4 DEF Owing
  <2>6. \A d \in Clients : Passes(frame[d], p)'
    BY <1>1, <2>1 DEF OwedIn, Passes, Ahead
  <2> QED BY <2>5, <2>6
<1> QED BY <1>2, <1>3, <1>4 DEF OwedIn

\* A call that begins or dies: an invalidation or a clear makes void what it
\* is to delete.
LEMMA OwedByCalls ==
  ASSUME CounterInv, ServerTypeOK, NEW c \in Clients, NEW x \in Nat \union {None}, OwedIn(x), Dies(c) \/ Invokes(c)
  PROVE  OwedIn(x)'
<1>1. CASE Dies(c)
  <2> DEFINE f == [Ended(c) EXCEPT !.clean = FALSE]
  <2>1. f.at = "idle"
    BY DEF Ended, At, CounterInv, GoodFrame, GoodIn, Frame
  <2>2. /\ frame'[c] = f /\ \A d \in Clients \ {c} : frame'[d] = frame[d]
        /\ sets' = sets /\ owed' = owed /\ uses' = uses /\ now' = now
    BY <1>1 DEF Dies, Goes, ServerTypeOK, serverVars
  <2> HIDE DEF f
  <2>3. \A p : Passes(frame'[c], p)
    BY <2>1, <2>2 DEF Passes
  <2> QED BY <2>2, <2>3, OwedStep DEF OwedIn
<1>2. CASE Invokes(c)
  <2>1. PICK k \in Keys : \E m \in uses[k].does, T \in SUBSET Tags, ttl \in uses[k].ttls :
          Invoke(c, m, k, T, ttl, IF c \in SyncClients THEN SyncStart(m) ELSE AsyncStart(m, ttl))
    BY <1>2 DEF Invokes
  <2>2. PICK m \in uses[k].does, T \in SUBSET Tags, ttl \in uses[k].ttls :
          Invoke(c, m, k, T, ttl, IF c \in SyncClients THEN SyncStart(m) ELSE AsyncStart(m, ttl))
    BY <2>1
  <2> DEFINE place == IF c \in SyncClients THEN SyncStart(m) ELSE AsyncStart(m, ttl)
             f == [NoCall EXCEPT !.at = place, !.use = m, !.key = k, !.tags = T, !.ttl = ttl]
  <2>3. place \notin MemberPlaces \union FindPlaces
    <3>1. m \in Methods
      BY WorkloadType
    <3> QED BY <3>1 DEF SyncStart, AsyncStart, Methods, MemberPlaces, FindPlaces
  <2>4. Invoke(c, m, k, T, ttl, place)
    BY <2>2
  <2> HIDE DEF place
  <2>5. f.at = place /\ f.use = m /\ f.tags = T
    BY DEF NoCall
  <2>6. /\ frame'[c] = f /\ \A d \in Clients \ {c} : frame'[d] = frame[d]
        /\ sets' = sets /\ uses' = uses /\ now' = now
        /\ owed' = IF m \in {"clear", "clear_all"} THEN {}
                   ELSE IF m = "invalidate_tags" THEN {p \in owed : p[1] \notin T} ELSE owed
    BY <2>4 DEF Invoke, Goes, ServerTypeOK, serverVars
  <2> HIDE DEF f
  <2>7. \A p \in owed' : p \in owed /\ Passes(f, p)
    BY <2>3, <2>5, <2>6 DEF Passes, Ahead
  <2> QED BY <2>6, <2>7, OwedStep DEF OwedIn
<1> QED BY <1>1, <1>2

LEMMA OwedOther ==
  ASSUME NEW x, OwedIn(x), UNCHANGED clientVars
  PROVE  OwedIn(x)'
BY DEF OwedIn, TagLife, Use, Owing, Passes, Ahead, clientVars, serverVars, historyVars

LEMMA OwedNext == CounterInv /\ CounterInv' /\ TypeOK /\ OwedInv /\ [Next]_vars => OwedInv'
<1> SUFFICES ASSUME CounterInv, CounterInv', TypeOK, OwedInv, [Next]_vars PROVE OwedInv'
  OBVIOUS
<1>0. PICK x \in Nat \union {None} : OwedIn(x)
  BY DEF OwedInv
<1>1. ServerTypeOK
  BY DEF TypeOK
<1>2. ASSUME NEW c \in Clients, ClientStep(c) \/ PublishCommand(c) PROVE OwedIn(x)'
  BY <1>0, <1>1, <1>2, OwedByKeys, OwedByClear, OwedByLoop, OwedByInvalidation, OwedByTagging DEF ClientStep
<1>3. OwedIn(x)'
  BY <1>0, <1>1, <1>2, NextSteps, OwedByCalls, OwedTick, OwedOther
<1> QED BY <1>3 DEF OwedInv

LEMMA OwedInit == SameLives /\ Init => OwedInv
<1> SUFFICES ASSUME SameLives, Init PROVE OwedInv OBVIOUS
<1>1. uses \in Workloads /\ owed = {} /\ sets = [t \in Tags |-> NoSet]
  BY DEF Init, ServerInit
<1>2. PICK x \in Nat \union {None} :
        \A k \in Keys : "add_tags" \in uses[k].does => \A ttl \in uses[k].ttls : Life(ttl) = x
  BY <1>1 DEF SameLives
<1>3. OwedIn(x)
  BY <1>1, <1>2 DEF OwedIn, TagLife, Use, NoSet
<1> QED BY <1>3 DEF OwedInv

\* Where all give a tag the same life, a key that was tagged is found under the
\* tag all that time, until the tag is invalidated or the namespace cleared.
\* Where they do not, it need not be.
THEOREM TaggedAreFound ==
  ASSUME SameLives
  PROVE  Spec => []TaggedIsFound
<1>1. Init => OwedInv
  BY OwedInit
<1>2. OwedInv => TaggedIsFound
  BY DEF OwedInv, OwedIn, Owing, TaggedIsFound
<1> QED BY <1>1, <1>2, OwedNext, TypesHold, CounterAlways, PTL DEF Spec
=============================================================================
