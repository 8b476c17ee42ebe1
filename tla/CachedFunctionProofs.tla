------------------------ MODULE CachedFunctionProofs ------------------------
(***************************************************************************)
(* Proofs about CachedFunction, for any threads, keys, ttls and bounds.    *)
(***************************************************************************)
EXTENDS CachedFunction, TLAPS

\* A thread inside a call has a key and has begun a call; it has an event
\* where it waits for or sets one, and an item where it stores one.
LocalsOK ==
  \A t \in Threads :
    /\ pc[t] # "idle" => key[t] \in Keys /\ calls[t] # 0
    /\ pc[t] \in {"wait", "signal"} => ev[t] \in Events
    /\ pc[t] = "store" => item[t] \in Item

TypeInv == TypeOK /\ LocalsOK

\* The initial state is well typed.
LEMMA TypeInit == Init => TypeInv
BY ConstantsAssumption DEF Init, TypeInv, TypeOK, LocalsOK, Places, Body

\* Ending a call keeps the types of the thread's variables.
LEMMA TypeFinish ==
  ASSUME TypeInv, NEW t \in Threads, Finish(t)
  PROVE  /\ pc' \in [Threads -> Places]
         /\ key' \in [Threads -> Keys \union {None}]
         /\ calls' \in [Threads -> Nat]
         /\ seen' \in [Threads -> Entry \union {None}]
         /\ ev' \in [Threads -> Events \union {None}]
         /\ item' \in [Threads -> Item \union {None}]
         /\ LocalsOK'
BY DEF TypeInv, TypeOK, LocalsOK, Finish, Goto, Places, Body

\* So does leaving the try block, with or without singleflight.
LEMMA TypeLeaveBody ==
  ASSUME TypeInv, NEW t \in Threads, LeaveBody(t), pc[t] # "idle"
  PROVE  /\ pc' \in [Threads -> Places]
         /\ key' \in [Threads -> Keys \union {None}]
         /\ calls' \in [Threads -> Nat]
         /\ seen' \in [Threads -> Entry \union {None}]
         /\ ev' \in [Threads -> Events \union {None}]
         /\ item' \in [Threads -> Item \union {None}]
         /\ LocalsOK'
<1>1. CASE SingleFlight
  BY <1>1 DEF TypeInv, TypeOK, LocalsOK, LeaveBody, Goto, Places, Body
<1>2. CASE ~SingleFlight
  <2>1. Finish(t) BY <1>2 DEF LeaveBody
  <2> QED BY <2>1, TypeFinish
<1> QED BY <1>1, <1>2

\* Every step of a thread keeps the types.
LEMMA TypeStep ==
  ASSUME TypeInv, NEW t \in Threads, Step(t)
  PROVE  TypeInv'
<1> USE ConstantsAssumption
<1>1. CASE BypassReturns(t)
  BY <1>1, TypeFinish DEF TypeInv, TypeOK, BypassReturns
<1>2. CASE Lookup(t)
  BY <1>2 DEF TypeInv, TypeOK, LocalsOK, Lookup, Read, DropIfExpired, Goto, Places, Body
<1>3. CASE ReadRaises(t)
  BY <1>3, TypeFinish DEF TypeInv, TypeOK, ReadRaises
<1>4. CASE ServeFresh(t)
  BY <1>4, TypeFinish DEF TypeInv, TypeOK, ServeFresh
<1>5. CASE ServeStale(t)
  <2>1. CASE SingleFlight
    BY <1>5, <2>1 DEF TypeInv, TypeOK, LocalsOK, ServeStale, Threads, Places, Body
  <2>2. CASE ~SingleFlight
    BY <1>5, <2>2, TypeFinish DEF TypeInv, TypeOK, ServeStale
  <2> QED BY <2>1, <2>2
<1>6. CASE SpawnRaises(t)
  BY <1>6, TypeFinish DEF TypeInv, TypeOK, SpawnRaises
<1>7. CASE Miss(t)
  BY <1>7 DEF TypeInv, TypeOK, LocalsOK, Miss, Goto, Places, Body
<1>8. CASE Lead(t)
  BY <1>8 DEF TypeInv, TypeOK, LocalsOK, Lead, Goto, Places, Body, Events
<1>9. CASE Follow(t)
  BY <1>9 DEF TypeInv, TypeOK, LocalsOK, Follow, Goto, Places, Body
<1>10. CASE GiveUpRefresh(t)
  BY <1>10, TypeFinish DEF TypeInv, TypeOK, GiveUpRefresh
<1>11. CASE Wake(t)
  BY <1>11 DEF TypeInv, TypeOK, LocalsOK, Wake, Goto, Places, Body
<1>12. CASE RereadHit(t)
  BY <1>12, TypeFinish DEF TypeInv, TypeOK, RereadHit
<1>13. CASE RereadMiss(t)
  BY <1>13 DEF TypeInv, TypeOK, LocalsOK, RereadMiss, DropIfExpired, Goto, Places, Body
<1>14. CASE ComputeValue(t)
  <2> PICK ttl \in Ttls, j \in 0..Jitter :
        item' = [item EXCEPT ![t] =
                   IF ttl = None \/ StaleTtl = None
                   THEN [fu |-> None, life |-> ttl]
                   ELSE [fu |-> now + ttl + j, life |-> ttl + j + StaleTtl]]
    BY <1>14 DEF ComputeValue
  <2>1. item'[t] \in Item /\ item' \in [Threads -> Item \union {None}]
    BY DEF TypeInv, TypeOK, Item, OptNat
  <2> QED BY <1>14, <2>1 DEF TypeInv, TypeOK, LocalsOK, ComputeValue, Goto, Places, Body
<1>15. CASE ComputeNothing(t)
  BY <1>15, TypeLeaveBody DEF TypeInv, TypeOK, ComputeNothing
<1>16. CASE Store(t)
  <2>1. store' \in [Keys -> Entry \union {None}] /\ tagged' \in [Keys -> BOOLEAN]
    <3> DEFINE i == item[t]
               e == [fu |-> i.fu, exp |-> IF i.life = None THEN None ELSE now + i.life]
    <3>1. i \in Item /\ key[t] \in Keys
      BY <1>16 DEF TypeInv, LocalsOK, Store
    <3>2. i.fu \in OptNat /\ i.life \in OptNat
      BY <3>1 DEF Item
    <3>3. (IF i.life = None THEN None ELSE now + i.life) \in OptNat
      BY <3>2 DEF TypeInv, TypeOK, OptNat
    <3>4. e \in Entry
      BY <3>2, <3>3 DEF Entry
    <3>5. /\ store' = [store EXCEPT ![key[t]] = IF i.life = 0 THEN None ELSE e]
          /\ tagged' = [tagged EXCEPT ![key[t]] = IF i.life = 0 THEN FALSE ELSE @]
      BY <1>16 DEF Store, Write
    <3> QED BY <3>1, <3>4, <3>5 DEF TypeInv, TypeOK
  <2>2. CASE HasTags
    BY <1>16, <2>1, <2>2 DEF TypeInv, TypeOK, LocalsOK, Store, Goto, Places, Body
  <2>3. CASE ~HasTags
    <3>1. LeaveBody(t) BY <1>16, <2>3 DEF Store
    <3> QED BY <1>16, <2>1, <3>1, TypeLeaveBody DEF TypeInv, TypeOK, Store
  <2> QED BY <2>2, <2>3
<1>17. CASE StoreRaises(t)
  BY <1>17, TypeLeaveBody DEF TypeInv, TypeOK, StoreRaises
<1>18. CASE Tag(t)
  <2>1. tagged' \in [Keys -> BOOLEAN]
    BY <1>18 DEF TypeInv, TypeOK, Tag
  <2> QED BY <1>18, <2>1, TypeLeaveBody DEF TypeInv, TypeOK, Tag
<1>19. CASE TagsRaise(t)
  BY <1>19, TypeLeaveBody DEF TypeInv, TypeOK, TagsRaise
<1>20. CASE Release(t)
  <2>1. registry' \in [Keys -> Events \union {None}]
    BY <1>20 DEF TypeInv, TypeOK, Release
  <2>2. CASE registry[key[t]] = None
    BY <1>20, <2>1, <2>2, TypeFinish DEF TypeInv, TypeOK, Release
  <2>3. CASE registry[key[t]] # None
    BY <1>20, <2>1, <2>3 DEF TypeInv, TypeOK, LocalsOK, Release, Goto, Places, Body
  <2> QED BY <2>2, <2>3
<1>21. CASE Signal(t)
  <2>1. signalled' \subseteq Events
    BY <1>21 DEF TypeInv, TypeOK, LocalsOK, Signal
  <2> QED BY <1>21, <2>1, TypeFinish DEF TypeInv, TypeOK, Signal
<1> QED BY <1>1, <1>2, <1>3, <1>4, <1>5, <1>6, <1>7, <1>8, <1>9, <1>10, <1>11,
           <1>12, <1>13, <1>14, <1>15, <1>16, <1>17, <1>18, <1>19, <1>20, <1>21
        DEF Step

\* So does every step of the system.
LEMMA TypeNext == TypeInv /\ [Next]_vars => TypeInv'
<1> SUFFICES ASSUME TypeInv, [Next]_vars PROVE TypeInv'
  OBVIOUS
<1> USE ConstantsAssumption
<1>1. CASE \E t \in Threads : Step(t)
  BY <1>1, TypeStep
<1>2. CASE \E t \in Threads, k \in Keys : Call(t, k)
  BY <1>2 DEF TypeInv, TypeOK, LocalsOK, Call, Begin, Places, Body
<1>3. CASE Tick
  BY <1>3 DEF TypeInv, TypeOK, LocalsOK, Tick, threadVars
<1>4. CASE \E k \in Keys : Delete(k) \/ Invalidate(k)
  BY <1>4 DEF TypeInv, TypeOK, LocalsOK, Delete, Invalidate, threadVars
<1>5. CASE UNCHANGED vars
  BY <1>5 DEF TypeInv, TypeOK, LocalsOK, vars
<1> QED BY <1>1, <1>2, <1>3, <1>4, <1>5 DEF Next, AllDone

\* Every reachable state is well typed, and a thread has the locals its
\* place in the wrapper needs.
THEOREM TypeCorrect == Spec => []TypeInv
BY TypeInit, TypeNext, PTL DEF Spec

\* Every variable keeps its type in every behaviour of the decorated function.
THEOREM TypesAreKept == Spec => []TypeOK
BY TypeCorrect, PTL DEF TypeInv
-----------------------------------------------------------------------------
(* Flights: no event is left behind, and none is lost.                     *)

\* Places of a call that has not been to the registry yet.
Early == {"bypass", "lookup", "decide", "acquire", "refresh"}

\* Places only a decorator with singleflight reaches.
FlightPlaces == {"acquire", "refresh", "wait", "reread", "release", "signal"}

\* The event a call may still make is new: not set, and nobody is about to set it.
UnbornUnused ==
  \A c \in Threads, n \in Nat :
    n > calls[c] \/ (n = calls[c] /\ pc[c] \in Early) =>
      /\ <<c, n>> \notin signalled
      /\ \A u \in Threads : pc[u] = "signal" => ev[u] # <<c, n>>

NoFlightWithout ==
  ~SingleFlight => /\ \A k \in Keys : registry[k] = None
                   /\ \A t \in Threads : pc[t] \notin FlightPlaces

FlightInv == /\ RegisteredHasLeader
             /\ RegisteredNotSet
             /\ NoLostWakeup
             /\ UnbornUnused
             /\ NoFlightWithout

\* Nothing is registered, set or waited for at the start.
LEMMA FlightInit == Init => FlightInv
BY DEF Init, FlightInv, RegisteredHasLeader, RegisteredNotSet, NoLostWakeup,
       UnbornUnused, NoFlightWithout, FlightPlaces, Early

\* A step of t that leaves the registry and the set events alone, and that
\* neither starts to wait nor goes back, keeps the invariant.
LEMMA QuietStep ==
  ASSUME TypeInv, FlightInv, NEW t \in Threads,
         UNCHANGED <<registry, signalled, calls>>,
         pc' \in [Threads -> Places],
         \A u \in Threads : u # t => /\ pc'[u] = pc[u]
                                    /\ key'[u] = key[u]
                                    /\ ev'[u] = ev[u],
         pc[t] \notin {"release", "signal"},
         pc'[t] \notin {"wait", "signal"},
         pc[t] \in Body /\ SingleFlight =>
           pc'[t] \in Body \union {"release"} /\ key'[t] = key[t],
         pc'[t] \in Early => pc[t] \in Early,
         ~SingleFlight => pc'[t] \notin FlightPlaces
  PROVE  FlightInv'
<1>1. RegisteredHasLeader'
  <2> SUFFICES ASSUME NEW k \in Keys, registry[k] # None
               PROVE  \E c \in Threads : /\ registry[k] = <<c, calls[c]>>
                                         /\ key'[c] = k
                                         /\ pc'[c] \in Body \union {"release"}
    BY DEF RegisteredHasLeader
  <2>1. PICK c \in Threads : /\ registry[k] = <<c, calls[c]>>
                             /\ key[c] = k
                             /\ pc[c] \in Body \union {"release"}
    BY DEF FlightInv, RegisteredHasLeader
  <2>2. SingleFlight
    BY DEF FlightInv, NoFlightWithout
  <2> QED BY <2>1, <2>2
<1>2. RegisteredNotSet'
  BY DEF FlightInv, RegisteredNotSet
<1>3. NoLostWakeup'
  <2> SUFFICES ASSUME NEW w \in Threads, pc'[w] = "wait"
               PROVE  \/ ev'[w] \in signalled
                      \/ registry[key'[w]] = ev'[w]
                      \/ \E u \in Threads : pc'[u] = "signal" /\ ev'[u] = ev'[w]
    BY DEF NoLostWakeup
  <2>1. w # t /\ pc[w] = "wait"
    OBVIOUS
  <2> QED BY <2>1 DEF FlightInv, NoLostWakeup
<1>4. UnbornUnused'
  BY DEF FlightInv, UnbornUnused
<1>5. NoFlightWithout'
  BY DEF FlightInv, NoFlightWithout
<1> QED BY <1>1, <1>2, <1>3, <1>4, <1>5 DEF FlightInv

\* Ending a call from a place that holds no flight.
LEMMA QuietFinish ==
  ASSUME TypeInv, FlightInv, NEW t \in Threads, Finish(t),
         UNCHANGED <<registry, signalled>>,
         pc[t] \notin {"release", "signal"},
         pc[t] \in Body => ~SingleFlight
  PROVE  FlightInv'
<1>1. pc' \in [Threads -> Places]
  BY DEF TypeInv, TypeOK, Finish, Goto, Places
<1>2. /\ pc'[t] = "idle"
      /\ \A u \in Threads : u # t => pc'[u] = pc[u] /\ key'[u] = key[u] /\ ev'[u] = ev[u]
  BY DEF TypeInv, TypeOK, Finish, Goto
<1>3. UNCHANGED calls
  BY DEF Finish
<1> QED BY <1>1, <1>2, <1>3, QuietStep DEF Early, FlightPlaces

\* Leaving the try block goes to the release, or ends a call without a flight.
LEMMA QuietLeaveBody ==
  ASSUME TypeInv, FlightInv, NEW t \in Threads, LeaveBody(t),
         UNCHANGED <<registry, signalled>>, pc[t] \in Body
  PROVE  FlightInv'
<1>1. CASE SingleFlight
  <2>1. /\ pc' = [pc EXCEPT ![t] = "release"]
        /\ UNCHANGED <<key, calls, ev>>
    BY <1>1 DEF LeaveBody, Goto
  <2> QED BY <1>1, <2>1, QuietStep DEF TypeInv, TypeOK, Places, Body, Early
<1>2. CASE ~SingleFlight
  BY <1>2, QuietFinish DEF LeaveBody, Body
<1> QED BY <1>1, <1>2

\* A step of t to another place of the wrapper, its key and event kept.
LEMMA QuietGoto ==
  ASSUME TypeInv, FlightInv, NEW t \in Threads, NEW place \in Places,
         Goto(t, place), UNCHANGED <<key, calls, registry, signalled>>,
         \A u \in Threads : u # t => ev'[u] = ev[u],
         pc[t] \notin {"release", "signal"},
         place \notin {"wait", "signal"},
         pc[t] \in Body => place \in Body \union {"release"},
         place \in Early => pc[t] \in Early,
         ~SingleFlight => place \notin FlightPlaces
  PROVE  FlightInv'
BY QuietStep DEF TypeInv, TypeOK, Goto

\* The steps that change the registry or the set events.

\* A leader registers an event nobody has used before.
LEMMA LeadFlight ==
  ASSUME TypeInv, FlightInv, NEW t \in Threads, Lead(t)
  PROVE  FlightInv'
<1> DEFINE e == <<t, calls[t]>>
<1> USE ConstantsAssumption
<1>0. /\ key[t] \in Keys /\ registry[key[t]] = None /\ pc[t] \in Early
      /\ registry' = [registry EXCEPT ![key[t]] = e]
      /\ pc' = [pc EXCEPT ![t] = "compute"]
      /\ UNCHANGED <<key, calls, ev, signalled>>
      /\ calls[t] \in Nat
      /\ pc[t] \in FlightPlaces
  BY DEF Lead, Goto, TypeInv, TypeOK, LocalsOK, Early, FlightPlaces
<1>1. RegisteredHasLeader'
  <2> SUFFICES ASSUME NEW k \in Keys, registry'[k] # None
               PROVE  \E c \in Threads : /\ registry'[k] = <<c, calls[c]>>
                                         /\ key[c] = k
                                         /\ pc'[c] \in Body \union {"release"}
    BY <1>0 DEF RegisteredHasLeader
  <2>1. CASE k = key[t]
    BY <1>0, <2>1 DEF TypeInv, TypeOK, Body
  <2>2. CASE k # key[t]
    <3>1. registry[k] # None
      BY <1>0, <2>2 DEF TypeInv, TypeOK
    <3>2. PICK c \in Threads : /\ registry[k] = <<c, calls[c]>>
                               /\ key[c] = k
                               /\ pc[c] \in Body \union {"release"}
      BY <3>1 DEF FlightInv, RegisteredHasLeader
    <3>3. c # t
      BY <2>2, <3>2
    <3> QED BY <1>0, <2>2, <3>2, <3>3 DEF TypeInv, TypeOK
  <2> QED BY <2>1, <2>2
<1>2. RegisteredNotSet'
  <2>1. e \notin signalled /\ \A u \in Threads : pc[u] = "signal" => ev[u] # e
    BY <1>0 DEF FlightInv, UnbornUnused
  <2>2. \A u \in Threads : pc'[u] = "signal" => pc[u] = "signal"
    BY <1>0 DEF TypeInv, TypeOK
  <2> QED BY <1>0, <2>1, <2>2 DEF FlightInv, RegisteredNotSet, TypeInv, TypeOK
<1>3. NoLostWakeup'
  <2> SUFFICES ASSUME NEW w \in Threads, pc'[w] = "wait"
               PROVE  \/ ev[w] \in signalled
                      \/ registry'[key[w]] = ev[w]
                      \/ \E u \in Threads : pc'[u] = "signal" /\ ev[u] = ev[w]
    BY <1>0 DEF NoLostWakeup
  <2>1. w # t /\ pc[w] = "wait" /\ key[w] \in Keys /\ ev[w] \in Events
    BY <1>0 DEF TypeInv, TypeOK, LocalsOK
  <2>2. CASE registry[key[w]] = ev[w]
    BY <1>0, <2>1, <2>2 DEF TypeInv, TypeOK
  <2>3. CASE \E u \in Threads : pc[u] = "signal" /\ ev[u] = ev[w]
    BY <1>0, <2>3 DEF TypeInv, TypeOK, Early
  <2> QED BY <2>1, <2>2, <2>3 DEF FlightInv, NoLostWakeup
<1>4. UnbornUnused'
  <2>1. \A c \in Threads : /\ pc'[c] \in Early => pc[c] \in Early
                           /\ pc'[c] = "signal" => pc[c] = "signal"
    BY <1>0 DEF TypeInv, TypeOK, Early
  <2> QED BY <1>0, <2>1 DEF FlightInv, UnbornUnused
<1>5. NoFlightWithout'
  BY <1>0 DEF FlightInv, NoFlightWithout
<1> QED BY <1>1, <1>2, <1>3, <1>4, <1>5 DEF FlightInv

\* A follower waits for the event that is registered.
LEMMA FollowFlight ==
  ASSUME TypeInv, FlightInv, NEW t \in Threads, Follow(t)
  PROVE  FlightInv'
<1>0. /\ key[t] \in Keys /\ registry[key[t]] # None /\ pc[t] = "acquire"
      /\ ev' = [ev EXCEPT ![t] = registry[key[t]]]
      /\ pc' = [pc EXCEPT ![t] = "wait"]
      /\ UNCHANGED <<key, calls, registry, signalled>>
  BY DEF Follow, Goto, TypeInv, TypeOK, LocalsOK
<1>1. RegisteredHasLeader'
  <2> SUFFICES ASSUME NEW k \in Keys, registry[k] # None
               PROVE  \E c \in Threads : /\ registry[k] = <<c, calls[c]>>
                                         /\ key[c] = k
                                         /\ pc'[c] \in Body \union {"release"}
    BY <1>0 DEF RegisteredHasLeader
  <2>1. PICK c \in Threads : /\ registry[k] = <<c, calls[c]>>
                             /\ key[c] = k
                             /\ pc[c] \in Body \union {"release"}
    BY DEF FlightInv, RegisteredHasLeader
  <2> QED BY <1>0, <2>1 DEF TypeInv, TypeOK, Body
<1>2. RegisteredNotSet'
  BY <1>0 DEF FlightInv, RegisteredNotSet, TypeInv, TypeOK
<1>3. NoLostWakeup'
  <2> SUFFICES ASSUME NEW w \in Threads, pc'[w] = "wait"
               PROVE  \/ ev'[w] \in signalled
                      \/ registry[key[w]] = ev'[w]
                      \/ \E u \in Threads : pc'[u] = "signal" /\ ev'[u] = ev'[w]
    BY <1>0 DEF NoLostWakeup
  <2>1. CASE w = t
    BY <1>0, <2>1 DEF TypeInv, TypeOK
  <2>2. CASE w # t
    <3>1. pc[w] = "wait" /\ ev'[w] = ev[w]
      BY <1>0, <2>2 DEF TypeInv, TypeOK
    <3>2. \A u \in Threads : pc[u] = "signal" => pc'[u] = "signal" /\ ev'[u] = ev[u]
      BY <1>0 DEF TypeInv, TypeOK
    <3> QED BY <3>1, <3>2 DEF FlightInv, NoLostWakeup
  <2> QED BY <2>1, <2>2
<1>4. UnbornUnused'
  <2>1. \A c \in Threads : /\ pc'[c] \in Early => pc[c] \in Early
                           /\ pc'[c] = "signal" => pc[c] = "signal" /\ ev'[c] = ev[c]
    BY <1>0 DEF TypeInv, TypeOK, Early
  <2> QED BY <1>0, <2>1 DEF FlightInv, UnbornUnused
<1>5. NoFlightWithout'
  BY <1>0 DEF FlightInv, NoFlightWithout
<1> QED BY <1>1, <1>2, <1>3, <1>4, <1>5 DEF FlightInv

\* Taking an event out leaves it in the hands of the thread that will set it.
LEMMA ReleaseFlight ==
  ASSUME TypeInv, FlightInv, NEW t \in Threads, Release(t)
  PROVE  FlightInv'
<1> USE ConstantsAssumption
<1>0. /\ key[t] \in Keys /\ pc[t] = "release"
      /\ registry' = [registry EXCEPT ![key[t]] = None]
      /\ UNCHANGED <<calls, signalled>>
      /\ SingleFlight
  BY DEF Release, Finish, TypeInv, TypeOK, LocalsOK, FlightInv, NoFlightWithout, FlightPlaces
<1>a. \A u \in Threads : u # t => pc'[u] = pc[u] /\ key'[u] = key[u] /\ ev'[u] = ev[u]
  BY DEF Release, Finish, Goto, TypeInv, TypeOK
<1>b. \/ pc'[t] = "idle" /\ registry[key[t]] = None
      \/ pc'[t] = "signal" /\ ev'[t] = registry[key[t]] /\ registry[key[t]] # None
  BY DEF Release, Finish, Goto, TypeInv, TypeOK
<1>1. RegisteredHasLeader'
  <2> SUFFICES ASSUME NEW k \in Keys, registry'[k] # None
               PROVE  \E c \in Threads : /\ registry'[k] = <<c, calls[c]>>
                                         /\ key'[c] = k
                                         /\ pc'[c] \in Body \union {"release"}
    BY <1>0 DEF RegisteredHasLeader
  <2>1. k # key[t] /\ registry'[k] = registry[k]
    BY <1>0 DEF TypeInv, TypeOK
  <2>2. PICK c \in Threads : /\ registry[k] = <<c, calls[c]>>
                             /\ key[c] = k
                             /\ pc[c] \in Body \union {"release"}
    BY <2>1 DEF FlightInv, RegisteredHasLeader
  <2> QED BY <1>a, <2>1, <2>2
<1>2. RegisteredNotSet'
  <2> SUFFICES ASSUME NEW k \in Keys, registry'[k] # None
               PROVE  /\ registry'[k] \notin signalled
                      /\ \A u \in Threads : pc'[u] = "signal" => ev'[u] # registry'[k]
    BY <1>0 DEF RegisteredNotSet
  <2>1. k # key[t] /\ registry'[k] = registry[k]
    BY <1>0 DEF TypeInv, TypeOK
  <2>2. registry[key[t]] # registry[k]
    BY <1>0, <2>1 DEF FlightInv, RegisteredHasLeader
  <2> QED BY <1>a, <1>b, <2>1, <2>2 DEF FlightInv, RegisteredNotSet
<1>3. NoLostWakeup'
  <2> SUFFICES ASSUME NEW w \in Threads, pc'[w] = "wait"
               PROVE  \/ ev'[w] \in signalled
                      \/ registry'[key'[w]] = ev'[w]
                      \/ \E u \in Threads : pc'[u] = "signal" /\ ev'[u] = ev'[w]
    BY <1>0 DEF NoLostWakeup
  <2>1. /\ w # t /\ pc[w] = "wait" /\ ev'[w] = ev[w] /\ key'[w] = key[w]
        /\ key[w] \in Keys /\ ev[w] \in Events
    BY <1>a, <1>b DEF TypeInv, LocalsOK
  <2>2. CASE registry[key[w]] = ev[w]
    <3>1. CASE key[w] = key[t]
      BY <1>b, <2>1, <2>2, <3>1
    <3>2. CASE key[w] # key[t]
      BY <1>0, <2>1, <2>2, <3>2 DEF TypeInv, TypeOK
    <3> QED BY <3>1, <3>2
  <2>3. CASE \E u \in Threads : pc[u] = "signal" /\ ev[u] = ev[w]
    BY <1>0, <1>a, <2>1, <2>3
  <2> QED BY <1>0, <2>1, <2>2, <2>3 DEF FlightInv, NoLostWakeup
<1>4. UnbornUnused'
  <2> SUFFICES ASSUME NEW c \in Threads, NEW n \in Nat,
                      n > calls[c] \/ (n = calls[c] /\ pc'[c] \in Early)
               PROVE  /\ <<c, n>> \notin signalled
                      /\ \A u \in Threads : pc'[u] = "signal" => ev'[u] # <<c, n>>
    BY <1>0 DEF UnbornUnused
  <2>1. n > calls[c] \/ (n = calls[c] /\ pc[c] \in Early)
    BY <1>a, <1>b DEF Early
  <2>2. registry[key[t]] # <<c, n>>
    <3> SUFFICES ASSUME registry[key[t]] = <<c, n>> PROVE FALSE
      OBVIOUS
    <3>1. PICK d \in Threads : /\ registry[key[t]] = <<d, calls[d]>>
                               /\ pc[d] \in Body \union {"release"}
      <4>1. n # 0
        BY <2>1 DEF Early, TypeInv, TypeOK, LocalsOK
      <4>2. registry[key[t]] # None
        BY <4>1 DEF Events
      <4> QED BY <1>0, <4>2 DEF FlightInv, RegisteredHasLeader
    <3>2. d = c /\ n = calls[c]
      BY <3>1
    <3> QED BY <2>1, <3>1, <3>2 DEF Early, Body, TypeInv, TypeOK
  <2> QED BY <1>a, <1>b, <2>1, <2>2 DEF FlightInv, UnbornUnused
<1>5. NoFlightWithout'
  BY <1>0 DEF NoFlightWithout
<1> QED BY <1>1, <1>2, <1>3, <1>4, <1>5 DEF FlightInv

\* Setting an event wakes its waiters and touches no registered event.
LEMMA SignalFlight ==
  ASSUME TypeInv, FlightInv, NEW t \in Threads, Signal(t)
  PROVE  FlightInv'
<1>0. /\ pc[t] = "signal" /\ pc'[t] = "idle"
      /\ signalled' = signalled \union {ev[t]}
      /\ UNCHANGED <<calls, registry>>
      /\ SingleFlight
      /\ \A u \in Threads : u # t => pc'[u] = pc[u] /\ key'[u] = key[u] /\ ev'[u] = ev[u]
  BY DEF Signal, Finish, Goto, TypeInv, TypeOK, FlightInv, NoFlightWithout, FlightPlaces
<1>1. RegisteredHasLeader'
  <2> SUFFICES ASSUME NEW k \in Keys, registry[k] # None
               PROVE  \E c \in Threads : /\ registry[k] = <<c, calls[c]>>
                                         /\ key'[c] = k
                                         /\ pc'[c] \in Body \union {"release"}
    BY <1>0 DEF RegisteredHasLeader
  <2>1. PICK c \in Threads : /\ registry[k] = <<c, calls[c]>>
                             /\ key[c] = k
                             /\ pc[c] \in Body \union {"release"}
    BY DEF FlightInv, RegisteredHasLeader
  <2> QED BY <1>0, <2>1 DEF Body
<1>2. RegisteredNotSet'
  BY <1>0 DEF FlightInv, RegisteredNotSet
<1>3. NoLostWakeup'
  <2> SUFFICES ASSUME NEW w \in Threads, pc'[w] = "wait"
               PROVE  \/ ev'[w] \in signalled'
                      \/ registry[key'[w]] = ev'[w]
                      \/ \E u \in Threads : pc'[u] = "signal" /\ ev'[u] = ev'[w]
    BY <1>0 DEF NoLostWakeup
  <2>1. w # t /\ pc[w] = "wait" /\ ev'[w] = ev[w] /\ key'[w] = key[w]
    BY <1>0
  <2> QED BY <1>0, <2>1 DEF FlightInv, NoLostWakeup
<1>4. UnbornUnused'
  BY <1>0 DEF FlightInv, UnbornUnused, Early
<1>5. NoFlightWithout'
  BY <1>0 DEF NoFlightWithout
<1> QED BY <1>1, <1>2, <1>3, <1>4, <1>5 DEF FlightInv

\* Every step of a thread keeps the invariant of the registry.
LEMMA FlightStep ==
  ASSUME TypeInv, FlightInv, NEW t \in Threads, Step(t)
  PROVE  FlightInv'
<1> USE ConstantsAssumption
<1>1. CASE BypassReturns(t)
  BY <1>1, QuietFinish DEF BypassReturns, Body
<1>2. CASE Lookup(t)
  BY <1>2, QuietGoto DEF Lookup, Places, Body, Early, FlightPlaces
<1>3. CASE ReadRaises(t)
  BY <1>3, QuietFinish DEF ReadRaises, Body
<1>4. CASE ServeFresh(t)
  BY <1>4, QuietFinish DEF ServeFresh, Body
<1>5. CASE ServeStale(t)
  <2>1. CASE SingleFlight
    <3>w. PICK w \in Workers :
          /\ pc[w] = "idle" /\ calls[w] < Bound(w)
          /\ pc' = [pc EXCEPT ![t] = "idle", ![w] = "refresh"]
          /\ key' = [key EXCEPT ![t] = None, ![w] = key[t]]
          /\ calls' = [calls EXCEPT ![w] = @ + 1]
          /\ UNCHANGED ev
      BY <1>5, <2>1 DEF ServeStale
    <3>0. /\ w \in Threads /\ w # t /\ pc[t] = "decide" /\ pc[w] = "idle"
          /\ UNCHANGED <<ev, registry, signalled>>
          /\ calls[w] \in Nat
          /\ pc'[t] = "idle" /\ pc'[w] = "refresh"
          /\ calls'[w] = calls[w] + 1
          /\ \A u \in Threads : u # w => calls'[u] = calls[u]
          /\ \A u \in Threads \ {t, w} : pc'[u] = pc[u] /\ key'[u] = key[u]
      BY <1>5, <3>w DEF ServeStale, Threads, TypeInv, TypeOK
    <3>1. RegisteredHasLeader'
      <4> SUFFICES ASSUME NEW k \in Keys, registry[k] # None
                   PROVE  \E c \in Threads : /\ registry[k] = <<c, calls'[c]>>
                                             /\ key'[c] = k
                                             /\ pc'[c] \in Body \union {"release"}
        BY <3>0 DEF RegisteredHasLeader
      <4>1. PICK c \in Threads : /\ registry[k] = <<c, calls[c]>>
                                 /\ key[c] = k
                                 /\ pc[c] \in Body \union {"release"}
        BY DEF FlightInv, RegisteredHasLeader
      <4> QED BY <3>0, <4>1 DEF Body
    <3>2. RegisteredNotSet'
      BY <3>0 DEF FlightInv, RegisteredNotSet
    <3>3. NoLostWakeup'
      <4> SUFFICES ASSUME NEW x \in Threads, pc'[x] = "wait"
                   PROVE  \/ ev[x] \in signalled
                          \/ registry[key'[x]] = ev[x]
                          \/ \E u \in Threads : pc'[u] = "signal" /\ ev[u] = ev[x]
        BY <3>0 DEF NoLostWakeup
      <4>1. x # t /\ x # w /\ pc[x] = "wait" /\ key'[x] = key[x]
        BY <3>0
      <4> QED BY <3>0, <4>1 DEF FlightInv, NoLostWakeup
    <3>4. UnbornUnused'
      <4> SUFFICES ASSUME NEW c \in Threads, NEW n \in Nat,
                          n > calls'[c] \/ (n = calls'[c] /\ pc'[c] \in Early)
                   PROVE  /\ <<c, n>> \notin signalled
                          /\ \A u \in Threads : pc'[u] = "signal" => ev[u] # <<c, n>>
        BY <3>0 DEF UnbornUnused
      <4>1. n > calls[c] \/ (n = calls[c] /\ pc[c] \in Early)
        BY <3>0 DEF Early, TypeInv, TypeOK
      <4> QED BY <3>0, <4>1 DEF FlightInv, UnbornUnused
    <3>5. NoFlightWithout'
      BY <2>1 DEF NoFlightWithout
    <3> QED BY <3>1, <3>2, <3>3, <3>4, <3>5 DEF FlightInv
  <2>2. CASE ~SingleFlight
    BY <1>5, <2>2, QuietFinish DEF ServeStale, Body
  <2> QED BY <2>1, <2>2
<1>6. CASE SpawnRaises(t)
  BY <1>6, QuietFinish DEF SpawnRaises, Body
<1>7. CASE Miss(t)
  <2> DEFINE place == IF SingleFlight THEN "acquire" ELSE "compute"
  <2>1. Goto(t, place) /\ place \in Places /\ pc[t] = "decide"
    BY <1>7 DEF Miss, Places, Body
  <2> QED BY <1>7, <2>1, QuietGoto DEF Miss, Body, Early, FlightPlaces
<1>8. CASE Lead(t)
  BY <1>8, LeadFlight
<1>9. CASE Follow(t)
  BY <1>9, FollowFlight
<1>10. CASE GiveUpRefresh(t)
  BY <1>10, QuietFinish DEF GiveUpRefresh, Body
<1>11. CASE Wake(t)
  <2>1. /\ pc[t] = "wait" /\ Goto(t, "reread") /\ "reread" \in Places
        /\ UNCHANGED <<key, calls, registry, signalled>>
        /\ \A u \in Threads : u # t => ev'[u] = ev[u]
        /\ SingleFlight
    BY <1>11 DEF Wake, Places, TypeInv, TypeOK, FlightInv, NoFlightWithout, FlightPlaces
  <2> QED BY <2>1, QuietGoto DEF Body, Early
<1>12. CASE RereadHit(t)
  BY <1>12, QuietFinish DEF RereadHit, Body
<1>13. CASE RereadMiss(t)
  BY <1>13, QuietGoto DEF RereadMiss, Places, Body, Early, FlightPlaces
<1>14. CASE ComputeValue(t)
  BY <1>14, QuietGoto DEF ComputeValue, Places, Body, Early, FlightPlaces
<1>15. CASE ComputeNothing(t)
  BY <1>15, QuietLeaveBody DEF ComputeNothing, Body
<1>16. CASE Store(t)
  <2>1. CASE HasTags
    BY <1>16, <2>1, QuietGoto DEF Store, Places, Body, Early, FlightPlaces
  <2>2. CASE ~HasTags
    BY <1>16, <2>2, QuietLeaveBody DEF Store, Body
  <2> QED BY <2>1, <2>2
<1>17. CASE StoreRaises(t)
  BY <1>17, QuietLeaveBody DEF StoreRaises, Body
<1>18. CASE Tag(t)
  BY <1>18, QuietLeaveBody DEF Tag, Body
<1>19. CASE TagsRaise(t)
  BY <1>19, QuietLeaveBody DEF TagsRaise, Body
<1>20. CASE Release(t)
  BY <1>20, ReleaseFlight
<1>21. CASE Signal(t)
  BY <1>21, SignalFlight
<1> QED BY <1>1, <1>2, <1>3, <1>4, <1>5, <1>6, <1>7, <1>8, <1>9, <1>10, <1>11,
           <1>12, <1>13, <1>14, <1>15, <1>16, <1>17, <1>18, <1>19, <1>20, <1>21
        DEF Step

\* A new call makes a new event possible.
LEMMA CallFlight ==
  ASSUME TypeInv, FlightInv, NEW t \in Threads, NEW k \in Keys, Call(t, k)
  PROVE  FlightInv'
<1>0. /\ pc[t] = "idle" /\ calls[t] \in Nat
      /\ pc'[t] \in {"lookup", "bypass"}
      /\ calls'[t] = calls[t] + 1
      /\ UNCHANGED <<ev, registry, signalled>>
      /\ \A u \in Threads : u # t => /\ pc'[u] = pc[u]
                                     /\ key'[u] = key[u]
                                     /\ calls'[u] = calls[u]
  BY DEF Call, Begin, TypeInv, TypeOK
<1>1. RegisteredHasLeader'
  <2> SUFFICES ASSUME NEW j \in Keys, registry[j] # None
               PROVE  \E c \in Threads : /\ registry[j] = <<c, calls'[c]>>
                                         /\ key'[c] = j
                                         /\ pc'[c] \in Body \union {"release"}
    BY <1>0 DEF RegisteredHasLeader
  <2>1. PICK c \in Threads : /\ registry[j] = <<c, calls[c]>>
                             /\ key[c] = j
                             /\ pc[c] \in Body \union {"release"}
    BY DEF FlightInv, RegisteredHasLeader
  <2> QED BY <1>0, <2>1 DEF Body
<1>2. RegisteredNotSet'
  BY <1>0 DEF FlightInv, RegisteredNotSet
<1>3. NoLostWakeup'
  <2> SUFFICES ASSUME NEW w \in Threads, pc'[w] = "wait"
               PROVE  \/ ev[w] \in signalled
                      \/ registry[key'[w]] = ev[w]
                      \/ \E u \in Threads : pc'[u] = "signal" /\ ev[u] = ev[w]
    BY <1>0 DEF NoLostWakeup
  <2>1. w # t /\ pc[w] = "wait" /\ key'[w] = key[w]
    BY <1>0
  <2> QED BY <1>0, <2>1 DEF FlightInv, NoLostWakeup
<1>4. UnbornUnused'
  <2> SUFFICES ASSUME NEW c \in Threads, NEW n \in Nat,
                      n > calls'[c] \/ (n = calls'[c] /\ pc'[c] \in Early)
               PROVE  /\ <<c, n>> \notin signalled
                      /\ \A u \in Threads : pc'[u] = "signal" => ev[u] # <<c, n>>
    BY <1>0 DEF UnbornUnused
  <2>1. n > calls[c] \/ (n = calls[c] /\ pc[c] \in Early)
    BY <1>0 DEF TypeInv, TypeOK
  <2> QED BY <1>0, <2>1 DEF FlightInv, UnbornUnused
<1>5. NoFlightWithout'
  BY <1>0 DEF FlightInv, NoFlightWithout, FlightPlaces
<1> QED BY <1>1, <1>2, <1>3, <1>4, <1>5 DEF FlightInv

\* Every step of the system keeps the invariant of the registry.
LEMMA FlightNext == TypeInv /\ FlightInv /\ [Next]_vars => FlightInv'
<1> SUFFICES ASSUME TypeInv, FlightInv, [Next]_vars PROVE FlightInv'
  OBVIOUS
<1>1. CASE \E t \in Threads : Step(t)
  BY <1>1, FlightStep
<1>2. CASE \E t \in Threads, k \in Keys : Call(t, k)
  BY <1>2, CallFlight
<1>3. CASE UNCHANGED <<threadVars, registry, signalled>>
  BY <1>3 DEF threadVars, FlightInv, RegisteredHasLeader, RegisteredNotSet,
              NoLostWakeup, UnbornUnused, NoFlightWithout
<1> QED BY <1>1, <1>2, <1>3 DEF Next, AllDone, Tick, Delete, Invalidate, vars, threadVars

\* The inductive invariant of the registry holds in every reachable state.
LEMMA FlightInvariant == Spec => []FlightInv
BY TypeCorrect, FlightInit, FlightNext, PTL DEF Spec

\* No path through the wrapper leaves an event registered behind it.
THEOREM NoOrphanedEvent == Spec => []RegisteredHasLeader
BY FlightInvariant, PTL DEF FlightInv

\* No follower's event is dropped without being set.
THEOREM WakeupsAreKept == Spec => []NoLostWakeup
BY FlightInvariant, PTL DEF FlightInv

\* Whoever finds an event in the registry finds it not set yet.
THEOREM FollowersReallyWait == Spec => []RegisteredNotSet
BY FlightInvariant, PTL DEF FlightInv
-----------------------------------------------------------------------------
(* What is left in the backend: an entry's tags and the time it is kept *)

\* No untagged entry appears, and the threads about to tag stay where they are.
TaggingUndisturbed ==
  /\ \A k \in Keys : store'[k] # None /\ ~tagged'[k] => store[k] # None /\ ~tagged[k]
  /\ \A u \in Threads : pc[u] = "tag" => pc'[u] = "tag" /\ key'[u] = key[u]

\* Such a step keeps the invariant.
LEMMA UndisturbedTags ==
  ASSUME UntaggedHasTagger, TaggingUndisturbed
  PROVE  UntaggedHasTagger'
BY DEF UntaggedHasTagger, TaggingUndisturbed

\* A thread that is not tagging leaves the others' tagging alone, whatever it
\* does to itself.
LEMMA OthersTag ==
  ASSUME TypeInv, NEW t \in Threads, pc[t] # "tag",
         UNCHANGED <<store, tagged>>,
         \/ Finish(t)
         \/ LeaveBody(t)
         \/ \E p \in Places : Goto(t, p) /\ UNCHANGED key
  PROVE  TaggingUndisturbed
BY DEF TypeInv, TypeOK, TaggingUndisturbed, Finish, LeaveBody, Goto

\* Writing an entry leaves its writer at the step that tags it.
LEMMA StoreTags ==
  ASSUME TypeInv, UntaggedHasTagger, NEW t \in Threads, Store(t)
  PROVE  UntaggedHasTagger'
<1>1. pc[t] = "store" /\ key[t] \in Keys
  BY DEF TypeInv, TypeOK, LocalsOK, Store
<1>2. CASE HasTags
  <2>1. pc' = [pc EXCEPT ![t] = "tag"] /\ UNCHANGED key
    BY <1>2 DEF Store, Goto
  <2>2. \A k \in Keys \ {key[t]} : store'[k] = store[k] /\ tagged'[k] = tagged[k]
    BY DEF Store, Write, TypeInv, TypeOK
  <2> QED BY <1>1, <2>1, <2>2 DEF UntaggedHasTagger, TypeInv, TypeOK
<1>3. CASE ~HasTags
  BY <1>3 DEF UntaggedHasTagger
<1> QED BY <1>2, <1>3

\* Tagging the key satisfies the invariant for it and leaves the others alone.
LEMMA TagTags ==
  ASSUME TypeInv, UntaggedHasTagger, NEW t \in Threads, Tag(t)
  PROVE  UntaggedHasTagger'
<1>1. key[t] \in Keys /\ UNCHANGED store
  BY DEF TypeInv, TypeOK, LocalsOK, Tag
<1>2. \A k \in Keys : tagged'[k] = (tagged[k] \/ (k = key[t] /\ store[k] # None))
  BY <1>1 DEF Tag, TypeInv, TypeOK
<1>3. \A u \in Threads \ {t} : pc'[u] = pc[u] /\ key'[u] = key[u]
  BY DEF Tag, LeaveBody, Finish, Goto, TypeInv, TypeOK
<1> SUFFICES ASSUME NEW k \in Keys, HasTags, store'[k] # None, ~tagged'[k]
             PROVE  \E u \in Threads : pc'[u] = "tag" /\ key'[u] = k
  BY DEF UntaggedHasTagger
<1>4. k # key[t] /\ store[k] # None /\ ~tagged[k]
  BY <1>1, <1>2
<1>5. PICK u \in Threads : pc[u] = "tag" /\ key[u] = k
  BY <1>4 DEF UntaggedHasTagger
<1> QED BY <1>3, <1>4, <1>5

\* Removing an expired entry removes its tags with it.
LEMMA DropTags ==
  ASSUME TypeInv, NEW t \in Threads, pc[t] # "tag", DropIfExpired(key[t]), key[t] \in Keys,
         NEW p \in Places, Goto(t, p), UNCHANGED key
  PROVE  TaggingUndisturbed
BY DEF TypeInv, TypeOK, TaggingUndisturbed, DropIfExpired, Goto

\* Every step of a thread keeps the invariant when tagging does not fail.
LEMMA TagStep ==
  ASSUME "tags" \notin Env, TypeInv, UntaggedHasTagger, NEW t \in Threads, Step(t)
  PROVE  UntaggedHasTagger'
<1> USE DEF Places, Body
<1>1. CASE BypassReturns(t) BY <1>1, OthersTag, UndisturbedTags DEF BypassReturns
<1>2. CASE Lookup(t) BY <1>2, DropTags, UndisturbedTags DEF Lookup, TypeInv, LocalsOK
<1>3. CASE ReadRaises(t) BY <1>3, OthersTag, UndisturbedTags DEF ReadRaises
<1>4. CASE ServeFresh(t) BY <1>4, OthersTag, UndisturbedTags DEF ServeFresh
<1>5. CASE ServeStale(t)
  <2>1. CASE SingleFlight
    BY <1>5, <2>1, UndisturbedTags DEF ServeStale, TaggingUndisturbed, TypeInv, TypeOK, Threads
  <2>2. CASE ~SingleFlight
    BY <1>5, <2>2, OthersTag, UndisturbedTags DEF ServeStale
  <2> QED BY <2>1, <2>2
<1>6. CASE SpawnRaises(t) BY <1>6, OthersTag, UndisturbedTags DEF SpawnRaises
<1>7. CASE Miss(t) BY <1>7, OthersTag, UndisturbedTags DEF Miss
<1>8. CASE Lead(t) BY <1>8, OthersTag, UndisturbedTags DEF Lead
<1>9. CASE Follow(t) BY <1>9, OthersTag, UndisturbedTags DEF Follow
<1>10. CASE GiveUpRefresh(t) BY <1>10, OthersTag, UndisturbedTags DEF GiveUpRefresh
<1>11. CASE Wake(t) BY <1>11, OthersTag, UndisturbedTags DEF Wake
<1>12. CASE RereadHit(t) BY <1>12, OthersTag, UndisturbedTags DEF RereadHit
<1>13. CASE RereadMiss(t) BY <1>13, DropTags, UndisturbedTags DEF RereadMiss, TypeInv, LocalsOK
<1>14. CASE ComputeValue(t) BY <1>14, OthersTag, UndisturbedTags DEF ComputeValue
<1>15. CASE ComputeNothing(t) BY <1>15, OthersTag, UndisturbedTags DEF ComputeNothing
<1>16. CASE Store(t) BY <1>16, StoreTags
<1>17. CASE StoreRaises(t) BY <1>17, OthersTag, UndisturbedTags DEF StoreRaises
<1>18. CASE Tag(t) BY <1>18, TagTags
<1>19. CASE TagsRaise(t) BY <1>19 DEF TagsRaise
<1>20. CASE Release(t)
  <2>1. pc[t] = "release" /\ UNCHANGED <<store, tagged>> BY <1>20 DEF Release
  <2>2. Finish(t) \/ (Goto(t, "signal") /\ UNCHANGED key) BY <1>20 DEF Release
  <2> QED BY <2>1, <2>2, OthersTag, UndisturbedTags
<1>21. CASE Signal(t) BY <1>21, OthersTag, UndisturbedTags DEF Signal
<1> QED
  BY <1>1, <1>2, <1>3, <1>4, <1>5, <1>6, <1>7, <1>8, <1>9, <1>10, <1>11, <1>12, <1>13,
     <1>14, <1>15, <1>16, <1>17, <1>18, <1>19, <1>20, <1>21 DEF Step

\* Every step of the system keeps it.
LEMMA TagNext ==
  ASSUME "tags" \notin Env, TypeInv, UntaggedHasTagger, [Next]_vars
  PROVE  UntaggedHasTagger'
<1>1. CASE \E t \in Threads : Step(t)
  BY <1>1, TagStep
<1>2. CASE \E t \in Threads, k \in Keys : Call(t, k)
  BY <1>2, UndisturbedTags DEF Call, Begin, TaggingUndisturbed, TypeInv, TypeOK
<1>3. CASE Tick
  BY <1>3, UndisturbedTags DEF Tick, threadVars, TaggingUndisturbed
<1>4. CASE \E k \in Keys : Delete(k) \/ Invalidate(k)
  BY <1>4, UndisturbedTags DEF Delete, Invalidate, threadVars, TaggingUndisturbed, TypeInv, TypeOK
<1>5. CASE UNCHANGED vars
  BY <1>5, UndisturbedTags DEF vars, TaggingUndisturbed
<1> QED BY <1>1, <1>2, <1>3, <1>4, <1>5 DEF Next, AllDone

\* If tagging never fails, an entry without tags has a call about to tag it:
\* once that call has returned, invalidate_tags finds the entry.
THEOREM TagsCatchUp == ASSUME "tags" \notin Env PROVE Spec => []UntaggedHasTagger
<1>1. Init => UntaggedHasTagger
  BY DEF Init, UntaggedHasTagger
<1>2. TypeInv /\ UntaggedHasTagger /\ [Next]_vars => UntaggedHasTagger'
  BY TagNext
<1> QED BY <1>1, <1>2, TypeCorrect, PTL DEF Spec
-----------------------------------------------------------------------------
(* The window in which a value is served                                   *)

\* A result on its way to the backend will be kept until its window ends: the
\* clock only moves on between the two readings.
ItemWindow(i) ==
  i.fu # None => /\ StaleTtl # None
                 /\ i.life # None
                 /\ i.fu + StaleTtl <= now + i.life

ItemsOK == \A t \in Threads : pc[t] = "store" => ItemWindow(item[t])

WindowInv == WindowIsStored /\ ItemsOK

\* No entry appears, nobody gets to the write, and the clock does not go back.
WindowUndisturbed ==
  /\ \A k \in Keys : store'[k] \in {store[k], None}
  /\ \A u \in Threads : pc'[u] = "store" => pc[u] = "store" /\ item'[u] = item[u]
  /\ now' = now

\* Such a step keeps the invariant.
LEMMA UndisturbedWindow ==
  ASSUME WindowInv, WindowUndisturbed
  PROVE  WindowInv'
BY DEF WindowInv, WindowIsStored, ItemsOK, ItemWindow, WindowUndisturbed

\* A step that takes t to a place that is not the write disturbs nothing.
LEMMA OthersStore ==
  ASSUME TypeInv, NEW t \in Threads, UNCHANGED now,
         \A k \in Keys : store'[k] \in {store[k], None},
         \/ Finish(t)
         \/ LeaveBody(t)
         \/ \E p \in Places \ {"store"} : Goto(t, p) /\ UNCHANGED item
  PROVE  WindowUndisturbed
BY DEF TypeInv, TypeOK, WindowUndisturbed, Finish, LeaveBody, Goto

\* The computation ends with an item whose window is inside its life.
LEMMA ComputeWindow ==
  ASSUME TypeInv, WindowInv, NEW t \in Threads, ComputeValue(t)
  PROVE  WindowInv'
<1>1. PICK ttl \in Ttls, j \in 0..Jitter :
        item' = [item EXCEPT ![t] =
          IF ttl = None \/ StaleTtl = None
          THEN [fu |-> None, life |-> ttl]
          ELSE [fu |-> now + ttl + j, life |-> ttl + j + StaleTtl]]
  BY DEF ComputeValue
<1>2. now \in Nat /\ j \in Nat /\ (ttl # None => ttl \in Nat) /\ (StaleTtl # None => StaleTtl \in Nat)
  BY ConstantsAssumption DEF TypeInv, TypeOK
<1>3. ItemWindow(item[t])'
  <2>1. CASE ttl = None \/ StaleTtl = None
    BY <1>1, <2>1 DEF ItemWindow, TypeInv, TypeOK
  <2>2. CASE ttl # None /\ StaleTtl # None
    <3>1. item'[t] = [fu |-> now + ttl + j, life |-> ttl + j + StaleTtl]
      BY <1>1, <2>2 DEF TypeInv, TypeOK
    <3>2. now' = now /\ item'[t].life \in Nat /\ item'[t].fu + StaleTtl = now + item'[t].life
      BY <1>2, <2>2, <3>1 DEF ComputeValue
    <3> QED BY <1>2, <2>2, <3>2, ConstantsAssumption DEF ItemWindow
  <2> QED BY <2>1, <2>2
<1>4. \A u \in Threads \ {t} : pc'[u] = pc[u] /\ item'[u] = item[u]
  BY <1>1 DEF ComputeValue, Goto, TypeInv, TypeOK
<1>5. UNCHANGED <<store, now>>
  BY DEF ComputeValue
<1> QED BY <1>3, <1>4, <1>5 DEF WindowInv, WindowIsStored, ItemsOK, ItemWindow

\* Writing the item gives the entry an expiry no earlier than its window's end.
LEMMA StoreWindow ==
  ASSUME TypeInv, WindowInv, NEW t \in Threads, Store(t)
  PROVE  WindowInv'
<1>1. /\ pc[t] = "store" /\ key[t] \in Keys /\ now \in Nat /\ now' = now
      /\ item[t] \in Item /\ ItemWindow(item[t])
  BY DEF TypeInv, TypeOK, LocalsOK, Store, WindowInv, ItemsOK
<1>2. store' = [store EXCEPT ![key[t]] =
                  IF item[t].life = 0 THEN None
                  ELSE [fu |-> item[t].fu,
                        exp |-> IF item[t].life = None THEN None ELSE now + item[t].life]]
  BY DEF Store, Write
<1>3. \A u \in Threads : pc'[u] = "store" => pc[u] = "store" /\ item'[u] = item[u]
  BY <1>1 DEF Store, Goto, LeaveBody, Finish, TypeInv, TypeOK
<1>4. ItemsOK'
  BY <1>1, <1>3 DEF WindowInv, ItemsOK, ItemWindow
<1>5. ASSUME NEW k \in Keys, store'[k] # None, store'[k].fu # None
      PROVE  StaleTtl # None /\ store'[k].exp # None /\ store'[k].exp >= store'[k].fu + StaleTtl
  <2>1. CASE k # key[t]
    BY <1>2, <1>5, <2>1 DEF WindowInv, WindowIsStored, TypeInv, TypeOK
  <2>2. CASE k = key[t]
    <3>1. store'[k] = [fu |-> item[t].fu,
                       exp |-> IF item[t].life = None THEN None ELSE now + item[t].life]
      BY <1>2, <1>5, <2>2 DEF TypeInv, TypeOK
    <3>2. item[t].fu # None
      BY <1>5, <3>1
    <3>3. /\ StaleTtl # None /\ item[t].life # None
          /\ item[t].fu + StaleTtl <= now + item[t].life
      BY <1>1, <3>2 DEF ItemWindow
    <3>4. store'[k].fu = item[t].fu /\ store'[k].exp = now + item[t].life
      BY <3>1, <3>3
    <3>5. /\ item[t].fu \in Nat /\ item[t].life \in Nat /\ StaleTtl \in Nat
          /\ now + item[t].life \in Nat
      BY <1>1, <3>2, <3>3, ConstantsAssumption DEF Item, OptNat
    <3> QED BY <3>3, <3>4, <3>5, ConstantsAssumption
  <2> QED BY <2>1, <2>2
<1>6. WindowIsStored'
  BY <1>5 DEF WindowIsStored
<1> QED BY <1>4, <1>6 DEF WindowInv

\* The clock moves on: an item that is not written yet gains time.
LEMMA TickWindow ==
  ASSUME TypeInv, WindowInv, Tick
  PROVE  WindowInv'
<1>1. now \in Nat /\ now' = now + 1 /\ UNCHANGED <<pc, item, store>>
  BY DEF TypeInv, TypeOK, Tick, threadVars
<1>2. ASSUME NEW t \in Threads, pc[t] = "store", item[t].fu # None
      PROVE  StaleTtl # None /\ item[t].life # None /\ item[t].fu + StaleTtl <= now + 1 + item[t].life
  <2>1. StaleTtl # None /\ item[t].life # None /\ item[t].fu + StaleTtl <= now + item[t].life
    BY <1>2 DEF WindowInv, ItemsOK, ItemWindow
  <2>2. item[t].fu \in Nat /\ item[t].life \in Nat /\ StaleTtl \in Nat
    BY <1>2, <2>1, ConstantsAssumption DEF TypeInv, LocalsOK, Item, OptNat
  <2> QED BY <1>1, <2>1, <2>2
<1>3. ItemsOK'
  BY <1>1, <1>2 DEF ItemsOK, ItemWindow
<1> QED BY <1>1, <1>3 DEF WindowInv, WindowIsStored

\* Every step of a thread keeps the invariant.
LEMMA WindowStep ==
  ASSUME TypeInv, WindowInv, NEW t \in Threads, Step(t)
  PROVE  WindowInv'
<1> USE DEF Places, Body
<1>1. CASE BypassReturns(t) BY <1>1, OthersStore, UndisturbedWindow DEF BypassReturns
<1>2. CASE Lookup(t)
  BY <1>2, OthersStore, UndisturbedWindow DEF Lookup, DropIfExpired, TypeInv, TypeOK
<1>3. CASE ReadRaises(t) BY <1>3, OthersStore, UndisturbedWindow DEF ReadRaises
<1>4. CASE ServeFresh(t) BY <1>4, OthersStore, UndisturbedWindow DEF ServeFresh
<1>5. CASE ServeStale(t)
  <2>1. CASE SingleFlight
    BY <1>5, <2>1, UndisturbedWindow DEF ServeStale, WindowUndisturbed, TypeInv, TypeOK, Threads
  <2>2. CASE ~SingleFlight
    BY <1>5, <2>2, OthersStore, UndisturbedWindow DEF ServeStale
  <2> QED BY <2>1, <2>2
<1>6. CASE SpawnRaises(t) BY <1>6, OthersStore, UndisturbedWindow DEF SpawnRaises
<1>7. CASE Miss(t) BY <1>7, OthersStore, UndisturbedWindow DEF Miss
<1>8. CASE Lead(t) BY <1>8, OthersStore, UndisturbedWindow DEF Lead
<1>9. CASE Follow(t) BY <1>9, OthersStore, UndisturbedWindow DEF Follow
<1>10. CASE GiveUpRefresh(t) BY <1>10, OthersStore, UndisturbedWindow DEF GiveUpRefresh
<1>11. CASE Wake(t) BY <1>11, OthersStore, UndisturbedWindow DEF Wake
<1>12. CASE RereadHit(t) BY <1>12, OthersStore, UndisturbedWindow DEF RereadHit
<1>13. CASE RereadMiss(t)
  BY <1>13, OthersStore, UndisturbedWindow DEF RereadMiss, DropIfExpired, TypeInv, TypeOK
<1>14. CASE ComputeValue(t) BY <1>14, ComputeWindow
<1>15. CASE ComputeNothing(t) BY <1>15, OthersStore, UndisturbedWindow DEF ComputeNothing
<1>16. CASE Store(t) BY <1>16, StoreWindow
<1>17. CASE StoreRaises(t) BY <1>17, OthersStore, UndisturbedWindow DEF StoreRaises
<1>18. CASE Tag(t) BY <1>18, OthersStore, UndisturbedWindow DEF Tag
<1>19. CASE TagsRaise(t) BY <1>19, OthersStore, UndisturbedWindow DEF TagsRaise
<1>20. CASE Release(t)
  <2>1. UNCHANGED <<store, now>> BY <1>20 DEF Release
  <2>2. Finish(t) \/ (Goto(t, "signal") /\ UNCHANGED item) BY <1>20 DEF Release
  <2> QED BY <2>1, <2>2, OthersStore, UndisturbedWindow
<1>21. CASE Signal(t) BY <1>21, OthersStore, UndisturbedWindow DEF Signal
<1> QED
  BY <1>1, <1>2, <1>3, <1>4, <1>5, <1>6, <1>7, <1>8, <1>9, <1>10, <1>11, <1>12, <1>13,
     <1>14, <1>15, <1>16, <1>17, <1>18, <1>19, <1>20, <1>21 DEF Step

\* Every step of the system keeps it.
LEMMA WindowNext ==
  ASSUME TypeInv, WindowInv, [Next]_vars
  PROVE  WindowInv'
<1>1. CASE \E t \in Threads : Step(t)
  BY <1>1, WindowStep
<1>2. CASE \E t \in Threads, k \in Keys : Call(t, k)
  BY <1>2, UndisturbedWindow DEF Call, Begin, WindowUndisturbed, TypeInv, TypeOK
<1>3. CASE Tick
  BY <1>3, TickWindow
<1>4. CASE \E k \in Keys : Delete(k) \/ Invalidate(k)
  BY <1>4, UndisturbedWindow DEF Delete, Invalidate, threadVars, WindowUndisturbed, TypeInv, TypeOK
<1>5. CASE UNCHANGED vars
  BY <1>5, UndisturbedWindow DEF vars, WindowUndisturbed
<1> QED BY <1>1, <1>2, <1>3, <1>4, <1>5 DEF Next, AllDone

\* The backend never drops a value by expiry while the wrapper may serve it.
THEOREM WindowsAreStored == Spec => []WindowIsStored
<1>1. Init => WindowInv
  BY DEF Init, WindowInv, WindowIsStored, ItemsOK
<1>2. TypeInv /\ WindowInv /\ [Next]_vars => WindowInv'
  BY WindowNext
<1>3. WindowInv => WindowIsStored
  BY DEF WindowInv
<1> QED BY <1>1, <1>2, <1>3, TypeCorrect, PTL DEF Spec
-----------------------------------------------------------------------------
(* The contract of singleflight, while every result is cached and nothing
   leaves the cache *)

\* Every call of the function ends with a result to cache, no write fails,
\* nobody removes keys, and no entry expires while the clock runs.
Steady ==
  /\ SingleFlight
  /\ Outcomes \subseteq {"value"}
  /\ "set" \notin Env /\ "purge" \notin Env
  /\ \A ttl \in Ttls : ttl # None => ttl + (IF StaleTtl = None THEN 0 ELSE StaleTtl) > MaxTime

\* Places of a thread whose flight is open.
Leading == Body \union {"release"}

\* Places the invariant speaks of.
Guarded == Leading \union {"wait", "reread"}

\* Whoever computes, stores, tags or releases made the key's registered event.
LeadersAreRegistered ==
  \A t \in Threads : pc[t] \in Leading => registry[key[t]] = <<t, calls[t]>>

\* A leader that has stored its result finds it still there when it releases.
LeadersHaveStored ==
  \A t \in Threads : pc[t] \in {"tag", "release"} => store[key[t]] # None

\* A follower waits for the registered event, or the result is stored already.
FollowersWillFind ==
  \A t \in Threads :
    /\ pc[t] = "wait" => registry[key[t]] = ev[t] \/ store[key[t]] # None
    /\ pc[t] = "reread" => store[key[t]] # None

\* Neither what is stored nor what is about to be expires before the clock stops.
Outlives(life) == life # None => life > MaxTime

NothingExpires ==
  /\ now <= MaxTime
  /\ \A k \in Keys : store[k] # None => Outlives(store[k].exp)
  /\ \A t \in Threads : pc[t] = "store" => Outlives(item[t].life)

SteadyInv == /\ LeadersAreRegistered
             /\ LeadersHaveStored
             /\ FollowersWillFind
             /\ NothingExpires
-----------------------------------------------------------------------------
\* No thread comes to a guarded place, and those at one stay as they are.
OthersStay ==
  \A u \in Threads : pc'[u] \in Guarded =>
    /\ pc'[u] = pc[u] /\ key'[u] = key[u] /\ calls'[u] = calls[u]
    /\ ev'[u] = ev[u] /\ item'[u] = item[u]

\* What is stored will be returned: nothing is expired.
LEMMA ReadFinds ==
  ASSUME TypeInv, SteadyInv, NEW k \in Keys
  PROVE  /\ store[k] # None => ~Expired(store[k])
         /\ Read(k) = store[k]
<1>1. ASSUME store[k] # None PROVE ~Expired(store[k])
  <2>1. store[k].exp \in OptNat /\ now \in Nat /\ now <= MaxTime /\ MaxTime \in Nat
    BY <1>1, ConstantsAssumption DEF TypeInv, TypeOK, Entry, SteadyInv, NothingExpires
  <2>2. store[k].exp # None => store[k].exp > MaxTime
    BY <1>1 DEF SteadyInv, NothingExpires, Outlives
  <2> QED BY <2>1, <2>2 DEF Expired, OptNat
<1> QED BY <1>1 DEF Read

\* The cleanup of a read therefore removes nothing.
LEMMA NothingDropped ==
  ASSUME TypeInv, SteadyInv, NEW k \in Keys, DropIfExpired(k)
  PROVE  UNCHANGED store
BY ReadFinds DEF DropIfExpired, TypeInv, TypeOK

\* A step that brings nobody to a guarded place keeps the invariant.
LEMMA QuietSteady ==
  ASSUME SteadyInv, OthersStay, UNCHANGED <<registry, store, now>>
  PROVE  SteadyInv'
<1>1. LeadersAreRegistered'
  BY DEF SteadyInv, LeadersAreRegistered, OthersStay, Guarded
<1>2. LeadersHaveStored'
  BY DEF SteadyInv, LeadersHaveStored, OthersStay, Guarded, Leading, Body
<1>3. FollowersWillFind'
  BY DEF SteadyInv, FollowersWillFind, OthersStay, Guarded
<1>4. NothingExpires'
  BY DEF SteadyInv, NothingExpires, Outlives, OthersStay, Guarded, Leading, Body
<1> QED BY <1>1, <1>2, <1>3, <1>4 DEF SteadyInv

\* Ending a call, or going to a place before the flight or after it, is quiet.
LEMMA QuietOthers ==
  ASSUME TypeInv, NEW t \in Threads,
         \/ Finish(t)
         \/ \E p \in Places \ Guarded :
              Goto(t, p) /\ \A u \in Threads \ {t} : /\ key'[u] = key[u] /\ calls'[u] = calls[u]
                                                     /\ ev'[u] = ev[u] /\ item'[u] = item[u]
  PROVE  OthersStay
BY DEF TypeInv, TypeOK, OthersStay, Guarded, Leading, Body, Places, Finish, Goto

\* Taking the key: nobody else leads it, and followers of the key, if any,
\* find the result stored.
LEMMA LeadSteady ==
  ASSUME TypeInv, SteadyInv, NEW t \in Threads, Lead(t)
  PROVE  SteadyInv'
<1>1. /\ key[t] \in Keys /\ registry[key[t]] = None
      /\ registry' = [registry EXCEPT ![key[t]] = <<t, calls[t]>>]
      /\ pc' = [pc EXCEPT ![t] = "compute"]
      /\ UNCHANGED <<key, calls, ev, item, store, now>>
  BY DEF Lead, Goto, TypeInv, TypeOK, LocalsOK
<1>2. \A u \in Threads : /\ u = t => pc'[u] = "compute"
                         /\ u # t => pc'[u] = pc[u]
  BY <1>1 DEF TypeInv, TypeOK
<1>3. \A k \in Keys : registry'[k] = IF k = key[t] THEN <<t, calls[t]>> ELSE registry[k]
  BY <1>1 DEF TypeInv, TypeOK
<1>4. \A u \in Threads : pc[u] # "idle" => key[u] \in Keys
  BY DEF TypeInv, LocalsOK
<1>6. ASSUME NEW u \in Threads, pc'[u] \in Leading
      PROVE  registry'[key'[u]] = <<u, calls'[u]>>
  <2>1. CASE u = t BY <1>1, <1>3, <2>1
  <2>2. CASE u # t
    <3>1. pc[u] \in Leading /\ registry[key[u]] = <<u, calls[u]>> /\ key[u] \in Keys /\ calls[u] \in Nat \ {0}
      BY <1>2, <1>6, <2>2, <1>4 DEF SteadyInv, LeadersAreRegistered, Leading, Body, TypeInv, TypeOK, LocalsOK
    <3>2. <<u, calls[u]>> # None
      BY <3>1, ConstantsAssumption DEF Events
    <3> QED BY <1>1, <1>3, <3>1, <3>2
  <2> QED BY <2>1, <2>2
<1>7. LeadersAreRegistered'
  BY <1>6 DEF LeadersAreRegistered
<1>8. LeadersHaveStored'
  BY <1>1, <1>2 DEF SteadyInv, LeadersHaveStored
<1>9. ASSUME NEW u \in Threads, pc'[u] = "wait", store[key[u]] = None
      PROVE  registry'[key[u]] = ev[u]
  <2>1. pc[u] = "wait" /\ registry[key[u]] = ev[u] /\ ev[u] \in Events /\ key[u] \in Keys
    BY <1>2, <1>9, <1>4 DEF SteadyInv, FollowersWillFind, TypeInv, LocalsOK
  <2>2. key[u] # key[t]
    BY <1>1, <2>1, ConstantsAssumption
  <2> QED BY <1>3, <2>1, <2>2
<1>10. FollowersWillFind'
  BY <1>1, <1>2, <1>9 DEF SteadyInv, FollowersWillFind
<1>11. NothingExpires'
  BY <1>1, <1>2 DEF SteadyInv, NothingExpires, Outlives
<1> QED BY <1>7, <1>8, <1>10, <1>11 DEF SteadyInv

\* A thread inside the flight moves on to a later place of it, its event and
\* its key's registration unchanged, and no stored entry is lost.
LEMMA OnwardSteady ==
  ASSUME TypeInv, SteadyInv, NEW t \in Threads, NEW p \in Leading, Goto(t, p),
         pc[t] \in Leading,
         UNCHANGED <<key, calls, ev, registry, now>>,
         \A u \in Threads \ {t} : item'[u] = item[u],
         p = "store" => Outlives(item'[t].life),
         p \in {"tag", "release"} => store'[key[t]] # None,
         \A k \in Keys : /\ store[k] # None => store'[k] # None
                         /\ store'[k] # None => Outlives(store'[k].exp)
  PROVE  SteadyInv'
<1>1. \A u \in Threads : /\ u = t => pc'[u] = p
                         /\ u # t => pc'[u] = pc[u]
  BY DEF Goto, TypeInv, TypeOK
<1>2. \A u \in Threads : pc[u] # "idle" => key[u] \in Keys
  BY DEF TypeInv, LocalsOK
<1>3. LeadersAreRegistered'
  BY <1>1 DEF SteadyInv, LeadersAreRegistered
<1>4. LeadersHaveStored'
  BY <1>1, <1>2 DEF SteadyInv, LeadersHaveStored
<1>5. FollowersWillFind'
  BY <1>1, <1>2 DEF SteadyInv, FollowersWillFind, Leading, Body
<1>6. NothingExpires'
  BY <1>1 DEF SteadyInv, NothingExpires, Outlives
<1> QED BY <1>3, <1>4, <1>5, <1>6 DEF SteadyInv

\* The item a computation ends with outlives the clock.
LEMMA ComputeSteady ==
  ASSUME Steady, TypeInv, SteadyInv, NEW t \in Threads, ComputeValue(t)
  PROVE  SteadyInv'
<1>1. PICK ttl \in Ttls, j \in 0..Jitter :
        item' = [item EXCEPT ![t] =
          IF ttl = None \/ StaleTtl = None
          THEN [fu |-> None, life |-> ttl]
          ELSE [fu |-> now + ttl + j, life |-> ttl + j + StaleTtl]]
  BY DEF ComputeValue
<1>2. Outlives(item'[t].life)
  <2>1. ttl # None => ttl \in Nat /\ ttl + (IF StaleTtl = None THEN 0 ELSE StaleTtl) > MaxTime
    BY ConstantsAssumption DEF Steady
  <2>2. CASE ttl = None \/ StaleTtl = None
    <3>1. item'[t].life = ttl
      BY <1>1, <2>2 DEF TypeInv, TypeOK
    <3> QED BY <2>1, <2>2, <3>1, ConstantsAssumption DEF Outlives
  <2>3. CASE ttl # None /\ StaleTtl # None
    <3>1. item'[t].life = ttl + j + StaleTtl
      BY <1>1, <2>3 DEF TypeInv, TypeOK
    <3>2. ttl \in Nat /\ StaleTtl \in Nat /\ j \in Nat /\ MaxTime \in Nat /\ ttl + StaleTtl > MaxTime
      BY <2>1, <2>3, ConstantsAssumption
    <3> QED BY <3>1, <3>2 DEF Outlives
  <2> QED BY <2>2, <2>3
<1>3. \A u \in Threads \ {t} : item'[u] = item[u]
  BY <1>1 DEF TypeInv, TypeOK
<1>4. /\ pc[t] \in Leading /\ "store" \in Leading /\ Goto(t, "store")
      /\ UNCHANGED <<key, calls, ev, registry, now, store>>
  BY DEF ComputeValue, Leading, Body
<1>5. \A k \in Keys : store[k] # None => Outlives(store[k].exp)
  BY DEF SteadyInv, NothingExpires
<1> QED BY <1>2, <1>3, <1>4, <1>5, OnwardSteady

\* The result is stored, for longer than the clock runs.
LEMMA StoreSteady ==
  ASSUME Steady, TypeInv, SteadyInv, NEW t \in Threads, Store(t)
  PROVE  SteadyInv'
<1>1. /\ pc[t] = "store" /\ key[t] \in Keys /\ now \in Nat /\ MaxTime \in Nat
      /\ item[t] \in Item /\ Outlives(item[t].life)
  BY ConstantsAssumption DEF TypeInv, TypeOK, LocalsOK, Store, SteadyInv, NothingExpires
<1>2. item[t].life = None \/ (item[t].life \in Nat /\ item[t].life > MaxTime)
  BY <1>1 DEF Item, OptNat, Outlives
<1>3. item[t].life # 0
  BY <1>1, <1>2, ConstantsAssumption
<1> DEFINE e == [fu |-> item[t].fu,
                 exp |-> IF item[t].life = None THEN None ELSE now + item[t].life]
<1>4. store' = [store EXCEPT ![key[t]] = e]
  BY <1>3 DEF Store, Write
<1>5. Outlives(e.exp)
  BY <1>1, <1>2 DEF Outlives
<1>6. e # None
  <2>1. item[t].fu \in OptNat /\ (item[t].life # None => now + item[t].life \in Nat)
    BY <1>1, <1>2 DEF Item
  <2>2. e \in Entry
    BY <2>1 DEF Entry, OptNat
  <2> QED BY <2>2, ConstantsAssumption
<1>7. \A k \in Keys : /\ store[k] # None => store'[k] # None
                      /\ store'[k] # None => Outlives(store'[k].exp)
  BY <1>1, <1>4, <1>5, <1>6 DEF TypeInv, TypeOK, SteadyInv, NothingExpires
<1>8. store'[key[t]] # None
  BY <1>1, <1>4, <1>6 DEF TypeInv, TypeOK
<1>9. UNCHANGED <<key, calls, ev, registry, now>> /\ \A u \in Threads \ {t} : item'[u] = item[u]
  BY DEF Store, LeaveBody, Steady, TypeInv, TypeOK
<1>10. Goto(t, "tag") \/ Goto(t, "release")
  BY DEF Store, LeaveBody, Steady
<1> QED BY <1>1, <1>7, <1>8, <1>9, <1>10, OnwardSteady DEF Leading, Body

\* A follower joins the registered event.
LEMMA FollowSteady ==
  ASSUME TypeInv, SteadyInv, NEW t \in Threads, Follow(t)
  PROVE  SteadyInv'
<1>1. /\ pc' = [pc EXCEPT ![t] = "wait"]
      /\ ev' = [ev EXCEPT ![t] = registry[key[t]]]
      /\ UNCHANGED <<key, calls, item, registry, store, now>>
  BY DEF Follow, Goto
<1>2. \A u \in Threads : /\ u = t => pc'[u] = "wait" /\ ev'[u] = registry[key[u]]
                         /\ u # t => pc'[u] = pc[u] /\ ev'[u] = ev[u]
  BY <1>1 DEF TypeInv, TypeOK
<1>3. LeadersAreRegistered' /\ LeadersHaveStored'
  BY <1>1, <1>2 DEF SteadyInv, LeadersAreRegistered, LeadersHaveStored, Leading, Body
<1>4. FollowersWillFind'
  BY <1>1, <1>2 DEF SteadyInv, FollowersWillFind
<1>5. NothingExpires'
  BY <1>1, <1>2 DEF SteadyInv, NothingExpires, Outlives
<1> QED BY <1>3, <1>4, <1>5 DEF SteadyInv

\* A woken follower's event is set, so it is registered no more, and the
\* result is stored.
LEMMA WakeSteady ==
  ASSUME TypeInv, FlightInv, SteadyInv, NEW t \in Threads, Wake(t)
  PROVE  SteadyInv'
<1>1. /\ pc[t] = "wait" /\ ev[t] \in signalled
      /\ pc' = [pc EXCEPT ![t] = "reread"]
      /\ ev' = [ev EXCEPT ![t] = None]
      /\ UNCHANGED <<key, calls, item, registry, store, now>>
  BY DEF Wake, Goto
<1>2. \A u \in Threads : /\ u = t => pc'[u] = "reread"
                         /\ u # t => pc'[u] = pc[u] /\ ev'[u] = ev[u]
  BY <1>1 DEF TypeInv, TypeOK
<1>3. store[key[t]] # None
  <2>1. key[t] \in Keys /\ ev[t] \in Events
    BY <1>1 DEF TypeInv, LocalsOK
  <2>2. registry[key[t]] # ev[t]
    BY <1>1, <2>1, ConstantsAssumption DEF FlightInv, RegisteredNotSet
  <2> QED BY <1>1, <2>2 DEF SteadyInv, FollowersWillFind
<1>4. LeadersAreRegistered' /\ LeadersHaveStored'
  BY <1>1, <1>2 DEF SteadyInv, LeadersAreRegistered, LeadersHaveStored, Leading, Body
<1>5. FollowersWillFind'
  BY <1>1, <1>2, <1>3 DEF SteadyInv, FollowersWillFind
<1>6. NothingExpires'
  BY <1>1, <1>2 DEF SteadyInv, NothingExpires, Outlives
<1> QED BY <1>4, <1>5, <1>6 DEF SteadyInv

\* Only the key's own leader releases it, and it has stored the result that
\* the followers it leaves behind will find.
LEMMA ReleaseSteady ==
  ASSUME TypeInv, SteadyInv, NEW t \in Threads, Release(t)
  PROVE  SteadyInv'
<1>1. /\ pc[t] = "release" /\ key[t] \in Keys /\ calls[t] \in Nat \ {0}
      /\ registry[key[t]] = <<t, calls[t]>> /\ store[key[t]] # None
  BY DEF Release, TypeInv, TypeOK, LocalsOK, SteadyInv, LeadersAreRegistered, LeadersHaveStored,
         Leading
<1>2. registry[key[t]] # None
  BY <1>1, ConstantsAssumption DEF Events
<1>3. /\ pc' = [pc EXCEPT ![t] = "signal"]
      /\ ev' = [ev EXCEPT ![t] = registry[key[t]]]
      /\ registry' = [registry EXCEPT ![key[t]] = None]
      /\ UNCHANGED <<key, calls, item, store, now>>
  BY <1>2 DEF Release, Goto
<1>4. \A u \in Threads : /\ u = t => pc'[u] = "signal"
                         /\ u # t => pc'[u] = pc[u] /\ ev'[u] = ev[u]
  BY <1>3 DEF TypeInv, TypeOK
<1>5. \A k \in Keys : registry'[k] = IF k = key[t] THEN None ELSE registry[k]
  BY <1>3 DEF TypeInv, TypeOK
<1>6. \A u \in Threads : pc[u] # "idle" => key[u] \in Keys
  BY DEF TypeInv, LocalsOK
<1>7. ASSUME NEW u \in Threads, pc'[u] \in Leading
      PROVE  registry'[key'[u]] = <<u, calls'[u]>>
  <2>1. u # t /\ pc[u] \in Leading
    BY <1>4, <1>7 DEF Leading, Body
  <2>2. registry[key[u]] = <<u, calls[u]>> /\ key[u] \in Keys
    BY <1>6, <2>1 DEF SteadyInv, LeadersAreRegistered, Leading, Body
  <2>3. key[u] # key[t]
    BY <1>1, <2>1, <2>2
  <2> QED BY <1>3, <1>5, <2>2, <2>3
<1>8. LeadersAreRegistered' /\ LeadersHaveStored'
  BY <1>3, <1>4, <1>7 DEF SteadyInv, LeadersAreRegistered, LeadersHaveStored
<1>9. FollowersWillFind'
  BY <1>1, <1>3, <1>4, <1>5, <1>6 DEF SteadyInv, FollowersWillFind
<1>10. NothingExpires'
  BY <1>3, <1>4 DEF SteadyInv, NothingExpires, Outlives
<1> QED BY <1>8, <1>9, <1>10 DEF SteadyInv

\* Every step of a thread keeps the invariant.
LEMMA SteadyStep ==
  ASSUME Steady, TypeInv, FlightInv, SteadyInv, NEW t \in Threads, Step(t)
  PROVE  SteadyInv'
<1> USE DEF Places, Body, Leading, Guarded
<1>1. CASE BypassReturns(t) BY <1>1, QuietOthers, QuietSteady DEF BypassReturns
<1>2. CASE Lookup(t)
  <2>1. key[t] \in Keys
    BY <1>2 DEF Lookup, TypeInv, LocalsOK
  <2>2. UNCHANGED store
    BY <1>2, <2>1, NothingDropped DEF Lookup
  <2> QED BY <1>2, <2>2, QuietOthers, QuietSteady DEF Lookup
<1>3. CASE ReadRaises(t) BY <1>3, QuietOthers, QuietSteady DEF ReadRaises
<1>4. CASE ServeFresh(t) BY <1>4, QuietOthers, QuietSteady DEF ServeFresh
<1>5. CASE ServeStale(t)
  BY <1>5, QuietSteady DEF ServeStale, Steady, OthersStay, TypeInv, TypeOK, Threads
<1>6. CASE SpawnRaises(t) BY <1>6, QuietOthers, QuietSteady DEF SpawnRaises
<1>7. CASE Miss(t) BY <1>7, QuietOthers, QuietSteady DEF Miss, Steady
<1>8. CASE Lead(t) BY <1>8, LeadSteady
<1>9. CASE Follow(t) BY <1>9, FollowSteady
<1>10. CASE GiveUpRefresh(t) BY <1>10, QuietOthers, QuietSteady DEF GiveUpRefresh
<1>11. CASE Wake(t) BY <1>11, WakeSteady
<1>12. CASE RereadHit(t) BY <1>12, QuietOthers, QuietSteady DEF RereadHit
<1>13. CASE RereadMiss(t)
  <2>1. key[t] \in Keys /\ store[key[t]] # None
    BY <1>13 DEF RereadMiss, TypeInv, LocalsOK, SteadyInv, FollowersWillFind
  <2> QED BY <1>13, <2>1, ReadFinds DEF RereadMiss
<1>14. CASE ComputeValue(t) BY <1>14, ComputeSteady
<1>15. CASE ComputeNothing(t) BY <1>15 DEF ComputeNothing, Steady
<1>16. CASE Store(t) BY <1>16, StoreSteady
<1>17. CASE StoreRaises(t) BY <1>17 DEF StoreRaises, Steady
<1>18. CASE Tag(t) \/ TagsRaise(t)
  <2>1. /\ Goto(t, "release") /\ pc[t] = "tag" /\ store[key[t]] # None
        /\ UNCHANGED <<key, calls, ev, registry, now, store>>
        /\ \A u \in Threads \ {t} : item'[u] = item[u]
    BY <1>18 DEF Tag, TagsRaise, LeaveBody, Steady, TypeInv, TypeOK, SteadyInv, LeadersHaveStored
  <2>2. \A k \in Keys : store[k] # None => Outlives(store[k].exp)
    BY DEF SteadyInv, NothingExpires
  <2> QED BY <2>1, <2>2, OnwardSteady
<1>19. CASE Release(t) BY <1>19, ReleaseSteady
<1>20. CASE Signal(t) BY <1>20, QuietOthers, QuietSteady DEF Signal
<1> QED
  BY <1>1, <1>2, <1>3, <1>4, <1>5, <1>6, <1>7, <1>8, <1>9, <1>10, <1>11, <1>12, <1>13,
     <1>14, <1>15, <1>16, <1>17, <1>18, <1>19, <1>20 DEF Step

\* Every step of the system keeps it.
LEMMA SteadyNext ==
  ASSUME Steady, TypeInv, FlightInv, SteadyInv, [Next]_vars
  PROVE  SteadyInv'
<1>1. CASE \E t \in Threads : Step(t)
  BY <1>1, SteadyStep
<1>2. CASE \E t \in Threads, k \in Keys : Call(t, k)
  BY <1>2, QuietSteady DEF Call, Begin, OthersStay, Guarded, Leading, Body, TypeInv, TypeOK
<1>3. CASE Tick
  <2>1. now' <= MaxTime
    BY <1>3, ConstantsAssumption DEF Tick, TypeInv, TypeOK
  <2> QED BY <1>3, <2>1 DEF Tick, threadVars, SteadyInv, LeadersAreRegistered, LeadersHaveStored,
                            FollowersWillFind, NothingExpires, Outlives
<1>4. CASE \E k \in Keys : Delete(k) \/ Invalidate(k)
  BY <1>4 DEF Delete, Invalidate, Steady
<1>5. CASE UNCHANGED vars
  BY <1>5, QuietSteady DEF vars, OthersStay
<1> QED BY <1>1, <1>2, <1>3, <1>4, <1>5 DEF Next, AllDone

\* The invariant holds in every reachable state.
LEMMA SteadyInvariant == ASSUME Steady PROVE Spec => []SteadyInv
<1>1. Init => SteadyInv
  BY ConstantsAssumption DEF Init, SteadyInv, LeadersAreRegistered, LeadersHaveStored,
     FollowersWillFind, NothingExpires, Leading, Body
<1>2. TypeInv /\ FlightInv /\ SteadyInv /\ [Next]_vars => SteadyInv'
  BY SteadyNext
<1> QED BY <1>1, <1>2, TypeCorrect, FlightInvariant, PTL DEF Spec

\* While every result is cached and nothing leaves the cache, two threads
\* never compute the same key at once, however many there are.
THEOREM OneComputes == ASSUME Steady PROVE Spec => []OneComputation
<1>1. SteadyInv => OneComputation
  BY DEF SteadyInv, LeadersAreRegistered, OneComputation, Leading, Body
<1> QED BY <1>1, SteadyInvariant, PTL
-----------------------------------------------------------------------------
(* The refinement of Flight *)

\* Roles of a thread that is at place p.
RoleAt(p) == CASE p \in Leading -> "lead"
               [] p \in {"wait", "reread"} -> "follow"
               [] OTHER -> "out"

\* What a step that moves t does to the contract's roles.
LEMMA RolesMove ==
  ASSUME TypeInv, NEW t \in Threads, NEW p, Goto(t, p)
  PROVE  /\ FlightRole[t] = RoleAt(pc[t])
         /\ FlightRole' = [FlightRole EXCEPT ![t] = RoleAt(p)]
<1>1. \A u \in Threads : FlightRole[u] = RoleAt(pc[u]) /\ FlightRole'[u] = RoleAt(pc'[u])
  BY DEF FlightRole, RoleAt, Leading
<1>2. \A u \in Threads : pc'[u] = IF u = t THEN p ELSE pc[u]
  BY DEF Goto, TypeInv, TypeOK
<1>3. /\ FlightRole' = [u \in Threads |-> FlightRole'[u]]
      /\ FlightRole = [u \in Threads |-> FlightRole[u]]
  BY DEF FlightRole
<1> QED BY <1>1, <1>2, <1>3

\* A step within a role, and away from the registry, is a stutter.
LEMMA StutterStep ==
  ASSUME TypeInv, NEW t \in Threads, NEW p, Goto(t, p),
         RoleAt(p) = RoleAt(pc[t]), UNCHANGED registry
  PROVE  UNCHANGED Contract!vars
<1>1. FlightRole' = FlightRole
  <2>1. FlightRole' = [FlightRole EXCEPT ![t] = FlightRole[t]]
    BY RolesMove
  <2> QED BY <2>1 DEF FlightRole
<1>2. FlightLeader' = FlightLeader
  BY DEF FlightLeader
<1> QED BY <1>1, <1>2 DEF Contract!vars

\* A follower that goes out leaves the flight.
LEMMA LeaveStep ==
  ASSUME TypeInv, NEW t \in Threads, Goto(t, "idle"), pc[t] = "reread", UNCHANGED registry
  PROVE  Contract!Leave(t)
<1>1. FlightRole[t] = "follow" /\ FlightRole' = [FlightRole EXCEPT ![t] = "out"]
  BY RolesMove DEF RoleAt, Leading, Body
<1>2. FlightLeader' = FlightLeader
  BY DEF FlightLeader
<1> QED BY <1>1, <1>2 DEF Contract!Leave

\* Lead opens a flight.
LEMMA OpenStep ==
  ASSUME TypeInv, NEW t \in Threads, Lead(t)
  PROVE  Contract!Open(t, key[t])
<1>1. key[t] \in Keys /\ registry[key[t]] = None /\ Goto(t, "compute") /\ pc[t] \in {"acquire", "refresh"}
  BY DEF Lead, TypeInv, LocalsOK
<1>2. FlightRole[t] = "out" /\ FlightRole' = [FlightRole EXCEPT ![t] = "lead"]
  BY <1>1, RolesMove DEF RoleAt, Leading, Body
<1>3. FlightLeader[key[t]] = None
  BY <1>1 DEF FlightLeader
<1>4. <<t, calls[t]>> # None
  BY <1>1, ConstantsAssumption DEF Events, TypeInv, TypeOK, LocalsOK
<1>5. \A k \in Keys : registry'[k] = IF k = key[t] THEN <<t, calls[t]>> ELSE registry[k]
  BY <1>1 DEF Lead, TypeInv, TypeOK
<1>6. \A k \in Keys : FlightLeader'[k] = IF k = key[t] THEN t ELSE FlightLeader[k]
  <2> SUFFICES ASSUME NEW k \in Keys PROVE FlightLeader'[k] = IF k = key[t] THEN t ELSE FlightLeader[k]
    OBVIOUS
  <2>1. <<t, calls[t]>>[1] = t
    OBVIOUS
  <2>2. FlightLeader'[k] = IF registry'[k] = None THEN None ELSE registry'[k][1]
    BY DEF FlightLeader
  <2>3. FlightLeader[k] = IF registry[k] = None THEN None ELSE registry[k][1]
    BY DEF FlightLeader
  <2> QED BY <1>4, <1>5, <2>1, <2>2, <2>3
<1>7. FlightLeader' = [FlightLeader EXCEPT ![key[t]] = t]
  BY <1>1, <1>6 DEF FlightLeader
<1> QED BY <1>2, <1>3, <1>7 DEF Contract!Open

\* Follow joins a flight that is open.
LEMMA JoinStep ==
  ASSUME TypeInv, NEW t \in Threads, Follow(t)
  PROVE  Contract!Join(t, key[t])
<1>1. key[t] \in Keys /\ registry[key[t]] # None /\ Goto(t, "wait") /\ pc[t] = "acquire" /\ UNCHANGED registry
  BY DEF Follow, TypeInv, LocalsOK
<1>2. FlightRole[t] = "out" /\ FlightRole' = [FlightRole EXCEPT ![t] = "follow"]
  BY <1>1, RolesMove DEF RoleAt, Leading, Body
<1>3. FlightLeader[key[t]] # None
  <2>1. registry[key[t]] \in Threads \X (Nat \ {0})
    BY <1>1 DEF TypeInv, TypeOK, Events
  <2>2. registry[key[t]][1] \in Threads
    BY <2>1
  <2> QED BY <1>1, <2>2, ConstantsAssumption DEF FlightLeader
<1>4. FlightLeader' = FlightLeader
  BY <1>1 DEF FlightLeader
<1> QED BY <1>2, <1>3, <1>4 DEF Contract!Join

\* The leader's release closes its own flight.
LEMMA CloseStep ==
  ASSUME TypeInv, SteadyInv, NEW t \in Threads, Release(t)
  PROVE  Contract!Close(t, key[t])
<1>1. /\ pc[t] = "release" /\ key[t] \in Keys /\ calls[t] \in Nat \ {0}
      /\ registry[key[t]] = <<t, calls[t]>>
  BY DEF Release, TypeInv, TypeOK, LocalsOK, SteadyInv, LeadersAreRegistered, Leading
<1>2. registry[key[t]] # None
  BY <1>1, ConstantsAssumption DEF Events
<1>3. Goto(t, "signal") /\ registry' = [registry EXCEPT ![key[t]] = None]
  BY <1>2 DEF Release
<1>4. FlightRole[t] = "lead" /\ FlightRole' = [FlightRole EXCEPT ![t] = "out"]
  BY <1>1, <1>3, RolesMove DEF RoleAt, Leading, Body
<1>5. FlightLeader[key[t]] = t
  <2>1. FlightLeader[key[t]] = registry[key[t]][1]
    BY <1>1, <1>2 DEF FlightLeader
  <2> QED BY <1>1, <2>1
<1>6. \A k \in Keys : registry'[k] = IF k = key[t] THEN None ELSE registry[k]
  BY <1>3 DEF TypeInv, TypeOK
<1>7. FlightLeader' = [FlightLeader EXCEPT ![key[t]] = None]
  BY <1>1, <1>6 DEF FlightLeader
<1> QED BY <1>4, <1>5, <1>7 DEF Contract!Close

\* Every step of a thread is a step of the contract or a stutter.
LEMMA ContractStep ==
  ASSUME Steady, TypeInv, SteadyInv, NEW t \in Threads, Step(t)
  PROVE  [Contract!Next]_(Contract!vars)
<1> USE DEF RoleAt, Leading, Body
<1>1. CASE Lead(t)
  <2>1. Contract!Open(t, key[t]) /\ key[t] \in Keys
    BY <1>1, OpenStep DEF Lead, TypeInv, LocalsOK
  <2> QED BY <2>1 DEF Contract!Next
<1>2. CASE Follow(t)
  <2>1. Contract!Join(t, key[t]) /\ key[t] \in Keys
    BY <1>2, JoinStep DEF Follow, TypeInv, LocalsOK
  <2> QED BY <2>1 DEF Contract!Next
<1>3. CASE Release(t)
  <2>1. Contract!Close(t, key[t]) /\ key[t] \in Keys
    BY <1>3, CloseStep DEF Release, TypeInv, LocalsOK
  <2> QED BY <2>1 DEF Contract!Next
<1>4. CASE RereadHit(t) \/ (ReadRaises(t) /\ pc[t] = "reread")
  <2>1. Contract!Leave(t)
    BY <1>4, LeaveStep DEF RereadHit, ReadRaises, Finish
  <2> QED BY <2>1 DEF Contract!Next
<1>5. CASE RereadMiss(t)
  <2>1. key[t] \in Keys /\ store[key[t]] # None
    BY <1>5 DEF RereadMiss, TypeInv, LocalsOK, SteadyInv, FollowersWillFind
  <2> QED BY <1>5, <2>1, ReadFinds DEF RereadMiss
<1>6. CASE ServeStale(t)
  <2>1. PICK w \in Workers : pc[w] = "idle" /\ pc' = [pc EXCEPT ![t] = "idle", ![w] = "refresh"]
    BY <1>6 DEF ServeStale, Steady
  <2>2. \A u \in Threads : RoleAt(pc'[u]) = RoleAt(pc[u])
    BY <1>6, <2>1 DEF ServeStale, TypeInv, TypeOK
  <2>3. FlightRole' = FlightRole
    BY <2>2 DEF FlightRole
  <2>4. FlightLeader' = FlightLeader
    BY <1>6 DEF ServeStale, FlightLeader
  <2> QED BY <2>3, <2>4 DEF Contract!vars
<1>7. CASE \/ BypassReturns(t) \/ ServeFresh(t) \/ SpawnRaises(t) \/ GiveUpRefresh(t) \/ Signal(t)
           \/ (ReadRaises(t) /\ pc[t] = "lookup")
  <2>1. Goto(t, "idle") /\ RoleAt("idle") = RoleAt(pc[t]) /\ UNCHANGED registry
    BY <1>7 DEF BypassReturns, ServeFresh, SpawnRaises, GiveUpRefresh, Signal, ReadRaises, Finish
  <2> QED BY <2>1, StutterStep
<1>8. CASE Lookup(t) BY <1>8, StutterStep DEF Lookup
<1>9. CASE Miss(t) BY <1>9, StutterStep DEF Miss, Steady
<1>10. CASE Wake(t) BY <1>10, StutterStep DEF Wake
<1>11. CASE ComputeValue(t) BY <1>11, StutterStep DEF ComputeValue
<1>12. CASE Store(t) BY <1>12, StutterStep DEF Store, LeaveBody, Steady
<1>13. CASE Tag(t) \/ TagsRaise(t) BY <1>13, StutterStep DEF Tag, TagsRaise, LeaveBody, Steady
<1>14. CASE ComputeNothing(t) \/ StoreRaises(t) BY <1>14 DEF ComputeNothing, StoreRaises, Steady
<1>15. ReadRaises(t) => pc[t] \in {"lookup", "reread"} BY DEF ReadRaises
<1> QED
  BY <1>1, <1>2, <1>3, <1>4, <1>5, <1>6, <1>7, <1>8, <1>9, <1>10, <1>11, <1>12, <1>13,
     <1>14, <1>15 DEF Step

\* So is every step of the system.
LEMMA ContractNext ==
  ASSUME Steady, TypeInv, SteadyInv, [Next]_vars
  PROVE  [Contract!Next]_(Contract!vars)
<1>1. CASE \E t \in Threads : Step(t)
  BY <1>1, ContractStep
<1>2. CASE \E t \in Threads, k \in Keys : Call(t, k)
  <2>1. PICK t \in Threads, k \in Keys : Call(t, k)
    BY <1>2
  <2>2. /\ pc[t] = "idle" /\ UNCHANGED registry
        /\ Goto(t, "lookup") \/ Goto(t, "bypass")
    BY <2>1 DEF Call, Begin, Goto
  <2> QED BY <2>1, <2>2, StutterStep DEF RoleAt, Leading, Body
<1>3. CASE UNCHANGED <<threadVars, registry>>
  BY <1>3 DEF threadVars, Contract!vars, FlightLeader, FlightRole
<1> QED BY <1>1, <1>2, <1>3 DEF Next, AllDone, Tick, Delete, Invalidate, vars, threadVars

\* While every result is cached and nothing leaves the cache, wrapper,
\* refreshers and registry implement the contract of singleflight.
THEOREM KeepsTheContract == ASSUME Steady PROVE Spec => FlightSpec
<1>1. Init => Contract!Init
  BY DEF Init, Contract!Init, FlightLeader, FlightRole, Body
<1>2. TypeInv /\ SteadyInv /\ [Next]_vars => [Contract!Next]_(Contract!vars)
  BY ContractNext
<1> QED BY <1>1, <1>2, TypeCorrect, SteadyInvariant, PTL DEF Spec, FlightSpec, Contract!Spec
=============================================================================
