---------------------- MODULE AsyncCachedFunctionProofs ----------------------
(***************************************************************************)
(* Proofs about AsyncCachedFunction, for any tasks, keys, executors, ttls  *)
(* and bounds.  The steps the asynchronous wrapper shares with the         *)
(* synchronous one keep their types by the lemmas of CachedFunctionProofs. *)
(***************************************************************************)
EXTENDS AsyncCachedFunction, CachedFunctionProofs

Waiting == Threads \union {None}

PoolTypes == pool \in [Pool -> Job \union {None}] /\ queue \in Seq(Waiting)

AsyncTypes == TypeInv /\ PoolTypes

\* Where the task of a registered event may be.
Region == Body \union {"refresh", "release"}

\* Executor thread p waits for t.
Serves(p, t) == pool[p] # None /\ pool[p].task = t

\* The jobs that were not cancelled are those of waiting tasks, one for each.
JobsOfWaiting ==
  /\ \A p \in Pool, t \in Threads : Serves(p, t) => pc[t] = "wait"
  /\ \A i \in DOMAIN queue : queue[i] \in Threads => pc[queue[i]] = "wait"
  /\ \A p, q \in Pool, t \in Threads : Serves(p, t) /\ Serves(q, t) => p = q
  /\ \A i, j \in DOMAIN queue : queue[i] \in Threads /\ queue[i] = queue[j] => i = j
  /\ \A p \in Pool, i \in DOMAIN queue : queue[i] \in Threads => ~Serves(p, queue[i])

\* Whoever waits has a job.
WaitingHaveJobs ==
  \A t \in Threads : pc[t] = "wait" =>
    \/ \E i \in DOMAIN queue : queue[i] = t
    \/ \E p \in Pool : pool[p] = [ev |-> ev[t], task |-> t]

\* The event of a waiting task is set, or the registry still has it.
EventsWillBeSet ==
  \A t \in Threads : pc[t] = "wait" => ev[t] \in signalled \/ registry[key[t]] = ev[t]

NoEventsWithout == SingleFlight \/ \A k \in Keys : registry[k] = None

AsyncInv == EventHasTask /\ EventsWillBeSet /\ NoEventsWithout /\ WaitingHaveJobs /\ JobsOfWaiting

\* Nothing is registered, queued or waited for at the start.
LEMMA AsyncInitOK == AsyncInit => AsyncTypes /\ AsyncInv
<1> SUFFICES ASSUME AsyncInit PROVE AsyncTypes /\ AsyncInv
  OBVIOUS
<1>1. TypeInv
  BY TypeInit DEF AsyncInit
<1>2. PoolTypes
  BY DEF AsyncInit, PoolTypes
<1>3. AsyncInv
  BY DEF AsyncInit, Init, AsyncInv, EventHasTask, EventsWillBeSet, NoEventsWithout, WaitingHaveJobs,
         JobsOfWaiting, Serves
<1> QED BY <1>1, <1>2, <1>3 DEF AsyncTypes
-----------------------------------------------------------------------------
(* Types *)

\* Every step keeps the types; those of the synchronous wrapper are known to.
LEMMA AsyncTypeResumes ==
  ASSUME AsyncTypes, NEW t \in Threads, Resumes(t)
  PROVE  AsyncTypes'
<1> USE ConstantsAssumption
<1>1. ASSUME Step(t), UNCHANGED poolVars PROVE AsyncTypes'
  BY <1>1, TypeStep DEF AsyncTypes, PoolTypes, poolVars
<1>2. CASE BypassEnds(t) \/ AwaitsEntry(t) \/ ServesFresh(t) \/ AwaitsReread(t)
           \/ AwaitsFunction(t) \/ AwaitsSet(t) \/ AwaitsTags(t)
  BY <1>1, <1>2 DEF BypassEnds, AwaitsEntry, ServesFresh, AwaitsReread, AwaitsFunction, AwaitsSet,
                    AwaitsTags, Step
<1>3. CASE ServesStale(t)
  <2>0. pc[t] = "decide" /\ key[t] \in Keys /\ UNCHANGED <<signalled, store, tagged, now, pool, queue>>
    BY <1>3 DEF ServesStale, AsyncTypes, TypeInv, LocalsOK
  <2>1. CASE SingleFlight /\ registry[key[t]] = None
    <3>1. PICK w \in Workers :
            /\ pc[w] = "idle" /\ calls[w] < Bound(w)
            /\ pc' = [pc EXCEPT ![t] = "idle", ![w] = "refresh"]
            /\ key' = [key EXCEPT ![t] = None, ![w] = key[t]]
            /\ calls' = [calls EXCEPT ![w] = @ + 1]
            /\ seen' = [seen EXCEPT ![t] = None]
            /\ registry' = [registry EXCEPT ![key[t]] = <<w, calls[w] + 1>>]
            /\ UNCHANGED <<ev, item>>
      BY <1>3, <2>1 DEF ServesStale
    <3>2. w \in Threads /\ calls[w] \in Nat /\ w # t
      BY <2>0, <3>1 DEF Threads, AsyncTypes, TypeInv, TypeOK
    <3>3. <<w, calls[w] + 1>> \in Events
      BY <3>2 DEF Events
    <3>4. TypeOK'
      BY <2>0, <3>1, <3>2, <3>3 DEF AsyncTypes, TypeInv, TypeOK, Places
    <3>5. LocalsOK'
      BY <2>0, <3>1, <3>2 DEF AsyncTypes, TypeInv, TypeOK, LocalsOK
    <3> QED BY <2>0, <3>4, <3>5 DEF AsyncTypes, TypeInv, PoolTypes
  <2>2. CASE ~(SingleFlight /\ registry[key[t]] = None)
    <3>1. Finish(t) /\ UNCHANGED registry
      BY <1>3, <2>2 DEF ServesStale
    <3> QED BY <2>0, <3>1, TypeFinish DEF AsyncTypes, TypeInv, TypeOK, PoolTypes
  <2> QED BY <2>1, <2>2
<1>4. CASE Misses(t)
  <2>0. /\ pc[t] = "decide" /\ key[t] \in Keys /\ calls[t] \in Nat \ {0}
        /\ UNCHANGED <<key, calls, item, signalled, store, tagged, now, pool>>
        /\ seen' = [seen EXCEPT ![t] = None]
    BY <1>4 DEF Misses, AsyncTypes, TypeInv, TypeOK, LocalsOK
  <2>1. CASE SingleFlight /\ registry[key[t]] # None
    <3>1. /\ ev' = [ev EXCEPT ![t] = registry[key[t]]]
          /\ queue' = Append(queue, t)
          /\ pc' = [pc EXCEPT ![t] = "wait"]
          /\ UNCHANGED registry
      BY <1>4, <2>1 DEF Misses, Goto
    <3>2. registry[key[t]] \in Events
      BY <2>0, <2>1 DEF AsyncTypes, TypeInv, TypeOK
    <3>3. queue' \in Seq(Waiting)
      BY <3>1 DEF AsyncTypes, PoolTypes, Waiting
    <3> QED BY <2>0, <3>1, <3>2, <3>3 DEF AsyncTypes, TypeInv, TypeOK, LocalsOK, PoolTypes, Places
  <2>2. CASE ~(SingleFlight /\ registry[key[t]] # None)
    <3>1. /\ registry' = registry \/ registry' = [registry EXCEPT ![key[t]] = <<t, calls[t]>>]
          /\ pc' = [pc EXCEPT ![t] = "compute"]
          /\ UNCHANGED <<ev, queue>>
      BY <1>4, <2>2 DEF Misses, Goto
    <3>2. <<t, calls[t]>> \in Events
      BY <2>0 DEF Events
    <3>3. registry' \in [Keys -> Events \union {None}]
      BY <2>0, <3>1, <3>2 DEF AsyncTypes, TypeInv, TypeOK
    <3>4. TypeOK'
      BY <2>0, <3>1, <3>3 DEF AsyncTypes, TypeInv, TypeOK, Places, Body
    <3>5. LocalsOK'
      BY <2>0, <3>1 DEF AsyncTypes, TypeInv, TypeOK, LocalsOK
    <3> QED BY <2>0, <3>1, <3>4, <3>5 DEF AsyncTypes, TypeInv, PoolTypes
  <2> QED BY <2>1, <2>2
<1>5. CASE RefreshStarts(t)
  BY <1>5 DEF RefreshStarts, Goto, AsyncTypes, TypeInv, TypeOK, LocalsOK, PoolTypes, Places, Body
<1>6. CASE Releases(t)
  <2>1. registry' \in [Keys -> Events \union {None}] /\ signalled' \subseteq Events
    BY <1>6 DEF Releases, GivesKeyBack, AsyncTypes, TypeInv, TypeOK, LocalsOK
  <2> QED BY <1>6, <2>1, TypeFinish DEF Releases, AsyncTypes, TypeInv, TypeOK, PoolTypes
<1> QED BY <1>2, <1>3, <1>4, <1>5, <1>6 DEF Resumes

\* So do cancellation and the steps of the executor.
LEMMA AsyncTypeNext ==
  ASSUME AsyncTypes, AsyncInv, [AsyncNext]_asyncVars
  PROVE  AsyncTypes'
<1> USE ConstantsAssumption
<1>1. ASSUME NEW t \in Threads, Cancelled(t) PROVE AsyncTypes'
  <2>1. pool' \in [Pool -> Job \union {None}]
    <3>1. ASSUME NEW p \in Pool, pool[p] # None PROVE [pool[p] EXCEPT !.task = None] \in Job
      BY <3>1 DEF AsyncTypes, PoolTypes, Job
    <3> QED BY <1>1, <3>1 DEF Cancelled, DropsJob, AsyncTypes, PoolTypes
  <2>2. queue' \in Seq(Waiting)
    <3>1. queue \in Seq(Waiting) /\ DOMAIN queue = 1..Len(queue) /\ Len(queue) \in Nat
      BY DEF AsyncTypes, PoolTypes
    <3>2. queue' = [i \in 1..Len(queue) |-> IF queue[i] = t THEN None ELSE queue[i]]
      BY <1>1, <3>1 DEF Cancelled, DropsJob
    <3> QED BY <3>1, <3>2 DEF Waiting
  <2>3. registry' \in [Keys -> Events \union {None}] /\ signalled' \subseteq Events
    <3>1. CASE UNCHANGED <<registry, signalled>>
      BY <3>1 DEF AsyncTypes, TypeInv, TypeOK
    <3>2. CASE GivesKeyBack(key[t]) /\ pc[t] # "idle"
      BY <3>2 DEF GivesKeyBack, AsyncTypes, TypeInv, TypeOK, LocalsOK
    <3> QED BY <1>1, <3>1, <3>2 DEF Cancelled, Body
  <2> QED BY <1>1, <2>1, <2>2, <2>3, TypeFinish DEF Cancelled, AsyncTypes, TypeInv, TypeOK, PoolTypes
<1>2. ASSUME NEW p \in Pool, PoolTakes(p) PROVE AsyncTypes'
  <2>1. TypeInv'
    BY <1>2, TypeNext DEF PoolTakes, AsyncTypes
  <2>2. Head(queue) \in Waiting /\ queue' \in Seq(Waiting)
    BY <1>2 DEF PoolTakes, AsyncTypes, PoolTypes
  <2>3. pool' \in [Pool -> Job \union {None}]
    <3>1. CASE Head(queue) = None
      BY <1>2, <3>1 DEF PoolTakes, AsyncTypes, PoolTypes
    <3>2. CASE Head(queue) # None
      <4>1. Head(queue) \in Threads /\ 1 \in DOMAIN queue /\ Head(queue) = queue[1]
        BY <1>2, <2>2, <3>2 DEF PoolTakes, AsyncTypes, PoolTypes, Waiting
      <4>2. pc[Head(queue)] = "wait"
        BY <4>1 DEF AsyncInv, JobsOfWaiting
      <4>3. [ev |-> ev[Head(queue)], task |-> Head(queue)] \in Job
        BY <4>1, <4>2 DEF AsyncTypes, TypeInv, LocalsOK, Job
      <4> QED BY <1>2, <3>2, <4>3 DEF PoolTakes, AsyncTypes, PoolTypes
    <3> QED BY <3>1, <3>2
  <2> QED BY <2>1, <2>2, <2>3 DEF AsyncTypes, PoolTypes
<1>3. ASSUME NEW p \in Pool, PoolEnds(p) PROVE AsyncTypes'
  <2>1. PoolTypes'
    BY <1>3 DEF PoolEnds, AsyncTypes, PoolTypes
  <2>2. CASE pool[p].task = None
    BY <1>3, <2>1, <2>2 DEF PoolEnds, AsyncTypes, TypeInv, TypeOK, LocalsOK
  <2>3. CASE pool[p].task # None
    <3>1. /\ pool[p].task \in Threads
          /\ pc' = [pc EXCEPT ![pool[p].task] = "reread"]
          /\ ev' = [ev EXCEPT ![pool[p].task] = None]
      BY <1>3, <2>3 DEF PoolEnds, Goto, AsyncTypes, PoolTypes, Job
    <3>2. pc[pool[p].task] = "wait"
      BY <1>3, <3>1 DEF PoolEnds, AsyncInv, JobsOfWaiting, Serves
    <3> QED BY <1>3, <2>1, <3>1, <3>2 DEF PoolEnds, AsyncTypes, TypeInv, TypeOK, LocalsOK, Places
  <2> QED BY <2>2, <2>3
<1>4. ASSUME NEW t \in Threads, NEW k \in Keys, Calls(t, k) PROVE AsyncTypes'
  BY <1>4, TypeNext DEF Calls, AsyncTypes, PoolTypes, poolVars, Next
<1>5. CASE (Tick \/ (\E k \in Keys : Delete(k) \/ Invalidate(k)) \/ AllDone) /\ UNCHANGED poolVars
  BY <1>5, TypeNext DEF AsyncTypes, PoolTypes, poolVars, Next
<1>6. CASE UNCHANGED asyncVars
  BY <1>6, TypeNext DEF AsyncTypes, PoolTypes, asyncVars
<1> QED BY <1>1, <1>2, <1>3, <1>4, <1>5, <1>6, AsyncTypeResumes DEF AsyncNext
-----------------------------------------------------------------------------
(* Flights and jobs *)

\* A step that leaves the executor alone, and the waiting tasks with what they
\* wait for, keeps the jobs in order.
LEMMA JobsStutter ==
  ASSUME AsyncInv, UNCHANGED <<pool, queue>>,
         \A t \in Threads : /\ pc'[t] = "wait" <=> pc[t] = "wait"
                            /\ pc[t] = "wait" => ev'[t] = ev[t]
  PROVE  WaitingHaveJobs' /\ JobsOfWaiting'
<1>1. WaitingHaveJobs'
  BY DEF AsyncInv, WaitingHaveJobs
<1>2. JobsOfWaiting'
  BY DEF AsyncInv, JobsOfWaiting, Serves
<1> QED BY <1>1, <1>2

\* A step of t that touches neither the registry nor the executor and does
\* not leave the region with a flight.
LEMMA AsyncQuiet ==
  ASSUME AsyncTypes, AsyncInv, NEW t \in Threads,
         UNCHANGED <<registry, signalled, calls, pool, queue>>,
         \A u \in Threads : u # t => pc'[u] = pc[u] /\ key'[u] = key[u] /\ ev'[u] = ev[u],
         pc[t] # "wait", pc'[t] # "wait",
         pc[t] \in Region /\ SingleFlight => pc'[t] \in Region /\ key'[t] = key[t]
  PROVE  AsyncInv'
<1>1. EventHasTask'
  <2> SUFFICES ASSUME NEW k \in Keys, registry[k] # None
               PROVE  \E c \in Threads : /\ registry[k] = <<c, calls[c]>>
                                         /\ key'[c] = k
                                         /\ pc'[c] \in Region
    BY DEF EventHasTask, Region
  <2>1. PICK c \in Threads : registry[k] = <<c, calls[c]>> /\ key[c] = k /\ pc[c] \in Region
    BY DEF AsyncInv, EventHasTask, Region
  <2>2. SingleFlight
    BY DEF AsyncInv, NoEventsWithout
  <2> QED BY <2>1, <2>2
<1>2. EventsWillBeSet'
  <2> SUFFICES ASSUME NEW w \in Threads, pc'[w] = "wait"
               PROVE  ev'[w] \in signalled \/ registry[key'[w]] = ev'[w]
    BY DEF EventsWillBeSet
  <2>1. w # t
    OBVIOUS
  <2> QED BY <2>1 DEF AsyncInv, EventsWillBeSet
<1>3. NoEventsWithout'
  BY DEF AsyncInv, NoEventsWithout
<1>4. WaitingHaveJobs' /\ JobsOfWaiting'
  BY JobsStutter
<1> QED BY <1>1, <1>2, <1>3, <1>4 DEF AsyncInv

\* Ending a call outside the region, or without singleflight.
LEMMA AsyncQuietFinish ==
  ASSUME AsyncTypes, AsyncInv, NEW t \in Threads, Finish(t),
         UNCHANGED <<registry, signalled, pool, queue>>,
         pc[t] # "wait", pc[t] \in Region => ~SingleFlight
  PROVE  AsyncInv'
<1>1. /\ pc'[t] = "idle" /\ UNCHANGED calls
      /\ \A u \in Threads : u # t => pc'[u] = pc[u] /\ key'[u] = key[u] /\ ev'[u] = ev[u]
  BY DEF Finish, Goto, AsyncTypes, TypeInv, TypeOK
<1> QED BY <1>1, AsyncQuiet

\* Going on to another place, inside the region if the task is in it.
LEMMA AsyncQuietGoto ==
  ASSUME AsyncTypes, AsyncInv, NEW t \in Threads, NEW place, Goto(t, place),
         UNCHANGED <<key, ev, registry, signalled, calls, pool, queue>>,
         pc[t] # "wait", place # "wait",
         pc[t] \in Region => place \in Region
  PROVE  AsyncInv'
<1>1. /\ pc'[t] = place
      /\ \A u \in Threads : u # t => pc'[u] = pc[u]
  BY DEF Goto, AsyncTypes, TypeInv, TypeOK
<1> QED BY <1>1, AsyncQuiet

\* Leaving the try block.
LEMMA AsyncQuietLeave ==
  ASSUME AsyncTypes, AsyncInv, NEW t \in Threads, LeaveBody(t), pc[t] \in Body,
         UNCHANGED <<registry, signalled, pool, queue>>
  PROVE  AsyncInv'
<1>1. pc[t] # "wait"
  BY DEF Body
<1>2. CASE SingleFlight
  BY <1>1, <1>2, AsyncQuietGoto DEF LeaveBody, Region
<1>3. CASE ~SingleFlight
  BY <1>1, <1>3, AsyncQuietFinish DEF LeaveBody
<1> QED BY <1>2, <1>3

\* Giving the key back: whatever event it had is set, and the flight of every
\* other key stays.
LEMMA GivingBack ==
  ASSUME AsyncTypes, AsyncInv, NEW t \in Threads, Finish(t), GivesKeyBack(key[t]),
         key[t] \in Keys, SingleFlight
  PROVE  EventHasTask' /\ EventsWillBeSet' /\ NoEventsWithout'
<1> USE ConstantsAssumption
<1>1. /\ pc'[t] = "idle" /\ UNCHANGED calls
      /\ registry' = [registry EXCEPT ![key[t]] = None]
      /\ signalled' = signalled \union ({registry[key[t]]} \ {None})
      /\ \A u \in Threads : u # t => pc'[u] = pc[u] /\ key'[u] = key[u] /\ ev'[u] = ev[u]
  BY DEF Finish, Goto, GivesKeyBack, AsyncTypes, TypeInv, TypeOK
<1>2. EventHasTask'
  <2> SUFFICES ASSUME NEW k \in Keys, registry'[k] # None
               PROVE  \E c \in Threads : /\ registry'[k] = <<c, calls[c]>>
                                         /\ key'[c] = k
                                         /\ pc'[c] \in Region
    BY <1>1 DEF EventHasTask, Region
  <2>1. k # key[t] /\ registry'[k] = registry[k]
    BY <1>1 DEF AsyncTypes, TypeInv, TypeOK
  <2>2. PICK c \in Threads : registry[k] = <<c, calls[c]>> /\ key[c] = k /\ pc[c] \in Region
    BY <2>1 DEF AsyncInv, EventHasTask, Region
  <2> QED BY <1>1, <2>1, <2>2
<1>3. EventsWillBeSet'
  <2> SUFFICES ASSUME NEW w \in Threads, pc'[w] = "wait"
               PROVE  ev'[w] \in signalled' \/ registry'[key'[w]] = ev'[w]
    BY DEF EventsWillBeSet
  <2>1. /\ w # t /\ pc[w] = "wait" /\ ev'[w] = ev[w] /\ key'[w] = key[w]
        /\ key[w] \in Keys /\ ev[w] \in Events
    BY <1>1 DEF AsyncTypes, TypeInv, LocalsOK
  <2>2. ev[w] # None
    BY <2>1
  <2> QED BY <1>1, <2>1, <2>2 DEF AsyncInv, EventsWillBeSet, AsyncTypes, TypeInv, TypeOK
<1> QED BY <1>2, <1>3 DEF NoEventsWithout

\* A task in the registry for a new event of its own.
LEMMA Registering ==
  ASSUME AsyncTypes, AsyncInv, SingleFlight,
         NEW k \in Keys, registry[k] = None,
         NEW w \in Threads,
         registry' = [registry EXCEPT ![k] = <<w, calls'[w]>>],
         pc'[w] \in Region, key'[w] = k, pc[w] \notin Region,
         UNCHANGED signalled,
         \A u \in Threads : u # w => calls'[u] = calls[u],
         \A u \in Threads : u # w /\ (pc[u] \in Region \/ pc'[u] = "wait") =>
           pc'[u] = pc[u] /\ key'[u] = key[u] /\ ev'[u] = ev[u]
  PROVE  EventHasTask' /\ EventsWillBeSet' /\ NoEventsWithout'
<1> USE ConstantsAssumption
<1>1. EventHasTask'
  <2> SUFFICES ASSUME NEW j \in Keys, registry'[j] # None
               PROVE  \E c \in Threads : /\ registry'[j] = <<c, calls'[c]>>
                                         /\ key'[c] = j
                                         /\ pc'[c] \in Region
    BY DEF EventHasTask, Region
  <2>1. CASE j = k
    BY <2>1 DEF AsyncTypes, TypeInv, TypeOK
  <2>2. CASE j # k
    <3>1. registry'[j] = registry[j]
      BY <2>2 DEF AsyncTypes, TypeInv, TypeOK
    <3>2. PICK c \in Threads : registry[j] = <<c, calls[c]>> /\ key[c] = j /\ pc[c] \in Region
      BY <3>1 DEF AsyncInv, EventHasTask, Region
    <3> QED BY <3>1, <3>2
  <2> QED BY <2>1, <2>2
<1>2. EventsWillBeSet'
  <2> SUFFICES ASSUME NEW u \in Threads, pc'[u] = "wait"
               PROVE  ev'[u] \in signalled \/ registry'[key'[u]] = ev'[u]
    BY DEF EventsWillBeSet
  <2>1. u # w
    BY DEF Region, Body
  <2>2. pc[u] = "wait" /\ ev'[u] = ev[u] /\ key'[u] = key[u] /\ key[u] \in Keys /\ ev[u] \in Events
    BY <2>1 DEF AsyncTypes, TypeInv, LocalsOK
  <2>3. ev[u] # None
    BY <2>2
  <2> QED BY <2>2, <2>3 DEF AsyncInv, EventsWillBeSet, AsyncTypes, TypeInv, TypeOK
<1> QED BY <1>1, <1>2 DEF NoEventsWithout

\* A miss that finds an event waits for it, at the end of the executor's queue.
LEMMA Joining ==
  ASSUME AsyncTypes, AsyncInv, NEW t \in Threads, Misses(t),
         SingleFlight, registry[key[t]] # None
  PROVE  AsyncInv'
<1> USE ConstantsAssumption
<1>0. /\ pc[t] = "decide" /\ pc' = [pc EXCEPT ![t] = "wait"]
      /\ ev' = [ev EXCEPT ![t] = registry[key[t]]]
      /\ queue' = Append(queue, t)
      /\ UNCHANGED <<key, calls, registry, signalled, pool>>
      /\ key[t] \in Keys
  BY DEF Misses, Goto, AsyncTypes, TypeInv, LocalsOK
<1>1. /\ pc'[t] = "wait" /\ ev'[t] = registry[key[t]]
      /\ \A u \in Threads : u # t => pc'[u] = pc[u] /\ ev'[u] = ev[u]
  BY <1>0 DEF AsyncTypes, TypeInv, TypeOK
<1>2. EventHasTask'
  BY <1>0, <1>1 DEF AsyncInv, EventHasTask, Body
<1>3. EventsWillBeSet'
  BY <1>0, <1>1 DEF AsyncInv, EventsWillBeSet
<1>4. /\ Len(queue) \in Nat /\ DOMAIN queue = 1..Len(queue)
      /\ DOMAIN queue' = 1..(Len(queue) + 1)
      /\ queue'[Len(queue) + 1] = t
      /\ \A i \in 1..Len(queue) : queue'[i] = queue[i]
  BY <1>0 DEF AsyncTypes, PoolTypes
<1>5. WaitingHaveJobs'
  <2> SUFFICES ASSUME NEW u \in Threads, pc'[u] = "wait"
               PROVE  \/ \E i \in DOMAIN queue' : queue'[i] = u
                      \/ \E p \in Pool : pool[p] = [ev |-> ev'[u], task |-> u]
    BY <1>0 DEF WaitingHaveJobs
  <2>1. CASE u = t
    BY <1>4, <2>1
  <2>2. CASE u # t
    <3>1. pc[u] = "wait" /\ ev'[u] = ev[u]
      BY <1>1, <2>2
    <3>2. \/ \E i \in 1..Len(queue) : queue[i] = u
          \/ \E p \in Pool : pool[p] = [ev |-> ev[u], task |-> u]
      BY <1>4, <3>1 DEF AsyncInv, WaitingHaveJobs
    <3>3. \A i \in 1..Len(queue) : i \in 1..(Len(queue) + 1)
      BY <1>4
    <3> QED BY <1>4, <3>1, <3>2, <3>3
  <2> QED BY <2>1, <2>2
<1>6. JobsOfWaiting'
  <2>1. \A p \in Pool : ~Serves(p, t)
    BY <1>0 DEF AsyncInv, JobsOfWaiting
  <2>2. \A i \in 1..Len(queue) : queue[i] # t
    BY <1>0, <1>4 DEF AsyncInv, JobsOfWaiting
  <2>3. \A p \in Pool, u \in Threads : Serves(p, u)' <=> Serves(p, u)
    BY <1>0 DEF Serves
  <2>4. \A i \in DOMAIN queue' : i \in 1..Len(queue) \/ i = Len(queue) + 1
    BY <1>4
  <2>5. /\ \A p \in Pool, u \in Threads : Serves(p, u)' => pc'[u] = "wait"
        /\ \A p, q \in Pool, u \in Threads : Serves(p, u)' /\ Serves(q, u)' => p = q
    BY <1>1, <2>3 DEF AsyncInv, JobsOfWaiting
  <2>6. \A i \in DOMAIN queue' : queue'[i] \in Threads => pc'[queue'[i]] = "wait"
    BY <1>1, <1>4, <2>4 DEF AsyncInv, JobsOfWaiting
  <2>7. \A i, j \in DOMAIN queue' : queue'[i] \in Threads /\ queue'[i] = queue'[j] => i = j
    BY <1>4, <2>2, <2>4 DEF AsyncInv, JobsOfWaiting
  <2>8. ASSUME NEW p \in Pool, NEW i \in DOMAIN queue', queue'[i] \in Threads
        PROVE  ~(pool'[p] # None /\ pool'[p].task = queue'[i])
    <3>1. CASE i \in 1..Len(queue)
      BY <1>0, <1>4, <2>8, <3>1 DEF AsyncInv, JobsOfWaiting, Serves
    <3>2. CASE i = Len(queue) + 1
      BY <1>0, <1>4, <2>1, <3>2 DEF Serves
    <3> QED BY <2>4, <3>1, <3>2
  <2> QED BY <2>5, <2>6, <2>7, <2>8 DEF JobsOfWaiting, Serves
<1> QED BY <1>0, <1>2, <1>3, <1>5, <1>6 DEF AsyncInv, NoEventsWithout

\* A call that ends drops its job, and nobody else's.
LEMMA Dropping ==
  ASSUME AsyncTypes, AsyncInv, NEW t \in Threads, DropsJob(t), Finish(t)
  PROVE  WaitingHaveJobs' /\ JobsOfWaiting'
<1> USE ConstantsAssumption
<1>1. /\ pc'[t] = "idle"
      /\ \A u \in Threads : u # t => pc'[u] = pc[u] /\ ev'[u] = ev[u]
  BY DEF Finish, Goto, AsyncTypes, TypeInv, TypeOK
<1>2. /\ DOMAIN queue' = DOMAIN queue
      /\ \A i \in DOMAIN queue : queue'[i] = IF queue[i] = t THEN None ELSE queue[i]
  BY DEF DropsJob
<1>3. \A p \in Pool : /\ Serves(p, t) => pool'[p].task = None
                      /\ ~Serves(p, t) => pool'[p] = pool[p]
  BY DEF DropsJob, Serves, AsyncTypes, PoolTypes, Job
<1>4. \A p \in Pool, u \in Threads : Serves(p, u)' <=> u # t /\ Serves(p, u)
  BY <1>3 DEF Serves
<1>5. WaitingHaveJobs'
  <2> SUFFICES ASSUME NEW u \in Threads, pc'[u] = "wait"
               PROVE  \/ \E i \in DOMAIN queue' : queue'[i] = u
                      \/ \E p \in Pool : pool'[p] = [ev |-> ev'[u], task |-> u]
    BY DEF WaitingHaveJobs
  <2>1. u # t /\ pc[u] = "wait" /\ ev'[u] = ev[u]
    BY <1>1
  <2>2. CASE \E i \in DOMAIN queue : queue[i] = u
    BY <1>2, <2>1, <2>2
  <2>3. ASSUME NEW p \in Pool, pool[p] = [ev |-> ev[u], task |-> u]
        PROVE  pool'[p] = [ev |-> ev'[u], task |-> u]
    BY <1>3, <2>1, <2>3 DEF Serves
  <2> QED BY <2>1, <2>2, <2>3 DEF AsyncInv, WaitingHaveJobs
<1>6. JobsOfWaiting'
  <2>1. \A i \in DOMAIN queue' : queue'[i] \in Threads => queue'[i] = queue[i] /\ queue[i] # t
    BY <1>2
  <2>2. /\ \A p \in Pool, u \in Threads : Serves(p, u)' => pc'[u] = "wait"
        /\ \A p, q \in Pool, u \in Threads : Serves(p, u)' /\ Serves(q, u)' => p = q
    BY <1>1, <1>4 DEF AsyncInv, JobsOfWaiting
  <2>3. /\ \A i \in DOMAIN queue' : queue'[i] \in Threads => pc'[queue'[i]] = "wait"
        /\ \A i, j \in DOMAIN queue' : queue'[i] \in Threads /\ queue'[i] = queue'[j] => i = j
    BY <1>1, <1>2, <2>1 DEF AsyncInv, JobsOfWaiting
  <2>4. ASSUME NEW p \in Pool, NEW i \in DOMAIN queue', queue'[i] \in Threads
        PROVE  ~(pool'[p] # None /\ pool'[p].task = queue'[i])
    BY <1>2, <1>3, <2>1, <2>4 DEF AsyncInv, JobsOfWaiting, Serves
  <2> QED BY <2>2, <2>3, <2>4 DEF JobsOfWaiting, Serves
<1> QED BY <1>5, <1>6

\* A job goes from the head of the queue to a free thread.
LEMMA Taking ==
  ASSUME AsyncTypes, AsyncInv, NEW p \in Pool, PoolTakes(p)
  PROVE  AsyncInv'
<1> USE ConstantsAssumption
<1> DEFINE h == Head(queue)
<1>0. pool[p] = None /\ UNCHANGED vars
  BY DEF PoolTakes
<1>1. /\ Len(queue) \in Nat \ {0} /\ DOMAIN queue = 1..Len(queue)
      /\ DOMAIN queue' = 1..(Len(queue) - 1)
      /\ \A i \in 1..(Len(queue) - 1) : queue'[i] = queue[i + 1] /\ i + 1 \in 1..Len(queue)
      /\ h = queue[1] /\ h \in Waiting /\ 1 \in DOMAIN queue
  BY DEF PoolTakes, AsyncTypes, PoolTypes
<1>2. \A i \in DOMAIN queue : i # 1 => i - 1 \in DOMAIN queue' /\ queue'[i - 1] = queue[i]
  BY <1>1
<1>3. /\ \A q \in Pool : q # p => pool'[q] = pool[q]
      /\ h = None => pool'[p] = None
      /\ h # None => pool'[p] = [ev |-> ev[h], task |-> h]
  BY <1>0 DEF PoolTakes, AsyncTypes, PoolTypes
<1>a. h # None => h \in Threads /\ [ev |-> ev[h], task |-> h] # None
  <2> SUFFICES ASSUME h # None PROVE h \in Threads /\ [ev |-> ev[h], task |-> h] # None
    OBVIOUS
  <2>1. h \in Threads /\ pc[h] = "wait"
    BY <1>1 DEF Waiting, AsyncInv, JobsOfWaiting
  <2>2. [ev |-> ev[h], task |-> h] \in Job
    BY <2>1 DEF AsyncTypes, TypeInv, LocalsOK, Job
  <2> QED BY <2>1, <2>2, AsyncAssumption
<1>4. ASSUME NEW q \in Pool, NEW u \in Threads
      PROVE  Serves(q, u)' <=> Serves(q, u) \/ (q = p /\ u = h)
  <2>1. CASE q # p
    BY <1>3, <2>1 DEF Serves
  <2>2. CASE q = p /\ h = None
    BY <1>0, <1>3, <2>2 DEF Serves
  <2>3. CASE q = p /\ h # None
    BY <1>0, <1>3, <1>a, <2>3 DEF Serves
  <2> QED BY <2>1, <2>2, <2>3
<1>5. EventHasTask' /\ EventsWillBeSet' /\ NoEventsWithout'
  BY <1>0 DEF vars, AsyncInv, EventHasTask, EventsWillBeSet, NoEventsWithout
<1>6. WaitingHaveJobs'
  <2> SUFFICES ASSUME NEW u \in Threads, pc[u] = "wait"
               PROVE  \/ \E i \in DOMAIN queue' : queue'[i] = u
                      \/ \E q \in Pool : pool'[q] = [ev |-> ev[u], task |-> u]
    BY <1>0 DEF WaitingHaveJobs, vars
  <2>1. ASSUME NEW i \in DOMAIN queue, queue[i] = u
        PROVE  \/ \E j \in DOMAIN queue' : queue'[j] = u
               \/ \E q \in Pool : pool'[q] = [ev |-> ev[u], task |-> u]
    BY <1>1, <1>2, <1>3, <2>1
  <2>2. ASSUME NEW q \in Pool, pool[q] = [ev |-> ev[u], task |-> u]
        PROVE  pool'[q] = [ev |-> ev[u], task |-> u]
    <3>1. pc[u] = "wait" /\ ev[u] \in Events
      BY DEF AsyncTypes, TypeInv, LocalsOK
    <3>2. [ev |-> ev[u], task |-> u] # None
      BY <3>1, AsyncAssumption DEF Job
    <3> QED BY <1>0, <1>3, <2>2, <3>2
  <2> QED BY <2>1, <2>2 DEF AsyncInv, WaitingHaveJobs
<1>7. JobsOfWaiting'
  <2>1. h \in Threads => pc[h] = "wait" /\ \A q \in Pool : ~Serves(q, h)
    BY <1>1 DEF AsyncInv, JobsOfWaiting
  <2>2. \A i \in DOMAIN queue' : queue'[i] \in Threads => queue'[i] # h
    BY <1>1 DEF AsyncInv, JobsOfWaiting
  <2>3. \A q \in Pool, u \in Threads : Serves(q, u)' => pc'[u] = "wait"
    BY <1>0, <1>4, <2>1 DEF AsyncInv, JobsOfWaiting, vars
  <2>4. \A q, r \in Pool, u \in Threads : Serves(q, u)' /\ Serves(r, u)' => q = r
    BY <1>4, <2>1 DEF AsyncInv, JobsOfWaiting
  <2>5. \A i \in DOMAIN queue' : queue'[i] \in Threads => pc'[queue'[i]] = "wait"
    BY <1>0, <1>1 DEF AsyncInv, JobsOfWaiting, vars
  <2>6. \A i, j \in DOMAIN queue' : queue'[i] \in Threads /\ queue'[i] = queue'[j] => i = j
    <3> SUFFICES ASSUME NEW i \in DOMAIN queue', NEW j \in DOMAIN queue',
                        queue'[i] \in Threads, queue'[i] = queue'[j]
                 PROVE  i = j
      OBVIOUS
    <3>1. i + 1 = j + 1
      BY <1>1 DEF AsyncInv, JobsOfWaiting
    <3> QED BY <1>1, <3>1
  <2>7. ASSUME NEW q \in Pool, NEW i \in DOMAIN queue', queue'[i] \in Threads
        PROVE  ~(pool'[q] # None /\ pool'[q].task = queue'[i])
    <3>1. CASE q = p
      BY <1>3, <2>2, <2>7, <3>1
    <3>2. CASE q # p
      <4>1. queue'[i] = queue[i + 1] /\ i + 1 \in DOMAIN queue
        BY <1>1
      <4>2. ~Serves(q, queue[i + 1])
        BY <2>7, <4>1 DEF AsyncInv, JobsOfWaiting
      <4> QED BY <1>3, <3>2, <4>1, <4>2 DEF Serves
    <3> QED BY <3>1, <3>2
  <2> QED BY <2>3, <2>4, <2>5, <2>6, <2>7 DEF JobsOfWaiting, Serves
<1> QED BY <1>5, <1>6, <1>7 DEF AsyncInv

\* The wait of a thread is over: its task, if it has one, waits no longer.
LEMMA Ending ==
  ASSUME AsyncTypes, AsyncInv, NEW p \in Pool, PoolEnds(p)
  PROVE  AsyncInv'
<1> USE ConstantsAssumption
<1> DEFINE t == pool[p].task
<1>0. /\ pool[p] # None /\ t \in Waiting
      /\ UNCHANGED <<key, calls, registry, signalled, queue>>
      /\ pool'[p] = None /\ \A q \in Pool : q # p => pool'[q] = pool[q]
  BY DEF PoolEnds, AsyncTypes, PoolTypes, Job, Waiting
<1>1. \A q \in Pool, u \in Threads : Serves(q, u)' <=> q # p /\ Serves(q, u)
  BY <1>0 DEF Serves
<1>2. \A u \in Threads : u # t => pc'[u] = pc[u] /\ ev'[u] = ev[u]
  BY DEF PoolEnds, Goto, AsyncTypes, TypeInv, TypeOK
<1>3. t \in Threads => /\ pc[t] = "wait" /\ pc'[t] = "reread"
                       /\ \A i \in DOMAIN queue : queue[i] # t
                       /\ \A q \in Pool : Serves(q, t) => q = p
  <2> SUFFICES ASSUME t \in Threads
               PROVE  /\ pc[t] = "wait" /\ pc'[t] = "reread"
                      /\ \A i \in DOMAIN queue : queue[i] # t
                      /\ \A q \in Pool : Serves(q, t) => q = p
    OBVIOUS
  <2>1. Serves(p, t) /\ t # None
    BY <1>0 DEF Serves
  <2>2. pc' = [pc EXCEPT ![t] = "reread"]
    BY <2>1 DEF PoolEnds, Goto
  <2> QED BY <2>1, <2>2 DEF AsyncInv, JobsOfWaiting, AsyncTypes, TypeInv, TypeOK
<1>4. EventHasTask'
  <2> SUFFICES ASSUME NEW k \in Keys, registry[k] # None
               PROVE  \E c \in Threads : /\ registry[k] = <<c, calls[c]>>
                                         /\ key[c] = k
                                         /\ pc'[c] \in Region
    BY <1>0 DEF EventHasTask, Region
  <2>1. PICK c \in Threads : registry[k] = <<c, calls[c]>> /\ key[c] = k /\ pc[c] \in Region
    BY DEF AsyncInv, EventHasTask, Region
  <2> QED BY <1>2, <1>3, <2>1 DEF Region, Body
<1>5. EventsWillBeSet' /\ NoEventsWithout'
  BY <1>0, <1>2, <1>3 DEF AsyncInv, EventsWillBeSet, NoEventsWithout
<1>6. WaitingHaveJobs'
  <2> SUFFICES ASSUME NEW u \in Threads, pc'[u] = "wait"
               PROVE  \/ \E i \in DOMAIN queue : queue[i] = u
                      \/ \E q \in Pool : pool'[q] = [ev |-> ev'[u], task |-> u]
    BY <1>0 DEF WaitingHaveJobs
  <2>1. u # t /\ pc[u] = "wait" /\ ev'[u] = ev[u]
    BY <1>2, <1>3
  <2>2. ASSUME NEW q \in Pool, pool[q] = [ev |-> ev[u], task |-> u]
        PROVE  pool'[q] = [ev |-> ev'[u], task |-> u]
    BY <1>0, <2>1, <2>2
  <2> QED BY <2>1, <2>2 DEF AsyncInv, WaitingHaveJobs
<1>7. JobsOfWaiting'
  <2>1. /\ \A q \in Pool, u \in Threads : Serves(q, u)' => pc'[u] = "wait"
        /\ \A q, r \in Pool, u \in Threads : Serves(q, u)' /\ Serves(r, u)' => q = r
    BY <1>1, <1>2, <1>3 DEF AsyncInv, JobsOfWaiting
  <2>2. /\ \A i \in DOMAIN queue' : queue'[i] \in Threads => pc'[queue'[i]] = "wait"
        /\ \A i, j \in DOMAIN queue' : queue'[i] \in Threads /\ queue'[i] = queue'[j] => i = j
    BY <1>0, <1>2, <1>3 DEF AsyncInv, JobsOfWaiting
  <2>3. ASSUME NEW q \in Pool, NEW i \in DOMAIN queue', queue'[i] \in Threads
        PROVE  ~(pool'[q] # None /\ pool'[q].task = queue'[i])
    BY <1>0, <2>3 DEF AsyncInv, JobsOfWaiting, Serves
  <2> QED BY <2>1, <2>2, <2>3 DEF JobsOfWaiting, Serves
<1> QED BY <1>4, <1>5, <1>6, <1>7 DEF AsyncInv

\* A new call has no event yet.
LEMMA Beginning ==
  ASSUME AsyncTypes, AsyncInv, NEW t \in Threads, NEW k \in Keys, Calls(t, k)
  PROVE  AsyncInv'
<1>0. /\ pc[t] = "idle" /\ pc'[t] \in {"lookup", "bypass"}
      /\ UNCHANGED <<ev, registry, signalled, pool, queue>>
      /\ \A u \in Threads : u # t => pc'[u] = pc[u] /\ key'[u] = key[u] /\ calls'[u] = calls[u]
  BY DEF Calls, Call, Begin, poolVars, AsyncTypes, TypeInv, TypeOK
<1>1. EventHasTask'
  <2> SUFFICES ASSUME NEW j \in Keys, registry[j] # None
               PROVE  \E c \in Threads : /\ registry[j] = <<c, calls'[c]>>
                                         /\ key'[c] = j
                                         /\ pc'[c] \in Region
    BY <1>0 DEF EventHasTask, Region
  <2>1. PICK c \in Threads : registry[j] = <<c, calls[c]>> /\ key[c] = j /\ pc[c] \in Region
    BY DEF AsyncInv, EventHasTask, Region
  <2> QED BY <1>0, <2>1 DEF Region, Body
<1>2. EventsWillBeSet'
  <2> SUFFICES ASSUME NEW w \in Threads, pc'[w] = "wait"
               PROVE  ev[w] \in signalled \/ registry[key'[w]] = ev[w]
    BY <1>0 DEF EventsWillBeSet
  <2>1. w # t
    BY <1>0
  <2> QED BY <1>0, <2>1 DEF AsyncInv, EventsWillBeSet
<1>3. NoEventsWithout'
  BY <1>0 DEF AsyncInv, NoEventsWithout
<1>4. WaitingHaveJobs' /\ JobsOfWaiting'
  BY <1>0, JobsStutter
<1> QED BY <1>1, <1>2, <1>3, <1>4 DEF AsyncInv

\* Every step of a task keeps the invariant.
LEMMA Resuming ==
  ASSUME AsyncTypes, AsyncInv, NEW t \in Threads, Resumes(t)
  PROVE  AsyncInv'
<1> USE ConstantsAssumption DEF Region, Body
<1>1. CASE BypassEnds(t)
  BY <1>1, AsyncQuietFinish DEF BypassEnds, BypassReturns, poolVars
<1>2. CASE AwaitsEntry(t)
  <2>1. CASE Lookup(t)
    BY <1>2, <2>1, AsyncQuietGoto DEF AwaitsEntry, Lookup, poolVars
  <2>2. CASE ReadRaises(t)
    BY <1>2, <2>2, AsyncQuietFinish DEF AwaitsEntry, ReadRaises, poolVars
  <2> QED BY <1>2, <2>1, <2>2 DEF AwaitsEntry
<1>3. CASE ServesFresh(t)
  BY <1>3, AsyncQuietFinish DEF ServesFresh, ServeFresh, poolVars
<1>4. CASE ServesStale(t)
  <2>0. pc[t] = "decide" /\ key[t] \in Keys /\ UNCHANGED <<signalled, pool, queue>>
    BY <1>4 DEF ServesStale, AsyncTypes, TypeInv, LocalsOK
  <2>1. CASE SingleFlight /\ registry[key[t]] = None
    <3>1. PICK w \in Workers :
            /\ pc[w] = "idle" /\ calls[w] < Bound(w)
            /\ pc' = [pc EXCEPT ![t] = "idle", ![w] = "refresh"]
            /\ key' = [key EXCEPT ![t] = None, ![w] = key[t]]
            /\ calls' = [calls EXCEPT ![w] = @ + 1]
            /\ registry' = [registry EXCEPT ![key[t]] = <<w, calls[w] + 1>>]
            /\ UNCHANGED ev
      BY <1>4, <2>1 DEF ServesStale
    <3>2. /\ w \in Threads /\ w # t
          /\ pc'[t] = "idle" /\ pc'[w] = "refresh" /\ key'[w] = key[t]
          /\ calls'[w] = calls[w] + 1
          /\ \A u \in Threads : u # w => calls'[u] = calls[u]
          /\ \A u \in Threads \ {t, w} : pc'[u] = pc[u] /\ key'[u] = key[u]
      BY <2>0, <3>1 DEF Threads, AsyncTypes, TypeInv, TypeOK
    <3>3. registry' = [registry EXCEPT ![key[t]] = <<w, calls'[w]>>]
      BY <3>1, <3>2
    <3>4. EventHasTask' /\ EventsWillBeSet' /\ NoEventsWithout'
      <4>1. \A u \in Threads : u # w /\ (pc[u] \in Region \/ pc'[u] = "wait") =>
              pc'[u] = pc[u] /\ key'[u] = key[u] /\ ev'[u] = ev[u]
        BY <2>0, <3>1, <3>2
      <4>2. pc'[w] \in Region /\ pc[w] \notin Region
        BY <3>1, <3>2
      <4> HIDE DEF Region
      <4> QED BY <2>0, <2>1, <3>2, <3>3, <4>1, <4>2, Registering
    <3>5. WaitingHaveJobs' /\ JobsOfWaiting'
      BY <2>0, <3>1, <3>2, JobsStutter
    <3> QED BY <3>4, <3>5 DEF AsyncInv
  <2>2. CASE ~(SingleFlight /\ registry[key[t]] = None)
    <3>1. Finish(t) /\ UNCHANGED registry
      BY <1>4, <2>2 DEF ServesStale
    <3> QED BY <2>0, <3>1, AsyncQuietFinish
  <2> QED BY <2>1, <2>2
<1>5. CASE Misses(t)
  <2>1. CASE SingleFlight /\ registry[key[t]] # None
    BY <1>5, <2>1, Joining
  <2>2. CASE SingleFlight /\ registry[key[t]] = None
    <3>1. /\ pc[t] = "decide" /\ key[t] \in Keys
          /\ registry' = [registry EXCEPT ![key[t]] = <<t, calls'[t]>>]
          /\ pc' = [pc EXCEPT ![t] = "compute"]
          /\ UNCHANGED <<key, ev, calls, signalled, pool, queue>>
      BY <1>5, <2>2 DEF Misses, Goto, AsyncTypes, TypeInv, LocalsOK
    <3>2. pc'[t] = "compute" /\ \A u \in Threads : u # t => pc'[u] = pc[u]
      BY <3>1 DEF AsyncTypes, TypeInv, TypeOK
    <3>3. EventHasTask' /\ EventsWillBeSet' /\ NoEventsWithout'
      BY <2>2, <3>1, <3>2, Registering
    <3>4. WaitingHaveJobs' /\ JobsOfWaiting'
      BY <3>1, <3>2, JobsStutter
    <3> QED BY <3>3, <3>4 DEF AsyncInv
  <2>3. CASE ~SingleFlight
    <3>1. /\ pc[t] = "decide" /\ Goto(t, "compute")
          /\ UNCHANGED <<key, ev, calls, registry, signalled, pool, queue>>
      BY <1>5, <2>3 DEF Misses
    <3> QED BY <3>1, AsyncQuietGoto
  <2> QED BY <2>1, <2>2, <2>3
<1>6. CASE RefreshStarts(t)
  BY <1>6, AsyncQuietGoto DEF RefreshStarts
<1>7. CASE AwaitsReread(t)
  <2>1. CASE RereadHit(t)
    BY <1>7, <2>1, AsyncQuietFinish DEF AwaitsReread, RereadHit, poolVars
  <2>2. CASE RereadMiss(t)
    BY <1>7, <2>2, AsyncQuietGoto DEF AwaitsReread, RereadMiss, poolVars
  <2> QED BY <1>7, <2>1, <2>2 DEF AwaitsReread
<1>8. CASE AwaitsFunction(t)
  <2>1. CASE ComputeValue(t)
    BY <1>8, <2>1, AsyncQuietGoto DEF AwaitsFunction, ComputeValue, poolVars
  <2>2. CASE ComputeNothing(t)
    BY <1>8, <2>2, AsyncQuietLeave DEF AwaitsFunction, ComputeNothing, poolVars
  <2> QED BY <1>8, <2>1, <2>2 DEF AwaitsFunction
<1>9. CASE AwaitsSet(t)
  <2>1. CASE Store(t) /\ HasTags
    BY <1>9, <2>1, AsyncQuietGoto DEF AwaitsSet, Store, poolVars
  <2>2. CASE Store(t) /\ ~HasTags
    BY <1>9, <2>2, AsyncQuietLeave DEF AwaitsSet, Store, poolVars
  <2>3. CASE StoreRaises(t)
    BY <1>9, <2>3, AsyncQuietLeave DEF AwaitsSet, StoreRaises, poolVars
  <2> QED BY <1>9, <2>1, <2>2, <2>3 DEF AwaitsSet
<1>10. CASE AwaitsTags(t)
  BY <1>10, AsyncQuietLeave DEF AwaitsTags, Tag, TagsRaise, poolVars
<1>11. CASE Releases(t)
  <2>0. /\ pc[t] = "release" /\ key[t] \in Keys /\ Finish(t)
        /\ GivesKeyBack(key[t]) /\ UNCHANGED <<pool, queue>>
    BY <1>11 DEF Releases, AsyncTypes, TypeInv, LocalsOK
  <2>1. CASE SingleFlight
    <3>1. /\ pc'[t] = "idle"
          /\ \A u \in Threads : u # t => pc'[u] = pc[u] /\ ev'[u] = ev[u]
      BY <2>0 DEF Finish, Goto, AsyncTypes, TypeInv, TypeOK
    <3>2. WaitingHaveJobs' /\ JobsOfWaiting'
      BY <2>0, <3>1, JobsStutter
    <3> QED BY <2>0, <2>1, <3>2, GivingBack DEF AsyncInv
  <2>2. CASE ~SingleFlight
    <3>1. UNCHANGED <<registry, signalled>>
      BY <2>0, <2>2 DEF GivesKeyBack, AsyncInv, NoEventsWithout, AsyncTypes, TypeInv, TypeOK
    <3> QED BY <2>0, <2>2, <3>1, AsyncQuietFinish
  <2> QED BY <2>1, <2>2
<1> QED BY <1>1, <1>2, <1>3, <1>4, <1>5, <1>6, <1>7, <1>8, <1>9, <1>10, <1>11 DEF Resumes

\* So does a cancellation, unless it meets a refresh task that has not run yet.
LEMMA Cancelling ==
  ASSUME AsyncTypes, AsyncInv, "refresh" \notin CancelAt, NEW t \in Threads, Cancelled(t)
  PROVE  AsyncInv'
<1> USE ConstantsAssumption
<1>0. Finish(t) /\ DropsJob(t) /\ pc[t] # "refresh" /\ pc[t] # "idle" /\ key[t] \in Keys
  BY AsyncAssumption DEF Cancelled, Awaits, Body, AsyncTypes, TypeInv, LocalsOK
<1>1. WaitingHaveJobs' /\ JobsOfWaiting'
  BY <1>0, Dropping
<1>2. EventHasTask' /\ EventsWillBeSet' /\ NoEventsWithout'
  <2>1. CASE SingleFlight /\ pc[t] \in Body \union {"release"}
    <3>1. GivesKeyBack(key[t])
      BY <2>1 DEF Cancelled
    <3> QED BY <1>0, <2>1, <3>1, GivingBack
  <2>2. CASE ~(SingleFlight /\ pc[t] \in Body \union {"release"})
    <3>1. UNCHANGED <<registry, signalled, calls>>
      BY <1>0, <2>2 DEF Cancelled, Finish
    <3>2. /\ pc'[t] = "idle"
          /\ \A u \in Threads : u # t => pc'[u] = pc[u] /\ key'[u] = key[u] /\ ev'[u] = ev[u]
      BY <1>0 DEF Finish, Goto, AsyncTypes, TypeInv, TypeOK
    <3>3. EventHasTask'
      <4> SUFFICES ASSUME NEW k \in Keys, registry[k] # None
                   PROVE  \E c \in Threads : /\ registry[k] = <<c, calls[c]>>
                                             /\ key'[c] = k
                                             /\ pc'[c] \in Region
        BY <3>1 DEF EventHasTask, Region
      <4>1. PICK c \in Threads : registry[k] = <<c, calls[c]>> /\ key[c] = k /\ pc[c] \in Region
        BY DEF AsyncInv, EventHasTask, Region
      <4>2. SingleFlight
        BY DEF AsyncInv, NoEventsWithout
      <4>3. c # t
        BY <1>0, <2>2, <4>1, <4>2 DEF Region
      <4> QED BY <3>2, <4>1, <4>3
    <3>4. EventsWillBeSet'
      <4> SUFFICES ASSUME NEW w \in Threads, pc'[w] = "wait"
                   PROVE  ev'[w] \in signalled \/ registry[key'[w]] = ev'[w]
        BY <3>1 DEF EventsWillBeSet
      <4>1. w # t
        BY <3>2
      <4> QED BY <3>2, <4>1 DEF AsyncInv, EventsWillBeSet
    <3>5. NoEventsWithout'
      BY <3>1 DEF AsyncInv, NoEventsWithout
    <3> QED BY <3>3, <3>4, <3>5
  <2> QED BY <2>1, <2>2
<1> QED BY <1>1, <1>2 DEF AsyncInv

\* The invariant is inductive.
LEMMA AsyncInvNext ==
  ASSUME AsyncTypes, AsyncInv, "refresh" \notin CancelAt, [AsyncNext]_asyncVars
  PROVE  AsyncInv'
<1>1. CASE UNCHANGED <<threadVars, registry, signalled, pool, queue>>
  <2>1. EventHasTask' /\ EventsWillBeSet' /\ NoEventsWithout'
    BY <1>1 DEF threadVars, AsyncInv, EventHasTask, EventsWillBeSet, NoEventsWithout
  <2>2. WaitingHaveJobs' /\ JobsOfWaiting'
    BY <1>1, JobsStutter DEF threadVars
  <2> QED BY <2>1, <2>2 DEF AsyncInv
<1>2. CASE (Tick \/ (\E k \in Keys : Delete(k) \/ Invalidate(k)) \/ AllDone) /\ UNCHANGED poolVars
  BY <1>1, <1>2 DEF Tick, Delete, Invalidate, AllDone, vars, threadVars, poolVars
<1>3. CASE UNCHANGED asyncVars
  BY <1>1, <1>3 DEF asyncVars, vars, threadVars
<1>4. CASE \E t \in Threads : Resumes(t) \/ Cancelled(t) \/ \E k \in Keys : Calls(t, k)
  BY <1>4, Resuming, Cancelling, Beginning
<1>5. CASE \E p \in Pool : PoolTakes(p) \/ PoolEnds(p)
  BY <1>5, Taking, Ending
<1> QED BY <1>2, <1>3, <1>4, <1>5 DEF AsyncNext

\* The invariant holds in every reachable state, while no refresh task is
\* cancelled before it has run.
LEMMA AsyncAlways ==
  ASSUME "refresh" \notin CancelAt PROVE AsyncSpec => [](AsyncTypes /\ AsyncInv)
<1>1. AsyncTypes /\ AsyncInv /\ [AsyncNext]_asyncVars => (AsyncTypes /\ AsyncInv)'
  BY AsyncTypeNext, AsyncInvNext
<1> QED BY <1>1, AsyncInitOK, PTL DEF AsyncSpec

\* Errors and cancellations in the try block leave no event in the registry
\* whose task will not release it, whoever took the key: a caller or a refresh.
THEOREM EventsHaveTasks ==
  ASSUME "refresh" \notin CancelAt PROVE AsyncSpec => []EventHasTask
<1>1. AsyncTypes /\ AsyncInv => EventHasTask
  BY DEF AsyncInv
<1> QED BY <1>1, AsyncAlways, PTL

\* A follower's event is set or registered, and its wait has a thread or a
\* place in the queue, for any number of followers and of executor threads.
THEOREM FollowersKeepTheirJobs ==
  ASSUME "refresh" \notin CancelAt PROVE AsyncSpec => []FollowersWillWake
<1>1. AsyncTypes /\ AsyncInv => FollowersWillWake
  BY DEF AsyncInv, EventsWillBeSet, WaitingHaveJobs, FollowersWillWake
<1> QED BY <1>1, AsyncAlways, PTL

\* Every variable of the asynchronous wrapper keeps its type.
THEOREM AsyncTypesAreKept ==
  ASSUME "refresh" \notin CancelAt PROVE AsyncSpec => []AsyncTypeOK
<1>1. AsyncTypes /\ AsyncInv => AsyncTypeOK
  BY DEF AsyncTypes, TypeInv, PoolTypes, Waiting, AsyncTypeOK
<1> QED BY <1>1, AsyncAlways, PTL
==============================================================================
