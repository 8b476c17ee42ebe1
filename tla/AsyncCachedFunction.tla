------------------------ MODULE AsyncCachedFunction ------------------------
(***************************************************************************)
(* Calls of a coroutine function decorated by @cached (async_wrapper and   *)
(* its _refresh tasks, cachine/decorators/cached.py), made by the tasks of *)
(* one event loop.  What happens between two awaits is one step: a miss    *)
(* and _sf.acquire are, and so are _sf.release and the end of the call.    *)
(* The backend is awaited, so its answer is one step and the task that     *)
(* goes on with it another; a task can be cancelled at any await.          *)
(*                                                                         *)
(* The call itself is that of CachedFunction, whose threads are the tasks: *)
(* Callers are the application's, Workers the ones that run _refresh.      *)
(***************************************************************************)
EXTENDS CachedFunction, Sequences

CONSTANTS
  Pool,      \* the threads of the loop's default executor
  CancelAt   \* the places where a task may be cancelled, a subset of Awaits

\* The awaits of a call.  At "release" the last answer has arrived and the
\* task has not gone on with it.
Awaits == {"bypass", "lookup", "decide", "wait", "reread", "release", "refresh"} \union Body

\* A job of the executor: ev.wait() for a task (None: cancelled).
Job == [ev : Events, task : Threads \union {None}]

ASSUME AsyncAssumption == CancelAt \subseteq Awaits /\ None \notin Job

VARIABLES
  pool,   \* the job of each executor thread, or None
  queue   \* the tasks whose ev.wait() has no executor thread yet (None: cancelled)

poolVars == <<pool, queue>>
asyncVars == <<vars, pool, queue>>

\* Every variable keeps its type.
AsyncTypeOK == /\ TypeOK
               /\ pool \in [Pool -> Job \union {None}]
               /\ queue \in Seq(Threads \union {None})

AsyncInit == /\ Init
             /\ pool = [p \in Pool |-> None]
             /\ queue = <<>>
-----------------------------------------------------------------------------
(* Up to the function *)

Calls(t, k) == Call(t, k) /\ UNCHANGED poolVars

BypassEnds(t) == BypassReturns(t) /\ UNCHANGED poolVars

\* The backend answers _aget_cached_entry, or its answer is an error.
AwaitsEntry(t) == (Lookup(t) \/ ReadRaises(t)) /\ UNCHANGED poolVars

ServesFresh(t) == ServeFresh(t) /\ UNCHANGED poolVars

\* Mutant: a stale hit takes the key, and no task is made to refresh it.
ServesStaleOnly(t) ==
  /\ pc[t] = "decide"
  /\ seen[t] # None /\ Stale(seen[t])
  /\ registry' = [registry EXCEPT ![key[t]] = IF @ = None THEN <<t, calls[t]>> ELSE @]
  /\ Finish(t)
  /\ UNCHANGED <<signalled, store, tagged, now, pool, queue>>

\* A stale hit takes the key on behalf of the refresh task it makes, unless
\* the key is taken; without singleflight nothing is refreshed.
ServesStale(t) ==
  /\ pc[t] = "decide"
  /\ seen[t] # None /\ Stale(seen[t])
  /\ IF SingleFlight /\ registry[key[t]] = None
     THEN \E w \in Workers :
            /\ pc[w] = "idle" /\ calls[w] < Bound(w)
            /\ pc' = [pc EXCEPT ![t] = "idle", ![w] = "refresh"]
            /\ key' = [key EXCEPT ![t] = None, ![w] = key[t]]
            /\ calls' = [calls EXCEPT ![w] = @ + 1]
            /\ seen' = [seen EXCEPT ![t] = None]
            /\ registry' = [registry EXCEPT ![key[t]] = <<w, calls[w] + 1>>]
            /\ UNCHANGED <<ev, item>>
     ELSE Finish(t) /\ UNCHANGED registry
  /\ UNCHANGED <<signalled, store, tagged, now, pool, queue>>

\* A miss leads, or hands ev.wait() to the executor and follows.
Misses(t) ==
  /\ pc[t] = "decide"
  /\ seen[t] # None => ~Fresh(seen[t]) /\ ~Stale(seen[t])
  /\ seen' = [seen EXCEPT ![t] = None]
  /\ IF SingleFlight /\ registry[key[t]] # None
     THEN /\ ev' = [ev EXCEPT ![t] = registry[key[t]]]
          /\ queue' = Append(queue, t)
          /\ Goto(t, "wait")
          /\ UNCHANGED registry
     ELSE /\ registry' = IF SingleFlight
                         THEN [registry EXCEPT ![key[t]] = <<t, calls[t]>>]
                         ELSE registry
          /\ Goto(t, "compute")
          /\ UNCHANGED <<ev, queue>>
  /\ UNCHANGED <<key, calls, item, signalled, store, tagged, now, pool>>

\* The refresh task runs for the first time and enters its try block.
RefreshStarts(w) ==
  /\ pc[w] = "refresh"
  /\ Goto(w, "compute")
  /\ UNCHANGED <<key, calls, seen, ev, item, registry, signalled, store, tagged, now, pool, queue>>
-----------------------------------------------------------------------------
(* Followers and the executor *)

\* A free executor thread takes the first job, and drops it if it was cancelled.
PoolTakes(p) ==
  /\ pool[p] = None /\ queue # <<>>
  /\ queue' = Tail(queue)
  /\ pool' = IF Head(queue) = None THEN pool
             ELSE [pool EXCEPT ![p] = [ev |-> ev[Head(queue)], task |-> Head(queue)]]
  /\ UNCHANGED vars

\* Mutant: a thread whose task was cancelled is not given back.
PoolEndsForTask(p) ==
  /\ pool[p] # None
  /\ pool[p].ev \in signalled /\ pool[p].task # None
  /\ pool' = [pool EXCEPT ![p] = None]
  /\ LET t == pool[p].task IN
       /\ Goto(t, "reread")
       /\ ev' = [ev EXCEPT ![t] = None]
  /\ UNCHANGED <<key, calls, seen, item, registry, signalled, store, tagged, now, queue>>

\* The event is set: the thread is free, and the follower reads the cache
\* again, unless it was cancelled: the thread has waited all the same.
PoolEnds(p) ==
  /\ pool[p] # None
  /\ pool[p].ev \in signalled
  /\ pool' = [pool EXCEPT ![p] = None]
  /\ LET t == pool[p].task IN
       IF t = None THEN UNCHANGED <<pc, ev>>
       ELSE /\ Goto(t, "reread")
            /\ ev' = [ev EXCEPT ![t] = None]
  /\ UNCHANGED <<key, calls, seen, item, registry, signalled, store, tagged, now, queue>>

\* What the follower finds is returned, whatever its freshness; on a miss it
\* computes, although the key is not its own.
AwaitsReread(t) == (RereadHit(t) \/ RereadMiss(t)) /\ UNCHANGED poolVars
-----------------------------------------------------------------------------
(* The try block and its finally clause *)

AwaitsFunction(t) == (ComputeValue(t) \/ ComputeNothing(t)) /\ UNCHANGED poolVars

AwaitsSet(t) == (Store(t) \/ StoreRaises(t)) /\ UNCHANGED poolVars

AwaitsTags(t) == (Tag(t) \/ TagsRaise(t)) /\ UNCHANGED poolVars

\* Mutant: the event is taken out and never set.
GivesKeyBackSilently(k) ==
  /\ registry' = [registry EXCEPT ![k] = None]
  /\ UNCHANGED signalled

\* release: take out the key's event, whoever made it, and set it.
GivesKeyBack(k) ==
  /\ registry' = [registry EXCEPT ![k] = None]
  /\ signalled' = signalled \union ({registry[k]} \ {None})

Releases(t) ==
  /\ pc[t] = "release"
  /\ GivesKeyBack(key[t])
  /\ Finish(t)
  /\ UNCHANGED <<store, tagged, now, pool, queue>>

\* The executor's side of a cancelled await: a job not begun is cancelled, one
\* under way keeps its thread until the event is set.
DropsJob(t) ==
  /\ queue' = [i \in DOMAIN queue |-> IF queue[i] = t THEN None ELSE queue[i]]
  /\ pool' = [p \in Pool |-> IF pool[p] # None /\ pool[p].task = t
                             THEN [pool[p] EXCEPT !.task = None] ELSE pool[p]]

\* Mutant: cancellation passes the except clauses, and nothing releases the key.
CancelledHolding(t) ==
  /\ pc[t] \in CancelAt
  /\ DropsJob(t)
  /\ UNCHANGED <<registry, signalled>>
  /\ Finish(t)
  /\ UNCHANGED <<store, tagged, now>>

\* Cancellation is raised at the await.  Inside the try block the finally
\* clause releases the key; a refresh task that never ran has not entered it.
Cancelled(t) ==
  /\ pc[t] \in CancelAt
  /\ DropsJob(t)
  /\ IF SingleFlight /\ pc[t] \in Body \union {"release"}
     THEN GivesKeyBack(key[t])
     ELSE UNCHANGED <<registry, signalled>>
  /\ Finish(t)
  /\ UNCHANGED <<store, tagged, now>>
-----------------------------------------------------------------------------
Resumes(t) ==
  \/ BypassEnds(t) \/ AwaitsEntry(t) \/ ServesFresh(t) \/ ServesStale(t) \/ Misses(t)
  \/ RefreshStarts(t) \/ AwaitsReread(t)
  \/ AwaitsFunction(t) \/ AwaitsSet(t) \/ AwaitsTags(t) \/ Releases(t)

AsyncNext ==
  \/ \E t \in Threads : Resumes(t) \/ Cancelled(t) \/ \E k \in Keys : Calls(t, k)
  \/ \E p \in Pool : PoolTakes(p) \/ PoolEnds(p)
  \/ (Tick \/ (\E k \in Keys : Delete(k) \/ Invalidate(k)) \/ AllDone) /\ UNCHANGED poolVars

\* The loop resumes every task whose await is over, the backend answers, the
\* function ends, the executor runs its jobs.
AsyncFairness == /\ \A t \in Threads : WF_asyncVars(Resumes(t))
                 /\ \A p \in Pool : WF_asyncVars(PoolTakes(p)) /\ WF_asyncVars(PoolEnds(p))

AsyncSpec == AsyncInit /\ [][AsyncNext]_asyncVars
AsyncFairSpec == AsyncSpec /\ AsyncFairness
-----------------------------------------------------------------------------
(* Properties *)

\* An event is registered only while the task it was made for is alive and
\* will release the key: no error and no cancellation inside the try block
\* leaves behind an event on which every later miss would wait for ever.
EventHasTask ==
  \A k \in Keys : registry[k] # None =>
    \E t \in Threads : /\ registry[k] = <<t, calls[t]>>
                       /\ key[t] = k
                       /\ pc[t] \in Body \union {"refresh", "release"}

\* The event a follower waits for is set or still registered, and the wait
\* has an executor thread or a place in the executor's queue, although tasks
\* are cancelled and may release the key of another task's flight.
FollowersWillWake ==
  \A t \in Threads : pc[t] = "wait" =>
    /\ ev[t] \in signalled \/ registry[key[t]] = ev[t]
    /\ \/ \E i \in DOMAIN queue : queue[i] = t
       \/ \E p \in Pool : pool[p] = [ev |-> ev[t], task |-> t]

\* Every call ends, also when followers outnumber the executor's threads
\* and cancelled followers still occupy them.
AsyncCallsReturn == \A t \in Threads : (pc[t] # "idle") ~> (pc[t] = "idle")

\* Every flight ends: whoever takes a key, a caller or a refresh task, for
\* itself or through a stale hit, gives it back.
FlightsEnd ==
  \A k \in Keys, t \in Threads : \A n \in 1..Bound(t) :
    (registry[k] = <<t, n>>) ~> (registry[k] # <<t, n>>)
=============================================================================
