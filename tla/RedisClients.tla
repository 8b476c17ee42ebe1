---------------------------- MODULE RedisClients ----------------------------
(***************************************************************************)
(* Processes with a RedisCache each, coroutines with an AsyncRedisCache    *)
(* and subscribers of the invalidation channel, on one Redis database.     *)
(***************************************************************************)
EXTENDS InvalidationBus

ASSUME ClientsAssumption == Clients = SyncClients \union AsyncClients
                            /\ SyncClients \intersect AsyncClients = {}

vars == <<serverVars, now, frame, uses, calls, faults, historyVars, busVars>>

Init == ServerInit /\ BusInit

Invokes(c) ==
  \E k \in Keys : \E m \in uses[k].does, T \in SUBSET Tags, ttl \in uses[k].ttls :
    Invoke(c, m, k, T, ttl, IF c \in SyncClients THEN SyncStart(m) ELSE AsyncStart(m, ttl))

\* The bounds stop the system once every call has ended.
AllDone == /\ calls = MaxCalls /\ \A c \in Clients : frame[c].at = "idle"
           /\ UNCHANGED vars

Next ==
  \/ \E c \in SyncClients : SyncStep(c) /\ UNCHANGED busVars
  \/ \E c \in AsyncClients : AsyncStep(c) /\ UNCHANGED busVars
  \/ \E c \in Clients : Publishes(c) \/ AwaitsPublish(c)
  \/ \E c \in Clients : (Dies(c) \/ Invokes(c)) /\ UNCHANGED busVars
  \/ \E s \in Subscribers : Subscribes(s) \/ TakesMessage(s) \/ HandlerEnds(s) \/ Stops(s)
  \/ Disturbs
  \/ Tick /\ UNCHANGED busVars
  \/ AllDone

\* A subscriber's loop runs on while it is connected, and its handler returns or raises.
Fairness == \A s \in Subscribers : WF_vars(TakesMessage(s)) /\ WF_vars(HandlerEnds(s))

Spec     == Init /\ [][Next]_vars
FairSpec == Spec /\ Fairness
-----------------------------------------------------------------------------
(* Properties *)

\* Every variable keeps its type, and an empty tag set does not exist.
TypeOK == ServerTypeOK /\ BusTypeOK

\* A counter that is only incremented counts each answered increment of its
\* window once, whatever clients come in between; one that failed may have
\* counted, and an async incr whose script failed may count twice.
CountersAddUp ==
  \A k \in Keys : uses[k].does = {"incr"} =>
    LET count == IF kv[k] = None THEN 0 ELSE kv[k].val IN
    /\ acked[k] <= count
    /\ count <= acked[k] + unsure[k]

\* A counter that is only incremented with a ttl has a deadline, whoever else
\* increments it, dies or loses a reply, as long as no async incr has tried
\* its commands one by one.
WindowHasEnd ==
  \A k \in Keys : /\ uses[k].does = {"incr"} /\ {None, 0} \intersect uses[k].ttls = {}
                  /\ k \notin fellBack /\ kv[k] # None
                  => kv[k].exp # None

\* A call of invalidate_tags that began while no other deletion was under way
\* and met no error has removed, before it publishes or returns, every key
\* that was tagged when it began and was not stored again.
InvalidationRemoves ==
  \A c \in Clients : (frame[c].at \in {"publish", "a_publish", "idle"} /\ frame[c].clean)
                     => \A k \in doomed[c] : kv[k] = None

\* A key that was tagged for a time, and holds an entry, is found under the tag
\* all that time, until the tag is invalidated or the namespace cleared:
\* README.md:1077, "Remove all entries with these tags".
TaggedIsFound == \A p \in owed : kv[p[2]] # None => p[2] \in sets[p[1]].members

\* A subscriber that is connected takes every message, or stops.
MessagesAreTaken == \A s \in Subscribers : (inbox[s] # << >>) ~> (inbox[s] = << >>)
=============================================================================
