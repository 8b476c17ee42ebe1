-------------------------- MODULE InvalidationBus ---------------------------
(***************************************************************************)
(* The invalidation channel: cachine/backends/redis/pubsub.py and the      *)
(* methods publish_invalidation and subscribe_invalidations of the caches. *)
(* Redis hands a message to those connected when it is published, at most  *)
(* once and in order.  A subscriber that stops, stops silently.            *)
(***************************************************************************)
EXTENDS RedisCache, AsyncRedisCache, Sequences

CONSTANTS Subscribers, Event,
          Garbage   \* a message on the channel that is not JSON

VARIABLES
  listening,  \* the subscribers in their loop
  busy,       \* those of them whose handler is running
  inbox       \* the messages each has still to take

busVars == <<listening, busy, inbox>>

BusTypeOK == /\ listening \subseteq Subscribers /\ busy \subseteq listening
             /\ inbox \in [Subscribers -> Seq({Event, Garbage})]

BusInit == /\ listening = {} /\ busy = {}
           /\ inbox = [s \in Subscribers |-> << >>]

\* PUBLISH
Deliver(m) ==
  inbox' = [s \in Subscribers |-> IF s \in listening THEN Append(inbox[s], m) ELSE inbox[s]]

\* The end of invalidate_tags: an event, if one is asked for. Errors are
\* dropped, and with them perhaps the event.
Publishes(c) ==
  /\ frame[c].at = "publish"
  /\ Sends(c, kv, sets, Ended(c), Ended(c))
  /\ Deliver(Event) \/ UNCHANGED inbox
  /\ UNCHANGED <<listening, busy>>

AwaitsPublish(c) ==
  /\ frame[c].at = "a_publish"
  /\ Sends(c, kv, sets, Ended(c), Ended(c))
  /\ Deliver(Event) \/ UNCHANGED inbox
  /\ UNCHANGED <<listening, busy>>

clientVars == <<serverVars, now, frame, uses, calls, historyVars>>

\* Another program uses the channel.
Disturbs == /\ listening # {} /\ faults < MaxFaults /\ faults' = faults + 1
            /\ Deliver(Garbage)
            /\ UNCHANGED <<clientVars, listening, busy>>

\* The loop starts, or starts again; before it, events are lost. Nobody
\* subscribes where nothing is invalidated.
Subscribes(s) == /\ s \notin listening /\ Use("invalidate_tags") # {}
                 /\ listening' = listening \union {s}
                 /\ UNCHANGED <<clientVars, faults, busy, inbox>>

\* Mutant: json.loads raises out of the loop; the subscription stays open and is
\* read no more.
EndsAtGarbage(s) ==
  /\ s \in listening \ busy /\ inbox[s] # << >>
  /\ Head(inbox[s]) # Garbage
  /\ inbox' = [inbox EXCEPT ![s] = Tail(@)]
  /\ busy' = busy \union {s}
  /\ UNCHANGED <<clientVars, faults, listening>>

\* The loop takes the next message: what is not JSON is skipped, an event goes
\* to the handler.
TakesMessage(s) ==
  /\ s \in listening \ busy /\ inbox[s] # << >>
  /\ inbox' = [inbox EXCEPT ![s] = Tail(@)]
  /\ busy' = IF Head(inbox[s]) = Garbage THEN busy ELSE busy \union {s}
  /\ UNCHANGED <<clientVars, faults, listening>>

\* The handler returns, or what it returned has been awaited.
HandlerEnds(s) == /\ s \in busy
                  /\ busy' = busy \ {s}
                  /\ UNCHANGED <<clientVars, faults, listening, inbox>>

\* Mutant: the handler is a task of its own, which outlives the loop.
StopsHandlerRunning(s) ==
  /\ s \in listening
  /\ faults < MaxFaults /\ faults' = faults + 1
  /\ listening' = listening \ {s}
  /\ inbox' = [inbox EXCEPT ![s] = << >>]
  /\ UNCHANGED <<clientVars, busy>>

\* The handler raises or the connection is gone: the loop is over, and the
\* messages are lost.
Stops(s) == /\ s \in listening
            /\ faults < MaxFaults /\ faults' = faults + 1
            /\ listening' = listening \ {s} /\ busy' = busy \ {s}
            /\ inbox' = [inbox EXCEPT ![s] = << >>]
            /\ UNCHANGED clientVars
=============================================================================
