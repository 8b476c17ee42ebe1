----------------------------- MODULE Middleware -----------------------------
(***************************************************************************)
(* A stack of middleware on a backend (cachine/middleware): what a value   *)
(* becomes on its way in and out, what the metrics count, and what the     *)
(* fail-open layer does when the backend raises.  One run holds several    *)
(* stacks: Init picks one.                                                 *)
(***************************************************************************)
EXTENDS Integers, SequencesExt

CONSTANTS
  Callers, None,
  Stacks,      \* of [layers, ser, dumps, async]: the outermost layer comes first
  MaxCalls,    \* bound: calls of all callers together
  MaxFaults    \* bound: calls the backend refuses, or fails after it has done them

Layers == {"metrics", "fail_open", "compress", "encrypt"}
Serializers == {"none", "json", "pickle"}

\* What the application stores: str, one below the compression's min_size,
\* bytes, None, or any other object.
Kinds == {"str", "short", "bytes", "null", "obj"}

\* A value in the stack is the sequence of what was wrapped around it, the
\* outermost first: dumps, utf8 (str.encode), C and E (the envelopes).
Missing == << "missing" >>
Error   == << "error" >>

\* dumps: the backend uses its serializer; the in-memory cache has one only for
\* the layers.  async: the backend's methods are coroutines.
ASSUME MiddlewareAssumption ==
  /\ None \notin Int
  /\ \A s \in Stacks : /\ s.layers \in Seq(Layers) /\ s.ser \in Serializers /\ (s.dumps => s.ser # "none")
  /\ MaxCalls \in Nat /\ MaxFaults \in Nat

VARIABLES
  stack,        \* the stack in use
  store,        \* the entry of the one key the model has, or Missing
  local,        \* FailOpenMiddleware._local_counters of a counter
  seen,         \* per thread: the local count it read in its except clause, or None
  stats,        \* MetricsMiddleware: its Counters
  counting,     \* per thread: the counters it has yet to raise by one, in order
  loaded,       \* per thread: the count it read in `+= 1`, or None
  calls, faults,
  put,          \* history: the kind of value last stored by set, or None
  outcomes,     \* history: how many gets ended in which of Outcomes
  raced,        \* history: two threads were in one `+= 1` at once
  fallen,       \* history: the sum of the increments the backend raised for
  overlap       \* history: two threads were in the except clause at once

metrics == <<stats, counting, loaded, raced>>
vars == <<stack, store, local, seen, metrics, calls, faults, put, outcomes, fallen, overlap>>

\* hits, misses, errors and latency_count.
Counters == {"hits", "misses", "errors", "timed"}

\* What a caller gets: a stored value, its own default, an exception, a
\* cancellation, or something else.
Outcomes == {"value", "default", "raised", "cancelled", "other"}

Init ==
  /\ stack \in Stacks
  /\ store = Missing
  /\ local = 0 /\ seen = [c \in Callers |-> None]
  /\ stats = [n \in Counters |-> 0]
  /\ counting = [c \in Callers |-> <<>>] /\ loaded = [c \in Callers |-> None] /\ raced = FALSE
  /\ calls = 0 /\ faults = 0
  /\ put = None
  /\ outcomes = [o \in Outcomes |-> 0]
  /\ fallen = 0 /\ overlap = FALSE

Envelopes(s) == {i \in DOMAIN s.layers : s.layers[i] \in {"compress", "encrypt"}}

Has(s, layer) == layer \in ToSet(s.layers)

\* A layer inside of another, or the backend at the end.
Depth(s, layer) == CHOOSE i \in DOMAIN s.layers : s.layers[i] = layer
-----------------------------------------------------------------------------
(* Values on their way in, through a stack s *)

\* Serializer.dumps: JSON has no bytes, and the envelopes hold bytes.
Dumps(s, v) == IF s.ser = "json" /\ Head(v) \in {"bytes", "C", "E"} THEN Error
               ELSE << "dumps" >> \o v

\* The bytes a layer is to wrap, or Missing if it passes the value as it is.
Payload(s, v) == IF s.ser # "none" THEN Dumps(s, v)
                 ELSE CASE Head(v) = "bytes" -> v
                        [] Head(v) \in {"str", "short"} -> << "utf8" >> \o v
                        [] OTHER             -> Missing

Wraps(s, envelope, v) == LET p == Payload(s, v) IN
  IF p = Error THEN Error ELSE IF p = Missing THEN v ELSE << envelope >> \o p

\* CompressionMiddleware.set passes envelopes from outside as they are, and
\* what is short once it has been dumped.
CompressSet(s, v) ==
  IF Head(v) \in {"C", "E"} THEN v
  ELSE IF Last(v) = "short" /\ Wraps(s, "C", v) # Error THEN v ELSE Wraps(s, "C", v)

\* Mutant: encryption passes them as well.
EncryptSetNoEnvelope(s, v) == IF Head(v) \in {"C", "E"} THEN v ELSE Wraps(s, "E", v)

EncryptSet(s, v) == Wraps(s, "E", v)

\* What a layer hands to the one below.
SealedBy(s, layer, v) ==
  IF v = Error THEN Error
  ELSE CASE layer = "compress" -> CompressSet(s, v)
         [] layer = "encrypt"  -> EncryptSet(s, v)
         [] OTHER -> v

\* What reaches the backend and what it stores: element i comes from layer i.
Sealed(s, v) ==
  LET n == Len(s.layers)
      down[i \in 0..n] == IF i = 0 THEN v ELSE SealedBy(s, s.layers[i], down[i - 1])
  IN IF down[n] = Error \/ ~s.dumps THEN down[n] ELSE Dumps(s, down[n])
-----------------------------------------------------------------------------
(* Values on their way out *)

\* Mutant: the type noted in the envelope is forgotten.
CompressGetBytes(s, v) ==
  IF v \in {Missing, << "null" >>} THEN Missing
  ELSE IF Head(v) # "C" THEN v
  ELSE IF s.ser # "none" THEN Tail(Tail(v)) ELSE Tail(v)

\* What is inside of an envelope, a str decoded.
Inner(s, v) == IF s.ser # "none" \/ v[2] = "utf8" THEN Tail(Tail(v)) ELSE Tail(v)

\* get of an envelope layer: None is a miss, and its own envelope is opened.
CompressGet(s, v) == IF v \in {Missing, << "null" >>} THEN Missing
                     ELSE IF Head(v) # "C" THEN v ELSE Inner(s, v)

EncryptGet(s, v) == IF v \in {Missing, << "null" >>} THEN Missing
                    ELSE IF Head(v) # "E" THEN v ELSE Inner(s, v)

\* An error becomes the default.
FailOpenGet(v) == IF v = Error THEN Missing ELSE v

\* What a layer hands to the one above.
OpenedBy(s, layer, v) ==
  CASE layer = "fail_open" -> FailOpenGet(v)
    [] layer = "compress" /\ v # Error -> CompressGet(s, v)
    [] layer = "encrypt"  /\ v # Error -> EncryptGet(s, v)
    [] OTHER -> v

\* get of an envelope layer below another layer, on an asynchronous backend, is
\* no coroutine: it takes the coroutine it gets for a value and hands it up
\* unopened. Whoever awaits it gets what is below, with None for a miss.
HandsUp(v) == IF v = Missing THEN << "null" >> ELSE v

IsUnawaited(s, i) == s.async /\ i > 1 /\ i \in Envelopes(s)

\* What layer i returns once it is awaited.
LayerGet(s, i, v) == IF IsUnawaited(s, i) THEN HandsUp(v) ELSE OpenedBy(s, s.layers[i], v)

\* What each layer returns for the entry v, the backend's loads included:
\* element i is what layer i gets from below.
Opened(s, v) ==
  LET n == Len(s.layers)
      up[i \in 0..n] ==
        IF i = n THEN IF v \in {Missing, Error} \/ ~s.dumps THEN v ELSE Tail(v)
        ELSE LayerGet(s, i + 1, up[i + 1])
  IN up
-----------------------------------------------------------------------------
(* Calls *)

\* aset and aget await what is directly below them if that is a coroutine
\* function; the set and get of the envelope layers are none.
Awaits == stack.async => Envelopes(stack) \subseteq {1}

Starts == calls < MaxCalls /\ calls' = calls + 1

\* The backend raises.
Refused == faults < MaxFaults /\ faults' = faults + 1

\* Mutant: a stored None is taken for the default.
CountedByNone(x) ==
  CASE x = Error                     -> << "errors", "timed" >>
    [] x \in {Missing, << "null" >>} -> << "timed", "misses" >>
    [] OTHER                         -> << "timed", "hits" >>

\* What MetricsMiddleware.get counts, x being what the layer below returned for
\* the sentinel it passes as the default.
Counted(x) ==
  CASE x = Error   -> << "errors", "timed" >>
    [] x = Missing -> << "timed", "misses" >>
    [] OTHER       -> << "timed", "hits" >>

\* What is counted when the backend answers with v.
ToCount(v) == IF Has(stack, "metrics") THEN Counted(Opened(stack, v)[Depth(stack, "metrics")])
              ELSE <<>>

\* How the get ends that is handed x, where the backend has answered with v.
Outcome(v, x) == CASE x = Error   -> "raised"
                   [] x = Missing -> "default"
                   [] OTHER       -> IF v \in {Error, Missing} THEN "other" ELSE "value"

Ends(outcome) == outcomes' = [outcomes EXCEPT ![outcome] = @ + 1]

\* get comes back up the stack: the backend answered with v, or raised.
Answers(v) == /\ IF v = Error THEN Refused ELSE UNCHANGED faults
              /\ Ends(Outcome(v, Opened(stack, v)[0]))

\* A thread's get, up to the first counter.
Get(c) ==
  /\ ~stack.async /\ Starts
  /\ counting[c] = <<>> /\ seen[c] = None
  /\ \E v \in {store, Error} :
       Answers(v) /\ counting' = [counting EXCEPT ![c] = ToCount(v)]
  /\ UNCHANGED <<stack, store, local, seen, stats, loaded, raced, put, fallen, overlap>>

\* `self._hits += 1` takes no lock: a thread reads the counter ...
LoadsCount(c) ==
  /\ counting[c] # <<>> /\ loaded[c] = None
  /\ loaded' = [loaded EXCEPT ![c] = stats[Head(counting[c])]]
  /\ raced' = (raced \/ \E d \in Callers : loaded[d] # None /\ Head(counting[d]) = Head(counting[c]))
  /\ UNCHANGED <<stack, store, local, seen, stats, counting, calls, faults, put, outcomes,
                 fallen, overlap>>

\* ... and writes it. Another thread may have come in between.
StoresCount(c) ==
  /\ counting[c] # <<>> /\ loaded[c] # None
  /\ stats' = [stats EXCEPT ![Head(counting[c])] = loaded[c] + 1]
  /\ counting' = [counting EXCEPT ![c] = Tail(@)]
  /\ loaded' = [loaded EXCEPT ![c] = None]
  /\ UNCHANGED <<stack, store, local, seen, raced, calls, faults, put, outcomes, fallen, overlap>>

\* A coroutine counts without an await in between.
CountsAtOnce(counters) ==
  stats' = [n \in Counters |-> IF n \in ToSet(counters) THEN stats[n] + 1 ELSE stats[n]]

\* An aget directly above another envelope gives its caller a coroutine that
\* nobody has run.
GivesCoroutine == {1, 2} \subseteq Envelopes(stack)

\* A coroutine's get, and aget of an envelope layer that is outermost. When it
\* is cancelled only the finally clause of the metrics runs.
AsyncGet ==
  /\ stack.async /\ Starts
  /\ \/ /\ GivesCoroutine
        /\ Ends("other") /\ UNCHANGED <<stats, faults>>
     \/ /\ ~GivesCoroutine
        /\ \E v \in {store, Error} : Answers(v) /\ CountsAtOnce(ToCount(v))
     \/ /\ ~GivesCoroutine
        /\ Refused /\ Ends("cancelled")
        /\ CountsAtOnce(IF Has(stack, "metrics") THEN << "timed" >> ELSE <<>>)
  /\ UNCHANGED <<stack, store, local, seen, counting, loaded, raced, put, fallen, overlap>>

\* What a layer or the backend raises leaves the entry as it was, or the
\* backend has stored it and then raises.
SetReturns(kind) ==
  LET v == Sealed(stack, << kind >>) IN
  \/ /\ v # Error
     /\ store' = v /\ put' = kind
     /\ Refused \/ UNCHANGED faults
  \/ /\ IF v = Error THEN UNCHANGED faults ELSE Refused
     /\ UNCHANGED <<store, put>>

Set(kind) == /\ ~stack.async /\ Starts
             /\ SetReturns(kind)
             /\ UNCHANGED <<stack, local, seen, metrics, outcomes, fallen, overlap>>

\* set and aset of a coroutine. The set of an envelope layer below another layer
\* drops the coroutine of what it calls: nothing is stored, and a layer above
\* that awaits its None raises.
AsyncSet(kind) ==
  /\ stack.async /\ Starts
  /\ IF Awaits THEN SetReturns(kind) ELSE UNCHANGED <<store, put, faults>>
  /\ UNCHANGED <<stack, local, seen, metrics, outcomes, fallen, overlap>>

\* get_or_set is no method of these layers but MetricsMiddleware, which hands
\* it on: the call goes to the backend, past the envelopes, the counts and the
\* fail-open clause.
GetOrSet(kind) ==
  LET v == IF ~stack.dumps THEN << kind >> ELSE Dumps(stack, << kind >>) IN
  /\ Starts
  /\ store = Missing /\ v # Error
  /\ store' = v /\ put' = None
  /\ UNCHANGED <<stack, local, seen, metrics, faults, outcomes, fallen, overlap>>

EntryGoes ==
  /\ store # Missing
  /\ store' = Missing /\ put' = None
  /\ Refused \/ UNCHANGED faults

\* delete, expire, expire_at and touch with a time that is over.
Delete ==
  /\ ~stack.async /\ Starts /\ EntryGoes
  /\ UNCHANGED <<stack, local, seen, metrics, outcomes, fallen, overlap>>

AsyncDelete ==
  /\ stack.async /\ Starts /\ EntryGoes
  /\ UNCHANGED <<stack, local, seen, metrics, outcomes, fallen, overlap>>

\* invalidate_tags and clear.
Clear ==
  /\ Starts /\ EntryGoes
  /\ UNCHANGED <<stack, local, seen, metrics, outcomes, fallen, overlap>>

Deltas == {1, -1}
fallbackFree == {c \in Callers : seen[c] # None} = {}

\* incr and decr: the backend raises (it may have counted), and the except
\* clause of a thread reads the local counter ...
FallsBack(c, delta) ==
  /\ Starts /\ Refused
  /\ Has(stack, "fail_open") /\ ~stack.async
  /\ seen[c] = None /\ counting[c] = <<>>
  /\ seen' = [seen EXCEPT ![c] = local + delta]
  /\ fallen' = fallen + delta
  /\ overlap' = (overlap \/ ~fallbackFree)
  /\ UNCHANGED <<stack, store, local, metrics, put, outcomes>>

\* ... and writes it. Another thread may have come in between.
CountsLocally(c) ==
  /\ seen[c] # None
  /\ local' = seen[c]
  /\ seen' = [seen EXCEPT ![c] = None]
  /\ UNCHANGED <<stack, store, metrics, calls, faults, put, outcomes, fallen, overlap>>

\* Mutant: the second fallback starts again from zero.
AsyncFallsBackAnew(delta) ==
  /\ Starts /\ Refused
  /\ Has(stack, "fail_open") /\ stack.async
  /\ local' = delta
  /\ fallen' = fallen + delta
  /\ UNCHANGED <<stack, store, seen, metrics, put, outcomes, overlap>>

\* The except clause of a coroutine awaits nothing.
AsyncFallsBack(delta) ==
  /\ Starts /\ Refused
  /\ Has(stack, "fail_open") /\ stack.async
  /\ local' = local + delta
  /\ fallen' = fallen + delta
  /\ UNCHANGED <<stack, store, seen, metrics, put, outcomes, overlap>>

\* No thread has counters left to raise.
countingFree == \A c \in Callers : counting[c] = <<>>

AllDone == calls = MaxCalls /\ fallbackFree /\ countingFree /\ UNCHANGED vars

Next ==
  \/ AsyncGet \/ Delete \/ AsyncDelete \/ Clear
  \/ \E kind \in Kinds : Set(kind) \/ AsyncSet(kind) \/ GetOrSet(kind)
  \/ \E delta \in Deltas : AsyncFallsBack(delta) \/ \E c \in Callers : FallsBack(c, delta)
  \/ \E c \in Callers : Get(c) \/ LoadsCount(c) \/ StoresCount(c) \/ CountsLocally(c)
  \/ AllDone

Spec == Init /\ [][Next]_vars
-----------------------------------------------------------------------------
(* Properties *)

\* What set stored, get gives back unchanged through every stack, envelope
\* order and serializer; only None, where an envelope layer finds it bare, is
\* given back as the default.
RoundTrip == put # None => LET x == Opened(stack, store)[0] IN
                           \/ x = << put >>
                           \/ x = Missing /\ put = "null" /\ Envelopes(stack) # {}

\* With encryption in the stack nothing that was set lies in the backend in
\* the clear, as long as what reaches the layer can be made bytes: there is a
\* serializer, or str or bytes and no compression outside.
SealedAtRest ==
  /\ put # None /\ Has(stack, "encrypt")
  /\ \/ stack.ser # "none"
     \/ put \in {"str", "short", "bytes"} /\ \A i \in DOMAIN stack.layers :
          stack.layers[i] = "compress" => Depth(stack, "encrypt") < i
  => "E" \in ToSet(store)

\* The metrics layer is outermost, or under fail-open only.
MetricsOnTop == /\ Has(stack, "metrics")
                /\ \A i \in 1..Depth(stack, "metrics") : stack.layers[i] \in {"metrics", "fail_open"}

\* On top the metrics count what the callers saw once the threads have counted,
\* and every get is timed. Where every layer is awaited a hit is a stored value
\* and never the default; above an envelope whose get is not, the None that
\* comes up for a missing key is a hit too, and goes to the caller in place of
\* its default. Two threads in one unlocked `+= 1` may lose a count.
MetricsMatch ==
  MetricsOnTop /\ countingFree /\ ~raced =>
    /\ stats["hits"] = outcomes["value"] + outcomes["other"]
    /\ stats["misses"] + stats["errors"] = outcomes["default"] + outcomes["raised"]
    /\ stats["timed"] = stats["hits"] + stats["misses"] + stats["errors"] + outcomes["cancelled"]
    /\ Awaits => outcomes["other"] = 0

\* The local counter is the sum of the increments the backend raised for,
\* unless two threads were in the except clause at once.
LocalCountsFallbacks == ~overlap /\ fallbackFree => local = fallen
=============================================================================
