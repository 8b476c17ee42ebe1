# TLA+ models of cachine

cachine is a Python caching library: a `@cached` decorator (synchronous and
asynchronous) with stale-while-revalidate, singleflight and tags, three
families of backends (in-memory, SQLite, Redis), and middleware around them.
This directory holds TLA+ modules translated from its source, the TLC
configurations that check them on small instances, and proofs, checked by
TLAPS, that hold for every instance.

`tlc -config X.cfg M` runs a check, `tlapm M.tla` a proof. The runs, the
mutants that show each property can fail, the source lines of every definition
and the hazards are listed in `PROJECT.json`.

Contents: [parts of the system](#parts-of-the-system) ·
[hard behaviours](#hard-behaviours) · [modules](#modules) · [runs](#runs) ·
[bounds](#bounds) · [fairness](#fairness) · [proofs](#proofs) ·
[disagreements found](#where-code-and-documentation-disagree) ·
[left to do](#left-to-do) · [not modelled](#not-modelled)

## Parts of the system

Paths are relative to `src/cachine/`.

| Part | State | Operations | Should satisfy |
|---|---|---|---|
| Synchronous decorator, `decorators/cached.py` 648-717 | locals of each call; entry envelopes in the backend | call: look up, serve fresh, serve stale and start a refresher, miss, compute, store, tag | one computation per key at a time; every call ends; no stored entry stays untagged; an entry is kept for its window |
| Singleflight registry, `_Singleflight` 26-58 | one process-wide `dict` of events under a lock | `acquire`, `release` (pop under the lock, then set) | no event left behind, none dropped unset, whoever joins really waits |
| Background refresher, `_background_refresh` 397-444 | a daemon thread per stale hit | acquire or give up; compute, store, tag, release | a stale value leads to a refresh; one refresher per key |
| Asynchronous decorator 507-645 | the same registry, tasks, threads of the loop's executor | the same, with awaits and a refresh task | the same under cancellation at any await and with fewer executor threads than followers |
| In-memory backend, `backends/inmemory/cache.py` | `_store`, `_ttl`, two tag indexes, policy object, `RLock` | 14 methods | indexes agree, bounded size, expired means missing |
| Eviction policies, `strategies/eviction.py` | LRU order; LFU frequencies, buckets, least frequency | `note_access`, `note_remove`, `evict_one` | the structures agree; the promised victim |
| SQLite backends, `backends/sqlite/` | two tables; a connection and a lock per object | the same methods as SQL statements; transactions for counters and tags | an open transaction has an owner who ends it; counters add up; tags lead to rows |
| Redis backends, `backends/redis/` | keys and tag sets on a server | the same methods as commands and one script | counters move once per call and keep their window; tags lead to every tagged key |
| Invalidation bus, `backends/redis/pubsub.py` | subscriptions | publish, run_forever | a connected subscriber takes every message |
| Middleware, `middleware/` | fail-open: local counters; metrics: counters | wraps every method | values come back; nothing encrypted lies in the clear; counts are right |
| Keys, serializers, configuration, builder, factory, URLs | none after start-up | pure functions and construction | different calls have different keys |

How they interact. The decorator resolves a backend once and calls its `get`,
`set` and `add_tags`; the application calls `delete` and `invalidate_tags` on
the same backend. All decorated functions of a process share one singleflight
registry, so a call's outcome depends on other threads' calls in two ways:
through the registry and through the backend. A refresher is one more client of
both. The in-memory backend calls its policy object under its lock and removes
the victims the policy names. Processes that share a SQLite file meet in its
write lock; the coroutines of one loop share a single connection to it, and so
its transactions. Clients of a Redis namespace interleave between any two
commands. Middleware forwards to the layer it wraps. The Redis backend publishes
invalidations that other processes' handlers apply to their own caches.

## Hard behaviours

- **Interleavings.** A call of the decorator is a sequence of separate backend calls; only
  `acquire`, the `pop` of `release` and each backend call are atomic. A miss may
  be outdated when the registry is reached; a follower that wakes may miss and
  compute without having registered anything, and then *releases the flight of
  another thread*. In the SQLite and Redis backends the same holds one level
  down: a method is a sequence of statements or commands.
- **Cancellation.** In the asynchronous code every await can be the last one of a
  call: inside a flight, inside a transaction, while a lock is held, while the
  executor or the database worker still runs what was asked of it.
- **Failures.** The function, the condition, the `ttl`, `tags` and `enabled`
  callables, the backend and the start of a thread can each fail, inside or
  outside the `try` block whose `finally` releases the key. Statements fail on a
  busy file, a COMMIT on a full disk; requests and replies get lost, and some
  `except` clauses then try a second way.
- **Crashes.** A process ends between two statements or commands, or in a
  transaction.
- **Time.** Freshness and expiry come from different readings of the clock; tag
  sets expire on their own.
- **Bookkeeping.** The in-memory backend keeps four indexes in step on a dozen
  paths, while some methods ignore expiry and one (`incr`) ignores the policy.

Each is listed with its line and the properties that cover it under "hazards" in
`PROJECT.json`; where the code allows what one would not want, and so no property
can hold, the hazard's note says so.

## Modules

| Module | Models | Kind |
|---|---|---|
| `Flight` | what `singleflight=True` promises | abstract specification |
| `CachedFunction` | synchronous wrapper, refresher, registry, and the backend as they use it | detailed specification; implements `Flight` |
| `AsyncCachedFunction` | asynchronous wrapper, refresh tasks, executor; reuses the call of `CachedFunction` | specification of an event loop |
| `EvictionPolicies` | `LRUEviction` and `LFUEviction` as operators | pure algorithms |
| `EvictionContract` | the victim the LFU docstring promises | abstract specification |
| `LFUPolicy` | one LFU object under any sequence of calls | specification; implements `EvictionContract` |
| `CacheContract` | a cache in which an expired key is a missing key | abstract specification |
| `InMemoryCache` | every state-changing method of `InMemoryCache`, over `EvictionPolicies` | detailed specification; implements `CacheContract` |
| `SQLiteFile` | the file: tables, statements, transactions, the write lock | shared by the next three |
| `SQLiteCache`, `AsyncSQLiteCache` | the two backends' methods, statement by statement | one process; the coroutines of one loop |
| `SQLiteProcesses` | both kinds of clients on one file, crashes, the clock | composition |
| `RedisServer` | the server: commands on entries and tag sets, lost requests and replies | shared by the next four |
| `RedisCache`, `AsyncRedisCache` | the two backends' methods, command by command | synchronous and asynchronous clients |
| `InvalidationBus` | publishing, the subscribers' loops | extends the two |
| `RedisClients` | clients and subscribers on one database | composition |
| `Middleware` | metrics, fail-open, compression, encryption in any order | specification of a stack |
| `MCCachedFunction`, `MCSQLiteProcesses`, `MCRedisClients`, `MCMiddleware` | symmetry, workloads and stacks for TLC | model-checking modules |
| `CachedFunctionProofs`, `AsyncCachedFunctionProofs`, `EvictionProofs`, `LFUPolicyProofs`, `InMemoryCacheProofs`, `SQLiteProofs`, `RedisProofs`, `MiddlewareProofs` | see [proofs](#proofs) | proofs |

### CachedFunction

| TLA+ | Code |
|---|---|
| `pc[t]` | the statement the thread has reached in `sync_wrapper` (callers) or `_background_refresh` (workers) |
| `key`, `seen`, `ev`, `item` | the call's locals `key`, the first read's result, `ev`, and the result with its ttls |
| `registry`, `signalled` | `_sf._events`, and the events that are set. An event is the pair of the thread that made it and the number of its call |
| `store`, `tagged`, `now` | the backend's entry of each key (`fu` of the envelope, expiry), its membership in the tag index, the clock |
| `Call`, `BypassReturns` | 649-656 |
| `Lookup`, `ReadRaises` | 657; the read of an expired entry removes it |
| `ServeFresh`, `ServeStale`, `SpawnRaises`, `Miss` | 658-672; `ServeStale` starts the daemon thread only with singleflight |
| `Lead`, `Follow`, `GiveUpRefresh` | `acquire` 31-47 as the wrapper (674) and the refresher (398) use it |
| `Wake`, `RereadHit`, `RereadMiss` | 675-679; the second read ignores freshness, and a miss goes on to compute |
| `ComputeValue`, `ComputeNothing` | 681-704, with `_compute_ttls`; a result that is not cached, or an exception |
| `Store`, `StoreRaises`, `Tag`, `TagsRaise` | 705-711 |
| `Release`, `Signal` | `release` 49-58, its two visible steps |
| `Delete`, `Invalidate`, `Tick` | the application and the clock |

The freshness decision (658-670) is one step: `now` is read, compared and acted
on without touching shared state in between. The function's result is
abstracted to what the wrapper distinguishes: a value, a result it does not
cache, an exception. The repeated invocation after a `TypeError` happens inside
the computing step. Keys are model values: key building is not part of this
module.

### AsyncCachedFunction

The tasks of one event loop; what happens between two awaits is one step. A call
has the locals and, inside the `try` block, the statements of `CachedFunction`, whose
actions it takes over (`AwaitsEntry` is `Lookup` or `ReadRaises`, `AwaitsFunction` is
`ComputeValue` or `ComputeNothing`, and so on); what differs is written anew:

| TLA+ | Code |
|---|---|
| `pool`, `queue` | the threads of the loop's default executor and the `ev.wait()` jobs that have none yet (589) |
| `ServesStale`, `RefreshStarts` | 525-580: `acquire` on behalf of the refresh task, which has not run yet |
| `Misses` | 581-589: lead, or hand `ev.wait()` to the executor |
| `PoolTakes`, `PoolEnds` | the executor; a job whose task was cancelled goes on waiting |
| `Releases` | `release` and the end of the call, with no await between them |
| `Cancelled` | `CancelledError` raised at the await where the task is: the `finally` clauses run; `CancelAt` says where it may happen |

An awaited backend call that is cancelled has taken effect before, or not at
all.

### InMemoryCache

Every method holds the object's `RLock` for its whole body and is one action,
except `get_or_set`, whose factory runs between two lock regions
(`GetOrSetReads`, then `GetOrSetStores`, `GetOrSetRemoves` or `GetOrSetRaises`).
`store`, `deadline`, `tagKeys`, `keyTags` and `policy` are `_store`, `_ttl`,
`_tag_to_keys`, `_key_to_tags` and `_policy`. `pending` holds the key a thread is
computing. `written` is a history variable, the key the last step stored a value
under; no guard reads it. `Peek` stands for `exists` and `ttl`;
`SetAlreadyExpired` and `Expire` for the two outcomes of `set`, `expire`,
`expire_at` and `touch` with a time; `incr` and `decr` are `Incr`. The constant
`Ops` says which methods the application uses, so that a run can state what
holds for an application that leaves some of them alone.

### LFUPolicy

The policy's three structures are one record. The refinement into
`EvictionContract` maps frequencies to numbers of accesses; `recent` is a history
variable that orders keys by their last access, and the contract's victim is the
least used key, the one accessed longest ago among equals.

### SQLiteFile, SQLiteCache, AsyncSQLiteCache, SQLiteProcesses

`db` is what is committed, `writer` the connection that has a write transaction
open and `work` the database as it sees it; `View(c)` is what connection `c` reads.
The SQL statements are operators from a database to a database (`Upsert`,
`DeleteRows`, `Cleanup`, `SetExpiry`, `AddOne`, ...).

A `SQLiteCache` belongs to a process; its `RLock` makes the process's threads take
turns, so a process has one call under way, and `rest` is the statement it has still
to run. A method in a transaction is one step, because no other connection sees it
half done and `BEGIN IMMEDIATE` keeps other writers away; `CommitFails` and `Crash` are
its other ends.

An `AsyncSQLiteCache` is shared by coroutines. `pc[c]` is the statement coroutine `c`
awaits, `op[c]` its call with what it has read, `lock` the holder of the asyncio lock,
`conn` the connection (a number, since `close` and a crash replace it; a call keeps the
connection it looked up). `Statement` runs a statement inside whatever transaction the
shared connection has open, also another coroutine's. `Cancelled` leaves what the
worker thread still executes; `Abandons` is the way out of the `try` blocks: a
rollback, except from `BEGIN` itself, which stands before the block.

`_ensure_conn` is three steps: `TakesLockToConnect`, `Opens` (aiosqlite.connect has
returned), and after the PRAGMAs and the schema, place `"setup"`, `Connected`, which
alone assigns `conn`. When one of the awaits fails (`ConnectFails`, `SetUpFails`) or is
cancelled (`LeavesConnection`), a connection that is open by then stays open and nobody
knows it: `conns` counts the open ones, `left` those left behind in this way.

`uses` is the workload: the methods the application uses on each key. It is chosen by
`Init` from the constant `Workloads`, so that one run holds several applications.

### RedisServer, RedisCache, AsyncRedisCache, InvalidationBus, RedisClients

`frame[c]` is the call client `c` is in: the command it sends next (`at`), its arguments
and what it has read (`found`, `existed`). `Sends(c, K, S, ok, err)` sends a command that
leaves the entries `K` and tag sets `S`: it is answered and the call goes on with `ok`, or
fails, executed or not, and goes on with `err`, where the method's `except` clause leads.
`SendsIncrement` also notes in `acked` and `unsure` what was answered and what may have
been executed. `Dies` is a process that ends or a task that is cancelled between two
commands. Each action of `RedisCache` and `AsyncRedisCache` is one command of the methods
that send it; `expire` stands for `expire_at`, `get` for `exists` and `ttl`.

`owed` and `doomed` are history variables for the tag properties: who was tagged
without an error and until when, and what an invalidation has to remove. A call of
`invalidate_tags` or of a clear is `Deleting`: an invalidation that begins during one owes
nothing, and one that fails takes what others owe with it, since it may leave entries whose sets are gone. `fellBack` is
the set of keys an asynchronous `incr` has tried in its second way.

`InvalidationBus` gives each subscriber an `inbox`. `Stops` is an exception of the handler or a
lost connection: both end the loop silently, and what was in the inbox is lost.

### Middleware

A value is the sequence of what was wrapped around it: its kind, `utf8`, `dumps`, the
envelopes `C` and `E`. `Sealed` is the value after the `set` of each layer from the outermost
inwards (`SealedBy`), `Opened` what each layer returns from the backend outwards (`OpenedBy`):
recursive functions over the layers' positions. `stack` is chosen by `Init`: the layers
in their order, the serializer, whether the backend itself serializes, and whether it
is asynchronous. `seen[c]` is the local count a thread has read in the `except` clause of
`FailOpenMiddleware.incr` and not yet written back.

On an asynchronous backend the envelope layers' `set` and `get` are no coroutines. `Awaits`
says that none of them stands below another layer. Otherwise such a `get` hands up the
coroutine it has from below, asked for with None as the default (`IsUnawaited`, `HandsUp`,
in `LayerGet`), and such a `set` drops it (`AsyncSet`).

`stats` are the counters of the metrics layer. `Get` is a thread's call up to the answer of
the backend; the counters it then has to raise are in `counting[c]`, and each `+= 1` is
`LoadsCount` and `StoresCount`, with other threads in between. `AsyncGet` counts in one
step. It has three outcomes: a coroutine nobody has run (`aget` directly above another
envelope), an answer, a cancellation. `outcomes` is a history of what the callers got,
`raced` notes that two threads were in the `+= 1` of one counter at once.

## Runs

| Run | Checks | States |
|---|---|---|
| `flight_safety` | `TypeOK`, `RegisteredHasLeader`, `NoLostWakeup`, `RegisteredNotSet`, `UntaggedHasTagger`: three callers and a refresher, every outcome, failing reads, writes and thread starts, bypasses, purges | 1 500 000 |
| `flight_steady` | `OneComputation`, `WindowIsStored` and `FlightSpec` (refinement of `Flight`): every result is cached and nothing leaves the cache | 56 000 |
| `flight_liveness` | `CallsReturn`, `StaleIsRefreshed` under fairness, with failing reads, writes and tagging, and purges | 110 000 |
| `async_flight` | `EventHasTask`, `FollowersWillWake`, `AsyncCallsReturn`, `FlightsEnd` under fairness: three tasks, a refresh task, an executor of one thread, cancellation at every await of a call | 46 000 |
| `lfu_policy` | `BucketsMatchFreq`, `MinFreqIsLeast`, `EvictsAsPromised`: four keys, frequencies to 3 | 3 600 |
| `inmemory_contract` | `StoredAreTracked`, `SizeBound`, `JustSetIsKept`, `EvictsOnlyWhenFull`, `ContractSpec` (refinement of `CacheContract`): LRU, methods that respect expiry | 13 000 |
| `inmemory_all_methods` | `IndexesAgree`, `TrackedAreStored`: LFU, all fourteen methods, namespaced | 155 000 |
| `sqlite_processes` | `LockOwnsTransaction`, `LockIsHeld`, `OneConnection`, `CountersAddUp`, `TagsHaveRows`, `CallsEnd` under fairness: a process and two coroutines, busy statements, failing COMMITs and connections, crashes, `close`, cancellation at every await but `BEGIN` | 209 000 |
| `redis_clients` | `TypeOK`, `CountersAddUp`, `WindowHasEnd`, `InvalidationRemoves`, `TaggedIsFound`, `MessagesAreTaken` under fairness: a synchronous and an asynchronous client and a subscriber, two faults | 466 000 |
| `middleware_stacks` | `RoundTrip`, `SealedAtRest`, `MetricsMatch`, `LocalCountsFallbacks`: each order of up to three layers, four serializer set-ups, both worlds, two threads | 740 000 |
| `sqlite_begin_cancelled`, `redis_tag_life` | each ends in a counterexample, see [below](#where-code-and-documentation-disagree) | |

What they show together:

- The registry is sound although any thread may release any flight: an event is
  never orphaned and never dropped unset, so nobody waits for ever. This rests on
  three details of the code: every exit after `acquire` passes the `finally`
  clause, `release` pops before it sets, and it sets whatever it popped. A mutant
  of each breaks a property. The asynchronous wrapper keeps this under
  cancellation anywhere but in a refresh task that has not run yet.
- The contract "one computes, the others wait" holds exactly while every leader
  leaves something in the cache that is still there when followers wake
  (`flight_steady`, and the assumption `Steady` of the proof).
- A tagged decorator leaves no entry that `invalidate_tags` would miss, except
  between its `set` and `add_tags`, or when tagging fails.
- The in-memory backend is a correct cache for an application that stays with
  `get`, `set`, `delete`, `exists`, `ttl`, `get_or_set`, `clear`, tags and LRU.
  Its indexes agree whatever methods are used.
- The asynchronous SQLite backend ends every transaction it begins, unless a call is
  cancelled exactly at `BEGIN`; it gives its lock back and loses no acknowledged
  increment even then. It shares one connection; only a set-up that fails or is cancelled
  leaves another one open. Writes outside transactions may be undone by another
  coroutine's rollback; counters and tags are not.
- Redis counters hold every answered increment once; their windows rest on the
  script being one command. An invalidation that meets no error removes what was
  tagged when it began. Tags find their keys as long as all keys of a tag are
  tagged for the same time.
- Values survive every stack, with one exception (`None` under an envelope layer reads
  as missing); encryption covers every kind of value if it has a serializer. Metrics on top
  count every call once if threads do not meet in a `+= 1`, and their hits are stored values;
  only above an envelope on an asynchronous backend a missing key is a hit too.

## Bounds

- `Callers`, `Workers`, `MaxCalls`, `MaxRefreshes`: three callers are needed for a
  leader, a follower that computes alone, and a thread whose flight that follower
  releases; two calls each let a thread meet its own earlier event.
  `flight_liveness` gives every stale hit a worker (`MaxRefreshes` = 2).
  A caller at a stale hit waits in the model for a free worker name; names are
  reused, so this only orders thread starts.
- `MaxTime` with `Ttls` and `StaleTtl`: fresh, stale and expired are each reached.
  In `flight_steady` the window covers the run (`StaleTtl` = `MaxTime`), which is the
  assumption under which the contract can hold at all.
- `Keys`: registry, store and tags are per key, so one key is enough for the
  registry's invariants; `flight_steady` has two to check that a flight of one key
  leaves the other's alone. SQLite and Redis have two: a counter beside a key that is
  stored, tagged, deleted or cleared.
- `Pool` = one thread for two followers: the second job has to queue.
- `MaxSize` is below the number of keys, so that eviction happens on almost every
  `set`; `MaxFreq` bounds how often a key is accessed, `MaxValue` a counter.
- `Workloads` says which methods an application uses on which key. Each workload is
  small; together they fire every action. Mixing all methods on all keys would add
  states in which nothing can be promised (a deleted counter, a cleared tag).
- `MaxTasks`, `MaxCalls` of the SQLite and Redis runs: one call per coroutine and process
  suffices for a transaction of one coroutine to meet a statement of another and a
  writer elsewhere; Redis clients make three calls together, because a
  property about tags needs a `set`, an `add_tags` and a rival.
- `MaxConns` = 2: the first connection and the one after `close`, a crash or a set-up that
  failed; at the bound the connection is refused (`ConnectFails`). `CancelAt` of
  `sqlite_processes` names every place but `begin`, and `rollback`: a cancelled
  ROLLBACK is still executed, before any later statement, and ends as `RollsBack` does.
- `MaxFaults` = 2 of the Redis runs: an increment whose script fails and whose second way fails too.
- `MaxCalls` = 3 of `middleware_stacks`: a `set` and the `get`s of two threads that count at once.
- `SYMMETRY` permutes callers and workers; no property or action names one. It is not
  used in liveness runs.

`AllDone` lets the bounded systems stop once all calls have ended, so that TLC's
deadlock check still reports any other stop: a follower nobody will wake is a
deadlock, and so is a coroutine that waits for a lock nobody gives back.

## Fairness

- `CachedFunction`: weak fairness of each thread's next step, `WF_vars(Step(t))`: the
  interpreter runs every runnable thread, and the decorated function returns or
  raises. A waiting follower is runnable only once its event is set, so its
  progress is a result, not an assumption.
- `AsyncCachedFunction`: weak fairness of each task's next step (the loop resumes every
  task whose await has ended) and of the executor's threads. A follower waits for the
  executor's job, and the job for the event; neither is assumed to end.
- `SQLiteProcesses`: weak fairness of each coroutine, and strong fairness of taking the
  asyncio lock, which `asyncio.Lock` hands to the first that asked. A statement that
  cannot get the file's write lock fails at its busy timeout (`StatementFails`), so a
  transaction elsewhere blocks nobody. Nothing is assumed of processes.
- `RedisClients`: weak fairness of a connected subscriber's loop and of its handler.

Nothing is assumed about the clock, new calls, purges, cancellations or failures.

## Proofs

Everything in the proof modules is proved from the modules' named assumptions about
constants (sets disjoint from `None`, bounds that are naturals), and from what is said
here, for any threads, keys, ttls, failures and bounds.

`CachedFunctionProofs`:

- `TypesAreKept`: `Spec => []TypeOK`, through `TypeInv`, which adds that a thread has
  the locals its place needs.
- `NoOrphanedEvent`, `WakeupsAreKept`, `FollowersReallyWait`: the three invariants of
  the registry, as parts of one inductive invariant `FlightInv`. None is inductive
  alone: a registered event must not be set already, or a new follower would find it
  set; that needs that no event is registered twice, hence `UnbornUnused`: an event
  named after a call that has not yet been to the registry is unset and in nobody's
  hands. `NoFlightWithout` says that without singleflight the registry is empty. Most
  steps leave the registry alone and are dealt with by four lemmas (`QuietStep` and its
  cases); `Lead`, `Follow`, `Release` and `Signal` have a lemma each.
- `TagsCatchUp`: if tagging cannot fail (`"tags" \notin Env`), `UntaggedHasTagger` is an
  invariant; it is inductive by itself.
- `WindowsAreStored`: `WindowIsStored` is an invariant for every ttl, jitter and stale
  window. The strengthening says the same of the result a thread is about to store,
  against the present clock: the clock only moves on between the reading that fixes
  freshness and the one that fixes the expiry.

In the same module, under `Steady` (singleflight, every call of the function returns a
value, nothing fails to be stored or is removed, and every ttl reaches beyond the
clock's last value):

- `OneComputes`: `OneComputation`. Why a second thread cannot compute: the registered
  leader is the only one past `acquire` (`LeadersAreRegistered`), it releases only after
  it has stored (`LeadersHaveStored`), a follower whose event is set finds the entry
  (`FollowersWillFind`), and entries do not expire (`NothingExpires`). Together with
  `FlightInv` this is `SteadyInv`.
- `KeepsTheContract`: `Spec => FlightSpec`, the refinement of `Flight`: the initial
  state maps to an initial state, and each action to a step of `Flight` or a stutter.

`AsyncCachedFunctionProofs`, while no refresh task is cancelled before it runs
(`"refresh" \notin CancelAt`):

- `EventsHaveTasks`, `FollowersKeepTheirJobs`, `AsyncTypesAreKept`. The inductive
  invariant `AsyncInv` adds to the two properties that every job of the executor, also
  one whose task was cancelled, waits for an event that is set or registered, that every
  waiting task has exactly its job, and that without singleflight there are no events.

`EvictionProofs` has the lemmas about sequences without repetition (`RemoveFirstFacts`,
`AppendFacts`: which elements, in which order) and, for each policy, what `note_access`,
`note_remove` and `evict_one` do to its structures. The two modules after it use them.

`LFUPolicyProofs`, for any number of keys and any sequence of calls:

- `BucketsStayInStep`, `LeastIsExact`: `BucketsMatchFreq` and `MinFreqIsLeast`. `LfuInv`
  says that the buckets hold each tracked key once, in the bucket of its frequency, and
  that `min` is the first bucket in use.
- `KeepsThePromise`: `Spec => EvictsAsPromised`, the refinement of `EvictionContract`.
  That the head of the least bucket is the key accessed longest ago needs `OrderInv`:
  every bucket lists its keys in the order of `recent`. A key enters a bucket at its
  end, when it is the one accessed last, and this is why moving keys from bucket to
  bucket preserves the order.

`InMemoryCacheProofs`, for any keys, tags, sizes and policies:

- `IndexesStayInStep`: `IndexesAgree`. The proof only uses that a policy's victim is a
  key, never which. `IndexInv` adds the shape of the four indexes.
- `CacheTypesAreKept`, `VictimsAreStored`: `TypeOK` and `TrackedAreStored`. `CacheInv`
  adds the policy's own structure (`LfuInv`, or an LRU order without repetition) and
  that the store is finite.
- `StoredCanBeEvicted`, `SizeIsBounded`: `StoredAreTracked` and `SizeBound`, for an
  application that does not call `incr`, the one method the policy does not hear of.
  They are inductive together (`BoundInv`): the loop of `_evict_if_needed` reaches the
  bound because the policy can name every stored key.
- `EvictsForRoomOnly`: the action property `EvictsOnlyWhenFull`, from `BoundInv`, hence
  without `incr` too.
- `WrittenIsThere`: `JustSetIsKept`, where `NewestStays`: no bound, no policy, or LRU
  with a `max_size` other than 0; and again without `incr`. LFU may evict the newcomer,
  and a size of 0 keeps nothing: there the statement is false.
- `KeepsTheContract`: `Spec => ContractSpec`, the refinement of `CacheContract`, under
  `NewestStays` and `PlainUse`: the application calls neither `incr` nor what brings
  expired keys back (`persist`, `expire`, `expire_at`, `touch`).

`SQLiteProofs`, for any processes, coroutines, keys, faults and places of cancellation:

- `LockHeldThroughout`, `OneConnectionAtMost`, `TransactionIsOwned`: `LockIsHeld`,
  `OneConnection` and `LockOwnsTransaction`. They need one another: a transaction stays
  with its owner because only a holder of the lock reaches `BEGIN`. `LockInv` adds the
  shape of calls, that a call in a transaction has the connection the transaction is
  open on (`TransactionOnConnection`; otherwise a `ROLLBACK` on a closed connection
  would leave it): together `Holding`. The other half, `ConnectionCounted`, says that the open
  connections are those left behind and at most one more, the one in use or the one being set
  up, never both: whoever sets one up holds the lock and has found `conn` at 0 under it. Only
  `TransactionIsOwned` assumes that no call is cancelled at `BEGIN` (`"begin" \notin
  CancelAt`), and `sqlite_begin_cancelled` shows that it must.
- `IncrementsAreCounted`, `TagsLeadToRows`: `CountersAddUp` and `TagsHaveRows`, `BEGIN`
  included: an orphaned transaction blocks the file but does not falsify it. The
  invariant `DataInv` speaks of the uncommitted database: in the transaction of
  coroutine `c` each counter is the committed one plus what `c` has written, and tags
  lead to rows but for the keys `c` is about to untag (`TransactionFits`), whatever
  other coroutines execute inside it; the row `c` has read is still the row
  (`op[c].row`), so adding one to it is right. A statement of other calls is `Harmless`
  to counters and tagged keys, and what the rest of a call will do is known from the
  method it is in (`CallFits`, `RestFits`).
- `TypesAreKept`: `TypeOK`. `incr` computes with the row it has read: `Addable` says
  that it holds an integer or had expired by then, and time does not undo that.

`RedisProofs`, for any number of clients of both kinds, keys, tags, lost requests and
replies, crashes and workloads:

- `IncrementsAddUp`, `WindowsEnd`: `CountersAddUp` and `WindowHasEnd`, with the retry of
  `incr` and any other use of the namespace. `CounterInv` says what calls are where:
  only `incr` is at the commands that count, no tag set and no list of names to delete
  holds a counter, and the commands of the second way have noted their key, which is why
  a counter outside `fellBack` never lacks its deadline. Steps that leave counters alone
  share the lemma `ForeignStep`.
- `TypesHold`: `TypeOK`.
- `InvalidationsRemove`: `InvalidationRemoves`. `DoomInv` says of every doomed key that
  its invalidation still has to delete it: it has the key in its list, or will find it
  under a tag ahead of it (`StillToGo`, `Ahead`) whose set no other deletion takes away
  first (`Spares`).
- `TaggedAreFound`: `TaggedIsFound`, if all who tag give a set the same life
  (`SameLives`); `redis_tag_life` shows that the assumption is needed. `OwedInv` says
  that a set lives at least as long as any tagging owed (`Owing`), and that no call
  under way will delete it (`Passes`).

`MiddlewareProofs`, for stacks of any length and order, any serializer and both kinds of
backends:

- `ComesBackUnchanged`, `StoredIsSealed`: `RoundTrip` and `SealedAtRest`. The state
  invariant `StoreInv` is small (the entry is the `Sealed` form of what was put); the
  work is in the lemmas about `Sealed` and `Opened`: from the innermost layer outwards
  each layer hands up what it was handed down, and an envelope once made is only wrapped
  further. These are inductions over the layers. The library's induction theorems take
  an operator and cannot be used, but `SetInduction`, induction over a set of naturals,
  follows from the least element of its complement and can.
- `CountsWhatIsSeen`: `MetricsMatch`, with `CountsInv`: unless
  threads raced, each counter and what the threads have still to add to it (`counting`) make
  up the number of the callers' outcomes, and a count read in a `+= 1` is the present one. Where every layer is awaited no outcome is `"other"`: what the backend does
  not have stays missing through each `OpenedBy` (`NothingStaysNothing`).
- `LocalCountIsExact`: `LocalCountsFallbacks`. `LocalInv`: unless two threads
  overlapped, either nobody is in the `except` clause and the local counter is the sum,
  or one thread is, and what it read is the sum.

All safety properties of the passing runs, invariants, action properties and
refinements, are thus proved. Only model-checked are the six liveness properties
(`CallsReturn`, `StaleIsRefreshed`, `AsyncCallsReturn`, `FlightsEnd`, `CallsEnd`,
`MessagesAreTaken`): fairness and `ENABLED` are out of the prover's reach. The
invariants on which they rest (no event without a leader, a job for every follower, a
lock with a holder) are proved; that a run gets on from there is what TLC adds.

## Where code and documentation disagree

Shown by a run:

- *A cancelled BEGIN* (`backends/sqlite/async_.py` 342, 384, 411; `sqlite_begin_cancelled`). `BEGIN IMMEDIATE` is awaited
  before the `try` block that rolls back. A call cancelled at that await leaves a
  transaction that the worker thread opens and nobody ends: later `BEGIN`s fail, what
  other coroutines store is never committed, other processes cannot write. The module
  says that the lock guards its transactions.
- *The life of a tag set* (`backends/redis/sync.py` 440, `async_.py` 417; `redis_tag_life`). `add_tags` gives the
  whole set the ttl of the key it has just added. A second key with a shorter ttl ends the set
  while the first is still stored, and `invalidate_tags` misses it; the README says it
  removes "all entries with these tags".

Seen while modelling, present in the models' actions, without a run of their own.

The decorator:

- When a leader's result was not cached, each follower misses again and computes, all
  at once; each then pops whatever event the key has (`decorators/cached.py` 674-680).
- With `stale_ttl` but without singleflight the stale value is served and never refreshed within
  its window (666).
- A caller that missed before the leader stored, and acquires after it released,
  computes again (no second look after `acquire`, 673-680); a woken follower returns what it
  finds even past the stale window (677-679).
- A value computed before an invalidation is stored after it (705).
- `jitter` has no effect without `stale_ttl` (346-349). A function that raises
  `TypeError` itself is invoked up to three times (681-699).
- A refresh task cancelled before it first runs leaves its event registered (577).
- The repository's README (507-515) lets the stale window end after `stale_ttl`, 120 s in
  its example; the code and its docstring keep the value for `ttl + stale_ttl`, 180 s there,
  and so does the model (`WindowIsStored`).
- The README (263) says of singleflight "Only ONE server generates this"; the registry
  is one per process (26-29), and each server computes on its own.

The in-memory backend:

- `clear` replaces the policy object by an LRU one (168). LFU evicts the newcomer when every
  resident was read (117-119). `incr` on an expired counter that was not collected
  continues from the old count (272-279), and grows the store over `max_size` (275).
- `persist`, `expire`, `touch` and `add_tags` accept expired keys (243), which `get` then serves again.
- `_evict_if_needed` stops at any falsy victim (376): the key `""` without a namespace leaves
  the policy, stays in the store, and keeps the others from being evicted in that call. The models'
  keys are not empty, so this one is not in them.
- `get_or_set` stores over whatever was written while its factory ran (180-185).
- `clear()` without a namespace empties the cache, where the README's troubleshooting
  section speaks of an error. `touch` is described as updating the last access time; the
  policy does not hear of it.

SQLite:

- A `COMMIT` that fails in the synchronous backend raises out of `__exit__` and leaves the
  transaction open (499).
- A set-up that fails or is cancelled after `aiosqlite.connect` leaves a connection open that nobody
  remembers, and the next call opens another (`async_.py` 128-140; `left` in the model).
- `delete` and `clear` are two statements: a key set and tagged in between loses its tags, or its row
  and not its tags. Removing an expired row leaves its tags to the next key of that name (462).

Redis:

- The asynchronous `incr` takes a lost reply for a missing script and counts again (363); its
  second way may end without a window (366). `persist` takes a lost reply for a missing command
  and deletes a key that still has a deadline (326).
- `clear` deletes what it scanned, also what was stored anew since (263). `invalidate_tags` swallows
  failed deletes and then removes the tag set (390).
- A handler that raises ends the subscriber's loop silently.

Middleware:

- `get_or_set`, and what else a layer does not define, goes past all layers (`__getattr__`, `base.py` 23).
- Metrics above an envelope on an asynchronous backend (`metrics.py` 73): the envelope's
  synchronous `get` asks with None as the default and hands up the coroutine; the metrics
  await it and take the None of a missing key for a hit, and the caller gets it in place of
  its default. The docstring of `MetricsMiddleware`, whose mirror the class calls itself,
  says that a default "is never confused with a cache hit" (15-17). `MetricsMatch` has it
  as `outcomes["other"]`, and says that it is 0 where every layer is awaited.
- `aset` and `aget` of an envelope layer above another one never await the backend: nothing is stored.
  The same goes for any asynchronous layer above an envelope: its `set` awaits the None it gets and
  raises a `TypeError`, its `get` hands up None for a missing key in place of the default.
- The counters of the metrics are raised without a lock; two threads in one `+= 1` may lose a count.
- Compression outside encryption, without a serializer, hands encryption a value it passes on
  in the clear; the JSON serializer refuses the envelopes of an outer layer, so `set` raises.
- The fail-open layer's local counters are unlocked, and neither merged nor reset when the backend is back.

## Left to do

A model of two processes with local caches behind the invalidation bus would need the
application's handler, which this library does not have. The proofs that assume
`PlainUse` or leave out `incr` could be complemented by statements of what the in-memory
backend still promises with these methods, beyond its indexes and types. The hazards
without a property are behaviours the code has and a caller may not want; each needs a
decision about what the code should promise before there is something to prove.

## Not modelled

Key building consists of pure functions from arguments to a string; that different calls have different keys is a
statement about string formatting. URL parsing, configuration models, builder and factory run once,
sequentially, before the cache is used. Msgpack behaves like pickle on the kinds of values distinguished here. Logging and
deprecation helpers have no effect a caller depends on. Health checks and deprecated aliases
change no state of the models. Of the modelled parts, left out are: `ev.wait()` on the loop itself after a failing `to_thread`
(`decorators/cached.py` 591), a decorated coroutine that needs an executor thread of its own, and the `except AttributeError` clauses
of the Redis backends, which serve incomplete clients. Concurrency inside one step, such as the interpreter
switching threads within a method that holds its lock, cannot be seen by other threads and
is not represented.
