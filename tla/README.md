# SingleFlightProxyServer: verification project

TLA+ models of the PostgreSQL proxy in `src/`, checked with TLC and, where a
statement should hold for any number of sessions, queries and texts, proved
with TLAPS.

## The system

The proxy accepts PostgreSQL clients, opens one database connection per
client, negotiates TLS on both sides, and then copies bytes in both
directions. Every simple-query message (`'Q'`) is looked up in a cache first;
identical queries that are in progress share one execution ("single flight").

| Component | State | Operations | Talks to |
|---|---|---|---|
| `ProxyServer` | acceptor, `accepting_` | `do_accept`, `shutdown` | creates `Session`s |
| `Session`, startup | sockets or TLS streams, `ssl_enabled_`, `client_buffer_`, `startup_packet_` | `start`, `connect_to_database`, `read_client_startup`, `check_server_ssl_support`, `handle_ssl_request`, `perform_ssl_handshake`, `read_client_startup_after_ssl`, `relay_to_server` | client, database |
| `Session`, bridge | `current_query_`, `cached_response_`, `server_buffer_`, `client_closed_`, `server_closed_`, `is_destroying_` | `bridge_client_to_server`, `bridge_server_to_client`, `close` | client, database, `QueryCache`; its callback is called by other sessions' threads |
| `QueryCache` | L1 list and map, Redis context, statistics | `doSingleFlight`, `notifyFlightResult`, `get`, `put`, `clear`, `set...` | owns `SingleFlight`; singleton shared by all sessions |
| `SingleFlight` | `flights_`, and per flight `ready`, `result`, `callbacks` | `doSingleFlight`, `notifyResult`, `clear` | calls the sessions' callbacks |
| `Config`, `main`, `SharedSSLContext` | settings; worker threads; two TLS contexts | load, configure the cache, run, stop on a signal | all of them, at start |

All handlers run on a pool of threads sharing one `io_context`, and no strand
orders the two handler chains of a session. What is hard about the code:

* two mutexes in `SingleFlight` (the map's and each flight's) that are taken
  one after the other, with lookups by key repeated in between;
* a lock given up and taken again in `getL1`;
* a flight's fate depending on its leader's session, which may be closed, lose
  one of its chains, or never have sent the query;
* attribution of server bytes to a query through one string per session;
* a startup with two TLS handshakes, each step of which can fail in two ways;
* one Redis context used by all threads, under a lock that is shared for
  reading and must be given up and taken again to reconnect;
* a signal handler that logs and shuts down inside whatever thread it
  interrupts, and exceptions that take a worker thread with them.

`PROJECT.json` lists these and the other hazards with the line where each bites.

## Modules

| Module | Models | Kind |
|---|---|---|
| `SingleFlight` | the class `SingleFlight` | state machine, one action per critical section |
| `SingleFlight_proofs` | | theorems |
| `LRU` | what the L1 cache promises | abstract specification |
| `L1Cache` | `getL1`, `putL1` and the settings, on list nodes and iterators | state machine; implements `LRU` |
| `L1Cache_proofs` | | theorems, the refinement of `LRU` among them |
| `QueryCache` | `doSingleFlight` and `notifyFlightResult` step by step, Redis, statistics | composes `SingleFlight` and `LRU` |
| `QueryCache_proofs` | | theorems; instantiates `SingleFlight_proofs` |
| `Bridge` | all sessions in bridge mode sharing one cache | composes handlers with `SingleFlight`; one action per handler, or per section of one that is in the cache |
| `Bridge_proofs` | | theorems; instantiates `SingleFlight_proofs` |
| `Startup` | `ProxyServer` and `Session` up to the bridge | state machine, one action per completion handler |
| `Startup_proofs` | | theorems |
| `Lifecycle` | `Config`, `main`, the worker threads, the signal handler | state machine |
| `Lifecycle_proofs` | | theorems |
| `MC*` | | instances for TLC |

Definitions whose comment starts with "(mutant)" are deliberately wrong
variants of the definition that follows them. No specification uses them; they
show that the property they are paired with in `PROJECT.json` can fail.

### SingleFlight

A *call* is one client query. It enters `doSingleFlight` (`Lead`, or `Find`
followed by `Join`) and, if it leads, later `notifyResult` (`NotifyFind` or
`NotifyNone`, `NotifyMark`, `NotifyCallback` once per callback, `NotifyErase`).
The boundaries of actions are the boundaries of the locked sections. A call
names the flight it created and the result it publishes, which makes "whose
result did I get" a question about names. `Abandon` is a leader whose session
never notifies. `Clear` is modelled although nothing calls it today.

### L1Cache and LRU

`l1_list_` is a sequence of nodes, `l1_map_` maps a key to a node, and a popped
node may be handed out again, so that a stale iterator would be seen as an
entry with another key. `getL1` is two actions because it gives up the shared
lock before it takes the unique one. Evicting from an empty list is undefined
behaviour, modelled as a crash. `L1Cache!Abstract` maps the nodes to a store
(`Store`: what each key's node holds) and a recency order of keys (`Recency`:
the keys of the list's nodes).

### QueryCache

The calls of `SingleFlight` with what comes before and after: `get` (L1, then
Redis, whose hits are copied to L1) before the flight, `put` before
`notifyResult`. The flights are `SingleFlight`'s own actions and the L1 cache
is `LRU`'s, which `L1Cache` implements. A call's place is `at`. `redis_mutex_`
is held shared by the calls at "reading" and alone by `holder`; sending a GET
and receiving its reply are two steps, because the lock is shared and another
thread may send on the same context in between. `wire` holds the GETs under
way: replies come back in any order, and `raced` remembers that two threads
were at it. `redis_ctx_` is "broken" after a lost command, when every further
command on it fails, until somebody reconnects. `redis_enabled_` is read
outside the lock, as in the code. Entries may expire in Redis at any time, and
Redis may hold answers from an earlier process.

### Bridge

Each session has a client-to-server and a server-to-client chain with at most
one operation outstanding each; the chain's state is that operation. A handler
is one action, except for the two that call the cache. The read handler of the
client looks in the cache (`ReadHit`, `ReadMiss`) and then goes through
`SingleFlight::doSingleFlight` (`ReadLeader`, or `ReadFinds` and `ReadWaiter`);
the read handler of the server puts the piece in the cache (`S2CReadResult`) and
goes through `notifyResult` (`S2CNotify`, `S2CPublish`, `S2CCallback` once per
waiter, `S2CNotified`). These are the actions of `SingleFlight`, of which `SF` is
an instance: a text may have several leaders, a flight several publishers, a
waiter a flight that is no longer in the map, and a session may be closed while
one of its handlers is in there. `get` and `put` are one step each; their
insides are `QueryCache`.

The n-th message of a session is call `<<s, n>>`, and its key is the message: a
query text or `OtherMsg`. A response is a sequence of pieces
`[msg, part, last]`, a piece being what one `async_read_some` returns, so that
the model can tell whose bytes a client is given. That the bytes reach the
client (`S2CDelivered`) and that the write's handler runs (`S2CWritten`) are two
steps, because a quick client may send its next query in between. `misled`
records that a client was given a piece that is not the next one of the answer
it waits for. `Evict` stands for insertions of texts outside the instance. With
`Pipelining` off a client waits for its answer. The database speaks only when
asked.

`again` holds the sessions whose callback has run a second time. Such a session
starts a write while it may have another write, or a read, outstanding, which
asio leaves undefined: the model follows a behaviour to the delivery of that
second reply (`SecondReply`) and no further. Such a reply may mislead its client
(finding 1); the statements about clients are about the time before, and say so.

### Startup

A session's `step` is the operation outstanding. `toDb` records what was
written to the database and whether it went over TLS. `Failed` closes the
session; `FailedExpected` is the silent end that `is_expected_ssl_error` leads
to, at the steps whose handler consults it before closing.

### Lifecycle

A configuration file gives each setting a value, nothing, or something that
cannot be converted; `Order` is the order in which `parseYaml` assigns them, and
"other" stands for all settings after the database's port. `ToShort` and
`ToPort` are the conversions a port goes through on its way to the acceptor and
to the resolver. A worker thread is idle in `io_context::run`, in the accept
handler, or in any other handler, where it may log, throw, or run the blocking
TLS shutdown of `close()`. Logging takes the mutex of spdlog's sink, and so does
`signal_handler`, in the thread it has interrupted, and the `catch` of a worker
that an exception has left. `signal_handler` is four steps, each interleaved with
all other threads: its own log line, `shutdown`'s change of `accepting_`,
`shutdown`'s log line, and the stop of the `io_context`. At the start main is "load",
at the end one of "exited" (0), "failed" (1) and "terminated".

## Runs

| Run | Instance | States | Result |
|---|---|---|---|
| `singleflight` | 4 calls, 2 keys, leaders may die, `clear`, fair | 385,233 | holds |
| `sf_leaders` | 3 calls, 1 key | | **violated** |
| `l1_cache` | 2 threads, 3 keys, 3 nodes, sizes 0..2 | 23,625 | holds |
| `query_cache` | 3 calls, 3 keys, L1 of size 2, 2 Redis faults, leaders may die | 1,607,650 | holds |
| `bridge` | 2 sessions, 1 text, 1 piece, 2 messages each, all errors | 1,676,806 | holds |
| `bridge_publishers` | 4 sessions, 1 text, 1 piece, 1 message each, no errors | 884,740 | holds |
| `bridge_liveness` | 2 sessions, 1 text and the empty text, 2 pieces, 1 message each, all errors, fair | 347,465 | holds |
| `bridge_whole`, `bridge_pipelining` | 2 sessions | | **violated** |
| `startup` | 2 connections, all errors, fair | 3,844 | holds |
| `lifecycle` | 2 workers, all files, 2 signals, fair | 282,527 | holds |
| `startup_ssl` | 1 connection | | **violated** |

Bounds. Four calls are a leader that publishes, the leader of the replacing
flight, a waiter of it, and a newcomer: the longest chain of roles the class
has. Two keys suffice to see results cross. Three keys and sizes up to two give
an eviction with survivors, and two threads give the race inside `getL1`. Two
sessions are a leader and a waiter of one text; each sends two messages so that
what is left over from the first meets the second. Four sessions with one
message each are the first leader, the leader of the flight that replaces its
flight, a waiter of that one, and a third leader: the smallest instance in which
a flight has two publishers and a callback runs twice. In `singleflight` the
calls are interchangeable, so it starts with one assignment of keys for each way
to share them: four, three and one, two and two. A flight that is erased under
its waiter needs three sessions and is met there and in `bridge_publishers`; in
`bridge_liveness`, with two, waiters are lost with their leaders only. Three calls of `query_cache` are
two readers on one Redis context and a writer, or a leader, its waiter and a
newcomer; with three texts and an L1 of two entries, "L1 is full" is a state of
its own, and the third text evicts the first; two faults are a lost
command and a reconnection that fails. Two workers and two signals are a signal
in a thread that logs while another thread, or main, is interrupted too.
`MaxChunks`, `MaxSends`, `MaxFaults`, `MaxSignals`, `Sizes` and the sets are the
bounds, all of them constants. The default port of the `lifecycle` instance is
below 32768 and the configured one above it. `CHECK_DEADLOCK` is
off because clients and calls are finite and sessions end.

Fairness. `SingleFlight`: the threads inside the class go on, and a leader that
is not abandoned notifies; nobody is obliged to call. `Bridge`: the database
answers what it was sent, and the `io_context` runs the handlers of completed
server reads and client writes; nothing is assumed of clients. `Startup`: peers keep
talking. The code has no timeouts, so without that assumption a session may
wait for ever at any step. `Lifecycle`: every thread goes on unless a TLS peer
keeps it, and a thread that waits for the sink's mutex gets it if it is free
again and again (strong fairness on `HandleSignal`: the other threads release the
mutex after every line they log, and log only now and then); TLS peers
and the delivery of signals are not assumed fair.

### What the passing runs show

* `SameQueryResults`, `NoLostRegistration`, `OpenFlightIsLed`,
  `ReadyFlightIsBeingErased`: the lookups repeated by key never cross keys, the
  second look at `ready` loses no callback, and the flight destroyed while its
  mutex is held is kept alive by its publisher.
* `WaiterServedOrOrphaned`: exactly two things lose a waiter (see the findings).
* `Coherent`, `SizeIsRespected`, `ImplementsLRU`: the cache is an LRU cache under
  concurrent use, never larger than configured. Its one undefined operation
  needs `max_size: 0` together with `enabled: true`.
* `CalledOncePerPublisher`: the callbacks are copied, not moved, but no
  publisher has a waiter twice in its list. Two publishers of one flight may
  each call it, which needs two leaders of one text (finding 1).
* `OwnAnswers`: whatever is lost, repeated, expired or evicted, L1, Redis and
  `get` hold a text's own answer, as long as no two threads have used the Redis
  context at once. They can (`getL2` takes the lock shared), and then replies
  can be swapped: with L2 compiled in, this is what would have to change first.
* `ReaderKeepsContext`, `RedisLetsGo`: the context is never freed under a
  reader, and giving up the shared lock before taking the exclusive one cannot
  block all threads. `CanGo` writes out what a thread inside `getL2` or `putL2`
  waits for; `RedisLetsGo` says that one of them always has it.
  `L2NeverComesBack`: after a failed reconnection L2 is off for the rest of the
  process.
* `CachedBeforeNotified`: the answer is in L1 before the flight ends, so a
  second execution of a text needs a caller that had missed before, or an
  eviction. `SharedUntilAnswered`: what the README's "Prevents N identical
  simultaneous queries" comes to: until a leader of a text has published its
  answer there is no second leader. After that there may be one
  (`sf_leaders`). `LookupsCounted`: hits are exact, misses are counted up to
  twice.
* `OnlyTwiceCalledMisleads`, `NoInterleavedWrites`: for clients that wait for
  their answers, and as long as no session's callback has run twice, no byte of
  another answer reaches a client and the two chains never write to it at the
  same time, whatever fails and however flights are replaced, erased or
  published by another leader. With a second callback both may happen
  (finding 1). `CacheAttribution`, `LeaderRemembersQuery`: answers are cached and
  shared under the text they answer; these hold without the exception.
* `WaitingEnds`: a waiter hangs only if another publisher has erased its flight
  from the map before it was published (finding 1), or if every leader of its
  text is lost (`LeaderLost`): closed, without a server chain, with a query whose
  write failed, or with the empty text. A lost leader's flight may still be
  published by another leader of the same text, which finds it by key.
* `StartupStaysPrivate`, `BridgeParity`, `StartupCompletes`: TLS is on both sides
  or on neither before anything private is sent, and a startup ends.
* `ConfigTakesEffect` (`WholeConfigOrNone`, `PortsAsUsed`): main never serves with
  half of a file, and the listening port survives its detour through `short`. The
  database's port does exactly when it is below 32768; a higher one is given to
  the resolver as a negative number.
* `EndsInOrder` (`NoWorkerOutlivesMain`, `ExitHasAReason`),
  `DeafOnlyAfterException`, `SignalEndsProcess`: the process ends after its
  threads and for a reason; an exception that left the accept handler itself is
  the one way to a proxy that runs and does not accept; after a signal the process
  ends, with the two exceptions the property names (a signal in a thread that is
  logging, which deadlocks on the sink's mutex, and a silent TLS peer).

### Findings

Each violated run is a disagreement between the code and its documentation;
`PROJECT.json` quotes the lines.

1. `notifyResult` erases by key and so removes a flight that replaced its own:
   two leaders for one text (`sf_leaders`). The removed flight's waiters are never
   called (`Orphaned` in `WaiterServedOrOrphaned`); the second leader's flight may
   be published by both leaders, and its waiters called twice. In the whole program
   `notifyFlightResult` caches the result before it notifies, so by
   `CachedBeforeNotified` the newcomer must have missed the cache earlier, or the
   L1 cache must be off or have evicted the text.
2. Only the first piece of a response is cached and given to waiters
   (`bridge_whole`).
3. A pipelining client gets answers attributed to the wrong query, for other
   clients too (`bridge_pipelining`).
4. After a refused SSLRequest the database is sent the SSLRequest again
   (`startup_ssl`).

Three more defects are written into properties, which say exactly when they
strike: two leaders of one text may both publish the flight of one of them, each
calls the waiters it copied, and the second call sends a client that waits for
its answers one it did not ask for (`again` in `OnlyTwiceCalledMisleads`; without
that premise the instance of `bridge_publishers` violates it); `signal_handler`
logs, and in a thread that is logging it waits for itself (`HandlerStuck` in
`SignalEndsProcess`); a database port above 32767 reaches the resolver as a
negative number (`PortsAsUsed`).

A leader whose session is closed leaves its flight open: that is the exception
`LeaderLost` of `WaitingEnds`.

## Proofs

Every invariant that a passing run checks is also proved for all values of the
constants; so are the action property `L2NeverComesBack` and the refinement of
`LRU`. Few of the properties are inductive alone. Each module has an inductive
invariant `IInv` and a lemma that every step keeps it, with one step per action
and one sub-step per conjunct the action can disturb.

`SingleFlight_proofs`, for any sets `Calls` and `Keys`, from
`ConstantsAssumption` (the null flight is not a call; the switches are
Booleans). `IInv` adds to the properties

* `MapKey`, `FoundKey`: a flight in the map under `k`, or held by a call, was
  created for that key. `SameQueryResults` needs it, since results travel
  through the flight;
* `Registered`, `ToBeCalled`: whoever is in a flight's callbacks, or in a
  publisher's copy, is a call with the flight's key that waits for it;
* `Published`: a flight's result has the flight's key.

`OneCallPerPublisher` needs `OnceInv` on top: no list of
callbacks has a duplicate, a flight that is ready has a publisher past its
marking, and whom a publisher has called is no longer in its list.
`OneLeaderUntilAnAnswer` assumes that `clear` is not called (`AllowClear` is
FALSE): with it, a text gets a second leader before any answer. `OneInv` says
that a leader without a published answer for its text is the one in the map, with
a flight that is not ready; so whoever comes finds a flight to join, and only a
publication makes the statement void for that text.

`L1Cache_proofs`, for any threads, keys, values, nodes and sizes. The heart is
`Chain`: the map's iterators and the list's nodes name each other, each key at
most once, and a linked node holds a value. Lemmas say what moving a node to
the front, pushing, popping and unlinking do to a chain; `getL1`'s second half
keeps it because it looks the key up again under the unique lock. `NothingEarly`
says that the list is empty until the settings are made, which is why
`setL1MaxSize` cannot leave it too long, and why the undefined pop
needs a size of zero (`SizeIsKept`). `L1IsAnLRUCache` maps every
step to a step of `LRU` or a stutter: the lemmas relate the keys of a list whose
node was moved to `LRU`'s own `Without`, which is a plain function on positions
rather than a recursion for that reason.

`QueryCache_proofs`, for any calls, keys, L1 size and faults, from
`QueryCacheAssumption` (one of whose parts is that there is a call at all:
without one nothing happens). `SFP` is an instance of `SingleFlight_proofs`, so
the lemmas of that module are used here about the flights of the cache, and
`SFP!IInv` is kept. `IInv` adds
`Control` (who may hold `redis_mutex_` where, that the switches are set before
anyone calls, that a new context has nothing on its wire and, while no two
threads have read at once, the one reader waits for its own reply), `PutFirst`
(once a leader has put its answer, the text is in L1, or L1 is off or full) and
`Counted` (the statistics against the sets of calls that have looked, hit, and
still owe a miss; the theorems on cardinality do the counting).
`NoDeadlockInRedis` rests on a balance: on a context that is up there are as many
commands under way as threads that wait for a reply, although a thread may take
another one's reply, so a waiting thread finds one. The balance is kept by every
step that sends, receives, loses or disconnects (`BalanceStep`); from it
`SomeoneCanGo` looks at who holds the lock. `RedisStepsAreBounded` adds that a
step in there needs what `CanGo` says and moves its thread forward in `Order`:
together, every thread that enters leaves. `OneQueryUntilAnswered` carries
`OneInv` over to the cache, without an assumption on `AllowClear`, because none
of the cache's steps is a `Clear`.

`Bridge_proofs`, for any sessions, texts, response lengths and errors.
`BridgeTypeCorrect` holds with or without pipelining. The others assume
`Pipelining = FALSE`, and `bridge_pipelining` shows that they have to. The
flights are `SingleFlight`'s own: every step of `Bridge` that touches them is one
of its steps, so `SFP!IInv`, proved in `SingleFlight_proofs` for any calls and
keys, is part of the invariant and gives what a waiter is registered with, who is
in a publisher's list, and that a flight's result has its key. `Publications`
says that what a call in `notifyResult` hands out is the first piece of the answer
to its text. Until a callback has run twice, `Conv(s)` follows the one
message of a client: it is on the way to the proxy (`InProxy`), on the way to or
from the database (`AtDatabase`), on its way through the cache (`InCache`), being
answered (`Answering`), led or waited for (`Leading`, `Waiting`), or replied to
(`Replying`), and never at two of these places at once. Replaced, erased and
twice-published flights are no exceptions to it: a waiter's conversation depends
on its being called, not on who calls it, and a first call finds it waiting for
the text that was published.

`Startup_proofs`, for any set of connections. `Progress(s)` says for each step
what the session has done: before the client is answered no startup packet has
been sent, the two streams exist exactly when the client was told 'S', and at
the steps after the handshakes `ssl_enabled_` is set. With it
`StartupTypeCorrect`, `StartupPrivacy` and `TlsOnBothSidesOrNone` follow.

`Lifecycle_proofs`, for any number of workers, any ports and any number of
signals. `IInv` adds `ConfigKnown` (before the load `conf` is what the
initializers say, and its ports fit an unsigned short ever after), `MainLogs`
(where main logs it holds the sink),
`WorkersWithMain` (which threads exist at which point of main) and
`StopsAreSignals` (a stopped `io_context` and a returned worker come from a
signal). Of `ConfigIsKept` the ports are arithmetic: `ToPort` undoes `ToShort`
on all of 0..65535. `AcceptLostToException` is about the accept handler's own
exception, which the history variable `acceptThrew` records.

Only model-checked: liveness (`WaiterServedOrOrphaned`, `WaitingEnds`,
`StartupCompletes`, `SignalEndsProcess`), which is outside what the prover
supports.

## Not modelled

* `SharedSSLContext`: OpenSSL calls behind a function-local static. Its failure
  is `AcceptThrows`.
* The Redis and statistics sections of `QueryCache::clear`, which nothing calls
  (its L1 section is `L1Cache!Clear`), `getStats`, which changes nothing and has
  no caller, and `Config::loadFromString`, which has none either.
* With `HAVE_HIREDIS` the file does not compile: `getL2` names an undeclared
  `redis_key`. `QueryCache` reads it as the key built one line above; the build
  without hiredis is `HaveHiredis = FALSE`, whose behaviours are those of the
  instance in which Redis is not configured.
* Settings nobody reads: `ssl.enabled` (the proxy always answers as the
  database does) and the connection pool's.
* Data races inside a TLS stream, or inside hiredis, used by two threads: of the
  latter only swapped replies are modelled.
* Messages split over several reads, and queries longer than a buffer;
  GSSENCRequest, which the code takes for an SSLRequest.
* What a session does after its callback has run twice and the second reply was
  delivered: two overlapping writes, and two reads, on one connection.
* The mutexes inside asio that `acceptor_.close` and `io_context::stop` take in the
  signal handler, a further way for it to wait for its own thread; a second signal
  in a thread that is inside the handler.
* What a query means: that a cached answer is stale after a write.

## Plan

The model is complete but for the list above, and its safety is proved. What
remains worth proving is that the one step in which `Bridge` looks in the cache,
or puts an answer there, is what `QueryCache` does in several.
