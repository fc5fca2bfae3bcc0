----------------------------- MODULE QueryCache -----------------------------
(***************************************************************************)
(* The class QueryCache as its callers see it: doSingleFlight (get, then   *)
(* the flight) and notifyFlightResult (put, then the flight), on top of    *)
(* SingleFlight, of the L1 cache as LRU specifies it (L1Cache implements   *)
(* LRU), and of Redis.  A call is one client query, and an answer is named *)
(* after the call whose session fetched it from the database, or after its *)
(* key if Redis, which outlives the process, held it from the beginning.   *)
(*                                                                         *)
(* Every section under redis_mutex_, and every read of redis_enabled_      *)
(* outside it, is a step; statistics are counted in the step they follow,  *)
(* since increments commute.  L2 is what `#ifdef REDIS_AVAILABLE' selects: *)
(* HaveHiredis = FALSE is the build without it.  (With it getL2 names an   *)
(* undeclared redis_key, read here as the key it has just built.)  clear() *)
(* is left out: nothing in src calls it.                                   *)
(***************************************************************************)
EXTENDS Naturals, Sequences, FiniteSets

CONSTANTS
    Calls, Keys, NoFlight, AllowAbandon, AllowClear,  \* as in SingleFlight
    L1Size,        \* cache.l1.max_size, not zero
    HaveHiredis,   \* is L2 compiled in?
    MaxFaults      \* lost Redis commands and failed connections

ASSUME QueryCacheAssumption ==
    /\ Calls # {}
    /\ NoFlight \notin Calls \cup Keys
    /\ Calls \cap Keys = {}
    /\ AllowAbandon \in BOOLEAN /\ AllowClear \in BOOLEAN
    /\ L1Size \in Nat \ {0}
    /\ HaveHiredis \in BOOLEAN
    /\ MaxFaults \in Nat

VARIABLES
    flights_, ready, result, callbacks, key, pc, found, todo, got,
    store, recency, l1_max_size_,   \* the L1 cache
    answer,           \* what get has found for each call, or NoFlight
    l1_enabled_,
    redis_enabled_,
    redis_ctx_,       \* "none", "up", or "broken": commands on it return null
    holder,           \* the call that holds redis_mutex_ alone, or NoFlight
    wire,             \* calls whose GET is under way on redis_ctx_
    redis,            \* what the Redis server holds under each key
    at,               \* where each call is in QueryCache
    stats_,
    faults,
    raced             \* history: two threads have used redis_ctx_ at a time

flight == <<flights_, ready, result, callbacks, key, pc, found, todo, got>>
level1 == <<store, recency, l1_max_size_, l1_enabled_>>
context == <<redis_enabled_, redis_ctx_, holder, wire, faults, raced>>
vars == <<flight, level1, answer, context, redis, at, stats_>>

SF == INSTANCE SingleFlight
L1 == INSTANCE LRU WITH Threads <- Calls, Values <- Calls \cup Keys,
                        NoValue <- NoFlight, capacity <- l1_max_size_

Answers == Calls \cup Keys \cup {NoFlight}
Counters == {"l1_hits", "l1_misses", "l2_hits", "l2_misses"}

\* "config": main has not started the threads.  "get" .. "fill" are inside
\* get, "hit" and "flight" have left it, "put" .. "reput" are inside put.
Places == {"config", "get", "missed", "enter", "reading", "relock", "reget",
           "fill", "hit", "flight", "put", "putL2", "reput", "notify"}

\* Every variable has its type; the Redis switch is on exactly while there is
\* a context.
TypeOK ==
    /\ SF!TypeOK
    /\ store \in [Keys -> Answers] /\ recency \in Seq(Keys)
    /\ answer \in [Calls -> Answers]
    /\ l1_max_size_ = L1Size /\ l1_enabled_ \in BOOLEAN
    /\ redis_ctx_ \in {"none", "up", "broken"}
    /\ redis_enabled_ = (redis_ctx_ # "none")
    /\ holder \in Calls \cup {NoFlight}
    /\ wire \subseteq Calls
    /\ redis \in [Keys -> Answers]
    /\ at \in [Calls -> Places]
    /\ stats_ \in [Counters -> Nat]
    /\ faults \in 0 .. MaxFaults
    /\ raced \in BOOLEAN

Init ==
    /\ SF!Init
    /\ store = [k \in Keys |-> NoFlight] /\ recency = <<>>
    /\ answer = [c \in Calls |-> NoFlight]
    /\ l1_max_size_ = L1Size /\ l1_enabled_ \in BOOLEAN
    /\ redis_enabled_ = FALSE /\ redis_ctx_ = "none"
    /\ holder = NoFlight /\ wire = {} /\ faults = 0 /\ raced = FALSE
    /\ \E old \in SUBSET Keys : redis = [k \in Keys |-> IF k \in old THEN k ELSE NoFlight]
    /\ at = [c \in Calls |-> "config"]
    /\ stats_ = [n \in Counters |-> 0]

-----------------------------------------------------------------------------
(* The connection to Redis *)

Go(c, from, to) == at[c] = from /\ at' = [at EXCEPT ![c] = to]

\* redis_mutex_ can be taken shared, or alone.
CanShare == holder = NoFlight

\* (mutant) the lock is taken shared where it must be exclusive
CanLockShared == holder = NoFlight

\* (mutant) a reader that wants the lock alone has not released its share
CanLockUpgrade == holder = NoFlight /\ \A c \in Calls : at[c] \notin {"reading", "relock"}

CanLock == holder = NoFlight /\ \A c \in Calls : at[c] # "reading"

Fault == faults < MaxFaults /\ faults' = faults + 1

\* connectRedis: refused, timed out, no host, or not compiled in.
ConnectFails ==
    /\ IF HaveHiredis THEN Fault ELSE UNCHANGED faults
    /\ redis_ctx_' = "none" /\ redis_enabled_' = FALSE

ConnectSucceeds ==
    /\ HaveHiredis
    /\ redis_ctx_' = "up" /\ redis_enabled_' = TRUE

\* A command on a context that has seen an error, or that sees one now,
\* returns null.
CommandLost ==
    \/ redis_ctx_ = "broken" /\ UNCHANGED faults
    \/ redis_ctx_ = "up" /\ Fault

\* (mutant) the switch stays on
DisconnectKeepsSwitch(c) ==
    /\ redis_ctx_' = "none" /\ UNCHANGED redis_enabled_
    /\ holder' = c /\ wire' = {}

\* disconnectRedis, by call c, which takes redis_mutex_ alone for it and keeps
\* it for the reconnection: redis_enabled_ is off in between.
Disconnect(c) ==
    /\ redis_ctx_' = "none" /\ redis_enabled_' = FALSE
    /\ holder' = c /\ wire' = {}

\* main, before it starts the threads: setRedisConfig, if Redis is configured.
SetRedisConfig ==
    /\ \A c \in Calls : at[c] = "config"
    /\ at' = [c \in Calls |-> "get"]
    /\ \/ UNCHANGED <<redis_ctx_, redis_enabled_, faults>>
       \/ ConnectFails
       \/ ConnectSucceeds /\ UNCHANGED faults
    /\ UNCHANGED <<flight, level1, answer, holder, wire, raced, redis, stats_>>

-----------------------------------------------------------------------------
(* get *)

\* updateStats
Count(names) == stats_' = [n \in Counters |-> IF n \in names THEN stats_[n] + 1 ELSE stats_[n]]
CountL1Hit == Count({"l1_hits"})

\* (mutant) an L2 hit is reported as a hit of L1
CountL2HitAsL1 == Count({"l1_hits"})

CountL2Hit == Count({"l1_misses", "l2_hits"})
CountMiss == Count({"l1_misses", "l2_misses"})

GetL1Hit(c) ==
    /\ Go(c, "get", "hit")
    /\ l1_enabled_ /\ store[key[c]] # NoFlight
    /\ L1!Get(c, key[c])
    /\ CountL1Hit
    /\ UNCHANGED <<flight, l1_enabled_, context, redis>>

GetL1Miss(c) ==
    /\ Go(c, "get", "missed")
    /\ ~l1_enabled_ \/ store[key[c]] = NoFlight
    /\ CountMiss
    /\ UNCHANGED <<flight, level1, answer, context, redis>>

\* redis_enabled_ is read without a lock.
GetChoose(c) ==
    /\ Go(c, "missed", IF redis_enabled_ THEN "enter" ELSE "flight")
    /\ UNCHANGED <<flight, level1, answer, context, redis, stats_>>

\* Reply v of a GET: a string is a hit, anything else is counted as a miss.
Reply(c, from, v) ==
    /\ Go(c, from, IF v = NoFlight THEN "flight" ELSE "fill")
    /\ answer' = [answer EXCEPT ![c] = v]
    /\ IF v = NoFlight THEN CountMiss ELSE UNCHANGED stats_

\* getL2 takes redis_mutex_ shared and looks at the context again ...
GetL2None(c) ==
    /\ CanShare
    /\ redis_ctx_ = "none"
    /\ Reply(c, "enter", NoFlight)
    /\ UNCHANGED <<flight, level1, context, redis>>

\* ... and sends GET.  The lock being shared, others may do the same on the
\* same context, which hiredis does not allow.
GetL2Send(c) ==
    /\ CanShare
    /\ redis_ctx_ # "none"
    /\ Go(c, "enter", "reading")
    /\ wire' = wire \cup {c}
    /\ raced' = (raced \/ \E d \in Calls : at[d] = "reading")
    /\ UNCHANGED <<flight, level1, answer, redis_enabled_, redis_ctx_, holder, faults,
                   redis, stats_>>

\* The reply: whatever comes first on the connection, which is the answer to
\* another thread's GET if several are under way; nil if the key has expired.
GetL2Reply(c) ==
    /\ redis_ctx_ = "up"
    /\ \E d \in wire : /\ \E v \in {redis[key[d]], NoFlight} : Reply(c, "reading", v)
                       /\ wire' = wire \ {d}
    /\ UNCHANGED <<flight, level1, redis_enabled_, redis_ctx_, holder, faults, raced,
                   redis>>

\* No reply: the shared lock is released.
GetL2Lost(c) ==
    /\ CommandLost
    /\ Go(c, "reading", "relock")
    /\ redis_ctx_' = "broken"
    /\ UNCHANGED <<flight, level1, answer, redis_enabled_, holder, wire, raced, redis,
                   stats_>>

\* Alone, whatever others have done to the context since: disconnect,
GetL2Disconnect(c) ==
    /\ CanLock
    /\ Go(c, "relock", "reget")
    /\ Disconnect(c)
    /\ UNCHANGED <<flight, level1, answer, faults, raced, redis, stats_>>

\* (mutant) the repeated GET is for whatever key was used last
GetL2AgainAnyKey(c) ==
    /\ ConnectSucceeds /\ UNCHANGED faults
    /\ \E k \in Keys : Reply(c, "reget", redis[k])
    /\ holder' = NoFlight
    /\ UNCHANGED <<flight, level1, wire, raced, redis>>

\* connect, and repeat the GET, once.
GetL2Again(c) ==
    /\ \/ ConnectFails /\ Reply(c, "reget", NoFlight)
       \/ /\ ConnectSucceeds /\ UNCHANGED faults
          /\ \E v \in {redis[key[c]], NoFlight} : Reply(c, "reget", v)
       \/ /\ HaveHiredis /\ Fault
          /\ redis_ctx_' = "broken" /\ redis_enabled_' = TRUE
          /\ Reply(c, "reget", NoFlight)
    /\ holder' = NoFlight
    /\ UNCHANGED <<flight, level1, wire, raced, redis>>

\* putL1
PutL1(k, v) ==
    \/ /\ ~l1_enabled_
       /\ UNCHANGED <<store, recency, l1_max_size_>>
    \/ /\ l1_enabled_
       /\ L1!Refresh(k, v) \/ L1!Insert(k, v) \/ L1!Replace(k, v)

\* A hit in Redis is copied to L1.
FillL1(c) ==
    /\ Go(c, "fill", "hit")
    /\ PutL1(key[c], answer[c])
    /\ CountL2Hit
    /\ UNCHANGED <<flight, answer, l1_enabled_, context, redis>>

-----------------------------------------------------------------------------
(* The flight: SingleFlight's own steps, once get has missed and, for what a *)
(* leader does after its database has answered, once put has returned.       *)

InFlight(c) ==
    /\ \/ at[c] = "flight" /\ (SF!Lead(c) \/ SF!Find(c) \/ SF!Join(c) \/ SF!Abandon(c))
       \/ at[c] = "notify" /\ \/ SF!NotifyFind(c)
                              \/ SF!NotifyNone(c)
                              \/ SF!NotifyMark(c)
                              \/ SF!NotifyCallback(c)
                              \/ SF!NotifyErase(c)
    /\ UNCHANGED <<level1, answer, context, redis, at, stats_>>

-----------------------------------------------------------------------------
(* put, called by notifyFlightResult when the leader has its answer *)

\* (mutant) notifies before it caches
PutBeginNotifies(c) ==
    /\ pc[c] = "leading"
    /\ Go(c, "flight", "notify")
    /\ UNCHANGED <<flight, level1, answer, context, redis, stats_>>

PutBegin(c) ==
    /\ pc[c] = "leading"
    /\ Go(c, "flight", "put")
    /\ PutL1(key[c], c)
    /\ UNCHANGED <<flight, answer, l1_enabled_, context, redis, stats_>>

PutChoose(c) ==
    /\ Go(c, "put", IF redis_enabled_ THEN "putL2" ELSE "notify")
    /\ UNCHANGED <<flight, level1, answer, context, redis, stats_>>

Stored(c) == [redis EXCEPT ![key[c]] = c]

\* (mutant) connects again when there is no context
PutL2Connects(c) ==
    /\ CanLock
    /\ Go(c, "putL2", "notify")
    /\ ConnectSucceeds
    /\ redis' = Stored(c)
    /\ UNCHANGED <<flight, level1, answer, holder, wire, faults, raced, stats_>>

\* putL2, alone: no context any more, or SETEX, ...
PutL2(c) ==
    /\ CanLock
    /\ redis_ctx_ # "broken"
    /\ Go(c, "putL2", "notify")
    /\ redis' = IF redis_ctx_ = "up" THEN Stored(c) ELSE redis
    /\ UNCHANGED <<flight, level1, answer, context, stats_>>

\* ... whose reply is lost (and which may have been executed): disconnect,
PutL2Lost(c) ==
    /\ CanLock
    /\ CommandLost
    /\ Go(c, "putL2", "reput")
    /\ Disconnect(c)
    /\ redis' \in IF redis_ctx_ = "up" THEN {redis, Stored(c)} ELSE {redis}
    /\ UNCHANGED <<flight, level1, answer, raced, stats_>>

\* connect, and repeat the SETEX, once.
PutL2Again(c) ==
    /\ Go(c, "reput", "notify")
    /\ \/ ConnectFails /\ UNCHANGED redis
       \/ ConnectSucceeds /\ UNCHANGED faults /\ redis' = Stored(c)
       \/ /\ HaveHiredis /\ Fault
          /\ redis_ctx_' = "broken" /\ redis_enabled_' = TRUE
          /\ redis' \in {redis, Stored(c)}
    /\ holder' = NoFlight
    /\ UNCHANGED <<flight, level1, answer, wire, raced, stats_>>

-----------------------------------------------------------------------------
Get(c) ==
    \/ GetL1Hit(c) \/ GetL1Miss(c) \/ GetChoose(c)
    \/ GetL2None(c) \/ GetL2Send(c) \/ GetL2Reply(c) \/ GetL2Lost(c)
    \/ GetL2Disconnect(c) \/ GetL2Again(c)
    \/ FillL1(c)

Put(c) ==
    \/ PutBegin(c) \/ PutChoose(c)
    \/ PutL2(c) \/ PutL2Lost(c) \/ PutL2Again(c)

Next ==
    \/ SetRedisConfig
    \/ \E c \in Calls : Get(c) \/ InFlight(c) \/ Put(c)

Spec == Init /\ [][Next]_vars

-----------------------------------------------------------------------------
(* Properties *)

\* What is cached in either level under a key, and what get returns, was
\* fetched for that key, whatever was lost, repeated or evicted on the way;
\* the one exception is Redis read by two threads at once (getL2 only shares
\* the lock), after which replies may have been swapped.
OwnAnswers ==
    LET For(k, a) == a \in {NoFlight, k} \/ (a \in Calls /\ key[a] = k) IN
    ~raced => /\ \A k \in Keys : For(k, store[k]) /\ For(k, redis[k])
              /\ \A c \in Calls : For(key[c], answer[c])

\* No thread frees the Redis context while another runs a command on it: a
\* reader's context is there until it has its reply, although a reader that
\* lost its reply disconnects whatever context it finds then.
ReaderKeepsContext ==
    \A c \in Calls : at[c] = "reading" => redis_ctx_ # "none" /\ holder = NoFlight

\* L2 is off and no thread is on its way to a reconnection.
L2Down ==
    /\ ~redis_enabled_
    /\ \A c \in Calls : at[c] \notin {"config", "relock", "reget", "reput"}

\* Only the thread that lost a command tries to reconnect.  When that fails L2
\* stays off for the rest of the process: no later get or put tries again.
L2NeverComesBack == [][L2Down => L2Down']_vars

\* notifyFlightResult caches before it notifies: once a leader publishes, a
\* newcomer with the same text finds the answer in L1, unless L1 is off or
\* has evicted it for another text.  So a text that has been
\* answered is asked again only by calls that had missed before.
CachedBeforeNotified ==
    \A c \in Calls : pc[c] \in {"notify", "calling", "done"} =>
        \/ store[key[c]] # NoFlight
        \/ ~l1_enabled_
        \/ Len(recency) = l1_max_size_

\* The hit counters are exact, and every lookup is counted; misses are not
\* exact with Redis on: a lookup that goes on to L2 is counted a second time
\* when L2 has answered.
LookupsCounted ==
    LET looked == {c \in Calls : at[c] \notin {"config", "get"}}
        hit == {c \in Calls : at[c] = "hit"}
        all == stats_["l1_hits"] + stats_["l1_misses"] IN
    /\ stats_["l1_hits"] + stats_["l2_hits"] = Cardinality(hit)
    /\ Cardinality(looked) <= all
    /\ all <= 2 * Cardinality(looked) - stats_["l1_hits"]

\* The thread of c is inside getL2 or putL2.
InRedis(c) == at[c] \in {"enter", "reading", "relock", "reget", "putL2", "reput"}

\* The lock and the reply that call c needs for its next step there: a shared
\* lock to enter getL2, a reply or an error to leave it, the lock alone to
\* reconnect or to write.  A reconnection needs neither.
CanGo(c) ==
    \/ at[c] = "enter" /\ CanShare
    \/ /\ at[c] = "reading"
       /\ \/ redis_ctx_ = "broken"
          \/ redis_ctx_ = "up" /\ (wire # {} \/ faults < MaxFaults)
    \/ at[c] \in {"relock", "putL2"} /\ CanLock
    \/ at[c] \in {"reget", "reput"}

\* No deadlock on redis_mutex_: while threads are inside getL2 or putL2 one of
\* them can go on, although a reader must give up its shared lock and compete
\* for the exclusive one to reconnect, and although a reply may be taken by a
\* thread that did not ask for it.  Each has a bounded number of steps there,
\* so all of them leave.
RedisLetsGo == (\E c \in Calls : InRedis(c)) => \E c \in Calls : CanGo(c)

\* README: "Prevents N identical simultaneous queries", as far as it goes: no
\* two calls are leaders of the same text before one leader has published its
\* answer, whichever calls race from a miss to doSingleFlight and whichever
\* session dies as leader.  Nothing under src/ calls SingleFlight::clear.
SharedUntilAnswered == SF!OneLeaderUntilPublished
=============================================================================
