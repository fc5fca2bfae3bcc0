---------------------------- MODULE SingleFlight ----------------------------
(***************************************************************************)
(* The class SingleFlight (src/src/SingleFlight).  Worker threads of the   *)
(* io_context run doSingleFlight and notifyResult concurrently; every      *)
(* section the code runs under flights_mutex_ or under a flight's mutex is *)
(* one action here, and everything between two sections may interleave.    *)
(*                                                                         *)
(* A call is one use of the class for one client query: doSingleFlight,    *)
(* and, when it returned IS_LEADER, the notifyResult its session issues    *)
(* once the database has answered.  A flight is created by exactly one     *)
(* call, so the call names the flight it created and also names the        *)
(* result the leader publishes.  Logging and the counter Flight::waiters,  *)
(* which is only logged, are left out.                                     *)
(***************************************************************************)
EXTENDS Naturals, Sequences

CONSTANTS
    Calls,         \* client queries that reach doSingleFlight
    Keys,          \* hashes of query texts
    NoFlight,      \* a null shared_ptr<Flight>
    AllowAbandon,  \* may a leader's session end before it notifies?
    AllowClear     \* may SingleFlight::clear run? (nothing in src calls it)

ASSUME ConstantsAssumption ==
    /\ NoFlight \notin Calls
    /\ AllowAbandon \in BOOLEAN
    /\ AllowClear \in BOOLEAN

VARIABLES
    flights_,   \* the map from key to current flight
    ready,      \* Flight::ready
    result,     \* Flight::result
    callbacks,  \* Flight::callbacks, as the calls whose on_result they are
    key,        \* the key of each call, fixed by its query
    pc,         \* where each call is
    found,      \* the local variable `flight' of the call
    todo,       \* the part of callbacks_to_notify still to be called
    got         \* history: the results on_result of each call was given

vars == <<flights_, ready, result, callbacks, key, pc, found, todo, got>>

LeaderPc == {"leading", "notify", "calling", "done", "abandoned"}
Pc == {"start", "join", "waiter"} \cup LeaderPc

IsIn(e, s) == \E i \in DOMAIN s : s[i] = e

\* Every variable has its type; a thread past the lookup of either function
\* holds a non-null pointer, so `flight' is never dereferenced null; a ready
\* flight has a result to hand to a late caller.
TypeOK ==
    /\ flights_ \in [Keys -> Calls \cup {NoFlight}]
    /\ ready \in [Calls -> BOOLEAN]
    /\ result \in [Calls -> Calls \cup {NoFlight}]
    /\ callbacks \in [Calls -> Seq(Calls)]
    /\ key \in [Calls -> Keys]
    /\ pc \in [Calls -> Pc]
    /\ found \in [Calls -> Calls \cup {NoFlight}]
    /\ todo \in [Calls -> Seq(Calls)]
    /\ got \in [Calls -> Seq(Calls)]
    /\ \A c \in Calls : pc[c] \in {"join", "waiter", "notify", "calling"}
                            => found[c] \in Calls
    /\ \A c \in Calls : ready[c] => result[c] \in Calls

Init ==
    /\ flights_ = [k \in Keys |-> NoFlight]
    /\ ready = [c \in Calls |-> FALSE]
    /\ result = [c \in Calls |-> NoFlight]
    /\ callbacks = [c \in Calls |-> <<>>]
    /\ key \in [Calls -> Keys]
    /\ pc = [c \in Calls |-> "start"]
    /\ found = [c \in Calls |-> NoFlight]
    /\ todo = [c \in Calls |-> <<>>]
    /\ got = [c \in Calls |-> <<>>]

-----------------------------------------------------------------------------
(* doSingleFlight *)

\* The flight a lookup may join: present and not ready.
Joinable(k) == flights_[k] # NoFlight /\ ~ready[flights_[k]]

\* (mutant) becomes the leader whatever the map holds
LeadUnchecked(c) ==
    /\ pc[c] = "start"
    /\ flights_' = [flights_ EXCEPT ![key[c]] = c]
    /\ pc' = [pc EXCEPT ![c] = "leading"]
    /\ UNCHANGED <<ready, result, callbacks, key, found, todo, got>>

\* First section, under flights_mutex_: no flight, or one that is already
\* ready and is replaced, makes the caller the leader of a new flight.
Lead(c) ==
    /\ pc[c] = "start"
    /\ ~Joinable(key[c])
    /\ flights_' = [flights_ EXCEPT ![key[c]] = c]
    /\ pc' = [pc EXCEPT ![c] = "leading"]
    /\ UNCHANGED <<ready, result, callbacks, key, found, todo, got>>

\* First section, otherwise: the caller keeps a pointer to the flight and
\* releases flights_mutex_ before it uses it.
Find(c) ==
    /\ pc[c] = "start"
    /\ Joinable(key[c])
    /\ found' = [found EXCEPT ![c] = flights_[key[c]]]
    /\ pc' = [pc EXCEPT ![c] = "join"]
    /\ UNCHANGED <<flights_, ready, result, callbacks, key, todo, got>>

\* (mutant) registers without looking at ready again
JoinUnchecked(c) ==
    /\ pc[c] = "join"
    /\ pc' = [pc EXCEPT ![c] = "waiter"]
    /\ callbacks' = [callbacks EXCEPT ![found[c]] = Append(@, c)]
    /\ UNCHANGED <<flights_, ready, result, key, found, todo, got>>

\* (mutant) registers on_result twice
JoinTwice(c) ==
    LET f == found[c] IN
    /\ pc[c] = "join"
    /\ pc' = [pc EXCEPT ![c] = "waiter"]
    /\ got' = IF ready[f] THEN [got EXCEPT ![c] = Append(@, result[f])] ELSE got
    /\ callbacks' = IF ready[f] THEN callbacks
                    ELSE [callbacks EXCEPT ![f] = @ \o <<c, c>>]
    /\ UNCHANGED <<flights_, ready, result, key, found, todo>>

\* Second section, under the flight's mutex: a flight that became ready in
\* the meantime is used at once, otherwise on_result is registered.
Join(c) ==
    LET f == found[c] IN
    /\ pc[c] = "join"
    /\ pc' = [pc EXCEPT ![c] = "waiter"]
    /\ \/ /\ ready[f]
          /\ got' = [got EXCEPT ![c] = Append(@, result[f])]
          /\ UNCHANGED callbacks
       \/ /\ ~ready[f]
          /\ callbacks' = [callbacks EXCEPT ![f] = Append(@, c)]
          /\ UNCHANGED got
    /\ UNCHANGED <<flights_, ready, result, key, found, todo>>

-----------------------------------------------------------------------------
(* notifyResult *)

\* Thread c holds a pointer to flight f and enters the second section.
EnterNotify(c, f) ==
    /\ pc[c] = "leading"
    /\ found' = [found EXCEPT ![c] = f]
    /\ pc' = [pc EXCEPT ![c] = "notify"]
    /\ UNCHANGED <<flights_, ready, result, callbacks, key, todo, got>>

\* (mutant) uses the iterator without comparing it with end()
NotifyFindUnchecked(c) == EnterNotify(c, flights_[key[c]])

\* (mutant) takes some flight of the map, such as the one at begin()
NotifyFindAny(c) ==
    \E k \in Keys : flights_[k] # NoFlight /\ EnterNotify(c, flights_[k])

\* First section, under flights_mutex_: find the key's current flight, which
\* need not be the one this leader created.
NotifyFind(c) ==
    /\ flights_[key[c]] # NoFlight
    /\ EnterNotify(c, flights_[key[c]])

\* First section, key not in the map: warn and return.
NotifyNone(c) ==
    /\ pc[c] = "leading"
    /\ flights_[key[c]] = NoFlight
    /\ pc' = [pc EXCEPT ![c] = "done"]
    /\ UNCHANGED <<flights_, ready, result, callbacks, key, found, todo, got>>

\* (mutant) forgets ready = true
NotifyMarkNotReady(c) ==
    /\ pc[c] = "notify"
    /\ result' = [result EXCEPT ![found[c]] = c]
    /\ todo' = [todo EXCEPT ![c] = callbacks[found[c]]]
    /\ pc' = [pc EXCEPT ![c] = "calling"]
    /\ UNCHANGED <<flights_, ready, callbacks, key, found, got>>

\* Second section, under the flight's mutex: publish and copy the callbacks.
NotifyMark(c) ==
    LET f == found[c] IN
    /\ pc[c] = "notify"
    /\ result' = [result EXCEPT ![f] = c]
    /\ ready' = [ready EXCEPT ![f] = TRUE]
    /\ todo' = [todo EXCEPT ![c] = callbacks[f]]
    /\ pc' = [pc EXCEPT ![c] = "calling"]
    /\ UNCHANGED <<flights_, callbacks, key, found, got>>

\* (mutant) a callback's exception leaves the function
NotifyCallbackThrows(c) ==
    /\ pc[c] = "calling"
    /\ todo[c] # <<>>
    /\ pc' = [pc EXCEPT ![c] = "done"]
    /\ UNCHANGED <<flights_, ready, result, callbacks, key, found, todo, got>>

\* The loop over the copy, without any lock.  A callback that throws is
\* caught and the loop goes on.
NotifyCallback(c) ==
    /\ pc[c] = "calling"
    /\ todo[c] # <<>>
    /\ got' = [got EXCEPT ![Head(todo[c])] = Append(@, c)]
    /\ todo' = [todo EXCEPT ![c] = Tail(@)]
    /\ UNCHANGED <<flights_, ready, result, callbacks, key, pc, found>>

\* (mutant) returns without erasing the key
NotifyEraseMissing(c) ==
    /\ pc[c] = "calling"
    /\ todo[c] = <<>>
    /\ pc' = [pc EXCEPT ![c] = "done"]
    /\ UNCHANGED <<flights_, ready, result, callbacks, key, found, todo, got>>

\* Last section, under flights_mutex_: erase the key, whatever flight it maps
\* to by now.
NotifyErase(c) ==
    /\ pc[c] = "calling"
    /\ todo[c] = <<>>
    /\ flights_' = [flights_ EXCEPT ![key[c]] = NoFlight]
    /\ pc' = [pc EXCEPT ![c] = "done"]
    /\ UNCHANGED <<ready, result, callbacks, key, found, todo, got>>

-----------------------------------------------------------------------------
(* clear, and what the class's user may do *)

Clear ==
    /\ AllowClear
    /\ \E k \in Keys : flights_[k] # NoFlight
    /\ flights_' = [k \in Keys |-> NoFlight]
    /\ UNCHANGED <<ready, result, callbacks, key, pc, found, todo, got>>

\* The leader's session stops processing server data (it was closed, the
\* server went away, the query text was empty ...) and never notifies.
Abandon(c) ==
    /\ AllowAbandon
    /\ pc[c] = "leading"
    /\ pc' = [pc EXCEPT ![c] = "abandoned"]
    /\ UNCHANGED <<flights_, ready, result, callbacks, key, found, todo, got>>

\* The steps a worker thread takes once it has entered one of the functions,
\* and the leader's entry into notifyResult.
Work(c) ==
    \/ Join(c)
    \/ NotifyFind(c)
    \/ NotifyNone(c)
    \/ NotifyMark(c)
    \/ NotifyCallback(c)
    \/ NotifyErase(c)

Next ==
    \/ \E c \in Calls : Lead(c) \/ Find(c) \/ Work(c) \/ Abandon(c)
    \/ Clear

Spec == Init /\ [][Next]_vars

\* Worker threads keep running, and the database answers what it was asked:
\* a leader that is not abandoned notifies.
Fairness == \A c \in Calls : WF_vars(Work(c))

FairSpec == Spec /\ Fairness

-----------------------------------------------------------------------------
(* Safety *)

\* A result given to any call was computed for that call's own query text:
\* neither the map, a replaced flight nor a stale pointer ever crosses keys.
SameQueryResults ==
    \A c \in Calls : \A i \in DOMAIN got[c] : key[got[c][i]] = key[c]

\* Every flight that later callers can still join has a leader that has yet
\* to publish: nobody joins a flight that was already given up by its leader,
\* unless that leader's session died (doSingleFlight replaces ready flights).
OpenFlightIsLed ==
    \A k \in Keys : Joinable(k) =>
        LET f == flights_[k] IN
        \/ pc[f] \in {"leading", "abandoned"}
        \/ pc[f] = "notify" /\ found[f] = f

\* A ready flight stays in the map only while the thread that published it is
\* still on its way to flights_.erase.  So no answered flight is left behind,
\* and when doSingleFlight replaces a ready flight, dropping the map's and its
\* own pointer while it holds that flight's mutex, the publishing thread's
\* pointer keeps the Flight and its locked mutex alive.
ReadyFlightIsBeingErased ==
    \A k \in Keys : flights_[k] # NoFlight /\ ready[flights_[k]] =>
        \E c \in Calls : pc[c] = "calling" /\ found[c] = flights_[k]

\* The double check of ready under the flight's mutex loses no callback: one
\* that has not been called is registered with a flight that is not yet
\* ready, or is still in the copy some publishing thread works through.
NoLostRegistration ==
    \A w \in Calls : pc[w] = "waiter" /\ got[w] = <<>> =>
        \/ ~ready[found[w]] /\ IsIn(w, callbacks[found[w]])
        \/ \E c \in Calls : /\ pc[c] = "calling"
                            /\ found[c] = found[w]
                            /\ IsIn(w, todo[c])

\* Although notifyResult copies the callbacks and leaves them registered, one
\* publication never calls the same on_result twice.  A session is called
\* again only when another leader publishes the flight, which erase makes
\* possible; it would then start a second reply and a second read.
CalledOncePerPublisher ==
    \A w \in Calls : \A i, j \in DOMAIN got[w] : got[w][i] = got[w][j] => i = j

\* Until the first leader of a text has published its answer there is no
\* second one: where nobody calls clear, only an answer sends a text to the
\* database again.
OneLeaderUntilPublished ==
    \A c, d \in Calls :
        /\ {pc[c], pc[d]} \subseteq {"leading", "notify", "abandoned"}
        /\ key[c] = key[d]
        /\ c # d
        => \E e \in Calls : key[e] = key[c] /\ pc[e] \in {"calling", "done"}

-----------------------------------------------------------------------------
(* Liveness *)

\* Nobody is left to publish flight f: no thread holds it in notifyResult,
\* and it is no longer in the map or no leader of its key is left.
Orphaned(f) ==
    /\ pc[f] \in LeaderPc
    /\ ~ready[f]
    /\ \A c \in Calls : ~(pc[c] = "notify" /\ found[c] = f)
    /\ \/ flights_[key[f]] # f
       \/ \A c \in Calls : pc[c] = "leading" => key[c] # key[f]

\* Every waiter's on_result is called in the end, and the only ways to lose
\* it are the two the code has: the flight was erased from the map under its
\* waiters, or every leader that could publish it ended without notifying.
WaiterServedOrOrphaned ==
    \A w \in Calls :
        pc[w] = "waiter" ~> \/ got[w] # <<>>
                            \/ found[w] \in Calls /\ Orphaned(found[w])

\* README: "SingleFlight: Prevents N identical simultaneous queries".  Two
\* leaders never have the same query at the database at the same time.
OneLeaderPerKey ==
    \A c, d \in Calls :
        pc[c] = "leading" /\ pc[d] = "leading" /\ key[c] = key[d] => c = d
=============================================================================
