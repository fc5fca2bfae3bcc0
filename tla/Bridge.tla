------------------------------- MODULE Bridge -------------------------------
(***************************************************************************)
(* Sessions after the PostgreSQL startup: bridge_client_to_server and      *)
(* bridge_server_to_client of every Session, sharing one QueryCache.       *)
(*                                                                         *)
(* Each session has two chains of completion handlers.  A chain has at     *)
(* most one operation outstanding, or one handler that runs; its state:    *)
(*   c2s  "reading" the client, "looking" in doSingleFlight, "writing" to  *)
(*        the server, "waiting" for a flight's callback, "replying"        *)
(*        cached_response_, or "stopped";                                  *)
(*   s2c  "reading" the server, "publishing" in notifyFlightResult,        *)
(*        "writing" to the client, "written" (the client has the bytes,    *)
(*        the handler has not run), or "stopped".                          *)
(* Handlers are one action, but for the two that call the cache: they take *)
(* the steps of SingleFlight, an instance of which is the cache's map of   *)
(* flights, interleaved with every other handler.                          *)
(*                                                                         *)
(* The database (external) answers a message with 1..MaxChunks pieces, a   *)
(* piece being what one read_some returns.  A client (external) sends the  *)
(* messages of its script; each one is a call of SingleFlight, if it comes *)
(* to that, and the script is the calls' key.  It sends a message when the *)
(* previous one is answered, unless Pipelining.                            *)
(***************************************************************************)
EXTENDS Naturals, Sequences, SequencesExt

CONSTANTS
    Sessions,
    Texts,       \* SQL texts the clients send in 'Q' messages
    NoQuery,     \* the empty text; it may be in Texts
    OtherMsg,    \* any message that is not a simple query
    NoChunk,     \* std::nullopt, an empty buffer
    NoFlight,    \* a null shared_ptr<Flight>, no call
    MaxChunks,   \* pieces of the longest response
    MaxSends,    \* messages per client
    Pipelining,  \* do clients send without waiting for answers?
    Errors       \* the I/O errors that happen, of {"eof", "expected", "other"}

Messages == Texts \cup {OtherMsg}

\* The n-th message of the client of session s is call <<s, n>>.
Calls == Sessions \X (1 .. MaxSends)

ASSUME BridgeAssumption ==
    /\ NoFlight \notin Calls
    /\ OtherMsg \notin Texts
    /\ MaxChunks \in Nat \ {0}
    /\ MaxSends \in Nat
    /\ Pipelining \in BOOLEAN
    /\ Errors \subseteq {"eof", "expected", "other"}

Chunks == [msg : Messages, part : 1 .. MaxChunks, last : BOOLEAN]

VARIABLES
    c2s, s2c,                        \* the two handler chains
    is_destroying_, client_closed_, server_closed_,
    current_query_,                  \* the query this session leads, or NoQuery
    cached_response_,                \* being sent by c2s, or NoChunk
    server_buffer_,                  \* read and being sent by s2c, or NoChunk
    cache,                           \* response cached under each text
    flights_, ready, result, callbacks, key, pc, found, todo, got,
                                     \* SingleFlight
    publishing,                      \* the call s2c publishes for, or NoFlight
    published,                       \* the piece a call published
    toServer, fromServer,            \* bytes on the wire
    sends, taken,                    \* messages sent by the client, and read
    answered,                        \* messages answered in full
    nextPart,                        \* the piece each client expects next
    misled,                          \* a client was given a piece it did not expect
    again                            \* sessions whose on_result has run twice

SF == INSTANCE SingleFlight
        WITH Keys <- Messages, AllowAbandon <- FALSE, AllowClear <- FALSE

session == <<is_destroying_, client_closed_, server_closed_>>
buffers == <<cached_response_, server_buffer_>>
flight == <<flights_, ready, result, callbacks, key, pc, found, todo, got>>
notice == <<publishing, published>>
wires == <<toServer, fromServer>>
script == <<sends, taken>>
client == <<answered, nextPart, misled>>
vars == <<c2s, s2c, session, current_query_, buffers, cache, flight, notice, wires,
          script, client, again>>

\* The call of the message the handler of c2s works on.
Call(s) == <<s, taken[s]>>

\* Every variable has its type; a session that replies or forwards has
\* something to send, one that is in the cache has a query or a piece to be
\* there for, and what a flight hands out has been published.
TypeOK ==
    /\ SF!TypeOK
    /\ c2s \in [Sessions -> {"reading", "looking", "writing", "waiting", "replying",
                             "stopped"}]
    /\ s2c \in [Sessions -> {"reading", "publishing", "writing", "written", "stopped"}]
    /\ is_destroying_ \in [Sessions -> BOOLEAN]
    /\ client_closed_ \in [Sessions -> BOOLEAN]
    /\ server_closed_ \in [Sessions -> BOOLEAN]
    /\ current_query_ \in [Sessions -> Texts \cup {NoQuery}]
    /\ cached_response_ \in [Sessions -> Chunks \cup {NoChunk}]
    /\ server_buffer_ \in [Sessions -> Chunks \cup {NoChunk}]
    /\ cache \in [Texts -> Chunks \cup {NoChunk}]
    /\ publishing \in [Sessions -> Calls \cup {NoFlight}]
    /\ published \in [Calls -> Chunks \cup {NoChunk}]
    /\ toServer \in [Sessions -> Seq(Messages)]
    /\ fromServer \in [Sessions -> Seq(Chunks)]
    /\ sends \in [Sessions -> 0 .. MaxSends]
    /\ taken \in [Sessions -> 0 .. MaxSends]
    /\ answered \in [Sessions -> 0 .. MaxSends]
    /\ nextPart \in [Sessions -> 1 .. MaxChunks + 1]
    /\ misled \in [Sessions -> BOOLEAN]
    /\ again \in SUBSET Sessions
    /\ \A s \in Sessions :
           /\ c2s[s] = "looking" => taken[s] > 0 /\ key[Call(s)] \in Texts
           /\ c2s[s] = "replying" => cached_response_[s] \in Chunks
           /\ s2c[s] \in {"publishing", "writing"} => server_buffer_[s] \in Chunks
           /\ publishing[s] # NoFlight => s2c[s] = "publishing" /\ publishing[s][1] = s
    /\ \A c \in Calls : pc[c] \in {"notify", "calling"} => published[c] \in Chunks
    /\ \A f \in Calls : ready[f] => published[result[f]] \in Chunks

Init ==
    /\ SF!Init
    /\ c2s = [s \in Sessions |-> "reading"]
    /\ s2c = [s \in Sessions |-> "reading"]
    /\ is_destroying_ = [s \in Sessions |-> FALSE]
    /\ client_closed_ = [s \in Sessions |-> FALSE]
    /\ server_closed_ = [s \in Sessions |-> FALSE]
    /\ current_query_ = [s \in Sessions |-> NoQuery]
    /\ cached_response_ = [s \in Sessions |-> NoChunk]
    /\ server_buffer_ = [s \in Sessions |-> NoChunk]
    /\ cache = [q \in Texts |-> NoChunk]
    /\ publishing = [s \in Sessions |-> NoFlight]
    /\ published = [c \in Calls |-> NoChunk]
    /\ toServer = [s \in Sessions |-> <<>>]
    /\ fromServer = [s \in Sessions |-> <<>>]
    /\ sends = [s \in Sessions |-> 0]
    /\ taken = [s \in Sessions |-> 0]
    /\ answered = [s \in Sessions |-> 0]
    /\ nextPart = [s \in Sessions |-> 1]
    /\ misled = [s \in Sessions |-> FALSE]
    /\ again = {}

-----------------------------------------------------------------------------
(* The clients and the database (external) *)

ClientSend(s) ==
    /\ sends[s] < MaxSends
    /\ ~client_closed_[s] /\ ~is_destroying_[s]
    /\ Pipelining \/ answered[s] = sends[s]
    /\ sends' = [sends EXCEPT ![s] = @ + 1]
    /\ UNCHANGED <<c2s, s2c, session, current_query_, buffers, cache, flight, notice,
                   wires, taken, client, again>>

DbAnswer(s) ==
    /\ toServer[s] # <<>>
    /\ \E n \in 1 .. MaxChunks :
           fromServer' = [fromServer EXCEPT ![s] = @ \o
               [i \in 1 .. n |-> [msg |-> Head(toServer[s]), part |-> i, last |-> i = n]]]
    /\ toServer' = [toServer EXCEPT ![s] = Tail(@)]
    /\ UNCHANGED <<c2s, s2c, session, current_query_, buffers, cache, flight, notice,
                   script, client, again>>

\* The client of s is given piece x.
Deliver(s, x) ==
    LET fits == /\ answered[s] < sends[s]
                /\ x.msg = key[<<s, answered[s] + 1>>]
                /\ x.part = nextPart[s] IN
    /\ misled' = [misled EXCEPT ![s] = @ \/ ~fits]
    /\ nextPart' = [nextPart EXCEPT ![s] = IF fits /\ ~x.last THEN @ + 1 ELSE 1]
    /\ answered' = [answered EXCEPT ![s] = IF fits /\ x.last THEN @ + 1 ELSE @]

\* putL1 for a text outside Texts evicts q from the L1 cache.
Evict(q) ==
    /\ cache[q] # NoChunk
    /\ cache' = [cache EXCEPT ![q] = NoChunk]
    /\ UNCHANGED <<c2s, s2c, session, current_query_, buffers, flight, notice, wires,
                   script, client, again>>

-----------------------------------------------------------------------------
(* close() *)

\* The first caller sets is_destroying_; cleanup_sockets cancels what is
\* outstanding and closes both connections, and every later handler of the
\* session returns at once.  A handler of the other chain that is in the cache
\* at that time goes on, and a callback registered with a flight stays there.
Close(s) ==
    /\ is_destroying_' = [is_destroying_ EXCEPT ![s] = TRUE]
    /\ c2s' = [c2s EXCEPT ![s] = IF @ = "looking" THEN @ ELSE "stopped"]
    /\ s2c' = [s2c EXCEPT ![s] = IF @ = "publishing" THEN @ ELSE "stopped"]
    /\ toServer' = [toServer EXCEPT ![s] = <<>>]
    /\ fromServer' = [fromServer EXCEPT ![s] = <<>>]
    /\ cached_response_' = [cached_response_ EXCEPT ![s] = NoChunk]
    /\ server_buffer_' = [server_buffer_ EXCEPT ![s] =
                              IF s2c[s] = "publishing" THEN @ ELSE NoChunk]

-----------------------------------------------------------------------------
(* bridge_client_to_server *)

\* A read from the client completes with the next message, which is m.
Received(s, m) ==
    /\ c2s[s] = "reading"
    /\ taken[s] < sends[s] /\ key[<<s, taken[s] + 1>>] = m
    /\ taken' = [taken EXCEPT ![s] = @ + 1]
    /\ UNCHANGED <<sends, client>>

\* The last part of the read handler, for what goes to the database: nothing
\* is written, and nothing is read any more, once a connection is closed.
Forward(s, m) ==
    LET closed == server_closed_[s] \/ is_destroying_[s] IN
    /\ c2s' = [c2s EXCEPT ![s] = IF closed THEN "stopped" ELSE "writing"]
    /\ toServer' = IF closed THEN toServer ELSE [toServer EXCEPT ![s] = Append(@, m)]
    /\ UNCHANGED <<s2c, session, buffers, cache, notice, fromServer, again>>

ReadOther(s) ==
    /\ Received(s, OtherMsg)
    /\ Forward(s, OtherMsg)
    /\ UNCHANGED <<current_query_, flight>>

\* Replying with x to a query that is cached.
Hit(s, q, x) ==
    /\ Received(s, q)
    /\ cache[q] # NoChunk
    /\ cached_response_' = [cached_response_ EXCEPT ![s] = x]
    /\ c2s' = [c2s EXCEPT ![s] = "replying"]
    /\ UNCHANGED <<s2c, session, current_query_, server_buffer_, cache, flight, notice,
                   wires, again>>

\* (mutant) the callback sends cached_response_ without filling it
ReadHitNoCopy(s, q) == Hit(s, q, cached_response_[s])

\* CACHE_HIT: the callback runs inside doSingleFlight.
ReadHit(s, q) == Hit(s, q, cache[q])

\* A miss: the handler goes on to SingleFlight::doSingleFlight.
ReadMiss(s, q) ==
    /\ Received(s, q)
    /\ cache[q] = NoChunk
    /\ c2s' = [c2s EXCEPT ![s] = "looking"]
    /\ UNCHANGED <<s2c, session, current_query_, buffers, cache, flight, notice, wires,
                   again>>

\* IS_LEADER, leaving `query' in current_query_.
LeadWith(s, query) ==
    /\ c2s[s] = "looking" /\ SF!Lead(Call(s))
    /\ current_query_' = [current_query_ EXCEPT ![s] = query]
    /\ Forward(s, key[Call(s)])
    /\ UNCHANGED <<script, client>>

\* (mutant) the leader does not note which query it leads
ReadLeaderForgets(s) == LeadWith(s, current_query_[s])

ReadLeader(s) == LeadWith(s, key[Call(s)])

\* The handler has found a flight to join, ...
ReadFinds(s) ==
    /\ c2s[s] = "looking" /\ SF!Find(Call(s))
    /\ UNCHANGED <<c2s, s2c, session, current_query_, buffers, cache, notice, wires,
                   script, client, again>>

\* (mutant) a waiter's query is forwarded to the database as well
ReadWaiterFallsThrough(s) ==
    /\ c2s[s] = "looking" /\ SF!Join(Call(s))
    /\ Forward(s, key[Call(s)])
    /\ UNCHANGED <<current_query_, script, client>>

\* ... and is IS_WAITER.  Its callback has run if the flight has become ready;
\* otherwise no read is outstanding until it has.
ReadWaiter(s) ==
    LET f == found[Call(s)] IN
    /\ c2s[s] = "looking" /\ SF!Join(Call(s))
    /\ c2s' = [c2s EXCEPT ![s] = IF is_destroying_[s] THEN "stopped"
                                 ELSE IF ready[f] THEN "replying" ELSE "waiting"]
    /\ cached_response_' = [cached_response_ EXCEPT ![s] =
           IF ready[f] /\ ~is_destroying_[s] THEN published[result[f]] ELSE @]
    /\ UNCHANGED <<s2c, session, current_query_, server_buffer_, cache, notice, wires,
                   script, client, again>>

\* The write to the server completes: read the client again.
C2SWritten(s) ==
    /\ c2s[s] = "writing"
    /\ c2s' = [c2s EXCEPT ![s] = "reading"]
    /\ UNCHANGED <<s2c, session, current_query_, buffers, cache, flight, notice, wires,
                   script, client, again>>

\* The write of cached_response_ completes: read the client again.
ReplySent(s) ==
    /\ c2s[s] = "replying"
    /\ Deliver(s, cached_response_[s])
    /\ cached_response_' = [cached_response_ EXCEPT ![s] = NoChunk]
    /\ c2s' = [c2s EXCEPT ![s] = "reading"]
    /\ UNCHANGED <<s2c, session, current_query_, server_buffer_, cache, flight, notice,
                   wires, script, again>>

\* That write fails, whatever the error: a warning, and the chain ends.
ReplyFailed(s) ==
    /\ c2s[s] = "replying"
    /\ Errors # {}
    /\ c2s' = [c2s EXCEPT ![s] = "stopped"]
    /\ UNCHANGED <<s2c, session, current_query_, buffers, cache, flight, notice, wires,
                   script, client, again>>

-----------------------------------------------------------------------------
(* bridge_server_to_client *)

\* A read from the server completes, and the handler goes on to `next'.
S2CRead(s, next) ==
    /\ s2c[s] = "reading"
    /\ fromServer[s] # <<>>
    /\ s2c' = [s2c EXCEPT ![s] = next]
    /\ server_buffer_' = [server_buffer_ EXCEPT ![s] = Head(fromServer[s])]
    /\ fromServer' = [fromServer EXCEPT ![s] = Tail(@)]
    /\ UNCHANGED <<c2s, session, current_query_, cached_response_, flight, notice,
                   toServer, script, client, again>>

\* (mutant) the response is cached but the flight is not notified
S2CReadResultCacheOnly(s) ==
    /\ current_query_[s] # NoQuery
    /\ S2CRead(s, IF client_closed_[s] THEN "stopped" ELSE "writing")
    /\ cache' = [cache EXCEPT ![current_query_[s]] = Head(fromServer[s])]

\* The session leads a query: notifyFlightResult puts the piece in the cache,
S2CReadResult(s) ==
    /\ current_query_[s] # NoQuery
    /\ S2CRead(s, "publishing")
    /\ cache' = [cache EXCEPT ![current_query_[s]] = Head(fromServer[s])]

\* It leads none: the piece is only forwarded.
S2CReadMore(s) ==
    /\ current_query_[s] = NoQuery
    /\ S2CRead(s, IF client_closed_[s] THEN "stopped" ELSE "writing")
    /\ UNCHANGED cache

during == <<c2s, s2c, session, current_query_, server_buffer_, cache, wires, script, client>>

\* calls notifyResult for the text that is in current_query_ by then,
S2CNotify(s) ==
    /\ s2c[s] = "publishing" /\ publishing[s] = NoFlight
    /\ \E c \in Calls :
           /\ c[1] = s /\ key[c] = current_query_[s]
           /\ SF!NotifyFind(c) \/ SF!NotifyNone(c)
           /\ publishing' = [publishing EXCEPT ![s] = c]
           /\ published' = [published EXCEPT ![c] = server_buffer_[s]]
    /\ UNCHANGED <<during, cached_response_, again>>

\* which goes through its sections,
S2CPublish(s) ==
    /\ publishing[s] # NoFlight
    /\ SF!NotifyMark(publishing[s]) \/ SF!NotifyErase(publishing[s])
    /\ UNCHANGED <<during, cached_response_, notice, again>>

\* (mutant) the callback sends cached_response_ without filling it
S2CCallbackNoCopy(s) ==
    LET w == Head(todo[publishing[s]])[1] IN
    /\ publishing[s] # NoFlight /\ SF!NotifyCallback(publishing[s])
    /\ c2s' = [c2s EXCEPT ![w] = IF is_destroying_[w] THEN @ ELSE "replying"]
    /\ UNCHANGED <<s2c, session, current_query_, buffers, cache, wires, script, client,
                   notice, again>>

\* and calls the waiters' on_result: a session that is not being destroyed
\* starts sending the piece.  Its handler may do so a second time.
S2CCallback(s) ==
    LET c == publishing[s]
        w == Head(todo[c])
        r == w[1]
        first == got[w] = <<>> IN
    /\ c # NoFlight /\ SF!NotifyCallback(c)
    /\ cached_response_' = IF is_destroying_[r] THEN cached_response_
                           ELSE [cached_response_ EXCEPT ![r] = published[c]]
    /\ c2s' = IF is_destroying_[r] \/ ~first THEN c2s ELSE [c2s EXCEPT ![r] = "replying"]
    /\ again' = IF is_destroying_[r] \/ first THEN again ELSE again \cup {r}
    /\ UNCHANGED <<s2c, session, current_query_, server_buffer_, cache, notice, wires,
                   script, client>>

\* The handler is back from the cache, leaving `query' in current_query_.
Notified(s, query) ==
    /\ publishing[s] # NoFlight /\ pc[publishing[s]] = "done"
    /\ publishing' = [publishing EXCEPT ![s] = NoFlight]
    /\ current_query_' = [current_query_ EXCEPT ![s] = query]
    /\ s2c' = [s2c EXCEPT ![s] = IF client_closed_[s] \/ is_destroying_[s]
                                 THEN "stopped" ELSE "writing"]
    /\ UNCHANGED <<c2s, session, buffers, cache, flight, published, wires, script, client,
                   again>>

\* (mutant) current_query_ is not cleared
S2CNotifiedKeepsQuery(s) == Notified(s, current_query_[s])

S2CNotified(s) == Notified(s, NoQuery)

\* The bytes reach the client, which may go on before the handler runs ...
S2CDelivered(s) ==
    /\ s2c[s] = "writing"
    /\ Deliver(s, server_buffer_[s])
    /\ server_buffer_' = [server_buffer_ EXCEPT ![s] = NoChunk]
    /\ s2c' = [s2c EXCEPT ![s] = "written"]
    /\ UNCHANGED <<c2s, session, current_query_, cached_response_, cache, flight, notice,
                   wires, script, again>>

\* ... and the handler of the write reads the server again.
S2CWritten(s) ==
    /\ s2c[s] = "written"
    /\ s2c' = [s2c EXCEPT ![s] = IF server_closed_[s] THEN "stopped" ELSE "reading"]
    /\ UNCHANGED <<c2s, session, current_query_, buffers, cache, flight, notice, wires,
                   script, client, again>>

-----------------------------------------------------------------------------
(* Errors of the four operations.  is_expected_ssl_error ends a chain        *)
(* silently, end of file is remembered, and anything else closes the session *)

C2SReadEof(s) ==
    /\ c2s[s] = "reading" /\ taken[s] = sends[s]
    /\ "eof" \in Errors
    /\ client_closed_' = [client_closed_ EXCEPT ![s] = TRUE]
    /\ IF server_closed_[s]
       THEN Close(s)
       ELSE /\ c2s' = [c2s EXCEPT ![s] = "stopped"]
            /\ UNCHANGED <<s2c, is_destroying_, wires, buffers>>
    /\ UNCHANGED <<server_closed_, current_query_, cache, flight, notice, script, client,
                   again>>

S2CReadEof(s) ==
    /\ s2c[s] = "reading" /\ fromServer[s] = <<>>
    /\ "eof" \in Errors
    /\ server_closed_' = [server_closed_ EXCEPT ![s] = TRUE]
    /\ IF client_closed_[s]
       THEN Close(s)
       ELSE /\ s2c' = [s2c EXCEPT ![s] = "stopped"]
            /\ UNCHANGED <<c2s, is_destroying_, wires, buffers>>
    /\ UNCHANGED <<client_closed_, current_query_, cache, flight, notice, script, client,
                   again>>

\* An expected TLS error on a read or a write of either chain.  A message that
\* could not be written may never reach the database.
C2SExpectedError(s) ==
    /\ "expected" \in Errors
    /\ c2s[s] \in {"reading", "writing"}
    /\ c2s' = [c2s EXCEPT ![s] = "stopped"]
    /\ \/ UNCHANGED toServer
       \/ /\ c2s[s] = "writing" /\ toServer[s] # <<>>
          /\ toServer' = [toServer EXCEPT ![s] = Front(@)]
    /\ UNCHANGED <<s2c, session, current_query_, buffers, cache, flight, notice,
                   fromServer, script, client, again>>

S2CExpectedError(s) ==
    /\ "expected" \in Errors
    /\ s2c[s] \in {"reading", "writing"}
    /\ s2c' = [s2c EXCEPT ![s] = "stopped"]
    /\ UNCHANGED <<c2s, session, current_query_, buffers, cache, flight, notice, wires,
                   script, client, again>>

\* Any other error on a read or a write of either chain.
OtherError(s) ==
    /\ "other" \in Errors
    /\ c2s[s] \in {"reading", "writing"} \/ s2c[s] \in {"reading", "writing"}
    /\ Close(s)
    /\ UNCHANGED <<client_closed_, server_closed_, current_query_, cache, flight, notice,
                   script, client, again>>

-----------------------------------------------------------------------------

\* The steps of the handlers of server reads and client writes, and those that
\* the handler of a client read takes in doSingleFlight.
Look(s) == ReadLeader(s) \/ ReadFinds(s) \/ ReadWaiter(s)

ServerChain(s) ==
    \/ S2CReadResult(s) \/ S2CReadMore(s)
    \/ S2CNotify(s) \/ S2CPublish(s) \/ S2CCallback(s) \/ S2CNotified(s)
    \/ S2CWritten(s)

\* Handlers whose operation has completed, and the database's answers.
Work(s) ==
    \/ DbAnswer(s)
    \/ ReadOther(s)
    \/ \E q \in Texts : ReadHit(s, q) \/ ReadMiss(s, q)
    \/ Look(s)
    \/ C2SWritten(s)
    \/ ReplySent(s)
    \/ ServerChain(s)
    \/ S2CDelivered(s)

Fail(s) ==
    \/ ReplyFailed(s)
    \/ C2SReadEof(s)
    \/ S2CReadEof(s)
    \/ C2SExpectedError(s)
    \/ S2CExpectedError(s)
    \/ OtherError(s)

\* A second run of on_result writes to the client whatever else the session is
\* doing.  asio leaves two writes, or the two reads that follow, undefined: a
\* behaviour is followed up to the bytes of the second reply, and ends there.
SecondReply(s) ==
    /\ cached_response_[s] # NoChunk
    /\ Deliver(s, cached_response_[s])
    /\ cached_response_' = [cached_response_ EXCEPT ![s] = NoChunk]
    /\ c2s' = [c2s EXCEPT ![s] = "stopped"]
    /\ UNCHANGED <<s2c, session, current_query_, server_buffer_, cache, flight, notice,
                   wires, script, again>>

Next ==
    \/ /\ again = {}
       /\ \/ \E s \in Sessions : ClientSend(s) \/ Work(s) \/ Fail(s)
          \/ \E q \in Texts : Evict(q)
    \/ \E s \in again : SecondReply(s)

Spec == Init /\ [][Next]_vars

\* The database answers, and the io_context runs the handlers of server reads
\* and client writes that have completed, and those that are in the cache.
\* Nothing is assumed of the clients.
Fairness == \A s \in Sessions : WF_vars(DbAnswer(s)) /\ WF_vars(ServerChain(s))

FairSpec == Spec /\ Fairness

-----------------------------------------------------------------------------
(* Properties for clients that wait for their answers *)

\* README: "Transparency: Clients require no modifications".  What a client is
\* given, by its own database connection, by the cache or by another session's
\* leader, is always the next piece of the answer to the message it sent.
NoClientMisled == \A s \in Sessions : ~misled[s]

\* As long as no on_result has run twice no client is misled, whatever fails,
\* and however flights are replaced, erased under their waiters or published by
\* another session's leader.
OnlyTwiceCalledMisleads == again = {} => NoClientMisled

\* Nor do the two chains ever have bytes for the client to send at the same
\* time, although no strand orders them: interleaved async_writes would mix the
\* bytes of two responses on the client's connection.
NoInterleavedWrites ==
    again = {} => \A s \in Sessions : ~(c2s[s] = "replying" /\ s2c[s] = "writing")

\* What is cached under a text, and what a flight of that text hands out, is the
\* first piece of the answer to that text, whichever session wrote it and
\* whatever its database connection still had to deliver.
CacheAttribution ==
    /\ \A q \in Texts : cache[q] # NoChunk => cache[q].msg = q /\ cache[q].part = 1
    /\ \A f \in Calls : ready[f] => /\ published[result[f]].msg = key[f]
                                    /\ published[result[f]].part = 1

\* A leader that has yet to publish still has the query in current_query_, so
\* the next piece from its database is attributed to it; the empty text is the
\* exception, which current_query_ cannot represent.
LeaderRemembersQuery ==
    \A c \in Calls : pc[c] = "leading" /\ key[c] # NoQuery => current_query_[c[1]] = key[c]

\* Leader d will read no answer: its session was closed or its server chain has
\* ended, the write of its query failed, or the text is empty and no answer is
\* attributed to it.
LeaderLost(d) ==
    LET s == d[1] IN
    \/ key[d] = NoQuery
    \/ s2c[s] = "stopped"
    \/ /\ c2s[s] = "stopped" /\ s2c[s] # "publishing"
       /\ toServer[s] = <<>> /\ fromServer[s] = <<>>

\* Nobody is left to publish flight f: no thread holds it in notifyResult, and
\* it has been erased from the map, or every leader of its text is lost.
FlightLost(f) ==
    /\ ~ready[f]
    /\ \A c \in Calls : ~(pc[c] = "notify" /\ found[c] = f)
    /\ \/ flights_[key[f]] # f
       \/ \A d \in Calls : pc[d] = "leading" /\ key[d] = key[f] => LeaderLost(d)

\* A session that waits for a flight is called back, unless the flight was
\* erased under it or all leaders of the text are lost: whatever else fails, and
\* whatever the clients of other sessions do, it is not held up.
WaitingEnds ==
    \A w \in Calls :
        pc[w] = "waiter" ~>
            (got[w] # <<>> \/ (found[w] \in Calls /\ FlightLost(found[w])) \/ again # {})

\* README: "All receive the same result when ready".  A session sends a
\* waiter, or a client that hits the cache, a whole response.
RepliesAreWhole ==
    \A s \in Sessions : c2s[s] = "replying" => cached_response_[s].last
=============================================================================
