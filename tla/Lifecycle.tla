----------------------------- MODULE Lifecycle -----------------------------
(***************************************************************************)
(* main from the configuration file to its exit: Config, the ProxyServer   *)
(* it constructs, the worker threads that run the io_context, exceptions   *)
(* that leave a handler, and the signal handler, which interrupts whatever *)
(* thread the signal is delivered to.                                      *)
(*                                                                         *)
(* Completion handlers are abstract here (Bridge and Startup have them),   *)
(* but for the accept handler.  Threads log through spdlog, whose sink has *)
(* one mutex that is not recursive; the signal handler logs too (at the    *)
(* default level, info).  A signal is taken not to be delivered to a       *)
(* thread that is inside signal_handler already.                           *)
(***************************************************************************)
EXTENDS Integers, FiniteSets, Sequences

CONSTANTS
    Workers,         \* threads that can be created
    Main,            \* the main thread
    Nobody,          \* nobody holds the sink's mutex
    Ports,           \* port numbers that occur in the file
    DefaultThreads,  \* the initializers of num_threads_, and of
    DefaultPort,     \* listen_port_ and db_port_
    Absent, Bad,     \* a setting that is not in the file, or cannot be converted
    MaxSignals       \* SIGINTs and SIGTERMs

\* The limits of unsigned short and of short.
PortMax == 2^16 - 1
ShortMax == 2^15 - 1
ShortMin == -(2^15)

ASSUME LifecycleAssumption ==
    /\ Main \notin Workers
    /\ Nobody \notin Workers \cup {Main}
    /\ Ports \subseteq 0 .. PortMax /\ DefaultPort \in 0 .. PortMax
    /\ IsFiniteSet(Workers) /\ DefaultThreads \in 0 .. Cardinality(Workers)
    /\ Absent \notin Int /\ Bad \notin Int /\ Absent # Bad
    /\ MaxSignals \in Nat

Threads == Workers \cup {Main}

\* The settings in the order of parseYaml; "other" is any of those after
\* database.port.
Order == <<"listen_port", "num_threads", "db_port", "other">>
Fields == {Order[i] : i \in DOMAIN Order}

Given(f) == IF f = "num_threads" THEN 0 .. Cardinality(Workers)
            ELSE IF f = "other" THEN {0} ELSE Ports

VARIABLES
    file,           \* what the configuration file says
    conf, valid_,   \* Config
    main,           \* where main is
    listening,      \* port of the acceptor's endpoint
    service,        \* the port number Session prints for the resolver
    worker,         \* what each worker thread does
    accepting_, acceptPending,
    stopped,        \* io_context::stop was called
    globals,        \* g_io_context, g_work_guard and g_server are set
    acceptThrew,    \* history: an exception has left the accept handler
    sink,           \* holder of the log sink's mutex
    handler,        \* where each thread is in signal_handler, or "none"
    signals

config == <<file, conf, valid_>>
ports == <<listening, service>>
server == <<accepting_, acceptPending>>
process == <<globals, sink, handler, signals>>
vars == <<config, main, ports, worker, server, stopped, acceptThrew, process>>

Ended == {"exited", "failed", "terminated"}  \* return 0, return 1, std::terminate
Gone == {"none", "returned", "threw"}        \* worker threads that do not run

\* Every variable has its type; a thread that holds the sink is logging.
TypeOK ==
    /\ \A f \in Fields : file[f] \in Given(f) \cup {Absent, Bad} /\ conf[f] \in Int
    /\ valid_ \in BOOLEAN
    /\ main \in {"load", "bind", "install", "spawn", "announce", "join", "stop",
                 "stopping", "destroying"} \cup Ended
    /\ listening \in -1 .. PortMax /\ service \in ShortMin .. ShortMax
    /\ worker \in [Workers -> {"idle", "accepting", "handling", "logging", "closing",
                            "catching", "reporting"} \cup Gone]
    /\ accepting_ \in BOOLEAN /\ acceptPending \in BOOLEAN
    /\ stopped \in BOOLEAN /\ acceptThrew \in BOOLEAN /\ globals \in BOOLEAN
    /\ sink \in Threads \cup {Nobody}
    /\ handler \in [Threads -> {"none", "log", "shutdown", "report", "stop"}]
    /\ signals \in 0 .. MaxSignals
    /\ \A t \in Workers : sink = t <=> worker[t] \in {"logging", "reporting"}

Defaults == [f \in Fields |-> IF f = "num_threads" THEN DefaultThreads
                              ELSE IF f = "other" THEN 0 ELSE DefaultPort]

\* A file that is missing sets nothing, and is no error.
Init ==
    /\ file \in [Fields -> UNION {Given(f) : f \in Fields} \cup {Absent, Bad}]
    /\ \A f \in Fields : file[f] \in Given(f) \cup {Absent, Bad}
    /\ conf = Defaults /\ valid_ = TRUE
    /\ main = "load"
    /\ listening = -1 /\ service = -1
    /\ worker = [t \in Workers |-> "none"]
    /\ accepting_ = FALSE /\ acceptPending = FALSE /\ stopped = FALSE
    /\ acceptThrew = FALSE /\ globals = FALSE /\ sink = Nobody
    /\ handler = [t \in Threads |-> "none"] /\ signals = 0

-----------------------------------------------------------------------------
(* Config *)

\* parseYaml assigns setting after setting until one cannot be converted.
Reached(f) == \E i \in DOMAIN Order : /\ Order[i] = f
                                      /\ \A j \in 1 .. i : file[Order[j]] # Bad

Parsed == [f \in Fields |-> IF Reached(f) /\ file[f] # Absent THEN file[f] ELSE conf[f]]

Load(next) ==
    /\ main = "load" /\ main' = next
    /\ conf' = Parsed
    /\ valid_' = (\A f \in Fields : file[f] # Bad)
    /\ UNCHANGED <<file, ports, worker, server, stopped, acceptThrew, process>>

\* (mutant) goes on with what was read
LoadFromFileIgnores == Load("bind")

\* main returns 1 when loadFromFile has failed.
LoadFromFile == Load(IF \A f \in Fields : file[f] # Bad THEN "bind" ELSE "failed")

\* The text is not YAML at all.
LoadUnparsable ==
    /\ main = "load"
    /\ valid_' = FALSE /\ main' = "failed"
    /\ UNCHANGED <<file, conf, ports, worker, server, stopped, acceptThrew, process>>

-----------------------------------------------------------------------------
(* main up to the join *)

\* (mutant) drops the highest bit
ToShortMasked(p) == p % (ShortMax + 1)

\* unsigned short to short, and short to the unsigned short of an endpoint.
ToShort(p) == IF p <= ShortMax THEN p ELSE p - (PortMax + 1)
ToPort(n) == n % (PortMax + 1)

\* The ProxyServer is constructed, and accepts; its sessions print db_port_.
Bind ==
    /\ main = "bind" /\ main' = "install"
    /\ listening' = ToPort(ToShort(conf["listen_port"]))
    /\ service' = ToShort(conf["db_port"])
    /\ accepting_' = TRUE /\ acceptPending' = TRUE
    /\ UNCHANGED <<config, worker, stopped, acceptThrew, process>>

\* A bad address, or a port in use: the exception ends in main's catch.
BindFails ==
    /\ main = "bind" /\ main' = "failed"
    /\ UNCHANGED <<config, ports, worker, server, stopped, acceptThrew, process>>

\* The work guard, the globals, and std::signal.
Install ==
    /\ main = "install" /\ main' = "spawn"
    /\ globals' = TRUE
    /\ UNCHANGED <<config, ports, worker, server, stopped, acceptThrew, sink, handler,
                   signals>>

Spawned == {t \in Workers : worker[t] # "none"}

\* main goes on, unless it is inside signal_handler.
MainGo(from, to) == main = from /\ main' = to /\ handler[Main] = "none"
quiet == <<config, ports, worker, stopped, acceptThrew, handler, signals>>

Spawn(t) ==
    /\ MainGo("spawn", "spawn")
    /\ Cardinality(Spawned) < conf["num_threads"]
    /\ worker[t] = "none"
    /\ worker' = [worker EXCEPT ![t] = "idle"]
    /\ UNCHANGED <<config, ports, server, stopped, acceptThrew, process>>

SpawnThrows(next) ==
    /\ MainGo("spawn", next)
    /\ Cardinality(Spawned) < conf["num_threads"]
    /\ UNCHANGED <<quiet, server, globals, sink>>

\* (mutant) the exception is returned whatever was started
SpawnFailsQuietly == SpawnThrows("failed")

\* The system has no thread left.  Unwinding destroys worker_threads, and the
\* destructor of a joinable std::thread terminates the process.
SpawnFails == SpawnThrows(IF Spawned = {} THEN "failed" ELSE "terminated")

\* "All {} worker threads started": main logs, ...
Announce ==
    /\ MainGo("spawn", "announce")
    /\ Cardinality(Spawned) = conf["num_threads"]
    /\ sink = Nobody /\ sink' = Main
    /\ UNCHANGED <<quiet, server, globals>>

Announced ==
    /\ MainGo("announce", "join")
    /\ sink' = Nobody
    /\ UNCHANGED <<quiet, server, globals>>

\* ... joins all of them, ...
Join ==
    /\ MainGo("join", "stop")
    /\ \A t \in Workers : worker[t] \in Gone
    /\ UNCHANGED <<quiet, server, globals, sink>>

\* ... calls shutdown, which logs, ...
Stop ==
    /\ MainGo("stop", "stopping")
    /\ sink = Nobody /\ sink' = Main
    /\ accepting_' = FALSE
    /\ UNCHANGED <<quiet, acceptPending, globals>>

\* ... clears the globals, destroys the io_context with the sessions that are
\* left, and returns 0.  ~Session waits for its TLS peers, if it has any.
Exit ==
    /\ MainGo("stopping", "exited") \/ MainGo("stopping", "destroying")
    /\ sink' = Nobody /\ globals' = FALSE
    /\ UNCHANGED <<quiet, server>>

Destroyed ==
    /\ MainGo("destroying", "exited")
    /\ UNCHANGED <<quiet, server, globals, sink>>

-----------------------------------------------------------------------------
(* Worker threads: io_context::run *)

\* A thread of a live process goes on, unless it is inside signal_handler.
Free(t) == handler[t] = "none" /\ main \notin Ended

Work(t, from, to) ==
    /\ Free(t)
    /\ worker[t] = from
    /\ worker' = [worker EXCEPT ![t] = to]
    /\ UNCHANGED <<config, main, ports, accepting_, stopped, globals, handler, signals>>

\* A step that touches nothing else.
Pass(t, from, to) == Work(t, from, to) /\ UNCHANGED <<acceptPending, acceptThrew, sink>>

\* Logging takes the sink's mutex, and gives it back.
Log(t, from, to) ==
    /\ Work(t, from, to)
    /\ sink = Nobody /\ sink' = t
    /\ UNCHANGED <<acceptPending, acceptThrew>>

Logged(t, from, to) ==
    /\ Work(t, from, to)
    /\ sink' = Nobody
    /\ UNCHANGED <<acceptPending, acceptThrew>>

\* The accept completes; the handler starts a session if the proxy still
\* accepts, ...
AcceptBegin(t) ==
    /\ Work(t, "idle", IF accepting_ THEN "accepting" ELSE "idle")
    /\ ~stopped
    /\ acceptPending /\ acceptPending' = FALSE
    /\ UNCHANGED <<acceptThrew, sink>>

\* (mutant) accepts one connection
AcceptEndOnce(t) == Pass(t, "accepting", "idle")

\* ... and accepts the next connection, ...
AcceptEnd(t) ==
    /\ Work(t, "accepting", "idle")
    /\ acceptPending' = accepting_
    /\ UNCHANGED <<acceptThrew, sink>>

\* ... unless constructing the session throws (no memory, no TLS context): the
\* exception leaves run, and nobody accepts again.
AcceptThrows(t) ==
    /\ Work(t, "accepting", "catching")
    /\ acceptThrew' = TRUE
    /\ UNCHANGED <<acceptPending, sink>>

\* A handler of some session, which may log, and may throw.
HandlerBegin(t) == ~stopped /\ Pass(t, "idle", "handling")

HandlerLogs(t) == Log(t, "handling", "logging")

\* (mutant) the mutex is not released
HandlerEndKeepsSink(t) == Pass(t, "logging", "idle") \/ Pass(t, "handling", "idle")

HandlerEnd(t) == Logged(t, "logging", "idle") \/ Pass(t, "handling", "idle")

HandlerThrows(t) == Pass(t, "handling", "catching")

\* The exception has left run: the thread logs it in its catch, and ends.
Catch(t) == Log(t, "catching", "reporting")

Caught(t) == Logged(t, "reporting", "threw")

\* It may call close(), whose TLS shutdown blocks the thread until the peer
\* has answered or its connection is gone.
HandlerCloses(t) == Pass(t, "handling", "closing")

Closed(t) == Pass(t, "closing", "idle")

\* (mutant) no work guard: run returns as soon as there is nothing to do
ReturnWithoutGuard(t) == Pass(t, "idle", "returned")

Return(t) == stopped /\ Pass(t, "idle", "returned")

-----------------------------------------------------------------------------
(* signal_handler *)

Alive(t) == IF t = Main THEN main \notin Ended ELSE worker[t] \notin Gone

\* A signal interrupts thread t, whatever it holds.
Interrupt(t) ==
    /\ globals /\ Free(t) /\ Alive(t)
    /\ signals < MaxSignals
    /\ signals' = signals + 1
    /\ handler' = [handler EXCEPT ![t] = "log"]
    /\ UNCHANGED <<config, main, ports, worker, server, stopped, acceptThrew, globals, sink>>

\* The thread goes from one step of the handler to the next.
Handle(t, from, to) ==
    /\ handler[t] = from /\ main \notin Ended
    /\ handler' = [handler EXCEPT ![t] = to]
    /\ UNCHANGED <<config, main, ports, worker, acceptPending, acceptThrew, globals, sink,
                   signals>>

\* "Received signal": the handler logs, for which it needs the sink's mutex, ...
HandleLog(t) ==
    /\ Handle(t, "log", "shutdown")
    /\ sink = Nobody
    /\ UNCHANGED <<accepting_, stopped>>

\* ... calls ProxyServer::shutdown, which closes the acceptor ...
HandleShutdown(t) ==
    /\ Handle(t, "shutdown", "report")
    /\ accepting_' = FALSE
    /\ UNCHANGED stopped

\* ... and logs in its turn, ...
HandleReport(t) ==
    /\ Handle(t, "report", "stop")
    /\ sink = Nobody
    /\ UNCHANGED <<accepting_, stopped>>

\* (mutant) the guard is reset, and the io_context runs on
HandleStopGuardOnly(t) == Handle(t, "stop", "none") /\ UNCHANGED <<accepting_, stopped>>

\* ... resets the guard, and stops the io_context.
HandleStop(t) ==
    /\ Handle(t, "stop", "none")
    /\ stopped' = TRUE
    /\ UNCHANGED accepting_

HandleSignal(t) == HandleLog(t) \/ HandleShutdown(t) \/ HandleReport(t) \/ HandleStop(t)

-----------------------------------------------------------------------------

MainStep ==
    \/ LoadFromFile \/ LoadUnparsable
    \/ Bind \/ BindFails \/ Install
    \/ (\E t \in Workers : Spawn(t)) \/ SpawnFails \/ Announce \/ Announced
    \/ Join \/ Stop \/ Exit

WorkerStep(t) ==
    \/ AcceptBegin(t) \/ AcceptEnd(t) \/ AcceptThrows(t)
    \/ HandlerBegin(t) \/ HandlerLogs(t) \/ HandlerEnd(t) \/ HandlerCloses(t)
    \/ HandlerThrows(t) \/ Catch(t) \/ Caught(t)
    \/ Return(t)

\* TLS peers, which need not answer.
PeerStep == Destroyed \/ \E t \in Workers : Closed(t)

Next ==
    \/ MainStep \/ PeerStep
    \/ \E t \in Workers : WorkerStep(t)
    \/ \E t \in Threads : Interrupt(t) \/ HandleSignal(t)

Spec == Init /\ [][Next]_vars

\* Threads go on unless a TLS peer keeps them, and the one inside signal_handler
\* gets the sink's mutex if it is free again and again.
Fairness ==
    /\ WF_vars(MainStep)
    /\ \A t \in Workers : WF_vars(WorkerStep(t))
    /\ \A t \in Threads : SF_vars(HandleSignal(t))

FairSpec == Spec /\ Fairness

-----------------------------------------------------------------------------
(* Properties *)

\* The proxy never runs with part of a file: parseYaml keeps what it assigned
\* before the setting it could not convert, but main does not go on with it.
WholeConfigOrNone ==
    main \notin {"load", "failed"} =>
        \A f \in Fields : conf[f] = IF file[f] = Absent THEN Defaults[f] ELSE file[f]

\* What becomes of the ports on their way through a short.  The one the proxy
\* listens on comes back whole, for every configured value.  The database's is
\* printed for the resolver as it is: it is the configured one exactly when that
\* is below 32768, and a negative number otherwise.
PortsAsUsed ==
    main \notin {"load", "bind", "failed"} =>
        /\ listening = conf["listen_port"]
        /\ service = conf["db_port"] <=> conf["db_port"] <= ShortMax
        /\ service < 0 <=> conf["db_port"] > ShortMax

\* The proxy serves with all of its file or with nothing, and listens where the
\* file says; a database port above 32767 is lost.
ConfigTakesEffect == WholeConfigOrNone /\ PortsAsUsed

\* The io_context, the server and the globals are never destroyed under a
\* running worker thread: main returns only when all of them are gone, also
\* when it returns because of an exception.
NoWorkerOutlivesMain ==
    main \in {"destroying", "exited", "failed"} => \A t \in Workers : worker[t] \in Gone

\* main returns 0 for one of three reasons: a signal, no thread configured, or
\* exceptions that ended every thread one by one.
ExitHasAReason ==
    main \in {"destroying", "exited"} =>
        \/ signals > 0
        \/ conf["num_threads"] = 0
        \/ \A t \in Spawned : worker[t] = "threw"

\* main ends last, and for a reason.
EndsInOrder == NoWorkerOutlivesMain /\ ExitHasAReason

\* A proxy that should accept connections and has no accept outstanding has
\* lost it to an exception in the accept handler, and to nothing else: no
\* other handler's exception, and no interruption, takes the accept with it.
DeafOnlyAfterException ==
    accepting_ /\ ~acceptPending => acceptThrew \/ \E t \in Workers : worker[t] = "accepting"

\* A thread waits in signal_handler for the mutex it holds itself.
HandlerStuck == \E t \in Threads : handler[t] \in {"log", "report"} /\ sink = t

\* A TLS peer that does not answer close_notify keeps a thread.
KeptByPeer == main = "destroying" \/ \E t \in Workers : worker[t] = "closing"

\* After the first signal the process ends, whatever the threads were doing,
\* with two exceptions: the signal interrupted a thread that was logging
\* (signal_handler logs, and waits for the mutex its own thread holds), or a
\* TLS peer is silent, in a worker's close() or in main's last destructors.
SignalEndsProcess ==
    signals > 0 ~> (main \in Ended \/ HandlerStuck \/ KeptByPeer)
=============================================================================
