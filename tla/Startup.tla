------------------------------- MODULE Startup -------------------------------
(***************************************************************************)
(* ProxyServer's accept loop, and a Session from start() until it bridges: *)
(* connecting to the database, the client's SSLRequest, the two TLS        *)
(* handshakes, the startup packet.  A session has one chain of handlers;   *)
(* its step is the operation that is outstanding:                          *)
(*   resolving, connecting         connect_to_database                     *)
(*   startup                       read_client_startup                     *)
(*   sslRequest, sslReply          check_server_ssl_support                *)
(*   sendN                         handle_ssl_request                      *)
(*   sendS, clientTls, serverTls   perform_ssl_handshake                   *)
(*   startupTls, relayTls          read_client_startup_after_ssl           *)
(*   relay                         relay_to_server                         *)
(* "bridging": both bridge functions run; "closed": close() ran; "ended":  *)
(* the chain stopped silently, so the last shared_ptr is gone and          *)
(* ~Session closes the sockets.                                            *)
(*                                                                         *)
(* The reconnection in check_server_ssl_support is left out: the socket it *)
(* finds closed can only have been closed by close(), after which the      *)
(* function returns before it looks.                                       *)
(***************************************************************************)
EXTENDS Naturals, Sequences

CONSTANTS
    Sessions,      \* connections that clients open
    AllowErrors    \* may operations fail?

ASSUME StartupAssumption == AllowErrors \in BOOLEAN

Packets == {"SSLRequest", "StartupMessage"}

VARIABLES
    accepting_,
    acceptPending,   \* an async_accept is outstanding
    step,
    client_buffer_,  \* the packet last read from the client
    told,            \* the byte the client's SSLRequest was answered with
    clientTls, serverTls,  \* the ssl streams exist (and the sockets are gone)
    ssl_enabled_,
    toDb             \* what the database was sent: [packet, tls]

vars == <<accepting_, acceptPending, step, client_buffer_, told, clientTls,
          serverTls, ssl_enabled_, toDb>>

streams == <<clientTls, serverTls, ssl_enabled_>>
server == <<accepting_, acceptPending>>

Steps == {"none", "resolving", "connecting", "startup", "sslRequest", "sslReply",
          "sendN", "sendS", "clientTls", "serverTls", "startupTls", "relay",
          "relayTls", "bridging", "closed", "ended"}

\* Every variable has its type.
TypeOK ==
    /\ accepting_ \in BOOLEAN
    /\ acceptPending \in BOOLEAN
    /\ step \in [Sessions -> Steps]
    /\ client_buffer_ \in [Sessions -> Packets \cup {""}]
    /\ told \in [Sessions -> {"", "S", "N"}]
    /\ clientTls \in [Sessions -> BOOLEAN]
    /\ serverTls \in [Sessions -> BOOLEAN]
    /\ ssl_enabled_ \in [Sessions -> BOOLEAN]
    /\ toDb \in [Sessions -> Seq([packet : Packets, tls : BOOLEAN])]

\* The constructor of ProxyServer ends in do_accept.
Init ==
    /\ accepting_ = TRUE
    /\ acceptPending = TRUE
    /\ step = [s \in Sessions |-> "none"]
    /\ client_buffer_ = [s \in Sessions |-> ""]
    /\ told = [s \in Sessions |-> ""]
    /\ clientTls = [s \in Sessions |-> FALSE]
    /\ serverTls = [s \in Sessions |-> FALSE]
    /\ ssl_enabled_ = [s \in Sessions |-> FALSE]
    /\ toDb = [s \in Sessions |-> <<>>]

-----------------------------------------------------------------------------
(* ProxyServer *)

\* A connection: a new session starts, and the next accept is issued.
Accept(s) ==
    /\ acceptPending /\ accepting_
    /\ step[s] = "none"
    /\ step' = [step EXCEPT ![s] = "resolving"]
    /\ UNCHANGED <<server, client_buffer_, told, streams, toDb>>

\* Constructing the session throws (no memory, no TLS context): the exception
\* leaves the handler before do_accept, and there is no accept any more.
AcceptThrows ==
    /\ AllowErrors
    /\ acceptPending /\ accepting_
    /\ acceptPending' = FALSE
    /\ UNCHANGED <<accepting_, step, client_buffer_, told, streams, toDb>>

\* An error: nothing to start, but the loop goes on while accepting_.  After
\* shutdown this is how the outstanding accept ends.
AcceptError ==
    /\ acceptPending
    /\ AllowErrors \/ ~accepting_
    /\ acceptPending' = accepting_
    /\ UNCHANGED <<accepting_, step, client_buffer_, told, streams, toDb>>

Shutdown ==
    /\ accepting_
    /\ accepting_' = FALSE
    /\ UNCHANGED <<acceptPending, step, client_buffer_, told, streams, toDb>>

-----------------------------------------------------------------------------
(* Session *)

\* The operation of step a completes and the handler starts operation b.
Go(s, a, b) ==
    /\ step[s] = a
    /\ step' = [step EXCEPT ![s] = b]
    /\ UNCHANGED server

SendDb(s, p, tls) ==
    toDb' = [toDb EXCEPT ![s] = Append(@, [packet |-> p, tls |-> tls])]

Resolved(s) ==
    /\ Go(s, "resolving", "connecting")
    /\ UNCHANGED <<client_buffer_, told, streams, toDb>>

Connected(s) ==
    /\ Go(s, "connecting", "startup")
    /\ UNCHANGED <<client_buffer_, told, streams, toDb>>

\* (mutant) the packet is moved out of client_buffer_
ReadSslRequestMoved(s) ==
    /\ Go(s, "startup", "sslRequest")
    /\ SendDb(s, "SSLRequest", FALSE)
    /\ UNCHANGED <<client_buffer_, told, streams>>

\* The client's first packet is an SSLRequest: the database is asked.
ReadSslRequest(s) ==
    /\ Go(s, "startup", "sslRequest")
    /\ client_buffer_' = [client_buffer_ EXCEPT ![s] = "SSLRequest"]
    /\ SendDb(s, "SSLRequest", FALSE)
    /\ UNCHANGED <<told, streams>>

\* It is anything else: relay_to_server.
ReadStartup(s) ==
    /\ Go(s, "startup", "relay")
    /\ client_buffer_' = [client_buffer_ EXCEPT ![s] = "StartupMessage"]
    /\ SendDb(s, "StartupMessage", FALSE)
    /\ UNCHANGED <<told, streams>>

SslRequestSent(s) ==
    /\ Go(s, "sslRequest", "sslReply")
    /\ UNCHANGED <<client_buffer_, told, streams, toDb>>

\* The database's answer: 'S' goes to perform_ssl_handshake, anything else to
\* handle_ssl_request, and each writes its byte to the client.
SslReply(s) ==
    /\ Go(s, "sslReply", "sendS") \/ Go(s, "sslReply", "sendN")
    /\ UNCHANGED <<client_buffer_, told, streams, toDb>>

\* 'N' is sent: startup_packet_.size() bytes of client_buffer_ are relayed,
\* which is the SSLRequest again.
NSent(s) ==
    /\ Go(s, "sendN", "relay")
    /\ told' = [told EXCEPT ![s] = "N"]
    /\ SendDb(s, client_buffer_[s], FALSE)
    /\ UNCHANGED <<client_buffer_, streams>>

\* (mutant) only the client's side is turned into a TLS stream
SSentClientOnly(s) ==
    /\ Go(s, "sendS", "clientTls")
    /\ told' = [told EXCEPT ![s] = "S"]
    /\ clientTls' = [clientTls EXCEPT ![s] = TRUE]
    /\ UNCHANGED <<client_buffer_, serverTls, ssl_enabled_, toDb>>

\* 'S' is sent: both sockets become ssl streams, the client's handshake starts.
SSent(s) ==
    /\ Go(s, "sendS", "clientTls")
    /\ told' = [told EXCEPT ![s] = "S"]
    /\ clientTls' = [clientTls EXCEPT ![s] = TRUE]
    /\ serverTls' = [serverTls EXCEPT ![s] = TRUE]
    /\ UNCHANGED <<client_buffer_, ssl_enabled_, toDb>>

ClientHandshake(s) ==
    /\ Go(s, "clientTls", "serverTls")
    /\ UNCHANGED <<client_buffer_, told, streams, toDb>>

\* (mutant) ssl_enabled_ is not set
ServerHandshakeNoFlag(s) ==
    /\ Go(s, "serverTls", "startupTls")
    /\ UNCHANGED <<client_buffer_, told, streams, toDb>>

ServerHandshake(s) ==
    /\ Go(s, "serverTls", "startupTls")
    /\ ssl_enabled_' = [ssl_enabled_ EXCEPT ![s] = TRUE]
    /\ UNCHANGED <<client_buffer_, told, clientTls, serverTls, toDb>>

\* The startup packet arrives over TLS and is written to the server's stream.
ReadStartupTls(s) ==
    /\ Go(s, "startupTls", "relayTls")
    /\ client_buffer_' = [client_buffer_ EXCEPT ![s] = "StartupMessage"]
    /\ SendDb(s, "StartupMessage", serverTls[s])
    /\ UNCHANGED <<told, streams>>

\* (mutant) the bridge is not started after TLS
RelayedPlainOnly(s) ==
    /\ Go(s, "relay", "bridging")
    /\ UNCHANGED <<client_buffer_, told, streams, toDb>>

\* The packet is written: both bridge functions start.
Relayed(s) ==
    /\ Go(s, "relay", "bridging") \/ Go(s, "relayTls", "bridging")
    /\ UNCHANGED <<client_buffer_, told, streams, toDb>>

\* In bridge mode the client of a refused SSLRequest sends its startup packet,
\* which bridge_client_to_server forwards like any other data.
BridgeStartup(s) ==
    /\ step[s] = "bridging"
    /\ client_buffer_[s] = "SSLRequest"
    /\ client_buffer_' = [client_buffer_ EXCEPT ![s] = "StartupMessage"]
    /\ SendDb(s, "StartupMessage", ssl_enabled_[s])
    /\ UNCHANGED <<server, step, told, streams>>

\* A failed operation closes the session ...
Failed(s) ==
    /\ AllowErrors
    /\ step[s] \notin {"none", "bridging", "closed", "ended"}
    /\ step' = [step EXCEPT ![s] = "closed"]
    /\ UNCHANGED <<server, client_buffer_, told, streams, toDb>>

\* ... unless is_expected_ssl_error says to stop silently; the connection, the
\* client's handshake and the write after it close the session in any case.
FailedExpected(s) ==
    /\ AllowErrors
    /\ step[s] \in {"startup", "sslRequest", "sslReply", "sendN", "sendS",
                    "serverTls", "startupTls", "relay"}
    /\ step' = [step EXCEPT ![s] = "ended"]
    /\ UNCHANGED <<server, client_buffer_, told, streams, toDb>>

-----------------------------------------------------------------------------

\* Steps that depend on the proxy, the network and the database, but not on
\* the client sending something.
Work(s) ==
    \/ Resolved(s)
    \/ Connected(s)
    \/ SslRequestSent(s)
    \/ SslReply(s)
    \/ NSent(s)
    \/ SSent(s)
    \/ ServerHandshake(s)
    \/ Relayed(s)

ClientStep(s) ==
    \/ ReadSslRequest(s)
    \/ ReadStartup(s)
    \/ ClientHandshake(s)
    \/ ReadStartupTls(s)
    \/ BridgeStartup(s)

Next ==
    \/ \E s \in Sessions : \/ Accept(s)
                           \/ Work(s)
                           \/ ClientStep(s)
                           \/ Failed(s)
                           \/ FailedExpected(s)
    \/ AcceptThrows
    \/ AcceptError
    \/ Shutdown

Spec == Init /\ [][Next]_vars

\* Everybody goes on, the client included.
FairSpec == Spec /\ \A s \in Sessions : WF_vars(Work(s) \/ ClientStep(s))

-----------------------------------------------------------------------------
(* Properties *)

\* A client that was told 'S' has its startup packet (user, database) sent to
\* the database over TLS only.
StartupStaysPrivate ==
    \A s \in Sessions : \A i \in DOMAIN toDb[s] :
        told[s] = "S" /\ toDb[s][i].packet = "StartupMessage" => toDb[s][i].tls

\* When the bridge starts, the streams it chooses by ssl_enabled_ exist on both
\* sides and agree with what the client was told.
BridgeParity ==
    \A s \in Sessions : step[s] = "bridging" =>
        /\ ssl_enabled_[s] = (told[s] = "S")
        /\ clientTls[s] = ssl_enabled_[s]
        /\ serverTls[s] = ssl_enabled_[s]

\* A session whose peers keep talking bridges, or is closed, or ends.
StartupCompletes ==
    \A s \in Sessions :
        step[s] = "resolving" ~> step[s] \in {"bridging", "closed", "ended"}

\* README: "Transparency: Clients require no modifications".  The database is
\* asked for SSL at most once per connection, as the protocol demands, and the
\* next packet it gets is the client's startup packet.
SslRequestedOnce ==
    \A s \in Sessions : \A i \in DOMAIN toDb[s] :
        i > 1 => toDb[s][i].packet # "SSLRequest"
=============================================================================
