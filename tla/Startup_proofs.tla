--------------------------- MODULE Startup_proofs ---------------------------
(***************************************************************************)
(* Theorems about Startup for any set of connections: the accept loop      *)
(* stays alive, TLS is on both sides or on neither, and a startup packet   *)
(* never leaves in the clear after the client was told 'S'.                *)
(***************************************************************************)
EXTENDS Startup, TLAPS

\* Steps at which the client's SSLRequest, if any, is not answered yet.
Unanswered == {"none", "resolving", "connecting", "startup", "sslRequest",
               "sslReply", "sendN", "sendS"}

\* Steps at which client_buffer_ still holds the SSLRequest.
Asking == {"sslRequest", "sslReply", "sendN", "sendS"}

\* The startup packet of s has not been sent to the database yet.
NoStartup(s) ==
    \A i \in DOMAIN toDb[s] : toDb[s][i].packet # "StartupMessage"

\* What session s has done so far, by the step it is at.
Progress(s) ==
    /\ step[s] \in Asking => client_buffer_[s] = "SSLRequest"
    /\ step[s] \in Unanswered => told[s] = "" /\ NoStartup(s)
    /\ step[s] \in {"clientTls", "serverTls"} => told[s] = "S"
    /\ step[s] \in {"startupTls", "relayTls"} => told[s] = "S" /\ ssl_enabled_[s]
    /\ step[s] = "relay" => told[s] # "S"
    /\ clientTls[s] = (told[s] = "S")
    /\ serverTls[s] = (told[s] = "S")
    /\ ssl_enabled_[s] => told[s] = "S"
    /\ step[s] = "bridging" => ssl_enabled_[s] = (told[s] = "S")

IInv ==
    /\ TypeOK
    /\ \A s \in Sessions : Progress(s)
    /\ StartupStaysPrivate

\* One more packet for the database of s, and the ones it already had.
LEMMA SendDbFacts ==
    ASSUME TypeOK, NEW s \in Sessions, NEW p \in Packets, NEW tls \in BOOLEAN,
           SendDb(s, p, tls)
    PROVE  /\ toDb' \in [Sessions -> Seq([packet : Packets, tls : BOOLEAN])]
           /\ \A r \in Sessions : r # s => toDb'[r] = toDb[r]
           /\ \A i \in DOMAIN toDb'[s] :
                  \/ i \in DOMAIN toDb[s] /\ toDb'[s][i] = toDb[s][i]
                  \/ toDb'[s][i].packet = p /\ toDb'[s][i].tls = tls
<1> DEFINE e == [packet |-> p, tls |-> tls]
           M == [packet : Packets, tls : BOOLEAN]
<1>1. e \in M /\ toDb \in [Sessions -> Seq(M)] /\ e.packet = p /\ e.tls = tls
  BY DEF TypeOK
<1>2. toDb' = [toDb EXCEPT ![s] = Append(@, e)]
  BY DEF SendDb
<1> HIDE DEF e, M
<1>3. toDb' \in [Sessions -> Seq(M)] /\ toDb'[s] = Append(toDb[s], e)
  BY <1>1, <1>2
<1>4. \A i \in DOMAIN Append(toDb[s], e) :
          \/ i \in DOMAIN toDb[s] /\ Append(toDb[s], e)[i] = toDb[s][i]
          \/ Append(toDb[s], e)[i] = e
  BY <1>1
<1> QED
  BY <1>1, <1>2, <1>3, <1>4 DEF M

\* The tls flag of a packet sent is a Boolean.
LEMMA SentFlag ==
    ASSUME TypeOK, NEW s \in Sessions, NEW i \in DOMAIN toDb[s]
    PROVE  toDb[s][i].tls \in BOOLEAN
<1> DEFINE M == [packet : Packets, tls : BOOLEAN]
<1>1. toDb[s] \in Seq(M)
  BY DEF TypeOK
<1>2. \A e \in M : e.tls \in BOOLEAN
  OBVIOUS
<1> HIDE DEF M
<1>3. toDb[s][i] \in M
  BY <1>1
<1> QED
  BY <1>2, <1>3

\* Every step of one session keeps what holds of it, and leaves the others
\* alone.
LEMMA InductiveStep == IInv /\ [Next]_vars => IInv'
<1> SUFFICES ASSUME IInv, [Next]_vars
             PROVE  IInv'
  OBVIOUS
<1>i. TypeOK /\ StartupStaysPrivate
      /\ \A s \in Sessions : Progress(s)
  BY DEF IInv
<1> USE DEF Unanswered, Asking, Packets
<1>1. ASSUME NEW s \in Sessions, Resolved(s)
      PROVE  IInv'
  <2>1. TypeOK'
    BY <1>1, <1>i DEF Resolved, Go, TypeOK, Steps, streams, server
  <2>3. ASSUME NEW r \in Sessions
        PROVE  Progress(r)'
    BY <1>1, <1>i DEF Resolved, Go, Progress, NoStartup, TypeOK,
       streams, server
  <2>4. StartupStaysPrivate'
    BY <1>1, <1>i DEF Resolved, Go, StartupStaysPrivate, Progress, TypeOK,
       streams, server
  <2> QED
    BY <2>1, <2>3, <2>4 DEF IInv
<1>2. ASSUME NEW s \in Sessions, Connected(s)
      PROVE  IInv'
  <2>1. TypeOK'
    BY <1>2, <1>i DEF Connected, Go, TypeOK, Steps, streams, server
  <2>3. ASSUME NEW r \in Sessions
        PROVE  Progress(r)'
    BY <1>2, <1>i DEF Connected, Go, Progress, NoStartup, TypeOK,
       streams, server
  <2>4. StartupStaysPrivate'
    BY <1>2, <1>i DEF Connected, Go, StartupStaysPrivate, Progress, TypeOK,
       streams, server
  <2> QED
    BY <2>1, <2>3, <2>4 DEF IInv
<1>3. ASSUME NEW s \in Sessions, ReadSslRequest(s)
      PROVE  IInv'
  <2>0. /\ toDb' \in [Sessions -> Seq([packet : Packets, tls : BOOLEAN])]
        /\ \A r \in Sessions : r # s => toDb'[r] = toDb[r]
        /\ \A i \in DOMAIN toDb'[s] :
               \/ i \in DOMAIN toDb[s] /\ toDb'[s][i] = toDb[s][i]
               \/ toDb'[s][i].packet = "SSLRequest" /\ toDb'[s][i].tls = FALSE
    <3>1. "SSLRequest" \in Packets /\ FALSE \in BOOLEAN
      BY <1>3, <1>i DEF ReadSslRequest, Go, TypeOK, Progress
    <3> QED
      BY <1>3, <1>i, <3>1, SendDbFacts DEF ReadSslRequest
  <2>1. TypeOK'
    BY <2>0, <1>3, <1>i DEF ReadSslRequest, Go, TypeOK, Steps, streams, server
  <2>3. ASSUME NEW r \in Sessions
        PROVE  Progress(r)'
    <3>1. r # s /\ NoStartup(r) => NoStartup(r)'
      BY <2>0 DEF NoStartup
    <3>2. NoStartup(s)'
      BY <2>0, <1>3, <1>i DEF ReadSslRequest, Go, Progress, NoStartup
    <3>3. CASE r = s
      BY <3>1, <3>2, <3>3, <1>3, <1>i DEF ReadSslRequest, Go, Progress, TypeOK, streams, server
    <3>4. CASE r # s
      BY <3>1, <3>2, <3>4, <1>3, <1>i DEF ReadSslRequest, Go, Progress, TypeOK, streams, server
    <3> QED
      BY <3>3, <3>4
  <2>4. ASSUME NEW r \in Sessions, NEW i \in DOMAIN toDb'[r], told'[r] = "S",
               toDb'[r][i].packet = "StartupMessage"
        PROVE  toDb'[r][i].tls = TRUE
    <3>1. told[r] = "S"
      BY <2>4, <1>3, <1>i DEF ReadSslRequest, Go, TypeOK
    <3>2. CASE i \in DOMAIN toDb[r] /\ toDb'[r][i] = toDb[r][i]
      <4>1. toDb[r][i].tls
        BY <2>4, <3>1, <3>2, <1>i DEF StartupStaysPrivate
      <4>2. toDb[r][i].tls \in BOOLEAN
        BY <3>2, <1>i, SentFlag
      <4> QED
        BY <3>2, <4>1, <4>2
    <3>3. CASE r = s
      BY <2>0, <2>4, <3>1, <3>2, <3>3, <1>3, <1>i DEF ReadSslRequest, Go, Progress, TypeOK
    <3> QED
      BY <2>0, <2>4, <3>2, <3>3
  <2>5. StartupStaysPrivate'
    BY <2>4 DEF StartupStaysPrivate
  <2> QED
    BY <2>1, <2>3, <2>5 DEF IInv
<1>4. ASSUME NEW s \in Sessions, ReadStartup(s)
      PROVE  IInv'
  <2>0. /\ toDb' \in [Sessions -> Seq([packet : Packets, tls : BOOLEAN])]
        /\ \A r \in Sessions : r # s => toDb'[r] = toDb[r]
        /\ \A i \in DOMAIN toDb'[s] :
               \/ i \in DOMAIN toDb[s] /\ toDb'[s][i] = toDb[s][i]
               \/ toDb'[s][i].packet = "StartupMessage" /\ toDb'[s][i].tls = FALSE
    <3>1. "StartupMessage" \in Packets /\ FALSE \in BOOLEAN
      BY <1>4, <1>i DEF ReadStartup, Go, TypeOK, Progress
    <3> QED
      BY <1>4, <1>i, <3>1, SendDbFacts DEF ReadStartup
  <2>1. TypeOK'
    BY <2>0, <1>4, <1>i DEF ReadStartup, Go, TypeOK, Steps, streams, server
  <2>3. ASSUME NEW r \in Sessions
        PROVE  Progress(r)'
    <3>1. r # s /\ NoStartup(r) => NoStartup(r)'
      BY <2>0 DEF NoStartup
    <3>3. CASE r = s
      BY <3>1, <3>3, <1>4, <1>i DEF ReadStartup, Go, Progress, TypeOK, streams, server
    <3>4. CASE r # s
      BY <3>1, <3>4, <1>4, <1>i DEF ReadStartup, Go, Progress, TypeOK, streams, server
    <3> QED
      BY <3>3, <3>4
  <2>4. ASSUME NEW r \in Sessions, NEW i \in DOMAIN toDb'[r], told'[r] = "S",
               toDb'[r][i].packet = "StartupMessage"
        PROVE  toDb'[r][i].tls = TRUE
    <3>1. told[r] = "S"
      BY <2>4, <1>4, <1>i DEF ReadStartup, Go, TypeOK
    <3>2. CASE i \in DOMAIN toDb[r] /\ toDb'[r][i] = toDb[r][i]
      <4>1. toDb[r][i].tls
        BY <2>4, <3>1, <3>2, <1>i DEF StartupStaysPrivate
      <4>2. toDb[r][i].tls \in BOOLEAN
        BY <3>2, <1>i, SentFlag
      <4> QED
        BY <3>2, <4>1, <4>2
    <3>3. CASE r = s
      BY <2>0, <2>4, <3>1, <3>2, <3>3, <1>4, <1>i DEF ReadStartup, Go, Progress, TypeOK
    <3> QED
      BY <2>0, <2>4, <3>2, <3>3
  <2>5. StartupStaysPrivate'
    BY <2>4 DEF StartupStaysPrivate
  <2> QED
    BY <2>1, <2>3, <2>5 DEF IInv
<1>5. ASSUME NEW s \in Sessions, SslRequestSent(s)
      PROVE  IInv'
  <2>1. TypeOK'
    BY <1>5, <1>i DEF SslRequestSent, Go, TypeOK, Steps, streams, server
  <2>3. ASSUME NEW r \in Sessions
        PROVE  Progress(r)'
    BY <1>5, <1>i DEF SslRequestSent, Go, Progress, NoStartup, TypeOK,
       streams, server
  <2>4. StartupStaysPrivate'
    BY <1>5, <1>i DEF SslRequestSent, Go, StartupStaysPrivate, Progress,
       TypeOK, streams, server
  <2> QED
    BY <2>1, <2>3, <2>4 DEF IInv
<1>6. ASSUME NEW s \in Sessions, SslReply(s)
      PROVE  IInv'
  <2>1. TypeOK'
    BY <1>6, <1>i DEF SslReply, Go, TypeOK, Steps, streams, server
  <2>3. ASSUME NEW r \in Sessions
        PROVE  Progress(r)'
    <3>u. UNCHANGED <<client_buffer_, told, clientTls, serverTls, ssl_enabled_, toDb>>
      BY <1>6 DEF SslReply, streams
    <3>g. /\ step[s] = "sslReply" /\ step'[s] \in {"sendS", "sendN"}
          /\ r # s => step'[r] = step[r]
      BY <1>6, <1>i DEF SslReply, Go, TypeOK
    <3>n. NoStartup(r)' <=> NoStartup(r)
      BY <3>u DEF NoStartup
    <3>p. Progress(r)
      BY <1>i
    <3>1. CASE r = s
      BY <3>1, <3>u, <3>g, <3>n, <3>p DEF Progress, Asking, Unanswered
    <3>2. CASE r # s
      BY <3>2, <3>u, <3>g, <3>n, <3>p DEF Progress
    <3> QED
      BY <3>1, <3>2
  <2>4. StartupStaysPrivate'
    BY <1>6, <1>i DEF SslReply, Go, StartupStaysPrivate, Progress, TypeOK,
       streams, server
  <2> QED
    BY <2>1, <2>3, <2>4 DEF IInv
<1>7. ASSUME NEW s \in Sessions, NSent(s)
      PROVE  IInv'
  <2>0. /\ toDb' \in [Sessions -> Seq([packet : Packets, tls : BOOLEAN])]
        /\ \A r \in Sessions : r # s => toDb'[r] = toDb[r]
        /\ \A i \in DOMAIN toDb'[s] :
               \/ i \in DOMAIN toDb[s] /\ toDb'[s][i] = toDb[s][i]
               \/ toDb'[s][i].packet = client_buffer_[s] /\ toDb'[s][i].tls = FALSE
    <3>1. client_buffer_[s] \in Packets /\ FALSE \in BOOLEAN
      BY <1>7, <1>i DEF NSent, Go, TypeOK, Progress
    <3> QED
      BY <1>7, <1>i, <3>1, SendDbFacts DEF NSent
  <2>1. TypeOK'
    BY <2>0, <1>7, <1>i DEF NSent, Go, TypeOK, Steps, streams, server
  <2>3. ASSUME NEW r \in Sessions
        PROVE  Progress(r)'
    <3>1. r # s /\ NoStartup(r) => NoStartup(r)'
      BY <2>0 DEF NoStartup
    <3>3. CASE r = s
      BY <3>1, <3>3, <1>7, <1>i DEF NSent, Go, Progress, TypeOK, streams, server
    <3>4. CASE r # s
      BY <3>1, <3>4, <1>7, <1>i DEF NSent, Go, Progress, TypeOK, streams, server
    <3> QED
      BY <3>3, <3>4
  <2>4. ASSUME NEW r \in Sessions, NEW i \in DOMAIN toDb'[r], told'[r] = "S",
               toDb'[r][i].packet = "StartupMessage"
        PROVE  toDb'[r][i].tls = TRUE
    <3>1. told[r] = "S"
      BY <2>4, <1>7, <1>i DEF NSent, Go, TypeOK
    <3>2. CASE i \in DOMAIN toDb[r] /\ toDb'[r][i] = toDb[r][i]
      <4>1. toDb[r][i].tls
        BY <2>4, <3>1, <3>2, <1>i DEF StartupStaysPrivate
      <4>2. toDb[r][i].tls \in BOOLEAN
        BY <3>2, <1>i, SentFlag
      <4> QED
        BY <3>2, <4>1, <4>2
    <3>3. CASE r = s
      BY <2>0, <2>4, <3>1, <3>2, <3>3, <1>7, <1>i DEF NSent, Go, Progress, TypeOK
    <3> QED
      BY <2>0, <2>4, <3>2, <3>3
  <2>5. StartupStaysPrivate'
    BY <2>4 DEF StartupStaysPrivate
  <2> QED
    BY <2>1, <2>3, <2>5 DEF IInv
<1>8. ASSUME NEW s \in Sessions, SSent(s)
      PROVE  IInv'
  <2>1. TypeOK'
    BY <1>8, <1>i DEF SSent, Go, TypeOK, Steps, streams, server
  <2>3. ASSUME NEW r \in Sessions
        PROVE  Progress(r)'
    BY <1>8, <1>i DEF SSent, Go, Progress, NoStartup, TypeOK,
       streams, server
  <2>4. StartupStaysPrivate'
    BY <1>8, <1>i DEF SSent, Go, StartupStaysPrivate, Progress, NoStartup, TypeOK,
       streams, server
  <2> QED
    BY <2>1, <2>3, <2>4 DEF IInv
<1>9. ASSUME NEW s \in Sessions, ClientHandshake(s)
      PROVE  IInv'
  <2>1. TypeOK'
    BY <1>9, <1>i DEF ClientHandshake, Go, TypeOK, Steps, streams, server
  <2>3. ASSUME NEW r \in Sessions
        PROVE  Progress(r)'
    BY <1>9, <1>i DEF ClientHandshake, Go, Progress, NoStartup, TypeOK,
       streams, server
  <2>4. StartupStaysPrivate'
    BY <1>9, <1>i DEF ClientHandshake, Go, StartupStaysPrivate, Progress,
       TypeOK, streams, server
  <2> QED
    BY <2>1, <2>3, <2>4 DEF IInv
<1>10. ASSUME NEW s \in Sessions, ServerHandshake(s)
      PROVE  IInv'
  <2>1. TypeOK'
    BY <1>10, <1>i DEF ServerHandshake, Go, TypeOK, Steps, streams, server
  <2>3. ASSUME NEW r \in Sessions
        PROVE  Progress(r)'
    BY <1>10, <1>i DEF ServerHandshake, Go, Progress, NoStartup, TypeOK,
       streams, server
  <2>4. StartupStaysPrivate'
    BY <1>10, <1>i DEF ServerHandshake, Go, StartupStaysPrivate, Progress,
       TypeOK, streams, server
  <2> QED
    BY <2>1, <2>3, <2>4 DEF IInv
<1>11. ASSUME NEW s \in Sessions, ReadStartupTls(s)
      PROVE  IInv'
  <2>0. /\ toDb' \in [Sessions -> Seq([packet : Packets, tls : BOOLEAN])]
        /\ \A r \in Sessions : r # s => toDb'[r] = toDb[r]
        /\ \A i \in DOMAIN toDb'[s] :
               \/ i \in DOMAIN toDb[s] /\ toDb'[s][i] = toDb[s][i]
               \/ toDb'[s][i].packet = "StartupMessage" /\ toDb'[s][i].tls = serverTls[s]
    <3>1. "StartupMessage" \in Packets /\ serverTls[s] \in BOOLEAN
      BY <1>11, <1>i DEF ReadStartupTls, Go, TypeOK, Progress
    <3> QED
      BY <1>11, <1>i, <3>1, SendDbFacts DEF ReadStartupTls
  <2>1. TypeOK'
    BY <2>0, <1>11, <1>i DEF ReadStartupTls, Go, TypeOK, Steps, streams, server
  <2>3. ASSUME NEW r \in Sessions
        PROVE  Progress(r)'
    <3>1. r # s /\ NoStartup(r) => NoStartup(r)'
      BY <2>0 DEF NoStartup
    <3>3. CASE r = s
      BY <3>1, <3>3, <1>11, <1>i DEF ReadStartupTls, Go, Progress, TypeOK, streams, server
    <3>4. CASE r # s
      BY <3>1, <3>4, <1>11, <1>i DEF ReadStartupTls, Go, Progress, TypeOK, streams, server
    <3> QED
      BY <3>3, <3>4
  <2>4. ASSUME NEW r \in Sessions, NEW i \in DOMAIN toDb'[r], told'[r] = "S",
               toDb'[r][i].packet = "StartupMessage"
        PROVE  toDb'[r][i].tls = TRUE
    <3>1. told[r] = "S"
      BY <2>4, <1>11, <1>i DEF ReadStartupTls, Go, TypeOK
    <3>2. CASE i \in DOMAIN toDb[r] /\ toDb'[r][i] = toDb[r][i]
      <4>1. toDb[r][i].tls
        BY <2>4, <3>1, <3>2, <1>i DEF StartupStaysPrivate
      <4>2. toDb[r][i].tls \in BOOLEAN
        BY <3>2, <1>i, SentFlag
      <4> QED
        BY <3>2, <4>1, <4>2
    <3>3. CASE r = s
      BY <2>0, <2>4, <3>1, <3>2, <3>3, <1>11, <1>i DEF ReadStartupTls, Go, Progress, TypeOK
    <3> QED
      BY <2>0, <2>4, <3>2, <3>3
  <2>5. StartupStaysPrivate'
    BY <2>4 DEF StartupStaysPrivate
  <2> QED
    BY <2>1, <2>3, <2>5 DEF IInv
<1>12. ASSUME NEW s \in Sessions, Relayed(s)
      PROVE  IInv'
  <2>1. TypeOK'
    BY <1>12, <1>i DEF Relayed, Go, TypeOK, Steps, streams, server
  <2>3. ASSUME NEW r \in Sessions
        PROVE  Progress(r)'
    <3>u. UNCHANGED <<client_buffer_, told, clientTls, serverTls, ssl_enabled_, toDb>>
      BY <1>12 DEF Relayed, streams
    <3>g. /\ step[s] \in {"relay", "relayTls"} /\ step'[s] \in {"bridging"}
          /\ r # s => step'[r] = step[r]
      BY <1>12, <1>i DEF Relayed, Go, TypeOK
    <3>n. NoStartup(r)' <=> NoStartup(r)
      BY <3>u DEF NoStartup
    <3>p. Progress(r) /\ ssl_enabled_[r] \in BOOLEAN
      BY <1>i DEF TypeOK
    <3>1. CASE r = s
      BY <3>1, <3>u, <3>g, <3>n, <3>p DEF Progress, Asking, Unanswered
    <3>2. CASE r # s
      BY <3>2, <3>u, <3>g, <3>n, <3>p DEF Progress
    <3> QED
      BY <3>1, <3>2
  <2>4. StartupStaysPrivate'
    BY <1>12, <1>i DEF Relayed, Go, StartupStaysPrivate, Progress, TypeOK,
       streams, server
  <2> QED
    BY <2>1, <2>3, <2>4 DEF IInv
<1>13. ASSUME NEW s \in Sessions, BridgeStartup(s)
      PROVE  IInv'
  <2>0. /\ toDb' \in [Sessions -> Seq([packet : Packets, tls : BOOLEAN])]
        /\ \A r \in Sessions : r # s => toDb'[r] = toDb[r]
        /\ \A i \in DOMAIN toDb'[s] :
               \/ i \in DOMAIN toDb[s] /\ toDb'[s][i] = toDb[s][i]
               \/ toDb'[s][i].packet = "StartupMessage" /\ toDb'[s][i].tls = ssl_enabled_[s]
    <3>1. "StartupMessage" \in Packets /\ ssl_enabled_[s] \in BOOLEAN
      BY <1>13, <1>i DEF BridgeStartup, TypeOK, Progress
    <3> QED
      BY <1>13, <1>i, <3>1, SendDbFacts DEF BridgeStartup
  <2>1. TypeOK'
    BY <2>0, <1>13, <1>i DEF BridgeStartup, TypeOK, Steps, streams, server
  <2>3. ASSUME NEW r \in Sessions
        PROVE  Progress(r)'
    <3>1. r # s /\ NoStartup(r) => NoStartup(r)'
      BY <2>0 DEF NoStartup
    <3>3. CASE r = s
      BY <3>1, <3>3, <1>13, <1>i DEF BridgeStartup, Progress, TypeOK, streams, server
    <3>4. CASE r # s
      BY <3>1, <3>4, <1>13, <1>i DEF BridgeStartup, Progress, TypeOK, streams, server
    <3> QED
      BY <3>3, <3>4
  <2>4. ASSUME NEW r \in Sessions, NEW i \in DOMAIN toDb'[r], told'[r] = "S",
               toDb'[r][i].packet = "StartupMessage"
        PROVE  toDb'[r][i].tls = TRUE
    <3>1. told[r] = "S"
      BY <2>4, <1>13, <1>i DEF BridgeStartup, TypeOK
    <3>2. CASE i \in DOMAIN toDb[r] /\ toDb'[r][i] = toDb[r][i]
      <4>1. toDb[r][i].tls
        BY <2>4, <3>1, <3>2, <1>i DEF StartupStaysPrivate
      <4>2. toDb[r][i].tls \in BOOLEAN
        BY <3>2, <1>i, SentFlag
      <4> QED
        BY <3>2, <4>1, <4>2
    <3>3. CASE r = s
      BY <2>0, <2>4, <3>1, <3>2, <3>3, <1>13, <1>i DEF BridgeStartup, Progress, TypeOK
    <3> QED
      BY <2>0, <2>4, <3>2, <3>3
  <2>5. StartupStaysPrivate'
    BY <2>4 DEF StartupStaysPrivate
  <2> QED
    BY <2>1, <2>3, <2>5 DEF IInv
<1>14. ASSUME NEW s \in Sessions, Failed(s)
      PROVE  IInv'
  <2>1. TypeOK'
    BY <1>14, <1>i DEF Failed, TypeOK, Steps, streams, server
  <2>3. ASSUME NEW r \in Sessions
        PROVE  Progress(r)'
    BY <1>14, <1>i DEF Failed, Progress, NoStartup, TypeOK,
       streams, server
  <2>4. StartupStaysPrivate'
    BY <1>14, <1>i DEF Failed, StartupStaysPrivate, Progress, TypeOK,
       streams, server
  <2> QED
    BY <2>1, <2>3, <2>4 DEF IInv
<1>15. ASSUME NEW s \in Sessions, FailedExpected(s)
      PROVE  IInv'
  <2>1. TypeOK'
    BY <1>15, <1>i DEF FailedExpected, TypeOK, Steps, streams, server
  <2>3. ASSUME NEW r \in Sessions
        PROVE  Progress(r)'
    BY <1>15, <1>i DEF FailedExpected, Progress, NoStartup, TypeOK,
       streams, server
  <2>4. StartupStaysPrivate'
    BY <1>15, <1>i DEF FailedExpected, StartupStaysPrivate, Progress, TypeOK,
       streams, server
  <2> QED
    BY <2>1, <2>3, <2>4 DEF IInv
<1>16. ASSUME NEW s \in Sessions, Accept(s)
      PROVE  IInv'
  <2>1. TypeOK'
    BY <1>16, <1>i DEF Accept, TypeOK, Steps, streams, server
  <2>3. ASSUME NEW r \in Sessions
        PROVE  Progress(r)'
    BY <1>16, <1>i DEF Accept, Progress, NoStartup, TypeOK,
       streams, server
  <2>4. StartupStaysPrivate'
    BY <1>16, <1>i DEF Accept, StartupStaysPrivate, Progress, TypeOK,
       streams, server
  <2> QED
    BY <2>1, <2>3, <2>4 DEF IInv
<1>20. CASE AcceptThrows
  BY <1>20, <1>i DEF AcceptThrows, IInv, TypeOK, Progress, NoStartup,
     StartupStaysPrivate, streams, server
<1>17. CASE AcceptError
  BY <1>17, <1>i DEF AcceptError, IInv, TypeOK, Progress, NoStartup,
     StartupStaysPrivate, streams, server
<1>18. CASE Shutdown
  BY <1>18, <1>i DEF Shutdown, IInv, TypeOK, Progress, NoStartup,
     StartupStaysPrivate, streams, server
<1>19. CASE UNCHANGED vars
  BY <1>19, <1>i DEF vars, IInv, TypeOK, Progress, NoStartup,
     StartupStaysPrivate, streams, server
<1> QED
  BY <1>1, <1>2, <1>3, <1>4, <1>5, <1>6, <1>7, <1>8, <1>9, <1>10, <1>11,
     <1>12, <1>13, <1>14, <1>15, <1>16, <1>17, <1>18, <1>19, <1>20
  DEF Next, Work, ClientStep

LEMMA InvInit == Init => IInv
<1> SUFFICES ASSUME Init
             PROVE  IInv
  OBVIOUS
<1>0. << >> \in Seq([packet : Packets, tls : BOOLEAN]) /\ DOMAIN << >> = {}
  OBVIOUS
<1>1. TypeOK
  BY <1>0 DEF Init, TypeOK, Steps
<1>3. \A s \in Sessions : toDb[s] = << >> /\ DOMAIN toDb[s] = {}
  BY <1>0 DEF Init
<1>4. ASSUME NEW s \in Sessions
      PROVE  Progress(s)
  BY <1>3 DEF Init, Progress, NoStartup, Unanswered, Asking
<1>5. StartupStaysPrivate
  BY <1>3 DEF StartupStaysPrivate
<1> QED
  BY <1>1, <1>4, <1>5 DEF IInv

LEMMA Inductive == Spec => []IInv
BY InvInit, InductiveStep, PTL DEF Spec

\* Every variable of the startup keeps its type: a session is always at one of
\* the steps between two handlers.
THEOREM StartupTypeCorrect == Spec => []TypeOK
<1>1. IInv => TypeOK
  BY DEF IInv
<1> QED
  BY <1>1, Inductive, PTL

\* After 'S' the startup packet goes to the database over TLS only.
THEOREM StartupPrivacy == Spec => []StartupStaysPrivate
<1>1. IInv => StartupStaysPrivate
  BY DEF IInv
<1> QED
  BY <1>1, Inductive, PTL

\* The bridge starts with TLS on both sides or on neither, as the client was
\* told.
THEOREM TlsOnBothSidesOrNone == Spec => []BridgeParity
<1>1. IInv => BridgeParity
  BY DEF IInv, BridgeParity, Progress, TypeOK
<1> QED
  BY <1>1, Inductive, PTL
=============================================================================
