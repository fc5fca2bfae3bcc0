---------------------------- MODULE Bridge_proofs ----------------------------
(***************************************************************************)
(* Proofs about Bridge, for any sessions, texts, response lengths and      *)
(* errors.  Whatever the clients do, types are kept and the cache's        *)
(* flights are those of SingleFlight.  The rest is for clients that wait   *)
(* for their answers, as the simple query protocol's clients do: it        *)
(* follows a message to its answer, through the flights.                   *)
(***************************************************************************)
EXTENDS Bridge, SequenceTheorems, TLAPS

\* SingleFlight's proofs, about the flights the sessions share.
SFP == INSTANCE SingleFlight_proofs
         WITH Keys <- Messages, AllowAbandon <- FALSE, AllowClear <- FALSE

-----------------------------------------------------------------------------
(* The flights *)

LEMMA FlightConstants ==
    NoFlight \notin Calls /\ FALSE \in BOOLEAN
  BY BridgeAssumption

\* The two instances of SingleFlight say the same.
LEMMA SameInit == SF!Init <=> SFP!Init
  BY DEF SF!Init, SFP!Init

LEMMA SameNext == [SF!Next]_SF!vars => [SFP!Next]_SFP!vars
  BY Zenon
  DEF SF!vars, SFP!vars, SF!Next, SFP!Next, SF!Lead, SFP!Lead, SF!Find, SFP!Find,
      SF!Work, SFP!Work, SF!Join, SFP!Join, SF!NotifyFind, SFP!NotifyFind,
      SF!EnterNotify, SFP!EnterNotify, SF!NotifyNone, SFP!NotifyNone,
      SF!NotifyMark, SFP!NotifyMark, SF!NotifyCallback, SFP!NotifyCallback,
      SF!NotifyErase, SFP!NotifyErase, SF!Abandon, SFP!Abandon, SF!Clear, SFP!Clear,
      SF!Joinable, SFP!Joinable

LEMMA SameType == SFP!TypeOK <=> SF!TypeOK
  BY DEF SF!TypeOK, SFP!TypeOK, SF!Pc, SFP!Pc, SF!LeaderPc, SFP!LeaderPc

\* What the rest needs to know of the flights' types.
LEMMA FlightTypes ==
    ASSUME SF!TypeOK
    PROVE  /\ ready \in [Calls -> BOOLEAN] /\ result \in [Calls -> Calls \cup {NoFlight}]
           /\ key \in [Calls -> Messages] /\ pc \in [Calls -> SF!Pc]
           /\ found \in [Calls -> Calls \cup {NoFlight}]
           /\ todo \in [Calls -> Seq(Calls)] /\ got \in [Calls -> Seq(Calls)]
           /\ \A c \in Calls : pc[c] \in {"join", "waiter", "notify", "calling"}
                                   => found[c] \in Calls
           /\ \A c \in Calls : ready[c] => result[c] \in Calls
  BY DEF SF!TypeOK

LEMMA CallsMeans ==
    /\ \A s \in Sessions, n \in 1 .. MaxSends : <<s, n>> \in Calls
    /\ \A c \in Calls : c[1] \in Sessions /\ c[2] \in 1 .. MaxSends /\ c = <<c[1], c[2]>>
  BY DEF Calls

\* A handler that looks for a flight has read a message, whose call it is.
LEMMA CallType ==
    ASSUME TypeOK, NEW s \in Sessions, c2s[s] = "looking"
    PROVE  /\ Call(s) \in Calls /\ key[Call(s)] \in Texts
           /\ taken[s] \in 1 .. MaxSends
<1>1. taken[s] \in 0 .. MaxSends /\ taken[s] > 0 /\ key[Call(s)] \in Texts
  BY DEF TypeOK
<1>2. taken[s] \in 1 .. MaxSends
  BY <1>1, BridgeAssumption
<1> QED
  BY <1>1, <1>2, CallsMeans DEF Call

\* Every step of the sessions is one of SingleFlight or leaves the flights alone.
LEMMA FlightStep == TypeOK /\ [Next]_vars => [SF!Next]_SF!vars
<1> SUFFICES ASSUME TypeOK, [Next]_vars
             PROVE  SF!Next \/ UNCHANGED flight
  BY DEF flight, SF!vars
<1>1. ASSUME NEW s \in Sessions, Look(s)
      PROVE  SF!Next
  <2>1. c2s[s] = "looking"
    BY <1>1 DEF Look, ReadLeader, LeadWith, ReadFinds, ReadWaiter
  <2>2. Call(s) \in Calls
    BY <2>1, CallType
  <2> QED
    BY <1>1, <2>2 DEF Look, ReadLeader, LeadWith, ReadFinds, ReadWaiter, SF!Next, SF!Work
<1>2. ASSUME NEW s \in Sessions, S2CNotify(s)
      PROVE  SF!Next
  BY <1>2 DEF S2CNotify, SF!Next, SF!Work
<1>3. ASSUME NEW s \in Sessions, S2CPublish(s) \/ S2CCallback(s)
      PROVE  SF!Next
  <2>1. publishing[s] \in Calls
    BY <1>3 DEF S2CPublish, S2CCallback, TypeOK
  <2> QED
    BY <1>3, <2>1 DEF S2CPublish, S2CCallback, SF!Next, SF!Work
<1>4. ASSUME NEW s \in Sessions,
             \/ ClientSend(s) \/ DbAnswer(s) \/ ReadOther(s) \/ C2SWritten(s) \/ ReplySent(s)
             \/ \E q \in Texts : ReadHit(s, q) \/ ReadMiss(s, q)
      PROVE  UNCHANGED flight
  BY <1>4 DEF ClientSend, DbAnswer, ReadOther, ReadHit, Hit, ReadMiss, C2SWritten, ReplySent
<1>5. ASSUME NEW s \in Sessions,
             \/ S2CReadResult(s) \/ S2CReadMore(s) \/ S2CNotified(s) \/ S2CDelivered(s)
             \/ S2CWritten(s) \/ SecondReply(s)
      PROVE  UNCHANGED flight
  BY <1>5 DEF S2CReadResult, S2CReadMore, S2CRead, S2CNotified, Notified, S2CDelivered,
              S2CWritten, SecondReply
<1>6. ASSUME NEW s \in Sessions, Fail(s)
      PROVE  UNCHANGED flight
  BY <1>6 DEF Fail, ReplyFailed, C2SReadEof, S2CReadEof, C2SExpectedError, S2CExpectedError,
              OtherError
<1>7. ASSUME NEW q \in Texts, Evict(q)
      PROVE  UNCHANGED flight
  BY <1>7 DEF Evict
<1>8. CASE UNCHANGED vars
  BY <1>8 DEF vars
<1>9. again \subseteq Sessions
  BY DEF TypeOK
<1> QED
  BY <1>1, <1>2, <1>3, <1>4, <1>5, <1>6, <1>7, <1>8, <1>9 DEF Next, Work, ServerChain

LEMMA FlightInit == Init => SFP!IInv
<1>1. Init => SF!Init
  BY DEF Init
<1> QED
  BY <1>1, SameInit, SFP!InvInit, FlightConstants

\* So all that is proved of SingleFlight holds of the flights.
LEMMA FlightInvariant == TypeOK /\ SFP!IInv /\ [Next]_vars => SFP!IInv' /\ SF!TypeOK'
<1>1. SFP!IInv /\ [SFP!Next]_SFP!vars => SFP!IInv'
  BY SFP!InductiveStep, FlightConstants
<1>2. SFP!IInv' => SF!TypeOK'
  BY SameType, PTL DEF SFP!IInv
<1> QED
  BY <1>1, <1>2, FlightStep, SameNext

\* The text of a message is fixed.
LEMMA KeyFixed == TypeOK /\ [Next]_vars => key' = key
<1>1. [SF!Next]_SF!vars => key' = key
  BY DEF SF!vars, SF!Next, SF!Work, SF!Lead, SF!Find, SF!Join, SF!NotifyFind,
         SF!EnterNotify, SF!NotifyNone, SF!NotifyMark, SF!NotifyCallback,
         SF!NotifyErase, SF!Abandon, SF!Clear
<1> QED
  BY <1>1, FlightStep

-----------------------------------------------------------------------------
(* Types *)

LEMMA ChunkFields ==
    ASSUME NEW x \in Chunks
    PROVE  x.msg \in Messages /\ x.part \in 1 .. MaxChunks /\ x.last \in BOOLEAN
  BY DEF Chunks

\* The n pieces of the answer to m.
Pieces(m, n) == [i \in 1 .. n |-> [msg |-> m, part |-> i, last |-> i = n]]

LEMMA PiecesType ==
    ASSUME NEW m \in Messages, NEW n \in 1 .. MaxChunks
    PROVE  /\ Pieces(m, n) \in Seq(Chunks)
           /\ Len(Pieces(m, n)) = n /\ DOMAIN Pieces(m, n) = 1 .. n
           /\ \A i \in 1 .. n : /\ Pieces(m, n)[i].msg = m
                                /\ Pieces(m, n)[i].part = i
                                /\ Pieces(m, n)[i].last = (i = n)
<1>1. MaxChunks \in Nat /\ n \in Nat /\ \A i \in 1 .. n : i \in 1 .. MaxChunks
  BY BridgeAssumption
<1>2. \A i \in 1 .. n : [msg |-> m, part |-> i, last |-> i = n] \in Chunks
  BY <1>1 DEF Chunks
<1>3. Pieces(m, n) \in [1 .. n -> Chunks]
  BY <1>2 DEF Pieces
<1>4. Pieces(m, n) \in Seq(Chunks) /\ DOMAIN Pieces(m, n) = 1 .. n
  BY <1>1, <1>3
<1>5. Len(Pieces(m, n)) = n
  BY <1>1, <1>4
<1> QED
  BY <1>4, <1>5 DEF Pieces

LEMMA DbAnswerMeans ==
    ASSUME NEW s \in Sessions, TypeOK, DbAnswer(s)
    PROVE  /\ toServer[s] # <<>> /\ Head(toServer[s]) \in Messages
           /\ toServer' = [toServer EXCEPT ![s] = Tail(@)]
           /\ \E n \in 1 .. MaxChunks :
                  fromServer' = [fromServer EXCEPT ![s] = @ \o Pieces(Head(toServer[s]), n)]
           /\ toServer'[s] = Tail(toServer[s])
           /\ \E n \in 1 .. MaxChunks :
                  fromServer'[s] = fromServer[s] \o Pieces(Head(toServer[s]), n)
           /\ \A r \in Sessions : r # s => /\ toServer'[r] = toServer[r]
                                           /\ fromServer'[r] = fromServer[r]
<1>1. toServer[s] # <<>> /\ toServer' = [toServer EXCEPT ![s] = Tail(@)]
  BY DEF DbAnswer
<1>2. Head(toServer[s]) \in Messages
  BY <1>1 DEF TypeOK
<1>3. PICK n \in 1 .. MaxChunks :
          fromServer' = [fromServer EXCEPT ![s] = @ \o
              [i \in 1 .. n |-> [msg |-> Head(toServer[s]), part |-> i, last |-> i = n]]]
  BY DEF DbAnswer
<1>4. fromServer' = [fromServer EXCEPT ![s] = @ \o Pieces(Head(toServer[s]), n)]
  BY <1>3, Zenon DEF Pieces
<1> DEFINE pieces == Pieces(Head(toServer[s]), n)
<1>5. DOMAIN toServer = Sessions /\ DOMAIN fromServer = Sessions
  BY DEF TypeOK
<1>6. fromServer' = [fromServer EXCEPT ![s] = fromServer[s] \o pieces]
  BY <1>4
<1> HIDE DEF pieces
<1>7. /\ toServer'[s] = Tail(toServer[s]) /\ fromServer'[s] = fromServer[s] \o pieces
      /\ \A r \in Sessions : r # s => toServer'[r] = toServer[r] /\ fromServer'[r] = fromServer[r]
  BY <1>1, <1>5, <1>6
<1> QED
  BY <1>1, <1>2, <1>4, <1>7, Zenon DEF pieces

\* The client keeps its state in type, whatever it is given.
LEMMA DeliverType ==
    ASSUME TypeOK, NEW s \in Sessions, NEW x \in Chunks, Deliver(s, x)
    PROVE  /\ answered' \in [Sessions -> 0 .. MaxSends]
           /\ nextPart' \in [Sessions -> 1 .. MaxChunks + 1]
           /\ misled' \in [Sessions -> BOOLEAN]
<1> DEFINE fits == /\ answered[s] < sends[s]
                   /\ x.msg = key[<<s, answered[s] + 1>>]
                   /\ x.part = nextPart[s]
<1>0. /\ MaxChunks \in Nat /\ MaxSends \in Nat
      /\ x.part \in 1 .. MaxChunks /\ x.last \in BOOLEAN
  BY BridgeAssumption, ChunkFields
<1>1. /\ misled' = [misled EXCEPT ![s] = @ \/ ~fits]
      /\ nextPart' = [nextPart EXCEPT ![s] = IF fits /\ ~x.last THEN @ + 1 ELSE 1]
      /\ answered' = [answered EXCEPT ![s] = IF fits /\ x.last THEN @ + 1 ELSE @]
  BY DEF Deliver
<1>2. answered[s] \in 0 .. MaxSends /\ sends[s] \in 0 .. MaxSends
  BY DEF TypeOK
<1>3. 1 \in 1 .. MaxChunks + 1 /\ (fits => nextPart[s] + 1 \in 1 .. MaxChunks + 1)
  BY <1>0
<1>4. fits => answered[s] + 1 \in 0 .. MaxSends
  BY <1>0, <1>2
<1> HIDE DEF fits
<1> QED
  BY <1>1, <1>2, <1>3, <1>4 DEF TypeOK

\* The variables that are functions of the sessions, the texts or the calls.
C2S == {"reading", "looking", "writing", "waiting", "replying", "stopped"}
S2C == {"reading", "publishing", "writing", "written", "stopped"}

PlainTypes ==
    /\ c2s \in [Sessions -> C2S] /\ s2c \in [Sessions -> S2C]
    /\ is_destroying_ \in [Sessions -> BOOLEAN]
    /\ client_closed_ \in [Sessions -> BOOLEAN]
    /\ server_closed_ \in [Sessions -> BOOLEAN]
    /\ current_query_ \in [Sessions -> Texts \cup {NoQuery}]
    /\ cached_response_ \in [Sessions -> Chunks \cup {NoChunk}]
    /\ server_buffer_ \in [Sessions -> Chunks \cup {NoChunk}]
    /\ cache \in [Texts -> Chunks \cup {NoChunk}]
    /\ publishing \in [Sessions -> Calls \cup {NoFlight}]
    /\ published \in [Calls -> Chunks \cup {NoChunk}]
    /\ toServer \in [Sessions -> Seq(Messages)]
    /\ fromServer \in [Sessions -> Seq(Chunks)]
    /\ sends \in [Sessions -> 0 .. MaxSends]
    /\ taken \in [Sessions -> 0 .. MaxSends]
    /\ answered \in [Sessions -> 0 .. MaxSends]
    /\ nextPart \in [Sessions -> 1 .. MaxChunks + 1]
    /\ misled \in [Sessions -> BOOLEAN]
    /\ again \in SUBSET Sessions

\* What the state of its chains says of a session.
Linked(s) ==
    /\ c2s[s] = "looking" => taken[s] > 0 /\ key[Call(s)] \in Texts
    /\ c2s[s] = "replying" => cached_response_[s] \in Chunks
    /\ s2c[s] \in {"publishing", "writing"} => server_buffer_[s] \in Chunks
    /\ publishing[s] # NoFlight => s2c[s] = "publishing" /\ publishing[s][1] = s

\* What is handed out has been published.
Handed ==
    /\ \A c \in Calls : pc[c] \in {"notify", "calling"} => published[c] \in Chunks
    /\ \A f \in Calls : ready[f] => published[result[f]] \in Chunks

LEMMA TypeParts ==
    TypeOK <=> SF!TypeOK /\ PlainTypes /\ (\A s \in Sessions : Linked(s)) /\ Handed
  BY Zenon DEF TypeOK, PlainTypes, C2S, S2C, Linked, Handed

\* Nothing that Linked is about changes for session r.
SameLinks(r) ==
    /\ c2s'[r] = c2s[r] /\ s2c'[r] = s2c[r] /\ taken'[r] = taken[r]
    /\ cached_response_'[r] = cached_response_[r] /\ server_buffer_'[r] = server_buffer_[r]
    /\ publishing'[r] = publishing[r]

LEMMA LinkedFrame ==
    ASSUME key' = key, NEW r \in Sessions, Linked(r), SameLinks(r)
    PROVE  Linked(r)'
  BY DEF Linked, SameLinks, Call

LEMMA HandedFrame ==
    ASSUME Handed, UNCHANGED <<flight, published>>
    PROVE  Handed'
  BY DEF Handed, flight

\* A step of session s: its own links, and the types of what it changes.
LEMMA TypeCompose ==
    ASSUME TypeOK, key' = key, SF!TypeOK', PlainTypes', Handed',
           NEW s \in Sessions, Linked(s)', \A r \in Sessions : r # s => SameLinks(r)
    PROVE  TypeOK'
<1>1. \A r \in Sessions : Linked(r)
  BY TypeParts
<1>2. \A r \in Sessions : Linked(r)'
  BY <1>1, LinkedFrame
<1> QED
  BY <1>2, Zenon DEF TypeOK, PlainTypes, C2S, S2C, Linked, Handed

\* Every step keeps the types, given that the flights keep theirs.
LEMMA TypeStep ==
    ASSUME TypeOK, SF!TypeOK', [Next]_vars
    PROVE  TypeOK'
<1> USE DEF session, buffers, notice, wires, script, client
<1>p. PlainTypes /\ Handed /\ \A r \in Sessions : Linked(r)
  BY TypeParts
<1>k. key' = key
  BY KeyFixed
<1>m. OtherMsg \in Messages /\ Texts \subseteq Messages
  BY DEF Messages
<1>n. MaxSends \in Nat /\ MaxChunks \in Nat
  BY BridgeAssumption
<1>e. <<>> \in Seq(Messages) /\ <<>> \in Seq(Chunks)
  OBVIOUS
<1>0. ASSUME NEW s \in Sessions, PlainTypes', Handed', Linked(s)',
             \A r \in Sessions : r # s => SameLinks(r)
      PROVE  TypeOK'
  BY <1>0, <1>k, TypeCompose
<1>1. ASSUME NEW s \in Sessions, ClientSend(s)
      PROVE  TypeOK'
  <2>1. sends' \in [Sessions -> 0 .. MaxSends]
    BY <1>1, <1>n, <1>p DEF ClientSend, PlainTypes
  <2>2. PlainTypes'
    BY <1>1, <1>p, <2>1 DEF ClientSend, PlainTypes
  <2>3. \A r \in Sessions : SameLinks(r)
    BY <1>1 DEF ClientSend, SameLinks
  <2>4. Handed'
    BY <1>1, <1>p, HandedFrame DEF ClientSend
  <2>5. Linked(s)'
    BY <1>p, <1>k, <2>3, LinkedFrame
  <2> QED
    BY <1>0, <2>2, <2>3, <2>4, <2>5
<1>2. ASSUME NEW s \in Sessions, DbAnswer(s)
      PROVE  TypeOK'
  <2>1. PICK n \in 1 .. MaxChunks :
            fromServer' = [fromServer EXCEPT ![s] = @ \o Pieces(Head(toServer[s]), n)]
    BY <1>2, DbAnswerMeans
  <2>2. Pieces(Head(toServer[s]), n) \in Seq(Chunks)
    BY <1>2, DbAnswerMeans, PiecesType
  <2>3. fromServer[s] \o Pieces(Head(toServer[s]), n) \in Seq(Chunks)
    BY <1>p, <2>2 DEF PlainTypes
  <2>4. fromServer' \in [Sessions -> Seq(Chunks)]
    BY <1>p, <2>1, <2>3 DEF PlainTypes
  <2>5. toServer' \in [Sessions -> Seq(Messages)]
    BY <1>2, <1>p DEF DbAnswer, PlainTypes
  <2>6. UNCHANGED <<c2s, s2c, session, current_query_, buffers, cache, flight, notice,
                    script, client, again>>
    BY <1>2 DEF DbAnswer
  <2>7. PlainTypes'
    BY <1>p, <2>4, <2>5, <2>6 DEF PlainTypes
  <2>8. \A r \in Sessions : SameLinks(r)
    BY <2>6 DEF SameLinks
  <2>9. Handed'
    BY <1>p, <2>6, HandedFrame
  <2>10. Linked(s)'
    BY <1>p, <1>k, <2>8, LinkedFrame
  <2> QED
    BY <1>0, <2>7, <2>8, <2>9, <2>10
<1>3. ASSUME NEW s \in Sessions, NEW m \in Messages, Received(s, m)
      PROVE  /\ taken' \in [Sessions -> 0 .. MaxSends]
             /\ \A r \in Sessions : r # s => taken'[r] = taken[r]
             /\ taken'[s] = taken[s] + 1 /\ taken'[s] \in 1 .. MaxSends
             /\ key[<<s, taken'[s]>>] = m
             /\ UNCHANGED <<sends, client>>
  <2>1. /\ taken[s] \in Nat /\ taken[s] < sends[s] /\ sends[s] \in 0 .. MaxSends
        /\ taken' = [taken EXCEPT ![s] = @ + 1] /\ key[<<s, taken[s] + 1>>] = m
        /\ UNCHANGED <<sends, client>>
    BY <1>3, <1>n, <1>p DEF Received, PlainTypes
  <2>2. taken[s] + 1 \in 0 .. MaxSends /\ taken[s] + 1 \in 1 .. MaxSends
    BY <1>n, <2>1
  <2>3. taken'[s] = taken[s] + 1 /\ \A r \in Sessions : r # s => taken'[r] = taken[r]
    BY <1>p, <2>1 DEF PlainTypes
  <2>4. taken' \in [Sessions -> 0 .. MaxSends]
    BY <1>p, <2>1, <2>2 DEF PlainTypes
  <2> QED
    BY <2>1, <2>2, <2>3, <2>4
<1>4. ASSUME NEW s \in Sessions, NEW m \in Messages, Forward(s, m)
      PROVE  /\ c2s' \in [Sessions -> C2S] /\ c2s'[s] \in {"writing", "stopped"}
             /\ toServer' \in [Sessions -> Seq(Messages)]
             /\ \A r \in Sessions : r # s => c2s'[r] = c2s[r]
             /\ UNCHANGED <<s2c, session, buffers, cache, notice, fromServer, again>>
  BY <1>4, <1>p DEF Forward, PlainTypes, C2S
<1>5. ASSUME NEW s \in Sessions, ReadOther(s)
      PROVE  TypeOK'
  <2>1. Received(s, OtherMsg) /\ Forward(s, OtherMsg) /\ UNCHANGED <<current_query_, flight>>
    BY <1>5 DEF ReadOther
  <2>2. PlainTypes'
    BY <1>m, <1>p, <1>3, <1>4, <2>1 DEF PlainTypes
  <2>3. \A r \in Sessions : r # s => SameLinks(r)
    BY <1>m, <1>3, <1>4, <2>1 DEF SameLinks
  <2>4. Handed'
    BY <1>m, <1>p, <1>4, <2>1, HandedFrame
  <2>5. Linked(s)'
    BY <1>m, <1>p, <1>4, <2>1 DEF Linked
  <2> QED
    BY <1>0, <2>2, <2>3, <2>4, <2>5
<1>6. ASSUME NEW s \in Sessions, NEW q \in Texts, ReadHit(s, q)
      PROVE  TypeOK'
  <2>1. /\ Received(s, q) /\ cache[q] \in Chunks
        /\ cached_response_' = [cached_response_ EXCEPT ![s] = cache[q]]
        /\ c2s' = [c2s EXCEPT ![s] = "replying"]
        /\ UNCHANGED <<s2c, session, current_query_, server_buffer_, cache, flight, notice,
                       wires, again>>
    BY <1>6, <1>p DEF ReadHit, Hit, PlainTypes
  <2>2. /\ taken' \in [Sessions -> 0 .. MaxSends]
        /\ \A r \in Sessions : r # s => taken'[r] = taken[r]
        /\ UNCHANGED <<sends, client>>
    BY <1>m, <1>3, <2>1
  <2>3. /\ c2s' \in [Sessions -> C2S] /\ c2s'[s] = "replying"
        /\ cached_response_' \in [Sessions -> Chunks \cup {NoChunk}]
        /\ cached_response_'[s] \in Chunks
        /\ \A r \in Sessions : r # s => /\ c2s'[r] = c2s[r]
                                        /\ cached_response_'[r] = cached_response_[r]
    BY <1>p, <2>1 DEF PlainTypes, C2S
  <2>4. PlainTypes'
    BY <1>p, <2>1, <2>2, <2>3 DEF PlainTypes
  <2>5. \A r \in Sessions : r # s => SameLinks(r)
    BY <2>1, <2>2, <2>3 DEF SameLinks
  <2>6. Handed'
    BY <1>p, <2>1, HandedFrame
  <2>7. Linked(s)'
    BY <1>p, <2>1, <2>3 DEF Linked
  <2> QED
    BY <1>0, <2>4, <2>5, <2>6, <2>7
<1>7. ASSUME NEW s \in Sessions, NEW q \in Texts, ReadMiss(s, q)
      PROVE  TypeOK'
  <2>1. /\ Received(s, q)
        /\ c2s' = [c2s EXCEPT ![s] = "looking"]
        /\ UNCHANGED <<s2c, session, current_query_, buffers, cache, flight, notice,
                       wires, again>>
    BY <1>7 DEF ReadMiss
  <2>2. /\ taken' \in [Sessions -> 0 .. MaxSends]
        /\ \A r \in Sessions : r # s => taken'[r] = taken[r]
        /\ taken'[s] \in 1 .. MaxSends /\ key[<<s, taken'[s]>>] = q
        /\ UNCHANGED <<sends, client>>
    BY <1>m, <1>3, <2>1
  <2>3. /\ c2s' \in [Sessions -> C2S] /\ c2s'[s] = "looking"
        /\ \A r \in Sessions : r # s => c2s'[r] = c2s[r]
    BY <1>p, <2>1 DEF PlainTypes, C2S
  <2>4. PlainTypes'
    BY <1>p, <2>1, <2>2, <2>3 DEF PlainTypes
  <2>5. \A r \in Sessions : r # s => SameLinks(r)
    BY <2>1, <2>2, <2>3 DEF SameLinks
  <2>6. Handed'
    BY <1>p, <2>1, HandedFrame
  <2>7. taken'[s] > 0 /\ key'[<<s, taken'[s]>>] \in Texts
    BY <1>k, <1>n, <2>2
  <2>8. Linked(s)'
    BY <1>p, <2>1, <2>3, <2>7 DEF Linked, Call
  <2> QED
    BY <1>0, <2>4, <2>5, <2>6, <2>8
\* What doSingleFlight does to the flights hands out nothing.
<1>8. ASSUME NEW s \in Sessions, c2s[s] = "looking", UNCHANGED published,
             SF!Lead(Call(s)) \/ SF!Find(Call(s)) \/ SF!Join(Call(s))
      PROVE  Handed'
  <2>1. Call(s) \in Calls
    BY <1>8, CallType
  <2>2. UNCHANGED <<ready, result, published>>
    BY <1>8 DEF SF!Lead, SF!Find, SF!Join
  <2>3. \A c \in Calls : pc'[c] \in {"notify", "calling"} => pc[c] \in {"notify", "calling"}
    <3>1. PICK p \in {"leading", "join", "waiter"} : pc' = [pc EXCEPT ![Call(s)] = p]
      BY <1>8 DEF SF!Lead, SF!Find, SF!Join
    <3>2. DOMAIN pc = Calls
      BY FlightTypes DEF TypeOK
    <3> QED
      BY <2>1, <3>1, <3>2
  <2> QED
    BY <1>p, <2>2, <2>3 DEF Handed
<1>9. ASSUME NEW s \in Sessions, ReadLeader(s)
      PROVE  TypeOK'
  <2>1. /\ c2s[s] = "looking" /\ SF!Lead(Call(s)) /\ Forward(s, key[Call(s)])
        /\ current_query_' = [current_query_ EXCEPT ![s] = key[Call(s)]]
        /\ UNCHANGED <<script, client>>
    BY <1>9 DEF ReadLeader, LeadWith
  <2>2. key[Call(s)] \in Texts /\ key[Call(s)] \in Messages
    BY <1>m, <2>1, CallType
  <2>3. current_query_' \in [Sessions -> Texts \cup {NoQuery}]
    BY <1>p, <2>1, <2>2 DEF PlainTypes
  <2>4. /\ c2s' \in [Sessions -> C2S] /\ c2s'[s] \in {"writing", "stopped"}
        /\ toServer' \in [Sessions -> Seq(Messages)]
        /\ \A r \in Sessions : r # s => c2s'[r] = c2s[r]
        /\ UNCHANGED <<s2c, session, buffers, cache, notice, fromServer, again>>
    BY <1>4, <2>1, <2>2
  <2>5. PlainTypes'
    BY <1>p, <2>1, <2>3, <2>4 DEF PlainTypes
  <2>6. \A r \in Sessions : r # s => SameLinks(r)
    BY <2>1, <2>4 DEF SameLinks
  <2>7. Handed'
    BY <1>8, <2>1, <2>4
  <2>8. Linked(s)'
    BY <1>p, <2>4 DEF Linked
  <2> QED
    BY <1>0, <2>5, <2>6, <2>7, <2>8
<1>10. ASSUME NEW s \in Sessions, ReadFinds(s)
       PROVE  TypeOK'
  <2>1. /\ c2s[s] = "looking" /\ SF!Find(Call(s))
        /\ UNCHANGED <<c2s, s2c, session, current_query_, buffers, cache, notice, wires,
                       script, client, again>>
    BY <1>10 DEF ReadFinds
  <2>2. PlainTypes'
    BY <1>p, <2>1 DEF PlainTypes
  <2>3. \A r \in Sessions : SameLinks(r)
    BY <2>1 DEF SameLinks
  <2>4. Handed'
    BY <1>8, <2>1
  <2>5. Linked(s)'
    BY <1>p, <1>k, <2>3, LinkedFrame
  <2> QED
    BY <1>0, <2>2, <2>3, <2>4, <2>5
<1>11. ASSUME NEW s \in Sessions, ReadWaiter(s)
       PROVE  TypeOK'
  <2> DEFINE f == found[Call(s)]
             next == IF is_destroying_[s] THEN "stopped"
                     ELSE IF ready[f] THEN "replying" ELSE "waiting"
             x == IF ready[f] /\ ~is_destroying_[s] THEN published[result[f]]
                  ELSE cached_response_[s]
  <2>1. /\ c2s[s] = "looking" /\ SF!Join(Call(s))
        /\ c2s' = [c2s EXCEPT ![s] = next]
        /\ cached_response_' = [cached_response_ EXCEPT ![s] = x]
        /\ UNCHANGED <<s2c, session, current_query_, server_buffer_, cache, notice, wires,
                       script, client, again>>
    BY <1>11 DEF ReadWaiter
  <2>2. f \in Calls
    BY <2>1, CallType, FlightTypes DEF TypeOK, SF!Join
  <2>3. /\ next \in {"stopped", "replying", "waiting"}
        /\ x \in Chunks \cup {NoChunk}
        /\ next = "replying" => x \in Chunks
    BY <1>p, <2>2 DEF Handed, PlainTypes
  <2> HIDE DEF next, x
  <2>4. /\ c2s' \in [Sessions -> C2S] /\ c2s'[s] = next
        /\ cached_response_' \in [Sessions -> Chunks \cup {NoChunk}]
        /\ cached_response_'[s] = x
        /\ \A r \in Sessions : r # s => /\ c2s'[r] = c2s[r]
                                        /\ cached_response_'[r] = cached_response_[r]
    BY <1>p, <2>1, <2>3 DEF PlainTypes, C2S
  <2>5. PlainTypes'
    BY <1>p, <2>1, <2>4 DEF PlainTypes
  <2>6. \A r \in Sessions : r # s => SameLinks(r)
    BY <2>1, <2>4 DEF SameLinks
  <2>7. Handed'
    BY <1>8, <2>1
  <2>8. Linked(s)'
    BY <1>p, <2>1, <2>3, <2>4 DEF Linked
  <2> QED
    BY <1>0, <2>5, <2>6, <2>7, <2>8
<1>12. ASSUME NEW s \in Sessions, C2SWritten(s) \/ ReplyFailed(s)
       PROVE  TypeOK'
  <2>1. /\ c2s' \in [Sessions -> C2S] /\ c2s'[s] \in {"reading", "stopped"}
        /\ \A r \in Sessions : r # s => c2s'[r] = c2s[r]
    BY <1>p, <1>12 DEF C2SWritten, ReplyFailed, PlainTypes, C2S
  <2>2. UNCHANGED <<s2c, session, current_query_, buffers, cache, flight, notice, wires,
                    script, client, again>>
    BY <1>12 DEF C2SWritten, ReplyFailed
  <2>3. PlainTypes'
    BY <1>p, <2>1, <2>2 DEF PlainTypes
  <2>4. \A r \in Sessions : r # s => SameLinks(r)
    BY <2>1, <2>2 DEF SameLinks
  <2>5. Handed'
    BY <1>p, <2>2, HandedFrame
  <2>6. Linked(s)'
    BY <1>p, <2>1, <2>2 DEF Linked
  <2> QED
    BY <1>0, <2>3, <2>4, <2>5, <2>6
<1>13. ASSUME NEW s \in Sessions, ReplySent(s) \/ SecondReply(s)
       PROVE  TypeOK'
  <2>1. cached_response_[s] \in Chunks /\ Deliver(s, cached_response_[s])
    BY <1>p, <1>13 DEF ReplySent, SecondReply, PlainTypes, Linked
  <2>2. /\ answered' \in [Sessions -> 0 .. MaxSends]
        /\ nextPart' \in [Sessions -> 1 .. MaxChunks + 1]
        /\ misled' \in [Sessions -> BOOLEAN]
    BY <2>1, DeliverType
  <2>3. /\ c2s' \in [Sessions -> C2S] /\ c2s'[s] \in {"reading", "stopped"}
        /\ cached_response_' \in [Sessions -> Chunks \cup {NoChunk}]
        /\ \A r \in Sessions : r # s => /\ c2s'[r] = c2s[r]
                                        /\ cached_response_'[r] = cached_response_[r]
    BY <1>p, <1>13 DEF ReplySent, SecondReply, PlainTypes, C2S
  <2>4. UNCHANGED <<s2c, session, current_query_, server_buffer_, cache, flight, notice,
                    wires, script, again>>
    BY <1>13 DEF ReplySent, SecondReply
  <2>5. PlainTypes'
    BY <1>p, <2>2, <2>3, <2>4 DEF PlainTypes
  <2>6. \A r \in Sessions : r # s => SameLinks(r)
    BY <2>3, <2>4 DEF SameLinks
  <2>7. Handed'
    BY <1>p, <2>4, HandedFrame
  <2>8. Linked(s)'
    BY <1>p, <2>3, <2>4 DEF Linked
  <2> QED
    BY <1>0, <2>5, <2>6, <2>7, <2>8
<1>14. ASSUME NEW s \in Sessions, NEW next \in {"publishing", "writing", "stopped"},
              S2CRead(s, next), cache' \in [Texts -> Chunks \cup {NoChunk}],
              publishing[s] = NoFlight
       PROVE  TypeOK'
  <2>1. /\ s2c[s] = "reading" /\ fromServer[s] # <<>>
        /\ s2c' = [s2c EXCEPT ![s] = next]
        /\ server_buffer_' = [server_buffer_ EXCEPT ![s] = Head(fromServer[s])]
        /\ fromServer' = [fromServer EXCEPT ![s] = Tail(@)]
        /\ UNCHANGED <<c2s, session, current_query_, cached_response_, flight, notice,
                       toServer, script, client, again>>
    BY <1>14 DEF S2CRead
  <2>2. Head(fromServer[s]) \in Chunks /\ Tail(fromServer[s]) \in Seq(Chunks)
    BY <1>p, <2>1 DEF PlainTypes
  <2>3. /\ s2c' \in [Sessions -> S2C] /\ s2c'[s] = next
        /\ server_buffer_' \in [Sessions -> Chunks \cup {NoChunk}]
        /\ server_buffer_'[s] \in Chunks
        /\ fromServer' \in [Sessions -> Seq(Chunks)]
        /\ \A r \in Sessions : r # s => /\ s2c'[r] = s2c[r]
                                        /\ server_buffer_'[r] = server_buffer_[r]
    BY <1>p, <2>1, <2>2 DEF PlainTypes, S2C
  <2>4. PlainTypes'
    BY <1>14, <1>p, <2>1, <2>3 DEF PlainTypes
  <2>5. \A r \in Sessions : r # s => SameLinks(r)
    BY <2>1, <2>3 DEF SameLinks
  <2>6. Handed'
    BY <1>p, <2>1, HandedFrame
  <2>7. Linked(s)'
    BY <1>14, <1>p, <1>k, <2>1, <2>3 DEF Linked, Call
  <2> QED
    BY <1>0, <2>4, <2>5, <2>6, <2>7
<1>15. ASSUME NEW s \in Sessions, S2CReadResult(s) \/ S2CReadMore(s)
       PROVE  TypeOK'
  <2>1. publishing[s] = NoFlight
    BY <1>p, <1>15 DEF S2CReadResult, S2CReadMore, S2CRead, Linked
  <2>2. CASE S2CReadResult(s)
    <3>1. current_query_[s] \in Texts /\ fromServer[s] # <<>>
      BY <1>p, <2>2 DEF S2CReadResult, S2CRead, PlainTypes
    <3>2. Head(fromServer[s]) \in Chunks
      BY <1>p, <3>1 DEF PlainTypes
    <3>3. cache' \in [Texts -> Chunks \cup {NoChunk}]
      BY <1>p, <2>2, <3>1, <3>2 DEF S2CReadResult, PlainTypes
    <3> QED
      BY <1>14, <2>1, <2>2, <3>3 DEF S2CReadResult
  <2>3. CASE S2CReadMore(s)
    <3>1. cache' \in [Texts -> Chunks \cup {NoChunk}]
      BY <1>p, <2>3 DEF S2CReadMore, PlainTypes
    <3> QED
      BY <1>14, <2>1, <2>3, <3>1 DEF S2CReadMore
  <2> QED
    BY <1>15, <2>2, <2>3
<1>16. ASSUME NEW s \in Sessions, S2CNotify(s)
       PROVE  TypeOK'
  <2>1. PICK c \in Calls :
            /\ c[1] = s /\ key[c] = current_query_[s]
            /\ SF!NotifyFind(c) \/ SF!NotifyNone(c)
            /\ publishing' = [publishing EXCEPT ![s] = c]
            /\ published' = [published EXCEPT ![c] = server_buffer_[s]]
    BY <1>16 DEF S2CNotify
  <2>2. /\ s2c[s] = "publishing" /\ publishing[s] = NoFlight
        /\ UNCHANGED <<during, cached_response_, again>>
    BY <1>16 DEF S2CNotify
  <2>3. server_buffer_[s] \in Chunks
    BY <1>p, <2>2 DEF Linked
  <2>4. /\ publishing' \in [Sessions -> Calls \cup {NoFlight}] /\ publishing'[s] = c
        /\ published' \in [Calls -> Chunks \cup {NoChunk}] /\ published'[c] \in Chunks
        /\ \A r \in Sessions : r # s => publishing'[r] = publishing[r]
        /\ \A d \in Calls : d # c => published'[d] = published[d]
    BY <1>p, <2>1, <2>3 DEF PlainTypes
  <2>5. PlainTypes'
    BY <1>p, <2>2, <2>4 DEF PlainTypes, during
  <2>6. \A r \in Sessions : r # s => SameLinks(r)
    BY <2>2, <2>4 DEF SameLinks, during
  <2>7. /\ \A d \in Calls : d # c => pc'[d] = pc[d]
        /\ UNCHANGED <<ready, result>>
    BY <2>1, FlightTypes DEF TypeOK, SF!NotifyFind, SF!NotifyNone, SF!EnterNotify
  <2>8. \A f \in Calls : ready[f] => result[f] \in Calls
    BY FlightTypes DEF TypeOK
  <2>9. Handed'
    BY <1>p, <2>4, <2>7, <2>8 DEF Handed
  <2>10. Linked(s)'
    BY <1>p, <1>k, <2>1, <2>2, <2>4 DEF Linked, during, Call
  <2> QED
    BY <1>0, <2>5, <2>6, <2>9, <2>10
<1>17. ASSUME NEW s \in Sessions, S2CPublish(s)
       PROVE  TypeOK'
  <2> DEFINE c == publishing[s]
  <2>1. /\ c # NoFlight
        /\ SF!NotifyMark(c) \/ SF!NotifyErase(c)
        /\ UNCHANGED <<during, cached_response_, notice, again>>
    BY <1>17 DEF S2CPublish
  <2>2. c \in Calls
    BY <1>17, <1>p DEF PlainTypes, S2CPublish
  <2> HIDE DEF c
  <2>3. PlainTypes'
    BY <1>p, <2>1 DEF PlainTypes, during
  <2>4. \A r \in Sessions : SameLinks(r)
    BY <2>1 DEF SameLinks, during
  <2>5. \A d \in Calls : d # c => pc'[d] = pc[d]
    BY <2>1, FlightTypes DEF TypeOK, SF!NotifyMark, SF!NotifyErase
  <2>6. CASE SF!NotifyMark(c)
    <3>1. /\ found[c] \in Calls /\ published[c] \in Chunks
          /\ result' = [result EXCEPT ![found[c]] = c]
          /\ ready' = [ready EXCEPT ![found[c]] = TRUE]
      BY <1>p, <2>2, <2>6, FlightTypes DEF TypeOK, SF!NotifyMark, Handed
    <3>2. /\ result'[found[c]] = c
          /\ \A f \in Calls : f # found[c] => result'[f] = result[f] /\ ready'[f] = ready[f]
      BY <3>1, FlightTypes DEF TypeOK
    <3>3. published' = published
      BY <2>1
    <3>4. Handed'
      BY <1>p, <2>5, <3>1, <3>2, <3>3 DEF Handed
    <3>5. Linked(s)'
      BY <1>p, <1>k, <2>4, LinkedFrame
    <3> QED
      BY <1>0, <2>3, <2>4, <3>4, <3>5
  <2>7. CASE SF!NotifyErase(c)
    <3>1. UNCHANGED <<ready, result, published>> /\ pc'[c] = "done"
      BY <2>1, <2>2, <2>7, FlightTypes DEF TypeOK, SF!NotifyErase
    <3>2. Handed'
      BY <1>p, <2>5, <3>1 DEF Handed
    <3>3. Linked(s)'
      BY <1>p, <1>k, <2>4, LinkedFrame
    <3> QED
      BY <1>0, <2>3, <2>4, <3>2, <3>3
  <2> QED
    BY <2>1, <2>6, <2>7
<1>18. ASSUME NEW s \in Sessions, S2CCallback(s)
       PROVE  TypeOK'
  <2>1. /\ publishing[s] # NoFlight /\ SF!NotifyCallback(publishing[s])
        /\ UNCHANGED <<s2c, session, current_query_, server_buffer_, cache, notice, wires,
                       script, client>>
    BY <1>18 DEF S2CCallback
  <2>2. PICK c \in Calls : c = publishing[s]
    BY <1>p, <2>1 DEF PlainTypes
  <2>3. PICK w \in Calls : w = Head(todo[c])
    BY <2>1, <2>2, FlightTypes DEF TypeOK, SF!NotifyCallback
  <2>4. PICK r \in Sessions : r = w[1]
    BY <2>3, CallsMeans
  <2> DEFINE x == IF is_destroying_[r] THEN cached_response_[r] ELSE published[c]
             next == IF is_destroying_[r] \/ got[w] # <<>> THEN c2s[r] ELSE "replying"
  <2>5. published[c] \in Chunks
    BY <1>p, <2>1, <2>2 DEF SF!NotifyCallback, Handed
  <2>6. /\ cached_response_' = [cached_response_ EXCEPT ![r] = x]
        /\ c2s' = [c2s EXCEPT ![r] = next]
        /\ again' \in SUBSET Sessions
    BY <1>18, <1>p, <2>2, <2>3, <2>4 DEF S2CCallback, PlainTypes
  <2>7. /\ x \in Chunks \cup {NoChunk} /\ next \in C2S
        /\ next = "replying" => x \in Chunks
        /\ next = "looking" => c2s[r] = "looking"
    BY <1>p, <2>4, <2>5 DEF PlainTypes, Linked, C2S
  <2>8. UNCHANGED <<pc, ready, result, published>>
    BY <2>1 DEF SF!NotifyCallback
  <2> HIDE DEF x, next
  <2>9. /\ c2s' \in [Sessions -> C2S] /\ c2s'[r] = next
        /\ cached_response_' \in [Sessions -> Chunks \cup {NoChunk}]
        /\ cached_response_'[r] = x
        /\ \A t \in Sessions : t # r => /\ c2s'[t] = c2s[t]
                                        /\ cached_response_'[t] = cached_response_[t]
    BY <1>p, <2>4, <2>6, <2>7 DEF PlainTypes
  <2>10. PlainTypes'
    BY <1>p, <2>1, <2>6, <2>9 DEF PlainTypes
  <2>11. \A t \in Sessions : t # r => SameLinks(t)
    BY <2>1, <2>9 DEF SameLinks
  <2>12. Handed'
    BY <1>p, <2>8 DEF Handed
  <2>13. Linked(r)'
    BY <1>p, <1>k, <2>1, <2>4, <2>7, <2>9 DEF Linked, Call
  <2> QED
    BY <1>0, <2>4, <2>10, <2>11, <2>12, <2>13
<1>19. ASSUME NEW s \in Sessions, S2CNotified(s)
       PROVE  TypeOK'
  <2> DEFINE next == IF client_closed_[s] \/ is_destroying_[s] THEN "stopped" ELSE "writing"
  <2>1. /\ publishing[s] # NoFlight
        /\ publishing' = [publishing EXCEPT ![s] = NoFlight]
        /\ current_query_' = [current_query_ EXCEPT ![s] = NoQuery]
        /\ s2c' = [s2c EXCEPT ![s] = next]
        /\ UNCHANGED <<c2s, session, buffers, cache, flight, published, wires, script, client,
                       again>>
    BY <1>19 DEF S2CNotified, Notified
  <2>2. next \in {"stopped", "writing"} /\ server_buffer_[s] \in Chunks
    BY <1>p, <2>1 DEF Linked
  <2> HIDE DEF next
  <2>3. /\ publishing' \in [Sessions -> Calls \cup {NoFlight}] /\ publishing'[s] = NoFlight
        /\ current_query_' \in [Sessions -> Texts \cup {NoQuery}]
        /\ s2c' \in [Sessions -> S2C] /\ s2c'[s] = next
        /\ \A r \in Sessions : r # s => s2c'[r] = s2c[r] /\ publishing'[r] = publishing[r]
    BY <1>p, <2>1, <2>2 DEF PlainTypes, S2C
  <2>4. PlainTypes'
    BY <1>p, <2>1, <2>3 DEF PlainTypes
  <2>5. \A r \in Sessions : r # s => SameLinks(r)
    BY <2>1, <2>3 DEF SameLinks
  <2>6. Handed'
    BY <1>p, <2>1, HandedFrame
  <2>7. Linked(s)'
    BY <1>p, <1>k, <2>1, <2>2, <2>3 DEF Linked, Call
  <2> QED
    BY <1>0, <2>4, <2>5, <2>6, <2>7
<1>20. ASSUME NEW s \in Sessions, S2CDelivered(s)
       PROVE  TypeOK'
  <2>1. /\ s2c[s] = "writing" /\ Deliver(s, server_buffer_[s])
        /\ server_buffer_' = [server_buffer_ EXCEPT ![s] = NoChunk]
        /\ s2c' = [s2c EXCEPT ![s] = "written"]
        /\ UNCHANGED <<c2s, session, current_query_, cached_response_, cache, flight, notice,
                       wires, script, again>>
    BY <1>20 DEF S2CDelivered
  <2>2. /\ answered' \in [Sessions -> 0 .. MaxSends]
        /\ nextPart' \in [Sessions -> 1 .. MaxChunks + 1]
        /\ misled' \in [Sessions -> BOOLEAN]
    BY <1>p, <2>1, DeliverType DEF Linked
  <2>3. /\ server_buffer_' \in [Sessions -> Chunks \cup {NoChunk}]
        /\ s2c' \in [Sessions -> S2C] /\ s2c'[s] = "written"
        /\ \A r \in Sessions : r # s => /\ s2c'[r] = s2c[r]
                                        /\ server_buffer_'[r] = server_buffer_[r]
    BY <1>p, <2>1 DEF PlainTypes, S2C
  <2>4. PlainTypes'
    BY <1>p, <2>1, <2>2, <2>3 DEF PlainTypes
  <2>5. \A r \in Sessions : r # s => SameLinks(r)
    BY <2>1, <2>3 DEF SameLinks
  <2>6. Handed'
    BY <1>p, <2>1, HandedFrame
  <2>7. Linked(s)'
    BY <1>p, <1>k, <2>1, <2>3 DEF Linked, Call
  <2> QED
    BY <1>0, <2>4, <2>5, <2>6, <2>7
<1>21. ASSUME NEW s \in Sessions, S2CWritten(s) \/ S2CExpectedError(s)
       PROVE  TypeOK'
  <2>1. /\ s2c' \in [Sessions -> S2C] /\ s2c'[s] \in {"reading", "stopped"}
        /\ s2c[s] \in {"reading", "writing", "written"}
        /\ \A r \in Sessions : r # s => s2c'[r] = s2c[r]
    <3>1. CASE S2CWritten(s)
      BY <1>p, <3>1 DEF S2CWritten, PlainTypes, S2C
    <3>2. CASE S2CExpectedError(s)
      BY <1>p, <3>2 DEF S2CExpectedError, PlainTypes, S2C
    <3> QED
      BY <1>21, <3>1, <3>2
  <2>2. UNCHANGED <<c2s, session, current_query_, buffers, cache, flight, notice, wires,
                    script, client, again>>
    BY <1>21 DEF S2CWritten, S2CExpectedError
  <2>3. PlainTypes'
    BY <1>p, <2>1, <2>2 DEF PlainTypes
  <2>4. \A r \in Sessions : r # s => SameLinks(r)
    BY <2>1, <2>2 DEF SameLinks
  <2>5. Handed'
    BY <1>p, <2>2, HandedFrame
  <2>6. Linked(s)'
    BY <1>p, <1>k, <2>1, <2>2 DEF Linked, Call
  <2> QED
    BY <1>0, <2>3, <2>4, <2>5, <2>6
<1>22. ASSUME NEW s \in Sessions, Close(s),
              UNCHANGED <<current_query_, cache, flight, notice, script, client, again>>,
              client_closed_' \in [Sessions -> BOOLEAN],
              server_closed_' \in [Sessions -> BOOLEAN]
       PROVE  TypeOK'
  <2>1. /\ is_destroying_' \in [Sessions -> BOOLEAN]
        /\ c2s' \in [Sessions -> C2S]
        /\ c2s'[s] = IF c2s[s] = "looking" THEN "looking" ELSE "stopped"
        /\ s2c' \in [Sessions -> S2C]
        /\ s2c'[s] = IF s2c[s] = "publishing" THEN "publishing" ELSE "stopped"
        /\ \A r \in Sessions : r # s => c2s'[r] = c2s[r] /\ s2c'[r] = s2c[r]
    BY <1>p, <1>22 DEF Close, PlainTypes, C2S, S2C
  <2>2. /\ toServer' \in [Sessions -> Seq(Messages)] /\ fromServer' \in [Sessions -> Seq(Chunks)]
    BY <1>p, <1>e, <1>22 DEF Close, PlainTypes
  <2>3. /\ cached_response_' \in [Sessions -> Chunks \cup {NoChunk}]
        /\ server_buffer_' \in [Sessions -> Chunks \cup {NoChunk}]
        /\ s2c[s] = "publishing" => server_buffer_'[s] = server_buffer_[s]
        /\ \A r \in Sessions : r # s => /\ cached_response_'[r] = cached_response_[r]
                                        /\ server_buffer_'[r] = server_buffer_[r]
    BY <1>p, <1>22 DEF Close, PlainTypes
  <2>4. PlainTypes'
    BY <1>p, <1>22, <2>1, <2>2, <2>3 DEF PlainTypes
  <2>5. \A r \in Sessions : r # s => SameLinks(r)
    BY <1>22, <2>1, <2>3 DEF SameLinks
  <2>6. Handed'
    BY <1>p, <1>22, HandedFrame
  <2>7. Linked(s)'
    BY <1>p, <1>k, <1>22, <2>1, <2>3 DEF Linked, Call
  <2> QED
    BY <1>0, <2>4, <2>5, <2>6, <2>7
<1>23. ASSUME NEW s \in Sessions, C2SReadEof(s)
       PROVE  TypeOK'
  <2>1. client_closed_' \in [Sessions -> BOOLEAN] /\ server_closed_' \in [Sessions -> BOOLEAN]
    BY <1>p, <1>23 DEF C2SReadEof, PlainTypes
  <2>2. UNCHANGED <<server_closed_, current_query_, cache, flight, notice, script, client,
                    again>>
    BY <1>23 DEF C2SReadEof
  <2>3. CASE server_closed_[s]
    BY <1>22, <1>23, <2>1, <2>2, <2>3 DEF C2SReadEof
  <2>4. CASE ~server_closed_[s]
    <3>1. /\ c2s' = [c2s EXCEPT ![s] = "stopped"]
          /\ UNCHANGED <<s2c, is_destroying_, wires, buffers>>
      BY <1>23, <2>4 DEF C2SReadEof
    <3>2. /\ c2s' \in [Sessions -> C2S] /\ c2s'[s] = "stopped"
          /\ \A r \in Sessions : r # s => c2s'[r] = c2s[r]
      BY <1>p, <3>1 DEF PlainTypes, C2S
    <3>3. PlainTypes'
      BY <1>p, <2>1, <2>2, <3>1, <3>2 DEF PlainTypes
    <3>4. \A r \in Sessions : r # s => SameLinks(r)
      BY <2>2, <3>1, <3>2 DEF SameLinks
    <3>5. Handed'
      BY <1>p, <2>2, HandedFrame
    <3>6. Linked(s)'
      BY <1>p, <1>k, <2>2, <3>1, <3>2 DEF Linked, Call
    <3> QED
      BY <1>0, <3>3, <3>4, <3>5, <3>6
  <2> QED
    BY <2>3, <2>4
<1>24. ASSUME NEW s \in Sessions, S2CReadEof(s)
       PROVE  TypeOK'
  <2>1. client_closed_' \in [Sessions -> BOOLEAN] /\ server_closed_' \in [Sessions -> BOOLEAN]
    BY <1>p, <1>24 DEF S2CReadEof, PlainTypes
  <2>2. UNCHANGED <<client_closed_, current_query_, cache, flight, notice, script, client,
                    again>>
    BY <1>24 DEF S2CReadEof
  <2>3. CASE client_closed_[s]
    BY <1>22, <1>24, <2>1, <2>2, <2>3 DEF S2CReadEof
  <2>4. CASE ~client_closed_[s]
    <3>1. /\ s2c[s] = "reading" /\ s2c' = [s2c EXCEPT ![s] = "stopped"]
          /\ UNCHANGED <<c2s, is_destroying_, wires, buffers>>
      BY <1>24, <2>4 DEF S2CReadEof
    <3>2. /\ s2c' \in [Sessions -> S2C] /\ s2c'[s] = "stopped"
          /\ \A r \in Sessions : r # s => s2c'[r] = s2c[r]
      BY <1>p, <3>1 DEF PlainTypes, S2C
    <3>3. PlainTypes'
      BY <1>p, <2>1, <2>2, <3>1, <3>2 DEF PlainTypes
    <3>4. \A r \in Sessions : r # s => SameLinks(r)
      BY <2>2, <3>1, <3>2 DEF SameLinks
    <3>5. Handed'
      BY <1>p, <2>2, HandedFrame
    <3>6. Linked(s)'
      BY <1>p, <1>k, <2>2, <3>1, <3>2 DEF Linked, Call
    <3> QED
      BY <1>0, <3>3, <3>4, <3>5, <3>6
  <2> QED
    BY <2>3, <2>4
<1>25. ASSUME NEW s \in Sessions, C2SExpectedError(s)
       PROVE  TypeOK'
  <2>1. toServer' \in [Sessions -> Seq(Messages)]
    <3>1. ASSUME toServer[s] # <<>>
          PROVE  Front(toServer[s]) \in Seq(Messages)
      BY <3>1, SubSeqProperties DEF Front, TypeOK
    <3> QED
      BY <1>25, <3>1 DEF C2SExpectedError, TypeOK
  <2>2. /\ c2s' \in [Sessions -> C2S] /\ c2s'[s] = "stopped"
        /\ \A r \in Sessions : r # s => c2s'[r] = c2s[r]
    BY <1>p, <1>25 DEF C2SExpectedError, PlainTypes, C2S
  <2>3. UNCHANGED <<s2c, session, current_query_, buffers, cache, flight, notice,
                    fromServer, script, client, again>>
    BY <1>25 DEF C2SExpectedError
  <2>4. PlainTypes'
    BY <1>p, <2>1, <2>2, <2>3 DEF PlainTypes
  <2>5. \A r \in Sessions : r # s => SameLinks(r)
    BY <2>2, <2>3 DEF SameLinks
  <2>6. Handed'
    BY <1>p, <2>3, HandedFrame
  <2>7. Linked(s)'
    BY <1>p, <1>k, <2>2, <2>3 DEF Linked, Call
  <2> QED
    BY <1>0, <2>4, <2>5, <2>6, <2>7
<1>26. ASSUME NEW s \in Sessions, OtherError(s)
       PROVE  TypeOK'
  <2>1. /\ Close(s)
        /\ UNCHANGED <<client_closed_, server_closed_, current_query_, cache, flight, notice,
                       script, client, again>>
    BY <1>26 DEF OtherError
  <2>2. client_closed_' \in [Sessions -> BOOLEAN] /\ server_closed_' \in [Sessions -> BOOLEAN]
    BY <1>p, <2>1 DEF PlainTypes
  <2> QED
    BY <1>22, <2>1, <2>2
<1>27. ASSUME NEW q \in Texts, Evict(q)
       PROVE  TypeOK'
  BY <1>27 DEF Evict, TypeOK, flight, SF!TypeOK, Call
<1>28. CASE UNCHANGED vars
  BY <1>28 DEF vars, TypeOK, flight, SF!TypeOK, Call
<1>29. again \subseteq Sessions
  BY <1>p DEF PlainTypes
<1> QED
  BY <1>1, <1>2, <1>5, <1>6, <1>7, <1>9, <1>10, <1>11, <1>12, <1>13, <1>15, <1>16, <1>17,
     <1>18, <1>19, <1>20, <1>21, <1>23, <1>24, <1>25, <1>26, <1>27, <1>28, <1>29
  DEF Next, Work, Look, ServerChain, Fail

LEMMA InitType == Init => TypeOK
<1> SUFFICES ASSUME Init
             PROVE  TypeOK
  OBVIOUS
<1>1. MaxChunks \in Nat /\ MaxSends \in Nat
  BY BridgeAssumption
<1>2. /\ nextPart \in [Sessions -> 1 .. MaxChunks + 1]
      /\ sends \in [Sessions -> 0 .. MaxSends] /\ taken \in [Sessions -> 0 .. MaxSends]
      /\ answered \in [Sessions -> 0 .. MaxSends]
  BY <1>1 DEF Init
<1>3. <<>> \in Seq(Messages) /\ <<>> \in Seq(Chunks)
  OBVIOUS
<1>4. SF!TypeOK
  BY FlightInit, SameType DEF SFP!IInv
<1>5. PlainTypes
  BY <1>2, <1>3 DEF Init, PlainTypes, C2S, S2C
<1>6. \A s \in Sessions : Linked(s)
  BY DEF Init, Linked
<1>7. Handed
  BY DEF Init, SF!Init, Handed
<1> QED
  BY <1>4, <1>5, <1>6, <1>7, TypeParts

\* Every variable keeps its type, with or without pipelining: what a session
\* is about to send exists.  That a flight's pointers are never null, and its
\* result has been published, rests on the invariant of SingleFlight.
THEOREM BridgeTypeCorrect == Spec => []TypeOK
<1>1. Init => TypeOK /\ SFP!IInv
  BY InitType, FlightInit
<1>2. TypeOK /\ SFP!IInv /\ [Next]_vars => TypeOK' /\ SFP!IInv'
  BY FlightInvariant, TypeStep
<1> QED
  BY <1>1, <1>2, PTL DEF Spec
-----------------------------------------------------------------------------
(* The conversation of one session: where its client's message is *)

\* x is the first piece of the answer to q.
First(x, q) == x.msg = q /\ x.part = 1

\* Call c is registered with a flight, or in a publisher's copy.
Unserved(c) == pc[c] = "waiter" /\ got[c] = <<>>

\* The last message the client of s has sent, and whether it is unanswered.
Latest(s) == <<s, sends[s]>>
Message(s) == key[Latest(s)]
Waits(s) == sends[s] = answered[s] + 1

\* The handler of a client's query has it in hand, or a flight has it.
Served(s) == c2s[s] \in {"looking", "waiting", "replying"}

\* Pieces of an answer are on their way from the database of s to its client.
Coming(s) == fromServer[s] # <<>> \/ s2c[s] \in {"publishing", "writing"}

\* While the client waits for no answer, there is nothing of it anywhere.
Quiet(s) ==
    ~Waits(s) => /\ sends[s] = answered[s] /\ nextPart[s] = 1
                 /\ taken[s] = sends[s] /\ toServer[s] = <<>> /\ ~Coming(s) /\ ~Served(s)

\* Its message is on the way to the proxy, and nowhere else ...
InProxy(s) ==
    taken[s] # sends[s] =>
        /\ sends[s] = taken[s] + 1 /\ Waits(s) /\ nextPart[s] = 1
        /\ toServer[s] = <<>> /\ ~Coming(s) /\ ~Served(s) /\ current_query_[s] = NoQuery

\* ... or on the way to the database ...
AtDatabase(s) ==
    toServer[s] # <<>> => /\ toServer[s] = <<Message(s)>> /\ nextPart[s] = 1
                          /\ ~Coming(s) /\ ~Served(s)

\* ... or in the cache or a flight ...
InCache(s) ==
    Served(s) => nextPart[s] = 1 /\ ~Coming(s) /\ current_query_[s] = NoQuery

\* ... or being answered by the database, piece after piece in order.
Follow(s, k) ==
    \A i \in DOMAIN fromServer[s] :
        /\ fromServer[s][i].msg = Message(s)
        /\ fromServer[s][i].part = k + i
        /\ fromServer[s][i].last => i = Len(fromServer[s])

Answering(s) ==
    /\ s2c[s] \in {"reading", "written"} => Follow(s, nextPart[s] - 1)
    /\ s2c[s] \in {"publishing", "writing"} =>
           /\ server_buffer_[s].msg = Message(s)
           /\ server_buffer_[s].part = nextPart[s]
           /\ server_buffer_[s].last => fromServer[s] = <<>>
           /\ Follow(s, nextPart[s])

\* The query it leads is the one its client waits for, no piece of the answer
\* has been forwarded yet, and the call it publishes for is that query's.
Leading(s) ==
    /\ current_query_[s] # NoQuery =>
           /\ Waits(s) /\ nextPart[s] = 1
           /\ Message(s) = current_query_[s] /\ s2c[s] # "writing"
    /\ s2c[s] = "publishing" => current_query_[s] # NoQuery
    /\ publishing[s] # NoFlight => publishing[s] = Latest(s)
    /\ \A n \in 1 .. MaxSends :
           pc[<<s, n>>] = "leading" /\ key[<<s, n>>] # NoQuery => n = sends[s]

\* So is the query it has registered for, for which it waits while it is alive.
Waiting(s) ==
    \A n \in 1 .. MaxSends : Unserved(<<s, n>>) =>
        /\ n = sends[s] /\ Waits(s) /\ nextPart[s] = 1
        /\ is_destroying_[s] \/ c2s[s] = "waiting"

\* What a callback sends is the first piece of the answer.
Replying(s) == c2s[s] = "replying" => First(cached_response_[s], Message(s))

Closed(s) ==
    is_destroying_[s] => /\ c2s[s] \in {"looking", "stopped"}
                         /\ s2c[s] \in {"publishing", "stopped"}
                         /\ toServer[s] = <<>> /\ fromServer[s] = <<>>

Conv(s) == /\ Quiet(s) /\ InProxy(s) /\ AtDatabase(s) /\ InCache(s) /\ Answering(s)
           /\ Leading(s) /\ Waiting(s) /\ Replying(s) /\ Closed(s)

\* What a publisher is handing out is the first piece of its query's answer.
Publications == \A c \in Calls : pc[c] \in {"notify", "calling"} => First(published[c], key[c])

\* Once an on_result has run twice nothing is claimed of the conversations.
IInv ==
    /\ TypeOK /\ SFP!IInv
    /\ CacheAttribution /\ LeaderRemembersQuery /\ Publications
    /\ again = {} => NoClientMisled /\ \A s \in Sessions : Conv(s)

-----------------------------------------------------------------------------

LEMMA One ==
    ASSUME NEW m \in Messages
    PROVE  /\ <<m>> # <<>> /\ Head(<<m>>) = m /\ Tail(<<m>>) = <<>>
           /\ Append(<<>>, m) = <<m>> /\ Len(<<m>>) = 1 /\ Front(<<m>>) = <<>>
<1>1. <<m>> \in Seq(Messages) /\ Len(<<m>>) = 1 /\ <<m>>[1] = m
  OBVIOUS
<1>2. Front(<<m>>) = <<>>
  BY <1>1, SubSeqProperties DEF Front
<1> QED
  BY <1>1, <1>2

LEMMA AppendNotEmpty ==
    ASSUME NEW S, NEW l \in Seq(S), NEW e \in S
    PROVE  Append(l, e) # <<>>
<1>1. /\ Append(l, e) \in Seq(S)
      /\ Len(Append(l, e)) = Len(l) + 1
      /\ Append(l, e)[Len(l) + 1] = e
      /\ DOMAIN l = 1 .. Len(l) /\ DOMAIN Append(l, e) = 1 .. Len(l) + 1
  OBVIOUS
<1> QED
  BY <1>1

LEMMA Counters ==
    ASSUME TypeOK, NEW s \in Sessions
    PROVE  /\ sends[s] \in Nat /\ taken[s] \in Nat /\ answered[s] \in Nat /\ nextPart[s] \in Nat
           /\ sends[s] \in 0 .. MaxSends
  BY BridgeAssumption DEF TypeOK

\* No call of r starts to lead or to wait.
Calm(r) ==
    \A n \in 1 .. MaxSends : /\ Unserved(<<r, n>>)' => Unserved(<<r, n>>)
                             /\ pc'[<<r, n>>] = "leading" => pc[<<r, n>>] = "leading"

\* Nothing of r changes, but that its call may have been served or published.
Same(r) ==
    /\ c2s'[r] = c2s[r] /\ s2c'[r] = s2c[r] /\ is_destroying_'[r] = is_destroying_[r]
    /\ current_query_'[r] = current_query_[r]
    /\ cached_response_'[r] = cached_response_[r] /\ server_buffer_'[r] = server_buffer_[r]
    /\ toServer'[r] = toServer[r] /\ fromServer'[r] = fromServer[r]
    /\ sends'[r] = sends[r] /\ taken'[r] = taken[r]
    /\ answered'[r] = answered[r] /\ nextPart'[r] = nextPart[r]
    /\ publishing'[r] = publishing[r]

LEMMA CalmFrame ==
    ASSUME UNCHANGED flight, NEW r
    PROVE  Calm(r)
  BY DEF flight, Calm, Unserved

LEMMA Frame ==
    ASSUME key' = key, NEW r \in Sessions, Conv(r), Same(r), Calm(r)
    PROVE  Conv(r)'
<1>1. /\ Served(r)' <=> Served(r)
      /\ Coming(r)' <=> Coming(r)
      /\ Waits(r)' <=> Waits(r)
      /\ Message(r)' = Message(r) /\ Latest(r)' = Latest(r)
  BY DEF Same, Served, Coming, Waits, Message, Latest
<1> USE DEF Conv, Same
<1>2. Quiet(r)' /\ InProxy(r)' /\ AtDatabase(r)' /\ InCache(r)'
  BY <1>1 DEF Quiet, InProxy, AtDatabase, InCache
<1>3. Answering(r)'
  BY <1>1 DEF Answering, Follow
<1>4. Leading(r)'
  BY <1>1 DEF Leading, Calm
<1>5. Waiting(r)'
  BY <1>1 DEF Waiting, Calm
<1>6. Replying(r)' /\ Closed(r)'
  BY <1>1 DEF Replying, First, Closed
<1> QED
  BY <1>2, <1>3, <1>4, <1>5, <1>6

\* A step that ends or resumes a chain of s without giving anybody anything
\* more: what is being done for the client is dropped or goes on.
Less(s) ==
    /\ is_destroying_'[s] = is_destroying_[s] /\ current_query_'[s] = current_query_[s]
    /\ cached_response_'[s] = cached_response_[s] /\ server_buffer_'[s] = server_buffer_[s]
    /\ fromServer'[s] = fromServer[s] /\ publishing'[s] = publishing[s]
    /\ sends'[s] = sends[s] /\ taken'[s] = taken[s]
    /\ answered'[s] = answered[s] /\ nextPart'[s] = nextPart[s]
    /\ toServer'[s] = toServer[s] \/ toServer'[s] = <<>>
    /\ \/ c2s'[s] = c2s[s]
       \/ /\ c2s[s] \in {"reading", "writing", "replying"}
          /\ c2s'[s] \in {"stopped", "reading"} /\ ~is_destroying_[s]
    /\ \/ s2c'[s] = s2c[s]
       \/ s2c'[s] = "stopped"
       \/ s2c[s] = "written" /\ s2c'[s] = "reading"

LEMMA Weaken ==
    ASSUME key' = key, NEW s \in Sessions, Conv(s), Less(s), Calm(s)
    PROVE  Conv(s)'
<1>1. /\ Served(s)' => Served(s)
      /\ Coming(s)' => Coming(s)
      /\ Waits(s)' <=> Waits(s)
      /\ Message(s)' = Message(s) /\ Latest(s)' = Latest(s)
  BY DEF Less, Served, Coming, Waits, Message, Latest
<1> USE DEF Conv, Less
<1>2. Quiet(s)' /\ InProxy(s)' /\ AtDatabase(s)' /\ InCache(s)'
  BY <1>1 DEF Quiet, InProxy, AtDatabase, InCache
<1>3. Answering(s)'
  BY <1>1 DEF Answering, Follow
<1>4. Leading(s)'
  BY <1>1 DEF Leading, Calm
<1>5. Waiting(s)'
  BY <1>1 DEF Waiting, Calm
<1>6. Replying(s)' /\ Closed(s)'
  BY <1>1 DEF Replying, First, Closed
<1> QED
  BY <1>2, <1>3, <1>4, <1>5, <1>6

\* close() leaves nothing of the session but what it has with the cache.
LEMMA CloseConv ==
    ASSUME NEW s \in Sessions, TypeOK, Conv(s), Close(s),
           UNCHANGED <<current_query_, flight, publishing, script, client>>
    PROVE  Conv(s)'
<1>1. /\ is_destroying_'[s] = TRUE
      /\ c2s'[s] = IF c2s[s] = "looking" THEN "looking" ELSE "stopped"
      /\ s2c'[s] = IF s2c[s] = "publishing" THEN "publishing" ELSE "stopped"
      /\ toServer'[s] = <<>> /\ fromServer'[s] = <<>>
      /\ s2c[s] = "publishing" => server_buffer_'[s] = server_buffer_[s]
  BY DEF Close, TypeOK
<1>2. /\ current_query_'[s] = current_query_[s] /\ publishing'[s] = publishing[s]
      /\ sends'[s] = sends[s] /\ taken'[s] = taken[s]
      /\ answered'[s] = answered[s] /\ nextPart'[s] = nextPart[s] /\ key' = key
  BY DEF script, client, flight
<1>3. Calm(s)
  BY CalmFrame
<1>4. /\ Served(s)' => Served(s)
      /\ Coming(s)' => Coming(s)
      /\ Waits(s)' <=> Waits(s)
      /\ Message(s)' = Message(s) /\ Latest(s)' = Latest(s)
  BY <1>1, <1>2 DEF Served, Coming, Waits, Message, Latest
<1> USE DEF Conv
<1>5. Quiet(s)' /\ InProxy(s)' /\ AtDatabase(s)' /\ InCache(s)'
  BY <1>1, <1>2, <1>4 DEF Quiet, InProxy, AtDatabase, InCache
<1>6. Follow(s, nextPart[s])' /\ Follow(s, nextPart[s] - 1)'
  BY <1>1 DEF Follow
<1>7. Answering(s)'
  BY <1>1, <1>2, <1>4, <1>6 DEF Answering
<1>8. Leading(s)'
  BY <1>1, <1>2, <1>3, <1>4 DEF Leading, Calm
<1>9. Waiting(s)'
  BY <1>1, <1>2, <1>3, <1>4 DEF Waiting, Calm
<1>10. Replying(s)' /\ Closed(s)'
  BY <1>1 DEF Replying, Closed
<1> QED
  BY <1>5, <1>7, <1>8, <1>9, <1>10

-----------------------------------------------------------------------------
(* What each action does to the session that takes it *)

\* The session publishes only while its chain is in notifyFlightResult.
LEMMA PublishingMeans ==
    ASSUME TypeOK, NEW s \in Sessions
    PROVE  publishing[s] # NoFlight => s2c[s] = "publishing"
  BY DEF TypeOK

\* A session that has no query in current_query_ leads none.
LEMMA NoLeaderCall ==
    ASSUME LeaderRemembersQuery, NEW s \in Sessions, current_query_[s] = NoQuery,
           NEW n \in 1 .. MaxSends, pc[<<s, n>>] = "leading"
    PROVE  key[<<s, n>>] = NoQuery
  BY CallsMeans DEF LeaderRemembersQuery

\* A new message: the client had none unanswered.
LEMMA SendConv ==
    ASSUME NEW s \in Sessions, TypeOK, LeaderRemembersQuery, Conv(s), Pipelining = FALSE,
           ClientSend(s)
    PROVE  Conv(s)'
<1>1. /\ answered[s] = sends[s] /\ sends'[s] = sends[s] + 1 /\ taken'[s] = taken[s]
      /\ answered'[s] = answered[s] /\ nextPart'[s] = nextPart[s]
      /\ toServer'[s] = toServer[s] /\ fromServer'[s] = fromServer[s]
      /\ c2s'[s] = c2s[s] /\ s2c'[s] = s2c[s]
      /\ current_query_'[s] = current_query_[s] /\ is_destroying_'[s] = is_destroying_[s]
      /\ publishing'[s] = publishing[s]
  BY DEF ClientSend, TypeOK, session, wires, client, notice
<1>2. UNCHANGED flight /\ UNCHANGED <<key, pc>>
  BY DEF ClientSend, flight
<1>3. /\ sends[s] \in Nat /\ answered[s] \in Nat /\ taken[s] \in Nat /\ ~Waits(s)
  BY <1>1, Counters DEF Waits
<1>4. /\ toServer[s] = <<>> /\ ~Coming(s) /\ ~Served(s) /\ nextPart[s] = 1 /\ taken[s] = sends[s]
  BY <1>3 DEF Conv, Quiet
<1>5. ~Coming(s)' /\ ~Served(s)' /\ Waits(s)'
  BY <1>1, <1>3, <1>4 DEF Coming, Served, Waits
<1>6. current_query_[s] = NoQuery
  BY <1>3 DEF Conv, Leading
<1>7. Quiet(s)' /\ InProxy(s)' /\ AtDatabase(s)' /\ InCache(s)'
  BY <1>1, <1>3, <1>4, <1>5, <1>6 DEF Quiet, InProxy, AtDatabase, InCache
<1>8. Answering(s)'
  BY <1>1, <1>5 DEF Answering, Follow, Coming
<1>9. s2c[s] # "publishing" /\ publishing[s] = NoFlight
  BY <1>4, PublishingMeans DEF Coming
<1>10. Leading(s)'
  BY <1>1, <1>2, <1>6, <1>9, NoLeaderCall DEF Leading
<1>11. Waiting(s)'
  BY <1>2, <1>3, CalmFrame DEF Conv, Waiting, Calm
<1>12. Replying(s)' /\ Closed(s)'
  BY <1>1, <1>5 DEF Conv, Replying, Served, Closed
<1> QED
  BY <1>7, <1>8, <1>10, <1>11, <1>12 DEF Conv

\* The database answers the client's message, whole and in order.
LEMMA AnswerConv ==
    ASSUME NEW s \in Sessions, TypeOK, Conv(s), DbAnswer(s)
    PROVE  Conv(s)'
<1>1. PICK m \in Messages : m = Head(toServer[s])
  BY DbAnswerMeans
<1>2. toServer[s] # <<>> /\ toServer'[s] = Tail(toServer[s])
  BY DbAnswerMeans
<1>3. PICK n \in 1 .. MaxChunks : fromServer'[s] = fromServer[s] \o Pieces(m, n)
  BY <1>1, DbAnswerMeans
<1>4. UNCHANGED <<c2s, s2c, is_destroying_, current_query_, cached_response_, server_buffer_,
                  publishing, sends, taken, answered, nextPart>> /\ UNCHANGED flight /\ key' = key
  BY DEF DbAnswer, session, buffers, notice, script, client, flight
<1>5. toServer[s] = <<Message(s)>> /\ nextPart[s] = 1 /\ ~Coming(s) /\ ~Served(s)
  BY <1>2 DEF Conv, AtDatabase
<1>6. m = Message(s) /\ toServer'[s] = <<>>
  BY <1>1, <1>2, <1>5
<1>7. /\ Pieces(m, n) \in Seq(Chunks)
      /\ Len(Pieces(m, n)) = n /\ DOMAIN Pieces(m, n) = 1 .. n
      /\ \A i \in 1 .. n : /\ Pieces(m, n)[i].msg = m
                           /\ Pieces(m, n)[i].part = i
                           /\ Pieces(m, n)[i].last = (i = n)
  BY <1>1, PiecesType
<1>8. fromServer'[s] = Pieces(m, n) /\ s2c[s] \notin {"publishing", "writing"}
  <2>1. fromServer[s] = <<>> /\ s2c[s] \notin {"publishing", "writing"}
    BY <1>5 DEF Coming
  <2>2. <<>> \o Pieces(m, n) = Pieces(m, n)
    BY <1>7, ConcatEmptySeq
  <2> QED
    BY <1>3, <2>1, <2>2, Zenon
<1>9. /\ ~Served(s)' /\ (Waits(s)' <=> Waits(s))
      /\ Message(s)' = Message(s) /\ Latest(s)' = Latest(s) /\ Calm(s)
  BY <1>4, <1>5, CalmFrame DEF Served, Waits, Message, Latest
<1>10. Waits(s) /\ taken[s] = sends[s]
  BY <1>2 DEF Conv, Quiet, InProxy
<1>11. Quiet(s)' /\ InProxy(s)' /\ AtDatabase(s)' /\ InCache(s)'
  BY <1>4, <1>6, <1>9, <1>10 DEF Quiet, InProxy, AtDatabase, InCache
<1>12. Answering(s)'
  <2>1. \A i \in DOMAIN fromServer'[s] :
            /\ fromServer'[s][i].msg = m
            /\ fromServer'[s][i].part = 0 + i
            /\ fromServer'[s][i].last => i = Len(fromServer'[s])
    <3> SUFFICES ASSUME NEW i \in 1 .. n
                 PROVE  /\ Pieces(m, n)[i].msg = m
                        /\ Pieces(m, n)[i].part = 0 + i
                        /\ Pieces(m, n)[i].last => i = Len(Pieces(m, n))
      BY <1>7, <1>8, Zenon
    <3>1. i \in Nat /\ 0 + i = i
      BY BridgeAssumption
    <3> QED
      BY <1>7, <3>1
  <2>2. nextPart'[s] - 1 = 0
    BY <1>4, <1>5
  <2>3. \A i \in DOMAIN fromServer'[s] :
            /\ fromServer'[s][i].msg = Message(s)'
            /\ fromServer'[s][i].part = (nextPart'[s] - 1) + i
            /\ fromServer'[s][i].last => i = Len(fromServer'[s])
    BY <1>6, <1>9, <2>1, <2>2, Zenon
  <2>4. Follow(s, nextPart[s] - 1)'
    BY <2>3, Zenon DEF Follow
  <2> QED
    BY <1>4, <1>8, <2>4 DEF Answering
<1>13. Leading(s)'
  BY <1>4, <1>9 DEF Conv, Leading, Calm
<1>14. Waiting(s)'
  BY <1>4, <1>9 DEF Conv, Waiting, Calm
<1>15. ~is_destroying_[s]
  BY <1>2 DEF Conv, Closed
<1>16. Replying(s)' /\ Closed(s)'
  BY <1>4, <1>9, <1>15 DEF Replying, Closed, Served
<1> QED
  BY <1>11, <1>12, <1>13, <1>14, <1>16 DEF Conv

\* A handler has the client's message in hand, and it is nowhere else.
Hand(s) ==
    /\ Waits(s) /\ nextPart[s] = 1 /\ toServer[s] = <<>> /\ ~Coming(s)
    /\ current_query_[s] = NoQuery /\ publishing[s] = NoFlight
    /\ \A n \in 1 .. MaxSends : pc[<<s, n>>] = "leading" => key[<<s, n>>] = NoQuery

\* A read from the client completes with a message.
LEMMA ReceivedMeans ==
    ASSUME NEW s \in Sessions, NEW m, TypeOK, LeaderRemembersQuery, Conv(s), Received(s, m)
    PROVE  /\ Hand(s) /\ Message(s) = m /\ taken'[s] = sends[s] /\ ~is_destroying_[s]
           /\ \A n \in 1 .. MaxSends : ~Unserved(<<s, n>>)
           /\ sends' = sends /\ answered' = answered /\ nextPart' = nextPart
           /\ misled' = misled
<1>1. /\ c2s[s] = "reading" /\ taken[s] < sends[s] /\ key[<<s, taken[s] + 1>>] = m
      /\ taken'[s] = taken[s] + 1
      /\ sends' = sends /\ answered' = answered /\ nextPart' = nextPart /\ misled' = misled
  BY DEF Received, TypeOK, client
<1>2. taken[s] # sends[s] /\ taken[s] \in Nat /\ sends[s] \in Nat
  BY <1>1, Counters
<1>3. /\ sends[s] = taken[s] + 1 /\ Waits(s) /\ nextPart[s] = 1
      /\ toServer[s] = <<>> /\ ~Coming(s) /\ ~Served(s) /\ current_query_[s] = NoQuery
  BY <1>2 DEF Conv, InProxy
<1>4. ~is_destroying_[s]
  BY <1>1 DEF Conv, Closed
<1>5. \A n \in 1 .. MaxSends : ~Unserved(<<s, n>>)
  BY <1>3, <1>4 DEF Conv, Waiting, Served
<1>6. publishing[s] = NoFlight
  BY <1>3, PublishingMeans DEF Coming
<1> QED
  BY <1>1, <1>3, <1>4, <1>5, <1>6, NoLeaderCall DEF Hand, Message, Latest

\* A handler that is in doSingleFlight has it as well.
LEMMA LookingMeans ==
    ASSUME NEW s \in Sessions, TypeOK, LeaderRemembersQuery, Conv(s), c2s[s] = "looking",
           pc[Call(s)] # "waiter"
    PROVE  /\ Hand(s) /\ Call(s) = Latest(s) /\ Message(s) = key[Call(s)]
           /\ taken[s] = sends[s]
           /\ \A n \in 1 .. MaxSends : ~Unserved(<<s, n>>)
<1>1. Served(s)
  BY DEF Served
<1>2. nextPart[s] = 1 /\ ~Coming(s) /\ current_query_[s] = NoQuery
  BY <1>1 DEF Conv, InCache
<1>3. Waits(s) /\ taken[s] = sends[s] /\ toServer[s] = <<>>
  BY <1>1 DEF Conv, Quiet, InProxy, AtDatabase
<1>4. publishing[s] = NoFlight
  BY <1>2, PublishingMeans DEF Coming
<1>5. Call(s) = Latest(s)
  BY <1>3 DEF Call, Latest
<1>6. \A n \in 1 .. MaxSends : ~Unserved(<<s, n>>)
  BY <1>5 DEF Conv, Waiting, Unserved, Latest
<1> QED
  BY <1>2, <1>3, <1>4, <1>5, <1>6, NoLeaderCall DEF Hand, Message

\* The message goes to the database, or nowhere.
LEMMA ForwardConv ==
    ASSUME NEW s \in Sessions, TypeOK, Conv(s), Hand(s), key' = key,
           Forward(s, Message(s)), Message(s) \in Messages,
           current_query_'[s] \in {NoQuery, Message(s)},
           taken'[s] = sends[s],
           UNCHANGED <<sends, answered, nextPart>>,
           \A n \in 1 .. MaxSends : ~Unserved(<<s, n>>)',
           \A n \in 1 .. MaxSends :
               pc'[<<s, n>>] = "leading" /\ key[<<s, n>>] # NoQuery => n = sends[s]
    PROVE  Conv(s)'
<1>1. /\ Waits(s) /\ nextPart[s] = 1 /\ toServer[s] = <<>> /\ ~Coming(s)
      /\ publishing[s] = NoFlight
  BY DEF Hand
<1>2. /\ s2c' = s2c /\ fromServer' = fromServer /\ is_destroying_' = is_destroying_
      /\ publishing' = publishing
  BY DEF Forward, session, notice
<1>3. /\ c2s'[s] \in {"stopped", "writing"} /\ (is_destroying_[s] => c2s'[s] = "stopped")
      /\ toServer'[s] = toServer[s] \/ toServer'[s] = Append(toServer[s], Message(s))
      /\ is_destroying_[s] => toServer'[s] = toServer[s]
  BY DEF Forward, TypeOK
<1>4. toServer'[s] = <<>> \/ toServer'[s] = <<Message(s)>>
  BY <1>1, <1>3, One
<1>5. /\ ~Coming(s)' /\ ~Served(s)' /\ Waits(s)'
      /\ Message(s)' = Message(s) /\ Latest(s)' = Latest(s)
  BY <1>1, <1>2, <1>3 DEF Coming, Served, Waits, Message, Latest
<1>6. Quiet(s)' /\ InProxy(s)' /\ AtDatabase(s)' /\ InCache(s)'
  BY <1>1, <1>4, <1>5 DEF Quiet, InProxy, AtDatabase, InCache
<1>7. Answering(s)'
  BY <1>5 DEF Answering, Follow, Coming
<1>8. s2c'[s] \notin {"publishing", "writing"}
  BY <1>5 DEF Coming
<1>9. Leading(s)'
  BY <1>1, <1>2, <1>5, <1>8 DEF Leading
<1>10. Waiting(s)'
  BY DEF Waiting
<1>11. Replying(s)' /\ Closed(s)'
  BY <1>1, <1>2, <1>3 DEF Conv, Replying, Closed
<1> QED
  BY <1>6, <1>7, <1>9, <1>10, <1>11 DEF Conv

\* The message is looked up, registered or answered: c2s has it in hand.
LEMMA ServeConv ==
    ASSUME NEW s \in Sessions, TypeOK, Conv(s), Hand(s), key' = key,
           taken'[s] = sends[s],
           UNCHANGED <<s2c, is_destroying_, current_query_, toServer, fromServer, publishing,
                       sends, answered, nextPart>>,
           c2s'[s] \in {"looking", "waiting", "replying", "stopped"},
           is_destroying_[s] => c2s'[s] \in {"looking", "stopped"},
           c2s'[s] = "replying" => First(cached_response_'[s], Message(s)),
           \A n \in 1 .. MaxSends : Unserved(<<s, n>>)' =>
               n = sends[s] /\ (is_destroying_[s] \/ c2s'[s] = "waiting"),
           \A n \in 1 .. MaxSends : pc'[<<s, n>>] = "leading" => pc[<<s, n>>] = "leading"
    PROVE  Conv(s)'
<1>1. /\ Waits(s) /\ nextPart[s] = 1 /\ toServer[s] = <<>> /\ ~Coming(s)
      /\ publishing[s] = NoFlight /\ current_query_[s] = NoQuery
      /\ \A n \in 1 .. MaxSends : pc[<<s, n>>] = "leading" => key[<<s, n>>] = NoQuery
  BY DEF Hand
<1>2. /\ ~Coming(s)' /\ Waits(s)' /\ Message(s)' = Message(s) /\ Latest(s)' = Latest(s)
  BY <1>1 DEF Coming, Waits, Message, Latest
<1>3. Quiet(s)' /\ InProxy(s)' /\ AtDatabase(s)' /\ InCache(s)'
  BY <1>1, <1>2 DEF Quiet, InProxy, AtDatabase, InCache
<1>4. Answering(s)'
  BY <1>2 DEF Answering, Follow, Coming
<1>5. s2c'[s] \notin {"publishing", "writing"}
  BY <1>2 DEF Coming
<1>6. Leading(s)'
  BY <1>1, <1>2, <1>5 DEF Leading
<1>7. Waiting(s)'
  BY <1>1, <1>2 DEF Waiting
<1>8. Replying(s)' /\ Closed(s)'
  BY <1>1, <1>2 DEF Conv, Replying, First, Closed
<1> QED
  BY <1>3, <1>4, <1>6, <1>7, <1>8 DEF Conv

\* While pieces are coming, the message is nowhere else.
LEMMA ComingMeans ==
    ASSUME NEW s \in Sessions, Conv(s), Coming(s)
    PROVE  /\ ~Served(s) /\ Waits(s) /\ taken[s] = sends[s] /\ toServer[s] = <<>>
  BY DEF Conv, InCache, Quiet, InProxy, AtDatabase

\* A live session that is not waiting is registered with no flight.
LEMMA NotRegistered ==
    ASSUME NEW s \in Sessions, Conv(s), ~is_destroying_[s], c2s[s] # "waiting"
    PROVE  \A n \in 1 .. MaxSends : ~Unserved(<<s, n>>)
  BY DEF Conv, Waiting

\* A piece from the database is the one the client expects, and what follows
\* it are the pieces after that.
LEMMA PieceRead ==
    ASSUME NEW s \in Sessions, TypeOK, Conv(s), s2c[s] = "reading", fromServer[s] # <<>>
    PROVE  LET x == Head(fromServer[s])
               rest == Tail(fromServer[s]) IN
           /\ x \in Chunks /\ x.msg = Message(s) /\ x.part = nextPart[s]
           /\ x.last => rest = <<>>
           /\ \A i \in DOMAIN rest : /\ rest[i].msg = Message(s)
                                     /\ rest[i].part = nextPart[s] + i
                                     /\ rest[i].last => i = Len(rest)
<1> DEFINE f == fromServer[s]
           x == Head(f)
           rest == Tail(f)
<1>1. /\ f \in Seq(Chunks) /\ f # <<>> /\ x \in Chunks /\ rest \in Seq(Chunks)
  BY DEF TypeOK
<1>2. nextPart[s] \in Nat
  BY Counters
<1>3. \A i \in DOMAIN f : /\ f[i].msg = Message(s)
                          /\ f[i].part = (nextPart[s] - 1) + i
                          /\ f[i].last => i = Len(f)
  BY DEF Conv, Answering, Follow
<1> HIDE DEF f
<1>4. /\ Len(f) \in Nat /\ Len(f) >= 1 /\ DOMAIN f = 1 .. Len(f) /\ x = f[1]
      /\ Len(rest) = Len(f) - 1 /\ DOMAIN rest = 1 .. Len(f) - 1
      /\ \A i \in 1 .. Len(f) - 1 : rest[i] = f[i + 1]
  BY <1>1
<1>5. x.msg = Message(s) /\ x.part = nextPart[s] /\ (x.last => Len(f) = 1)
  BY <1>1, <1>2, <1>3, <1>4
<1>6. x.last => rest = <<>>
  BY <1>1, <1>4, <1>5
<1>7. ASSUME NEW i \in DOMAIN rest
      PROVE  /\ rest[i].msg = Message(s)
             /\ rest[i].part = nextPart[s] + i
             /\ rest[i].last => i = Len(rest)
  <2>1. i \in Nat /\ i + 1 \in DOMAIN f /\ rest[i] = f[i + 1]
    BY <1>4, <1>7
  <2>2. /\ f[i + 1].msg = Message(s) /\ f[i + 1].part = (nextPart[s] - 1) + (i + 1)
        /\ f[i + 1].last => i + 1 = Len(f)
    BY <1>3, <2>1
  <2> HIDE DEF rest
  <2>3. (nextPart[s] - 1) + (i + 1) = nextPart[s] + i
    BY <1>2, <2>1
  <2>4. i + 1 = Len(f) => i = Len(rest)
    BY <1>4, <2>1
  <2> QED
    BY <2>1, <2>2, <2>3, <2>4
<1> QED
  BY <1>1, <1>5, <1>6, <1>7 DEF f

\* Reading it moves it into server_buffer_, to be published first if it is led.
LEMMA TakeConv ==
    ASSUME NEW s \in Sessions, TypeOK, Conv(s), s2c[s] = "reading", fromServer[s] # <<>>,
           s2c'[s] \in {"publishing", "writing", "stopped"},
           s2c'[s] = "publishing" <=> current_query_[s] # NoQuery,
           server_buffer_'[s] = Head(fromServer[s]), fromServer'[s] = Tail(fromServer[s]),
           UNCHANGED <<c2s, is_destroying_, current_query_, flight, publishing, toServer,
                       sends, taken, answered, nextPart>>
    PROVE  Conv(s)'
<1> DEFINE x == Head(fromServer[s])
           rest == Tail(fromServer[s])
<1>1. /\ x \in Chunks /\ x.msg = Message(s) /\ x.part = nextPart[s]
      /\ x.last => rest = <<>>
      /\ \A i \in DOMAIN rest : /\ rest[i].msg = Message(s)
                                /\ rest[i].part = nextPart[s] + i
                                /\ rest[i].last => i = Len(rest)
  BY PieceRead
<1>2. server_buffer_'[s] = x /\ fromServer'[s] = rest
  OBVIOUS
<1> HIDE DEF x, rest
<1>3. ~Served(s) /\ Waits(s) /\ taken[s] = sends[s] /\ toServer[s] = <<>>
  BY ComingMeans DEF Coming
<1>4. /\ ~Served(s)' /\ Waits(s)' /\ Message(s)' = Message(s) /\ Latest(s)' = Latest(s)
      /\ Calm(s)
  BY <1>3, CalmFrame DEF Served, Waits, Message, Latest, flight
<1>5. ~is_destroying_[s]
  BY DEF Conv, Closed
<1>6. Quiet(s)' /\ InProxy(s)' /\ AtDatabase(s)' /\ InCache(s)'
  BY <1>3, <1>4 DEF Quiet, InProxy, AtDatabase, InCache
<1>7. Follow(s, nextPart[s])'
  BY <1>1, <1>2, <1>4 DEF Follow
<1>8. Answering(s)'
  BY <1>1, <1>2, <1>4, <1>7 DEF Answering
<1>9. Leading(s)'
  BY <1>4 DEF Conv, Leading, Calm, flight
<1>10. Waiting(s)'
  BY <1>4 DEF Conv, Waiting, Calm
<1>11. Replying(s)' /\ Closed(s)'
  BY <1>4, <1>5 DEF Replying, Closed, Served
<1> QED
  BY <1>6, <1>8, <1>9, <1>10, <1>11 DEF Conv

\* The piece a client is given fits when it is the next one of the answer to
\* its only unanswered message.
LEMMA DeliverFits ==
    ASSUME NEW s \in Sessions, NEW x \in Chunks, TypeOK, Deliver(s, x),
           Waits(s), x.msg = Message(s), x.part = nextPart[s]
    PROVE  /\ misled'[s] = misled[s]
           /\ IF x.last THEN answered'[s] = sends[s] /\ nextPart'[s] = 1
              ELSE answered'[s] = answered[s] /\ nextPart'[s] = nextPart[s] + 1
           /\ \A r \in Sessions : r # s => /\ misled'[r] = misled[r]
                                           /\ answered'[r] = answered[r]
                                           /\ nextPart'[r] = nextPart[r]
<1>1. x.last \in BOOLEAN /\ sends[s] \in Nat /\ answered[s] \in Nat
  BY ChunkFields, Counters
<1>2. sends[s] = answered[s] + 1
  BY DEF Waits
<1> DEFINE fits == /\ answered[s] < sends[s]
                   /\ x.msg = key[<<s, answered[s] + 1>>]
                   /\ x.part = nextPart[s]
<1>3. /\ misled' = [misled EXCEPT ![s] = @ \/ ~fits]
      /\ nextPart' = [nextPart EXCEPT ![s] = IF fits /\ ~x.last THEN @ + 1 ELSE 1]
      /\ answered' = [answered EXCEPT ![s] = IF fits /\ x.last THEN @ + 1 ELSE @]
  BY DEF Deliver
<1>4. fits
  <2>1. answered[s] < sends[s]
    BY <1>1, <1>2
  <2>2. x.msg = key[<<s, answered[s] + 1>>]
    BY <1>2 DEF Message, Latest
  <2> QED
    BY <2>1, <2>2
<1> HIDE DEF fits
<1>5. misled'[s] = misled[s]
  <2>1. misled'[s] = (misled[s] \/ ~fits) /\ misled[s] \in BOOLEAN
    BY <1>3 DEF TypeOK
  <2> QED
    BY <1>4, <2>1, Zenon
<1> QED
  BY <1>1, <1>2, <1>3, <1>4, <1>5 DEF TypeOK

\* What is delivered to the other clients: nothing.
Elsewhere(s) ==
    \A r \in Sessions : r # s => /\ misled'[r] = misled[r] /\ answered'[r] = answered[r]
                                 /\ nextPart'[r] = nextPart[r]

\* The client has a piece from its own database.
LEMMA DeliveredConv ==
    ASSUME NEW s \in Sessions, TypeOK, Conv(s), S2CDelivered(s)
    PROVE  Conv(s)' /\ misled'[s] = misled[s] /\ Elsewhere(s)
<1> DEFINE x == server_buffer_[s]
           f == fromServer[s]
<1>1. /\ s2c[s] = "writing" /\ x \in Chunks /\ Deliver(s, x) /\ s2c'[s] = "written"
      /\ UNCHANGED <<c2s, is_destroying_, current_query_, flight, publishing, toServer,
                     fromServer, cached_response_, sends, taken>>
  BY DEF S2CDelivered, TypeOK, session, notice, wires, script
<1>2. /\ x.msg = Message(s) /\ x.part = nextPart[s] /\ (x.last => f = <<>>)
      /\ \A i \in DOMAIN f : /\ f[i].msg = Message(s)
                             /\ f[i].part = nextPart[s] + i
                             /\ f[i].last => i = Len(f)
  BY <1>1 DEF Conv, Answering, Follow
<1>3. /\ ~Served(s) /\ Waits(s) /\ taken[s] = sends[s] /\ toServer[s] = <<>>
  BY <1>1, ComingMeans DEF Coming
<1>4. current_query_[s] = NoQuery /\ ~is_destroying_[s] /\ publishing[s] = NoFlight
  BY <1>1, PublishingMeans DEF Conv, Leading, Closed
<1>5. \A n \in 1 .. MaxSends : ~Unserved(<<s, n>>)
  BY <1>3, <1>4, NotRegistered DEF Served
<1> HIDE DEF x, f
<1>6. /\ misled'[s] = misled[s]
      /\ IF x.last THEN answered'[s] = sends[s] /\ nextPart'[s] = 1
         ELSE answered'[s] = answered[s] /\ nextPart'[s] = nextPart[s] + 1
      /\ \A r \in Sessions : r # s => /\ misled'[r] = misled[r]
                                      /\ answered'[r] = answered[r]
                                      /\ nextPart'[r] = nextPart[r]
  BY <1>1, <1>2, <1>3, DeliverFits
<1>7. /\ ~Served(s)' /\ Message(s)' = Message(s) /\ Latest(s)' = Latest(s) /\ Calm(s)
  BY <1>1, <1>3, CalmFrame DEF Served, Message, Latest, flight
<1>8. fromServer'[s] = f /\ nextPart[s] \in Nat /\ f \in Seq(Chunks)
  BY <1>1, Counters DEF f, TypeOK
<1>9. x.last => ~Coming(s)'
  BY <1>1, <1>2, <1>8 DEF Coming
<1>10. ~x.last => Waits(s)'
  BY <1>1, <1>3, <1>6 DEF Waits
<1>11. Quiet(s)' /\ InProxy(s)' /\ AtDatabase(s)' /\ InCache(s)'
  BY <1>1, <1>3, <1>6, <1>7, <1>9, <1>10 DEF Quiet, InProxy, AtDatabase, InCache
<1>12. Answering(s)'
  <2>1. ASSUME NEW i \in DOMAIN f
        PROVE  /\ f[i].msg = Message(s)
               /\ f[i].part = (nextPart'[s] - 1) + i
               /\ f[i].last => i = Len(f)
    <3>1. i \in Nat /\ f # <<>>
      BY <1>8, <2>1
    <3>2. nextPart'[s] = nextPart[s] + 1
      BY <1>2, <1>6, <3>1
    <3>3. (nextPart'[s] - 1) + i = nextPart[s] + i
      BY <1>8, <3>1, <3>2
    <3> QED
      BY <1>2, <2>1, <3>3
  <2>2. Follow(s, nextPart[s] - 1)'
    BY <1>7, <1>8, <2>1 DEF Follow
  <2> QED
    BY <1>1, <2>2 DEF Answering
<1>13. Leading(s)'
  BY <1>1, <1>4, <1>7 DEF Conv, Leading, Calm, flight
<1>14. Waiting(s)'
  BY <1>5, <1>7 DEF Waiting, Calm
<1>15. Replying(s)' /\ Closed(s)'
  BY <1>1, <1>4, <1>7 DEF Replying, Closed, Served
<1> QED
  BY <1>6, <1>11, <1>12, <1>13, <1>14, <1>15 DEF Conv, Elsewhere

\* The client has the piece a callback sent it.
LEMMA ReplyConv ==
    ASSUME NEW s \in Sessions, TypeOK, Conv(s), ReplySent(s)
    PROVE  Conv(s)' /\ misled'[s] = misled[s] /\ Elsewhere(s)
<1> DEFINE x == cached_response_[s]
<1>1. /\ c2s[s] = "replying" /\ x \in Chunks /\ Deliver(s, x) /\ c2s'[s] = "reading"
      /\ UNCHANGED <<s2c, is_destroying_, current_query_, flight, publishing, toServer,
                     fromServer, server_buffer_, sends, taken>>
  BY DEF ReplySent, TypeOK, session, notice, wires, script
<1>2. Served(s) /\ x.msg = Message(s) /\ x.part = 1
  BY <1>1 DEF Conv, Replying, First, Served
<1>3. /\ nextPart[s] = 1 /\ ~Coming(s) /\ current_query_[s] = NoQuery
      /\ Waits(s) /\ taken[s] = sends[s] /\ toServer[s] = <<>>
  BY <1>2 DEF Conv, InCache, Quiet, InProxy, AtDatabase
<1>4. ~is_destroying_[s] /\ publishing[s] = NoFlight
  BY <1>1, <1>3, PublishingMeans DEF Conv, Closed, Coming
<1>5. \A n \in 1 .. MaxSends : ~Unserved(<<s, n>>)
  BY <1>1, <1>4, NotRegistered
<1> HIDE DEF x
<1>6. /\ misled'[s] = misled[s]
      /\ IF x.last THEN answered'[s] = sends[s] /\ nextPart'[s] = 1
         ELSE answered'[s] = answered[s] /\ nextPart'[s] = nextPart[s] + 1
      /\ \A r \in Sessions : r # s => /\ misled'[r] = misled[r]
                                      /\ answered'[r] = answered[r]
                                      /\ nextPart'[r] = nextPart[r]
  BY <1>1, <1>2, <1>3, DeliverFits
<1>7. /\ ~Served(s)' /\ ~Coming(s)' /\ Message(s)' = Message(s) /\ Latest(s)' = Latest(s)
      /\ Calm(s)
  BY <1>1, <1>3, CalmFrame DEF Served, Coming, Message, Latest, flight
<1>8. ~x.last => Waits(s)'
  BY <1>1, <1>3, <1>6 DEF Waits
<1>9. Quiet(s)' /\ InProxy(s)' /\ AtDatabase(s)' /\ InCache(s)'
  BY <1>1, <1>3, <1>6, <1>7, <1>8 DEF Quiet, InProxy, AtDatabase, InCache
<1>10. Answering(s)'
  BY <1>7 DEF Answering, Follow, Coming
<1>11. Leading(s)'
  BY <1>1, <1>3, <1>4, <1>7 DEF Conv, Leading, Calm, flight, Coming
<1>12. Waiting(s)'
  BY <1>5, <1>7 DEF Waiting, Calm
<1>13. Replying(s)' /\ Closed(s)'
  BY <1>1, <1>4 DEF Replying, Closed
<1> QED
  BY <1>6, <1>9, <1>10, <1>11, <1>12, <1>13 DEF Conv, Elsewhere

\* A waiter that is called for the first time was waiting for what it is given.
LEMMA CalledConv ==
    ASSUME NEW r \in Sessions, NEW n \in 1 .. MaxSends, TypeOK, Conv(r),
           Unserved(<<r, n>>), ~is_destroying_[r],
           c2s'[r] = "replying", First(cached_response_'[r], key[<<r, n>>]),
           key' = key, Calm(r), got'[<<r, n>>] # <<>>,
           UNCHANGED <<s2c, is_destroying_, current_query_, server_buffer_, publishing,
                       toServer, fromServer, sends, taken, answered, nextPart>>
    PROVE  Conv(r)'
<1>1. n = sends[r] /\ Waits(r) /\ nextPart[r] = 1 /\ c2s[r] = "waiting"
  BY DEF Conv, Waiting
<1>2. key[<<r, n>>] = Message(r) /\ Served(r)
  BY <1>1 DEF Message, Latest, Served
<1>3. /\ ~Coming(r) /\ current_query_[r] = NoQuery
      /\ taken[r] = sends[r] /\ toServer[r] = <<>>
  BY <1>2 DEF Conv, InCache, Quiet, InProxy, AtDatabase
<1>4. /\ ~Coming(r)' /\ Waits(r)' /\ Message(r)' = Message(r) /\ Latest(r)' = Latest(r)
  BY <1>1, <1>3 DEF Coming, Waits, Message, Latest
<1>5. Quiet(r)' /\ InProxy(r)' /\ AtDatabase(r)' /\ InCache(r)'
  BY <1>1, <1>3, <1>4 DEF Quiet, InProxy, AtDatabase, InCache
<1>6. Answering(r)'
  BY <1>4 DEF Answering, Follow, Coming
<1>7. Leading(r)'
  BY <1>4 DEF Conv, Leading, Calm
<1>8. \A k \in 1 .. MaxSends : ~Unserved(<<r, k>>)'
  <2> SUFFICES ASSUME NEW k \in 1 .. MaxSends, Unserved(<<r, k>>)'
               PROVE  FALSE
    OBVIOUS
  <2>1. k = sends[r]
    BY DEF Calm, Conv, Waiting
  <2> QED
    BY <1>1, <2>1 DEF Unserved
<1>9. Waiting(r)'
  BY <1>8 DEF Waiting
<1>10. Replying(r)' /\ Closed(r)'
  BY <1>2, <1>4 DEF Replying, First, Closed
<1> QED
  BY <1>5, <1>6, <1>7, <1>9, <1>10 DEF Conv

-----------------------------------------------------------------------------
(* Every step keeps the invariant, and what the runs check follows *)

\* Everybody else's conversation goes on as it was.
Others(s) == \A r \in Sessions : r # s => Same(r) /\ Calm(r)

\* What is said of the cache, the leaders and the publishers.
Shared == CacheAttribution /\ LeaderRemembersQuery /\ Publications

LEMMA SharedFrame ==
    ASSUME Shared, UNCHANGED <<cache, flight, published, current_query_>>
    PROVE  Shared'
  BY DEF Shared, CacheAttribution, LeaderRemembersQuery, Publications, First, flight

LEMMA Steady ==
    ASSUME IInv, [Next]_vars
    PROVE  /\ TypeOK' /\ SFP!IInv' /\ key' = key
           /\ SF!TypeOK
  BY FlightInvariant, TypeStep, KeyFixed DEF IInv, TypeOK

LEMMA Compose ==
    ASSUME IInv, [Next]_vars, again = {}, NEW s \in Sessions, Others(s), Conv(s)',
           NoClientMisled', Shared'
    PROVE  IInv'
<1>1. TypeOK' /\ SFP!IInv' /\ key' = key
  BY Steady
<1>2. \A r \in Sessions : Conv(r)'
  BY <1>1, Frame DEF IInv, Others
<1> QED
  BY <1>1, <1>2 DEF IInv, Shared

\* What the flights say of a publisher and of those it calls.
LEMMA FlightFacts ==
    ASSUME SFP!IInv
    PROVE  /\ \A c \in Calls : pc[c] \in {"notify", "calling", "waiter"} =>
                  key[found[c]] = key[c]
           /\ \A c \in Calls : \A i \in DOMAIN todo[c] :
                  pc[todo[c][i]] = "waiter" /\ found[todo[c][i]] = found[c]
           /\ \A f \in Calls : ready[f] => key[result[f]] = key[f]
  BY DEF SFP!IInv, SFP!FoundKey, SFP!Holding, SFP!ToBeCalled, SFP!Published

\* doSingleFlight moves one call, which neither publishes nor is published for.
LEMMA LookEffect ==
    ASSUME TypeOK, NEW s \in Sessions, c2s[s] = "looking",
           SF!Lead(Call(s)) \/ SF!Find(Call(s)) \/ SF!Join(Call(s))
    PROVE  /\ Call(s) \in Calls /\ pc[Call(s)] \in {"start", "join"}
           /\ pc'[Call(s)] \in {"leading", "join", "waiter"}
           /\ UNCHANGED <<ready, result, key>>
           /\ \A c \in Calls : c # Call(s) => pc'[c] = pc[c] /\ got'[c] = got[c]
           /\ \A r \in Sessions : r # s => Calm(r)
<1>1. Call(s) \in Calls
  BY CallType
<1>2. pc \in [Calls -> SF!Pc] /\ got \in [Calls -> Seq(Calls)]
  BY FlightTypes DEF TypeOK
<1>3. /\ pc[Call(s)] \in {"start", "join"} /\ UNCHANGED <<ready, result, key>>
      /\ \E p \in {"leading", "join", "waiter"} : pc' = [pc EXCEPT ![Call(s)] = p]
      /\ got' = got \/ \E g : got' = [got EXCEPT ![Call(s)] = g]
  BY DEF SF!Lead, SF!Find, SF!Join
<1>4. /\ pc'[Call(s)] \in {"leading", "join", "waiter"}
      /\ \A c \in Calls : c # Call(s) => pc'[c] = pc[c] /\ got'[c] = got[c]
  BY <1>1, <1>2, <1>3
<1>5. ASSUME NEW r \in Sessions, r # s
      PROVE  Calm(r)
  <2>1. ASSUME NEW n \in 1 .. MaxSends
        PROVE  <<r, n>> \in Calls /\ <<r, n>> # Call(s)
    BY <1>5, CallsMeans DEF Call
  <2> QED
    BY <1>4, <2>1 DEF Calm, Unserved
<1> QED
  BY <1>1, <1>3, <1>4, <1>5

\* It changes nothing that is handed out.
LEMMA LookShared ==
    ASSUME TypeOK, Shared, NEW s \in Sessions, c2s[s] = "looking",
           SF!Lead(Call(s)) \/ SF!Find(Call(s)) \/ SF!Join(Call(s)),
           UNCHANGED <<cache, published>>
    PROVE  CacheAttribution' /\ Publications'
<1>1. /\ pc'[Call(s)] \in {"leading", "join", "waiter"}
      /\ UNCHANGED <<ready, result, key>>
      /\ \A c \in Calls : c # Call(s) => pc'[c] = pc[c]
  BY LookEffect
<1>2. CacheAttribution'
  BY <1>1 DEF Shared, CacheAttribution
<1>3. Publications'
  BY <1>1 DEF Shared, Publications, First
<1> QED
  BY <1>2, <1>3

\* notifyResult moves one call, and only on from "leading".
LEMMA NotifyEffect ==
    ASSUME TypeOK, NEW c \in Calls,
           \/ SF!NotifyFind(c) \/ SF!NotifyNone(c) \/ SF!NotifyMark(c) \/ SF!NotifyErase(c)
    PROVE  /\ key' = key /\ got' = got
           /\ pc[c] \in {"leading", "notify", "calling"}
           /\ pc'[c] \in {"notify", "calling", "done"}
           /\ \A d \in Calls : d # c => pc'[d] = pc[d]
           /\ \A r \in Sessions : Calm(r)
<1>1. pc \in [Calls -> SF!Pc]
  BY FlightTypes DEF TypeOK
<1>2. /\ key' = key /\ got' = got /\ pc[c] \in {"leading", "notify", "calling"}
      /\ \E p \in {"notify", "calling", "done"} : pc' = [pc EXCEPT ![c] = p]
  BY DEF SF!NotifyFind, SF!EnterNotify, SF!NotifyNone, SF!NotifyMark, SF!NotifyErase
<1>3. /\ pc'[c] \in {"notify", "calling", "done"}
      /\ \A d \in Calls : d # c => pc'[d] = pc[d]
  BY <1>1, <1>2
<1>4. ASSUME NEW r \in Sessions
      PROVE  Calm(r)
  <2>1. \A n \in 1 .. MaxSends : <<r, n>> \in Calls
    BY CallsMeans
  <2> QED
    BY <1>2, <1>3, <2>1 DEF Calm, Unserved
<1> QED
  BY <1>2, <1>3, <1>4

\* The call a session publishes for is that of its client's message, and the
\* piece is the first of the answer.
LEMMA NotifyStep ==
    ASSUME IInv, [Next]_vars, again = {}, again' = again, NEW s \in Sessions, S2CNotify(s)
    PROVE  IInv'
<1>i. TypeOK /\ Shared /\ NoClientMisled /\ \A r \in Sessions : Conv(r)
  BY DEF IInv, Shared
<1>1. PICK c \in Calls :
          /\ c[1] = s /\ key[c] = current_query_[s]
          /\ SF!NotifyFind(c) \/ SF!NotifyNone(c)
          /\ publishing' = [publishing EXCEPT ![s] = c]
          /\ published' = [published EXCEPT ![c] = server_buffer_[s]]
  BY DEF S2CNotify
<1>2. /\ s2c[s] = "publishing" /\ publishing[s] = NoFlight
      /\ UNCHANGED <<during, cached_response_, again>>
  BY DEF S2CNotify
<1>3. /\ key' = key /\ got' = got /\ pc'[c] \in {"notify", "calling", "done"}
      /\ \A d \in Calls : d # c => pc'[d] = pc[d]
      /\ \A r \in Sessions : Calm(r)
  BY <1>i, <1>1, NotifyEffect
<1>4. pc[c] = "leading" /\ UNCHANGED <<ready, result>>
  BY <1>1 DEF SF!NotifyFind, SF!NotifyNone, SF!EnterNotify
<1>5. current_query_[s] # NoQuery /\ Message(s) = current_query_[s] /\ nextPart[s] = 1
  BY <1>i, <1>2 DEF Conv, Leading
<1>6. c = Latest(s)
  <2>1. c[2] \in 1 .. MaxSends /\ c = <<s, c[2]>>
    BY <1>1, CallsMeans
  <2>2. c[2] = sends[s]
    BY <1>i, <1>1, <1>4, <1>5, <2>1 DEF Conv, Leading
  <2> QED
    BY <2>1, <2>2 DEF Latest
<1>7. First(server_buffer_[s], key[c])
  BY <1>i, <1>1, <1>2, <1>5 DEF Conv, Answering, First
<1>8. /\ publishing'[s] = c /\ published'[c] = server_buffer_[s]
      /\ \A r \in Sessions : r # s => publishing'[r] = publishing[r]
      /\ \A d \in Calls : d # c => published'[d] = published[d]
  BY <1>i, <1>1 DEF TypeOK
<1>9. UNCHANGED <<c2s, s2c, is_destroying_, current_query_, server_buffer_, cache, toServer,
                  fromServer, sends, taken, answered, nextPart, misled, cached_response_>>
  BY <1>2 DEF during, session, wires, script, client
<1>10. Others(s)
  BY <1>3, <1>8, <1>9 DEF Others, Same
<1>11. Conv(s)'
  <2>1. /\ Served(s)' <=> Served(s)
        /\ Coming(s)' <=> Coming(s)
        /\ Waits(s)' <=> Waits(s)
        /\ Message(s)' = Message(s) /\ Latest(s)' = Latest(s) /\ Calm(s) /\ Conv(s)
    BY <1>i, <1>3, <1>9 DEF Served, Coming, Waits, Message, Latest
  <2>2. Quiet(s)' /\ InProxy(s)' /\ AtDatabase(s)' /\ InCache(s)'
    BY <1>9, <2>1 DEF Conv, Quiet, InProxy, AtDatabase, InCache
  <2>3. Answering(s)'
    BY <1>9, <2>1 DEF Conv, Answering, Follow
  <2>4. Leading(s)'
    BY <1>3, <1>6, <1>8, <1>9, <2>1 DEF Conv, Leading, Calm
  <2>5. Waiting(s)'
    BY <1>9, <2>1 DEF Conv, Waiting, Calm
  <2>6. Replying(s)' /\ Closed(s)'
    BY <1>9, <2>1 DEF Conv, Replying, First, Closed
  <2> QED
    BY <2>2, <2>3, <2>4, <2>5, <2>6 DEF Conv
<1>12. \A f \in Calls : ready[f] => result[f] \in Calls /\ key[result[f]] = key[f]
  BY <1>i, FlightFacts, FlightTypes DEF IInv, TypeOK
<1>13. CacheAttribution'
  <2>1. \A q \in Texts : cache'[q] # NoChunk => cache'[q].msg = q /\ cache'[q].part = 1
    BY <1>i, <1>9 DEF Shared, CacheAttribution
  <2>2. ASSUME NEW f \in Calls, ready[f]
        PROVE  published'[result[f]].msg = key[f] /\ published'[result[f]].part = 1
    <3>1. CASE result[f] = c
      BY <1>7, <1>8, <1>12, <2>2, <3>1 DEF First
    <3>2. CASE result[f] # c
      BY <1>i, <1>8, <1>12, <2>2, <3>2 DEF Shared, CacheAttribution
    <3> QED
      BY <3>1, <3>2
  <2> QED
    BY <1>3, <1>4, <2>1, <2>2 DEF CacheAttribution
<1>14. LeaderRemembersQuery'
  BY <1>i, <1>3, <1>9 DEF Shared, LeaderRemembersQuery
<1>15. Publications'
  BY <1>i, <1>3, <1>7, <1>8 DEF Shared, Publications, First
<1>16. NoClientMisled'
  BY <1>i, <1>9 DEF NoClientMisled
<1> QED
  BY <1>10, <1>11, <1>13, <1>14, <1>15, <1>16, Compose DEF Shared

\* Publishing hands out what the call published, under the flight's own text.
LEMMA PublishStep ==
    ASSUME IInv, [Next]_vars, again = {}, NEW s \in Sessions, S2CPublish(s)
    PROVE  IInv'
<1>i. TypeOK /\ Shared /\ NoClientMisled /\ \A r \in Sessions : Conv(r)
  BY DEF IInv, Shared
<1>1. PICK c \in Calls : c = publishing[s]
  BY <1>i DEF S2CPublish, TypeOK
<1>2. /\ SF!NotifyMark(c) \/ SF!NotifyErase(c)
      /\ UNCHANGED <<during, cached_response_, notice, again>>
  BY <1>1 DEF S2CPublish
<1>3. /\ key' = key /\ pc'[c] \in {"notify", "calling", "done"}
      /\ pc[c] \in {"leading", "notify", "calling"}
      /\ \A d \in Calls : d # c => pc'[d] = pc[d]
      /\ \A r \in Sessions : Calm(r)
  BY <1>i, <1>2, NotifyEffect
<1>4. UNCHANGED <<c2s, s2c, is_destroying_, current_query_, server_buffer_, cache, toServer,
                  fromServer, sends, taken, answered, nextPart, misled, cached_response_,
                  publishing, published>>
  BY <1>2 DEF during, session, wires, script, client, notice
<1>5. \A r \in Sessions : Same(r)
  BY <1>4 DEF Same
<1>6. Conv(s)' /\ Others(s)
  BY <1>i, <1>3, <1>5, Frame DEF Others
<1>7. LeaderRemembersQuery'
  BY <1>i, <1>3, <1>4 DEF Shared, LeaderRemembersQuery
<1>8. pc[c] \in {"notify", "calling"}
  BY <1>2 DEF SF!NotifyMark, SF!NotifyErase
<1>9. First(published[c], key[c])
  BY <1>i, <1>8 DEF Shared, Publications
<1>10. Publications'
  BY <1>i, <1>3, <1>4, <1>9 DEF Shared, Publications, First
<1>11. CacheAttribution'
  <2>1. \A q \in Texts : cache'[q] # NoChunk => cache'[q].msg = q /\ cache'[q].part = 1
    BY <1>i, <1>4 DEF Shared, CacheAttribution
  <2>2. CASE SF!NotifyMark(c)
    <3>1. PICK f \in Calls : f = found[c]
      BY <1>i, <1>8, FlightTypes DEF TypeOK
    <3>2. key[f] = key[c]
      BY <1>8, <3>1, FlightFacts DEF IInv
    <3>3. /\ result' = [result EXCEPT ![f] = c] /\ ready' = [ready EXCEPT ![f] = TRUE]
      BY <2>2, <3>1 DEF SF!NotifyMark
    <3>4. /\ result'[f] = c
          /\ \A g \in Calls : g # f => result'[g] = result[g] /\ ready'[g] = ready[g]
      BY <1>i, <3>3, FlightTypes DEF TypeOK
    <3>5. ASSUME NEW g \in Calls, ready'[g]
          PROVE  published'[result'[g]].msg = key[g] /\ published'[result'[g]].part = 1
      <4>1. CASE g = f
        BY <1>4, <1>9, <3>2, <3>4, <4>1 DEF First
      <4>2. CASE g # f
        BY <1>i, <1>4, <3>4, <3>5, <4>2 DEF Shared, CacheAttribution
      <4> QED
        BY <4>1, <4>2
    <3> QED
      BY <1>3, <2>1, <3>5 DEF CacheAttribution
  <2>3. CASE SF!NotifyErase(c)
    <3>1. UNCHANGED <<ready, result>>
      BY <2>3 DEF SF!NotifyErase
    <3> QED
      BY <1>i, <1>3, <1>4, <2>1, <3>1 DEF Shared, CacheAttribution
  <2> QED
    BY <1>2, <2>2, <2>3
<1>12. NoClientMisled'
  BY <1>i, <1>4 DEF NoClientMisled
<1> QED
  BY <1>6, <1>7, <1>10, <1>11, <1>12, Compose DEF Shared

\* A callback gives a session that waits the answer to what it waits for; a
\* second one for the same call is where the guarantees end.
LEMMA CallbackStep ==
    ASSUME IInv, [Next]_vars, again = {}, NEW s \in Sessions, S2CCallback(s)
    PROVE  IInv'
<1>i. TypeOK /\ Shared /\ NoClientMisled /\ \A r \in Sessions : Conv(r)
  BY DEF IInv, Shared
<1>f. TypeOK' /\ SFP!IInv' /\ key' = key
  BY Steady
<1>1. PICK c \in Calls : c = publishing[s]
  BY <1>i DEF S2CCallback, TypeOK
<1>2. /\ SF!NotifyCallback(c)
      /\ UNCHANGED <<s2c, session, current_query_, server_buffer_, cache, notice, wires,
                     script, client>>
  BY <1>1 DEF S2CCallback
<1>3. todo[c] \in Seq(Calls) /\ todo[c] # <<>> /\ pc[c] = "calling"
  BY <1>i, <1>2, FlightTypes DEF TypeOK, SF!NotifyCallback
<1>4. PICK w \in Calls : w = Head(todo[c])
  BY <1>3
<1>5. PICK r \in Sessions, n \in 1 .. MaxSends : w = <<r, n>> /\ w[1] = r
  BY CallsMeans
<1>6. /\ cached_response_' = IF is_destroying_[r] THEN cached_response_
                             ELSE [cached_response_ EXCEPT ![r] = published[c]]
      /\ c2s' = IF is_destroying_[r] \/ got[w] # <<>> THEN c2s
                ELSE [c2s EXCEPT ![r] = "replying"]
      /\ again' = IF is_destroying_[r] \/ got[w] = <<>> THEN again ELSE again \cup {r}
  <2>1. /\ publishing[s] = c /\ Head(todo[c]) = w /\ w[1] = r
    BY <1>1, <1>4, <1>5
  <2> QED
    BY <2>1 DEF S2CCallback
<1>7. UNCHANGED <<s2c, is_destroying_, current_query_, server_buffer_, cache, toServer,
                  fromServer, sends, taken, answered, nextPart, misled, publishing, published>>
  BY <1>2 DEF session, wires, script, client, notice
<1>8. /\ UNCHANGED <<pc, ready, result, key>>
      /\ got' = [got EXCEPT ![w] = Append(@, c)]
  BY <1>2, <1>4 DEF SF!NotifyCallback
<1>9. Shared'
  BY <1>i, <1>7, <1>8 DEF Shared, CacheAttribution, LeaderRemembersQuery, Publications, First
<1>10. got'[w] # <<>> /\ \A d \in Calls : d # w => got'[d] = got[d]
  <2>1. got \in [Calls -> Seq(Calls)]
    BY <1>i, FlightTypes DEF TypeOK
  <2>2. Append(got[w], c) # <<>>
    BY <2>1, AppendNotEmpty
  <2> QED
    BY <1>8, <2>1, <2>2
<1>11. \A t \in Sessions : Calm(t)
  <2>1. \A t \in Sessions, k \in 1 .. MaxSends : <<t, k>> \in Calls
    BY CallsMeans
  <2> QED
    BY <1>8, <1>10, <2>1 DEF Calm, Unserved
<1>12. NoClientMisled'
  BY <1>i, <1>7 DEF NoClientMisled
<1>13. \A t \in Sessions : t # r => c2s'[t] = c2s[t] /\ cached_response_'[t] = cached_response_[t]
  BY <1>i, <1>6 DEF TypeOK
<1>14. Others(r)
  BY <1>7, <1>11, <1>13 DEF Others, Same
<1>15. CASE is_destroying_[r]
  <2>1. Same(r)
    BY <1>6, <1>7, <1>15 DEF Same
  <2>2. Conv(r)'
    BY <1>i, <1>f, <1>11, <2>1, Frame
  <2> QED
    BY <1>9, <1>12, <1>14, <2>2, Compose
<1>16. CASE ~is_destroying_[r] /\ got[w] = <<>>
  <2>1. c2s'[r] = "replying" /\ cached_response_'[r] = published[c]
    BY <1>i, <1>6, <1>16 DEF TypeOK
  <2>2. /\ pc[w] = "waiter" /\ found[w] = found[c]
    <3>1. 1 \in DOMAIN todo[c] /\ todo[c][1] = w
      BY <1>3, <1>4
    <3> QED
      BY <3>1, FlightFacts DEF IInv
  <2>3. key[w] = key[c]
    BY <1>3, <2>2, FlightFacts DEF IInv
  <2>4. First(published[c], key[w])
    BY <1>i, <1>3, <2>3 DEF Shared, Publications
  <2>5. Unserved(<<r, n>>) /\ First(cached_response_'[r], key[<<r, n>>])
    BY <1>5, <1>16, <2>1, <2>2, <2>4 DEF Unserved
  <2>6. Conv(r)'
    BY <1>i, <1>f, <1>5, <1>7, <1>10, <1>11, <1>16, <2>1, <2>5, CalledConv
  <2> QED
    BY <1>9, <1>12, <1>14, <2>6, Compose
<1>17. CASE ~is_destroying_[r] /\ got[w] # <<>>
  <2>1. again' # {}
    BY <1>6, <1>17
  <2> QED
    BY <1>f, <1>9, <2>1 DEF IInv, Shared
<1> QED
  BY <1>15, <1>16, <1>17

\* Back from the cache, the session leads nothing and forwards the piece.
LEMMA NotifiedStep ==
    ASSUME IInv, [Next]_vars, again = {}, NEW s \in Sessions, S2CNotified(s)
    PROVE  IInv'
<1>i. TypeOK /\ Shared /\ NoClientMisled /\ \A r \in Sessions : Conv(r)
  BY DEF IInv, Shared
<1>1. /\ publishing[s] # NoFlight /\ pc[publishing[s]] = "done"
      /\ publishing' = [publishing EXCEPT ![s] = NoFlight]
      /\ current_query_' = [current_query_ EXCEPT ![s] = NoQuery]
      /\ s2c' = [s2c EXCEPT ![s] = IF client_closed_[s] \/ is_destroying_[s]
                                   THEN "stopped" ELSE "writing"]
      /\ UNCHANGED flight
      /\ UNCHANGED <<c2s, is_destroying_, cached_response_, server_buffer_, cache, published,
                     toServer, fromServer, sends, taken, answered, nextPart, misled>>
  BY DEF S2CNotified, Notified, session, buffers, wires, script, client
<1>2. /\ publishing'[s] = NoFlight /\ current_query_'[s] = NoQuery
      /\ s2c'[s] \in {"stopped", "writing"} /\ (is_destroying_[s] => s2c'[s] = "stopped")
      /\ \A r \in Sessions : r # s => /\ publishing'[r] = publishing[r]
                                      /\ current_query_'[r] = current_query_[r]
                                      /\ s2c'[r] = s2c[r]
  BY <1>i, <1>1 DEF TypeOK
<1>3. s2c[s] = "publishing" /\ publishing[s] = Latest(s) /\ pc[Latest(s)] = "done"
  BY <1>i, <1>1, PublishingMeans DEF Conv, Leading
<1>4. ~Served(s) /\ Waits(s) /\ taken[s] = sends[s] /\ toServer[s] = <<>>
  BY <1>i, <1>3, ComingMeans DEF Coming
<1>5. /\ ~Served(s)' /\ Waits(s)' /\ Message(s)' = Message(s) /\ Latest(s)' = Latest(s)
      /\ key' = key /\ \A r \in Sessions : Calm(r)
  BY <1>1, <1>4, CalmFrame DEF Served, Waits, Message, Latest, flight
<1>6. Others(s)
  BY <1>1, <1>2, <1>5 DEF Others, Same
<1>7. Conv(s)'
  <2>1. Quiet(s)' /\ InProxy(s)' /\ AtDatabase(s)' /\ InCache(s)'
    BY <1>1, <1>4, <1>5 DEF Quiet, InProxy, AtDatabase, InCache
  <2>2. Answering(s)'
    BY <1>i, <1>1, <1>2, <1>3, <1>5 DEF Conv, Answering, Follow
  <2>3. Leading(s)'
    BY <1>i, <1>2, <1>1, <1>5 DEF Conv, Leading, Calm
  <2>4. Waiting(s)'
    BY <1>i, <1>1, <1>5 DEF Conv, Waiting, Calm
  <2>5. Replying(s)' /\ Closed(s)'
    BY <1>i, <1>1, <1>2, <1>5 DEF Conv, Replying, Closed, Served
  <2> QED
    BY <2>1, <2>2, <2>3, <2>4, <2>5 DEF Conv
<1>8. LeaderRemembersQuery'
  <2> SUFFICES ASSUME NEW c \in Calls, pc[c] = "leading", key[c] # NoQuery
               PROVE  current_query_'[c[1]] = key[c]
    BY <1>1, <1>5 DEF LeaderRemembersQuery, flight
  <2>1. c[1] \in Sessions /\ c[2] \in 1 .. MaxSends /\ c = <<c[1], c[2]>>
    BY CallsMeans
  <2>2. c[1] # s
    <3> SUFFICES ASSUME c[1] = s
                 PROVE  FALSE
      OBVIOUS
    <3>1. c[2] = sends[s]
      BY <1>i, <2>1 DEF Conv, Leading
    <3> QED
      BY <1>3, <2>1, <3>1 DEF Latest
  <2> QED
    BY <1>i, <1>2, <2>1, <2>2 DEF Shared, LeaderRemembersQuery
<1>9. CacheAttribution' /\ Publications'
  BY <1>i, <1>1 DEF Shared, CacheAttribution, Publications, First, flight
<1>10. NoClientMisled'
  BY <1>i, <1>1 DEF NoClientMisled
<1> QED
  BY <1>6, <1>7, <1>8, <1>9, <1>10, Compose DEF Shared

LEMMA InvStep ==
    ASSUME Pipelining = FALSE, IInv, [Next]_vars
    PROVE  IInv'
<1> USE DEF session, buffers, notice, wires, script, client
<1>f. TypeOK' /\ SFP!IInv' /\ key' = key
  BY Steady
<1>t. TypeOK /\ Shared
  BY DEF IInv, Shared
<1>m. OtherMsg \in Messages /\ Texts \subseteq Messages
  BY DEF Messages
<1>a. ASSUME again # {}, NEW s \in again, SecondReply(s)
      PROVE  IInv'
  <2>1. UNCHANGED <<cache, flight, published, current_query_, again>>
    BY <1>a DEF SecondReply
  <2>2. Shared'
    BY <1>t, <2>1, SharedFrame
  <2> QED
    BY <1>a, <1>f, <2>1, <2>2 DEF IInv, Shared
<1>b. CASE UNCHANGED vars
  <2>1. \A r \in Sessions : Same(r) /\ Calm(r)
    BY <1>b, CalmFrame DEF vars, Same
  <2>2. Shared'
    BY <1>b, <1>t, SharedFrame DEF vars
  <2>3. again' = {} => NoClientMisled' /\ \A r \in Sessions : Conv(r)'
    BY <1>b, <1>f, <2>1, Frame DEF vars, IInv, NoClientMisled
  <2> QED
    BY <1>f, <2>2, <2>3 DEF IInv, Shared
<1>c. ASSUME again = {}, \/ \E s \in Sessions : ClientSend(s) \/ Work(s) \/ Fail(s)
                         \/ \E q \in Texts : Evict(q)
      PROVE  IInv'
  <2>i. NoClientMisled /\ \A s \in Sessions : Conv(s)
    BY <1>c DEF IInv
  <2>q. ASSUME UNCHANGED misled
        PROVE  NoClientMisled'
    BY <2>i, <2>q DEF NoClientMisled
  <2>r. LeaderRemembersQuery
    BY <1>t DEF Shared
  \* Steps away from the cache and the flights.
  <2>s. ASSUME NEW s \in Sessions, Conv(s)', \A r \in Sessions : r # s => Same(r),
               UNCHANGED <<cache, flight, published, current_query_>>, NoClientMisled'
        PROVE  IInv'
    <3>1. Others(s)
      BY <2>s, CalmFrame DEF Others
    <3>2. Shared'
      BY <1>t, <2>s, SharedFrame
    <3> QED
      BY <1>c, <2>s, <3>1, <3>2, Compose
  <2>1. ASSUME NEW s \in Sessions, ClientSend(s)
        PROVE  IInv'
    <3>1. Conv(s)'
      BY <1>t, <2>i, <2>r, <2>1, SendConv
    <3>2. \A r \in Sessions : r # s => sends'[r] = sends[r]
      BY <1>t, <2>1 DEF ClientSend, TypeOK
    <3>3. UNCHANGED <<c2s, s2c, session, current_query_, buffers, cache, flight, notice,
                      wires, taken, client>>
      BY <2>1 DEF ClientSend
    <3>4. \A r \in Sessions : r # s => Same(r)
      BY <3>2, <3>3 DEF Same
    <3> QED
      BY <2>q, <2>s, <3>1, <3>3, <3>4
  <2>2. ASSUME NEW s \in Sessions, DbAnswer(s)
        PROVE  IInv'
    <3>1. Conv(s)'
      BY <1>t, <2>i, <2>2, AnswerConv
    <3>2. UNCHANGED <<c2s, s2c, session, current_query_, buffers, cache, flight, notice,
                      script, client>>
      BY <2>2 DEF DbAnswer
    <3>3. \A r \in Sessions : r # s => /\ toServer'[r] = toServer[r]
                                       /\ fromServer'[r] = fromServer[r]
      BY <1>t, <2>2, DbAnswerMeans
    <3>4. \A r \in Sessions : r # s => Same(r)
      BY <3>2, <3>3 DEF Same
    <3> QED
      BY <2>q, <2>s, <3>1, <3>2, <3>4
  <2>3. ASSUME NEW s \in Sessions, ReadOther(s)
        PROVE  IInv'
    <3>1. Received(s, OtherMsg) /\ Forward(s, OtherMsg) /\ UNCHANGED <<current_query_, flight>>
      BY <2>3 DEF ReadOther
    <3>2. /\ Hand(s) /\ Message(s) = OtherMsg /\ taken'[s] = sends[s]
          /\ \A n \in 1 .. MaxSends : ~Unserved(<<s, n>>)
          /\ sends' = sends /\ answered' = answered /\ nextPart' = nextPart /\ misled' = misled
      BY <1>t, <2>i, <2>r, <3>1, ReceivedMeans
    <3>3. /\ \A n \in 1 .. MaxSends : ~Unserved(<<s, n>>)'
          /\ \A n \in 1 .. MaxSends : pc'[<<s, n>>] = "leading" => key[<<s, n>>] = NoQuery
      BY <3>1, <3>2 DEF flight, Unserved, Hand
    <3>4. current_query_'[s] = NoQuery
      BY <3>1, <3>2 DEF Hand
    <3>5. Conv(s)'
      BY <1>f, <1>m, <1>t, <2>i, <3>1, <3>2, <3>3, <3>4, ForwardConv
    <3>6. \A r \in Sessions : r # s => /\ c2s'[r] = c2s[r] /\ toServer'[r] = toServer[r]
                                       /\ taken'[r] = taken[r]
      BY <1>t, <3>1 DEF Forward, Received, TypeOK
    <3>7. UNCHANGED <<s2c, session, buffers, cache, notice, fromServer>>
      BY <3>1 DEF Forward
    <3>8. \A r \in Sessions : r # s => Same(r)
      BY <3>1, <3>2, <3>6, <3>7 DEF Same
    <3> QED
      BY <2>q, <2>s, <3>1, <3>2, <3>5, <3>7, <3>8
  <2>4. ASSUME NEW s \in Sessions, NEW q \in Texts, ReadHit(s, q) \/ ReadMiss(s, q)
        PROVE  IInv'
    <3>1. /\ Received(s, q)
          /\ UNCHANGED <<s2c, session, current_query_, server_buffer_, cache, flight, notice,
                         wires>>
      BY <2>4 DEF ReadHit, Hit, ReadMiss
    <3>2. /\ c2s'[s] \in {"looking", "replying"}
          /\ c2s'[s] = "replying" => cache[q] # NoChunk /\ cached_response_'[s] = cache[q]
          /\ \A r \in Sessions : r # s => /\ c2s'[r] = c2s[r]
                                          /\ cached_response_'[r] = cached_response_[r]
      <4>1. CASE ReadHit(s, q)
        BY <1>t, <4>1 DEF ReadHit, Hit, TypeOK
      <4>2. CASE ReadMiss(s, q)
        BY <1>t, <4>2 DEF ReadMiss, TypeOK
      <4> QED
        BY <2>4, <4>1, <4>2
    <3>3. /\ Hand(s) /\ Message(s) = q /\ taken'[s] = sends[s] /\ ~is_destroying_[s]
          /\ \A n \in 1 .. MaxSends : ~Unserved(<<s, n>>)
          /\ sends' = sends /\ answered' = answered /\ nextPart' = nextPart /\ misled' = misled
      BY <1>t, <2>i, <2>r, <3>1, ReceivedMeans
    <3>4. c2s'[s] = "replying" => First(cached_response_'[s], Message(s))
      BY <1>t, <3>2, <3>3 DEF Shared, CacheAttribution, First
    <3>5. Calm(s)
      BY <3>1, CalmFrame
    <3>6. Conv(s)'
      BY <1>f, <1>t, <2>i, <3>1, <3>2, <3>3, <3>4, <3>5, ServeConv DEF Calm
    <3>7. \A r \in Sessions : r # s => taken'[r] = taken[r]
      BY <1>t, <3>1 DEF Received, TypeOK
    <3>8. \A r \in Sessions : r # s => Same(r)
      BY <3>1, <3>2, <3>3, <3>7 DEF Same
    <3> QED
      BY <2>q, <2>s, <3>1, <3>3, <3>6, <3>8
  <2>5. ASSUME NEW s \in Sessions, ReadLeader(s)
        PROVE  IInv'
    <3>1. /\ c2s[s] = "looking" /\ SF!Lead(Call(s)) /\ Forward(s, key[Call(s)])
          /\ current_query_' = [current_query_ EXCEPT ![s] = key[Call(s)]]
          /\ UNCHANGED <<script, client>>
      BY <2>5 DEF ReadLeader, LeadWith
    <3>2. /\ Call(s) \in Calls /\ pc[Call(s)] \in {"start", "join"}
          /\ \A c \in Calls : c # Call(s) => pc'[c] = pc[c] /\ got'[c] = got[c]
          /\ \A r \in Sessions : r # s => Calm(r)
      BY <1>t, <3>1, LookEffect
    <3>3. /\ Hand(s) /\ Call(s) = Latest(s) /\ Message(s) = key[Call(s)]
          /\ taken[s] = sends[s]
          /\ \A n \in 1 .. MaxSends : ~Unserved(<<s, n>>)
      BY <1>t, <2>i, <2>r, <3>1, <3>2, LookingMeans
    <3>4. pc'[Call(s)] = "leading" /\ got' = got
      BY <1>t, <3>1, <3>2, FlightTypes DEF SF!Lead, TypeOK
    <3>5. \A n \in 1 .. MaxSends : <<s, n>> \in Calls
      BY CallsMeans
    <3>6. \A n \in 1 .. MaxSends : ~Unserved(<<s, n>>)'
      BY <3>2, <3>3, <3>4, <3>5 DEF Unserved
    <3>7. \A n \in 1 .. MaxSends :
              pc'[<<s, n>>] = "leading" /\ key[<<s, n>>] # NoQuery => n = sends[s]
      <4> SUFFICES ASSUME NEW n \in 1 .. MaxSends, pc'[<<s, n>>] = "leading",
                          key[<<s, n>>] # NoQuery
                   PROVE  n = sends[s]
        OBVIOUS
      <4>1. <<s, n>> = Call(s)
        BY <3>2, <3>3, <3>5 DEF Hand
      <4> QED
        BY <3>3, <4>1 DEF Latest
    <3>8. /\ current_query_'[s] = Message(s)
          /\ \A r \in Sessions : r # s => current_query_'[r] = current_query_[r]
      BY <1>t, <3>1, <3>3 DEF TypeOK
    <3>9. Message(s) \in Messages
      BY <1>m, <1>t, <3>1, <3>3, CallType
    <3>10. taken'[s] = sends[s] /\ UNCHANGED <<sends, answered, nextPart, misled>>
      BY <3>1, <3>3
    <3>11. Conv(s)'
      BY <1>f, <1>t, <2>i, <3>1, <3>3, <3>6, <3>7, <3>8, <3>9, <3>10, ForwardConv
    <3>12. \A r \in Sessions : r # s => c2s'[r] = c2s[r] /\ toServer'[r] = toServer[r]
      BY <1>t, <3>1 DEF Forward, TypeOK
    <3>13. UNCHANGED <<s2c, session, buffers, cache, notice, fromServer>>
      BY <3>1 DEF Forward
    <3>14. Others(s)
      BY <3>1, <3>2, <3>8, <3>12, <3>13 DEF Others, Same
    <3>15. CacheAttribution' /\ Publications'
      BY <1>t, <3>1, <3>13, LookShared
    <3>16. LeaderRemembersQuery'
      <4> SUFFICES ASSUME NEW c \in Calls, pc'[c] = "leading", key[c] # NoQuery
                   PROVE  current_query_'[c[1]] = key[c]
        BY <1>f DEF LeaderRemembersQuery
      <4>1. CASE c = Call(s)
        BY <3>3, <3>8, <4>1 DEF Call
      <4>2. CASE c # Call(s)
        <5>1. pc[c] = "leading" /\ c[1] \in Sessions
          BY <3>2, <4>2, CallsMeans
        <5>2. current_query_[c[1]] = key[c]
          BY <2>r, <5>1 DEF LeaderRemembersQuery
        <5>3. c[1] # s
          BY <3>3, <5>2 DEF Hand
        <5> QED
          BY <3>8, <5>1, <5>2, <5>3
      <4> QED
        BY <4>1, <4>2
    <3> QED
      BY <1>c, <2>q, <3>10, <3>11, <3>14, <3>15, <3>16, Compose DEF Shared
  <2>6. ASSUME NEW s \in Sessions, ReadFinds(s)
        PROVE  IInv'
    <3>1. /\ c2s[s] = "looking" /\ SF!Find(Call(s))
          /\ UNCHANGED <<c2s, s2c, session, current_query_, buffers, cache, notice, wires,
                         script, client>>
      BY <2>6 DEF ReadFinds
    <3>2. /\ Call(s) \in Calls
          /\ \A c \in Calls : c # Call(s) => pc'[c] = pc[c] /\ got'[c] = got[c]
          /\ \A r \in Sessions : r # s => Calm(r)
      BY <1>t, <3>1, LookEffect
    <3>3. pc'[Call(s)] = "join"
      BY <1>t, <3>1, <3>2, FlightTypes DEF SF!Find, TypeOK
    <3>4. \A c \in Calls : /\ pc'[c] = "leading" => pc[c] = "leading"
                           /\ Unserved(c)' => Unserved(c)
      BY <3>2, <3>3 DEF Unserved
    <3>5. \A r \in Sessions : Calm(r)
      BY <3>4, CallsMeans DEF Calm
    <3>6. \A r \in Sessions : Same(r)
      BY <3>1 DEF Same
    <3>7. Conv(s)' /\ Others(s)
      BY <1>f, <2>i, <3>5, <3>6, Frame DEF Others
    <3>8. CacheAttribution' /\ Publications'
      BY <1>t, <3>1, LookShared
    <3>9. LeaderRemembersQuery'
      BY <1>f, <2>r, <3>1, <3>4 DEF LeaderRemembersQuery
    <3> QED
      BY <1>c, <2>q, <3>1, <3>7, <3>8, <3>9, Compose DEF Shared
  <2>7. ASSUME NEW s \in Sessions, ReadWaiter(s)
        PROVE  IInv'
    <3> DEFINE f == found[Call(s)]
               next == IF is_destroying_[s] THEN "stopped"
                       ELSE IF ready[f] THEN "replying" ELSE "waiting"
    <3>1. /\ c2s[s] = "looking" /\ SF!Join(Call(s))
          /\ c2s' = [c2s EXCEPT ![s] = next]
          /\ cached_response_' = [cached_response_ EXCEPT ![s] =
                 IF ready[f] /\ ~is_destroying_[s] THEN published[result[f]] ELSE @]
          /\ UNCHANGED <<s2c, session, current_query_, server_buffer_, cache, notice, wires,
                         script, client>>
      BY <2>7 DEF ReadWaiter
    <3>2. /\ Call(s) \in Calls /\ pc[Call(s)] \in {"start", "join"}
          /\ \A c \in Calls : c # Call(s) => pc'[c] = pc[c] /\ got'[c] = got[c]
          /\ \A r \in Sessions : r # s => Calm(r)
      BY <1>t, <3>1, LookEffect
    <3>3. /\ Hand(s) /\ Call(s) = Latest(s) /\ Message(s) = key[Call(s)]
          /\ taken[s] = sends[s]
          /\ \A n \in 1 .. MaxSends : ~Unserved(<<s, n>>)
      BY <1>t, <2>i, <2>r, <3>1, <3>2, LookingMeans
    <3>4. f \in Calls /\ pc[Call(s)] = "join" /\ got[Call(s)] \in Seq(Calls)
      BY <1>t, <3>1, <3>2, FlightTypes DEF SF!Join, TypeOK
    <3>5. key[f] = key[Call(s)]
      BY <3>2, <3>4 DEF IInv, SFP!IInv, SFP!FoundKey, SFP!Holding
    <3>6. ready[f] => First(published[result[f]], Message(s))
      BY <1>t, <3>3, <3>4, <3>5 DEF Shared, CacheAttribution, First
    <3>7. /\ c2s'[s] = next
          /\ next = "replying" => cached_response_'[s] = published[result[f]] /\ ready[f]
          /\ \A r \in Sessions : r # s => /\ c2s'[r] = c2s[r]
                                          /\ cached_response_'[r] = cached_response_[r]
      BY <1>t, <3>1 DEF TypeOK
    <3>8. next = "replying" => First(cached_response_'[s], Message(s))
      BY <3>6, <3>7
    <3>9. pc'[Call(s)] = "waiter"
      BY <1>t, <3>1, <3>2, FlightTypes DEF SF!Join, TypeOK
    <3>10. ready[f] => got'[Call(s)] # <<>>
      <4> SUFFICES ASSUME ready[f]
                   PROVE  got'[Call(s)] # <<>>
        OBVIOUS
      <4>1. got' = [got EXCEPT ![Call(s)] = Append(@, result[f])]
        BY <3>1 DEF SF!Join
      <4>2. result[f] \in Calls /\ got \in [Calls -> Seq(Calls)]
        BY <1>t, <3>4, FlightTypes DEF TypeOK
      <4>3. Append(got[Call(s)], result[f]) # <<>>
        BY <3>4, <4>2, AppendNotEmpty
      <4> QED
        BY <3>2, <4>1, <4>2, <4>3
    <3>11. \A n \in 1 .. MaxSends : <<s, n>> \in Calls
      BY CallsMeans
    <3>12. \A n \in 1 .. MaxSends : Unserved(<<s, n>>)' =>
               n = sends[s] /\ (is_destroying_[s] \/ c2s'[s] = "waiting")
      <4> SUFFICES ASSUME NEW n \in 1 .. MaxSends, Unserved(<<s, n>>)'
                   PROVE  n = sends[s] /\ (is_destroying_[s] \/ c2s'[s] = "waiting")
        OBVIOUS
      <4>1. <<s, n>> = Call(s)
        BY <3>2, <3>3, <3>11 DEF Unserved
      <4>2. ~ready[f]
        BY <3>10, <4>1 DEF Unserved
      <4> QED
        BY <3>3, <3>7, <4>1, <4>2 DEF Latest
    <3>13. \A n \in 1 .. MaxSends : pc'[<<s, n>>] = "leading" => pc[<<s, n>>] = "leading"
      BY <3>2, <3>9, <3>11
    <3>14. /\ next \in {"looking", "waiting", "replying", "stopped"}
           /\ is_destroying_[s] => next \in {"looking", "stopped"}
      OBVIOUS
    <3> HIDE DEF f, next
    <3>15. Conv(s)'
      BY <1>f, <1>t, <2>i, <3>1, <3>3, <3>7, <3>8, <3>12, <3>13, <3>14, ServeConv
    <3>16. Others(s)
      BY <3>1, <3>2, <3>7 DEF Others, Same
    <3>17. CacheAttribution' /\ Publications'
      BY <1>t, <3>1, LookShared
    <3>18. LeaderRemembersQuery'
      BY <1>f, <2>r, <3>1, <3>2, <3>9 DEF LeaderRemembersQuery
    <3> QED
      BY <1>c, <2>q, <3>1, <3>15, <3>16, <3>17, <3>18, Compose DEF Shared
  <2>8. ASSUME NEW s \in Sessions, ReplySent(s)
        PROVE  IInv'
    <3>1. Conv(s)' /\ misled'[s] = misled[s] /\ Elsewhere(s)
      BY <1>t, <2>i, <2>8, ReplyConv
    <3>2. /\ UNCHANGED <<s2c, session, current_query_, server_buffer_, cache, flight, notice,
                         wires, script>>
          /\ \A r \in Sessions : r # s => /\ c2s'[r] = c2s[r]
                                          /\ cached_response_'[r] = cached_response_[r]
      BY <1>t, <2>8 DEF ReplySent, TypeOK
    <3>3. \A r \in Sessions : r # s => Same(r)
      BY <3>1, <3>2 DEF Same, Elsewhere
    <3>4. NoClientMisled'
      BY <2>i, <3>1 DEF NoClientMisled, Elsewhere
    <3> QED
      BY <2>s, <3>1, <3>2, <3>3, <3>4
  <2>9. ASSUME NEW s \in Sessions, S2CDelivered(s)
        PROVE  IInv'
    <3>1. Conv(s)' /\ misled'[s] = misled[s] /\ Elsewhere(s)
      BY <1>t, <2>i, <2>9, DeliveredConv
    <3>2. /\ UNCHANGED <<c2s, session, current_query_, cached_response_, cache, flight, notice,
                         wires, script>>
          /\ \A r \in Sessions : r # s => /\ s2c'[r] = s2c[r]
                                          /\ server_buffer_'[r] = server_buffer_[r]
      BY <1>t, <2>9 DEF S2CDelivered, TypeOK
    <3>3. \A r \in Sessions : r # s => Same(r)
      BY <3>1, <3>2 DEF Same, Elsewhere
    <3>4. NoClientMisled'
      BY <2>i, <3>1 DEF NoClientMisled, Elsewhere
    <3> QED
      BY <2>s, <3>1, <3>2, <3>3, <3>4
  <2>10. ASSUME NEW s \in Sessions, S2CReadResult(s) \/ S2CReadMore(s)
         PROVE  IInv'
    <3> DEFINE q == current_query_[s]
               x == Head(fromServer[s])
    <3>1. /\ s2c[s] = "reading" /\ fromServer[s] # <<>>
          /\ server_buffer_' = [server_buffer_ EXCEPT ![s] = x]
          /\ fromServer' = [fromServer EXCEPT ![s] = Tail(@)]
          /\ \E next \in {"publishing", "writing", "stopped"} :
                 /\ s2c' = [s2c EXCEPT ![s] = next]
                 /\ next = "publishing" <=> q # NoQuery
          /\ UNCHANGED <<c2s, session, current_query_, cached_response_, flight, notice,
                         toServer, script, client>>
      BY <2>10 DEF S2CReadResult, S2CReadMore, S2CRead
    <3>2. /\ s2c'[s] \in {"publishing", "writing", "stopped"}
          /\ s2c'[s] = "publishing" <=> q # NoQuery
          /\ server_buffer_'[s] = x /\ fromServer'[s] = Tail(fromServer[s])
          /\ \A r \in Sessions : r # s => /\ s2c'[r] = s2c[r] /\ fromServer'[r] = fromServer[r]
                                          /\ server_buffer_'[r] = server_buffer_[r]
      BY <1>t, <3>1 DEF TypeOK
    <3>3. Conv(s)'
      BY <1>t, <2>i, <3>1, <3>2, TakeConv
    <3>4. \A r \in Sessions : r # s => Same(r)
      BY <3>1, <3>2 DEF Same
    <3>5. Others(s)
      BY <3>1, <3>4, CalmFrame DEF Others
    <3>6. LeaderRemembersQuery' /\ Publications'
      BY <1>t, <3>1 DEF Shared, LeaderRemembersQuery, Publications, First, flight
    <3>7. cache' = cache \/ (q # NoQuery /\ cache' = [cache EXCEPT ![q] = x])
      BY <2>10 DEF S2CReadResult, S2CReadMore
    <3>8. q # NoQuery => q \in Texts /\ First(x, q)
      <4> SUFFICES ASSUME q # NoQuery
                   PROVE  q \in Texts /\ First(x, q)
        OBVIOUS
      <4>1. q \in Texts
        BY <1>t DEF TypeOK
      <4>2. x.msg = Message(s) /\ x.part = nextPart[s]
        BY <1>t, <2>i, <3>1, PieceRead
      <4>3. Message(s) = q /\ nextPart[s] = 1
        BY <2>i DEF Conv, Leading
      <4> QED
        BY <4>1, <4>2, <4>3 DEF First
    <3> HIDE DEF x, q
    <3>9. \A p \in Texts : cache'[p] # NoChunk => cache'[p].msg = p /\ cache'[p].part = 1
      BY <1>t, <3>7, <3>8 DEF Shared, CacheAttribution, TypeOK, First
    <3>10. CacheAttribution'
      BY <1>t, <3>1, <3>9 DEF Shared, CacheAttribution, flight
    <3> QED
      BY <1>c, <2>q, <3>1, <3>3, <3>5, <3>6, <3>10, Compose DEF Shared
  <2>11. ASSUME NEW s \in Sessions, Less(s), \A r \in Sessions : r # s => Same(r),
                UNCHANGED <<cache, flight, published, current_query_, misled>>
         PROVE  IInv'
    <3>1. Conv(s)'
      BY <1>f, <2>i, <2>11, CalmFrame, Weaken
    <3> QED
      BY <2>q, <2>s, <2>11, <3>1
  <2>12. ASSUME NEW s \in Sessions, C2SWritten(s) \/ ReplyFailed(s)
         PROVE  IInv'
    <3>1. /\ c2s[s] \in {"writing", "replying"} /\ c2s'[s] \in {"reading", "stopped"}
          /\ \A r \in Sessions : r # s => c2s'[r] = c2s[r]
      BY <1>t, <2>12 DEF C2SWritten, ReplyFailed, TypeOK
    <3>2. UNCHANGED <<s2c, session, current_query_, buffers, cache, flight, notice, wires,
                      script, client>>
      BY <2>12 DEF C2SWritten, ReplyFailed
    <3>3. ~is_destroying_[s]
      BY <2>i, <3>1 DEF Conv, Closed
    <3>4. Less(s) /\ \A r \in Sessions : r # s => Same(r)
      BY <3>1, <3>2, <3>3 DEF Less, Same
    <3> QED
      BY <2>11, <3>2, <3>4
  <2>13. ASSUME NEW s \in Sessions, S2CWritten(s) \/ S2CExpectedError(s)
         PROVE  IInv'
    <3>1. /\ s2c'[s] = "stopped" \/ (s2c[s] = "written" /\ s2c'[s] = "reading")
          /\ \A r \in Sessions : r # s => s2c'[r] = s2c[r]
      <4>1. CASE S2CWritten(s)
        BY <1>t, <4>1 DEF S2CWritten, TypeOK
      <4>2. CASE S2CExpectedError(s)
        BY <1>t, <4>2 DEF S2CExpectedError, TypeOK
      <4> QED
        BY <2>13, <4>1, <4>2
    <3>2. UNCHANGED <<c2s, session, current_query_, buffers, cache, flight, notice, wires,
                      script, client>>
      BY <2>13 DEF S2CWritten, S2CExpectedError
    <3>3. Less(s) /\ \A r \in Sessions : r # s => Same(r)
      BY <3>1, <3>2 DEF Less, Same
    <3> QED
      BY <2>11, <3>2, <3>3
  <2>14. ASSUME NEW s \in Sessions, C2SExpectedError(s)
         PROVE  IInv'
    <3>1. /\ c2s[s] \in {"reading", "writing"} /\ c2s'[s] = "stopped"
          /\ \A r \in Sessions : r # s => c2s'[r] = c2s[r] /\ toServer'[r] = toServer[r]
          /\ \/ toServer'[s] = toServer[s]
             \/ toServer[s] # <<>> /\ toServer'[s] = Front(toServer[s])
      BY <1>t, <2>14 DEF C2SExpectedError, TypeOK
    <3>2. UNCHANGED <<s2c, session, current_query_, buffers, cache, flight, notice,
                      fromServer, script, client>>
      BY <2>14 DEF C2SExpectedError
    <3>3. toServer'[s] = toServer[s] \/ toServer'[s] = <<>>
      <4>1. ASSUME toServer[s] # <<>>
            PROVE  Front(toServer[s]) = <<>>
        <5>1. toServer[s] = <<Message(s)>>
          BY <2>i, <4>1 DEF Conv, AtDatabase
        <5>2. Message(s) \in Messages
          <6>1. toServer[s] \in Seq(Messages)
            BY <1>t DEF TypeOK
          <6>2. Head(toServer[s]) \in Messages
            BY <4>1, <6>1
          <6> QED
            BY <5>1, <6>2
        <5> QED
          BY <5>1, <5>2, One
      <4> QED
        BY <3>1, <4>1
    <3>4. ~is_destroying_[s]
      BY <2>i, <3>1 DEF Conv, Closed
    <3>5. Less(s) /\ \A r \in Sessions : r # s => Same(r)
      BY <3>1, <3>2, <3>3, <3>4 DEF Less, Same
    <3> QED
      BY <2>11, <3>2, <3>5
  <2>15. ASSUME NEW s \in Sessions, Close(s),
                UNCHANGED <<current_query_, cache, flight, notice, script, client>>
         PROVE  IInv'
    <3>1. Conv(s)'
      BY <1>t, <2>i, <2>15, CloseConv
    <3>2. \A r \in Sessions : r # s =>
              /\ c2s'[r] = c2s[r] /\ s2c'[r] = s2c[r] /\ is_destroying_'[r] = is_destroying_[r]
              /\ toServer'[r] = toServer[r] /\ fromServer'[r] = fromServer[r]
              /\ cached_response_'[r] = cached_response_[r]
              /\ server_buffer_'[r] = server_buffer_[r]
      BY <1>t, <2>15 DEF Close, TypeOK
    <3>3. \A r \in Sessions : r # s => Same(r)
      BY <2>15, <3>2 DEF Same
    <3> QED
      BY <2>q, <2>s, <2>15, <3>1, <3>3
  <2>16. ASSUME NEW s \in Sessions, C2SReadEof(s)
         PROVE  IInv'
    <3>1. CASE server_closed_[s]
      BY <2>15, <2>16, <3>1 DEF C2SReadEof
    <3>2. CASE ~server_closed_[s]
      <4>1. /\ c2s[s] = "reading" /\ c2s'[s] = "stopped"
            /\ \A r \in Sessions : r # s => c2s'[r] = c2s[r]
        BY <1>t, <2>16, <3>2 DEF C2SReadEof, TypeOK
      <4>2. UNCHANGED <<s2c, is_destroying_, wires, buffers, current_query_, cache, flight,
                        notice, script, client>>
        BY <2>16, <3>2 DEF C2SReadEof
      <4>3. ~is_destroying_[s]
        BY <2>i, <4>1 DEF Conv, Closed
      <4>4. Less(s) /\ \A r \in Sessions : r # s => Same(r)
        BY <4>1, <4>2, <4>3 DEF Less, Same
      <4> QED
        BY <2>11, <4>2, <4>4
    <3> QED
      BY <3>1, <3>2
  <2>17. ASSUME NEW s \in Sessions, S2CReadEof(s)
         PROVE  IInv'
    <3>1. CASE client_closed_[s]
      BY <2>15, <2>17, <3>1 DEF S2CReadEof
    <3>2. CASE ~client_closed_[s]
      <4>1. s2c'[s] = "stopped" /\ \A r \in Sessions : r # s => s2c'[r] = s2c[r]
        BY <1>t, <2>17, <3>2 DEF S2CReadEof, TypeOK
      <4>2. UNCHANGED <<c2s, is_destroying_, wires, buffers, current_query_, cache, flight,
                        notice, script, client>>
        BY <2>17, <3>2 DEF S2CReadEof
      <4>3. Less(s) /\ \A r \in Sessions : r # s => Same(r)
        BY <4>1, <4>2 DEF Less, Same
      <4> QED
        BY <2>11, <4>2, <4>3
    <3> QED
      BY <3>1, <3>2
  <2>18. ASSUME NEW s \in Sessions, OtherError(s)
         PROVE  IInv'
    BY <2>15, <2>18 DEF OtherError
  <2>19. ASSUME NEW q \in Texts, Evict(q)
         PROVE  IInv'
    <3>1. UNCHANGED <<c2s, s2c, session, current_query_, buffers, flight, notice, wires,
                      script, client, again>>
      BY <2>19 DEF Evict
    <3>2. \A r \in Sessions : Same(r) /\ Calm(r)
      BY <3>1, CalmFrame DEF Same
    <3>3. \A r \in Sessions : Conv(r)'
      BY <1>f, <2>i, <3>2, Frame
    <3>4. \A p \in Texts : cache'[p] # NoChunk => cache'[p] = cache[p]
      BY <1>t, <2>19 DEF Evict, TypeOK
    <3>5. Shared'
      BY <1>t, <3>1, <3>4
      DEF Shared, CacheAttribution, LeaderRemembersQuery, Publications, First, flight
    <3> QED
      BY <1>f, <2>q, <3>1, <3>3, <3>5 DEF IInv, Shared
  <2>20. ASSUME NEW s \in Sessions, S2CNotify(s)
         PROVE  IInv'
    <3>1. again' = again
      BY <2>20 DEF S2CNotify
    <3> QED
      BY <1>c, <2>20, <3>1, NotifyStep
  <2> QED
    BY <1>c, <2>1, <2>2, <2>3, <2>4, <2>5, <2>6, <2>7, <2>8, <2>9, <2>10, <2>12, <2>13, <2>14,
       <2>16, <2>17, <2>18, <2>19, <2>20, PublishStep, CallbackStep, NotifiedStep
    DEF Work, Look, ServerChain, Fail
<1> QED
  BY <1>a, <1>b, <1>c DEF Next

LEMMA InvInit == Init => IInv
<1> SUFFICES ASSUME Init
             PROVE  IInv
  OBVIOUS
<1>1. TypeOK /\ SFP!IInv
  BY InitType, FlightInit
<1>2. \A c \in Calls : pc[c] = "start" /\ ready[c] = FALSE
  BY DEF Init, SF!Init
<1>3. ASSUME NEW s \in Sessions
      PROVE  Conv(s)
  <2>1. /\ c2s[s] = "reading" /\ s2c[s] = "reading" /\ is_destroying_[s] = FALSE
        /\ current_query_[s] = NoQuery /\ toServer[s] = <<>> /\ fromServer[s] = <<>>
        /\ sends[s] = 0 /\ taken[s] = 0 /\ answered[s] = 0 /\ nextPart[s] = 1
        /\ publishing[s] = NoFlight
    BY DEF Init
  <2>2. \A n \in 1 .. MaxSends : pc[<<s, n>>] = "start"
    BY <1>2, CallsMeans
  <2>3. ~Served(s) /\ ~Coming(s) /\ ~Waits(s)
    BY <2>1 DEF Served, Coming, Waits
  <2> QED
    BY <2>1, <2>2, <2>3 DEF Conv, Quiet, InProxy, AtDatabase, InCache, Answering, Follow,
                            Leading, Waiting, Unserved, Replying, Closed
<1>4. CacheAttribution /\ LeaderRemembersQuery /\ Publications
  BY <1>2 DEF Init, CacheAttribution, LeaderRemembersQuery, Publications
<1>5. NoClientMisled
  BY DEF Init, NoClientMisled
<1> QED
  BY <1>1, <1>3, <1>4, <1>5 DEF IInv

\* For clients that wait for their answers: as long as no on_result has run
\* twice, what a client is given, by its database, by the cache or by another
\* session's leader, is the next piece of the answer to the message it sent,
\* whatever errors end chains or sessions and whoever publishes whose flight.
THEOREM ClientsAreNotMisled ==
    ASSUME Pipelining = FALSE
    PROVE  Spec => []OnlyTwiceCalledMisleads
<1>1. IInv /\ [Next]_vars => IInv'
  BY InvStep
<1>2. IInv => OnlyTwiceCalledMisleads
  BY DEF IInv, OnlyTwiceCalledMisleads
<1> QED
  BY <1>1, <1>2, InvInit, PTL DEF Spec

\* Up to the same point the two chains of a session never write to the client
\* at the same time, although no strand orders them.
THEOREM WritesDoNotInterleave ==
    ASSUME Pipelining = FALSE
    PROVE  Spec => []NoInterleavedWrites
<1>1. IInv /\ [Next]_vars => IInv'
  BY InvStep
<1>2. IInv => NoInterleavedWrites
  BY DEF IInv, Conv, InCache, Coming, Served, NoInterleavedWrites
<1> QED
  BY <1>1, <1>2, InvInit, PTL DEF Spec

\* The cache only has the first piece of the answer to the text it is filed
\* under, and so has a flight, whichever session's read put it there and even
\* after a second on_result.
THEOREM CacheIsAttributed ==
    ASSUME Pipelining = FALSE
    PROVE  Spec => []CacheAttribution
<1>1. IInv /\ [Next]_vars => IInv'
  BY InvStep
<1>2. IInv => CacheAttribution
  BY DEF IInv
<1> QED
  BY <1>1, <1>2, InvInit, PTL DEF Spec

\* A leader that has yet to publish still remembers its query: the next piece
\* its session reads is published for it.  The empty text is the exception.
THEOREM LeadersRemember ==
    ASSUME Pipelining = FALSE
    PROVE  Spec => []LeaderRemembersQuery
<1>1. IInv /\ [Next]_vars => IInv'
  BY InvStep
<1>2. IInv => LeaderRemembersQuery
  BY DEF IInv
<1> QED
  BY <1>1, <1>2, InvInit, PTL DEF Spec
=============================================================================
