-------------------------- MODULE QueryCache_proofs --------------------------
(***************************************************************************)
(* Proofs about QueryCache, for any calls, keys, size of L1 and number of  *)
(* faults: its flights are those of SingleFlight, answers are never given  *)
(* to another query, the Redis context is not freed under a reader, the    *)
(* statistics count what they say, threads cannot block each other inside  *)
(* the Redis code, and a text has one leader until it is answered.         *)
(***************************************************************************)
EXTENDS QueryCache, FiniteSetTheorems, SequenceTheorems, TLAPS

\* SingleFlight's proofs, about the flights of the cache.
SFP == INSTANCE SingleFlight_proofs

-----------------------------------------------------------------------------
(* The inductive invariant *)

\* redis_mutex_ is held alone exactly while a thread reconnects.
Locks == \A c \in Calls : holder = c <=> at[c] \in {"reget", "reput"}

\* main configures the cache for all calls at once, before any command.
Configured == \A c \in Calls : at[c] = "config" =>
                  wire = {} /\ \A d \in Calls : at[d] = "config"

\* A new or missing context has no command under way; and as long as no two
\* threads have read at a time, the one reader waits for its own reply.
Wires ==
    /\ holder # NoFlight \/ redis_ctx_ = "none" => wire = {}
    /\ ~raced =>
           /\ \A c, d \in Calls : at[c] = "reading" /\ at[d] = "reading" => c = d
           /\ redis_ctx_ = "up" => \A d \in wire : at[d] = "reading"

Control == Locks /\ Configured /\ Wires /\ ReaderKeepsContext

\* A newcomer with key k hits L1, or L1 is off, or it is full.
Kept(k) ==
    \/ store[k] # NoFlight
    \/ ~l1_enabled_
    \/ Len(recency) = l1_max_size_

\* From putL1 on, a leader's key is kept, and it publishes only after put.
PutFirst ==
    \A c \in Calls :
        /\ at[c] = "fill" => answer[c] # NoFlight
        /\ at[c] \in {"put", "putL2", "reput", "notify"} => Kept(key[c])
        /\ pc[c] \in {"notify", "calling", "done"} => at[c] = "notify"

\* Calls that have looked in L1, that hit, and that may be counted again.
Started == Places \ {"config", "get"}
Owes == {"missed", "enter", "reading", "relock", "reget", "fill"}
AtSome(P) == {c \in Calls : at[c] \in P}
Looked == AtSome(Started)
Hit == AtSome({"hit"})
Owing == AtSome(Owes)

Counted ==
    /\ IsFiniteSet(Looked)
    /\ stats_["l1_hits"] + stats_["l2_hits"] = Cardinality(Hit)
    /\ Cardinality(Looked) <= stats_["l1_hits"] + stats_["l1_misses"]
    /\ 2 * stats_["l1_hits"] + stats_["l1_misses"] + Cardinality(Owing)
           <= 2 * Cardinality(Looked)

IInv ==
    /\ TypeOK
    /\ SFP!IInv
    /\ Control
    /\ OwnAnswers
    /\ PutFirst
    /\ Counted

-----------------------------------------------------------------------------
(* The flights *)

LEMMA FlightConstants ==
    NoFlight \notin Calls /\ AllowAbandon \in BOOLEAN /\ AllowClear \in BOOLEAN
  BY QueryCacheAssumption

\* The two instances of SingleFlight say the same.
LEMMA SameInit == SF!Init <=> SFP!Init
  BY DEF SF!Init, SFP!Init

LEMMA SameNext == [SF!Next]_SF!vars => [SFP!Next]_SFP!vars
  BY Zenon
  DEF SF!vars, SFP!vars, SF!Next, SFP!Next, SF!Lead, SFP!Lead, SF!Find, SFP!Find,
      SF!Work, SFP!Work, SF!Join, SFP!Join, SF!NotifyFind, SFP!NotifyFind,
      SF!EnterNotify, SFP!EnterNotify, SF!NotifyNone, SFP!NotifyNone,
      SF!NotifyMark, SFP!NotifyMark, SF!NotifyCallback, SFP!NotifyCallback,
      SF!NotifyErase, SFP!NotifyErase, SF!Abandon, SFP!Abandon, SF!Clear, SFP!Clear,
      SF!Joinable, SFP!Joinable

LEMMA SameType == SFP!TypeOK <=> SF!TypeOK
  BY DEF SF!TypeOK, SFP!TypeOK, SF!Pc, SFP!Pc, SF!LeaderPc, SFP!LeaderPc

\* Every step of the cache is one of SingleFlight or leaves the flights alone.
LEMMA FlightStep == [Next]_vars => [SF!Next]_SF!vars
<1> SUFFICES ASSUME [Next]_vars
             PROVE  SF!Next \/ UNCHANGED flight
  BY DEF flight, SF!vars
<1>1. ASSUME NEW c \in Calls, Get(c) \/ Put(c)
      PROVE  UNCHANGED flight
  BY <1>1 DEF Get, Put, GetL1Hit, GetL1Miss, GetChoose, GetL2None, GetL2Send, GetL2Reply,
              GetL2Lost, GetL2Disconnect, GetL2Again, FillL1, PutBegin, PutChoose,
              PutL2, PutL2Lost, PutL2Again
<1>2. ASSUME NEW c \in Calls, InFlight(c)
      PROVE  SF!Next
  BY <1>2 DEF InFlight, SF!Next, SF!Work
<1>3. CASE SetRedisConfig
  BY <1>3 DEF SetRedisConfig
<1>4. CASE UNCHANGED vars
  BY <1>4 DEF vars
<1> QED
  BY <1>1, <1>2, <1>3, <1>4 DEF Next

LEMMA InitRefines == Init => SF!Init
  BY DEF Init

\* The flights of the whole cache are those of SingleFlight, so that all that
\* is proved of SingleFlight holds of them.
LEMMA FlightInvariant ==
    /\ Init => SFP!IInv
    /\ SFP!IInv /\ [Next]_vars => SFP!IInv'
<1>1. Init => SFP!IInv
  BY InitRefines, SameInit, SFP!InvInit, FlightConstants
<1>2. SFP!IInv /\ [SFP!Next]_SFP!vars => SFP!IInv'
  BY SFP!InductiveStep, FlightConstants
<1>3. SFP!IInv /\ [Next]_vars => SFP!IInv'
  BY <1>2, FlightStep, SameNext
<1> QED
  BY <1>1, <1>3

LEMMA FlightTypes ==
    SFP!IInv => SF!TypeOK /\ key \in [Calls -> Keys] /\ pc \in [Calls -> SF!Pc]
<1>1. SFP!IInv => SF!TypeOK
  BY SameType DEF SFP!IInv
<1> QED
  BY <1>1 DEF SF!TypeOK

\* The key of a call is fixed.
LEMMA KeyFixed == [Next]_vars => key' = key
<1>1. [SF!Next]_SF!vars => key' = key
  BY DEF SF!vars, SF!Next, SF!Work, SF!Lead, SF!Find, SF!Join, SF!NotifyFind,
         SF!EnterNotify, SF!NotifyNone, SF!NotifyMark, SF!NotifyCallback,
         SF!NotifyErase, SF!Abandon, SF!Clear
<1> QED
  BY <1>1, FlightStep

-----------------------------------------------------------------------------
(* Control: where the calls are, redis_mutex_ and the Redis context *)

\* A step of call c that does not touch the connection.
LEMMA ControlFrame ==
    ASSUME TypeOK, Control, UNCHANGED context, NEW c \in Calls, NEW y \in Places,
           at' = [at EXCEPT ![c] = y],
           at[c] \notin {"config", "reading", "reget", "reput"},
           y \notin {"config", "reading", "reget", "reput"}
    PROVE  Control'
<1>1. at'[c] = y /\ \A d \in Calls : d # c => at'[d] = at[d]
  BY DEF TypeOK
<1>2. \A d \in Calls : \A p \in {"config", "reading", "reget", "reput"} :
          at'[d] = p <=> at[d] = p
  BY <1>1
<1>3. wire \subseteq Calls
  BY DEF TypeOK
<1>4. Locks'
  BY <1>2 DEF Control, Locks, context
<1>5. Configured'
  BY <1>2 DEF Control, Configured, context
<1>6. Wires'
  BY <1>2, <1>3 DEF Control, Wires, context
<1>7. ReaderKeepsContext'
  BY <1>2 DEF Control, ReaderKeepsContext, context
<1> QED
  BY <1>4, <1>5, <1>6, <1>7 DEF Control

LEMMA ControlStep == TypeOK /\ Control /\ [Next]_vars => Control'
<1> SUFFICES ASSUME TypeOK, Control, [Next]_vars
             PROVE  Control'
  OBVIOUS
<1>a. NoFlight \notin Calls /\ wire \subseteq Calls /\ holder \in Calls \cup {NoFlight}
  BY FlightConstants DEF TypeOK
<1>1. ASSUME NEW c \in Calls,
             \/ GetL1Hit(c) \/ GetL1Miss(c) \/ GetChoose(c) \/ GetL2None(c) \/ FillL1(c)
             \/ PutBegin(c) \/ PutChoose(c) \/ PutL2(c)
      PROVE  Control'
  <2>1. UNCHANGED context
    BY <1>1 DEF GetL1Hit, GetL1Miss, GetChoose, GetL2None, FillL1, PutBegin, PutChoose, PutL2
  <2>2. at[c] \in {"get", "missed", "enter", "fill", "flight", "put", "putL2"}
    BY <1>1 DEF GetL1Hit, GetL1Miss, GetChoose, GetL2None, FillL1, PutBegin, PutChoose, PutL2,
                Go, Reply
  <2>3. \E y \in {"hit", "missed", "enter", "flight", "put", "putL2", "notify"} :
            at' = [at EXCEPT ![c] = y]
    BY <1>1 DEF GetL1Hit, GetL1Miss, GetChoose, GetL2None, FillL1, PutBegin, PutChoose, PutL2,
                Go, Reply
  <2>4. PICK y \in {"hit", "missed", "enter", "flight", "put", "putL2", "notify"} :
            at' = [at EXCEPT ![c] = y]
    BY <2>3
  <2>5. y \in Places /\ y \notin {"config", "reading", "reget", "reput"}
    BY DEF Places
  <2> QED
    BY <2>1, <2>2, <2>4, <2>5, ControlFrame
<1>2. ASSUME NEW c \in Calls, GetL2Send(c)
      PROVE  Control'
  <2>1. /\ at[c] = "enter" /\ at'[c] = "reading"
        /\ \A d \in Calls : d # c => at'[d] = at[d]
        /\ holder = NoFlight /\ redis_ctx_ # "none"
        /\ UNCHANGED <<holder, redis_ctx_>>
        /\ wire' = wire \cup {c}
        /\ raced' = (raced \/ \E d \in Calls : at[d] = "reading")
    BY <1>2 DEF GetL2Send, Go, CanShare, TypeOK
  <2>2. Locks'
    BY <1>a, <2>1 DEF Control, Locks
  <2>3. Configured'
    BY <2>1 DEF Control, Configured
  <2>4. ReaderKeepsContext'
    BY <2>1 DEF Control, ReaderKeepsContext
  <2>5. Wires'
    <3>1. ASSUME ~raced', NEW d \in Calls, at'[d] = "reading"
          PROVE  d = c
      BY <2>1, <3>1
    <3>2. ASSUME ~raced', redis_ctx_' = "up", NEW d \in wire'
          PROVE  at'[d] = "reading"
      <4>1. ~raced
        BY <2>1, <3>2
      <4> QED
        BY <1>a, <2>1, <3>2, <4>1 DEF Control, Wires
    <3> QED
      BY <2>1, <3>1, <3>2 DEF Wires
  <2> QED
    BY <2>2, <2>3, <2>4, <2>5 DEF Control
<1>3. ASSUME NEW c \in Calls, GetL2Reply(c)
      PROVE  Control'
  <2>1. /\ at[c] = "reading" /\ at'[c] \in {"flight", "fill"}
        /\ \A d \in Calls : d # c => at'[d] = at[d]
        /\ UNCHANGED <<holder, redis_ctx_, raced>>
        /\ redis_ctx_ = "up" /\ holder = NoFlight
    BY <1>3 DEF GetL2Reply, Reply, Go, TypeOK, Control, ReaderKeepsContext
  <2>2. PICK d \in wire : wire' = wire \ {d}
    BY <1>3 DEF GetL2Reply
  <2>3. Locks'
    BY <1>a, <2>1 DEF Control, Locks
  <2>4. Configured'
    BY <2>1 DEF Control, Configured
  <2>5. ReaderKeepsContext'
    BY <2>1 DEF Control, ReaderKeepsContext
  <2>6. Wires'
    <3>1. ~raced => wire' = {}
      BY <1>a, <2>1, <2>2 DEF Control, Wires
    <3>2. \A x \in Calls : at'[x] = "reading" => at[x] = "reading"
      BY <2>1
    <3> QED
      BY <2>1, <3>1, <3>2 DEF Control, Wires
  <2> QED
    BY <2>3, <2>4, <2>5, <2>6 DEF Control
<1>4. ASSUME NEW c \in Calls, GetL2Lost(c)
      PROVE  Control'
  <2>1. /\ at[c] = "reading" /\ at'[c] = "relock"
        /\ \A d \in Calls : d # c => at'[d] = at[d]
        /\ UNCHANGED <<holder, wire, raced>>
        /\ redis_ctx_' = "broken" /\ holder = NoFlight
    BY <1>4 DEF GetL2Lost, Go, TypeOK, Control, ReaderKeepsContext
  <2>2. Locks'
    BY <1>a, <2>1 DEF Control, Locks
  <2>3. Configured'
    BY <2>1 DEF Control, Configured
  <2>4. ReaderKeepsContext'
    BY <2>1 DEF Control, ReaderKeepsContext
  <2>5. Wires'
    BY <2>1 DEF Control, Wires
  <2> QED
    BY <2>2, <2>3, <2>4, <2>5 DEF Control
<1>5. ASSUME NEW c \in Calls, GetL2Disconnect(c) \/ PutL2Lost(c)
      PROVE  Control'
  <2>1. /\ at[c] \in {"relock", "putL2"} /\ at'[c] \in {"reget", "reput"}
        /\ \A d \in Calls : d # c => at'[d] = at[d]
        /\ holder = NoFlight /\ holder' = c /\ wire' = {}
        /\ redis_ctx_' = "none" /\ UNCHANGED raced
        /\ \A d \in Calls : at[d] # "reading"
    BY <1>5 DEF GetL2Disconnect, PutL2Lost, Go, CanLock, Disconnect, TypeOK
  <2>2. Locks'
    BY <1>a, <2>1 DEF Control, Locks
  <2>3. Configured'
    BY <2>1 DEF Control, Configured
  <2>4. ReaderKeepsContext' /\ Wires'
    BY <2>1 DEF ReaderKeepsContext, Wires
  <2> QED
    BY <2>2, <2>3, <2>4 DEF Control
<1>6. ASSUME NEW c \in Calls, GetL2Again(c) \/ PutL2Again(c)
      PROVE  Control'
  <2>1. /\ at[c] \in {"reget", "reput"} /\ at'[c] \in {"flight", "fill", "notify"}
        /\ \A d \in Calls : d # c => at'[d] = at[d]
        /\ holder' = NoFlight /\ UNCHANGED <<wire, raced>>
    BY <1>6 DEF GetL2Again, PutL2Again, Go, Reply, TypeOK
  <2>2. holder = c /\ wire = {}
    BY <1>a, <2>1 DEF Control, Locks, Wires
  <2>3. \A d \in Calls : at'[d] # "reading"
    BY <1>a, <2>1, <2>2 DEF Control, ReaderKeepsContext
  <2>4. Locks'
    BY <1>a, <2>1, <2>2 DEF Control, Locks
  <2>5. Configured'
    BY <2>1 DEF Control, Configured
  <2>6. ReaderKeepsContext' /\ Wires'
    BY <2>1, <2>2, <2>3 DEF ReaderKeepsContext, Wires
  <2> QED
    BY <2>4, <2>5, <2>6 DEF Control
<1>7. CASE SetRedisConfig
  <2>1. /\ \A d \in Calls : at[d] = "config" /\ at'[d] = "get"
        /\ UNCHANGED <<holder, wire, raced>>
    BY <1>7 DEF SetRedisConfig
  <2>2. wire = {} /\ holder = NoFlight
    BY <1>a, <2>1, QueryCacheAssumption DEF Control, Configured, Locks
  <2> QED
    BY <1>a, <2>1, <2>2 DEF Control, Locks, Configured, ReaderKeepsContext, Wires
<1>8. CASE UNCHANGED <<at, context>>
  BY <1>8 DEF Control, Locks, Configured, ReaderKeepsContext, Wires, context
<1>9. ASSUME NEW c \in Calls, InFlight(c)
      PROVE  Control'
  BY <1>8, <1>9 DEF InFlight
<1>10. CASE UNCHANGED vars
  BY <1>8, <1>10 DEF vars
<1> QED
  BY <1>1, <1>2, <1>3, <1>4, <1>5, <1>6, <1>7, <1>9, <1>10 DEF Next, Get, Put

-----------------------------------------------------------------------------
(* L1 *)

LEMMA TouchType ==
    ASSUME NEW s \in Seq(Keys), NEW k \in Keys
    PROVE  /\ Append(L1!Without(s, k), k) \in Seq(Keys)
           /\ s # <<>> => Len(Append(L1!Without(s, k), k)) = Len(s)
<1> DEFINE p == CHOOSE i \in DOMAIN s : s[i] = k
           w == L1!Without(s, k)
<1>1. Len(s) \in Nat /\ \A i \in 1 .. Len(s) : s[i] \in Keys
  OBVIOUS
<1>2. w = [i \in 1 .. Len(s) - 1 |-> IF i < p THEN s[i] ELSE s[i + 1]]
  BY DEF L1!Without
<1> HIDE DEF p, w
<1>3. \A i \in 1 .. Len(s) - 1 : (IF i < p THEN s[i] ELSE s[i + 1]) \in Keys
  <2>1. \A i \in 1 .. Len(s) - 1 : s[i] \in Keys /\ s[i + 1] \in Keys
    BY <1>1
  <2> QED
    BY <2>1
<1>4. w \in [1 .. Len(s) - 1 -> Keys]
  BY <1>2, <1>3
<1>5. CASE s = <<>>
  <2>1. 1 .. Len(s) - 1 = 1 .. 0
    BY <1>5
  <2>2. w \in Seq(Keys)
    BY <1>4, <2>1
  <2> QED
    BY <1>5, <2>2 DEF w
<1>6. CASE s # <<>>
  <2>1. Len(s) - 1 \in Nat
    BY <1>1, <1>6
  <2>2. w \in Seq(Keys) /\ DOMAIN w = 1 .. Len(s) - 1
    BY <1>4, <2>1
  <2>3. Len(w) = Len(s) - 1
    BY <2>1, <2>2
  <2>4. Append(w, k) \in Seq(Keys) /\ Len(Append(w, k)) = Len(w) + 1
    BY <2>2
  <2> QED
    BY <1>1, <2>3, <2>4 DEF w
<1> QED
  BY <1>5, <1>6

Level1Type ==
    /\ store \in [Keys -> Answers] /\ recency \in Seq(Keys)
    /\ l1_max_size_ = L1Size /\ l1_enabled_ \in BOOLEAN

\* A hit gives what is stored, and changes only the order of the keys.
LEMMA L1Get ==
    ASSUME Level1Type, NEW c \in Calls, NEW k \in Keys, store[k] # NoFlight, L1!Get(c, k)
    PROVE  /\ UNCHANGED <<store, l1_max_size_>>
           /\ answer' = [answer EXCEPT ![c] = store[k]]
           /\ recency' \in Seq(Keys)
           /\ Len(recency) = l1_max_size_ => Len(recency') = l1_max_size_
<1>1. /\ UNCHANGED <<store, l1_max_size_>>
      /\ answer' = [answer EXCEPT ![c] = store[k]]
      /\ recency' = Append(L1!Without(recency, k), k)
  BY DEF L1!Get
<1>2. recency \in Seq(Keys) /\ (Len(recency) = l1_max_size_ => recency # <<>>)
  BY QueryCacheAssumption DEF Level1Type
<1> QED
  BY <1>1, <1>2, TouchType

\* putL1 stores v under k, gives up other entries only when L1 is full, and a
\* full L1 stays full.
LEMMA L1Put ==
    ASSUME Level1Type, NEW k \in Keys, NEW v \in Answers, v # NoFlight, PutL1(k, v),
           UNCHANGED l1_enabled_
    PROVE  /\ Level1Type'
           /\ store'[k] \in {store[k], v}
           /\ \A x \in Keys : x # k => store'[x] \in {store[x], NoFlight}
           /\ Kept(k)'
           /\ \A x \in Keys : Kept(x) => Kept(x)'
<1>1. CASE ~l1_enabled_
  BY <1>1 DEF PutL1, Level1Type, Kept
<1>2. CASE L1!Refresh(k, v)
  <2>1. /\ store' = [store EXCEPT ![k] = v]
        /\ recency' = Append(L1!Without(recency, k), k)
        /\ UNCHANGED l1_max_size_
    BY <1>2 DEF L1!Refresh
  <2>2. recency \in Seq(Keys) /\ (Len(recency) = l1_max_size_ => recency # <<>>)
    BY QueryCacheAssumption DEF Level1Type
  <2>3. recency' \in Seq(Keys) /\ (Len(recency) = l1_max_size_ => Len(recency') = l1_max_size_)
    BY <2>1, <2>2, TouchType
  <2>4. /\ store' \in [Keys -> Answers] /\ store'[k] = v
        /\ \A x \in Keys : x # k => store'[x] = store[x]
    BY <2>1 DEF Level1Type
  <2> QED
    BY <2>1, <2>3, <2>4 DEF Level1Type, Kept
<1>3. CASE L1!Insert(k, v)
  <2>1. /\ store' = [store EXCEPT ![k] = v]
        /\ recency' = Append(recency, k)
        /\ UNCHANGED l1_max_size_ /\ Len(recency) < l1_max_size_
    BY <1>3 DEF L1!Insert
  <2>2. recency' \in Seq(Keys)
    BY <2>1 DEF Level1Type
  <2>3. /\ store' \in [Keys -> Answers] /\ store'[k] = v
        /\ \A x \in Keys : x # k => store'[x] = store[x]
    BY <2>1 DEF Level1Type
  <2>4. Len(recency) # l1_max_size_
    BY <2>1, QueryCacheAssumption DEF Level1Type
  <2> QED
    BY <2>1, <2>2, <2>3, <2>4 DEF Level1Type, Kept
<1>4. CASE L1!Replace(k, v)
  <2>1. /\ store' = [store EXCEPT ![Head(recency)] = NoFlight, ![k] = v]
        /\ recency' = Append(Tail(recency), k) /\ recency # <<>>
        /\ UNCHANGED l1_max_size_ /\ Len(recency) = l1_max_size_
    BY <1>4 DEF L1!Replace
  <2>2. recency \in Seq(Keys) /\ Head(recency) \in Keys
    BY <2>1 DEF Level1Type
  <2>3. recency' \in Seq(Keys) /\ Len(recency') = Len(recency)
    BY <2>1, <2>2
  <2>4. NoFlight \in Answers
    BY DEF Answers
  <2>5. /\ store' \in [Keys -> Answers] /\ store'[k] = v
        /\ \A x \in Keys : x # k => store'[x] \in {store[x], NoFlight}
    BY <2>1, <2>2, <2>4 DEF Level1Type
  <2> QED
    BY <2>1, <2>3, <2>5 DEF Level1Type, Kept
<1> QED
  BY <1>1, <1>2, <1>3, <1>4 DEF PutL1

-----------------------------------------------------------------------------
(* Types *)

LEMMA FlightTypeNext == SFP!IInv' => SF!TypeOK'
  BY FlightTypes, PTL

LEMMA CountType ==
    ASSUME stats_ \in [Counters -> Nat], NEW names, Count(names)
    PROVE  stats_' \in [Counters -> Nat]
  BY DEF Count

LEMMA TypeStep == IInv /\ SFP!IInv' /\ [Next]_vars => TypeOK'
<1> SUFFICES ASSUME IInv, SFP!IInv', [Next]_vars
             PROVE  TypeOK'
  OBVIOUS
<1>t. /\ TypeOK /\ Level1Type /\ key \in [Calls -> Keys]
      /\ NoFlight \in Answers /\ Calls \subseteq Answers
  BY FlightTypes DEF IInv, TypeOK, Level1Type, Answers
<1>f. SF!TypeOK'
  BY FlightTypeNext
<1>x. MaxFaults \in Nat /\ NoFlight \notin Calls
  BY QueryCacheAssumption
<1>1. ASSUME NEW c \in Calls, GetL1Hit(c)
      PROVE  TypeOK'
  <2>1. /\ UNCHANGED <<l1_enabled_, context, redis>> /\ at' = [at EXCEPT ![c] = "hit"]
        /\ L1!Get(c, key[c]) /\ store[key[c]] # NoFlight /\ CountL1Hit
    BY <1>1 DEF GetL1Hit, Go
  <2>2. Level1Type' /\ answer' \in [Calls -> Answers]
    <3>1. /\ UNCHANGED <<store, l1_max_size_>> /\ recency' \in Seq(Keys)
          /\ answer' = [answer EXCEPT ![c] = store[key[c]]]
      BY <1>t, <2>1, L1Get
    <3> QED
      BY <1>t, <2>1, <3>1 DEF TypeOK, Level1Type
  <2>3. stats_' \in [Counters -> Nat]
    BY <1>t, <2>1, CountType DEF CountL1Hit, TypeOK
  <2>4. at' \in [Calls -> Places]
    BY <1>t, <2>1 DEF TypeOK, Places
  <2> QED
    BY <1>t, <1>f, <2>1, <2>2, <2>3, <2>4 DEF TypeOK, Level1Type, context
<1>2. ASSUME NEW c \in Calls, GetL1Miss(c) \/ GetChoose(c) \/ PutChoose(c)
      PROVE  TypeOK'
  <2>1. UNCHANGED <<level1, answer, context, redis>> /\ (UNCHANGED stats_ \/ CountMiss)
    BY <1>2 DEF GetL1Miss, GetChoose, PutChoose
  <2>2. stats_' \in [Counters -> Nat]
    BY <1>t, <2>1, CountType DEF CountMiss, TypeOK
  <2>3. at' \in [Calls -> Places]
    BY <1>t, <1>2 DEF TypeOK, Places, GetL1Miss, GetChoose, PutChoose, Go
  <2> QED
    BY <1>t, <1>f, <2>1, <2>2, <2>3 DEF TypeOK, Level1Type, level1, context
<1>3. ASSUME NEW c \in Calls, NEW from \in Places, NEW v \in Answers, Reply(c, from, v)
      PROVE  /\ at' \in [Calls -> Places] /\ answer' \in [Calls -> Answers]
             /\ stats_' \in [Counters -> Nat]
  <2>1. stats_' \in [Counters -> Nat]
    BY <1>t, <1>3, CountType DEF Reply, CountMiss, TypeOK
  <2> QED
    BY <1>t, <1>3, <2>1 DEF Reply, Go, TypeOK, Places
<1>p. {"enter", "reading", "reget"} \subseteq Places
  BY DEF Places
<1>r. \A c \in Calls : redis[key[c]] \in Answers
  BY <1>t DEF TypeOK
<1>4. ASSUME NEW c \in Calls, GetL2None(c)
      PROVE  TypeOK'
  <2>1. UNCHANGED <<level1, context, redis>> /\ Reply(c, "enter", NoFlight)
    BY <1>4 DEF GetL2None
  <2> QED
    BY <1>t, <1>f, <1>3, <1>p, <2>1 DEF TypeOK, Level1Type, level1, context
<1>5. ASSUME NEW c \in Calls, GetL2Send(c)
      PROVE  TypeOK'
  <2>1. at' \in [Calls -> Places]
    BY <1>t, <1>5 DEF TypeOK, Places, GetL2Send, Go
  <2>2. raced' \in BOOLEAN /\ wire' \subseteq Calls
    BY <1>t, <1>5 DEF TypeOK, GetL2Send
  <2> QED
    BY <1>t, <1>f, <1>5, <2>1, <2>2 DEF TypeOK, Level1Type, level1, GetL2Send
<1>6. ASSUME NEW c \in Calls, GetL2Reply(c)
      PROVE  TypeOK'
  <2>1. /\ UNCHANGED <<level1, redis_enabled_, redis_ctx_, holder, faults, raced, redis>>
        /\ wire' \subseteq Calls
    BY <1>t, <1>6 DEF GetL2Reply, TypeOK
  <2>2. \E d \in wire : \E v \in {redis[key[d]], NoFlight} : Reply(c, "reading", v)
    BY <1>6 DEF GetL2Reply
  <2>3. \E v \in Answers : Reply(c, "reading", v)
    BY <1>t, <1>r, <2>2 DEF TypeOK
  <2> QED
    BY <1>t, <1>f, <1>3, <1>p, <2>1, <2>3 DEF TypeOK, Level1Type, level1
<1>7. ASSUME NEW c \in Calls, GetL2Lost(c)
      PROVE  TypeOK'
  <2>1. at' \in [Calls -> Places]
    BY <1>t, <1>7 DEF TypeOK, Places, GetL2Lost, Go
  <2>2. /\ redis_ctx_ # "none" /\ redis_ctx_' = "broken" /\ UNCHANGED redis_enabled_
        /\ faults' \in 0 .. MaxFaults
    BY <1>t, <1>x, <1>7 DEF GetL2Lost, CommandLost, Fault, TypeOK
  <2>3. redis_enabled_' = (redis_ctx_' # "none")
    BY <1>t, <2>2 DEF TypeOK
  <2> QED
    BY <1>t, <1>f, <1>7, <2>1, <2>2, <2>3 DEF TypeOK, Level1Type, level1, GetL2Lost
<1>8. ASSUME NEW c \in Calls, GetL2Disconnect(c)
      PROVE  TypeOK'
  <2>1. at' \in [Calls -> Places]
    BY <1>t, <1>8 DEF TypeOK, Places, GetL2Disconnect, Go
  <2> QED
    BY <1>t, <1>f, <1>8, <2>1 DEF TypeOK, Level1Type, level1, GetL2Disconnect, Disconnect
<1>c. ASSUME ConnectFails \/ (ConnectSucceeds /\ UNCHANGED faults)
             \/ (Fault /\ redis_ctx_' = "broken" /\ redis_enabled_' = TRUE)
      PROVE  /\ redis_ctx_' \in {"none", "up", "broken"}
             /\ redis_enabled_' = (redis_ctx_' # "none")
             /\ faults' \in 0 .. MaxFaults
  <2>1. faults' \in 0 .. MaxFaults
    BY <1>t, <1>x, <1>c DEF ConnectFails, Fault, TypeOK
  <2> QED
    BY <1>c, <2>1 DEF ConnectFails, ConnectSucceeds
<1>9. ASSUME NEW c \in Calls, GetL2Again(c)
      PROVE  TypeOK'
  <2>1. \E v \in Answers : Reply(c, "reget", v)
    BY <1>t, <1>r, <1>9 DEF GetL2Again
  <2>2. /\ redis_ctx_' \in {"none", "up", "broken"}
        /\ redis_enabled_' = (redis_ctx_' # "none")
        /\ faults' \in 0 .. MaxFaults
    BY <1>9, <1>c DEF GetL2Again
  <2>3. holder' = NoFlight /\ UNCHANGED <<level1, wire, raced, redis>>
    BY <1>9 DEF GetL2Again
  <2> QED
    BY <1>t, <1>f, <1>3, <1>p, <2>1, <2>2, <2>3 DEF TypeOK, Level1Type, level1
<1>10. ASSUME NEW c \in Calls, FillL1(c)
       PROVE  TypeOK'
  <2>1. /\ UNCHANGED <<answer, l1_enabled_, context, redis>> /\ PutL1(key[c], answer[c])
        /\ at[c] = "fill" /\ at' = [at EXCEPT ![c] = "hit"] /\ CountL2Hit
    BY <1>10 DEF FillL1, Go
  <2>2. answer[c] \in Answers /\ answer[c] # NoFlight
    BY <1>t, <2>1 DEF IInv, PutFirst, TypeOK
  <2>3. Level1Type'
    BY <1>t, <2>1, <2>2, L1Put
  <2>4. stats_' \in [Counters -> Nat]
    BY <1>t, <2>1, CountType DEF CountL2Hit, TypeOK
  <2>5. at' \in [Calls -> Places]
    BY <1>t, <2>1 DEF TypeOK, Places
  <2> QED
    BY <1>t, <1>f, <2>1, <2>3, <2>4, <2>5 DEF TypeOK, Level1Type, context
<1>11. ASSUME NEW c \in Calls, PutBegin(c)
       PROVE  TypeOK'
  <2>1. /\ UNCHANGED <<answer, l1_enabled_, context, redis, stats_>> /\ PutL1(key[c], c)
        /\ at' = [at EXCEPT ![c] = "put"]
    BY <1>11 DEF PutBegin, Go
  <2>2. Level1Type'
    BY <1>t, <1>x, <2>1, L1Put
  <2>3. at' \in [Calls -> Places]
    BY <1>t, <2>1 DEF TypeOK, Places
  <2> QED
    BY <1>t, <1>f, <2>1, <2>2, <2>3 DEF TypeOK, Level1Type, context
<1>s. \A c \in Calls : Stored(c) \in [Keys -> Answers]
  BY <1>t DEF Stored, TypeOK
<1>12. ASSUME NEW c \in Calls, PutL2(c)
       PROVE  TypeOK'
  <2>1. redis' \in [Keys -> Answers]
    BY <1>t, <1>s, <1>12 DEF PutL2, TypeOK
  <2>2. at' \in [Calls -> Places]
    BY <1>t, <1>12 DEF TypeOK, Places, PutL2, Go
  <2> QED
    BY <1>t, <1>f, <1>12, <2>1, <2>2 DEF TypeOK, Level1Type, level1, context, PutL2
<1>13. ASSUME NEW c \in Calls, PutL2Lost(c)
       PROVE  TypeOK'
  <2>1. redis' \in [Keys -> Answers]
    BY <1>t, <1>s, <1>13 DEF PutL2Lost, TypeOK
  <2>2. at' \in [Calls -> Places]
    BY <1>t, <1>13 DEF TypeOK, Places, PutL2Lost, Go
  <2>3. faults' \in 0 .. MaxFaults
    BY <1>t, <1>x, <1>13 DEF PutL2Lost, CommandLost, Fault, TypeOK
  <2> QED
    BY <1>t, <1>f, <1>13, <2>1, <2>2, <2>3
    DEF TypeOK, Level1Type, level1, Disconnect, PutL2Lost
<1>14. ASSUME NEW c \in Calls, PutL2Again(c)
       PROVE  TypeOK'
  <2>1. redis' \in [Keys -> Answers]
    BY <1>t, <1>s, <1>14 DEF PutL2Again, TypeOK
  <2>2. at' \in [Calls -> Places]
    BY <1>t, <1>14 DEF TypeOK, Places, PutL2Again, Go
  <2>3. /\ redis_ctx_' \in {"none", "up", "broken"}
        /\ redis_enabled_' = (redis_ctx_' # "none")
        /\ faults' \in 0 .. MaxFaults
    BY <1>14, <1>c DEF PutL2Again
  <2> QED
    BY <1>t, <1>f, <1>14, <2>1, <2>2, <2>3 DEF TypeOK, Level1Type, level1, PutL2Again
<1>15. CASE SetRedisConfig
  <2>1. /\ redis_ctx_' \in {"none", "up", "broken"}
        /\ redis_enabled_' = (redis_ctx_' # "none")
        /\ faults' \in 0 .. MaxFaults
    BY <1>t, <1>15, <1>c DEF SetRedisConfig, TypeOK
  <2>2. at' \in [Calls -> Places]
    BY <1>15 DEF SetRedisConfig, Places
  <2> QED
    BY <1>t, <1>f, <1>15, <2>1, <2>2 DEF TypeOK, Level1Type, level1, SetRedisConfig
<1>16. CASE UNCHANGED <<level1, answer, context, redis, at, stats_>>
  BY <1>t, <1>f, <1>16 DEF TypeOK, Level1Type, level1, context
<1>17. ASSUME NEW c \in Calls, InFlight(c)
       PROVE  TypeOK'
  BY <1>16, <1>17 DEF InFlight
<1>18. CASE UNCHANGED vars
  BY <1>16, <1>18 DEF vars
<1> QED
  BY <1>1, <1>2, <1>4, <1>5, <1>6, <1>7, <1>8, <1>9, <1>10, <1>11, <1>12, <1>13, <1>14,
     <1>15, <1>17, <1>18
  DEF Next, Get, Put

-----------------------------------------------------------------------------
(* Answers *)

\* Answer a was fetched for key k.
IsFor(k, a) == a \in {NoFlight, k} \/ (a \in Calls /\ key[a] = k)

LEMMA OwnAnswersMeans ==
    OwnAnswers <=>
        (~raced => /\ \A k \in Keys : IsFor(k, store[k]) /\ IsFor(k, redis[k])
                   /\ \A c \in Calls : IsFor(key[c], answer[c]))
  BY DEF OwnAnswers, IsFor

LEMMA OwnAnswersNext ==
    ASSUME key' = key,
           ~raced' => /\ \A k \in Keys : IsFor(k, store'[k]) /\ IsFor(k, redis'[k])
                      /\ \A c \in Calls : IsFor(key[c], answer'[c])
    PROVE  OwnAnswers'
  BY DEF OwnAnswers, IsFor

LEMMA OwnStep == IInv /\ [Next]_vars => OwnAnswers'
<1> SUFFICES ASSUME IInv, [Next]_vars
             PROVE  OwnAnswers'
  OBVIOUS
<1>t. /\ TypeOK /\ Level1Type /\ key \in [Calls -> Keys] /\ key' = key
      /\ Calls \subseteq Answers /\ NoFlight \notin Calls
  BY FlightTypes, KeyFixed, FlightConstants DEF IInv, TypeOK, Level1Type, Answers
<1>o. ~raced => /\ \A k \in Keys : IsFor(k, store[k]) /\ IsFor(k, redis[k])
                /\ \A c \in Calls : IsFor(key[c], answer[c])
  BY OwnAnswersMeans DEF IInv
<1>1. CASE UNCHANGED <<store, redis, answer>> /\ (raced => raced')
  BY <1>t, <1>o, <1>1, OwnAnswersNext
<1>2. ASSUME NEW c \in Calls, UNCHANGED <<store, redis, raced>>,
             NEW v, answer' = [answer EXCEPT ![c] = v],
             ~raced => IsFor(key[c], v)
      PROVE  OwnAnswers'
  <2>1. ~raced => \A d \in Calls : IsFor(key[d], answer'[d])
    BY <1>t, <1>o, <1>2 DEF TypeOK
  <2> QED
    BY <1>t, <1>o, <1>2, <2>1, OwnAnswersNext
<1>3. ASSUME NEW c \in Calls, NEW v \in Answers, v # NoFlight, ~raced => IsFor(key[c], v),
             PutL1(key[c], v), UNCHANGED <<l1_enabled_, redis, answer, raced>>
      PROVE  OwnAnswers'
  <2>1. /\ store'[key[c]] \in {store[key[c]], v}
        /\ \A x \in Keys : x # key[c] => store'[x] \in {store[x], NoFlight}
    BY <1>t, <1>3, L1Put
  <2>2. \A k \in Keys : IsFor(k, NoFlight)
    BY DEF IsFor
  <2>3. ~raced => \A k \in Keys : IsFor(k, store'[k])
    BY <1>t, <1>o, <1>3, <2>1, <2>2
  <2> QED
    BY <1>t, <1>o, <1>3, <2>3, OwnAnswersNext
<1>4. ASSUME NEW c \in Calls, UNCHANGED <<store, answer, raced>>,
             redis' \in {redis, Stored(c)}
      PROVE  OwnAnswers'
  <2>1. IsFor(key[c], c)
    BY DEF IsFor
  <2>2. ~raced => \A k \in Keys : IsFor(k, redis'[k])
    BY <1>t, <1>o, <1>4, <2>1 DEF Stored, TypeOK
  <2> QED
    BY <1>t, <1>o, <1>4, <2>2, OwnAnswersNext
<1>5. ASSUME NEW c \in Calls, GetL1Hit(c)
      PROVE  OwnAnswers'
  <2>1. /\ UNCHANGED <<store, redis, raced>>
        /\ answer' = [answer EXCEPT ![c] = store[key[c]]]
    BY <1>5 DEF GetL1Hit, L1!Get, context
  <2>2. ~raced => IsFor(key[c], store[key[c]])
    BY <1>t, <1>o
  <2> QED
    BY <1>2, <2>1, <2>2
<1>6. ASSUME NEW c \in Calls,
             \/ GetL1Miss(c) \/ GetChoose(c) \/ GetL2Send(c) \/ GetL2Lost(c)
             \/ GetL2Disconnect(c) \/ PutChoose(c)
      PROVE  OwnAnswers'
  <2>1. UNCHANGED <<store, redis, answer>>
    BY <1>6 DEF GetL1Miss, GetChoose, GetL2Send, GetL2Lost, GetL2Disconnect, PutChoose, level1
  <2>2. raced' = raced \/ raced' = (raced \/ \E d \in Calls : at[d] = "reading")
    BY <1>6 DEF GetL1Miss, GetChoose, GetL2Send, GetL2Lost, GetL2Disconnect, PutChoose, context
  <2> QED
    BY <1>1, <2>1, <2>2
<1>n. \A c \in Calls : IsFor(key[c], NoFlight)
  BY DEF IsFor
<1>7. ASSUME NEW c \in Calls, GetL2None(c)
      PROVE  OwnAnswers'
  <2>1. UNCHANGED <<store, redis, raced>> /\ answer' = [answer EXCEPT ![c] = NoFlight]
    BY <1>7 DEF GetL2None, Reply, level1, context
  <2> QED
    BY <1>2, <1>n, <2>1
<1>8. ASSUME NEW c \in Calls, GetL2Reply(c)
      PROVE  OwnAnswers'
  <2>1. PICK d \in wire : \E v \in {redis[key[d]], NoFlight} : Reply(c, "reading", v)
    BY <1>8 DEF GetL2Reply
  <2>2. PICK v \in {redis[key[d]], NoFlight} : Reply(c, "reading", v)
    BY <2>1
  <2>3. /\ UNCHANGED <<store, redis, raced>> /\ redis_ctx_ = "up" /\ d \in Calls
        /\ at[c] = "reading" /\ answer' = [answer EXCEPT ![c] = v]
    BY <1>t, <1>8, <2>2 DEF GetL2Reply, Reply, Go, level1, TypeOK
  <2>4. ~raced => d = c
    BY <2>3 DEF IInv, Control, Wires
  <2>5. ~raced => IsFor(key[c], v)
    BY <1>t, <1>n, <1>o, <2>2, <2>4
  <2> QED
    BY <1>2, <2>3, <2>5
<1>9. ASSUME NEW c \in Calls, GetL2Again(c)
      PROVE  OwnAnswers'
  <2>1. PICK v \in {redis[key[c]], NoFlight} : Reply(c, "reget", v)
    BY <1>9 DEF GetL2Again
  <2>2. UNCHANGED <<store, redis, raced>> /\ answer' = [answer EXCEPT ![c] = v]
    BY <1>9, <2>1 DEF GetL2Again, Reply, level1
  <2>3. ~raced => IsFor(key[c], v)
    BY <1>t, <1>n, <1>o, <2>1
  <2> QED
    BY <1>2, <2>2, <2>3
<1>10. ASSUME NEW c \in Calls, FillL1(c)
       PROVE  OwnAnswers'
  <2>1. /\ UNCHANGED <<l1_enabled_, redis, answer, raced>> /\ PutL1(key[c], answer[c])
        /\ at[c] = "fill"
    BY <1>10 DEF FillL1, Go, context
  <2>2. answer[c] \in Answers /\ answer[c] # NoFlight
    BY <1>t, <2>1 DEF IInv, PutFirst, TypeOK
  <2> QED
    BY <1>3, <1>o, <2>1, <2>2
<1>11. ASSUME NEW c \in Calls, PutBegin(c)
       PROVE  OwnAnswers'
  <2>1. UNCHANGED <<l1_enabled_, redis, answer, raced>> /\ PutL1(key[c], c)
    BY <1>11 DEF PutBegin, context
  <2>2. IsFor(key[c], c) /\ c \in Answers /\ c # NoFlight
    BY <1>t DEF IsFor
  <2> QED
    BY <1>3, <2>1, <2>2
<1>12. ASSUME NEW c \in Calls, PutL2(c) \/ PutL2Lost(c) \/ PutL2Again(c)
       PROVE  OwnAnswers'
  <2>1. UNCHANGED <<store, answer, raced>>
    BY <1>12 DEF PutL2, PutL2Lost, PutL2Again, level1, context
  <2>2. redis' \in {redis, Stored(c)}
    BY <1>12 DEF PutL2, PutL2Lost, PutL2Again
  <2> QED
    BY <1>4, <2>1, <2>2
<1>13. ASSUME NEW c \in Calls, InFlight(c)
       PROVE  OwnAnswers'
  BY <1>1, <1>13 DEF InFlight, level1, context
<1>14. CASE SetRedisConfig
  BY <1>1, <1>14 DEF SetRedisConfig, level1
<1>15. CASE UNCHANGED vars
  BY <1>1, <1>15 DEF vars, level1, context
<1> QED
  BY <1>5, <1>6, <1>7, <1>8, <1>9, <1>10, <1>11, <1>12, <1>13, <1>14, <1>15
  DEF Next, Get, Put

-----------------------------------------------------------------------------
(* Caching before notifying *)

\* What newcomers would find in L1 they find after any later step.
LEMMA KeptStep ==
    ASSUME IInv, [Next]_vars, NEW x \in Keys, Kept(x)
    PROVE  Kept(x)'
<1>t. /\ TypeOK /\ Level1Type /\ key \in [Calls -> Keys]
      /\ Calls \subseteq Answers /\ NoFlight \notin Calls
  BY FlightTypes, FlightConstants DEF IInv, TypeOK, Level1Type, Answers
<1>1. CASE UNCHANGED level1
  BY <1>1 DEF level1, Kept
<1>2. ASSUME NEW c \in Calls, GetL1Hit(c)
      PROVE  Kept(x)'
  <2>1. L1!Get(c, key[c]) /\ store[key[c]] # NoFlight /\ UNCHANGED l1_enabled_
    BY <1>2 DEF GetL1Hit
  <2>2. /\ UNCHANGED <<store, l1_max_size_>>
        /\ Len(recency) = l1_max_size_ => Len(recency') = l1_max_size_
    BY <1>t, <2>1, L1Get
  <2> QED
    BY <2>1, <2>2 DEF Kept
<1>3. ASSUME NEW c \in Calls, FillL1(c)
      PROVE  Kept(x)'
  <2>1. PutL1(key[c], answer[c]) /\ at[c] = "fill" /\ UNCHANGED l1_enabled_
    BY <1>3 DEF FillL1, Go
  <2>2. answer[c] \in Answers /\ answer[c] # NoFlight
    BY <1>t, <2>1 DEF IInv, PutFirst, TypeOK
  <2> QED
    BY <1>t, <2>1, <2>2, L1Put
<1>4. ASSUME NEW c \in Calls, PutBegin(c)
      PROVE  Kept(x)'
  <2>1. PutL1(key[c], c) /\ UNCHANGED l1_enabled_
    BY <1>4 DEF PutBegin
  <2> QED
    BY <1>t, <2>1, L1Put
<1>5. ASSUME NEW c \in Calls,
             \/ GetL1Miss(c) \/ GetChoose(c) \/ GetL2None(c) \/ GetL2Send(c) \/ GetL2Reply(c)
             \/ GetL2Lost(c) \/ GetL2Disconnect(c) \/ GetL2Again(c) \/ InFlight(c)
             \/ PutChoose(c) \/ PutL2(c) \/ PutL2Lost(c) \/ PutL2Again(c)
      PROVE  UNCHANGED level1
  BY <1>5 DEF GetL1Miss, GetChoose, GetL2None, GetL2Send, GetL2Reply, GetL2Lost,
              GetL2Disconnect, GetL2Again, InFlight, PutChoose, PutL2, PutL2Lost, PutL2Again
<1>6. CASE SetRedisConfig \/ UNCHANGED vars
  BY <1>1, <1>6 DEF SetRedisConfig, vars
<1> QED
  BY <1>1, <1>2, <1>3, <1>4, <1>5, <1>6 DEF Next, Get, Put

LEMMA PutFirstStep == IInv /\ [Next]_vars => PutFirst'
<1> SUFFICES ASSUME IInv, [Next]_vars
             PROVE  PutFirst'
  OBVIOUS
<1>t. /\ TypeOK /\ Level1Type /\ key \in [Calls -> Keys] /\ key' = key
      /\ pc \in [Calls -> SF!Pc]
      /\ Calls \subseteq Answers /\ NoFlight \notin Calls
  BY FlightTypes, KeyFixed, FlightConstants DEF IInv, TypeOK, Level1Type, Answers
<1>k. \A c \in Calls : Kept(key[c]) => Kept(key[c])'
  <2>1. \A x \in Keys : Kept(x) => Kept(x)'
    BY KeptStep
  <2>2. \A c \in Calls : key[c] \in Keys /\ key'[c] = key[c]
    BY <1>t
  <2> QED
    BY <2>1, <2>2 DEF Kept
<1>p. \A c \in Calls :
        /\ at[c] = "fill" => answer[c] # NoFlight
        /\ at[c] \in {"put", "putL2", "reput", "notify"} => Kept(key[c])
        /\ pc[c] \in {"notify", "calling", "done"} => at[c] = "notify"
  BY DEF IInv, PutFirst
<1> DEFINE Fine(c) ==
        /\ at'[c] = "fill" => answer'[c] # NoFlight
        /\ at'[c] \in {"put", "putL2", "reput", "notify"} => Kept(key[c])'
        /\ pc'[c] \in {"notify", "calling", "done"} => at'[c] = "notify"
<1>f. ASSUME NEW c \in Calls, \A d \in Calls : d # c => at'[d] = at[d] /\ answer'[d] = answer[d]
                                                       /\ pc'[d] = pc[d],
             Fine(c)
      PROVE  PutFirst'
  <2>1. ASSUME NEW d \in Calls, d # c
        PROVE  Fine(d)
    BY <1>f, <1>k, <1>p, <2>1
  <2>2. \A d \in Calls : Fine(d)
    BY <1>f, <2>1
  <2> QED
    BY <2>2 DEF PutFirst
<1>1. ASSUME NEW c \in Calls, Get(c)
      PROVE  PutFirst'
  <2>1. /\ \A d \in Calls : d # c => at'[d] = at[d] /\ answer'[d] = answer[d]
        /\ pc' = pc
    BY <1>t, <1>1 DEF Get, GetL1Hit, GetL1Miss, GetChoose, GetL2None, GetL2Send, GetL2Reply,
                GetL2Lost, GetL2Disconnect, GetL2Again, FillL1, Go, Reply, L1!Get, flight, TypeOK
  <2>2. /\ at[c] # "notify"
        /\ at'[c] \in {"hit", "missed", "enter", "flight", "reading", "relock", "reget", "fill"}
    BY <1>t, <1>1 DEF Get, GetL1Hit, GetL1Miss, GetChoose, GetL2None, GetL2Send, GetL2Reply,
                GetL2Lost, GetL2Disconnect, GetL2Again, FillL1, Go, Reply, TypeOK
  <2>3. ASSUME at'[c] = "fill"
        PROVE  answer'[c] # NoFlight
    BY <1>t, <1>1, <2>3 DEF Get, GetL1Hit, GetL1Miss, GetChoose, GetL2None, GetL2Send,
                GetL2Reply, GetL2Lost, GetL2Disconnect, GetL2Again, FillL1, Go, Reply, TypeOK
  <2> QED
    BY <1>f, <1>p, <2>1, <2>2, <2>3
<1>2. ASSUME NEW c \in Calls, PutBegin(c)
      PROVE  PutFirst'
  <2>1. /\ \A d \in Calls : d # c => at'[d] = at[d]
        /\ pc' = pc /\ answer' = answer /\ pc[c] = "leading" /\ at'[c] = "put"
        /\ PutL1(key[c], c) /\ UNCHANGED l1_enabled_
    BY <1>t, <1>2 DEF PutBegin, Go, flight, TypeOK
  <2>2. key[c] \in Keys /\ key'[c] = key[c] /\ c \in Answers /\ c # NoFlight
    BY <1>t
  <2>3. PICK x \in Keys : x = key[c]
    BY <2>2
  <2>4. Kept(x)'
    BY <1>t, <2>1, <2>2, <2>3, L1Put
  <2>5. Kept(key[c])'
    BY <2>2, <2>3, <2>4 DEF Kept
  <2> QED
    BY <1>f, <2>1, <2>5
<1>3. ASSUME NEW c \in Calls, PutChoose(c) \/ PutL2(c) \/ PutL2Lost(c) \/ PutL2Again(c)
      PROVE  PutFirst'
  <2>1. /\ \A d \in Calls : d # c => at'[d] = at[d]
        /\ pc' = pc /\ answer' = answer
        /\ at[c] \in {"put", "putL2", "reput"} /\ at'[c] \in {"putL2", "reput", "notify"}
    BY <1>t, <1>3 DEF PutChoose, PutL2, PutL2Lost, PutL2Again, Go, flight, TypeOK
  <2> QED
    BY <1>f, <1>k, <1>p, <2>1
<1>4. ASSUME NEW c \in Calls, InFlight(c)
      PROVE  PutFirst'
  <2>1. at' = at /\ answer' = answer
    BY <1>4 DEF InFlight
  <2>2. CASE at[c] = "flight" /\ (SF!Lead(c) \/ SF!Find(c) \/ SF!Join(c) \/ SF!Abandon(c))
    <3>1. /\ \A d \in Calls : d # c => pc'[d] = pc[d]
          /\ pc'[c] \in {"leading", "join", "waiter", "abandoned"}
      BY <1>t, <2>2 DEF SF!Lead, SF!Find, SF!Join, SF!Abandon
    <3> QED
      BY <1>f, <2>1, <2>2, <3>1
  <2>3. CASE /\ at[c] = "notify"
             /\ \/ SF!NotifyFind(c) \/ SF!NotifyNone(c) \/ SF!NotifyMark(c)
                \/ SF!NotifyCallback(c) \/ SF!NotifyErase(c)
    <3>1. \A d \in Calls : d # c => pc'[d] = pc[d]
      BY <1>t, <2>3 DEF SF!NotifyFind, SF!EnterNotify, SF!NotifyNone, SF!NotifyMark,
                        SF!NotifyCallback, SF!NotifyErase
    <3> QED
      BY <1>f, <1>k, <1>p, <2>1, <2>3, <3>1
  <2> QED
    BY <1>4, <2>2, <2>3 DEF InFlight
<1>5. CASE SetRedisConfig
  <2>1. /\ \A d \in Calls : at[d] = "config" /\ at'[d] = "get"
        /\ pc' = pc
    BY <1>5 DEF SetRedisConfig, flight
  <2> QED
    BY <1>p, <2>1 DEF PutFirst
<1>6. CASE UNCHANGED vars
  <2>1. \A d \in Calls : Fine(d)
    BY <1>6, <1>k, <1>p DEF vars, flight
  <2> QED
    BY <2>1 DEF PutFirst
<1> QED
  BY <1>1, <1>2, <1>3, <1>4, <1>5, <1>6 DEF Next, Put

-----------------------------------------------------------------------------
(* Statistics *)

\* How the number of calls at the places P changes when call c moves to y.
LEMMA MoveCounts ==
    ASSUME at \in [Calls -> Places], NEW P, IsFiniteSet(AtSome(P)), NEW c \in Calls,
           NEW y \in Places, at' = [at EXCEPT ![c] = y]
    PROVE  /\ IsFiniteSet(AtSome(P)')
           /\ Cardinality(AtSome(P)) \in Nat
           /\ (at[c] \in P <=> y \in P) => Cardinality(AtSome(P)') = Cardinality(AtSome(P))
           /\ at[c] \notin P /\ y \in P => Cardinality(AtSome(P)') = Cardinality(AtSome(P)) + 1
           /\ at[c] \in P /\ y \notin P => Cardinality(AtSome(P)') = Cardinality(AtSome(P)) - 1
<1> DEFINE S == AtSome(P)
           T == AtSome(P)'
<1>1. at'[c] = y /\ \A d \in Calls : d # c => at'[d] = at[d]
  OBVIOUS
<1>2. /\ (at[c] \in P <=> y \in P) => T = S
      /\ at[c] \notin P /\ y \in P => c \notin S /\ T = S \cup {c}
      /\ at[c] \in P /\ y \notin P => c \in S /\ T = S \ {c}
  BY <1>1 DEF AtSome
<1>3. IsFiniteSet(S) /\ Cardinality(S) \in Nat
  BY FS_CardinalityType
<1> HIDE DEF S, T
<1>4. /\ IsFiniteSet(S \cup {c}) /\ (c \notin S => Cardinality(S \cup {c}) = Cardinality(S) + 1)
  BY <1>3, FS_AddElement
<1>5. /\ IsFiniteSet(S \ {c}) /\ (c \in S => Cardinality(S \ {c}) = Cardinality(S) - 1)
  BY <1>3, FS_RemoveElement
<1>6. /\ IsFiniteSet(T)
      /\ (at[c] \in P <=> y \in P) => Cardinality(T) = Cardinality(S)
      /\ at[c] \notin P /\ y \in P => Cardinality(T) = Cardinality(S) + 1
      /\ at[c] \in P /\ y \notin P => Cardinality(T) = Cardinality(S) - 1
  BY <1>2, <1>3, <1>4, <1>5
<1> QED
  BY <1>3, <1>6 DEF S, T

LEMMA HitAndOwingFinite ==
    ASSUME IsFiniteSet(Looked)
    PROVE  IsFiniteSet(Hit) /\ IsFiniteSet(Owing)
<1>1. {"hit"} \subseteq Started /\ Owes \subseteq Started
  BY DEF Started, Owes, Places
<1>2. Hit \in SUBSET Looked /\ Owing \in SUBSET Looked
  BY <1>1 DEF Hit, Owing, Looked, AtSome
<1> QED
  BY <1>2, FS_Subset

\* What the four counters are after Count.
LEMMA CountFacts ==
    ASSUME stats_ \in [Counters -> Nat], NEW names, Count(names)
    PROVE  \A n \in Counters :
               stats_'[n] = IF n \in names THEN stats_[n] + 1 ELSE stats_[n]
  BY DEF Count

LEMMA CountedStep == IInv /\ [Next]_vars => Counted'
<1> SUFFICES ASSUME IInv, [Next]_vars
             PROVE  Counted'
  OBVIOUS
<1>t. /\ TypeOK /\ at \in [Calls -> Places] /\ stats_ \in [Counters -> Nat]
      /\ IsFiniteSet(Looked) /\ Counted
  BY DEF IInv, TypeOK, Counted
<1>h. IsFiniteSet(Hit) /\ IsFiniteSet(Owing)
  BY <1>t, HitAndOwingFinite
<1>n. /\ stats_["l1_hits"] \in Nat /\ stats_["l1_misses"] \in Nat /\ stats_["l2_hits"] \in Nat
      /\ {"l1_hits", "l1_misses", "l2_hits"} \subseteq Counters
  BY <1>t DEF Counters
<1>1. CASE UNCHANGED <<at, stats_>>
  BY <1>t, <1>1 DEF Counted, Looked, Hit, Owing, AtSome
\* any move of a call that main has let start
<1>m. ASSUME NEW c \in Calls, NEW y \in Places, at' = [at EXCEPT ![c] = y],
             at[c] \notin {"config", "hit"}, y \notin {"config", "get"}
      PROVE  /\ IsFiniteSet(Looked')
             /\ Cardinality(Looked) \in Nat /\ Cardinality(Hit) \in Nat
             /\ Cardinality(Owing) \in Nat
             /\ at[c] # "get" => Cardinality(Looked') = Cardinality(Looked)
             /\ at[c] = "get" => Cardinality(Looked') = Cardinality(Looked) + 1
             /\ y # "hit" => Cardinality(Hit') = Cardinality(Hit)
             /\ y = "hit" => Cardinality(Hit') = Cardinality(Hit) + 1
             /\ (at[c] \in Owes <=> y \in Owes) => Cardinality(Owing') = Cardinality(Owing)
             /\ at[c] \notin Owes /\ y \in Owes => Cardinality(Owing') = Cardinality(Owing) + 1
             /\ at[c] \in Owes /\ y \notin Owes => Cardinality(Owing') = Cardinality(Owing) - 1
  <2>1. at[c] \in Places
    BY <1>t
  <2>2. y \in Started /\ (at[c] \in Started <=> at[c] # "get")
    BY <1>m, <2>1 DEF Started
  <2>3. /\ IsFiniteSet(Looked') /\ Cardinality(Looked) \in Nat
        /\ at[c] # "get" => Cardinality(Looked') = Cardinality(Looked)
        /\ at[c] = "get" => Cardinality(Looked') = Cardinality(Looked) + 1
    BY <1>t, <1>m, <2>2, MoveCounts DEF Looked
  <2>4. /\ Cardinality(Hit) \in Nat
        /\ y # "hit" => Cardinality(Hit') = Cardinality(Hit)
        /\ y = "hit" => Cardinality(Hit') = Cardinality(Hit) + 1
    <3>1. (y \in {"hit"} <=> y = "hit") /\ at[c] \notin {"hit"}
      BY <1>m
    <3> QED
      BY <1>t, <1>h, <1>m, <3>1, MoveCounts DEF Hit
  <2>5. /\ Cardinality(Owing) \in Nat
        /\ (at[c] \in Owes <=> y \in Owes) => Cardinality(Owing') = Cardinality(Owing)
        /\ at[c] \notin Owes /\ y \in Owes => Cardinality(Owing') = Cardinality(Owing) + 1
        /\ at[c] \in Owes /\ y \notin Owes => Cardinality(Owing') = Cardinality(Owing) - 1
    BY <1>t, <1>h, <1>m, MoveCounts DEF Owing
  <2> QED
    BY <2>3, <2>4, <2>5
<1>2. ASSUME NEW c \in Calls, NEW y \in Places, at' = [at EXCEPT ![c] = y], UNCHANGED stats_,
             at[c] \notin {"config", "get", "hit"}, y \notin {"config", "get", "hit"},
             y \in Owes => at[c] \in Owes
      PROVE  Counted'
  <2>1. /\ IsFiniteSet(Looked')
        /\ Cardinality(Looked) \in Nat /\ Cardinality(Owing) \in Nat
        /\ Cardinality(Looked') = Cardinality(Looked)
        /\ Cardinality(Hit') = Cardinality(Hit)
        /\ \/ Cardinality(Owing') = Cardinality(Owing)
           \/ Cardinality(Owing') = Cardinality(Owing) - 1
    BY <1>m, <1>2
  <2>2. stats_' = stats_
    BY <1>2
  <2> QED
    BY <1>t, <1>n, <2>1, <2>2 DEF Counted
\* an answer that is not there
<1>3. ASSUME NEW c \in Calls, at' = [at EXCEPT ![c] = "flight"], CountMiss, at[c] \in Owes
      PROVE  Counted'
  <2>1. /\ IsFiniteSet(Looked')
        /\ Cardinality(Looked) \in Nat /\ Cardinality(Hit) \in Nat
        /\ Cardinality(Owing) \in Nat
        /\ Cardinality(Looked') = Cardinality(Looked)
        /\ Cardinality(Hit') = Cardinality(Hit)
        /\ Cardinality(Owing') = Cardinality(Owing) - 1
    BY <1>m, <1>3 DEF Owes, Places
  <2>2. /\ stats_'["l1_hits"] = stats_["l1_hits"] /\ stats_'["l2_hits"] = stats_["l2_hits"]
        /\ stats_'["l1_misses"] = stats_["l1_misses"] + 1
    BY <1>t, <1>n, <1>3, CountFacts DEF CountMiss
  <2> QED
    BY <1>t, <1>n, <2>1, <2>2 DEF Counted
<1>4. ASSUME NEW c \in Calls, NEW from \in Owes, NEW v, Reply(c, from, v)
      PROVE  Counted'
  <2>1. CASE v = NoFlight
    BY <1>3, <1>4, <2>1 DEF Reply, Go
  <2>2. CASE v # NoFlight
    BY <1>2, <1>4, <2>2 DEF Reply, Go, Owes, Places
  <2> QED
    BY <2>1, <2>2
<1>5. ASSUME NEW c \in Calls, GetL1Hit(c)
      PROVE  Counted'
  <2>0. at[c] = "get" /\ at' = [at EXCEPT ![c] = "hit"] /\ CountL1Hit
    BY <1>5 DEF GetL1Hit, Go
  <2>1. /\ IsFiniteSet(Looked')
        /\ Cardinality(Looked) \in Nat /\ Cardinality(Hit) \in Nat
        /\ Cardinality(Owing) \in Nat
        /\ Cardinality(Looked') = Cardinality(Looked) + 1
        /\ Cardinality(Hit') = Cardinality(Hit) + 1
        /\ Cardinality(Owing') = Cardinality(Owing)
    BY <1>m, <2>0 DEF Owes, Places
  <2>2. /\ stats_'["l1_hits"] = stats_["l1_hits"] + 1 /\ stats_'["l2_hits"] = stats_["l2_hits"]
        /\ stats_'["l1_misses"] = stats_["l1_misses"]
    BY <1>t, <1>n, <2>0, CountFacts DEF CountL1Hit
  <2> QED
    BY <1>t, <1>n, <2>1, <2>2 DEF Counted
<1>6. ASSUME NEW c \in Calls, GetL1Miss(c)
      PROVE  Counted'
  <2>0. at[c] = "get" /\ at' = [at EXCEPT ![c] = "missed"] /\ CountMiss
    BY <1>6 DEF GetL1Miss, Go
  <2>1. /\ IsFiniteSet(Looked')
        /\ Cardinality(Looked) \in Nat /\ Cardinality(Hit) \in Nat
        /\ Cardinality(Owing) \in Nat
        /\ Cardinality(Looked') = Cardinality(Looked) + 1
        /\ Cardinality(Hit') = Cardinality(Hit)
        /\ Cardinality(Owing') = Cardinality(Owing) + 1
    BY <1>m, <2>0 DEF Owes, Places
  <2>2. /\ stats_'["l1_hits"] = stats_["l1_hits"] /\ stats_'["l2_hits"] = stats_["l2_hits"]
        /\ stats_'["l1_misses"] = stats_["l1_misses"] + 1
    BY <1>t, <1>n, <2>0, CountFacts DEF CountMiss
  <2> QED
    BY <1>t, <1>n, <2>1, <2>2 DEF Counted
<1>7. ASSUME NEW c \in Calls, FillL1(c)
      PROVE  Counted'
  <2>0. at[c] = "fill" /\ at' = [at EXCEPT ![c] = "hit"] /\ CountL2Hit
    BY <1>7 DEF FillL1, Go
  <2>1. /\ IsFiniteSet(Looked')
        /\ Cardinality(Looked) \in Nat /\ Cardinality(Hit) \in Nat
        /\ Cardinality(Owing) \in Nat
        /\ Cardinality(Looked') = Cardinality(Looked)
        /\ Cardinality(Hit') = Cardinality(Hit) + 1
        /\ Cardinality(Owing') = Cardinality(Owing) - 1
    BY <1>m, <2>0 DEF Owes, Places
  <2>2. /\ stats_'["l1_hits"] = stats_["l1_hits"] /\ stats_'["l2_hits"] = stats_["l2_hits"] + 1
        /\ stats_'["l1_misses"] = stats_["l1_misses"] + 1
    BY <1>t, <1>n, <2>0, CountFacts DEF CountL2Hit
  <2> QED
    BY <1>t, <1>n, <2>1, <2>2 DEF Counted
<1>8. ASSUME NEW c \in Calls, GetL2None(c) \/ GetL2Reply(c) \/ GetL2Again(c)
      PROVE  Counted'
  <2>1. \E from \in Owes : \E v : Reply(c, from, v)
    <3>1. (\E v : Reply(c, "enter", v)) \/ (\E v : Reply(c, "reading", v))
              \/ (\E v : Reply(c, "reget", v))
      BY <1>8 DEF GetL2None, GetL2Reply, GetL2Again
    <3> QED
      BY <3>1 DEF Owes
  <2> QED
    BY <1>4, <2>1
<1>9. ASSUME NEW c \in Calls,
             \/ GetChoose(c) \/ GetL2Send(c) \/ GetL2Lost(c) \/ GetL2Disconnect(c)
             \/ PutBegin(c) \/ PutChoose(c) \/ PutL2(c) \/ PutL2Lost(c) \/ PutL2Again(c)
      PROVE  Counted'
  <2>1. UNCHANGED stats_
    BY <1>9 DEF GetChoose, GetL2Send, GetL2Lost, GetL2Disconnect, PutBegin, PutChoose,
                PutL2, PutL2Lost, PutL2Again
  <2>2. \/ /\ at[c] \in {"missed", "enter", "reading", "relock"}
           /\ \E y \in {"enter", "flight", "reading", "relock", "reget"} :
                  at' = [at EXCEPT ![c] = y]
        \/ /\ at[c] \in {"flight", "put", "putL2", "reput"}
           /\ \E y \in {"put", "putL2", "reput", "notify"} : at' = [at EXCEPT ![c] = y]
    BY <1>9 DEF GetChoose, GetL2Send, GetL2Lost, GetL2Disconnect, PutBegin, PutChoose,
                PutL2, PutL2Lost, PutL2Again, Go
  <2> QED
    BY <1>2, <2>1, <2>2 DEF Owes, Places
<1>10. ASSUME NEW c \in Calls, InFlight(c)
       PROVE  Counted'
  BY <1>1, <1>10 DEF InFlight
<1>11. CASE SetRedisConfig
  <2>1. /\ \A d \in Calls : at[d] = "config" /\ at'[d] = "get"
        /\ UNCHANGED stats_
    BY <1>11 DEF SetRedisConfig
  <2>2. Looked' = Looked /\ Hit' = Hit /\ Owing' = Owing
    BY <2>1 DEF Looked, Hit, Owing, AtSome, Started, Owes
  <2> QED
    BY <1>t, <2>1, <2>2 DEF Counted
<1>12. CASE UNCHANGED vars
  BY <1>1, <1>12 DEF vars
<1> QED
  BY <1>5, <1>6, <1>7, <1>8, <1>9, <1>10, <1>11, <1>12 DEF Next, Get, Put

-----------------------------------------------------------------------------
(* Safety *)

LEMMA InitInvariant == Init => IInv
<1> SUFFICES ASSUME Init
             PROVE  IInv
  OBVIOUS
<1>1. SFP!IInv /\ SF!TypeOK /\ key \in [Calls -> Keys]
  BY FlightInvariant, FlightTypes
<1>2. PICK old \in SUBSET Keys : redis = [k \in Keys |-> IF k \in old THEN k ELSE NoFlight]
  BY DEF Init
<1>3. TypeOK
  <2>1. redis \in [Keys -> Answers]
    BY <1>2 DEF Answers
  <2>2. store \in [Keys -> Answers] /\ answer \in [Calls -> Answers] /\ recency \in Seq(Keys)
    BY DEF Init, Answers
  <2>3. at \in [Calls -> Places] /\ stats_ \in [Counters -> Nat]
    BY DEF Init, Places
  <2>4. faults \in 0 .. MaxFaults
    BY QueryCacheAssumption DEF Init
  <2> QED
    BY <1>1, <2>1, <2>2, <2>3, <2>4 DEF Init, TypeOK
<1>4. Control
  BY FlightConstants DEF Init, Control, Locks, Configured, Wires, ReaderKeepsContext
<1>5. OwnAnswers
  BY <1>1, <1>2 DEF Init, OwnAnswers
<1>6. PutFirst
  BY DEF Init, PutFirst, SF!Init
<1>7. Counted
  <2>1. Looked = {} /\ Hit = {} /\ Owing = {}
    BY DEF Init, Looked, Hit, Owing, AtSome, Started, Owes
  <2>2. /\ stats_["l1_hits"] = 0 /\ stats_["l1_misses"] = 0 /\ stats_["l2_hits"] = 0
    BY DEF Init, Counters
  <2>3. IsFiniteSet({}) /\ Cardinality({}) = 0
    BY FS_EmptySet
  <2> QED
    BY <2>1, <2>2, <2>3 DEF Counted
<1> QED
  BY <1>1, <1>3, <1>4, <1>5, <1>6, <1>7 DEF IInv

LEMMA InvariantStep == IInv /\ [Next]_vars => IInv'
<1> SUFFICES ASSUME IInv, [Next]_vars
             PROVE  IInv'
  OBVIOUS
<1>1. SFP!IInv'
  BY FlightInvariant DEF IInv
<1>2. TypeOK'
  BY <1>1, TypeStep
<1>3. Control'
  BY ControlStep DEF IInv
<1>4. OwnAnswers' /\ PutFirst' /\ Counted'
  BY OwnStep, PutFirstStep, CountedStep
<1> QED
  BY <1>1, <1>2, <1>3, <1>4 DEF IInv

LEMMA Inductive == Spec => []IInv
  BY InitInvariant, InvariantStep, PTL DEF Spec

\* Every variable keeps its type, and redis_enabled_ says whether there is a
\* context whenever it can be read.
THEOREM CacheTypeCorrect == Spec => []TypeOK
<1>1. IInv => TypeOK
  BY DEF IInv
<1> QED
  BY <1>1, Inductive, PTL

\* Neither level of the cache, a repeated command nor an eviction gives a call
\* the answer to another query, as long as getL2 is not run by two threads at
\* a time.
THEOREM AnswersMatchQueries == Spec => []OwnAnswers
<1>1. IInv => OwnAnswers
  BY DEF IInv
<1> QED
  BY <1>1, Inductive, PTL

\* No reconnection frees the Redis context under a thread that reads from it.
THEOREM ContextOutlivesReaders == Spec => []ReaderKeepsContext
<1>1. IInv => ReaderKeepsContext
  BY DEF IInv, Control
<1> QED
  BY <1>1, Inductive, PTL

\* notifyFlightResult caches an answer before it publishes it.
THEOREM CacheThenNotify == Spec => []CachedBeforeNotified
<1>1. IInv => CachedBeforeNotified
  BY DEF IInv, PutFirst, Kept, CachedBeforeNotified
<1> QED
  BY <1>1, Inductive, PTL

\* The hit counters are exact, and every lookup is counted once or twice.
THEOREM StatisticsCount == Spec => []LookupsCounted
<1>1. IInv => LookupsCounted
  <2> SUFFICES ASSUME IInv
               PROVE  LookupsCounted
    OBVIOUS
  <2>1. Counted /\ stats_["l1_hits"] \in Nat /\ stats_["l1_misses"] \in Nat
    BY DEF IInv, TypeOK, Counters
  <2>2. {c \in Calls : at[c] \notin {"config", "get"}} = Looked
    BY DEF Looked, AtSome, Started, IInv, TypeOK
  <2>3. IsFiniteSet(Owing)
    BY <2>1, HitAndOwingFinite DEF Counted
  <2>4. Cardinality(Looked) \in Nat /\ Cardinality(Owing) \in Nat
    BY <2>1, <2>3, FS_CardinalityType DEF Counted
  <2>5. /\ stats_["l1_hits"] + stats_["l2_hits"] = Cardinality(Hit)
        /\ Cardinality(Looked) <= stats_["l1_hits"] + stats_["l1_misses"]
        /\ stats_["l1_hits"] + stats_["l1_misses"]
               <= 2 * Cardinality(Looked) - stats_["l1_hits"]
    BY <2>1, <2>4 DEF Counted
  <2>6. {c \in Calls : at[c] = "hit"} = Hit
    BY DEF Hit, AtSome
  <2> QED
    BY <2>2, <2>5, <2>6 DEF LookupsCounted
<1> QED
  BY <1>1, Inductive, PTL

LEMMA L2DownStep == IInv /\ [Next]_vars => (L2Down => L2Down')
<1> SUFFICES ASSUME IInv, [Next]_vars, L2Down
             PROVE  L2Down'
  OBVIOUS
<1>1. /\ TypeOK /\ redis_ctx_ = "none" /\ ~redis_enabled_
      /\ \A c \in Calls : /\ at[c] \notin {"config", "relock", "reget", "reput"}
                          /\ at[c] # "reading"
  BY DEF IInv, TypeOK, L2Down, Control, ReaderKeepsContext
<1>2. ASSUME NEW c \in Calls, Get(c) \/ Put(c)
      PROVE  L2Down'
  <2>1. \/ GetL1Hit(c) \/ GetL1Miss(c) \/ GetChoose(c) \/ GetL2None(c) \/ FillL1(c)
        \/ PutBegin(c) \/ PutChoose(c) \/ PutL2(c)
    BY <1>1, <1>2 DEF Get, Put, GetL2Send, GetL2Reply, GetL2Lost, GetL2Disconnect, GetL2Again,
                      PutL2Lost, PutL2Again, CommandLost, Reply, Go
  <2>2. UNCHANGED redis_enabled_
    BY <2>1 DEF GetL1Hit, GetL1Miss, GetChoose, GetL2None, FillL1, PutBegin, PutChoose, PutL2,
                context
  <2>3. \E y \in {"hit", "missed", "enter", "flight", "put", "putL2", "notify"} :
            at' = [at EXCEPT ![c] = y]
    BY <2>1 DEF GetL1Hit, GetL1Miss, GetChoose, GetL2None, FillL1, PutBegin, PutChoose, PutL2,
                Go, Reply
  <2>4. PICK y \in {"hit", "missed", "enter", "flight", "put", "putL2", "notify"} :
            at' = [at EXCEPT ![c] = y]
    BY <2>3
  <2> QED
    BY <1>1, <2>2, <2>4 DEF L2Down, TypeOK
<1>3. ASSUME NEW c \in Calls, InFlight(c)
      PROVE  L2Down'
  BY <1>3 DEF InFlight, L2Down, context
<1>4. ~SetRedisConfig
  BY <1>1, QueryCacheAssumption DEF SetRedisConfig
<1>5. CASE UNCHANGED vars
  BY <1>5 DEF vars, L2Down, context
<1> QED
  BY <1>2, <1>3, <1>4, <1>5 DEF Next

\* Once L2 is off and no thread is about to reconnect, it stays off.
THEOREM L2StaysDown == Spec => L2NeverComesBack
<1>1. IInv /\ [Next]_vars => [L2Down => L2Down']_vars
  BY L2DownStep
<1> QED
  BY <1>1, Inductive, PTL DEF Spec, L2NeverComesBack

-----------------------------------------------------------------------------
(* redis_mutex_ and the replies: no deadlock *)

Readers == AtSome({"reading"})

\* A call has no command under way before it enters getL2, and a context that
\* works has as many under way as there are threads reading from it.
Balance ==
    /\ \A c \in wire : at[c] \notin {"config", "get", "missed", "enter"}
    /\ IsFiniteSet(wire)
    /\ redis_ctx_ = "up" => Cardinality(wire) = Cardinality(Readers)

LEMMA ReadersFinite ==
    ASSUME Counted
    PROVE  IsFiniteSet(Readers) /\ Cardinality(Readers) \in Nat
<1>1. Readers \in SUBSET Looked
  BY DEF Readers, Looked, AtSome, Started, Places
<1>2. IsFiniteSet(Readers)
  BY <1>1, FS_Subset DEF Counted
<1> QED
  BY <1>2, FS_CardinalityType

\* A step of call c that neither reads nor touches the context.
LEMMA BalanceFrame ==
    ASSUME TypeOK, Balance, UNCHANGED <<wire, redis_ctx_>>, NEW c \in Calls,
           NEW y \in Places \ {"reading"}, at' = [at EXCEPT ![c] = y], at[c] # "reading",
           y \in {"config", "get", "missed", "enter"} =>
               at[c] \in {"config", "get", "missed", "enter"}
    PROVE  Balance'
<1>1. at'[c] = y /\ \A d \in Calls : d # c => at'[d] = at[d]
  BY DEF TypeOK
<1>2. Readers' = Readers
  BY <1>1 DEF Readers, AtSome
<1>3. wire \subseteq Calls
  BY DEF TypeOK
<1>4. \A d \in wire : at'[d] \notin {"config", "get", "missed", "enter"}
  BY <1>1, <1>3 DEF Balance
<1> QED
  BY <1>2, <1>4 DEF Balance

LEMMA BalanceStep == IInv /\ Balance /\ [Next]_vars => Balance'
<1> SUFFICES ASSUME IInv, Balance, [Next]_vars
             PROVE  Balance'
  OBVIOUS
<1>t. /\ TypeOK /\ Control /\ Counted /\ at \in [Calls -> Places] /\ wire \subseteq Calls
      /\ IsFiniteSet(wire) /\ NoFlight \notin Calls
  BY FlightConstants DEF IInv, TypeOK, Balance
<1>r. IsFiniteSet(Readers) /\ Cardinality(Readers) \in Nat /\ Cardinality(wire) \in Nat
  BY <1>t, ReadersFinite, FS_CardinalityType
<1>e. IsFiniteSet({}) /\ Cardinality({}) = 0
  BY FS_EmptySet
<1>1. ASSUME NEW c \in Calls,
             \/ GetL1Hit(c) \/ GetL1Miss(c) \/ GetChoose(c) \/ GetL2None(c) \/ FillL1(c)
             \/ PutBegin(c) \/ PutChoose(c) \/ PutL2(c)
      PROVE  Balance'
  <2>1. UNCHANGED <<wire, redis_ctx_>>
    BY <1>1 DEF GetL1Hit, GetL1Miss, GetChoose, GetL2None, FillL1, PutBegin, PutChoose, PutL2,
                context
  <2>2. \/ /\ at[c] \in {"get", "missed", "enter"}
           /\ \E y \in {"hit", "missed", "enter", "flight"} : at' = [at EXCEPT ![c] = y]
        \/ /\ at[c] \in {"fill", "flight", "put", "putL2"}
           /\ \E y \in {"hit", "put", "putL2", "notify"} : at' = [at EXCEPT ![c] = y]
    BY <1>1 DEF GetL1Hit, GetL1Miss, GetChoose, GetL2None, FillL1, PutBegin, PutChoose, PutL2,
                Go, Reply
  <2> QED
    BY <1>t, <2>1, <2>2, BalanceFrame DEF Places
<1>2. ASSUME NEW c \in Calls, GetL2Send(c)
      PROVE  Balance'
  <2>1. /\ at[c] = "enter" /\ at' = [at EXCEPT ![c] = "reading"]
        /\ wire' = wire \cup {c} /\ UNCHANGED redis_ctx_
    BY <1>2 DEF GetL2Send, Go
  <2>2. c \notin wire
    BY <2>1 DEF Balance
  <2>3. IsFiniteSet(wire \cup {c}) /\ Cardinality(wire \cup {c}) = Cardinality(wire) + 1
    BY <1>t, <2>2, FS_AddElement
  <2>4. Cardinality(Readers') = Cardinality(Readers) + 1
    <3>1. "reading" \in Places /\ at[c] \notin {"reading"} /\ "reading" \in {"reading"}
      BY <2>1 DEF Places
    <3> QED
      BY <1>t, <1>r, <2>1, <3>1, MoveCounts DEF Readers
  <2>5. \A d \in wire' : at'[d] \notin {"config", "get", "missed", "enter"}
    BY <1>t, <2>1 DEF Balance
  <2> QED
    BY <1>r, <2>1, <2>3, <2>4, <2>5 DEF Balance
<1>3. ASSUME NEW c \in Calls, GetL2Reply(c)
      PROVE  Balance'
  <2>1. /\ at[c] = "reading"
        /\ \E y \in {"flight", "fill"} : at' = [at EXCEPT ![c] = y]
        /\ UNCHANGED redis_ctx_
    BY <1>3 DEF GetL2Reply, Reply, Go
  <2>2. PICK d \in wire : wire' = wire \ {d}
    BY <1>3 DEF GetL2Reply
  <2>3. IsFiniteSet(wire \ {d}) /\ Cardinality(wire \ {d}) = Cardinality(wire) - 1
    BY <1>t, FS_RemoveElement
  <2>4. PICK y \in {"flight", "fill"} : at' = [at EXCEPT ![c] = y]
    BY <2>1
  <2>5. Cardinality(Readers') = Cardinality(Readers) - 1
    <3>1. y \in Places /\ at[c] \in {"reading"} /\ y \notin {"reading"}
      BY <2>1, <2>4 DEF Places
    <3> QED
      BY <1>t, <1>r, <2>4, <3>1, MoveCounts DEF Readers
  <2>6. \A e \in wire' : at'[e] \notin {"config", "get", "missed", "enter"}
    BY <1>t, <2>2, <2>4 DEF Balance
  <2> QED
    BY <1>r, <2>1, <2>2, <2>3, <2>5, <2>6 DEF Balance
<1>4. ASSUME NEW c \in Calls, GetL2Lost(c) \/ GetL2Disconnect(c) \/ PutL2Lost(c)
      PROVE  Balance'
  <2>1. /\ redis_ctx_' # "up" /\ wire' \in {wire, {}}
        /\ \E y \in {"relock", "reget", "reput"} : at' = [at EXCEPT ![c] = y]
    BY <1>4 DEF GetL2Lost, GetL2Disconnect, PutL2Lost, Go, Disconnect
  <2>2. \A d \in wire' : at'[d] \notin {"config", "get", "missed", "enter"}
    BY <1>t, <2>1 DEF Balance
  <2>3. IsFiniteSet(wire')
    BY <1>t, <1>e, <2>1
  <2> QED
    BY <2>1, <2>2, <2>3 DEF Balance
\* nobody reads, and nothing is under way
<1>5. ASSUME UNCHANGED wire, wire = {}, \A d \in Calls : at'[d] # "reading"
      PROVE  Balance'
  <2>1. Readers' = {} /\ wire' = {}
    BY <1>5 DEF Readers, AtSome
  <2> QED
    BY <1>e, <2>1 DEF Balance
<1>6. ASSUME NEW c \in Calls, GetL2Again(c) \/ PutL2Again(c)
      PROVE  Balance'
  <2>1. /\ at[c] \in {"reget", "reput"} /\ at'[c] \in {"flight", "fill", "notify"}
        /\ \A d \in Calls : d # c => at'[d] = at[d]
        /\ UNCHANGED wire
    BY <1>t, <1>6 DEF GetL2Again, PutL2Again, Go, Reply
  <2>2. holder = c /\ wire = {}
    BY <1>t, <2>1 DEF Control, Locks, Wires
  <2>3. \A d \in Calls : at'[d] # "reading"
    BY <1>t, <2>1, <2>2 DEF Control, ReaderKeepsContext
  <2> QED
    BY <1>5, <2>1, <2>2, <2>3
<1>7. CASE SetRedisConfig
  <2>1. UNCHANGED wire /\ \A d \in Calls : at[d] = "config" /\ at'[d] = "get"
    BY <1>7 DEF SetRedisConfig
  <2>2. wire = {}
    BY <1>t, <2>1, QueryCacheAssumption DEF Control, Configured
  <2> QED
    BY <1>5, <2>1, <2>2
<1>8. CASE UNCHANGED <<at, context>>
  BY <1>8 DEF Balance, Readers, AtSome, context
<1>9. ASSUME NEW c \in Calls, InFlight(c)
      PROVE  Balance'
  BY <1>8, <1>9 DEF InFlight
<1>10. CASE UNCHANGED vars
  BY <1>8, <1>10 DEF vars
<1> QED
  BY <1>1, <1>2, <1>3, <1>4, <1>6, <1>7, <1>9, <1>10 DEF Next, Get, Put

\* In a state of the invariant some thread inside getL2 or putL2 can go on: the
\* one that reconnects, or else any that reads, or else any at all.
LEMMA SomeoneCanGo ==
    ASSUME IInv, Balance
    PROVE  RedisLetsGo
<1> SUFFICES ASSUME NEW c \in Calls, InRedis(c)
             PROVE  \E d \in Calls : CanGo(d)
  BY DEF RedisLetsGo
<1>t. TypeOK /\ Control /\ Counted /\ holder \in Calls \cup {NoFlight}
  BY DEF IInv, TypeOK
<1>1. CASE holder # NoFlight
  BY <1>t, <1>1 DEF Control, Locks, CanGo
<1>2. CASE holder = NoFlight /\ \E d \in Calls : at[d] = "reading"
  <2>1. PICK d \in Calls : at[d] = "reading"
    BY <1>2
  <2>2. redis_ctx_ \in {"up", "broken"}
    BY <1>t, <2>1 DEF Control, ReaderKeepsContext, TypeOK
  <2>3. CASE redis_ctx_ = "up"
    <3>1. d \in Readers
      BY <2>1 DEF Readers, AtSome
    <3>2. Cardinality(Readers) # 0
      BY <1>t, <3>1, ReadersFinite, FS_EmptySet
    <3>3. wire # {}
      BY <2>3, <3>2, FS_EmptySet DEF Balance
    <3> QED
      BY <2>1, <2>3, <3>3 DEF CanGo
  <2> QED
    BY <2>1, <2>2, <2>3 DEF CanGo
<1>3. CASE holder = NoFlight /\ \A d \in Calls : at[d] # "reading"
  BY <1>3 DEF InRedis, CanGo, CanShare, CanLock
<1> QED
  BY <1>1, <1>2, <1>3

\* No deadlock on redis_mutex_, for any number of threads: as long as one is
\* inside getL2 or putL2, one of them has the lock or the reply it needs.
THEOREM NoDeadlockInRedis == Spec => []RedisLetsGo
<1>1. Init => Balance
  <2>1. IsFiniteSet({}) /\ Cardinality({}) = 0
    BY FS_EmptySet
  <2> QED
    BY <2>1 DEF Init, Balance
<1>2. IInv /\ Balance /\ [Next]_vars => Balance'
  BY BalanceStep
<1>3. IInv /\ Balance => RedisLetsGo
  BY SomeoneCanGo
<1> QED
  BY <1>1, <1>2, <1>3, Inductive, PTL DEF Spec

\* The places in the order in which a call goes through them.
Order == [config |-> 0, get |-> 1, missed |-> 2, enter |-> 3, reading |-> 4, relock |-> 5,
          reget |-> 6, fill |-> 7, hit |-> 8, flight |-> 9, put |-> 10, putL2 |-> 11,
          reput |-> 12, notify |-> 13]

\* No thread steps inside getL2 or putL2 without what CanGo asks for, and each
\* of its steps brings it further: it cannot stay there for ever by retrying.
THEOREM RedisStepsAreBounded ==
    Spec => [][\A c \in Calls : InRedis(c) /\ at'[c] # at[c] =>
                   CanGo(c) /\ Order[at'[c]] > Order[at[c]]]_vars
<1>1. ASSUME IInv, [Next]_vars, NEW c \in Calls, InRedis(c), at'[c] # at[c]
      PROVE  CanGo(c) /\ Order[at'[c]] > Order[at[c]]
  <2>t. TypeOK /\ at \in [Calls -> Places]
    BY <1>1 DEF IInv, TypeOK
  <2>0. at[c] # "config"
    BY <1>1 DEF InRedis
  <2>1. Get(c) \/ Put(c)
    <3>1. ASSUME NEW d \in Calls, Get(d) \/ Put(d)
          PROVE  \E y : at' = [at EXCEPT ![d] = y]
      BY <3>1 DEF Get, Put, GetL1Hit, GetL1Miss, GetChoose, GetL2None, GetL2Send, GetL2Reply,
                  GetL2Lost, GetL2Disconnect, GetL2Again, FillL1, PutBegin, PutChoose, PutL2,
                  PutL2Lost, PutL2Again, Go, Reply
    <3>2. ASSUME NEW d \in Calls, InFlight(d)
          PROVE  at' = at
      BY <3>2 DEF InFlight
    <3>3. ~SetRedisConfig
      BY <2>0 DEF SetRedisConfig
    <3>4. at' # at
      BY <1>1
    <3> QED
      BY <1>1, <2>t, <3>1, <3>2, <3>3, <3>4 DEF Next, vars
  <2>2. \/ GetL2None(c) \/ GetL2Send(c) \/ GetL2Reply(c) \/ GetL2Lost(c)
        \/ GetL2Disconnect(c) \/ GetL2Again(c) \/ PutL2(c) \/ PutL2Lost(c) \/ PutL2Again(c)
    BY <1>1, <2>1 DEF InRedis, Get, Put, GetL1Hit, GetL1Miss, GetChoose, FillL1, PutBegin,
                      PutChoose, Go
  <2>3. CanGo(c)
    BY <2>2 DEF CanGo, GetL2None, GetL2Send, GetL2Reply, GetL2Lost, GetL2Disconnect,
                GetL2Again, PutL2, PutL2Lost, PutL2Again, Go, Reply, CommandLost, Fault
  <2>4. \/ at[c] = "enter" /\ at'[c] \in {"reading", "flight", "fill"}
        \/ at[c] = "reading" /\ at'[c] \in {"relock", "flight", "fill"}
        \/ at[c] = "relock" /\ at'[c] = "reget"
        \/ at[c] = "reget" /\ at'[c] \in {"flight", "fill"}
        \/ at[c] = "putL2" /\ at'[c] \in {"reput", "notify"}
        \/ at[c] = "reput" /\ at'[c] = "notify"
    BY <2>t, <2>2 DEF GetL2None, GetL2Send, GetL2Reply, GetL2Lost, GetL2Disconnect,
                      GetL2Again, PutL2, PutL2Lost, PutL2Again, Go, Reply
  <2> QED
    BY <2>3, <2>4 DEF Order
<1>2. IInv /\ [Next]_vars =>
          [\A c \in Calls : InRedis(c) /\ at'[c] # at[c] =>
               CanGo(c) /\ Order[at'[c]] > Order[at[c]]]_vars
  BY <1>1
<1> QED
  BY <1>2, Inductive, PTL DEF Spec

-----------------------------------------------------------------------------
(* The flights of the whole cache *)

\* Clients that share a flight get the answer to their own query, and no
\* registration is lost, in the cache as a whole.
THEOREM SharedAnswersMatch == Spec => [](SF!SameQueryResults /\ SF!NoLostRegistration)
<1>1. SFP!IInv => SFP!SameQueryResults /\ SFP!NoLostRegistration
  BY DEF SFP!IInv
<1>2. SFP!SameQueryResults /\ SFP!NoLostRegistration =>
          SF!SameQueryResults /\ SF!NoLostRegistration
  BY DEF SFP!SameQueryResults, SF!SameQueryResults, SFP!NoLostRegistration,
         SF!NoLostRegistration, SFP!IsIn, SF!IsIn
<1>3. IInv => SF!SameQueryResults /\ SF!NoLostRegistration
  BY <1>1, <1>2 DEF IInv
<1> QED
  BY <1>3, Inductive, PTL

\* The cache never runs clear, so its steps are SingleFlight's other sections.
LEMMA SectionStep == [Next]_vars => [SFP!Sections]_SFP!vars
<1> SUFFICES ASSUME [Next]_vars
             PROVE  SFP!Sections \/ UNCHANGED flight
  BY DEF flight, SFP!vars
<1>1. ASSUME NEW c \in Calls, InFlight(c)
      PROVE  SFP!Sections
  <2>1. SF!Lead(c) \/ SF!Find(c) \/ SF!Abandon(c) =>
            SFP!Lead(c) \/ SFP!Find(c) \/ SFP!Abandon(c)
    BY DEF SF!Lead, SFP!Lead, SF!Find, SFP!Find, SF!Abandon, SFP!Abandon,
           SF!Joinable, SFP!Joinable
  <2>2. SF!Join(c) \/ SF!NotifyFind(c) \/ SF!NotifyNone(c) =>
            SFP!Join(c) \/ SFP!NotifyFind(c) \/ SFP!NotifyNone(c)
    BY DEF SF!Join, SFP!Join, SF!NotifyFind, SFP!NotifyFind, SF!EnterNotify,
           SFP!EnterNotify, SF!NotifyNone, SFP!NotifyNone
  <2>3. SF!NotifyMark(c) \/ SF!NotifyCallback(c) \/ SF!NotifyErase(c) =>
            SFP!NotifyMark(c) \/ SFP!NotifyCallback(c) \/ SFP!NotifyErase(c)
    BY DEF SF!NotifyMark, SFP!NotifyMark, SF!NotifyCallback, SFP!NotifyCallback,
           SF!NotifyErase, SFP!NotifyErase
  <2> QED
    BY <1>1, <2>1, <2>2, <2>3 DEF InFlight, SFP!Sections, SFP!Work
<1>2. ASSUME NEW c \in Calls, Get(c) \/ Put(c)
      PROVE  UNCHANGED flight
  BY <1>2 DEF Get, Put, GetL1Hit, GetL1Miss, GetChoose, GetL2None, GetL2Send, GetL2Reply,
              GetL2Lost, GetL2Disconnect, GetL2Again, FillL1, PutBegin, PutChoose,
              PutL2, PutL2Lost, PutL2Again
<1>3. CASE SetRedisConfig \/ UNCHANGED vars
  BY <1>3 DEF SetRedisConfig, vars, flight
<1> QED
  BY <1>1, <1>2, <1>3 DEF Next

\* Whichever calls race from a miss in the cache to doSingleFlight, a text has
\* one leader until a leader has published its answer.
THEOREM OneQueryUntilAnswered == Spec => []SharedUntilAnswered
<1>1. Init => SFP!OneInv
  BY InitRefines, SameInit, SFP!OneInit, FlightConstants
<1>2. IInv => SFP!IInv /\ SFP!TypeOK
  BY DEF IInv, SFP!IInv
<1>3. SFP!IInv /\ SFP!OneInv /\ [SFP!Sections]_SFP!vars => SFP!OneInv'
  BY SFP!OneStep, FlightConstants
<1>4. IInv /\ SFP!OneInv /\ [Next]_vars => SFP!OneInv'
  BY <1>2, <1>3, SectionStep
<1>5. IInv /\ SFP!OneInv => SharedUntilAnswered
  <2>1. SFP!TypeOK /\ SFP!OneInv => SFP!OneLeaderUntilPublished
    BY SFP!OneMeans, FlightConstants
  <2>2. SFP!OneLeaderUntilPublished => SF!OneLeaderUntilPublished
    BY DEF SFP!OneLeaderUntilPublished, SF!OneLeaderUntilPublished
  <2> QED
    BY <1>2, <2>1, <2>2 DEF SharedUntilAnswered
<1> QED
  BY <1>1, <1>4, <1>5, Inductive, PTL DEF Spec
=============================================================================
