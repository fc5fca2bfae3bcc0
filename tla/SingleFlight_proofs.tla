------------------------ MODULE SingleFlight_proofs ------------------------
(***************************************************************************)
(* Theorems about SingleFlight for any set of calls and keys: its type     *)
(* invariant, its safety invariants, through the inductive invariant IInv, *)
(* through OnceInv, that no publisher calls a callback twice, and, through *)
(* OneInv, that a text has one leader until an answer is published.        *)
(***************************************************************************)
EXTENDS SingleFlight, TLAPS

\* A flight in the map is filed under the key of the call that created it,
\* and that call did return IS_LEADER.
MapKey ==
    \A k \in Keys : flights_[k] # NoFlight =>
        key[flights_[k]] = k /\ pc[flights_[k]] \in LeaderPc

\* A thread that holds a pointer to a flight works on the same key.
Holding == {"join", "waiter", "notify", "calling"}

FoundKey ==
    \A c \in Calls : pc[c] \in Holding =>
        key[found[c]] = key[c] /\ pc[found[c]] \in LeaderPc

\* A registered callback belongs to a waiter of that very flight.
Registered ==
    \A f \in Calls : \A i \in DOMAIN callbacks[f] :
        pc[callbacks[f][i]] = "waiter" /\ found[callbacks[f][i]] = f

\* So does a callback in the copy of a publishing thread.
ToBeCalled ==
    \A c \in Calls : \A i \in DOMAIN todo[c] :
        /\ pc[c] = "calling"
        /\ pc[todo[c][i]] = "waiter"
        /\ found[todo[c][i]] = found[c]

\* A ready flight was created, and its result was computed for its own key.
Published ==
    \A f \in Calls : ready[f] =>
        pc[f] \in LeaderPc /\ key[result[f]] = key[f]

IInv ==
    /\ TypeOK
    /\ MapKey
    /\ FoundKey
    /\ Registered
    /\ ToBeCalled
    /\ Published
    /\ OpenFlightIsLed
    /\ ReadyFlightIsBeingErased
    /\ NoLostRegistration
    /\ SameQueryResults

-----------------------------------------------------------------------------
(* Sequences of callbacks *)

\* push_back adds one callback and leaves the others where they are.
LEMMA AppendFacts ==
    ASSUME NEW S, NEW s \in Seq(S), NEW e \in S
    PROVE  /\ Append(s, e) # <<>>
           /\ \A i \in DOMAIN s : i \in DOMAIN Append(s, e) /\ Append(s, e)[i] = s[i]
           /\ \E i \in DOMAIN Append(s, e) : Append(s, e)[i] = e
           /\ \A i \in DOMAIN Append(s, e) :
                  \/ i \in DOMAIN s /\ Append(s, e)[i] = s[i]
                  \/ Append(s, e)[i] = e
<1>1. /\ Append(s, e) \in Seq(S)
      /\ Len(Append(s, e)) = Len(s) + 1
      /\ Append(s, e)[Len(s) + 1] = e
      /\ DOMAIN s = 1 .. Len(s) /\ DOMAIN Append(s, e) = 1 .. Len(s) + 1
  OBVIOUS
<1>2. \A i \in 1 .. Len(s) : Append(s, e)[i] = s[i]
  OBVIOUS
<1> QED
  BY <1>1, <1>2

LEMMA IsInAppend ==
    ASSUME NEW S, NEW s \in Seq(S), NEW e \in S, NEW x
    PROVE  IsIn(x, Append(s, e)) <=> (IsIn(x, s) \/ x = e)
BY AppendFacts DEF IsIn

\* Taking the head of the copy leaves every other callback in the tail.
LEMMA IsInTail ==
    ASSUME NEW S, NEW s \in Seq(S), s # <<>>, NEW x
    PROVE  /\ Head(s) \in S
           /\ Tail(s) \in Seq(S)
           /\ \A i \in DOMAIN Tail(s) : \E j \in DOMAIN s : s[j] = Tail(s)[i]
           /\ IsIn(x, s) => x = Head(s) \/ IsIn(x, Tail(s))
<1>1. Head(s) \in S /\ Tail(s) \in Seq(S) /\ Len(Tail(s)) = Len(s) - 1
  OBVIOUS
<1>2. \A i \in DOMAIN Tail(s) : Tail(s)[i] = s[i + 1] /\ i + 1 \in DOMAIN s
  BY <1>1
<1>3. ASSUME NEW i \in DOMAIN s, s[i] = x, x # Head(s)
      PROVE  IsIn(x, Tail(s))
  <2>1. i # 1
    BY <1>3
  <2>2. i - 1 \in DOMAIN Tail(s) /\ Tail(s)[i - 1] = x
    BY <1>1, <1>3, <2>1
  <2> QED
    BY <2>2 DEF IsIn
<1> QED
  BY <1>1, <1>2, <1>3 DEF IsIn

-----------------------------------------------------------------------------
(* Types *)

LEMMA TypeStep == TypeOK /\ [Next]_vars => TypeOK'
<1> SUFFICES ASSUME TypeOK, [Next]_vars
             PROVE  TypeOK'
  OBVIOUS
<1> USE ConstantsAssumption DEF TypeOK, Pc, LeaderPc
<1>1. ASSUME NEW c \in Calls, Lead(c)
      PROVE  TypeOK'
  BY <1>1 DEF Lead
<1>2. ASSUME NEW c \in Calls, Find(c)
      PROVE  TypeOK'
  BY <1>2 DEF Find, Joinable
<1>3. ASSUME NEW c \in Calls, Join(c)
      PROVE  TypeOK'
  <2>1. /\ found[c] \in Calls
        /\ pc' = [pc EXCEPT ![c] = "waiter"]
        /\ UNCHANGED <<flights_, ready, result, key, found, todo>>
    BY <1>3 DEF Join
  <2>2. CASE ready[found[c]]
    <3>1. /\ got' = [got EXCEPT ![c] = Append(@, result[found[c]])]
          /\ UNCHANGED callbacks
      BY <1>3, <2>2 DEF Join
    <3>2. got' \in [Calls -> Seq(Calls)]
      BY <2>1, <2>2, <3>1
    <3> QED
      BY <2>1, <3>1, <3>2
  <2>3. CASE ~ready[found[c]]
    <3>1. /\ callbacks' = [callbacks EXCEPT ![found[c]] = Append(@, c)]
          /\ UNCHANGED got
      BY <1>3, <2>3 DEF Join
    <3>2. callbacks' \in [Calls -> Seq(Calls)]
      BY <2>1, <3>1
    <3> QED
      BY <2>1, <3>1, <3>2
  <2> QED
    BY <2>2, <2>3
<1>4. ASSUME NEW c \in Calls, NotifyFind(c)
      PROVE  TypeOK'
  BY <1>4 DEF NotifyFind, EnterNotify
<1>5. ASSUME NEW c \in Calls, NotifyNone(c)
      PROVE  TypeOK'
  BY <1>5 DEF NotifyNone
<1>6. ASSUME NEW c \in Calls, NotifyMark(c)
      PROVE  TypeOK'
  BY <1>6 DEF NotifyMark
<1>7. ASSUME NEW c \in Calls, NotifyCallback(c)
      PROVE  TypeOK'
  <2>1. Head(todo[c]) \in Calls /\ Tail(todo[c]) \in Seq(Calls)
    BY <1>7 DEF NotifyCallback
  <2>2. todo' \in [Calls -> Seq(Calls)]
    BY <1>7, <2>1 DEF NotifyCallback
  <2>3. got' \in [Calls -> Seq(Calls)]
    <3>1. Append(got[Head(todo[c])], c) \in Seq(Calls)
      BY <2>1
    <3> QED
      BY <1>7, <2>1, <3>1 DEF NotifyCallback
  <2> QED
    BY <1>7, <2>2, <2>3 DEF NotifyCallback
<1>8. ASSUME NEW c \in Calls, NotifyErase(c)
      PROVE  TypeOK'
  BY <1>8 DEF NotifyErase
<1>9. ASSUME NEW c \in Calls, Abandon(c)
      PROVE  TypeOK'
  BY <1>9 DEF Abandon
<1>10. CASE Clear
  BY <1>10 DEF Clear
<1>11. CASE UNCHANGED vars
  BY <1>11 DEF vars
<1> QED
  BY <1>1, <1>2, <1>3, <1>4, <1>5, <1>6, <1>7, <1>8, <1>9, <1>10, <1>11
  DEF Next, Work

\* Every reachable state of SingleFlight is well typed: in particular a
\* thread never dereferences a null flight in Join or NotifyMark.
THEOREM TypeCorrect == Spec => []TypeOK
<1>1. Init => TypeOK
  BY ConstantsAssumption DEF Init, TypeOK, Pc
<1> QED
  BY <1>1, TypeStep, PTL DEF Spec

-----------------------------------------------------------------------------
(* The inductive step *)

LEMMA InductiveStep == IInv /\ [Next]_vars => IInv'
<1> SUFFICES ASSUME IInv, [Next]_vars
             PROVE  IInv'
  OBVIOUS
<1>t. TypeOK /\ TypeOK'
  BY TypeStep DEF IInv
<1>a. ASSUME NEW s \in Seq(Calls), NEW e \in Calls
      PROVE  /\ Append(s, e) # <<>>
             /\ \A i \in DOMAIN Append(s, e) :
                    \/ i \in DOMAIN s /\ Append(s, e)[i] = s[i]
                    \/ Append(s, e)[i] = e
             /\ \A x : IsIn(x, Append(s, e)) <=> (IsIn(x, s) \/ x = e)
  BY AppendFacts, IsInAppend
<1> USE ConstantsAssumption
<1>1. ASSUME NEW c \in Calls, Lead(c)
      PROVE  IInv'
  <2>1. MapKey'
    BY <1>1, <1>t DEF IInv, MapKey, LeaderPc, Lead, Joinable, Holding,
           TypeOK
  <2>2. FoundKey'
    BY <1>1, <1>t DEF IInv, FoundKey, MapKey, Holding, LeaderPc, Lead,
           Joinable, TypeOK
  <2>3. Registered'
    BY <1>1, <1>t DEF IInv, Registered, FoundKey, Lead, Joinable, LeaderPc,
           Holding, TypeOK
  <2>4. ToBeCalled'
    <3> SUFFICES ASSUME NEW d \in Calls, NEW i \in DOMAIN todo'[d]
                 PROVE  /\ pc'[d] = "calling"
                        /\ pc'[todo'[d][i]] = "waiter"
                        /\ found'[todo'[d][i]] = found'[d]
      BY DEF ToBeCalled
    <3>1. todo' = todo /\ todo[d][i] \in Calls
      BY <1>1, <1>t DEF Lead, Joinable, TypeOK
    <3>2. /\ pc[d] = "calling"
          /\ pc[todo[d][i]] = "waiter"
          /\ found[todo[d][i]] = found[d]
      BY <3>1 DEF IInv, ToBeCalled
    <3>3. pc[c] # "calling" /\ pc[c] # "waiter"
      BY <1>1 DEF Lead, Joinable
    <3>4. d # c /\ todo[d][i] # c
      BY <3>2, <3>3
    <3> QED
      BY <1>1, <1>t, <3>1, <3>2, <3>4 DEF Lead, Joinable, TypeOK
  <2>5. Published'
    BY <1>1, <1>t DEF IInv, Published, FoundKey, LeaderPc, Lead, Joinable,
           Holding, TypeOK
  <2>6. OpenFlightIsLed'
    BY <1>1, <1>t DEF IInv, OpenFlightIsLed, MapKey, FoundKey, Joinable,
           Lead, LeaderPc, Holding, TypeOK
  <2>7. ReadyFlightIsBeingErased'
    <3> SUFFICES ASSUME NEW k \in Keys, flights_'[k] # NoFlight,
                        ready'[flights_'[k]]
                 PROVE  \E d \in Calls :
                            pc'[d] = "calling" /\ found'[d] = flights_'[k]
      BY DEF ReadyFlightIsBeingErased
    <3>1. ~ready[c]
      BY <1>1, <1>t DEF IInv, Published, Lead, LeaderPc, TypeOK
    <3>2. flights_'[k] = flights_[k] /\ ready[flights_[k]]
      BY <1>1, <1>t, <3>1 DEF Lead, TypeOK
    <3>3. PICK d \in Calls : pc[d] = "calling" /\ found[d] = flights_[k]
      BY <3>2 DEF IInv, ReadyFlightIsBeingErased
    <3>4. d # c /\ pc'[d] = pc[d] /\ found'[d] = found[d]
      BY <1>1, <1>t, <3>3 DEF Lead, TypeOK
    <3> QED
      BY <3>2, <3>3, <3>4
  <2>8. NoLostRegistration'
    <3> SUFFICES ASSUME NEW w \in Calls, pc'[w] = "waiter", got'[w] = <<>>
                 PROVE  \/ ~ready'[found'[w]] /\ IsIn(w, callbacks'[found'[w]])
                        \/ \E d \in Calls : /\ pc'[d] = "calling"
                                            /\ found'[d] = found'[w]
                                            /\ IsIn(w, todo'[d])
      BY DEF NoLostRegistration
    <3>1. /\ pc[w] = "waiter" /\ got[w] = <<>> /\ found'[w] = found[w]
          /\ UNCHANGED <<ready, callbacks, todo>>
      BY <1>1, <1>t DEF Lead, Joinable, TypeOK
    <3>2. CASE ~ready[found[w]] /\ IsIn(w, callbacks[found[w]])
      BY <3>1, <3>2
    <3>3. ASSUME NEW d \in Calls, pc[d] = "calling",
                 found[d] = found[w], IsIn(w, todo[d])
          PROVE  pc'[d] = "calling" /\ found'[d] = found'[w] /\ IsIn(w, todo'[d])
      BY <1>1, <1>t, <3>1, <3>3 DEF Lead, Joinable, TypeOK
    <3> QED
      BY <3>1, <3>2, <3>3 DEF IInv, NoLostRegistration
  <2>9. SameQueryResults'
    BY <1>1, <1>t DEF IInv, SameQueryResults, FoundKey, Published,
           ToBeCalled, Lead, Joinable, TypeOK
  <2> QED
    BY <2>1, <2>2, <2>3, <2>4, <2>5, <2>6, <2>7, <2>8, <2>9, <1>t DEF IInv
<1>2. ASSUME NEW c \in Calls, Find(c)
      PROVE  IInv'
  <2>1. MapKey'
    BY <1>2, <1>t DEF IInv, MapKey, LeaderPc, Find, Joinable, Holding,
           TypeOK
  <2>2. FoundKey'
    <3> SUFFICES ASSUME NEW d \in Calls, pc'[d] \in Holding
                 PROVE  key'[found'[d]] = key'[d] /\ pc'[found'[d]] \in LeaderPc
      BY DEF FoundKey
    <3>1. CASE d = c
      BY <1>2, <1>t, <3>1 DEF IInv, MapKey, Find, Joinable, LeaderPc, TypeOK
    <3>2. CASE d # c
      BY <1>2, <1>t, <3>2 DEF IInv, FoundKey, Find, Holding, LeaderPc, TypeOK
    <3> QED
      BY <3>1, <3>2
  <2>3. Registered'
    BY <1>2, <1>t DEF IInv, Registered, FoundKey, Find, Joinable, LeaderPc,
           Holding, TypeOK
  <2>4. ToBeCalled'
    <3> SUFFICES ASSUME NEW d \in Calls, NEW i \in DOMAIN todo'[d]
                 PROVE  /\ pc'[d] = "calling"
                        /\ pc'[todo'[d][i]] = "waiter"
                        /\ found'[todo'[d][i]] = found'[d]
      BY DEF ToBeCalled
    <3>1. todo' = todo /\ todo[d][i] \in Calls
      BY <1>2, <1>t DEF Find, Joinable, TypeOK
    <3>2. /\ pc[d] = "calling"
          /\ pc[todo[d][i]] = "waiter"
          /\ found[todo[d][i]] = found[d]
      BY <3>1 DEF IInv, ToBeCalled
    <3>3. pc[c] # "calling" /\ pc[c] # "waiter"
      BY <1>2 DEF Find, Joinable
    <3>4. d # c /\ todo[d][i] # c
      BY <3>2, <3>3
    <3> QED
      BY <1>2, <1>t, <3>1, <3>2, <3>4 DEF Find, Joinable, TypeOK
  <2>5. Published'
    BY <1>2, <1>t DEF IInv, Published, FoundKey, LeaderPc, Find, Joinable,
           Holding, TypeOK
  <2>6. OpenFlightIsLed'
    BY <1>2, <1>t DEF IInv, OpenFlightIsLed, MapKey, FoundKey, Joinable,
           Find, LeaderPc, Holding, TypeOK
  <2>7. ReadyFlightIsBeingErased'
    BY <1>2, <1>t DEF IInv, ReadyFlightIsBeingErased, MapKey, FoundKey,
           Published, Find, Joinable, LeaderPc, Holding, TypeOK
  <2>8. NoLostRegistration'
    <3> SUFFICES ASSUME NEW w \in Calls, pc'[w] = "waiter", got'[w] = <<>>
                 PROVE  \/ ~ready'[found'[w]] /\ IsIn(w, callbacks'[found'[w]])
                        \/ \E d \in Calls : /\ pc'[d] = "calling"
                                            /\ found'[d] = found'[w]
                                            /\ IsIn(w, todo'[d])
      BY DEF NoLostRegistration
    <3>1. /\ pc[w] = "waiter" /\ got[w] = <<>> /\ found'[w] = found[w]
          /\ UNCHANGED <<ready, callbacks, todo>>
      BY <1>2, <1>t DEF Find, Joinable, TypeOK
    <3>2. CASE ~ready[found[w]] /\ IsIn(w, callbacks[found[w]])
      BY <3>1, <3>2
    <3>3. ASSUME NEW d \in Calls, pc[d] = "calling",
                 found[d] = found[w], IsIn(w, todo[d])
          PROVE  pc'[d] = "calling" /\ found'[d] = found'[w] /\ IsIn(w, todo'[d])
      BY <1>2, <1>t, <3>1, <3>3 DEF Find, Joinable, TypeOK
    <3> QED
      BY <3>1, <3>2, <3>3 DEF IInv, NoLostRegistration
  <2>9. SameQueryResults'
    BY <1>2, <1>t DEF IInv, SameQueryResults, FoundKey, Published,
           ToBeCalled, Find, Joinable, TypeOK
  <2> QED
    BY <2>1, <2>2, <2>3, <2>4, <2>5, <2>6, <2>7, <2>8, <2>9, <1>t DEF IInv
<1>3. ASSUME NEW c \in Calls, Join(c)
      PROVE  IInv'
  <2> DEFINE f == found[c]
  <2>f. /\ f \in Calls /\ pc[c] = "join"
        /\ pc' = [pc EXCEPT ![c] = "waiter"]
        /\ UNCHANGED <<flights_, ready, result, key, found, todo>>
    BY <1>3, <1>t DEF Join, TypeOK
  <2>p. pc'[c] = "waiter" /\ \A d \in Calls : d # c => pc'[d] = pc[d]
    BY <2>f, <1>t DEF TypeOK
  <2>t. /\ callbacks \in [Calls -> Seq(Calls)] /\ got \in [Calls -> Seq(Calls)]
        /\ ready[f] => result[f] \in Calls
    BY <2>f, <1>t DEF TypeOK
  <2>c. \A g \in Calls :
            \/ callbacks'[g] = callbacks[g] /\ (g = f => ready[f])
            \/ g = f /\ callbacks'[g] = Append(callbacks[g], c)
    <3>1. CASE ready[f]
      BY <1>3, <3>1 DEF Join
    <3>2. CASE ~ready[f]
      BY <1>3, <2>f, <2>t, <3>2 DEF Join
    <3> QED
      BY <3>1, <3>2
  <2>g. \A d \in Calls :
            \/ got'[d] = got[d] /\ (d = c => ~ready[f])
            \/ d = c /\ ready[f] /\ got'[d] = Append(got[d], result[f])
    <3>1. CASE ready[f]
      BY <1>3, <2>t, <3>1 DEF Join
    <3>2. CASE ~ready[f]
      BY <1>3, <3>2 DEF Join
    <3> QED
      BY <3>1, <3>2
  <2>k. key[f] = key[c]
    BY <2>f DEF IInv, FoundKey, Holding
  <2> HIDE DEF f
  <2>l. \A g \in Calls : /\ pc[g] \in LeaderPc => pc'[g] \in LeaderPc
                         /\ pc'[g] \in Holding => pc[g] \in Holding
    BY <2>f, <2>p DEF LeaderPc, Holding
  <2>m. /\ \A k \in Keys : flights_[k] # NoFlight => flights_[k] \in Calls
        /\ \A g \in Calls : pc[g] \in Holding => found[g] \in Calls
    BY <1>t DEF TypeOK, Holding
  <2>1. MapKey'
    BY <2>f, <2>l, <2>m DEF IInv, MapKey
  <2>2. FoundKey'
    BY <2>f, <2>l, <2>m DEF IInv, FoundKey
  <2>3. Registered'
    <3> SUFFICES ASSUME NEW g \in Calls, NEW i \in DOMAIN callbacks'[g]
                 PROVE  /\ pc'[callbacks'[g][i]] = "waiter"
                        /\ found'[callbacks'[g][i]] = g
      BY DEF Registered
    <3>1. CASE i \in DOMAIN callbacks[g] /\ callbacks'[g][i] = callbacks[g][i]
      <4>1. callbacks[g][i] \in Calls
        BY <2>t, <3>1
      <4>2. pc[callbacks[g][i]] = "waiter" /\ found[callbacks[g][i]] = g
        BY <3>1 DEF IInv, Registered
      <4> QED
        BY <2>f, <2>p, <3>1, <4>1, <4>2
    <3>2. CASE g = f /\ callbacks'[g][i] = c
      BY <2>f, <2>p, <3>2 DEF f
    <3>3. \/ i \in DOMAIN callbacks[g] /\ callbacks'[g][i] = callbacks[g][i]
          \/ g = f /\ callbacks'[g][i] = c
      <4>1. callbacks[g] \in Seq(Calls)
        BY <2>t
      <4>2. CASE callbacks'[g] = callbacks[g]
        BY <4>2
      <4>3. CASE g = f /\ callbacks'[g] = Append(callbacks[g], c)
        BY <1>a, <4>1, <4>3
      <4> QED
        BY <2>c, <4>2, <4>3
    <3> QED
      BY <3>1, <3>2, <3>3
  <2>4. ToBeCalled'
    <3> SUFFICES ASSUME NEW d \in Calls, NEW i \in DOMAIN todo'[d]
                 PROVE  /\ pc'[d] = "calling"
                        /\ pc'[todo'[d][i]] = "waiter"
                        /\ found'[todo'[d][i]] = found'[d]
      BY DEF ToBeCalled
    <3>1. todo' = todo /\ todo[d][i] \in Calls
      <4>1. todo' = todo
        BY <2>f
      <4>2. todo[d] \in Seq(Calls)
        BY <1>t DEF TypeOK
      <4> QED
        BY <4>1, <4>2
    <3>2. /\ pc[d] = "calling"
          /\ pc[todo[d][i]] = "waiter"
          /\ found[todo[d][i]] = found[d]
      BY <3>1 DEF IInv, ToBeCalled
    <3> QED
      BY <2>f, <2>p, <3>1, <3>2
  <2>5. Published'
    <3>1. Published
      BY DEF IInv
    <3>2. ready' = ready /\ result' = result /\ key' = key
      BY <2>f
    <3>3. \A g \in Calls : pc[g] \in LeaderPc => pc'[g] \in LeaderPc
      BY <2>f, <2>p DEF LeaderPc
    <3>4. ASSUME NEW g \in Calls, ready[g]
          PROVE  pc'[g] \in LeaderPc /\ key[result[g]] = key[g]
      BY <3>1, <3>3, <3>4, Zenon DEF Published
    <3> QED
      BY <3>2, <3>4, Zenon DEF Published
  <2>6. OpenFlightIsLed'
    <3> SUFFICES ASSUME NEW k \in Keys, Joinable(k)
                 PROVE  \/ pc'[flights_[k]] \in {"leading", "abandoned"}
                        \/ pc'[flights_[k]] = "notify" /\ found[flights_[k]] = flights_[k]
      BY <2>f DEF OpenFlightIsLed, Joinable
    <3>1. \/ pc[flights_[k]] \in {"leading", "abandoned"}
          \/ pc[flights_[k]] = "notify" /\ found[flights_[k]] = flights_[k]
      BY DEF IInv, OpenFlightIsLed
    <3>2. flights_[k] \in Calls
      BY <2>m DEF Joinable
    <3>3. flights_[k] # c
      BY <2>f, <3>1
    <3> QED
      BY <2>p, <3>1, <3>2, <3>3
  <2>7. ReadyFlightIsBeingErased'
    BY <2>f, <1>t DEF IInv, TypeOK, ReadyFlightIsBeingErased
  <2>8. NoLostRegistration'
    <3> SUFFICES ASSUME NEW w \in Calls, pc'[w] = "waiter", got'[w] = <<>>
                 PROVE  \/ ~ready'[found'[w]] /\ IsIn(w, callbacks'[found'[w]])
                        \/ \E d \in Calls : /\ pc'[d] = "calling"
                                            /\ found'[d] = found'[w]
                                            /\ IsIn(w, todo'[d])
      BY DEF NoLostRegistration
    <3>1. CASE w = c
      <4>1. ~ready[f]
        BY <2>g, <2>t, <3>1, <1>a
      <4>2. callbacks'[f] = Append(callbacks[f], c)
        BY <2>c, <2>f, <4>1
      <4>3. IsIn(c, callbacks'[f])
        BY <2>t, <2>f, <4>2, <1>a
      <4> QED
        BY <2>f, <3>1, <4>1, <4>3 DEF f
    <3>2. CASE w # c
      <4>1. pc[w] = "waiter" /\ got[w] = <<>> /\ found[w] \in Calls
        BY <2>p, <2>g, <3>2, <1>t DEF TypeOK
      <4>2. CASE ~ready[found[w]] /\ IsIn(w, callbacks[found[w]])
        <5>1. \/ callbacks'[found[w]] = callbacks[found[w]]
              \/ callbacks'[found[w]] = Append(callbacks[found[w]], c)
          BY <2>c, <4>1
        <5>2. IsIn(w, callbacks'[found[w]])
          <6>1. callbacks[found[w]] \in Seq(Calls)
            BY <2>t, <4>1
          <6>2. CASE callbacks'[found[w]] = callbacks[found[w]]
            BY <4>2, <6>2
          <6>3. CASE callbacks'[found[w]] = Append(callbacks[found[w]], c)
            BY <1>a, <4>2, <6>1, <6>3
          <6> QED
            BY <5>1, <6>2, <6>3
        <5> QED
          BY <2>f, <4>2, <5>2
      <4>3. ASSUME NEW d \in Calls, pc[d] = "calling",
                   found[d] = found[w], IsIn(w, todo[d])
            PROVE  pc'[d] = "calling" /\ found'[d] = found'[w] /\ IsIn(w, todo'[d])
        BY <2>f, <2>p, <4>3
      <4> QED
        BY <4>1, <4>2, <4>3 DEF IInv, NoLostRegistration
    <3> QED
      BY <3>1, <3>2
  <2>9. SameQueryResults'
    <3> SUFFICES ASSUME NEW d \in Calls, NEW i \in DOMAIN got'[d]
                 PROVE  key'[got'[d][i]] = key'[d]
      BY DEF SameQueryResults
    <3>1. CASE i \in DOMAIN got[d] /\ got'[d][i] = got[d][i]
      BY <2>f, <3>1 DEF IInv, SameQueryResults
    <3>2. CASE d = c /\ ready[f] /\ got'[d][i] = result[f]
      BY <2>f, <2>k, <3>2 DEF IInv, Published
    <3>3. \/ i \in DOMAIN got[d] /\ got'[d][i] = got[d][i]
          \/ d = c /\ ready[f] /\ got'[d][i] = result[f]
      <4>1. got[d] \in Seq(Calls)
        BY <2>t
      <4>2. CASE got'[d] = got[d]
        BY <4>2
      <4>3. CASE d = c /\ ready[f] /\ got'[d] = Append(got[d], result[f])
        BY <1>a, <2>t, <4>1, <4>3
      <4> QED
        BY <2>g, <4>2, <4>3
    <3> QED
      BY <3>1, <3>2, <3>3
  <2> QED
    BY <2>1, <2>2, <2>3, <2>4, <2>5, <2>6, <2>7, <2>8, <2>9, <1>t DEF IInv
<1>4. ASSUME NEW c \in Calls, NotifyFind(c)
      PROVE  IInv'
  <2>1. MapKey'
    BY <1>4, <1>t DEF IInv, MapKey, LeaderPc, NotifyFind, EnterNotify,
           Holding, TypeOK
  <2>2. FoundKey'
    BY <1>4, <1>t DEF IInv, FoundKey, MapKey, Holding, LeaderPc,
           NotifyFind, EnterNotify, TypeOK
  <2>3. Registered'
    BY <1>4, <1>t DEF IInv, Registered, FoundKey, NotifyFind, EnterNotify,
           LeaderPc, Holding, TypeOK
  <2>4. ToBeCalled'
    <3> SUFFICES ASSUME NEW d \in Calls, NEW i \in DOMAIN todo'[d]
                 PROVE  /\ pc'[d] = "calling"
                        /\ pc'[todo'[d][i]] = "waiter"
                        /\ found'[todo'[d][i]] = found'[d]
      BY DEF ToBeCalled
    <3>1. todo' = todo /\ todo[d][i] \in Calls
      BY <1>4, <1>t DEF NotifyFind, EnterNotify, TypeOK
    <3>2. /\ pc[d] = "calling"
          /\ pc[todo[d][i]] = "waiter"
          /\ found[todo[d][i]] = found[d]
      BY <3>1 DEF IInv, ToBeCalled
    <3>3. pc[c] # "calling" /\ pc[c] # "waiter"
      BY <1>4 DEF NotifyFind, EnterNotify
    <3>4. d # c /\ todo[d][i] # c
      BY <3>2, <3>3
    <3> QED
      BY <1>4, <1>t, <3>1, <3>2, <3>4 DEF NotifyFind, EnterNotify, TypeOK
  <2>5. Published'
    BY <1>4, <1>t DEF IInv, Published, FoundKey, LeaderPc, NotifyFind,
           EnterNotify, Holding, TypeOK
  <2>6. OpenFlightIsLed'
    BY <1>4, <1>t DEF IInv, OpenFlightIsLed, MapKey, FoundKey, Joinable,
           NotifyFind, EnterNotify, LeaderPc, Holding, TypeOK
  <2>7. ReadyFlightIsBeingErased'
    BY <1>4, <1>t DEF IInv, ReadyFlightIsBeingErased, MapKey, FoundKey,
           Published, NotifyFind, EnterNotify, LeaderPc, Holding, TypeOK
  <2>8. NoLostRegistration'
    <3> SUFFICES ASSUME NEW w \in Calls, pc'[w] = "waiter", got'[w] = <<>>
                 PROVE  \/ ~ready'[found'[w]] /\ IsIn(w, callbacks'[found'[w]])
                        \/ \E d \in Calls : /\ pc'[d] = "calling"
                                            /\ found'[d] = found'[w]
                                            /\ IsIn(w, todo'[d])
      BY DEF NoLostRegistration
    <3>1. /\ pc[w] = "waiter" /\ got[w] = <<>> /\ found'[w] = found[w]
          /\ UNCHANGED <<ready, callbacks, todo>>
      BY <1>4, <1>t DEF NotifyFind, EnterNotify, TypeOK
    <3>2. CASE ~ready[found[w]] /\ IsIn(w, callbacks[found[w]])
      BY <3>1, <3>2
    <3>3. ASSUME NEW d \in Calls, pc[d] = "calling",
                 found[d] = found[w], IsIn(w, todo[d])
          PROVE  pc'[d] = "calling" /\ found'[d] = found'[w] /\ IsIn(w, todo'[d])
      BY <1>4, <1>t, <3>1, <3>3 DEF NotifyFind, EnterNotify, TypeOK
    <3> QED
      BY <3>1, <3>2, <3>3 DEF IInv, NoLostRegistration
  <2>9. SameQueryResults'
    BY <1>4, <1>t DEF IInv, SameQueryResults, FoundKey, Published,
           ToBeCalled, NotifyFind, EnterNotify, TypeOK
  <2> QED
    BY <2>1, <2>2, <2>3, <2>4, <2>5, <2>6, <2>7, <2>8, <2>9, <1>t DEF IInv
<1>5. ASSUME NEW c \in Calls, NotifyNone(c)
      PROVE  IInv'
  <2>1. MapKey'
    BY <1>5, <1>t DEF IInv, MapKey, LeaderPc, NotifyNone, Holding, TypeOK
  <2>2. FoundKey'
    BY <1>5, <1>t DEF IInv, FoundKey, MapKey, Holding, LeaderPc,
           NotifyNone, TypeOK
  <2>3. Registered'
    BY <1>5, <1>t DEF IInv, Registered, FoundKey, NotifyNone, LeaderPc,
           Holding, TypeOK
  <2>4. ToBeCalled'
    <3> SUFFICES ASSUME NEW d \in Calls, NEW i \in DOMAIN todo'[d]
                 PROVE  /\ pc'[d] = "calling"
                        /\ pc'[todo'[d][i]] = "waiter"
                        /\ found'[todo'[d][i]] = found'[d]
      BY DEF ToBeCalled
    <3>1. todo' = todo /\ found' = found /\ todo[d][i] \in Calls
      BY <1>5, <1>t DEF NotifyNone, TypeOK
    <3>2. /\ pc[d] = "calling"
          /\ pc[todo[d][i]] = "waiter"
          /\ found[todo[d][i]] = found[d]
      BY <3>1 DEF IInv, ToBeCalled
    <3>3. d # c /\ todo[d][i] # c
      BY <1>5, <3>2 DEF NotifyNone
    <3>4. pc'[d] = pc[d] /\ pc'[todo[d][i]] = pc[todo[d][i]]
      BY <1>5, <1>t, <3>1, <3>3 DEF NotifyNone, TypeOK
    <3> QED
      BY <3>1, <3>2, <3>4
  <2>5. Published'
    BY <1>5, <1>t DEF IInv, Published, FoundKey, LeaderPc, NotifyNone,
           Holding, TypeOK
  <2>6. OpenFlightIsLed'
    BY <1>5, <1>t DEF IInv, OpenFlightIsLed, MapKey, FoundKey, Joinable,
           NotifyNone, LeaderPc, Holding, TypeOK
  <2>7. ReadyFlightIsBeingErased'
    BY <1>5, <1>t DEF IInv, ReadyFlightIsBeingErased, MapKey, FoundKey,
           Published, NotifyNone, LeaderPc, Holding, TypeOK
  <2>8. NoLostRegistration'
    <3> SUFFICES ASSUME NEW w \in Calls, pc'[w] = "waiter", got'[w] = <<>>
                 PROVE  \/ ~ready'[found'[w]] /\ IsIn(w, callbacks'[found'[w]])
                        \/ \E d \in Calls : /\ pc'[d] = "calling"
                                            /\ found'[d] = found'[w]
                                            /\ IsIn(w, todo'[d])
      BY DEF NoLostRegistration
    <3>1. /\ pc[w] = "waiter" /\ got[w] = <<>> /\ found'[w] = found[w]
          /\ UNCHANGED <<ready, callbacks, todo>>
      BY <1>5, <1>t DEF NotifyNone, TypeOK
    <3>2. CASE ~ready[found[w]] /\ IsIn(w, callbacks[found[w]])
      BY <3>1, <3>2
    <3>3. ASSUME NEW d \in Calls, pc[d] = "calling",
                 found[d] = found[w], IsIn(w, todo[d])
          PROVE  pc'[d] = "calling" /\ found'[d] = found'[w] /\ IsIn(w, todo'[d])
      BY <1>5, <1>t, <3>1, <3>3 DEF NotifyNone, TypeOK
    <3> QED
      BY <3>1, <3>2, <3>3 DEF IInv, NoLostRegistration
  <2>9. SameQueryResults'
    BY <1>5, <1>t DEF IInv, SameQueryResults, FoundKey, Published,
           ToBeCalled, NotifyNone, TypeOK
  <2> QED
    BY <2>1, <2>2, <2>3, <2>4, <2>5, <2>6, <2>7, <2>8, <2>9, <1>t DEF IInv
<1>6. ASSUME NEW c \in Calls, NotifyMark(c)
      PROVE  IInv'
  <2>1. MapKey'
    BY <1>6, <1>t DEF IInv, MapKey, LeaderPc, NotifyMark, Holding, TypeOK
  <2>2. FoundKey'
    BY <1>6, <1>t DEF IInv, FoundKey, MapKey, Holding, LeaderPc,
           NotifyMark, TypeOK
  <2>3. Registered'
    BY <1>6, <1>t DEF IInv, Registered, FoundKey, NotifyMark, LeaderPc,
           Holding, TypeOK
  <2>4. ToBeCalled'
    <3> SUFFICES ASSUME NEW d \in Calls, NEW i \in DOMAIN todo'[d]
                 PROVE  /\ pc'[d] = "calling"
                        /\ pc'[todo'[d][i]] = "waiter"
                        /\ found'[todo'[d][i]] = found'[d]
      BY DEF ToBeCalled
    <3>1. CASE d = c
      <4>1. /\ todo'[d] = callbacks[found[c]]
            /\ found[c] \in Calls
            /\ callbacks[found[c]][i] \in Calls
        BY <1>6, <1>t, <3>1 DEF NotifyMark, TypeOK
      <4>2. /\ pc[callbacks[found[c]][i]] = "waiter"
            /\ found[callbacks[found[c]][i]] = found[c]
        BY <4>1 DEF IInv, Registered
      <4> QED
        BY <1>6, <1>t, <3>1, <4>1, <4>2 DEF NotifyMark, TypeOK
    <3>2. CASE d # c
      <4>1. todo'[d] = todo[d] /\ todo[d][i] \in Calls
        BY <1>6, <1>t, <3>2 DEF NotifyMark, TypeOK
      <4>2. /\ pc[d] = "calling"
            /\ pc[todo[d][i]] = "waiter"
            /\ found[todo[d][i]] = found[d]
        BY <4>1 DEF IInv, ToBeCalled
      <4> QED
        BY <1>6, <1>t, <3>2, <4>1, <4>2 DEF NotifyMark, TypeOK
    <3> QED
      BY <3>1, <3>2
  <2>5. Published'
    BY <1>6, <1>t DEF IInv, Published, FoundKey, LeaderPc, NotifyMark,
           Holding, TypeOK
  <2>6. OpenFlightIsLed'
    BY <1>6, <1>t DEF IInv, OpenFlightIsLed, MapKey, FoundKey, Joinable,
           NotifyMark, LeaderPc, Holding, TypeOK
  <2>7. ReadyFlightIsBeingErased'
    BY <1>6, <1>t DEF IInv, ReadyFlightIsBeingErased, MapKey, FoundKey,
           Published, NotifyMark, LeaderPc, Holding, TypeOK
  <2>8. NoLostRegistration'
    <3> SUFFICES ASSUME NEW w \in Calls, pc'[w] = "waiter", got'[w] = <<>>
                 PROVE  \/ ~ready'[found'[w]] /\ IsIn(w, callbacks'[found'[w]])
                        \/ \E d \in Calls : /\ pc'[d] = "calling"
                                            /\ found'[d] = found'[w]
                                            /\ IsIn(w, todo'[d])
      BY DEF NoLostRegistration
    <3>1. /\ pc[w] = "waiter" /\ got[w] = <<>> /\ found[w] \in Calls
          /\ UNCHANGED <<callbacks, found>>
      BY <1>6, <1>t DEF NotifyMark, TypeOK
    <3>2. CASE ~ready[found[w]] /\ IsIn(w, callbacks[found[w]]) /\ found[w] = found[c]
      <4>1. pc'[c] = "calling" /\ todo'[c] = callbacks[found[w]]
        BY <1>6, <1>t, <3>2 DEF NotifyMark, TypeOK
      <4> QED
        BY <3>1, <3>2, <4>1
    <3>3. CASE ~ready[found[w]] /\ IsIn(w, callbacks[found[w]]) /\ found[w] # found[c]
      BY <1>6, <1>t, <3>1, <3>3 DEF NotifyMark, TypeOK
    <3>4. ASSUME NEW d \in Calls, pc[d] = "calling",
                 found[d] = found[w], IsIn(w, todo[d])
          PROVE  pc'[d] = "calling" /\ found'[d] = found'[w] /\ IsIn(w, todo'[d])
      <4>1. pc[c] = "notify" /\ d # c /\ UNCHANGED found
        BY <1>6, <3>4 DEF NotifyMark
      <4>2. pc'[d] = pc[d] /\ todo'[d] = todo[d]
        BY <1>6, <1>t, <4>1 DEF NotifyMark, TypeOK
      <4> QED
        BY <3>4, <4>1, <4>2
    <3> QED
      BY <3>1, <3>2, <3>3, <3>4 DEF IInv, NoLostRegistration
  <2>9. SameQueryResults'
    BY <1>6, <1>t DEF IInv, SameQueryResults, FoundKey, Published,
           ToBeCalled, NotifyMark, TypeOK
  <2> QED
    BY <2>1, <2>2, <2>3, <2>4, <2>5, <2>6, <2>7, <2>8, <2>9, <1>t DEF IInv
<1>7. ASSUME NEW c \in Calls, NotifyCallback(c)
      PROVE  IInv'
  <2> DEFINE h == Head(todo[c])
  <2>t. todo[c] \in Seq(Calls) /\ todo[c] # <<>> /\ got \in [Calls -> Seq(Calls)]
    BY <1>7, <1>t DEF NotifyCallback, TypeOK
  <2>s. /\ h \in Calls /\ h = todo[c][1] /\ 1 \in DOMAIN todo[c]
        /\ \A i \in DOMAIN Tail(todo[c]) :
               \E j \in DOMAIN todo[c] : todo[c][j] = Tail(todo[c])[i]
        /\ \A w : IsIn(w, todo[c]) => w = h \/ IsIn(w, Tail(todo[c]))
    BY <2>t, IsInTail
  <2>h. /\ pc[c] = "calling" /\ pc[h] = "waiter" /\ found[h] = found[c]
        /\ UNCHANGED <<flights_, ready, result, callbacks, key, pc, found>>
    BY <1>7, <2>s DEF NotifyCallback, IInv, ToBeCalled
  <2>d. /\ todo'[c] = Tail(todo[c])
        /\ \A d \in Calls : d # c => todo'[d] = todo[d]
        /\ got'[h] = Append(got[h], c)
        /\ \A d \in Calls : d # h => got'[d] = got[d]
    BY <1>7, <1>t, <2>s DEF NotifyCallback, TypeOK
  <2> HIDE DEF h
  <2>1. MapKey'
    BY <2>h DEF IInv, MapKey
  <2>2. FoundKey'
    BY <2>h DEF IInv, FoundKey
  <2>3. Registered'
    BY <2>h DEF IInv, Registered
  <2>4. ToBeCalled'
    <3> SUFFICES ASSUME NEW d \in Calls, NEW i \in DOMAIN todo'[d]
                 PROVE  /\ pc'[d] = "calling"
                        /\ pc'[todo'[d][i]] = "waiter"
                        /\ found'[todo'[d][i]] = found'[d]
      BY DEF ToBeCalled
    <3>1. PICK j \in DOMAIN todo[d] : todo[d][j] = todo'[d][i]
      <4>1. CASE d = c
        BY <2>d, <2>s, <4>1, Zenon
      <4>2. CASE d # c
        BY <2>d, <4>2, Zenon
      <4> QED
        BY <4>1, <4>2
    <3>2. /\ pc[d] = "calling"
          /\ pc[todo[d][j]] = "waiter"
          /\ found[todo[d][j]] = found[d]
      BY DEF IInv, ToBeCalled
    <3> QED
      BY <2>h, <3>1, <3>2
  <2>5. Published'
    BY <2>h DEF IInv, Published
  <2>6. OpenFlightIsLed'
    BY <2>h DEF IInv, OpenFlightIsLed, Joinable
  <2>7. ReadyFlightIsBeingErased'
    BY <2>h DEF IInv, ReadyFlightIsBeingErased
  <2>8. NoLostRegistration'
    <3> SUFFICES ASSUME NEW w \in Calls, pc'[w] = "waiter", got'[w] = <<>>
                 PROVE  \/ ~ready'[found'[w]] /\ IsIn(w, callbacks'[found'[w]])
                        \/ \E d \in Calls : /\ pc'[d] = "calling"
                                            /\ found'[d] = found'[w]
                                            /\ IsIn(w, todo'[d])
      BY DEF NoLostRegistration
    <3>1. w # h
      BY <2>d, <2>s, <2>t, <1>a
    <3>2. pc[w] = "waiter" /\ got[w] = <<>>
      BY <2>h, <2>d, <3>1
    <3>3. CASE ~ready[found[w]] /\ IsIn(w, callbacks[found[w]])
      BY <2>h, <3>3
    <3>4. ASSUME NEW d \in Calls, pc[d] = "calling",
                 found[d] = found[w], IsIn(w, todo[d])
          PROVE  pc'[d] = "calling" /\ found'[d] = found'[w] /\ IsIn(w, todo'[d])
      <4>1. IsIn(w, todo'[d])
        BY <2>d, <2>s, <3>1, <3>4
      <4> QED
        BY <2>h, <3>4, <4>1
    <3> QED
      BY <3>2, <3>3, <3>4 DEF IInv, NoLostRegistration
  <2>9. SameQueryResults'
    <3>1. key[h] = key[c]
      BY <2>h, <2>s DEF IInv, FoundKey, Holding
    <3>2. ASSUME NEW d \in Calls, NEW i \in DOMAIN got'[d]
          PROVE  key'[got'[d][i]] = key'[d]
      <4>1. CASE i \in DOMAIN got[d] /\ got'[d][i] = got[d][i]
        BY <2>h, <4>1 DEF IInv, SameQueryResults
      <4>2. CASE d = h /\ got'[d][i] = c
        BY <2>h, <3>1, <4>2
      <4>3. \/ i \in DOMAIN got[d] /\ got'[d][i] = got[d][i]
            \/ d = h /\ got'[d][i] = c
        <5>1. got[d] \in Seq(Calls)
          BY <2>t
        <5>2. CASE d = h
          BY <1>a, <2>d, <5>1, <5>2
        <5>3. CASE d # h
          BY <2>d, <5>3
        <5> QED
          BY <5>2, <5>3
      <4> QED
        BY <4>1, <4>2, <4>3
    <3> QED
      BY <3>2 DEF SameQueryResults
  <2> QED
    BY <2>1, <2>2, <2>3, <2>4, <2>5, <2>6, <2>7, <2>8, <2>9, <1>t DEF IInv
<1>8. ASSUME NEW c \in Calls, NotifyErase(c)
      PROVE  IInv'
  <2>1. MapKey'
    BY <1>8, <1>t DEF IInv, MapKey, LeaderPc, NotifyErase, Holding, TypeOK
  <2>2. FoundKey'
    BY <1>8, <1>t DEF IInv, FoundKey, MapKey, Holding, LeaderPc,
           NotifyErase, TypeOK
  <2>3. Registered'
    BY <1>8, <1>t DEF IInv, Registered, FoundKey, NotifyErase, LeaderPc,
           Holding, TypeOK
  <2>4. ToBeCalled'
    <3> SUFFICES ASSUME NEW d \in Calls, NEW i \in DOMAIN todo'[d]
                 PROVE  /\ pc'[d] = "calling"
                        /\ pc'[todo'[d][i]] = "waiter"
                        /\ found'[todo'[d][i]] = found'[d]
      BY DEF ToBeCalled
    <3>1. /\ UNCHANGED <<todo, found>> /\ todo[d][i] \in Calls
          /\ todo[c] = <<>> /\ pc[c] = "calling"
      BY <1>8, <1>t DEF NotifyErase, TypeOK
    <3>2. /\ pc[d] = "calling"
          /\ pc[todo[d][i]] = "waiter"
          /\ found[todo[d][i]] = found[d]
      BY <3>1 DEF IInv, ToBeCalled
    <3>3. d # c /\ todo[d][i] # c
      BY <3>1, <3>2
    <3> QED
      BY <1>8, <1>t, <3>1, <3>2, <3>3 DEF NotifyErase, TypeOK
  <2>5. Published'
    BY <1>8, <1>t DEF IInv, Published, FoundKey, LeaderPc, NotifyErase,
           Holding, TypeOK
  <2>6. OpenFlightIsLed'
    BY <1>8, <1>t DEF IInv, OpenFlightIsLed, MapKey, FoundKey, Joinable,
           NotifyErase, LeaderPc, Holding, TypeOK
  <2>7. ReadyFlightIsBeingErased'
    <3> SUFFICES ASSUME NEW k \in Keys, flights_'[k] # NoFlight,
                        ready'[flights_'[k]]
                 PROVE  \E d \in Calls :
                            pc'[d] = "calling" /\ found'[d] = flights_'[k]
      BY DEF ReadyFlightIsBeingErased
    <3>1. k # key[c] /\ flights_'[k] = flights_[k] /\ ready[flights_[k]]
      BY <1>8, <1>t DEF NotifyErase, TypeOK
    <3>2. PICK d \in Calls : pc[d] = "calling" /\ found[d] = flights_[k]
      BY <3>1 DEF IInv, ReadyFlightIsBeingErased
    <3>3. key[found[d]] = key[d] /\ key[flights_[k]] = k
      BY <3>1, <3>2 DEF IInv, FoundKey, MapKey, Holding
    <3> QED
      BY <1>8, <1>t, <3>1, <3>2, <3>3 DEF NotifyErase, TypeOK
  <2>8. NoLostRegistration'
    <3> SUFFICES ASSUME NEW w \in Calls, pc'[w] = "waiter", got'[w] = <<>>
                 PROVE  \/ ~ready'[found'[w]] /\ IsIn(w, callbacks'[found'[w]])
                        \/ \E d \in Calls : /\ pc'[d] = "calling"
                                            /\ found'[d] = found'[w]
                                            /\ IsIn(w, todo'[d])
      BY DEF NoLostRegistration
    <3>1. /\ pc[w] = "waiter" /\ got[w] = <<>> /\ found'[w] = found[w]
          /\ UNCHANGED <<ready, callbacks, todo>>
      BY <1>8, <1>t DEF NotifyErase, TypeOK
    <3>2. CASE ~ready[found[w]] /\ IsIn(w, callbacks[found[w]])
      BY <3>1, <3>2
    <3>3. ASSUME NEW d \in Calls, pc[d] = "calling",
                 found[d] = found[w], IsIn(w, todo[d])
          PROVE  pc'[d] = "calling" /\ found'[d] = found'[w] /\ IsIn(w, todo'[d])
      <4>1. todo[c] = <<>> /\ ~IsIn(w, <<>>)
        BY <1>8 DEF NotifyErase, IsIn
      <4>2. d # c
        BY <3>3, <4>1
      <4> QED
        BY <1>8, <1>t, <3>1, <3>3, <4>2 DEF NotifyErase, TypeOK
    <3> QED
      BY <3>1, <3>2, <3>3 DEF IInv, NoLostRegistration
  <2>9. SameQueryResults'
    BY <1>8, <1>t DEF IInv, SameQueryResults, FoundKey, Published,
           ToBeCalled, NotifyErase, TypeOK
  <2> QED
    BY <2>1, <2>2, <2>3, <2>4, <2>5, <2>6, <2>7, <2>8, <2>9, <1>t DEF IInv
<1>9. ASSUME NEW c \in Calls, Abandon(c)
      PROVE  IInv'
  <2>1. MapKey'
    BY <1>9, <1>t DEF IInv, MapKey, LeaderPc, Abandon, Holding, TypeOK
  <2>2. FoundKey'
    BY <1>9, <1>t DEF IInv, FoundKey, MapKey, Holding, LeaderPc, Abandon,
           TypeOK
  <2>3. Registered'
    BY <1>9, <1>t DEF IInv, Registered, FoundKey, Abandon, LeaderPc,
           Holding, TypeOK
  <2>4. ToBeCalled'
    <3> SUFFICES ASSUME NEW d \in Calls, NEW i \in DOMAIN todo'[d]
                 PROVE  /\ pc'[d] = "calling"
                        /\ pc'[todo'[d][i]] = "waiter"
                        /\ found'[todo'[d][i]] = found'[d]
      BY DEF ToBeCalled
    <3>1. todo' = todo /\ found' = found /\ todo[d][i] \in Calls
      BY <1>9, <1>t DEF Abandon, TypeOK
    <3>2. /\ pc[d] = "calling"
          /\ pc[todo[d][i]] = "waiter"
          /\ found[todo[d][i]] = found[d]
      BY <3>1 DEF IInv, ToBeCalled
    <3>3. d # c /\ todo[d][i] # c
      BY <1>9, <3>2 DEF Abandon
    <3>4. pc'[d] = pc[d] /\ pc'[todo[d][i]] = pc[todo[d][i]]
      BY <1>9, <1>t, <3>1, <3>3 DEF Abandon, TypeOK
    <3> QED
      BY <3>1, <3>2, <3>4
  <2>5. Published'
    BY <1>9, <1>t DEF IInv, Published, FoundKey, LeaderPc, Abandon,
           Holding, TypeOK
  <2>6. OpenFlightIsLed'
    BY <1>9, <1>t DEF IInv, OpenFlightIsLed, MapKey, FoundKey, Joinable,
           Abandon, LeaderPc, Holding, TypeOK
  <2>7. ReadyFlightIsBeingErased'
    BY <1>9, <1>t DEF IInv, ReadyFlightIsBeingErased, MapKey, FoundKey,
           Published, Abandon, LeaderPc, Holding, TypeOK
  <2>8. NoLostRegistration'
    <3> SUFFICES ASSUME NEW w \in Calls, pc'[w] = "waiter", got'[w] = <<>>
                 PROVE  \/ ~ready'[found'[w]] /\ IsIn(w, callbacks'[found'[w]])
                        \/ \E d \in Calls : /\ pc'[d] = "calling"
                                            /\ found'[d] = found'[w]
                                            /\ IsIn(w, todo'[d])
      BY DEF NoLostRegistration
    <3>1. /\ pc[w] = "waiter" /\ got[w] = <<>> /\ found'[w] = found[w]
          /\ UNCHANGED <<ready, callbacks, todo>>
      BY <1>9, <1>t DEF Abandon, TypeOK
    <3>2. CASE ~ready[found[w]] /\ IsIn(w, callbacks[found[w]])
      BY <3>1, <3>2
    <3>3. ASSUME NEW d \in Calls, pc[d] = "calling",
                 found[d] = found[w], IsIn(w, todo[d])
          PROVE  pc'[d] = "calling" /\ found'[d] = found'[w] /\ IsIn(w, todo'[d])
      BY <1>9, <1>t, <3>1, <3>3 DEF Abandon, TypeOK
    <3> QED
      BY <3>1, <3>2, <3>3 DEF IInv, NoLostRegistration
  <2>9. SameQueryResults'
    BY <1>9, <1>t DEF IInv, SameQueryResults, FoundKey, Published,
           ToBeCalled, Abandon, TypeOK
  <2> QED
    BY <2>1, <2>2, <2>3, <2>4, <2>5, <2>6, <2>7, <2>8, <2>9, <1>t DEF IInv
<1>10. CASE Clear
  <2>1. MapKey'
    BY <1>10, <1>t DEF IInv, MapKey, LeaderPc, Clear, Joinable, Holding,
           TypeOK
  <2>2. FoundKey'
    BY <1>10, <1>t DEF IInv, FoundKey, MapKey, Holding, LeaderPc, Clear,
           Joinable, TypeOK
  <2>3. Registered'
    BY <1>10, <1>t DEF IInv, Registered, FoundKey, Clear, Joinable,
           LeaderPc, Holding, TypeOK
  <2>4. ToBeCalled'
    BY <1>10, <1>t DEF IInv, ToBeCalled, Registered, Clear, Joinable,
           LeaderPc, Holding, TypeOK
  <2>5. Published'
    BY <1>10, <1>t DEF IInv, Published, FoundKey, LeaderPc, Clear,
           Joinable, Holding, TypeOK
  <2>6. OpenFlightIsLed'
    BY <1>10, <1>t DEF IInv, OpenFlightIsLed, MapKey, FoundKey, Joinable,
           Clear, LeaderPc, Holding, TypeOK
  <2>7. ReadyFlightIsBeingErased'
    BY <1>10, <1>t DEF IInv, ReadyFlightIsBeingErased, MapKey, FoundKey,
           Published, Clear, Joinable, LeaderPc, Holding, TypeOK
  <2>8. NoLostRegistration'
    BY <1>10, <1>t DEF IInv, NoLostRegistration, FoundKey, Clear, Joinable,
           LeaderPc, Holding, TypeOK
  <2>9. SameQueryResults'
    BY <1>10, <1>t DEF IInv, SameQueryResults, FoundKey, Published,
           ToBeCalled, Clear, Joinable, TypeOK
  <2> QED
    BY <2>1, <2>2, <2>3, <2>4, <2>5, <2>6, <2>7, <2>8, <2>9, <1>t DEF IInv
<1>11. CASE UNCHANGED vars
  <2>1. MapKey'
    BY <1>11, <1>t DEF IInv, MapKey, LeaderPc, vars, Joinable, TypeOK
  <2>2. FoundKey'
    BY <1>11, <1>t DEF IInv, FoundKey, MapKey, Holding, LeaderPc, vars,
           Joinable, TypeOK
  <2>3. Registered'
    BY <1>11, <1>t DEF IInv, Registered, FoundKey, vars, Joinable, TypeOK
  <2>4. ToBeCalled'
    BY <1>11, <1>t DEF IInv, ToBeCalled, Registered, vars, Joinable, TypeOK
  <2>5. Published'
    BY <1>11, <1>t DEF IInv, Published, FoundKey, LeaderPc, vars, Joinable,
           TypeOK
  <2>6. OpenFlightIsLed'
    BY <1>11, <1>t DEF IInv, OpenFlightIsLed, MapKey, FoundKey, Joinable,
           vars, TypeOK
  <2>7. ReadyFlightIsBeingErased'
    BY <1>11, <1>t DEF IInv, ReadyFlightIsBeingErased, MapKey, FoundKey,
           Published, vars, Joinable, TypeOK
  <2>8. NoLostRegistration'
    BY <1>11, <1>t DEF IInv, NoLostRegistration, FoundKey, vars, Joinable,
           TypeOK
  <2>9. SameQueryResults'
    BY <1>11, <1>t DEF IInv, SameQueryResults, FoundKey, Published,
           ToBeCalled, vars, Joinable, TypeOK
  <2> QED
    BY <2>1, <2>2, <2>3, <2>4, <2>5, <2>6, <2>7, <2>8, <2>9, <1>t DEF IInv
<1> QED
  BY <1>1, <1>2, <1>3, <1>4, <1>5, <1>6, <1>7, <1>8, <1>9, <1>10, <1>11
  DEF Next, Work

LEMMA InvInit == Init => IInv
<1> SUFFICES ASSUME Init
             PROVE  IInv
  OBVIOUS
<1>1. TypeOK
  BY ConstantsAssumption DEF Init, TypeOK, Pc
<1>2. MapKey /\ FoundKey /\ Registered /\ ToBeCalled /\ Published
  BY <1>1 DEF Init, MapKey, FoundKey, Registered, ToBeCalled, Published, Holding
<1>3. OpenFlightIsLed /\ ReadyFlightIsBeingErased
  BY DEF Init, OpenFlightIsLed, ReadyFlightIsBeingErased, Joinable
<1>4. NoLostRegistration /\ SameQueryResults
  BY DEF Init, NoLostRegistration, SameQueryResults
<1> QED
  BY <1>1, <1>2, <1>3, <1>4 DEF IInv

LEMMA Inductive == Spec => []IInv
BY InvInit, InductiveStep, PTL DEF Spec

\* Results never cross keys: whatever order the threads run in, a callback is
\* given only results computed for its own query text.
THEOREM ResultsMatchQueries == Spec => []SameQueryResults
<1>1. IInv => SameQueryResults
  BY DEF IInv
<1> QED
  BY <1>1, Inductive, PTL

\* A flight that can still be joined has a leader yet to publish it (or whose
\* session ended).
THEOREM JoinableFlightsAreLed == Spec => []OpenFlightIsLed
<1>1. IInv => OpenFlightIsLed
  BY DEF IInv
<1> QED
  BY <1>1, Inductive, PTL

\* A ready flight in the map is held by the thread about to erase it, so it
\* is not left behind and is not destroyed while its mutex is locked.
THEOREM ReadyFlightsAreHeld == Spec => []ReadyFlightIsBeingErased
<1>1. IInv => ReadyFlightIsBeingErased
  BY DEF IInv
<1> QED
  BY <1>1, Inductive, PTL

\* No registration falls between doSingleFlight's two looks at ready and
\* notifyResult's copy of the callbacks.
THEOREM RegistrationsAreKept == Spec => []NoLostRegistration
<1>1. IInv => NoLostRegistration
  BY DEF IInv
<1> QED
  BY <1>1, Inductive, PTL

-----------------------------------------------------------------------------
(* One call per publication *)

Distinct(s) == \A i, j \in DOMAIN s : s[i] = s[j] => i = j

\* Where a call is that has published: it works through its copy, or has returned.
AfterMark == {"calling", "done"}

\* A callback is registered once and copied once; who is not a waiter has been
\* given nothing; and who was given a result by c is no longer in c's copy.
OnceInv ==
    /\ \A f \in Calls : Distinct(callbacks[f]) /\ Distinct(todo[f])
    /\ \A f \in Calls : ready[f] => pc[result[f]] \in AfterMark
    /\ \A w \in Calls : pc[w] # "waiter" => got[w] = <<>>
    /\ \A w \in Calls : \A i \in DOMAIN got[w] :
           pc[got[w][i]] \in AfterMark /\ ~IsIn(w, todo[got[w][i]])
    /\ \A w \in Calls : Distinct(got[w])

LEMMA DistinctAppend ==
    ASSUME NEW S, NEW s \in Seq(S), NEW e \in S, Distinct(s), ~IsIn(e, s)
    PROVE  Distinct(Append(s, e))
<1>1. /\ Append(s, e) \in Seq(S)
      /\ DOMAIN s = 1 .. Len(s) /\ DOMAIN Append(s, e) = 1 .. Len(s) + 1
      /\ Append(s, e)[Len(s) + 1] = e
  OBVIOUS
<1>2. \A i \in 1 .. Len(s) : Append(s, e)[i] = s[i]
  OBVIOUS
<1>3. \A i \in 1 .. Len(s) + 1 : i = Len(s) + 1 \/ i \in 1 .. Len(s)
  BY <1>1
<1> QED
  BY <1>1, <1>2, <1>3 DEF Distinct, IsIn

LEMMA DistinctTail ==
    ASSUME NEW S, NEW s \in Seq(S), s # <<>>, Distinct(s)
    PROVE  Distinct(Tail(s)) /\ ~IsIn(Head(s), Tail(s))
<1>1. /\ Tail(s) \in Seq(S) /\ Len(Tail(s)) = Len(s) - 1
      /\ Head(s) = s[1] /\ Len(s) \in Nat /\ Len(s) > 0
  OBVIOUS
<1>2. \A i \in DOMAIN Tail(s) : /\ Tail(s)[i] = s[i + 1]
                                /\ i \in Nat /\ i > 0 /\ i + 1 \in DOMAIN s
  BY <1>1
<1>3. 1 \in DOMAIN s
  BY <1>1
<1> QED
  BY <1>1, <1>2, <1>3 DEF Distinct, IsIn

\* What a step keeps that changes no flight, no copy and no history, and moves
\* no call out of the waiters or back before its publication.
LEMMA OnceFrame ==
    ASSUME TypeOK, OnceInv, UNCHANGED <<ready, result, callbacks, todo, got>>,
           \A d \in Calls : pc[d] \in AfterMark => pc'[d] \in AfterMark,
           \A d \in Calls : pc'[d] # "waiter" => pc[d] # "waiter"
    PROVE  OnceInv'
<1>1. \A w \in Calls : \A i \in DOMAIN got[w] : got[w][i] \in Calls
  BY DEF TypeOK
<1>2. \A f \in Calls : ready[f] => result[f] \in Calls
  BY DEF TypeOK
<1>3. /\ \A f \in Calls : Distinct(callbacks[f]) /\ Distinct(todo[f])
      /\ \A w \in Calls : Distinct(got[w])
      /\ \A w \in Calls : pc'[w] # "waiter" => got[w] = <<>>
  BY DEF OnceInv
<1>4. \A f \in Calls : ready[f] => pc'[result[f]] \in AfterMark
  BY <1>2 DEF OnceInv
<1>5. \A w \in Calls : \A i \in DOMAIN got[w] :
          pc'[got[w][i]] \in AfterMark /\ ~IsIn(w, todo[got[w][i]])
  BY <1>1 DEF OnceInv
<1> QED
  BY <1>3, <1>4, <1>5 DEF OnceInv

LEMMA OnceStep == IInv /\ OnceInv /\ [Next]_vars => OnceInv'
<1> SUFFICES ASSUME IInv, OnceInv, [Next]_vars
             PROVE  OnceInv'
  OBVIOUS
<1>t. TypeOK /\ ToBeCalled /\ Registered
  BY DEF IInv
<1> USE <1>t, ConstantsAssumption DEF AfterMark
<1>1. ASSUME NEW c \in Calls, Lead(c) \/ Find(c) \/ NotifyFind(c) \/ NotifyNone(c)
                              \/ NotifyErase(c) \/ Abandon(c)
      PROVE  OnceInv'
  <2>1. /\ UNCHANGED <<ready, result, callbacks, todo, got>>
        /\ pc[c] # "waiter" /\ pc'[c] # "waiter"
        /\ pc' = [pc EXCEPT ![c] = pc'[c]]
        /\ pc[c] \in AfterMark => pc'[c] \in AfterMark
    BY <1>1 DEF Lead, Find, NotifyFind, EnterNotify, NotifyNone, NotifyErase, Abandon,
                TypeOK
  <2>2. \A d \in Calls : /\ pc[d] \in AfterMark => pc'[d] \in AfterMark
                         /\ pc'[d] # "waiter" => pc[d] # "waiter"
    BY <2>1 DEF TypeOK
  <2> HIDE DEF AfterMark
  <2> QED
    BY <2>1, <2>2, OnceFrame
<1>2. ASSUME NEW c \in Calls, Join(c)
      PROVE  OnceInv'
  <2> DEFINE f == found[c]
  <2>1. /\ f \in Calls /\ pc[c] = "join"
        /\ pc' = [pc EXCEPT ![c] = "waiter"]
        /\ UNCHANGED <<ready, result, todo>>
        /\ got[c] = <<>>
    BY <1>2 DEF Join, TypeOK, OnceInv
  <2>2. \A d \in Calls : pc[d] \in AfterMark => pc'[d] \in AfterMark
    BY <2>1 DEF TypeOK
  <2>3. ~\E d \in Calls : IsIn(c, callbacks[d]) \/ IsIn(c, todo[d])
    BY <2>1 DEF Registered, ToBeCalled, IsIn
  <2>4. CASE ready[f]
    <3>1. /\ got' = [got EXCEPT ![c] = <<result[f]>>]
          /\ UNCHANGED callbacks
          /\ result[f] \in Calls /\ pc[result[f]] \in AfterMark
      BY <1>2, <2>1, <2>4 DEF Join, TypeOK, OnceInv
    <3>2. Distinct(<<result[f]>>)
      BY DEF Distinct
    <3>3. \A w \in Calls : \A i \in DOMAIN got'[w] :
              pc'[got'[w][i]] \in AfterMark /\ ~IsIn(w, todo[got'[w][i]])
      <4>1. ASSUME NEW w \in Calls, w # c, NEW i \in DOMAIN got'[w]
            PROVE  pc'[got'[w][i]] \in AfterMark /\ ~IsIn(w, todo[got'[w][i]])
        BY <2>2, <3>1, <4>1 DEF OnceInv, TypeOK
      <4>2. ASSUME NEW i \in DOMAIN got'[c]
            PROVE  pc'[got'[c][i]] \in AfterMark /\ ~IsIn(c, todo[got'[c][i]])
        BY <2>2, <2>3, <3>1 DEF TypeOK
      <4> QED
        BY <4>1, <4>2
    <3>4. \A w \in Calls : Distinct(got'[w]) /\ (pc'[w] # "waiter" => got'[w] = <<>>)
      BY <2>1, <3>1, <3>2 DEF OnceInv, TypeOK
    <3>5. \A d \in Calls : ready[d] => pc'[result[d]] \in AfterMark
      BY <2>2 DEF OnceInv, TypeOK
    <3>6. \A d \in Calls : Distinct(callbacks[d]) /\ Distinct(todo[d])
      BY DEF OnceInv
    <3> QED
      BY <2>1, <3>1, <3>3, <3>4, <3>5, <3>6 DEF OnceInv
  <2>5. CASE ~ready[f]
    <3>1. /\ callbacks' = [callbacks EXCEPT ![f] = Append(@, c)]
          /\ UNCHANGED got
      BY <1>2, <2>5 DEF Join
    <3>2. Distinct(Append(callbacks[f], c))
      BY <2>1, <2>3, DistinctAppend DEF OnceInv, TypeOK
    <3>3. \A d \in Calls : Distinct(callbacks'[d])
      BY <2>1, <3>1, <3>2 DEF OnceInv, TypeOK
    <3>4. \A w \in Calls : \A i \in DOMAIN got[w] : got[w][i] \in Calls
      BY DEF TypeOK
    <3> QED
      BY <2>1, <2>2, <3>1, <3>3, <3>4 DEF OnceInv, TypeOK
  <2> QED
    BY <2>4, <2>5
<1>3. ASSUME NEW c \in Calls, NotifyMark(c)
      PROVE  OnceInv'
  <2> DEFINE f == found[c]
  <2>1. /\ f \in Calls /\ pc[c] = "notify"
        /\ pc' = [pc EXCEPT ![c] = "calling"]
        /\ result' = [result EXCEPT ![f] = c]
        /\ ready' = [ready EXCEPT ![f] = TRUE]
        /\ todo' = [todo EXCEPT ![c] = callbacks[f]]
        /\ UNCHANGED <<callbacks, got>>
    BY <1>3 DEF NotifyMark, TypeOK
  <2>2. \A d \in Calls : pc[d] \in AfterMark => d # c /\ pc'[d] \in AfterMark
    BY <2>1 DEF TypeOK
  <2>3. \A d \in Calls : Distinct(callbacks'[d]) /\ Distinct(todo'[d])
    BY <2>1 DEF OnceInv, TypeOK
  <2>4. \A d \in Calls : ready'[d] => pc'[result'[d]] \in AfterMark
    BY <2>1, <2>2 DEF OnceInv, TypeOK
  <2>5. ASSUME NEW w \in Calls, NEW i \in DOMAIN got[w]
        PROVE  pc'[got[w][i]] \in AfterMark /\ ~IsIn(w, todo'[got[w][i]])
    <3>1. got[w][i] \in Calls
      BY DEF TypeOK
    <3>2. pc[got[w][i]] \in AfterMark /\ ~IsIn(w, todo[got[w][i]])
      BY DEF OnceInv
    <3>3. todo'[got[w][i]] = todo[got[w][i]]
      BY <2>1, <2>2, <3>1, <3>2 DEF TypeOK
    <3> QED
      BY <2>2, <3>1, <3>2, <3>3
  <2> QED
    BY <2>1, <2>3, <2>4, <2>5 DEF OnceInv, TypeOK
<1>4. ASSUME NEW c \in Calls, NotifyCallback(c)
      PROVE  OnceInv'
  <2> DEFINE w == Head(todo[c])
  <2>1. /\ pc[c] = "calling" /\ todo[c] # <<>> /\ todo[c] \in Seq(Calls)
        /\ w \in Calls /\ Tail(todo[c]) \in Seq(Calls)
        /\ got' = [got EXCEPT ![w] = Append(@, c)]
        /\ todo' = [todo EXCEPT ![c] = Tail(@)]
        /\ UNCHANGED <<ready, result, callbacks, pc>>
    BY <1>4 DEF NotifyCallback, TypeOK
  <2>2. IsIn(w, todo[c]) /\ pc[w] = "waiter"
    BY <2>1 DEF IsIn, ToBeCalled
  <2>3. Distinct(Tail(todo[c])) /\ ~IsIn(w, Tail(todo[c]))
    BY <2>1, DistinctTail DEF OnceInv
  <2>4. \A d \in Calls : \A v : IsIn(v, todo'[d]) => IsIn(v, todo[d])
    <3>1. \A v : IsIn(v, Tail(todo[c])) => IsIn(v, todo[c])
      BY <2>1, IsInTail DEF IsIn
    <3> QED
      BY <2>1, <3>1 DEF TypeOK
  <2>5. ~IsIn(c, got[w])
    <3>1. ASSUME NEW i \in DOMAIN got[w], got[w][i] = c
          PROVE  FALSE
      BY <2>1, <2>2, <3>1 DEF OnceInv
    <3> QED
      BY <3>1 DEF IsIn
  <2>6. got[w] \in Seq(Calls) /\ Distinct(got[w])
    BY <2>1 DEF OnceInv, TypeOK
  <2>7. Distinct(Append(got[w], c))
    BY <2>1, <2>5, <2>6, DistinctAppend
  <2>8. ASSUME NEW v \in Calls
        PROVE  Distinct(got'[v]) /\ Distinct(todo'[v]) /\ (pc[v] # "waiter" => got'[v] = <<>>)
    BY <2>1, <2>2, <2>3, <2>7 DEF OnceInv, TypeOK
  <2>9. ASSUME NEW v \in Calls, NEW i \in DOMAIN got'[v]
        PROVE  pc[got'[v][i]] \in AfterMark /\ ~IsIn(v, todo'[got'[v][i]])
    <3>1. CASE v # w
      <4>1. i \in DOMAIN got[v] /\ got'[v][i] = got[v][i] /\ got[v][i] \in Calls
        BY <2>1, <2>9, <3>1 DEF TypeOK
      <4> QED
        BY <2>4, <4>1 DEF OnceInv
    <3>2. CASE v = w
      <4>1. \/ i \in DOMAIN got[w] /\ got'[w][i] = got[w][i] /\ got[w][i] \in Calls
            \/ got'[w][i] = c
        <5>1. got'[w] = Append(got[w], c)
          BY <2>1 DEF TypeOK
        <5> QED
          BY <2>6, <2>9, <3>2, <5>1, AppendFacts
      <4>2. CASE i \in DOMAIN got[w] /\ got'[w][i] = got[w][i] /\ got[w][i] \in Calls
        <5>1. pc[got[w][i]] \in AfterMark /\ ~IsIn(w, todo[got[w][i]])
          BY <2>1, <4>2 DEF OnceInv
        <5> QED
          BY <2>4, <3>2, <4>2, <5>1
      <4>3. CASE got'[w][i] = c
        <5>1. todo'[c] = Tail(todo[c])
          BY <2>1 DEF TypeOK
        <5> QED
          BY <2>1, <2>3, <3>2, <4>3, <5>1
      <4> QED
        BY <4>1, <4>2, <4>3
    <3> QED
      BY <3>1, <3>2
  <2> QED
    BY <2>1, <2>8, <2>9 DEF OnceInv
<1>5. CASE Clear \/ UNCHANGED vars
  BY <1>5 DEF Clear, vars, OnceInv, Distinct, IsIn
<1> QED
  BY <1>1, <1>2, <1>3, <1>4, <1>5 DEF Next, Work

\* However the threads interleave, no publication calls the same on_result
\* twice: a second call needs a second leader of the same text.
THEOREM OneCallPerPublisher == Spec => []CalledOncePerPublisher
<1>1. Init => OnceInv
  BY ConstantsAssumption DEF Init, OnceInv, Distinct
<1>2. OnceInv => CalledOncePerPublisher
  BY DEF OnceInv, CalledOncePerPublisher, Distinct
<1> QED
  BY <1>1, <1>2, OnceStep, Inductive, PTL DEF Spec
-----------------------------------------------------------------------------
(* One leader until an answer is published *)

\* Leaders that have not published, and those that have returned.
Before == {"leading", "notify", "abandoned"}

\* Some leader of text k has published, or found nothing to publish.
Answered(k) == \E e \in Calls : key[e] = k /\ pc[e] \in AfterMark

\* Until then the one leader's flight is the one in the map, and open.
OneInv ==
    \A c \in Calls : pc[c] \in Before =>
        Answered(key[c]) \/ (flights_[key[c]] = c /\ ~ready[c])

\* What the program itself runs: all sections but clear.
Sections == \E c \in Calls : Lead(c) \/ Find(c) \/ Work(c) \/ Abandon(c)

\* A text stays answered.
LEMMA AnsweredStays ==
    ASSUME TypeOK, [Next]_vars, NEW k, Answered(k)
    PROVE  Answered(k)'
<1> USE DEF AfterMark
<1>1. PICK e \in Calls : key[e] = k /\ pc[e] \in AfterMark
  BY DEF Answered
<1>2. ASSUME NEW c \in Calls, Lead(c) \/ Find(c) \/ Work(c) \/ Abandon(c)
      PROVE  key' = key /\ pc'[e] \in AfterMark
  <2>1. key' = key /\ (c # e => pc'[e] = pc[e])
    BY <1>2 DEF TypeOK, Lead, Find, Work, Join, NotifyFind, EnterNotify, NotifyNone,
                NotifyMark, NotifyCallback, NotifyErase, Abandon
  <2>2. c = e => pc'[e] \in AfterMark
    BY <1>1, <1>2 DEF TypeOK, Lead, Find, Work, Join, NotifyFind, EnterNotify, NotifyNone,
                NotifyMark, NotifyCallback, NotifyErase, Abandon
  <2> QED
    BY <1>1, <2>1, <2>2
<1>3. CASE Clear \/ UNCHANGED vars
  BY <1>1, <1>3 DEF Clear, vars, Answered
<1> QED
  BY <1>1, <1>2, <1>3 DEF Next, Answered

LEMMA OneStep == IInv /\ OneInv /\ [Sections]_vars => OneInv'
<1> SUFFICES ASSUME IInv, OneInv, [Sections]_vars, NEW d \in Calls, pc'[d] \in Before,
                    \A e \in Calls : key'[e] = key'[d] => pc'[e] \notin AfterMark
             PROVE  flights_'[key'[d]] = d /\ ~ready'[d]
  BY DEF OneInv, Answered
<1>t. TypeOK
  BY DEF IInv
<1>n. [Next]_vars /\ key' = key
  <2>1. [Next]_vars
    BY DEF Sections, Next
  <2>2. ASSUME NEW c \in Calls, Lead(c) \/ Find(c) \/ Abandon(c)
        PROVE  key' = key
    BY <2>2 DEF Lead, Find, Abandon
  <2>3. ASSUME NEW c \in Calls, Work(c)
        PROVE  key' = key
    BY <2>3 DEF Work, Join, NotifyFind, EnterNotify, NotifyNone, NotifyMark,
                NotifyCallback, NotifyErase
  <2> QED
    BY <2>1, <2>2, <2>3 DEF Sections, vars
<1>u. /\ ~Answered(key[d])
      /\ \A e \in Calls : key[e] = key[d] => pc'[e] \notin AfterMark
  <2> DEFINE k == key[d]
  <2>1. ~Answered(k)'
    BY <1>n DEF Answered
  <2>2. ~Answered(k)
    BY <2>1, <1>n, <1>t, AnsweredStays
  <2> QED
    BY <2>2, <1>n
<1>o. \A c \in Calls : pc[c] \in Before /\ key[c] = key[d] =>
          flights_[key[d]] = c /\ ~ready[c]
  BY <1>u DEF OneInv
<1> USE <1>t, ConstantsAssumption DEF Before, AfterMark
<1>1. ASSUME NEW c \in Calls, Lead(c)
      PROVE  flights_'[key'[d]] = d /\ ~ready'[d]
  <2>1. CASE c = d
    <3>1. ~ready[d]
      BY <1>1, <2>1 DEF IInv, Published, Lead, LeaderPc
    <3> QED
      BY <1>1, <2>1, <3>1 DEF Lead, TypeOK
  <2>2. CASE c # d
    <3>1. pc[d] \in Before /\ ready' = ready
      BY <1>1, <2>2 DEF Lead, TypeOK
    <3>2. key[c] # key[d]
      BY <1>1, <1>o, <3>1 DEF Lead, Joinable, TypeOK
    <3> QED
      BY <1>1, <1>n, <1>o, <3>1, <3>2 DEF Lead, TypeOK
  <2> QED
    BY <2>1, <2>2
<1>2. ASSUME NEW c \in Calls, Find(c) \/ Abandon(c) \/ NotifyFind(c) \/ NotifyNone(c)
      PROVE  flights_'[key'[d]] = d /\ ~ready'[d]
  <2>1. UNCHANGED <<flights_, ready>>
    BY <1>2 DEF Find, Abandon, NotifyFind, EnterNotify, NotifyNone
  <2>2. pc[d] \in Before
    BY <1>2 DEF Find, Abandon, NotifyFind, EnterNotify, NotifyNone, TypeOK
  <2> QED
    BY <1>n, <1>o, <2>1, <2>2
<1>3. ASSUME NEW c \in Calls, Join(c) \/ NotifyCallback(c)
      PROVE  flights_'[key'[d]] = d /\ ~ready'[d]
  <2>1. UNCHANGED <<flights_, ready>>
    BY <1>3 DEF Join, NotifyCallback
  <2>2. pc[d] \in Before
    BY <1>3 DEF Join, NotifyCallback, TypeOK
  <2> QED
    BY <1>n, <1>o, <2>1, <2>2
<1>4. ASSUME NEW c \in Calls, NotifyMark(c)
      PROVE  flights_'[key'[d]] = d /\ ~ready'[d]
  <2>1. /\ pc[c] = "notify" /\ pc'[c] = "calling"
        /\ ready' = [ready EXCEPT ![found[c]] = TRUE]
        /\ flights_' = flights_
        /\ found[c] \in Calls /\ key[found[c]] = key[c]
    BY <1>4 DEF NotifyMark, TypeOK, IInv, FoundKey, Holding
  <2>2. c # d /\ key[c] # key[d]
    BY <1>u, <2>1
  <2>3. pc[d] \in Before /\ ready'[d] = ready[d]
    BY <1>4, <2>1, <2>2 DEF NotifyMark, TypeOK
  <2> QED
    BY <1>n, <1>o, <2>1, <2>3
<1>5. ASSUME NEW c \in Calls, NotifyErase(c)
      PROVE  flights_'[key'[d]] = d /\ ~ready'[d]
  <2>1. /\ pc'[c] = "done"
        /\ flights_' = [flights_ EXCEPT ![key[c]] = NoFlight]
        /\ ready' = ready
    BY <1>5 DEF NotifyErase, TypeOK
  <2>2. c # d /\ key[c] # key[d]
    BY <1>u, <2>1
  <2>3. pc[d] \in Before
    BY <1>5, <2>2 DEF NotifyErase, TypeOK
  <2> QED
    BY <1>n, <1>o, <2>1, <2>2, <2>3 DEF TypeOK
<1>6. CASE UNCHANGED vars
  BY <1>6, <1>n, <1>o DEF vars
<1> QED
  BY <1>1, <1>2, <1>3, <1>4, <1>5, <1>6 DEF Sections, Work

LEMMA OneInit == Init => OneInv
  BY DEF Init, OneInv, Before

LEMMA OneMeans == TypeOK /\ OneInv => OneLeaderUntilPublished
  BY DEF OneInv, OneLeaderUntilPublished, Before, Answered, AfterMark

\* Where nobody calls clear, no second leader takes a text to the database
\* before the first one has published an answer.
THEOREM OneLeaderUntilAnAnswer ==
    ASSUME AllowClear = FALSE
    PROVE  Spec => []OneLeaderUntilPublished
<1>1. [Next]_vars => [Sections]_vars
  BY DEF Next, Sections, Clear
<1>2. IInv => TypeOK
  BY DEF IInv
<1> QED
  BY <1>1, <1>2, OneInit, OneStep, OneMeans, Inductive, PTL DEF Spec
=============================================================================
