-------------------------------- MODULE LRU --------------------------------
(***************************************************************************)
(* What the L1 cache promises, without lists, iterators or locks: a store  *)
(* of at most `capacity' answers, in which a hit returns what was put last *)
(* under its key, and a put into a full store gives up exactly the key     *)
(* that was used least recently.                                           *)
(***************************************************************************)
EXTENDS Naturals, Sequences

CONSTANTS Threads, Keys, Values, NoValue

VARIABLES
    store,     \* the answer held under each key, or NoValue
    recency,   \* the keys held, the least recently used first
    answer,    \* what the last get of each thread returned
    capacity

vars == <<store, recency, answer, capacity>>

Init ==
    /\ store = [k \in Keys |-> NoValue]
    /\ recency = <<>>
    /\ answer = [t \in Threads |-> NoValue]
    /\ capacity \in Nat

\* The size is configured before anything is stored.
Resize ==
    /\ recency = <<>>
    /\ capacity' \in Nat
    /\ UNCHANGED <<store, recency, answer>>

\* s without the place of k, which occurs in it once.
Without(s, k) ==
    LET p == CHOOSE i \in DOMAIN s : s[i] = k IN
    [i \in 1 .. Len(s) - 1 |-> IF i < p THEN s[i] ELSE s[i + 1]]

Get(t, k) ==
    /\ answer' = [answer EXCEPT ![t] = store[k]]
    /\ recency' = IF store[k] = NoValue THEN recency
                                        ELSE Append(Without(recency, k), k)
    /\ UNCHANGED <<store, capacity>>

Refresh(k, v) ==
    /\ store[k] # NoValue
    /\ store' = [store EXCEPT ![k] = v]
    /\ recency' = Append(Without(recency, k), k)
    /\ UNCHANGED <<answer, capacity>>

Insert(k, v) ==
    /\ store[k] = NoValue
    /\ Len(recency) < capacity
    /\ store' = [store EXCEPT ![k] = v]
    /\ recency' = Append(recency, k)
    /\ UNCHANGED <<answer, capacity>>

Replace(k, v) ==
    /\ store[k] = NoValue
    /\ recency # <<>> /\ Len(recency) = capacity
    /\ store' = [store EXCEPT ![Head(recency)] = NoValue, ![k] = v]
    /\ recency' = Append(Tail(recency), k)
    /\ UNCHANGED <<answer, capacity>>

Clear ==
    /\ store' = [k \in Keys |-> NoValue]
    /\ recency' = <<>>
    /\ UNCHANGED <<answer, capacity>>

Next ==
    \/ Resize
    \/ \E t \in Threads, k \in Keys : Get(t, k)
    \/ \E k \in Keys, v \in Values : Refresh(k, v) \/ Insert(k, v) \/ Replace(k, v)
    \/ Clear

Spec == Init /\ [][Next]_vars
=============================================================================
