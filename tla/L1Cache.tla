------------------------------ MODULE L1Cache ------------------------------
(***************************************************************************)
(* The in-memory level of QueryCache: l1_list_, a doubly linked list of    *)
(* nodes from the least to the most recently used, and l1_map_, which maps *)
(* a key to an iterator (here: the node it points to) into that list.      *)
(* main sets the size and the switch before it starts the worker threads;  *)
(* the threads then call getL1 and putL1, each section under l1_mutex_     *)
(* being one action.  Keys are MD5 hashes of queries, values responses.    *)
(***************************************************************************)
EXTENDS Naturals, Sequences

CONSTANTS
    Threads, Keys, Values,
    Nodes,        \* list nodes the allocator can hand out
    NoNode,       \* l1_map_.end()
    NoKey,        \* no key
    NoValue,      \* std::nullopt
    Sizes,        \* values of cache.l1.max_size
    DefaultSize,  \* the initializer of l1_max_size_
    AllowClear    \* may QueryCache::clear run? (nothing in src calls it)

ASSUME L1Assumption ==
    /\ NoNode \notin Nodes
    /\ NoKey \notin Keys
    /\ NoValue \notin Values
    /\ Sizes \subseteq Nat
    /\ DefaultSize \in Nat
    /\ AllowClear \in BOOLEAN

VARIABLES
    l1_list_,      \* sequence of nodes, oldest first
    l1_map_,       \* node of each key, or NoNode
    nodeKey,       \* LRUNode::key of the nodes
    nodeValue,     \* LRUNode::value of the nodes
    l1_max_size_,
    l1_enabled_,
    main,          \* how far main has come: "size", "switch", "serving"
    arg,           \* key of a thread between the two sections of getL1
    answer,        \* what the last getL1 of each thread returned
    crashed        \* undefined behaviour has ended the process

vars == <<l1_list_, l1_map_, nodeKey, nodeValue, l1_max_size_, l1_enabled_,
          main, arg, answer, crashed>>

lists == <<l1_list_, l1_map_, nodeKey, nodeValue>>

\* Every variable has its type: sizes do not wrap below zero, the list and
\* the map hold nodes.
TypeOK ==
    /\ l1_list_ \in Seq(Nodes)
    /\ l1_map_ \in [Keys -> Nodes \cup {NoNode}]
    /\ nodeKey \in [Nodes -> Keys \cup {NoKey}]
    /\ nodeValue \in [Nodes -> Values \cup {NoValue}]
    /\ l1_max_size_ \in Nat
    /\ l1_enabled_ \in BOOLEAN
    /\ main \in {"size", "switch", "serving"}
    /\ arg \in [Threads -> Keys \cup {NoKey}]
    /\ answer \in [Threads -> Values \cup {NoValue}]
    /\ crashed \in BOOLEAN

Init ==
    /\ l1_list_ = <<>>
    /\ l1_map_ = [k \in Keys |-> NoNode]
    /\ nodeKey = [n \in Nodes |-> NoKey]
    /\ nodeValue = [n \in Nodes |-> NoValue]
    /\ l1_max_size_ = DefaultSize
    /\ l1_enabled_ = TRUE
    /\ main = "size"
    /\ arg = [t \in Threads |-> NoKey]
    /\ answer = [t \in Threads |-> NoValue]
    /\ crashed = FALSE

-----------------------------------------------------------------------------
(* Configuration, in the order of main *)

Configure(n) ==
    /\ main = "size" /\ main' = "switch"
    /\ l1_max_size_' = n
    /\ UNCHANGED <<lists, l1_enabled_, arg, answer, crashed>>

\* (mutant) keeps one slot in reserve
SetL1MaxSizeReserve(n) == Configure(n - 1)

SetL1MaxSize(n) == Configure(n)

\* l1_list_.clear() and l1_map_.clear().
EmptyLists ==
    /\ l1_list_' = <<>>
    /\ l1_map_' = [k \in Keys |-> NoNode]
    /\ nodeKey' = [n \in Nodes |-> NoKey]
    /\ nodeValue' = [n \in Nodes |-> NoValue]

SetL1Enabled(b) ==
    /\ main = "switch"
    /\ l1_enabled_' = b
    /\ IF b THEN UNCHANGED lists ELSE EmptyLists
    /\ main' = "serving"
    /\ UNCHANGED <<l1_max_size_, arg, answer, crashed>>

-----------------------------------------------------------------------------
(* getL1 *)

\* A worker thread that is not inside getL1 may call the cache.
Idle(t) == main = "serving" /\ ~crashed /\ arg[t] = NoKey

\* std::list::splice of position i to the end of the same list: nodes keep
\* their identity, so the iterators in l1_map_ stay valid.
MoveToEnd(s, i) ==
    [j \in 1 .. Len(s) |-> IF j < i THEN s[j]
                           ELSE IF j < Len(s) THEN s[j + 1] ELSE s[i]]

\* Switch off, or key absent under the shared lock: nullopt.
GetL1Absent(t, k) ==
    /\ Idle(t)
    /\ ~l1_enabled_ \/ l1_map_[k] = NoNode
    /\ answer' = [answer EXCEPT ![t] = NoValue]
    /\ UNCHANGED <<lists, l1_max_size_, l1_enabled_, main, arg, crashed>>

\* Key present under the shared lock, which is then given up.
GetL1Present(t, k) ==
    /\ Idle(t)
    /\ l1_enabled_
    /\ l1_map_[k] # NoNode
    /\ arg' = [arg EXCEPT ![t] = k]
    /\ UNCHANGED <<lists, l1_max_size_, l1_enabled_, main, answer, crashed>>

\* (mutant) a hit does not count as a use
GetL1TakeNoSplice(t) ==
    /\ arg[t] # NoKey /\ ~crashed
    /\ LET n == l1_map_[arg[t]] IN
       answer' = [answer EXCEPT ![t] = IF n = NoNode THEN NoValue ELSE nodeValue[n]]
    /\ arg' = [arg EXCEPT ![t] = NoKey]
    /\ UNCHANGED <<lists, l1_max_size_, l1_enabled_, main, crashed>>

\* Under the unique lock: look again, since the key may have been evicted
\* between the two locks; a hit becomes the most recently used.
GetL1Take(t) ==
    LET n == l1_map_[arg[t]] IN
    /\ arg[t] # NoKey /\ ~crashed
    /\ \/ /\ n = NoNode
          /\ answer' = [answer EXCEPT ![t] = NoValue]
          /\ UNCHANGED l1_list_
       \/ /\ n # NoNode
          /\ answer' = [answer EXCEPT ![t] = nodeValue[n]]
          /\ \E i \in DOMAIN l1_list_ :
                 l1_list_[i] = n /\ l1_list_' = MoveToEnd(l1_list_, i)
    /\ arg' = [arg EXCEPT ![t] = NoKey]
    /\ UNCHANGED <<l1_map_, nodeKey, nodeValue,
                   l1_max_size_, l1_enabled_, main, crashed>>

-----------------------------------------------------------------------------
(* putL1, all of it under the unique lock.  With the switch off it returns. *)

CanPut(t) == Idle(t) /\ l1_enabled_

\* The key is cached: new value, most recently used.
PutL1Update(t, k, v) ==
    /\ CanPut(t)
    /\ l1_map_[k] # NoNode
    /\ nodeValue' = [nodeValue EXCEPT ![l1_map_[k]] = v]
    /\ \E i \in DOMAIN l1_list_ : /\ l1_list_[i] = l1_map_[k]
                                  /\ l1_list_' = MoveToEnd(l1_list_, i)
    /\ UNCHANGED <<l1_map_, nodeKey, l1_max_size_, l1_enabled_, main, arg,
                   answer, crashed>>

\* (mutant) lets the list grow one past the limit
FullOneMore == Len(l1_list_) > l1_max_size_

\* (mutant) evicts one too early
FullOneLess == Len(l1_list_) + 1 >= l1_max_size_

Full == Len(l1_list_) >= l1_max_size_

\* push_back to what is left of the list, and the new map entry: the node is
\* one that is not linked, such as a node that was just popped.
PushBack(k, v, rest, map) ==
    LET linked == {rest[i] : i \in DOMAIN rest} IN
    \E n \in Nodes \ linked :
        /\ l1_list_' = Append(rest, n)
        /\ l1_map_' = [map EXCEPT ![k] = n]
        /\ nodeKey' = [m \in Nodes |-> IF m = n THEN k
                                       ELSE IF m \in linked THEN nodeKey[m] ELSE NoKey]
        /\ nodeValue' = [m \in Nodes |-> IF m = n THEN v
                                         ELSE IF m \in linked THEN nodeValue[m] ELSE NoValue]

PutL1Insert(t, k, v) ==
    /\ CanPut(t)
    /\ l1_map_[k] = NoNode
    /\ ~Full
    /\ PushBack(k, v, l1_list_, l1_map_)
    /\ UNCHANGED <<l1_max_size_, l1_enabled_, main, arg, answer, crashed>>

\* The list is full: `map' is what is left of l1_map_, the oldest node is
\* popped, and the new entry is added.
Evict(t, k, v, map) ==
    /\ CanPut(t)
    /\ l1_map_[k] = NoNode
    /\ Full /\ l1_list_ # <<>>
    /\ PushBack(k, v, Tail(l1_list_), map)
    /\ UNCHANGED <<l1_max_size_, l1_enabled_, main, arg, answer, crashed>>

\* (mutant) the evicted key keeps its iterator
PutL1EvictDangling(t, k, v) == Evict(t, k, v, l1_map_)

\* The oldest node's key leaves the map.
PutL1Evict(t, k, v) ==
    Evict(t, k, v, [l1_map_ EXCEPT ![nodeKey[Head(l1_list_)]] = NoNode])

\* The list is "full" and empty: begin() is end(), whose key is read and
\* which pop_front unlinks.  The build dereferences the list's own header as
\* a node and dies.
PutL1EvictFromEmpty(t, k) ==
    /\ CanPut(t)
    /\ l1_map_[k] = NoNode
    /\ Full /\ l1_list_ = <<>>
    /\ crashed' = TRUE
    /\ UNCHANGED <<lists, l1_max_size_, l1_enabled_, main, arg, answer>>

-----------------------------------------------------------------------------

\* The first section of QueryCache::clear.
Clear ==
    /\ AllowClear
    /\ main = "serving" /\ ~crashed
    /\ EmptyLists
    /\ UNCHANGED <<l1_max_size_, l1_enabled_, main, arg, answer, crashed>>

Next ==
    \/ \E n \in Sizes : SetL1MaxSize(n)
    \/ \E b \in BOOLEAN : SetL1Enabled(b)
    \/ \E t \in Threads, k \in Keys :
           GetL1Absent(t, k) \/ GetL1Present(t, k) \/ PutL1EvictFromEmpty(t, k)
    \/ \E t \in Threads : GetL1Take(t)
    \/ \E t \in Threads, k \in Keys, v \in Values :
           PutL1Update(t, k, v) \/ PutL1Insert(t, k, v) \/ PutL1Evict(t, k, v)
    \/ Clear

Spec == Init /\ [][Next]_vars

-----------------------------------------------------------------------------
(* Properties *)

\* The list and the map describe the same entries through every splice,
\* eviction and reuse of a node: no node is linked twice, every iterator in
\* l1_map_ points to a linked node with that key, and every linked node is
\* reachable through the map.  A dangling iterator would break it.
Coherent ==
    /\ \A i, j \in DOMAIN l1_list_ : l1_list_[i] = l1_list_[j] => i = j
    /\ \A k \in Keys : l1_map_[k] # NoNode =>
           /\ nodeKey[l1_map_[k]] = k
           /\ \E i \in DOMAIN l1_list_ : l1_list_[i] = l1_map_[k]
    /\ \A i \in DOMAIN l1_list_ :
           /\ nodeKey[l1_list_[i]] \in Keys
           /\ l1_map_[nodeKey[l1_list_[i]]] = l1_list_[i]

\* README: "cache.l1.max_size: Maximum L1 cache size (LRU)".  putL1 evicts one
\* entry per insertion, which is enough only because the size is never
\* lowered below what is already cached.
WithinMaxSize == Len(l1_list_) <= l1_max_size_

\* Evicting from an empty list, the undefined behaviour in putL1, can happen
\* only when the cache was configured with max_size 0 and left enabled.
CrashOnlyAtSizeZero == crashed => l1_max_size_ = 0 /\ l1_enabled_

\* putL1's test size() >= max, at both of its limits: the list never exceeds
\* the maximum, and is empty where an entry is to be evicted only at size 0.
SizeIsRespected == WithinMaxSize /\ CrashOnlyAtSizeZero

\* The value cached under each key, or NoValue.
Store == [k \in Keys |-> IF l1_map_[k] = NoNode THEN NoValue
                         ELSE nodeValue[l1_map_[k]]]

\* The cached keys, the least recently used first.
Recency == [i \in DOMAIN l1_list_ |-> nodeKey[l1_list_[i]]]

\* The entries seen as a store and a recency order implement the abstract
\* LRU cache: a get racing with evictions, updates and other gets returns the
\* latest value or a miss, never a freed or another key's value, and the
\* victim of an eviction is always the least recently used key.
Abstract == INSTANCE LRU WITH
    store <- Store, recency <- Recency, capacity <- l1_max_size_

ImplementsLRU == Abstract!Spec
=============================================================================
