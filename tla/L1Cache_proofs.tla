--------------------------- MODULE L1Cache_proofs ---------------------------
(***************************************************************************)
(* Proofs about L1Cache, for any numbers of threads, keys, values, nodes   *)
(* and for any sizes: the list and the map stay coherent, the list stays   *)
(* within its size, and the cache implements the abstract LRU cache.       *)
(***************************************************************************)
EXTENDS L1Cache, SequenceTheorems, TLAPS

-----------------------------------------------------------------------------
(* The inductive invariant *)

\* The nodes of list and the iterators of map describe the same entries, and
\* each node holds a value.
Chain(list, map) ==
    /\ \A i, j \in DOMAIN list : list[i] = list[j] => i = j
    /\ \A k \in Keys : map[k] # NoNode =>
           /\ nodeKey[map[k]] = k
           /\ \E i \in DOMAIN list : list[i] = map[k]
    /\ \A i \in DOMAIN list :
           /\ nodeKey[list[i]] \in Keys
           /\ map[nodeKey[list[i]]] = list[i]
           /\ nodeValue[list[i]] \in Values

\* Nothing is cached before main has configured the cache, or with the switch
\* off, and nothing has crashed before.
NothingEarly ==
    /\ main # "serving" => l1_list_ = <<>> /\ ~crashed
    /\ ~l1_enabled_ => l1_list_ = <<>>

IInv ==
    /\ TypeOK
    /\ Chain(l1_list_, l1_map_)
    /\ NothingEarly
    /\ WithinMaxSize
    /\ CrashOnlyAtSizeZero

-----------------------------------------------------------------------------
(* What the operations do to the list *)

\* The list is empty exactly when the map is.
LEMMA EmptyChain ==
    ASSUME NEW map \in [Keys -> Nodes \cup {NoNode}], Chain(<<>>, map)
    PROVE  \A k \in Keys : map[k] = NoNode
  BY DEF Chain

\* Every position of a list is the position some node of it moves to.
LEMMA MoveToEndType ==
    ASSUME NEW s \in Seq(Nodes), NEW i \in DOMAIN s
    PROVE  /\ MoveToEnd(s, i) \in Seq(Nodes)
           /\ Len(MoveToEnd(s, i)) = Len(s)
           /\ DOMAIN MoveToEnd(s, i) = DOMAIN s
           /\ \A j \in DOMAIN s :
                  MoveToEnd(s, i)[j] = IF j < i THEN s[j]
                                       ELSE IF j < Len(s) THEN s[j + 1] ELSE s[i]
<1>1. /\ Len(s) \in Nat /\ DOMAIN s = 1 .. Len(s) /\ i \in 1 .. Len(s)
      /\ \A j \in 1 .. Len(s) : s[j] \in Nodes
  OBVIOUS
<1>2. \A j \in 1 .. Len(s) : (IF j < i THEN s[j] ELSE IF j < Len(s) THEN s[j + 1] ELSE s[i])
                                \in Nodes
  BY <1>1
<1>3. MoveToEnd(s, i) \in [1 .. Len(s) -> Nodes]
  BY <1>1, <1>2 DEF MoveToEnd
<1>4. MoveToEnd(s, i) \in Seq(Nodes) /\ DOMAIN MoveToEnd(s, i) = 1 .. Len(s)
  BY <1>1, <1>3
<1>5. Len(MoveToEnd(s, i)) = Len(s)
  BY <1>1, <1>4
<1> QED
  BY <1>1, <1>4, <1>5 DEF MoveToEnd

\* The node at j after the splice was at Origin(s, i, j) before it.
Origin(s, i, j) == IF j < i THEN j ELSE IF j < Len(s) THEN j + 1 ELSE i

\* Splicing permutes the list: it neither loses nor doubles a node.
LEMMA MoveToEndPermutes ==
    ASSUME NEW s \in Seq(Nodes), NEW i \in DOMAIN s
    PROVE  /\ \A j \in DOMAIN s : /\ Origin(s, i, j) \in DOMAIN s
                                  /\ MoveToEnd(s, i)[j] = s[Origin(s, i, j)]
           /\ \A j, k \in DOMAIN s : Origin(s, i, j) = Origin(s, i, k) => j = k
           /\ \A j \in DOMAIN s : \E k \in DOMAIN s : Origin(s, i, k) = j
<1>1. Len(s) \in Nat /\ DOMAIN s = 1 .. Len(s) /\ i \in 1 .. Len(s)
  OBVIOUS
<1>2. \A j \in DOMAIN s : /\ Origin(s, i, j) \in DOMAIN s
                          /\ MoveToEnd(s, i)[j] = s[Origin(s, i, j)]
  <2> TAKE j \in DOMAIN s
  <2>1. Origin(s, i, j) \in DOMAIN s
    BY <1>1 DEF Origin
  <2>2. MoveToEnd(s, i)[j] = IF j < i THEN s[j]
                             ELSE IF j < Len(s) THEN s[j + 1] ELSE s[i]
    BY MoveToEndType
  <2>3. MoveToEnd(s, i)[j] = s[Origin(s, i, j)]
    BY <2>2, Zenon DEF Origin
  <2> QED
    BY <2>1, <2>3
<1>3. \A j, k \in DOMAIN s : Origin(s, i, j) = Origin(s, i, k) => j = k
  BY <1>1 DEF Origin
<1>4. ASSUME NEW j \in DOMAIN s
      PROVE  \E k \in DOMAIN s : Origin(s, i, k) = j
  <2>1. CASE j < i
    BY <1>1, <2>1 DEF Origin
  <2>2. CASE j = i
    <3>1. Len(s) \in DOMAIN s /\ Origin(s, i, Len(s)) = j
      BY <1>1, <2>2 DEF Origin
    <3> QED
      BY <3>1
  <2>3. CASE j > i
    <3>1. j - 1 \in DOMAIN s /\ Origin(s, i, j - 1) = j
      BY <1>1, <2>3 DEF Origin
    <3> QED
      BY <3>1
  <2> QED
    BY <1>1, <2>1, <2>2, <2>3
<1> QED
  BY <1>2, <1>3, <1>4

\* So the list and the map stay coherent.
LEMMA MoveToEndChain ==
    ASSUME NEW s \in Seq(Nodes), NEW i \in DOMAIN s,
           NEW map \in [Keys -> Nodes \cup {NoNode}], Chain(s, map)
    PROVE  Chain(MoveToEnd(s, i), map)
<1> DEFINE t == MoveToEnd(s, i)
           o(j) == Origin(s, i, j)
<1>1. /\ DOMAIN t = DOMAIN s
      /\ \A j \in DOMAIN s : o(j) \in DOMAIN s /\ t[j] = s[o(j)]
      /\ \A j, k \in DOMAIN s : o(j) = o(k) => j = k
      /\ \A j \in DOMAIN s : \E k \in DOMAIN s : o(k) = j
  BY MoveToEndType, MoveToEndPermutes
<1> HIDE DEF t, o
<1>2. \A j, k \in DOMAIN t : t[j] = t[k] => j = k
  BY <1>1 DEF Chain
<1>3. \A k \in Keys : map[k] # NoNode =>
           /\ nodeKey[map[k]] = k
           /\ \E j \in DOMAIN t : t[j] = map[k]
  BY <1>1 DEF Chain
<1>4. ASSUME NEW j \in DOMAIN t
      PROVE  /\ nodeKey[t[j]] \in Keys
             /\ map[nodeKey[t[j]]] = t[j]
             /\ nodeValue[t[j]] \in Values
  <2>1. o(j) \in DOMAIN s /\ t[j] = s[o(j)]
    BY <1>1
  <2> QED
    BY <2>1 DEF Chain
<1>5. Chain(t, map)
  BY <1>2, <1>3, <1>4 DEF Chain
<1> QED
  BY <1>5 DEF t

\* Popping the oldest node and its key leaves a coherent rest.
LEMMA PopChain ==
    ASSUME NEW s \in Seq(Nodes), s # <<>>,
           NEW map \in [Keys -> Nodes \cup {NoNode}], Chain(s, map),
           NEW rest, rest = [map EXCEPT ![nodeKey[Head(s)]] = NoNode],
           NoNode \notin Nodes
    PROVE  /\ Tail(s) \in Seq(Nodes) /\ Len(Tail(s)) = Len(s) - 1
           /\ rest \in [Keys -> Nodes \cup {NoNode}]
           /\ Chain(Tail(s), rest)
           /\ \A k \in Keys : map[k] = NoNode => rest[k] = NoNode
<1>1. /\ Tail(s) \in Seq(Nodes) /\ Len(Tail(s)) = Len(s) - 1
      /\ Head(s) = s[1] /\ 1 \in DOMAIN s
      /\ DOMAIN Tail(s) = 1 .. Len(s) - 1
      /\ DOMAIN s = 1 .. Len(s) /\ Len(s) \in Nat
      /\ Head(s) \in Nodes
  OBVIOUS
<1>2. \A i \in DOMAIN Tail(s) : i + 1 \in DOMAIN s /\ i + 1 # 1 /\ Tail(s)[i] = s[i + 1]
  BY <1>1
<1> DEFINE old == nodeKey[Head(s)]
<1>3. old \in Keys /\ map[old] = Head(s)
  BY <1>1 DEF Chain
<1>4. /\ rest \in [Keys -> Nodes \cup {NoNode}] /\ rest[old] = NoNode
      /\ \A k \in Keys : k # old => rest[k] = map[k]
  BY <1>3
<1>5. \A i \in DOMAIN Tail(s) : /\ nodeKey[Tail(s)[i]] \in Keys
                                /\ map[nodeKey[Tail(s)[i]]] = Tail(s)[i]
                                /\ nodeValue[Tail(s)[i]] \in Values
                                /\ Tail(s)[i] # Head(s)
  BY <1>1, <1>2 DEF Chain
<1>6. \A i \in DOMAIN Tail(s) : rest[nodeKey[Tail(s)[i]]] = Tail(s)[i]
  BY <1>3, <1>4, <1>5
<1>7. \A i, j \in DOMAIN Tail(s) : Tail(s)[i] = Tail(s)[j] => i = j
  <2>1. ASSUME NEW i \in DOMAIN Tail(s), NEW j \in DOMAIN Tail(s), Tail(s)[i] = Tail(s)[j]
        PROVE  i = j
    <3>1. i + 1 = j + 1
      BY <1>2, <2>1 DEF Chain
    <3> QED
      BY <1>1, <3>1
  <2> QED
    BY <2>1
<1>8. ASSUME NEW k \in Keys, rest[k] # NoNode
      PROVE  nodeKey[rest[k]] = k /\ \E i \in DOMAIN Tail(s) : Tail(s)[i] = rest[k]
  <2>1. k # old /\ rest[k] = map[k] /\ nodeKey[map[k]] = k
    BY <1>4, <1>8 DEF Chain
  <2>2. PICK j \in DOMAIN s : s[j] = map[k]
    BY <1>8, <2>1 DEF Chain
  <2>3. j # 1
    BY <1>1, <2>1, <2>2
  <2>4. j - 1 \in DOMAIN Tail(s) /\ Tail(s)[j - 1] = s[j]
    BY <1>1, <2>3
  <2> QED
    BY <2>1, <2>2, <2>4
<1>9. Chain(Tail(s), rest)
  BY <1>5, <1>6, <1>7, <1>8 DEF Chain
<1> QED
  BY <1>1, <1>4, <1>9
\* What a map and a list stand for in the abstract cache.
StoreOf(map) == [k \in Keys |-> IF map[k] = NoNode THEN NoValue ELSE nodeValue[map[k]]]
RecencyOf(list) == [i \in DOMAIN list |-> nodeKey[list[i]]]

\* Pushing a free node back makes its key the last of a longer list and
\* touches no other entry.
LEMMA PushBackChain ==
    ASSUME TypeOK, NoNode \notin Nodes,
           NEW k \in Keys, NEW v \in Values, NEW rest \in Seq(Nodes),
           NEW map \in [Keys -> Nodes \cup {NoNode}], Chain(rest, map), map[k] = NoNode,
           PushBack(k, v, rest, map)
    PROVE  /\ l1_list_' \in Seq(Nodes) /\ Len(l1_list_') = Len(rest) + 1
           /\ l1_map_' \in [Keys -> Nodes \cup {NoNode}]
           /\ nodeKey' \in [Nodes -> Keys \cup {NoKey}]
           /\ nodeValue' \in [Nodes -> Values \cup {NoValue}]
           /\ Chain(l1_list_, l1_map_)'
           /\ Store' = [StoreOf(map) EXCEPT ![k] = v]
           /\ Recency' = Append(RecencyOf(rest), k)
<1> DEFINE linked == {rest[i] : i \in DOMAIN rest}
<1>1. PICK n \in Nodes \ linked :
          /\ l1_list_' = Append(rest, n)
          /\ l1_map_' = [map EXCEPT ![k] = n]
          /\ nodeKey' = [m \in Nodes |-> IF m = n THEN k
                                         ELSE IF m \in linked THEN nodeKey[m] ELSE NoKey]
          /\ nodeValue' = [m \in Nodes |-> IF m = n THEN v
                                           ELSE IF m \in linked THEN nodeValue[m] ELSE NoValue]
  BY DEF PushBack
<1>2. /\ n \in Nodes
      /\ \A i \in DOMAIN rest : rest[i] \in Nodes /\ rest[i] \in linked /\ rest[i] # n
  BY <1>1
<1>3. nodeKey'[n] = k /\ nodeValue'[n] = v
  BY <1>1, <1>2
<1>4. \A i \in DOMAIN rest : /\ nodeKey'[rest[i]] = nodeKey[rest[i]]
                             /\ nodeValue'[rest[i]] = nodeValue[rest[i]]
  BY <1>1, <1>2
<1>5. /\ nodeKey' \in [Nodes -> Keys \cup {NoKey}]
      /\ nodeValue' \in [Nodes -> Values \cup {NoValue}]
  BY <1>1 DEF TypeOK
<1>6. /\ l1_map_' \in [Keys -> Nodes \cup {NoNode}] /\ l1_map_'[k] = n
      /\ \A x \in Keys : x # k => l1_map_'[x] = map[x]
  BY <1>1
<1> HIDE DEF linked
<1>7. /\ l1_list_' \in Seq(Nodes) /\ Len(l1_list_') = Len(rest) + 1
      /\ Len(rest) \in Nat /\ DOMAIN rest = 1 .. Len(rest)
      /\ DOMAIN l1_list_' = 1 .. Len(rest) + 1
      /\ l1_list_'[Len(rest) + 1] = n
      /\ \A i \in DOMAIN rest : l1_list_'[i] = rest[i] /\ i \in DOMAIN l1_list_'
  BY <1>1, <1>2
<1>8. \A i \in DOMAIN l1_list_' : i = Len(rest) + 1 \/ i \in DOMAIN rest
  BY <1>7
<1>9. Chain(l1_list_, l1_map_)'
  <2>1. \A i, j \in DOMAIN l1_list_' : l1_list_'[i] = l1_list_'[j] => i = j
    BY <1>2, <1>7, <1>8 DEF Chain
  <2>2. ASSUME NEW x \in Keys, l1_map_'[x] # NoNode
        PROVE  /\ nodeKey'[l1_map_'[x]] = x
               /\ \E i \in DOMAIN l1_list_' : l1_list_'[i] = l1_map_'[x]
    <3>1. CASE x = k
      <4>1. Len(rest) + 1 \in DOMAIN l1_list_'
        BY <1>7
      <4> QED
        BY <1>3, <1>6, <1>7, <3>1, <4>1
    <3>2. CASE x # k
      <4>1. map[x] # NoNode /\ l1_map_'[x] = map[x]
        BY <1>6, <2>2, <3>2
      <4>2. nodeKey[map[x]] = x /\ \E i \in DOMAIN rest : rest[i] = map[x]
        BY <4>1 DEF Chain
      <4> QED
        BY <1>4, <1>7, <4>1, <4>2
    <3> QED
      BY <3>1, <3>2
  <2>3. ASSUME NEW i \in DOMAIN l1_list_'
        PROVE  /\ nodeKey'[l1_list_'[i]] \in Keys
               /\ l1_map_'[nodeKey'[l1_list_'[i]]] = l1_list_'[i]
               /\ nodeValue'[l1_list_'[i]] \in Values
    <3>1. CASE i = Len(rest) + 1
      BY <1>3, <1>6, <1>7, <3>1
    <3>2. CASE i \in DOMAIN rest
      <4>1. /\ nodeKey[rest[i]] \in Keys /\ map[nodeKey[rest[i]]] = rest[i]
            /\ nodeValue[rest[i]] \in Values
        BY <3>2 DEF Chain
      <4>2. nodeKey[rest[i]] # k
        BY <1>2, <3>2, <4>1
      <4>3. l1_list_'[i] = rest[i]
        BY <1>7, <3>2
      <4> QED
        BY <1>4, <1>6, <3>2, <4>1, <4>2, <4>3
    <3> QED
      BY <1>8, <3>1, <3>2
  <2> QED
    BY <2>1, <2>2, <2>3 DEF Chain
<1>10. Store' = [StoreOf(map) EXCEPT ![k] = v]
  <2>1. ASSUME NEW x \in Keys
        PROVE  Store'[x] = [StoreOf(map) EXCEPT ![k] = v][x]
    <3>1. CASE x = k
      <4>1. l1_map_'[x] # NoNode
        BY <1>2, <1>6, <3>1
      <4> QED
        BY <1>3, <1>6, <3>1, <4>1 DEF Store, StoreOf
    <3>2. CASE x # k /\ map[x] = NoNode
      BY <1>6, <3>2 DEF Store, StoreOf
    <3>3. CASE x # k /\ map[x] # NoNode
      <4>1. \E i \in DOMAIN rest : rest[i] = map[x]
        BY <3>3 DEF Chain
      <4>2. nodeValue'[map[x]] = nodeValue[map[x]]
        BY <1>4, <4>1
      <4> QED
        BY <1>6, <3>3, <4>2 DEF Store, StoreOf
    <3> QED
      BY <3>1, <3>2, <3>3
  <2> QED
    BY <2>1 DEF Store, StoreOf
<1>11. Recency' = Append(RecencyOf(rest), k)
  <2>1. /\ RecencyOf(rest) \in Seq(Keys) /\ Len(RecencyOf(rest)) = Len(rest)
        /\ \A i \in DOMAIN rest : RecencyOf(rest)[i] = nodeKey[rest[i]]
    <3>1. RecencyOf(rest) \in [1 .. Len(rest) -> Keys]
      BY <1>7 DEF RecencyOf, Chain
    <3>2. RecencyOf(rest) \in Seq(Keys) /\ DOMAIN RecencyOf(rest) = 1 .. Len(rest)
      BY <1>7, <3>1
    <3>3. Len(RecencyOf(rest)) = Len(rest)
      BY <1>7, <3>2
    <3> QED
      BY <3>2, <3>3 DEF RecencyOf
  <2>2. /\ DOMAIN Append(RecencyOf(rest), k) = 1 .. Len(rest) + 1
        /\ Append(RecencyOf(rest), k)[Len(rest) + 1] = k
        /\ \A i \in DOMAIN rest : Append(RecencyOf(rest), k)[i] = nodeKey[rest[i]]
    BY <1>7, <2>1
  <2>3. ASSUME NEW i \in DOMAIN l1_list_'
        PROVE  nodeKey'[l1_list_'[i]] = Append(RecencyOf(rest), k)[i]
    <3>1. CASE i = Len(rest) + 1
      BY <1>3, <1>7, <2>2, <3>1
    <3>2. CASE i \in DOMAIN rest
      <4>1. l1_list_'[i] = rest[i]
        BY <1>7, <3>2
      <4> QED
        BY <1>4, <2>2, <3>2, <4>1
    <3> QED
      BY <1>8, <3>1, <3>2
  <2>4. Append(RecencyOf(rest), k) \in [1 .. Len(rest) + 1 -> Keys]
    <3>1. Append(RecencyOf(rest), k) \in Seq(Keys) /\ Len(Append(RecencyOf(rest), k)) = Len(rest) + 1
      BY <2>1
    <3> QED
      BY <3>1, LenProperties
  <2> QED
    BY <1>7, <2>3, <2>4 DEF Recency
<1> QED
  BY <1>5, <1>6, <1>7, <1>9, <1>10, <1>11

\* Splicing a node to the end makes its key the most recently used one.
LEMMA MoveToEndTouches ==
    ASSUME NEW s \in Seq(Nodes), NEW map \in [Keys -> Nodes \cup {NoNode}], Chain(s, map),
           NEW k \in Keys, map[k] # NoNode, NEW i \in DOMAIN s, s[i] = map[k]
    PROVE  RecencyOf(MoveToEnd(s, i)) = Append(Abstract!Without(RecencyOf(s), k), k)
<1> DEFINE r == RecencyOf(s)
           w == Abstract!Without(r, k)
           t == MoveToEnd(s, i)
<1>1. Len(s) \in Nat /\ DOMAIN s = 1 .. Len(s) /\ i \in 1 .. Len(s)
  OBVIOUS
<1>2. /\ r \in [1 .. Len(s) -> Keys] /\ DOMAIN r = 1 .. Len(s)
      /\ \A j \in 1 .. Len(s) : r[j] = nodeKey[s[j]]
  BY <1>1 DEF RecencyOf, Chain
<1>3. r \in Seq(Keys) /\ Len(r) = Len(s)
  <2>1. r \in Seq(Keys)
    BY <1>1, <1>2
  <2> QED
    BY <1>1, <1>2, <2>1
<1>4. r[i] = k /\ \A j \in 1 .. Len(s) : r[j] = k => j = i
  <2>1. nodeKey[s[i]] = k
    BY DEF Chain
  <2>2. \A j \in 1 .. Len(s) : r[j] = k => s[j] = s[i]
    BY <1>1, <1>2 DEF Chain
  <2> QED
    BY <1>1, <1>2, <2>1, <2>2 DEF Chain
<1> HIDE DEF r
<1>5. (CHOOSE j \in DOMAIN r : r[j] = k) = i
  BY <1>1, <1>2, <1>4
<1>6. w = [j \in 1 .. Len(s) - 1 |-> IF j < i THEN r[j] ELSE r[j + 1]]
  BY <1>3, <1>5 DEF Abstract!Without
<1>7. w \in [1 .. Len(s) - 1 -> Keys]
  <2>1. \A j \in 1 .. Len(s) - 1 : (IF j < i THEN r[j] ELSE r[j + 1]) \in Keys
    BY <1>1, <1>2
  <2> QED
    BY <1>6, <2>1
<1> HIDE DEF w
<1>8. w \in Seq(Keys) /\ Len(w) = Len(s) - 1
  <2>1. Len(s) - 1 \in Nat
    BY <1>1
  <2>2. w \in Seq(Keys) /\ DOMAIN w = 1 .. Len(s) - 1
    BY <1>7, <2>1
  <2> QED
    BY <2>1, <2>2
<1>9. /\ Append(w, k) \in [1 .. Len(s) -> Keys]
      /\ Append(w, k)[Len(s)] = k
      /\ \A j \in 1 .. Len(s) - 1 : Append(w, k)[j] = w[j]
  <2>1. Append(w, k) \in Seq(Keys) /\ Len(Append(w, k)) = Len(s)
    <3>1. Append(w, k) \in Seq(Keys) /\ Len(Append(w, k)) = Len(w) + 1
      BY <1>8
    <3> QED
      BY <1>1, <1>8, <3>1
  <2>2. Append(w, k) \in [1 .. Len(s) -> Keys]
    BY <2>1, LenProperties
  <2>3. Append(w, k)[Len(s)] = k
    BY <1>1, <1>8
  <2>4. \A j \in 1 .. Len(s) - 1 : Append(w, k)[j] = w[j]
    BY <1>1, <1>8
  <2> QED
    BY <2>2, <2>3, <2>4
<1>10. /\ DOMAIN t = 1 .. Len(s)
       /\ \A j \in 1 .. Len(s) : t[j] = IF j < i THEN s[j]
                                        ELSE IF j < Len(s) THEN s[j + 1] ELSE s[i]
  BY <1>1, MoveToEndType
<1> HIDE DEF t
<1>11. ASSUME NEW j \in 1 .. Len(s)
       PROVE  nodeKey[t[j]] = Append(w, k)[j]
  <2>1. CASE j = Len(s)
    <3>1. t[j] = s[i]
      BY <1>1, <1>10, <2>1
    <3> QED
      BY <1>2, <1>4, <1>9, <2>1, <3>1 DEF Chain
  <2>2. CASE j < i
    <3>1. t[j] = s[j] /\ j \in 1 .. Len(s) - 1
      BY <1>1, <1>10, <2>2
    <3>2. w[j] = r[j]
      BY <1>6, <2>2, <3>1
    <3> QED
      BY <1>2, <1>9, <3>1, <3>2
  <2>3. CASE j # Len(s) /\ ~(j < i)
    <3>1. t[j] = s[j + 1] /\ j \in 1 .. Len(s) - 1 /\ j + 1 \in 1 .. Len(s)
      BY <1>1, <1>10, <2>3
    <3>2. w[j] = r[j + 1]
      BY <1>6, <2>3, <3>1
    <3> QED
      BY <1>2, <1>9, <3>1, <3>2
  <2> QED
    BY <2>1, <2>2, <2>3
<1>12. RecencyOf(t) = Append(w, k)
  BY <1>9, <1>10, <1>11 DEF RecencyOf
<1> QED
  BY <1>12 DEF t, w, r

-----------------------------------------------------------------------------
(* The invariant is inductive *)

LEMMA InitInvariant == Init => IInv
<1> SUFFICES ASSUME Init
             PROVE  IInv
  OBVIOUS
<1>1. TypeOK
  <2>1. l1_list_ \in Seq(Nodes) /\ l1_max_size_ \in Nat /\ main \in {"size", "switch", "serving"}
    BY L1Assumption DEF Init
  <2>2. /\ l1_map_ \in [Keys -> Nodes \cup {NoNode}]
        /\ nodeKey \in [Nodes -> Keys \cup {NoKey}]
        /\ nodeValue \in [Nodes -> Values \cup {NoValue}]
        /\ arg \in [Threads -> Keys \cup {NoKey}]
        /\ answer \in [Threads -> Values \cup {NoValue}]
    BY DEF Init
  <2>3. l1_enabled_ \in BOOLEAN /\ crashed \in BOOLEAN
    BY DEF Init
  <2> QED
    BY <2>1, <2>2, <2>3 DEF TypeOK
<1>2. Chain(l1_list_, l1_map_)
  BY DEF Init, Chain
<1>3. WithinMaxSize
  BY L1Assumption DEF Init, WithinMaxSize
<1> QED
  BY <1>1, <1>2, <1>3 DEF Init, IInv, NothingEarly, CrashOnlyAtSizeZero

LEMMA InvariantStep == IInv /\ [Next]_vars => IInv'
<1> SUFFICES ASSUME IInv, [Next]_vars
             PROVE  IInv'
  OBVIOUS
<1>t. TypeOK /\ Chain(l1_list_, l1_map_)
  BY DEF IInv
<1>e. Len(<<>>) = 0
  OBVIOUS
<1>1. ASSUME NEW n \in Sizes, SetL1MaxSize(n)
      PROVE  IInv'
  <2>1. n \in Nat
    BY L1Assumption
  <2>2. l1_list_' = <<>> /\ ~crashed'
    BY <1>1 DEF IInv, NothingEarly, SetL1MaxSize, Configure, lists
  <2>3. TypeOK'
    BY <1>1, <1>t, <2>1 DEF TypeOK, SetL1MaxSize, Configure, lists
  <2>4. Chain(l1_list_, l1_map_)'
    BY <1>1, <1>t DEF Chain, SetL1MaxSize, Configure, lists
  <2>5. WithinMaxSize'
    BY <1>1, <1>e, <2>1, <2>2 DEF WithinMaxSize, SetL1MaxSize, Configure
  <2> QED
    BY <2>2, <2>3, <2>4, <2>5 DEF IInv, NothingEarly, CrashOnlyAtSizeZero
<1>2. ASSUME NEW b \in BOOLEAN, SetL1Enabled(b)
      PROVE  IInv'
  <2>1. l1_list_ = <<>> /\ l1_list_' = <<>> /\ ~crashed'
    BY <1>2 DEF IInv, NothingEarly, SetL1Enabled, EmptyLists, lists
  <2>2. TypeOK'
    <3>1. /\ l1_map_' \in [Keys -> Nodes \cup {NoNode}]
          /\ nodeKey' \in [Nodes -> Keys \cup {NoKey}]
          /\ nodeValue' \in [Nodes -> Values \cup {NoValue}]
      <4>1. CASE UNCHANGED lists
        BY <1>t, <4>1 DEF TypeOK, lists
      <4>2. CASE EmptyLists
        BY <4>2 DEF EmptyLists
      <4> QED
        BY <1>2, <4>1, <4>2 DEF SetL1Enabled
    <3>2. l1_list_' \in Seq(Nodes)
      BY <2>1
    <3> QED
      BY <1>2, <1>t, <3>1, <3>2 DEF TypeOK, SetL1Enabled
  <2>3. Chain(l1_list_, l1_map_)'
    <3>1. CASE UNCHANGED lists
      BY <1>t, <3>1 DEF Chain, lists
    <3>2. CASE EmptyLists
      BY <3>2 DEF Chain, EmptyLists
    <3> QED
      BY <1>2, <3>1, <3>2 DEF SetL1Enabled
  <2>4. WithinMaxSize'
    BY <1>2, <2>1 DEF IInv, WithinMaxSize, SetL1Enabled
  <2> QED
    BY <2>1, <2>2, <2>3, <2>4 DEF IInv, NothingEarly, CrashOnlyAtSizeZero
<1>3. ASSUME NEW t \in Threads, NEW k \in Keys, GetL1Absent(t, k) \/ GetL1Present(t, k)
      PROVE  IInv'
  <2>1. UNCHANGED <<lists, l1_max_size_, l1_enabled_, main, crashed>>
    BY <1>3 DEF GetL1Absent, GetL1Present
  <2>2. TypeOK'
    BY <1>3, <1>t DEF TypeOK, GetL1Absent, GetL1Present, lists
  <2>3. Chain(l1_list_, l1_map_)'
    BY <1>t, <2>1 DEF Chain, lists
  <2> QED
    BY <2>1, <2>2, <2>3 DEF IInv, NothingEarly, WithinMaxSize, CrashOnlyAtSizeZero, lists
<1>4. ASSUME NEW t \in Threads, NEW k \in Keys, PutL1EvictFromEmpty(t, k)
      PROVE  IInv'
  <2>1. /\ UNCHANGED <<lists, l1_max_size_, l1_enabled_, main>>
        /\ main = "serving" /\ l1_enabled_ /\ l1_list_ = <<>> /\ Full
    BY <1>4 DEF PutL1EvictFromEmpty, CanPut, Idle
  <2>2. l1_max_size_ = 0
    BY <1>e, <1>t, <2>1 DEF Full, TypeOK
  <2>3. TypeOK'
    BY <1>4, <1>t DEF TypeOK, PutL1EvictFromEmpty, lists
  <2>4. Chain(l1_list_, l1_map_)'
    BY <1>t, <2>1 DEF Chain, lists
  <2> QED
    BY <2>1, <2>2, <2>3, <2>4
    DEF IInv, NothingEarly, WithinMaxSize, CrashOnlyAtSizeZero, lists
<1>5. ASSUME NEW t \in Threads, GetL1Take(t)
      PROVE  IInv'
  <2>1. UNCHANGED <<l1_map_, nodeKey, nodeValue, l1_max_size_, l1_enabled_, main, crashed>>
    BY <1>5 DEF GetL1Take
  <2>2. arg[t] \in Keys
    BY <1>5, <1>t DEF GetL1Take, TypeOK
  <2>3. UNCHANGED l1_list_ \/ \E i \in DOMAIN l1_list_ : l1_list_' = MoveToEnd(l1_list_, i)
    BY <1>5 DEF GetL1Take
  <2>4. /\ l1_list_' \in Seq(Nodes) /\ Len(l1_list_') = Len(l1_list_)
        /\ Chain(l1_list_', l1_map_)
        /\ l1_list_ = <<>> => l1_list_' = <<>>
    BY <1>t, <2>3, MoveToEndType, MoveToEndChain DEF TypeOK
  <2>5. TypeOK'
    <3>1. answer' \in [Threads -> Values \cup {NoValue}] /\ arg' \in [Threads -> Keys \cup {NoKey}]
      BY <1>5, <1>t, <2>2 DEF TypeOK, GetL1Take
    <3> QED
      BY <1>t, <2>1, <2>4, <3>1 DEF TypeOK
  <2>6. Chain(l1_list_, l1_map_)'
    BY <2>1, <2>4 DEF Chain
  <2> QED
    BY <2>1, <2>4, <2>5, <2>6 DEF IInv, NothingEarly, WithinMaxSize, CrashOnlyAtSizeZero
<1>6. ASSUME NEW t \in Threads, NEW k \in Keys, NEW v \in Values, PutL1Update(t, k, v)
      PROVE  IInv'
  <2>1. /\ UNCHANGED <<l1_map_, nodeKey, l1_max_size_, l1_enabled_, main, arg, answer, crashed>>
        /\ l1_map_[k] \in Nodes
        /\ nodeValue' = [nodeValue EXCEPT ![l1_map_[k]] = v]
    BY <1>6, <1>t DEF PutL1Update, TypeOK
  <2>2. PICK i \in DOMAIN l1_list_ : l1_list_' = MoveToEnd(l1_list_, i)
    BY <1>6 DEF PutL1Update
  <2>3. /\ l1_list_' \in Seq(Nodes) /\ Len(l1_list_') = Len(l1_list_)
        /\ Chain(l1_list_', l1_map_) /\ l1_list_ # <<>>
    BY <1>t, <2>2, MoveToEndType, MoveToEndChain DEF TypeOK
  <2>4. TypeOK'
    BY <1>t, <2>1, <2>3 DEF TypeOK
  <2>5. \A n \in Nodes : nodeValue[n] \in Values => nodeValue'[n] \in Values
    BY <1>t, <2>1 DEF TypeOK
  <2>6. Chain(l1_list_, l1_map_)'
    <3>1. \A j \in DOMAIN l1_list_' : l1_list_'[j] \in Nodes
      BY <2>3
    <3> QED
      BY <2>1, <2>3, <2>5, <3>1 DEF Chain
  <2> QED
    BY <2>1, <2>3, <2>4, <2>6 DEF IInv, NothingEarly, WithinMaxSize, CrashOnlyAtSizeZero
<1>7. ASSUME NEW t \in Threads, NEW k \in Keys, NEW v \in Values, PutL1Insert(t, k, v)
      PROVE  IInv'
  <2>1. /\ UNCHANGED <<l1_max_size_, l1_enabled_, main, arg, answer, crashed>>
        /\ main = "serving" /\ l1_enabled_ /\ ~Full /\ ~crashed
        /\ l1_map_[k] = NoNode /\ PushBack(k, v, l1_list_, l1_map_)
    BY <1>7 DEF PutL1Insert, CanPut, Idle
  <2>2. /\ l1_list_' \in Seq(Nodes) /\ Len(l1_list_') = Len(l1_list_) + 1
        /\ l1_map_' \in [Keys -> Nodes \cup {NoNode}]
        /\ nodeKey' \in [Nodes -> Keys \cup {NoKey}]
        /\ nodeValue' \in [Nodes -> Values \cup {NoValue}]
        /\ Chain(l1_list_, l1_map_)'
    BY <1>t, <2>1, L1Assumption, PushBackChain DEF TypeOK
  <2>3. WithinMaxSize'
    BY <1>t, <2>1, <2>2 DEF WithinMaxSize, Full, TypeOK
  <2> QED
    BY <1>t, <2>1, <2>2, <2>3 DEF IInv, TypeOK, NothingEarly, CrashOnlyAtSizeZero
<1>8. ASSUME NEW t \in Threads, NEW k \in Keys, NEW v \in Values, PutL1Evict(t, k, v)
      PROVE  IInv'
  <2> DEFINE map == [l1_map_ EXCEPT ![nodeKey[Head(l1_list_)]] = NoNode]
             rest == Tail(l1_list_)
  <2>1. /\ UNCHANGED <<l1_max_size_, l1_enabled_, main, arg, answer, crashed>>
        /\ main = "serving" /\ l1_enabled_ /\ ~crashed /\ l1_list_ # <<>>
        /\ l1_map_[k] = NoNode /\ PushBack(k, v, rest, map)
    BY <1>8 DEF PutL1Evict, Evict, CanPut, Idle
  <2>2. /\ rest \in Seq(Nodes) /\ Len(rest) = Len(l1_list_) - 1
        /\ map \in [Keys -> Nodes \cup {NoNode}]
        /\ Chain(rest, map) /\ map[k] = NoNode
    BY <1>t, <2>1, L1Assumption, PopChain DEF TypeOK
  <2> HIDE DEF map, rest
  <2>3. /\ l1_list_' \in Seq(Nodes) /\ Len(l1_list_') = Len(rest) + 1
        /\ l1_map_' \in [Keys -> Nodes \cup {NoNode}]
        /\ nodeKey' \in [Nodes -> Keys \cup {NoKey}]
        /\ nodeValue' \in [Nodes -> Values \cup {NoValue}]
        /\ Chain(l1_list_, l1_map_)'
    BY <1>t, <2>1, <2>2, L1Assumption, PushBackChain
  <2>4. WithinMaxSize'
    BY <1>t, <2>1, <2>2, <2>3 DEF IInv, WithinMaxSize, TypeOK
  <2> QED
    BY <1>t, <2>1, <2>3, <2>4 DEF IInv, TypeOK, NothingEarly, CrashOnlyAtSizeZero
<1>9. ASSUME Clear
      PROVE  IInv'
  <2>1. /\ UNCHANGED <<l1_max_size_, l1_enabled_, main, arg, answer, crashed>>
        /\ main = "serving" /\ EmptyLists
    BY <1>9 DEF Clear
  <2>2. TypeOK'
    BY <1>t, <2>1 DEF TypeOK, EmptyLists
  <2>3. Chain(l1_list_, l1_map_)'
    BY <2>1 DEF Chain, EmptyLists
  <2>4. WithinMaxSize'
    BY <1>e, <1>t, <2>1 DEF WithinMaxSize, EmptyLists, TypeOK
  <2> QED
    BY <2>1, <2>2, <2>3, <2>4 DEF IInv, NothingEarly, CrashOnlyAtSizeZero, EmptyLists
<1>10. CASE UNCHANGED vars
  BY <1>10, <1>t DEF vars, IInv, TypeOK, Chain, NothingEarly, WithinMaxSize,
                     CrashOnlyAtSizeZero
<1> QED
  BY <1>1, <1>2, <1>3, <1>4, <1>5, <1>6, <1>7, <1>8, <1>9, <1>10 DEF Next

LEMMA Inductive == Spec => []IInv
  BY InitInvariant, InvariantStep, PTL DEF Spec

-----------------------------------------------------------------------------
(* Safety *)

\* Every variable keeps its type, in particular l1_list_.size() never wraps.
THEOREM L1TypeCorrect == Spec => []TypeOK
<1>1. IInv => TypeOK
  BY DEF IInv
<1> QED
  BY <1>1, Inductive, PTL

\* No iterator of l1_map_ ever dangles, and list and map hold the same
\* entries, for any number of threads, keys and nodes.
THEOREM ListAndMapAgree == Spec => []Coherent
<1>1. IInv => Coherent
  BY DEF IInv, Chain, Coherent
<1> QED
  BY <1>1, Inductive, PTL

\* putL1 keeps the list within l1_max_size_, whatever size is configured, and
\* evicts from an empty list only if the size is 0 and the switch on.
THEOREM SizeIsKept == Spec => []SizeIsRespected
<1>1. IInv => SizeIsRespected
  BY DEF IInv, SizeIsRespected
<1> QED
  BY <1>1, Inductive, PTL

-----------------------------------------------------------------------------
(* Refinement of LRU *)

\* A key is absent from the abstract store exactly when the map has no node
\* for it, and the list stands for the same keys.
LEMMA StoreMeansMap ==
    ASSUME IInv
    PROVE  \A k \in Keys : /\ Store[k] = NoValue <=> l1_map_[k] = NoNode
                           /\ l1_map_[k] # NoNode => Store[k] = nodeValue[l1_map_[k]]
<1>1. ASSUME NEW k \in Keys, l1_map_[k] # NoNode
      PROVE  nodeValue[l1_map_[k]] \in Values
  BY <1>1 DEF IInv, Chain
<1> QED
  BY <1>1, L1Assumption DEF Store

LEMMA RecencyType ==
    ASSUME IInv
    PROVE  /\ Recency \in Seq(Keys) /\ Len(Recency) = Len(l1_list_)
           /\ DOMAIN Recency = DOMAIN l1_list_
<1>1. Len(l1_list_) \in Nat /\ DOMAIN l1_list_ = 1 .. Len(l1_list_)
  BY DEF IInv, TypeOK
<1>2. Recency \in [1 .. Len(l1_list_) -> Keys]
  BY <1>1 DEF IInv, Chain, Recency
<1>3. Recency \in Seq(Keys) /\ DOMAIN Recency = 1 .. Len(l1_list_)
  BY <1>1, <1>2
<1> QED
  BY <1>1, <1>3

LEMMA InitRefines == Init => Abstract!Init
<1> SUFFICES ASSUME Init
             PROVE  Abstract!Init
  OBVIOUS
<1>1. Store = [k \in Keys |-> NoValue]
  BY DEF Init, Store
<1>2. Recency = <<>>
  BY DEF Init, Recency
<1> QED
  BY <1>1, <1>2, L1Assumption DEF Init, Abstract!Init

LEMMA StepRefines ==
    IInv /\ IInv' /\ [Next]_vars => [Abstract!Next]_Abstract!vars
<1> SUFFICES ASSUME IInv, IInv', [Next]_vars
             PROVE  [Abstract!Next]_Abstract!vars
  OBVIOUS
<1>t. TypeOK /\ Chain(l1_list_, l1_map_) /\ l1_max_size_' \in Nat
  BY DEF IInv, TypeOK
<1>r. Recency = RecencyOf(l1_list_) /\ Store = StoreOf(l1_map_)
  BY DEF Recency, RecencyOf, Store, StoreOf
<1>u. UNCHANGED lists => UNCHANGED <<Store, Recency>>
  BY DEF lists, Store, Recency
<1>e. EmptyLists => Store' = [k \in Keys |-> NoValue] /\ Recency' = <<>>
  BY DEF EmptyLists, Store, Recency
<1>1. ASSUME NEW n \in Sizes, SetL1MaxSize(n)
      PROVE  Abstract!Next
  <2>1. UNCHANGED <<lists, answer>> /\ l1_list_ = <<>>
    BY <1>1 DEF SetL1MaxSize, Configure, IInv, NothingEarly
  <2>2. Recency = <<>>
    BY <2>1 DEF Recency
  <2> QED
    BY <1>t, <1>u, <2>1, <2>2 DEF Abstract!Next, Abstract!Resize
<1>2. ASSUME NEW b \in BOOLEAN, SetL1Enabled(b)
      PROVE  [Abstract!Next]_Abstract!vars
  <2>1. UNCHANGED <<l1_max_size_, answer>> /\ (UNCHANGED lists \/ EmptyLists)
    BY <1>2 DEF SetL1Enabled
  <2> QED
    BY <1>u, <1>e, <2>1 DEF Abstract!Next, Abstract!Clear, Abstract!vars
<1>3. ASSUME NEW t \in Threads, NEW k \in Keys, GetL1Absent(t, k)
      PROVE  Abstract!Next
  <2>1. /\ UNCHANGED <<lists, l1_max_size_>>
        /\ answer' = [answer EXCEPT ![t] = NoValue]
    BY <1>3 DEF GetL1Absent
  <2>2. l1_map_[k] = NoNode
    <3>1. CASE ~l1_enabled_
      BY <1>t, <3>1, EmptyChain DEF IInv, NothingEarly, TypeOK
    <3> QED
      BY <1>3, <3>1 DEF GetL1Absent
  <2>3. Store[k] = NoValue
    BY <2>2, StoreMeansMap
  <2>4. Abstract!Get(t, k)
    BY <1>u, <2>1, <2>3 DEF Abstract!Get
  <2> QED
    BY <2>4 DEF Abstract!Next
<1>4. ASSUME NEW t \in Threads, NEW k \in Keys, GetL1Present(t, k)
      PROVE  UNCHANGED Abstract!vars
  <2>1. UNCHANGED <<lists, l1_max_size_, answer>>
    BY <1>4 DEF GetL1Present
  <2> QED
    BY <1>u, <2>1 DEF Abstract!vars
<1>5. ASSUME NEW t \in Threads, NEW k \in Keys, PutL1EvictFromEmpty(t, k)
      PROVE  UNCHANGED Abstract!vars
  <2>1. UNCHANGED <<lists, l1_max_size_, answer>>
    BY <1>5 DEF PutL1EvictFromEmpty
  <2> QED
    BY <1>u, <2>1 DEF Abstract!vars
<1>6. ASSUME NEW t \in Threads, GetL1Take(t)
      PROVE  Abstract!Next
  <2> DEFINE k == arg[t]
  <2>1. k \in Keys /\ UNCHANGED <<l1_map_, nodeKey, nodeValue, l1_max_size_>>
    BY <1>6, <1>t DEF GetL1Take, TypeOK
  <2>2. Store' = Store
    BY <2>1 DEF Store
  <2>3. CASE l1_map_[k] = NoNode
    <3>1. answer' = [answer EXCEPT ![t] = NoValue] /\ UNCHANGED l1_list_
      BY <1>6, <2>3 DEF GetL1Take
    <3>2. Store[k] = NoValue
      BY <2>1, <2>3, StoreMeansMap
    <3>3. UNCHANGED Recency
      BY <2>1, <3>1 DEF Recency
    <3>4. Abstract!Get(t, k)
      BY <2>1, <2>2, <3>1, <3>2, <3>3 DEF Abstract!Get
    <3> QED
      BY <2>1, <3>4 DEF Abstract!Next
  <2>4. CASE l1_map_[k] # NoNode
    <3>1. answer' = [answer EXCEPT ![t] = nodeValue[l1_map_[k]]]
      BY <1>6, <2>4 DEF GetL1Take
    <3>2. PICK i \in DOMAIN l1_list_ : /\ l1_list_[i] = l1_map_[k]
                                       /\ l1_list_' = MoveToEnd(l1_list_, i)
      BY <1>6, <2>4 DEF GetL1Take
    <3>3. Recency' = RecencyOf(MoveToEnd(l1_list_, i))
      BY <2>1, <3>2 DEF Recency, RecencyOf
    <3>4. Recency' = Append(Abstract!Without(Recency, k), k)
      BY <1>t, <1>r, <2>1, <2>4, <3>2, <3>3, MoveToEndTouches DEF TypeOK
    <3>5. Store[k] # NoValue /\ Store[k] = nodeValue[l1_map_[k]]
      BY <2>1, <2>4, StoreMeansMap
    <3>6. Abstract!Get(t, k)
      BY <2>1, <2>2, <3>1, <3>4, <3>5 DEF Abstract!Get
    <3> QED
      BY <2>1, <3>6 DEF Abstract!Next
  <2> QED
    BY <2>3, <2>4
<1>7. ASSUME NEW t \in Threads, NEW k \in Keys, NEW v \in Values, PutL1Update(t, k, v)
      PROVE  Abstract!Next
  <2>1. /\ UNCHANGED <<l1_map_, nodeKey, l1_max_size_, answer>>
        /\ l1_map_[k] # NoNode /\ l1_map_[k] \in Nodes
        /\ nodeValue' = [nodeValue EXCEPT ![l1_map_[k]] = v]
    BY <1>7, <1>t DEF PutL1Update, TypeOK
  <2>2. PICK i \in DOMAIN l1_list_ : /\ l1_list_[i] = l1_map_[k]
                                     /\ l1_list_' = MoveToEnd(l1_list_, i)
    BY <1>7 DEF PutL1Update
  <2>3. Recency' = RecencyOf(MoveToEnd(l1_list_, i))
    BY <2>1, <2>2 DEF Recency, RecencyOf
  <2>4. Recency' = Append(Abstract!Without(Recency, k), k)
    BY <1>t, <1>r, <2>1, <2>2, <2>3, MoveToEndTouches DEF TypeOK
  <2>5. Store' = [Store EXCEPT ![k] = v]
    <3>1. \A x \in Keys : x # k /\ l1_map_[x] # NoNode => l1_map_[x] # l1_map_[k]
      BY <1>t, <2>1 DEF Chain
    <3>2. \A x \in Keys : x # k /\ l1_map_[x] # NoNode =>
              nodeValue'[l1_map_[x]] = nodeValue[l1_map_[x]]
      BY <1>t, <2>1, <3>1 DEF TypeOK
    <3>3. nodeValue'[l1_map_[k]] = v
      BY <1>t, <2>1 DEF TypeOK
    <3> QED
      BY <2>1, <3>2, <3>3 DEF Store
  <2>6. Store[k] # NoValue
    BY <2>1, StoreMeansMap
  <2>7. Abstract!Refresh(k, v)
    BY <2>1, <2>4, <2>5, <2>6 DEF Abstract!Refresh
  <2> QED
    BY <2>7 DEF Abstract!Next
<1>8. ASSUME NEW t \in Threads, NEW k \in Keys, NEW v \in Values, PutL1Insert(t, k, v)
      PROVE  Abstract!Next
  <2>1. /\ UNCHANGED <<l1_max_size_, answer>> /\ ~Full
        /\ l1_map_[k] = NoNode /\ PushBack(k, v, l1_list_, l1_map_)
    BY <1>8 DEF PutL1Insert
  <2>2. Store' = [Store EXCEPT ![k] = v] /\ Recency' = Append(Recency, k)
    BY <1>t, <1>r, <2>1, L1Assumption, PushBackChain DEF TypeOK
  <2>3. Len(Recency) < l1_max_size_
    <3>1. Len(l1_list_) \in Nat /\ l1_max_size_ \in Nat
      BY <1>t DEF TypeOK
    <3> QED
      BY <2>1, <3>1, RecencyType DEF Full
  <2>4. Store[k] = NoValue
    BY <2>1, StoreMeansMap
  <2>5. Abstract!Insert(k, v)
    BY <2>1, <2>2, <2>3, <2>4 DEF Abstract!Insert
  <2> QED
    BY <2>5 DEF Abstract!Next
<1>9. ASSUME NEW t \in Threads, NEW k \in Keys, NEW v \in Values, PutL1Evict(t, k, v)
      PROVE  Abstract!Next
  <2> DEFINE old == nodeKey[Head(l1_list_)]
             map == [l1_map_ EXCEPT ![old] = NoNode]
             rest == Tail(l1_list_)
  <2>1. /\ UNCHANGED <<l1_max_size_, answer>> /\ l1_list_ # <<>> /\ Full
        /\ l1_map_[k] = NoNode /\ PushBack(k, v, rest, map)
    BY <1>9 DEF PutL1Evict, Evict
  <2>2. /\ rest \in Seq(Nodes) /\ Len(rest) = Len(l1_list_) - 1
        /\ map \in [Keys -> Nodes \cup {NoNode}]
        /\ Chain(rest, map) /\ map[k] = NoNode
    BY <1>t, <2>1, L1Assumption, PopChain DEF TypeOK
  <2>3. Store' = [StoreOf(map) EXCEPT ![k] = v] /\ Recency' = Append(RecencyOf(rest), k)
    <3> HIDE DEF map, rest
    <3> QED
      BY <1>t, <2>1, <2>2, L1Assumption, PushBackChain
  <2>4. /\ Len(l1_list_) \in Nat /\ l1_max_size_ \in Nat /\ Len(l1_list_) > 0
        /\ DOMAIN l1_list_ = 1 .. Len(l1_list_) /\ 1 \in DOMAIN l1_list_
        /\ Head(l1_list_) = l1_list_[1]
    BY <1>t, <2>1 DEF TypeOK
  <2>5. Recency # <<>> /\ Len(Recency) = l1_max_size_ /\ Head(Recency) = old
    <3>1. Len(l1_list_) = l1_max_size_
      BY <2>1, <2>4 DEF Full, IInv, WithinMaxSize
    <3>2. Recency[1] = old
      BY <2>4 DEF Recency
    <3> QED
      BY <2>4, <3>1, <3>2, RecencyType
  <2>6. StoreOf(map) = [Store EXCEPT ![old] = NoValue]
    <3>1. old \in Keys
      BY <1>t, <2>4 DEF Chain
    <3> QED
      BY <1>t, <3>1 DEF StoreOf, Store, TypeOK
  <2>7. RecencyOf(rest) = Tail(Recency)
    <3>1. /\ DOMAIN rest = 1 .. Len(l1_list_) - 1
          /\ \A i \in 1 .. Len(l1_list_) - 1 : /\ rest[i] = l1_list_[i + 1]
                                               /\ i + 1 \in DOMAIN l1_list_
      BY <1>t, <2>1, <2>4 DEF TypeOK
    <3>2. /\ Tail(Recency) \in Seq(Keys) /\ Len(Tail(Recency)) = Len(l1_list_) - 1
          /\ \A i \in 1 .. Len(l1_list_) - 1 : Tail(Recency)[i] = Recency[i + 1]
      <4>1. Recency \in Seq(Keys) /\ Recency # <<>> /\ Len(Recency) = Len(l1_list_)
        BY <2>5, RecencyType
      <4>2. Tail(Recency) \in Seq(Keys) /\ Len(Tail(Recency)) = Len(Recency) - 1
        BY <4>1
      <4>3. \A i \in 1 .. Len(Recency) - 1 : Tail(Recency)[i] = Recency[i + 1]
        BY <4>1
      <4> QED
        BY <4>1, <4>2, <4>3
    <3>3. Tail(Recency) \in [1 .. Len(l1_list_) - 1 -> Keys]
      BY <3>2, LenProperties
    <3>4. \A i \in 1 .. Len(l1_list_) - 1 : Tail(Recency)[i] = nodeKey[rest[i]]
      BY <3>1, <3>2 DEF Recency
    <3> QED
      BY <3>1, <3>3, <3>4 DEF RecencyOf
  <2>8. Store' = [Store EXCEPT ![Head(Recency)] = NoValue, ![k] = v]
    BY <2>3, <2>5, <2>6
  <2>9. Store[k] = NoValue
    BY <2>1, StoreMeansMap
  <2>10. Abstract!Replace(k, v)
    BY <2>1, <2>3, <2>5, <2>7, <2>8, <2>9 DEF Abstract!Replace
  <2> QED
    BY <2>10 DEF Abstract!Next
<1>10. ASSUME Clear
       PROVE  Abstract!Next
  <2>1. UNCHANGED <<l1_max_size_, answer>> /\ EmptyLists
    BY <1>10 DEF Clear
  <2> QED
    BY <1>e, <2>1 DEF Abstract!Next, Abstract!Clear
<1>11. CASE UNCHANGED vars
  <2>1. UNCHANGED <<lists, l1_max_size_, answer>>
    BY <1>11 DEF vars, lists
  <2> QED
    BY <1>u, <2>1 DEF Abstract!vars
<1> QED
  BY <1>1, <1>2, <1>3, <1>4, <1>5, <1>6, <1>7, <1>8, <1>9, <1>10, <1>11 DEF Next

\* getL1 and putL1, with their two locks, their list and their iterators, are
\* an LRU cache: every get returns what was put last under its key or a miss,
\* and every eviction takes the least recently used key.
THEOREM L1IsAnLRUCache == Spec => ImplementsLRU
  BY InitRefines, StepRefines, Inductive, PTL DEF Spec, ImplementsLRU, Abstract!Spec
=============================================================================
