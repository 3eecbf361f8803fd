-------------------------------- MODULE Lru --------------------------------
(***************************************************************************)
(* LRUCache of include/libs/lru.hpp: a list of key-value nodes, the most   *)
(* recently used first, and a map from keys to iterators into it.  A node  *)
(* keeps its identity when it is spliced, so an iterator is the number of  *)
(* its node.  The hit and miss counters are only ever incremented and are  *)
(* left out.                                                               *)
(***************************************************************************)
EXTENDS Naturals, SequencesExt

CONSTANTS
  capacity,      \* capacity_
  Keys,
  Values

ASSUME LruAssumption == capacity \in Nat \ {0}

VARIABLES
  kv_node,       \* the list of nodes [node, first, second]
  cache,         \* for each key the node of its iterator, or NoNode
  cur_size,
  last           \* history: the value of the last Set of each key

vars == <<kv_node, cache, cur_size, last>>

NoNode == 0
NoValue == "none"

Cached == {k \in Keys : cache[k] # NoNode}

\* Where a node is in the list; the list with that node spliced to its front.
Position(list, n) == CHOOSE i \in DOMAIN list : list[i].node = n
Splice(list, i) == <<list[i]>> \o RemoveAt(list, i)
Touch(list, n) == Splice(list, Position(list, n))

Init ==
  /\ kv_node = <<>>
  /\ cache = [k \in Keys |-> NoNode]
  /\ cur_size = 0
  /\ last = [k \in Keys |-> NoValue]

\* Get of a cached key; a miss changes nothing but a counter.
Get(key) ==
  /\ key \in Cached
  /\ kv_node' = Touch(kv_node, cache[key])
  /\ UNCHANGED <<cache, cur_size, last>>

\* Set below capacity: a new node, or the node of the key with a new value.
SetGrowing(key, value) ==
  /\ cur_size < capacity
  /\ IF key \in Cached
     THEN /\ kv_node' = [Touch(kv_node, cache[key]) EXCEPT ![1].second = value]
          /\ UNCHANGED <<cache, cur_size>>
     ELSE /\ kv_node' = <<[node |-> cur_size + 1, first |-> key, second |-> value]>> \o kv_node
          /\ cache' = [cache EXCEPT ![key] = cur_size + 1]
          /\ cur_size' = cur_size + 1
  /\ last' = [last EXCEPT ![key] = value]

\* Mutant: the key of the node that is reused stays in the map.
Evict_Forgotten(map, key) == map

\* cache_.erase of the key of the node that is reused.
Evict(map, key) == [map EXCEPT ![key] = NoNode]

\* Mutant: the map is updated only when the key was not in it before.
Emplace_Stale(map, key, n) == IF key \in Cached THEN map ELSE [map EXCEPT ![key] = n]

\* emplace leaves the entry of a key that is in the map as it is.
Emplace(map, key, n) == IF map[key] = NoNode THEN [map EXCEPT ![key] = n] ELSE map

\* Set at capacity.  A cached key is updated first; then, whether or not it
\* was, the last node is reused for the key.
SetFull(key, value) ==
  /\ cur_size >= capacity
  /\ LET updated == IF key \in Cached
                    THEN [Touch(kv_node, cache[key]) EXCEPT ![1].second = value]
                    ELSE kv_node
         back    == Last(updated)
     IN  /\ kv_node' = [Splice(updated, Len(updated)) EXCEPT ![1].first = key,
                                                            ![1].second = value]
         /\ cache' = Emplace(Evict(cache, back.first), key, back.node)
  /\ last' = [last EXCEPT ![key] = value]
  /\ UNCHANGED cur_size

Set(key, value) == SetGrowing(key, value) \/ SetFull(key, value)

Reset ==
  /\ kv_node' = <<>>
  /\ cache' = [k \in Keys |-> NoNode]
  /\ cur_size' = 0
  /\ last' = [k \in Keys |-> NoValue]

Next ==
  \/ \E key \in Keys : Get(key)
  \/ \E key \in Keys, value \in Values : Set(key, value)
  \/ Reset

Spec == Init /\ [][Next]_vars

-----------------------------------------------------------------------------

\* The iterator of a cached key points into the list, at a node of that key
\* with the value last Set for it: Get never returns the value of another
\* key or a value that was overwritten, although a node changes its key when
\* it is reused and a key may have several nodes.
GetReturnsLastSet ==
  \A k \in Cached :
    \E i \in DOMAIN kv_node : kv_node[i] = [node |-> cache[k], first |-> k, second |-> last[k]]

\* A key is in the map after Set of it, and it alone entered: the node that
\* is reused may have been its own.
SetIsReadable ==
  [][\A k \in Keys, v \in Values : Set(k, v) => cache'[k] # NoNode
       /\ \A j \in Keys \ {k} : cache[j] = NoNode => cache'[j] = NoNode]_vars

\* cur_size_ is the number of keys in the cache, as lru_test.cc expects after
\* Set of a key that is already there.
SizeCountsKeys == cur_size = Cardinality(Cached)
=============================================================================
