----------------------------- MODULE LruProofs -----------------------------
(***************************************************************************)
(* Proofs about module Lru, for every capacity, set of keys and set of     *)
(* values: Get returns the value last Set, although nodes move in the list *)
(* and change their keys, and a key is in the map after Set of it.         *)
(***************************************************************************)
EXTENDS Lru, SequenceTheorems, TLAPS

Node == [node : Nat \ {0}, first : Keys, second : Values]

\* The lists of n nodes, each with a number of its own below n + 1.
Lists(n) ==
  {list \in Seq(Node) :
     /\ Len(list) = n
     /\ \A i \in DOMAIN list : list[i].node <= n
     /\ \A i, j \in DOMAIN list : list[i].node = list[j].node => i = j}

\* The entry of a key in map is the number of a node of that key, with the
\* key's value in vals.  A key may have other nodes too.
Shows(list, map, vals) ==
  \A k \in Keys : map[k] # NoNode =>
    \E i \in DOMAIN list : list[i] = [node |-> map[k], first |-> k, second |-> vals[k]]

Good(list, map, vals, n) ==
  /\ n \in 0 .. capacity
  /\ list \in Lists(n)
  /\ map \in [Keys -> Nat]
  /\ vals \in [Keys -> Values \cup {NoValue}]
  /\ Shows(list, map, vals)

\* The inductive invariant.  That the numbers of the nodes differ is needed:
\* a node moves between the look-up of its iterator and the return.
LruInv == Good(kv_node, cache, last, cur_size)

-----------------------------------------------------------------------------
(* Lists                                                                   *)

LEMMA Element ==
  ASSUME NEW list \in Seq(Node), NEW i \in DOMAIN list
  PROVE  list[i] \in Node
OBVIOUS

\* Element j of a list from which element i is removed.
LEMMA Removed ==
  ASSUME NEW S, NEW list \in Seq(S), NEW i \in 1 .. Len(list)
  PROVE  /\ RemoveAt(list, i) \in Seq(S)
         /\ Len(RemoveAt(list, i)) = Len(list) - 1
         /\ \A j \in 1 .. Len(list) - 1 :
              RemoveAt(list, i)[j] = IF j < i THEN list[j] ELSE list[j + 1]
<1>1. PICK a, b : a = SubSeq(list, 1, i - 1) /\ b = SubSeq(list, i + 1, Len(list))
  BY Zenon
<1>2. a \in Seq(S) /\ Len(a) = i - 1 /\ \A j \in 1 .. i - 1 : a[j] = list[j]
  BY <1>1
<1>3. /\ b \in Seq(S) /\ Len(b) = Len(list) - i
      /\ \A j \in 1 .. Len(list) - i : b[j] = list[i + j]
  BY <1>1
<1>4. RemoveAt(list, i) = a \o b
  BY <1>1 DEF RemoveAt
<1>5. a \o b \in Seq(S) /\ Len(a \o b) = Len(list) - 1
  <2>1. a \in Seq(S) /\ b \in Seq(S)
    BY <1>2, <1>3
  <2>2. a \o b \in Seq(S) /\ Len(a \o b) = Len(a) + Len(b)
    BY <2>1
  <2> QED
    BY <1>2, <1>3, <2>2
<1>6. ASSUME NEW j \in 1 .. Len(list) - 1
      PROVE  (a \o b)[j] = IF j < i THEN list[j] ELSE list[j + 1]
  <2>1. (a \o b)[j] = IF j <= i - 1 THEN a[j] ELSE b[j - (i - 1)]
    BY <1>2, <1>3
  <2>2. CASE j < i
    BY <1>2, <2>1, <2>2
  <2>3. CASE ~ (j < i)
    <3>1. j - (i - 1) \in 1 .. Len(list) - i /\ i + (j - (i - 1)) = j + 1
      BY <2>3
    <3> QED
      BY <1>3, <2>1, <2>3, <3>1
  <2> QED
    BY <2>2, <2>3, Zenon
<1> QED
  BY <1>4, <1>5, <1>6

\* A list with another head.
IsHeaded(z, x, y, r) == [z EXCEPT ![1] = x] = <<x>> \o r /\ z[1] = y

LEMMA Headed ==
  ASSUME NEW S, NEW x \in S, NEW y \in S, NEW r \in Seq(S), NEW z, z = <<y>> \o r
  PROVE  IsHeaded(z, x, y, r)
<1>1. ASSUME NEW u \in S, NEW w, w = <<u>> \o r
      PROVE  /\ w \in Seq(S) /\ Len(w) = Len(r) + 1 /\ w[1] = u
             /\ \A m \in 2 .. Len(r) + 1 : w[m] = r[m - 1]
  BY <1>1
<1>2. z \in Seq(S) /\ Len(z) = Len(r) + 1 /\ z[1] = y /\ \A m \in 2 .. Len(r) + 1 : z[m] = r[m - 1]
  BY <1>1
<1>3. PICK w : w = <<x>> \o r
  OBVIOUS
<1>4. w \in Seq(S) /\ Len(w) = Len(r) + 1 /\ w[1] = x /\ \A m \in 2 .. Len(r) + 1 : w[m] = r[m - 1]
  BY <1>1, <1>3
<1>5. PICK v : v = [z EXCEPT ![1] = x]
  BY Zenon
<1>6. 1 \in 1 .. Len(z) /\ Len(r) \in Nat
  BY <1>2
<1>7. v \in Seq(S) /\ Len(v) = Len(z) /\ \A j \in 1 .. Len(z) : v[j] = IF j = 1 THEN x ELSE z[j]
  <2>1. z \in Seq(S)
    BY <1>2
  <2>2. [z EXCEPT ![1] = x] \in Seq(S)
    BY <1>6, <2>1, ExceptSeq
  <2>3. DOMAIN v = 1 .. Len(z) /\ \A j \in 1 .. Len(z) : v[j] = IF j = 1 THEN x ELSE z[j]
    <3>1. PICK n : n = Len(z) /\ z \in [1 .. n -> S]
      BY <2>1, LenProperties, ZenonT(30)
    <3> QED
      BY <1>5, <3>1, Zenon
  <2>4. Len(v) = Len(z)
    BY <1>2, <1>5, <1>6, <2>2, <2>3
  <2> QED
    BY <1>5, <2>2, <2>3, <2>4
<1>8. ASSUME NEW j \in 1 .. Len(v) PROVE v[j] = w[j]
  <2>1. j = 1 \/ j \in 2 .. Len(r) + 1
    BY <1>2, <1>6, <1>7
  <2> QED
    BY <1>2, <1>4, <1>7, <2>1, ZenonT(30)
<1>9. Len(v) = Len(w)
  BY <1>2, <1>4, <1>7
<1>10. v = w
  <2>1. v \in Seq(S) /\ w \in Seq(S)
    BY <1>4, <1>7
  <2> QED
    BY <1>8, <1>9, <2>1, SeqEqual
<1> QED
  BY <1>2, <1>3, <1>5, <1>10, Zenon DEF IsHeaded

\* A node that is moved to the front, perhaps with a new key and a new value:
\* the list holds the same nodes, and all others as they were.
IsMoved(t, n, x, list, i) ==
  /\ t \in Lists(n) /\ t[1] = x /\ 1 \in DOMAIN t
  /\ \A j \in DOMAIN list : j # i => \E m \in DOMAIN t : t[m] = list[j]

LEMMA MovedToFront ==
  ASSUME NEW n \in Nat, NEW list \in Lists(n), NEW i \in DOMAIN list,
         NEW x \in Node, x.node = list[i].node,
         NEW t, t = <<x>> \o RemoveAt(list, i)
  PROVE  IsMoved(t, n, x, list, i)
<1>1. list \in Seq(Node) /\ Len(list) = n /\ DOMAIN list = 1 .. n /\ i \in 1 .. n
  BY DEF Lists
<1>2. PICK r : r = RemoveAt(list, i)
  OBVIOUS
<1>3. /\ r \in Seq(Node) /\ Len(r) = n - 1
      /\ \A j \in 1 .. n - 1 : r[j] = IF j < i THEN list[j] ELSE list[j + 1]
  BY <1>1, <1>2, Removed, Zenon
<1>4. t \in Seq(Node) /\ Len(t) = n /\ DOMAIN t = 1 .. n /\ t[1] = x
  BY <1>1, <1>2, <1>3
<1>5. ASSUME NEW m \in 2 .. n
      PROVE  t[m] = IF m <= i THEN list[m - 1] ELSE list[m]
  <2>1. t[m] = r[m - 1] /\ m - 1 \in 1 .. n - 1 /\ (m - 1) + 1 = m
    BY <1>1, <1>2, <1>3
  <2>2. m <= i <=> m - 1 < i
    BY <1>1
  <2> QED
    BY <1>3, <2>1, <2>2, Zenon
\* Each place of t comes from a place of list of its own.
<1>6. PICK from : from = [m \in 1 .. n |-> IF m = 1 THEN i ELSE IF m <= i THEN m - 1 ELSE m]
  BY Zenon
<1>7. \A m \in 1 .. n : from[m] \in 1 .. n /\ t[m].node = list[from[m]].node
  BY <1>1, <1>4, <1>5, <1>6
<1>8. \A m, k \in 1 .. n : from[m] = from[k] => m = k
  BY <1>1, <1>6
<1>9. t \in Lists(n)
  <2>1. /\ \A k \in 1 .. n : list[k].node <= n
        /\ \A j, k \in 1 .. n : list[j].node = list[k].node => j = k
    BY <1>1 DEF Lists
  <2>2. \A m \in 1 .. n : t[m].node <= n
    BY <1>7, <2>1, Zenon
  <2>3. ASSUME NEW m \in 1 .. n, NEW k \in 1 .. n, t[m].node = t[k].node
        PROVE  m = k
    <3>1. from[m] \in 1 .. n /\ from[k] \in 1 .. n /\ list[from[m]].node = list[from[k]].node
      BY <1>7, <2>3, Zenon
    <3> QED
      BY <1>8, <2>1, <3>1
  <2> QED
    BY <1>4, <2>2, <2>3, Zenon DEF Lists
<1>10. ASSUME NEW j \in 1 .. n, j # i
       PROVE  \E m \in 1 .. n : t[m] = list[j]
  <2>1. CASE j < i
    <3>1. PICK m \in 2 .. n : m <= i /\ m - 1 = j
      <4>1. j + 1 \in 2 .. n /\ j + 1 <= i /\ (j + 1) - 1 = j
        BY <1>1, <2>1
      <4> QED
        BY <4>1
    <3>2. t[m] = IF m <= i THEN list[m - 1] ELSE list[m]
      BY <1>5, Zenon
    <3>3. m \in 1 .. n
      BY <3>1
    <3> QED
      BY <3>1, <3>2, <3>3, Zenon
  <2>2. CASE i < j
    <3>1. j \in 2 .. n /\ ~ (j <= i)
      BY <1>1, <2>2
    <3> QED
      BY <1>5, <3>1, Zenon
  <2>3. j < i \/ i < j
    BY <1>1, <1>10
  <2> QED
    BY <2>1, <2>2, <2>3, Zenon
<1>11. 1 \in 1 .. n
  BY <1>1
<1> QED
  BY <1>1, <1>4, <1>9, <1>10, <1>11, Zenon DEF IsMoved

-----------------------------------------------------------------------------
(* The cache                                                               *)

\* The place of a cached key in the list.
LEMMA Found ==
  ASSUME NEW list, NEW map, NEW vals, NEW n, Good(list, map, vals, n),
         NEW key \in Keys, map[key] # NoNode, NEW i, i = Position(list, map[key])
  PROVE  /\ i \in DOMAIN list
         /\ list[i] = [node |-> map[key], first |-> key, second |-> vals[key]]
<1>1. PICK j \in DOMAIN list : list[j] = [node |-> map[key], first |-> key, second |-> vals[key]]
  BY DEF Good, Shows
<1>2. list[j].node = map[key]
  BY <1>1
<1>3. i \in DOMAIN list /\ list[i].node = map[key]
  BY <1>2 DEF Position
<1>4. i = j
  BY <1>2, <1>3 DEF Good, Lists
<1> QED
  BY <1>1, <1>4

\* The node of a key is found and put in front with a value.
LEMMA Refreshed ==
  ASSUME NEW list, NEW map, NEW vals, NEW n, Good(list, map, vals, n),
         NEW key \in Keys, map[key] # NoNode, NEW value \in Values,
         NEW i, i = Position(list, map[key]),
         NEW x, x = [node |-> map[key], first |-> key, second |-> value],
         NEW t, t = <<x>> \o RemoveAt(list, i)
  PROVE  Good(t, map, [vals EXCEPT ![key] = value], n)
<1>1. i \in DOMAIN list /\ list[i] = [node |-> map[key], first |-> key, second |-> vals[key]]
  BY Found
<1>2. n \in Nat /\ list \in Lists(n) /\ list \in Seq(Node)
  BY LruAssumption DEF Good, Lists, LruAssumption
<1>3. list[i] \in Node
  BY <1>1, <1>2
<1>4. x \in Node /\ x.node = list[i].node
  BY <1>1, <1>3 DEF Node
<1>5. IsMoved(t, n, x, list, i)
  BY <1>1, <1>2, <1>4, MovedToFront, Zenon
<1>6. PICK w : w = [vals EXCEPT ![key] = value]
  BY Zenon
<1>7. w \in [Keys -> Values \cup {NoValue}] /\ w[key] = value /\ \A k \in Keys \ {key} : w[k] = vals[k]
  BY <1>6 DEF Good
<1>8. ASSUME NEW k \in Keys, map[k] # NoNode
      PROVE  \E m \in DOMAIN t : t[m] = [node |-> map[k], first |-> k, second |-> w[k]]
  <2>1. CASE k = key
    BY <1>5, <1>7, <2>1 DEF IsMoved
  <2>2. CASE k # key
    <3>1. PICK j \in DOMAIN list : list[j] = [node |-> map[k], first |-> k, second |-> vals[k]]
      BY <1>8 DEF Good, Shows
    <3>2. j # i
      BY <1>1, <2>2, <3>1
    <3> QED
      BY <1>5, <1>7, <2>2, <3>1, <3>2, SMTT(30) DEF IsMoved
  <2> QED
    BY <2>1, <2>2
<1> QED
  BY <1>5, <1>6, <1>7, <1>8 DEF Good, Shows, IsMoved

\* Get.
LEMMA TouchGood ==
  ASSUME NEW list, NEW map, NEW vals, NEW n, Good(list, map, vals, n),
         NEW key \in Keys, map[key] # NoNode
  PROVE  Good(Touch(list, map[key]), map, vals, n)
<1>1. PICK i, x : i = Position(list, map[key]) /\ x = list[i]
  OBVIOUS
<1>2. i \in DOMAIN list /\ x = [node |-> map[key], first |-> key, second |-> vals[key]]
  BY <1>1, Found
<1>3. vals[key] \in Values
  <2>1. list \in Seq(Node)
    BY DEF Good, Lists
  <2>2. list[i] \in Node
    BY <1>2, <2>1, Element
  <2> QED
    BY <1>1, <1>2, <2>2 DEF Node
<1>4. Touch(list, map[key]) = <<x>> \o RemoveAt(list, i)
  BY <1>1, Zenon DEF Touch, Splice
<1>5. Good(<<x>> \o RemoveAt(list, i), map, [vals EXCEPT ![key] = vals[key]], n)
  BY <1>1, <1>2, <1>3, Refreshed, Zenon
<1>6. [vals EXCEPT ![key] = vals[key]] = vals
  BY DEF Good
<1> QED
  BY <1>4, <1>5, <1>6

\* Set of a cached key.
LEMMA UpdateGood ==
  ASSUME NEW list, NEW map, NEW vals, NEW n, Good(list, map, vals, n),
         NEW key \in Keys, map[key] # NoNode, NEW value \in Values
  PROVE  Good([Touch(list, map[key]) EXCEPT ![1].second = value], map,
              [vals EXCEPT ![key] = value], n)
<1>1. PICK i, y, x, r : /\ i = Position(list, map[key]) /\ y = list[i]
                        /\ x = [node |-> map[key], first |-> key, second |-> value]
                        /\ r = RemoveAt(list, i)
  BY Zenon
<1>2. i \in DOMAIN list /\ y = [node |-> map[key], first |-> key, second |-> vals[key]]
  BY <1>1, Found
<1>3. list \in Seq(Node)
  BY DEF Good, Lists
<1>4. y \in Node /\ r \in Seq(Node)
  <2>1. i \in 1 .. Len(list)
    BY <1>2, <1>3
  <2>2. RemoveAt(list, i) \in Seq(Node)
    BY <1>3, <2>1, Removed
  <2> QED
    BY <1>1, <1>2, <1>3, <2>2, Element, Zenon
<1>5. x \in Node /\ x = [y EXCEPT !.second = value]
  BY <1>1, <1>2, <1>4 DEF Node
<1>6. PICK z : z = <<y>> \o r /\ z = Touch(list, map[key])
  BY <1>1, Zenon DEF Touch, Splice
<1>7. IsHeaded(z, x, y, r)
  BY <1>4, <1>5, <1>6, Headed, Zenon
<1>8. [z EXCEPT ![1].second = value] = <<x>> \o r
  BY <1>5, <1>7 DEF IsHeaded
<1>9. Good(<<x>> \o r, map, [vals EXCEPT ![key] = value], n)
  BY <1>1, Refreshed, Zenon
<1> QED
  BY <1>6, <1>8, <1>9, Zenon

\* Set of a key that enters below capacity.
LEMMA InsertGood ==
  ASSUME NEW list, NEW map, NEW vals, NEW n, Good(list, map, vals, n), n < capacity,
         NEW key \in Keys, map[key] = NoNode, NEW value \in Values
  PROVE  Good(<<[node |-> n + 1, first |-> key, second |-> value]>> \o list,
              [map EXCEPT ![key] = n + 1], [vals EXCEPT ![key] = value], n + 1)
<1>1. PICK x, t, new, w : /\ x = [node |-> n + 1, first |-> key, second |-> value]
                          /\ t = <<x>> \o list
                          /\ new = [map EXCEPT ![key] = n + 1]
                          /\ w = [vals EXCEPT ![key] = value]
  BY Zenon
<1>2. n \in Nat /\ n + 1 \in 0 .. capacity /\ n + 1 # NoNode
  BY LruAssumption DEF Good, LruAssumption, NoNode
<1>3. list \in Seq(Node) /\ Len(list) = n /\ DOMAIN list = 1 .. n
  BY DEF Good, Lists
<1>4. x \in Node
  BY <1>1, <1>2 DEF Node
<1>5. t \in Seq(Node) /\ Len(t) = n + 1 /\ DOMAIN t = 1 .. n + 1 /\ t[1] = x
  BY <1>1, <1>3, <1>4
<1>6. \A m \in 2 .. n + 1 : t[m] = list[m - 1] /\ m - 1 \in 1 .. n
  BY <1>1, <1>2, <1>3, <1>4, SMTT(30)
<1>7. t \in Lists(n + 1)
  <2>1. /\ \A j \in 1 .. n : list[j].node <= n
        /\ \A j, k \in 1 .. n : list[j].node = list[k].node => j = k
    BY <1>3 DEF Good, Lists
  <2>2. \A j \in 1 .. n : list[j].node \in Nat
    BY <1>3, Element, Zenon DEF Node
  <2>3. t[1].node = n + 1
    BY <1>1, <1>5
  <2>4. \A m \in 1 .. n + 1 : m = 1 \/ m \in 2 .. n + 1
    BY <1>2
  <2>5. \A m \in 2 .. n + 1 : t[m].node <= n /\ t[m].node \in Nat
    BY <1>6, <2>1, <2>2
  <2>6. \A m \in 1 .. n + 1 : t[m].node <= n + 1
    BY <1>2, <2>3, <2>4, <2>5, SMTT(30)
  <2>7. ASSUME NEW m \in 1 .. n + 1, NEW k \in 1 .. n + 1, t[m].node = t[k].node
        PROVE  m = k
    <3>1. m = 1 <=> k = 1
      BY <1>2, <2>3, <2>4, <2>5, <2>7, SMTT(30)
    <3>2. CASE m \in 2 .. n + 1 /\ k \in 2 .. n + 1
      <4>1. m - 1 = k - 1
        BY <1>6, <2>1, <2>7, <3>2
      <4> QED
        BY <3>2, <4>1
    <3> QED
      BY <2>4, <3>1, <3>2
  <2> QED
    BY <1>5, <2>6, <2>7 DEF Lists
<1>8. /\ new \in [Keys -> Nat] /\ new[key] = n + 1 /\ \A k \in Keys \ {key} : new[k] = map[k]
      /\ w \in [Keys -> Values \cup {NoValue}] /\ w[key] = value
      /\ \A k \in Keys \ {key} : w[k] = vals[k]
  BY <1>1, <1>2 DEF Good
<1>9. ASSUME NEW k \in Keys, new[k] # NoNode
      PROVE  \E m \in DOMAIN t : t[m] = [node |-> new[k], first |-> k, second |-> w[k]]
  <2>1. CASE k = key
    <3>1. 1 \in DOMAIN t
      BY <1>2, <1>5
    <3> QED
      BY <1>1, <1>5, <1>8, <2>1, <3>1
  <2>2. CASE k # key
    <3>1. PICK j \in DOMAIN list : list[j] = [node |-> map[k], first |-> k, second |-> vals[k]]
      BY <1>8, <1>9, <2>2 DEF Good, Shows
    <3>2. PICK m \in 2 .. n + 1 : m - 1 = j
      <4>1. j + 1 \in 2 .. n + 1 /\ (j + 1) - 1 = j
        BY <1>2, <1>3
      <4> QED
        BY <4>1
    <3>3. m \in DOMAIN t
      BY <1>5
    <3>4. t[m] = list[j]
      BY <1>6, <3>2
    <3> QED
      BY <1>8, <2>2, <3>1, <3>3, <3>4, ZenonT(30)
  <2> QED
    BY <2>1, <2>2
<1>10. Good(t, new, w, n + 1)
  BY <1>2, <1>7, <1>8, <1>9 DEF Good, Shows
<1> QED
  BY <1>1, <1>10

\* Set at capacity: the last node is given to a key that has its value already.
LEMMA ReuseGood ==
  ASSUME NEW list, NEW map, NEW vals, NEW n, Good(list, map, vals, n), n # 0,
         NEW key \in Keys, NEW value \in Values, vals[key] = value,
         NEW back, back = Last(list)
  PROVE  /\ Good([Splice(list, Len(list)) EXCEPT ![1].first = key, ![1].second = value],
                 Emplace(Evict(map, back.first), key, back.node), vals, n)
         /\ back \in Node
<1>1. list \in Lists(n) /\ list \in Seq(Node) /\ Len(list) = n /\ DOMAIN list = 1 .. n
      /\ n \in Nat /\ n \in DOMAIN list
  BY LruAssumption DEF Good, Lists, LruAssumption
<1>2. back = list[n] /\ back \in Node
  BY <1>1, Element DEF Last
<1>3. PICK x, r, z : /\ x = [node |-> back.node, first |-> key, second |-> value]
                     /\ r = RemoveAt(list, n) /\ z = <<back>> \o r
  BY Zenon
<1>4. r \in Seq(Node)
  BY <1>1, <1>3, Removed
<1>5. x \in Node /\ x.node = list[n].node
  BY <1>2, <1>3 DEF Node
<1>6. x = [back EXCEPT !.first = key, !.second = value]
  <2>1. PICK m, f, s : back = [node |-> m, first |-> f, second |-> s]
    BY <1>2, Zenon DEF Node
  <2>2. x = [node |-> m, first |-> key, second |-> value]
    BY <1>3, <2>1
  <2>3. [back EXCEPT !.first = key] = [node |-> m, first |-> key, second |-> s]
    BY <2>1
  <2>4. [[node |-> m, first |-> key, second |-> s] EXCEPT !.second = value] = x
    BY <2>2
  <2> QED
    BY <2>3, <2>4, Zenon
<1>7. PICK t : t = <<x>> \o r
  BY Zenon
<1>8. [Splice(list, Len(list)) EXCEPT ![1].first = key, ![1].second = value] = t
  <2>1. Splice(list, Len(list)) = z
    BY <1>1, <1>2, <1>3 DEF Splice
  <2>2. IsHeaded(z, x, back, r)
    BY <1>2, <1>3, <1>4, <1>5, Headed, Zenon
  <2>3. z[1] = back /\ [z EXCEPT ![1] = x] = t
    BY <1>7, <2>2 DEF IsHeaded
  <2>4. [z EXCEPT ![1].first = key, ![1].second = value] = [z EXCEPT ![1] = x]
    <3>1. z \in Seq(Node) /\ 1 \in DOMAIN z
      BY <1>2, <1>3, <1>4
    <3> QED
      BY <1>2, <1>6, <2>3, <3>1, Zenon DEF Node
  <2> QED
    BY <2>1, <2>3, <2>4
<1>9. IsMoved(t, n, x, list, n)
  BY <1>1, <1>3, <1>5, <1>7, MovedToFront, Zenon
<1>10. PICK evicted, new : /\ evicted = Evict(map, back.first)
                           /\ new = Emplace(evicted, key, back.node)
  OBVIOUS
<1>11. /\ back.first \in Keys /\ back.node \in Nat \ {0}
       /\ map \in [Keys -> Nat]
  BY <1>2 DEF Node, Good
<1>12. evicted \in [Keys -> Nat] /\ \A k \in Keys : evicted[k] = IF k = back.first THEN NoNode ELSE map[k]
  BY <1>10, <1>11, Zenon DEF Evict, NoNode
<1>13. /\ new \in [Keys -> Nat]
       /\ new[key] = IF key = back.first \/ map[key] = NoNode THEN back.node ELSE map[key]
       /\ \A k \in Keys \ {key} : new[k] = IF k = back.first THEN NoNode ELSE map[k]
  BY <1>10, <1>11, <1>12, Zenon DEF Emplace
\* A key that keeps its entry has a node that is not the last one.
<1>14. ASSUME NEW k \in Keys, k # back.first, map[k] # NoNode
       PROVE  \E m \in DOMAIN t : t[m] = [node |-> map[k], first |-> k, second |-> vals[k]]
  <2>1. PICK j \in DOMAIN list : list[j] = [node |-> map[k], first |-> k, second |-> vals[k]]
    BY <1>14 DEF Good, Shows
  <2>2. j # n
    BY <1>2, <1>14, <2>1, SMTT(30)
  <2> QED
    BY <1>9, <2>1, <2>2, Zenon DEF IsMoved
<1>15. ASSUME NEW k \in Keys, new[k] # NoNode
       PROVE  \E m \in DOMAIN t : t[m] = [node |-> new[k], first |-> k, second |-> vals[k]]
  <2>1. CASE k = key /\ (key = back.first \/ map[key] = NoNode)
    BY <1>3, <1>9, <1>13, <2>1, Zenon DEF IsMoved
  <2>2. CASE ~ (k = key /\ (key = back.first \/ map[key] = NoNode))
    <3>1. k # back.first /\ new[k] = map[k]
      BY <1>13, <1>15, <2>2
    <3> QED
      BY <1>14, <1>15, <3>1, Zenon
  <2> QED
    BY <2>1, <2>2
<1>16. Good(t, new, vals, n)
  BY <1>9, <1>13, <1>15 DEF Good, Shows, IsMoved
<1> QED
  BY <1>2, <1>8, <1>10, <1>16, Zenon

-----------------------------------------------------------------------------
(* The invariant                                                           *)

LEMMA InitInv == Init => LruInv
<1> SUFFICES ASSUME Init PROVE LruInv
  OBVIOUS
<1>1. <<>> \in Lists(0)
  BY DEF Lists
<1> QED
  BY <1>1, LruAssumption DEF Init, LruInv, Good, Shows, LruAssumption, NoNode

\* What Set does to the map: the key is in it, and no other key enters.
Entered(key) ==
  /\ cache'[key] # NoNode
  /\ \A j \in Keys \ {key} : cache[j] = NoNode => cache'[j] = NoNode

LEMMA GrowingStep ==
  ASSUME LruInv, NEW key \in Keys, NEW value \in Values, SetGrowing(key, value)
  PROVE  LruInv' /\ Entered(key)
<1>1. cache \in [Keys -> Nat] /\ cur_size + 1 # NoNode
  BY LruAssumption DEF LruInv, Good, LruAssumption, NoNode
<1>2. CASE key \in Cached
  <2>1. Good([Touch(kv_node, cache[key]) EXCEPT ![1].second = value], cache,
             [last EXCEPT ![key] = value], cur_size)
    BY <1>2, UpdateGood DEF LruInv, Cached
  <2> QED
    BY <1>2, <2>1 DEF SetGrowing, LruInv, Entered, Cached
<1>3. CASE key \notin Cached
  <2>1. cache[key] = NoNode /\ cur_size < capacity
    BY <1>3 DEF Cached, SetGrowing
  <2>2. Good(<<[node |-> cur_size + 1, first |-> key, second |-> value]>> \o kv_node,
             [cache EXCEPT ![key] = cur_size + 1], [last EXCEPT ![key] = value], cur_size + 1)
    BY <2>1, InsertGood DEF LruInv
  <2>3. cache' = [cache EXCEPT ![key] = cur_size + 1]
    BY <1>3 DEF SetGrowing
  <2>4. Entered(key)
    BY <1>1, <2>3 DEF Entered
  <2> QED
    BY <1>3, <2>2, <2>4, Zenon DEF SetGrowing, LruInv
<1> QED
  BY <1>2, <1>3

LEMMA FullStep ==
  ASSUME LruInv, NEW key \in Keys, NEW value \in Values, SetFull(key, value)
  PROVE  LruInv' /\ Entered(key)
<1>1. PICK w, list, back :
        /\ w = [last EXCEPT ![key] = value]
        /\ list = IF key \in Cached THEN [Touch(kv_node, cache[key]) EXCEPT ![1].second = value]
                  ELSE kv_node
        /\ back = Last(list)
  BY Zenon
<1>2. /\ kv_node' = [Splice(list, Len(list)) EXCEPT ![1].first = key, ![1].second = value]
      /\ cache' = Emplace(Evict(cache, back.first), key, back.node)
      /\ last' = w /\ cur_size' = cur_size /\ cur_size # 0
  BY <1>1, LruAssumption DEF SetFull, LruAssumption, LruInv, Good
<1>3. w[key] = value /\ w \in [Keys -> Values \cup {NoValue}] /\ \A k \in Keys \ {key} : w[k] = last[k]
  BY <1>1 DEF LruInv, Good
<1>4. Good(list, cache, w, cur_size)
  <2>1. CASE key \in Cached
    BY <1>1, <2>1, UpdateGood, Zenon DEF LruInv, Cached
  <2>2. CASE key \notin Cached
    <3>1. \A k \in Keys : cache[k] # NoNode => w[k] = last[k]
      BY <1>3, <2>2 DEF Cached
    <3> QED
      BY <1>1, <1>3, <2>2, <3>1 DEF LruInv, Good, Shows
  <2> QED
    BY <2>1, <2>2
<1>5. /\ Good([Splice(list, Len(list)) EXCEPT ![1].first = key, ![1].second = value],
              Emplace(Evict(cache, back.first), key, back.node), w, cur_size)
      /\ back \in Node
  <2>1. w[key] = value /\ cur_size # 0 /\ back = Last(list)
    BY <1>1, <1>2, <1>3
  <2> QED
    BY <1>4, <2>1, ReuseGood, ZenonT(30)
<1>6. PICK evicted : evicted = Evict(cache, back.first)
  OBVIOUS
<1>7. back.first \in Keys /\ back.node \in Nat \ {0} /\ cache \in [Keys -> Nat]
  BY <1>4, <1>5 DEF Node, Good
<1>8. evicted \in [Keys -> Nat] /\ \A k \in Keys : cache[k] = NoNode => evicted[k] = NoNode
  BY <1>6, <1>7 DEF Evict, NoNode
<1>9. Entered(key)
  BY <1>2, <1>6, <1>7, <1>8, Zenon DEF Entered, Emplace, NoNode
<1> QED
  BY <1>2, <1>5, <1>9 DEF LruInv

LEMMA NextInv ==
  ASSUME LruInv, [Next]_vars
  PROVE  LruInv'
<1>1. ASSUME NEW key \in Keys, Get(key)
      PROVE  LruInv'
  <2>1. Good(Touch(kv_node, cache[key]), cache, last, cur_size)
    BY <1>1, TouchGood DEF LruInv, Get, Cached
  <2> QED
    BY <1>1, <2>1 DEF LruInv, Get
<1>2. ASSUME NEW key \in Keys, NEW value \in Values, Set(key, value)
      PROVE  LruInv'
  BY <1>2, GrowingStep, FullStep DEF Set
<1>3. CASE Reset
  <2>1. Init'
    BY <1>3 DEF Reset, Init
  <2>2. <<>> \in Lists(0)
    BY DEF Lists
  <2> QED
    BY <2>1, <2>2, LruAssumption DEF Init, LruInv, Good, Shows, LruAssumption, NoNode
<1>4. CASE UNCHANGED vars
  BY <1>4 DEF vars, LruInv
<1> QED
  BY <1>1, <1>2, <1>3, <1>4 DEF Next

\* LRUCache::Get finds a key at its own node, with the value of the last Set of
\* that key, for every capacity: neither the splices nor the reuse of a node for
\* another key leaves a stale iterator in the map.
THEOREM GetIsRight == Spec => []GetReturnsLastSet
<1>1. LruInv => GetReturnsLastSet
  BY DEF LruInv, Good, Shows, GetReturnsLastSet, Cached
<1> QED
  BY <1>1, InitInv, NextInv, PTL DEF Spec

\* LRUCache::Set leaves its key in the map, also at capacity, where it erases the
\* key of the node that it reuses, perhaps its own, and lets no other key in.
THEOREM SetIsSeen == Spec => SetIsReadable
<1>1. LruInv /\ [Next]_vars
        => [\A k \in Keys, v \in Values : Set(k, v) => cache'[k] # NoNode
              /\ \A j \in Keys \ {k} : cache[j] = NoNode => cache'[j] = NoNode]_vars
  BY GrowingStep, FullStep DEF Set, Entered
<1> QED
  BY <1>1, InitInv, NextInv, PTL DEF Spec, SetIsReadable
=============================================================================
