------------------------------ MODULE LRUCache ------------------------------
(***************************************************************************)
(* LRUCache of algo/Ya_10.cpp: a hash table from keys to the nodes of a    *)
(* doubly linked list between two dummy nodes.  A call is one step.        *)
(*                                                                         *)
(* A node is named by its key (the table holds at most one per key) and    *)
(* has fields only while it is allocated.                                  *)
(***************************************************************************)
EXTENDS Integers, FiniteSets, Functions, SequencesExt

CONSTANTS CacheKeys, CacheValues,
          Capacities,      \* the arguments of the constructor
          Dhead, Dtail,      \* the dummy nodes
          NullNode

ASSUME CacheAssumption == /\ IsFiniteSet(CacheKeys)
                          /\ CacheValues \subseteq Nat
                          /\ Capacities \subseteq Int
                          /\ {Dhead, Dtail, NullNode} \cap CacheKeys = {}
                          /\ Cardinality({Dhead, Dtail, NullNode}) = 3

VARIABLES capacity,
          lru,      \* next and prev of the allocated nodes, value of the keyed ones
          cache,    \* the keys in the hash table
          lruSize,
          found     \* what the last get() returned

lruVars == <<capacity, lru, cache, lruSize, found>>

\* The constructor.
LRUInit ==
    /\ capacity \in Capacities
    /\ lru = [next |-> (Dhead :> Dtail) @@ (Dtail :> NullNode),
              prev |-> (Dhead :> NullNode) @@ (Dtail :> Dhead),
              value |-> <<>>]
    /\ cache = {}
    /\ lruSize = 0
    /\ found = -1

addToHead(l, node) ==
    LET first == l.next[Dhead]
    IN  [l EXCEPT !.next = (node :> first) @@ (Dhead :> node) @@ @,
                  !.prev = (node :> Dhead) @@ (first :> node) @@ @]

removeNode(l, node) ==
    [l EXCEPT !.next[l.prev[node]] = l.next[node], !.prev[l.next[node]] = l.prev[node]]

\* Fault: a use does not count.
Fault_NotMoved(l, node) == l

moveToHead(l, node) == addToHead(removeNode(l, node), node)

deleteNode(l, node) ==
    LET kept(f) == Restrict(f, DOMAIN f \ {node})
    IN  [next |-> kept(l.next), prev |-> kept(l.prev), value |-> kept(l.value)]

LRU_get(key) ==
    /\ IF key \in cache
       THEN /\ lru' = moveToHead(lru, key)
            /\ found' = lru.value[key]
       ELSE found' = -1 /\ UNCHANGED lru
    /\ UNCHANGED <<cache, lruSize>>

\* Fault: the key stays in the table when its node is deleted.
Fault_EraseForgotten(key, value) ==
    /\ key \notin cache
    /\ LET l       == addToHead([lru EXCEPT !.value = (key :> value) @@ @], key)
           removed == l.prev[Dtail]
       IN  IF lruSize + 1 > capacity
           THEN /\ lru' = deleteNode(removeNode(l, removed), removed)
                /\ cache' = cache \cup {key}
                /\ UNCHANGED lruSize
           ELSE lru' = l /\ cache' = cache \cup {key} /\ lruSize' = lruSize + 1
    /\ UNCHANGED found

\* put() of a key that is not there: a new node, and beyond the capacity the last
\* node is taken off the list and the table.
LRU_putNew(key, value) ==
    /\ key \notin cache
    /\ LET l       == addToHead([lru EXCEPT !.value = (key :> value) @@ @], key)
           removed == l.prev[Dtail]
       IN  IF lruSize + 1 > capacity
           THEN /\ lru' = deleteNode(removeNode(l, removed), removed)
                /\ cache' = (cache \cup {key}) \ {removed}
                /\ UNCHANGED lruSize
           ELSE lru' = l /\ cache' = cache \cup {key} /\ lruSize' = lruSize + 1
    /\ UNCHANGED found

LRU_putOld(key, value) ==
    /\ key \in cache
    /\ lru' = moveToHead([lru EXCEPT !.value[key] = value], key)
    /\ UNCHANGED <<cache, lruSize, found>>

\* The nodes from n on, along next or prev; cut off in a cycle.
RECURSIVE NodesFrom(_, _, _)
NodesFrom(f, n, k) == IF n = NullNode \/ k = 0 THEN <<>> ELSE <<n>> \o NodesFrom(f, f[n], k - 1)

AllNodes(f, n) == NodesFrom(f, n, Cardinality(CacheKeys) + 3)

\* ~LRUCache: the loop deletes every node it meets from head on.
LRU_destroy ==
    /\ Dhead \in DOMAIN lru.next
    /\ LET freed == ToSet(AllNodes(lru.next, Dhead))
           left(f) == Restrict(f, DOMAIN f \ freed)
       IN  lru' = [next |-> left(lru.next), prev |-> left(lru.prev), value |-> left(lru.value)]
    /\ cache' = {}
    /\ UNCHANGED <<lruSize, found>>

Alive == Dhead \in DOMAIN lru.next

LRUNext ==
    /\ \/ /\ Alive
          /\ \E k \in CacheKeys : \/ LRU_get(k)
                                 \/ \E v \in CacheValues : LRU_putNew(k, v) \/ LRU_putOld(k, v)
       \/ LRU_destroy
    /\ UNCHANGED capacity

-----------------------------------------------------------------------------
(* Properties *)

Chain == IF Alive THEN AllNodes(lru.next, Dhead) ELSE <<>>

\* The list seen from the head is what an ideal cache would hold, most recent
\* first, and get() answers as it would: evictions hit the least recently used
\* key and no other.
Ideal == INSTANCE RecencyCache
           WITH recent <- [i \in 1 .. Len(Chain) - 2 |->
                             [key |-> Chain[i + 1], value |-> lru.value[Chain[i + 1]]]],
                answer <- found
LRUForgetsOldest == Ideal!Spec

\* The two directions of the list agree, its nodes are those of the table, size
\* counts them and never exceeds the capacity: no node is lost or left dangling.
LRULinked ==
    Alive => /\ ToSet(Chain) = cache \cup {Dhead, Dtail}
             /\ DOMAIN lru.next = ToSet(Chain)
             /\ Reverse(Chain) = AllNodes(lru.prev, Dtail)
             /\ lruSize = Cardinality(cache)
             /\ lruSize = 0 \/ lruSize <= capacity

\* The destructor frees every node: no allocation outlives the cache.
LRUAllFreed == ~Alive => DOMAIN lru.next = {} /\ DOMAIN lru.value = {}

\* The list, the table and the counter of the cache agree as long as it lives,
\* whatever was evicted, and its destructor leaves no node behind.
LRUStructureRight == LRULinked /\ LRUAllFreed
=============================================================================
