---------------------------- MODULE RecencyCache ----------------------------
(* What a cache that forgets the least recently used key promises: the keys  *)
(* with their values, the most recently used first.                          *)
EXTENDS Integers, SequencesExt

CONSTANTS CacheKeys, CacheValues, Capacities

VARIABLES capacity,
          recent,   \* sequence of [key, value]
          answer    \* what the last get() found, or -1

Entry(k) == SelectSeq(recent, LAMBDA e : e.key = k)
Without(k) == SelectSeq(recent, LAMBDA e : e.key # k)

Init == capacity \in Capacities /\ recent = <<>> /\ answer = -1

Get(k) ==
    /\ recent' = Entry(k) \o Without(k)
    /\ answer' = IF Entry(k) = <<>> THEN -1 ELSE Entry(k)[1].value

\* The new entry comes first; the last one goes when there are too many.
Put(k, v) ==
    LET all == <<[key |-> k, value |-> v]>> \o Without(k)
    IN  /\ recent' = IF Len(all) > capacity THEN Front(all) ELSE all
        /\ UNCHANGED answer

Clear == recent' = <<>> /\ UNCHANGED answer

Next == /\ \/ \E k \in CacheKeys : Get(k) \/ \E v \in CacheValues : Put(k, v)
           \/ Clear
        /\ UNCHANGED capacity

Spec == Init /\ [][Next]_<<capacity, recent, answer>>
=============================================================================
