---------------------------- MODULE BoundedQueue ----------------------------
(***************************************************************************)
(* What BlockQueue (TinyWebServer/log/block_queue.h) promises its users: a *)
(* bounded first-in first-out queue whose operations are atomic.           *)
(***************************************************************************)
EXTENDS Sequences, Naturals

CONSTANTS Items,      \* what is queued
          Takers,     \* the threads that pop
          Clearers,   \* the threads that clear, if any
          MaxSize,    \* m_max_size
          NoItem      \* a taker that holds nothing

VARIABLES items,      \* the queue, oldest item first
          taken       \* the item each taker has popped and not yet given up

vars == <<items, taken>>

Init == /\ items = <<>>
        /\ taken = [c \in Takers |-> NoItem]

\* push() accepts an item.  A push() that is refused changes nothing.
Put(x) == /\ Len(items) < MaxSize
          /\ items' = Append(items, x)
          /\ UNCHANGED taken

Take(c) == /\ items # <<>>
           /\ taken[c] = NoItem
           /\ taken' = [taken EXCEPT ![c] = Head(items)]
           /\ items' = Tail(items)

GiveUp(c) == /\ taken[c] # NoItem
             /\ taken' = [taken EXCEPT ![c] = NoItem]
             /\ UNCHANGED items

Clear == /\ items' = <<>>
         /\ UNCHANGED taken

Next == \/ \E x \in Items : Put(x)
        \/ \E c \in Takers : Take(c) \/ GiveUp(c)
        \/ Clearers # {} /\ Clear

Spec == Init /\ [][Next]_vars
=============================================================================
