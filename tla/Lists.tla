-------------------------------- MODULE Lists -------------------------------
(* What the list and queue macros of nty_queue.h promise their caller: under *)
(* every head a sequence, every element in at most one of them.              *)
EXTENDS Sequences, SequencesExt

CONSTANTS Items, Heads

VARIABLE lists   \* [Heads -> Seq(Items)]

Linked == UNION {ToSet(lists[h]) : h \in Heads}

Init == lists = [h \in Heads |-> <<>>]

\* x is put into the list of h so that it is at place i.
PutIn(h, i, x) ==
    /\ x \notin Linked
    /\ lists' = [lists EXCEPT ![h] = InsertAt(@, i, x)]

TakeOut(h, x) ==
    /\ x \in ToSet(lists[h])
    /\ lists' = [lists EXCEPT ![h] = SelectSeq(@, LAMBDA y : y # x)]

Concat(h, g) ==
    /\ h # g
    /\ lists' = [lists EXCEPT ![h] = @ \o lists[g], ![g] = <<>>]

Swap(h, g) == lists' = [lists EXCEPT ![h] = lists[g], ![g] = lists[h]]

Next ==
    \E h \in Heads :
        \/ \E x \in Items : TakeOut(h, x) \/ \E i \in 1 .. Len(lists[h]) + 1 : PutIn(h, i, x)
        \/ \E g \in Heads : Concat(h, g) \/ Swap(h, g)

Spec == Init /\ [][Next]_lists
=============================================================================
