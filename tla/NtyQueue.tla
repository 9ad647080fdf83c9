------------------------------ MODULE NtyQueue ------------------------------
(***************************************************************************)
(* The four kinds of list of kvstore/NtyCo/core/nty_queue.h: SLIST, STAILQ,*)
(* LIST and TAILQ, at the level of their pointers.  A macro is one step of *)
(* the one thread that owns the list.                                      *)
(*                                                                         *)
(* The macros keep addresses of pointers.  Here a head h stands for the    *)
(* address of its "first" and an element e for the address of its "next",  *)
(* so link[a] is *a: link[h] is the first element, link[e] the one behind  *)
(* e.  last[h] is stqh_last or tqh_last, back[e] is le_prev or tqe_prev,   *)
(* both such addresses.  An element outside every list has no fields.      *)
(***************************************************************************)
EXTENDS Integers, FiniteSets, Functions, SequencesExt

CONSTANTS Items, Heads,
          NoItem   \* NULL

ASSUME QueueAssumption == /\ IsFiniteSet(Items)
                          /\ NoItem \notin Items \cup Heads
                          /\ Items \cap Heads = {}

VARIABLES qkind,   \* which of the four kinds the program declared
          ql       \* link, last and back

qVars == <<qkind, ql>>

Kinds == {"SLIST", "STAILQ", "LIST", "TAILQ"}

HasLast(k) == k \in {"STAILQ", "TAILQ"}
HasBack(k) == k \in {"LIST", "TAILQ"}

InList == DOMAIN ql.link \ Heads

\* "*a = v", "head->last = a" and "e->prev = a"
SetLink(l, a, v) == [l EXCEPT !.link = (a :> v) @@ @]
SetLast(l, h, a) == [l EXCEPT !.last[h] = a]
SetBack(l, e, a) == [l EXCEPT !.back = (e :> a) @@ @]

\* The element whose "next" is the one at e, from curelm on.
RECURSIVE Before(_, _, _)
Before(l, curelm, e) == IF l.link[curelm] = e THEN curelm ELSE Before(l, l.link[curelm], e)

\* The heads h1 and h2 exchange their fields.
Exchange(l, h1, h2) ==
    [l EXCEPT !.link = [@ EXCEPT ![h1] = l.link[h2], ![h2] = l.link[h1]],
              !.last = [@ EXCEPT ![h1] = l.last[h2], ![h2] = l.last[h1]]]

-----------------------------------------------------------------------------
(* SLIST *)

SLIST_INSERT_AFTER(l, slistelm, e) == SetLink(SetLink(l, e, l.link[slistelm]), slistelm, e)

SLIST_INSERT_HEAD(l, h, e) == SetLink(SetLink(l, e, l.link[h]), h, e)

SLIST_REMOVE_AFTER(l, e) == SetLink(l, e, l.link[l.link[e]])

SLIST_REMOVE_HEAD(l, h) == SetLink(l, h, l.link[l.link[h]])

SLIST_REMOVE(l, h, e) ==
    IF l.link[h] = e THEN SLIST_REMOVE_HEAD(l, h)
    ELSE SLIST_REMOVE_AFTER(l, Before(l, l.link[h], e))

-----------------------------------------------------------------------------
(* STAILQ *)

STAILQ_INIT(l, h) == SetLast(SetLink(l, h, NoItem), h, h)

STAILQ_CONCAT(l, h1, h2) ==
    IF l.link[h2] = NoItem THEN l
    ELSE STAILQ_INIT(SetLast(SetLink(l, l.last[h1], l.link[h2]), h1, l.last[h2]), h2)

STAILQ_INSERT_AFTER(l, h, tqelm, e) ==
    LET l1 == SetLink(l, e, l.link[tqelm])
    IN  SetLink(IF l1.link[e] = NoItem THEN SetLast(l1, h, e) ELSE l1, tqelm, e)

STAILQ_INSERT_HEAD(l, h, e) ==
    LET l1 == SetLink(l, e, l.link[h])
    IN  SetLink(IF l1.link[e] = NoItem THEN SetLast(l1, h, e) ELSE l1, h, e)

STAILQ_INSERT_TAIL(l, h, e) == SetLast(SetLink(SetLink(l, e, NoItem), l.last[h], e), h, e)

STAILQ_LAST(l, h) == IF l.link[h] = NoItem THEN NoItem ELSE l.last[h]

STAILQ_REMOVE_HEAD(l, h) ==
    LET l1 == SetLink(l, h, l.link[l.link[h]])
    IN  IF l1.link[h] = NoItem THEN SetLast(l1, h, h) ELSE l1

\* Fault: the queue's end stays at the element that is taken out.
Fault_RemoveKeepsLast(l, h, e) == SetLink(l, e, l.link[l.link[e]])

STAILQ_REMOVE_AFTER(l, h, e) ==
    LET l1 == SetLink(l, e, l.link[l.link[e]])
    IN  IF l1.link[e] = NoItem THEN SetLast(l1, h, e) ELSE l1

STAILQ_REMOVE(l, h, e) ==
    IF l.link[h] = e THEN STAILQ_REMOVE_HEAD(l, h)
    ELSE STAILQ_REMOVE_AFTER(l, h, Before(l, l.link[h], e))

\* An end that pointed into the other head is turned to its own.
STAILQ_SWAP(l, h1, h2) ==
    LET l1 == Exchange(l, h1, h2)
        l2 == IF l1.link[h1] = NoItem THEN SetLast(l1, h1, h1) ELSE l1
    IN  IF l2.link[h2] = NoItem THEN SetLast(l2, h2, h2) ELSE l2

-----------------------------------------------------------------------------
(* LIST *)

LIST_INSERT_AFTER(l, listelm, e) ==
    LET l1 == SetLink(l, e, l.link[listelm])
        l2 == IF l1.link[e] # NoItem THEN SetBack(l1, l.link[listelm], e) ELSE l1
    IN  SetBack(SetLink(l2, listelm, e), e, listelm)

LIST_INSERT_BEFORE(l, listelm, e) ==
    LET l1 == SetLink(SetBack(l, e, l.back[listelm]), e, listelm)
    IN  SetBack(SetLink(l1, l.back[listelm], e), listelm, e)

LIST_INSERT_HEAD(l, h, e) ==
    LET l1 == SetLink(l, e, l.link[h])
        l2 == IF l1.link[e] # NoItem THEN SetBack(l1, l.link[h], e) ELSE l1
    IN  SetBack(SetLink(l2, h, e), e, h)

LIST_REMOVE(l, e) ==
    LET l1 == IF l.link[e] # NoItem THEN SetBack(l, l.link[e], l.back[e]) ELSE l
    IN  SetLink(l1, l.back[e], l.link[e])

LIST_SWAP(l, h1, h2) ==
    LET l1 == SetLink(SetLink(l, h1, l.link[h2]), h2, l.link[h1])
        l2 == IF l1.link[h1] # NoItem THEN SetBack(l1, l1.link[h1], h1) ELSE l1
    IN  IF l2.link[h2] # NoItem THEN SetBack(l2, l2.link[h2], h2) ELSE l2

-----------------------------------------------------------------------------
(* TAILQ *)

TAILQ_INIT(l, h) == SetLast(SetLink(l, h, NoItem), h, h)

\* Fault: the first element of the list that moves keeps its old predecessor.
Fault_ConcatNoBack(l, h1, h2) == STAILQ_CONCAT(l, h1, h2)

TAILQ_CONCAT(l, h1, h2) ==
    IF l.link[h2] = NoItem THEN l
    ELSE LET l1 == SetBack(SetLink(l, l.last[h1], l.link[h2]), l.link[h2], l.last[h1])
         IN  TAILQ_INIT(SetLast(l1, h1, l.last[h2]), h2)

\* What TAILQ_INSERT_AFTER and TAILQ_INSERT_HEAD do behind the address a.
TAILQ_INSERT_AFTER(l, h, a, e) ==
    LET l1 == SetLink(l, e, l.link[a])
        l2 == IF l1.link[e] # NoItem THEN SetBack(l1, l1.link[e], e) ELSE SetLast(l1, h, e)
    IN  SetBack(SetLink(l2, a, e), e, a)

TAILQ_INSERT_HEAD(l, h, e) == TAILQ_INSERT_AFTER(l, h, h, e)

TAILQ_INSERT_BEFORE(l, listelm, e) ==
    LET l1 == SetLink(SetBack(l, e, l.back[listelm]), e, listelm)
    IN  SetBack(SetLink(l1, l.back[listelm], e), listelm, e)

TAILQ_INSERT_TAIL(l, h, e) ==
    LET l1 == SetBack(SetLink(l, e, NoItem), e, l.last[h])
    IN  SetLast(SetLink(l1, l.last[h], e), h, e)

\* TAILQ_LAST and TAILQ_PREV: from the address a of a link, the address before it
\* (a head's "last", an element's "prev") and what is there.
TAILQ_LAST(l, h) == l.link[IF l.last[h] \in Heads THEN l.last[l.last[h]] ELSE l.back[l.last[h]]]

TAILQ_PREV(l, e) == l.link[IF l.back[e] \in Heads THEN l.last[l.back[e]] ELSE l.back[l.back[e]]]

TAILQ_REMOVE(l, h, e) ==
    LET l1 == IF l.link[e] # NoItem THEN SetBack(l, l.link[e], l.back[e])
                                    ELSE SetLast(l, h, l.back[e])
    IN  SetLink(l1, l.back[e], l.link[e])

TAILQ_SWAP(l, h1, h2) ==
    LET l1 == Exchange(l, h1, h2)
        own(m, h) == IF m.link[h] # NoItem THEN SetBack(m, m.link[h], h) ELSE SetLast(m, h, h)
    IN  own(own(l1, h1), h2)

-----------------------------------------------------------------------------
(* The caller *)

QInit ==
    /\ qkind \in Kinds
    /\ ql = [link |-> [h \in Heads |-> NoItem], last |-> [h \in Heads |-> h], back |-> <<>>]

\* The elements of a list, in the order of FOREACH; the walk is cut off in a cycle.
RECURSIVE WalkFrom(_, _, _)
WalkFrom(l, a, k) ==
    IF k = 0 \/ l.link[a] = NoItem THEN <<>>
    ELSE <<l.link[a]>> \o WalkFrom(l, l.link[a], k - 1)

Contents(l, h) == WalkFrom(l, h, Cardinality(Items) + 1)

Of(h) == ToSet(Contents(ql, h))

Q_InsertHead(h, e) ==
    /\ e \notin InList
    /\ ql' = CASE qkind = "SLIST"  -> SLIST_INSERT_HEAD(ql, h, e)
               [] qkind = "STAILQ" -> STAILQ_INSERT_HEAD(ql, h, e)
               [] qkind = "LIST"   -> LIST_INSERT_HEAD(ql, h, e)
               [] qkind = "TAILQ"  -> TAILQ_INSERT_HEAD(ql, h, e)

Q_InsertAfter(h, f, e) ==
    /\ e \notin InList
    /\ f \in Of(h)
    /\ ql' = CASE qkind = "SLIST"  -> SLIST_INSERT_AFTER(ql, f, e)
               [] qkind = "STAILQ" -> STAILQ_INSERT_AFTER(ql, h, f, e)
               [] qkind = "LIST"   -> LIST_INSERT_AFTER(ql, f, e)
               [] qkind = "TAILQ"  -> TAILQ_INSERT_AFTER(ql, h, f, e)

Q_InsertBefore(f, e) ==
    /\ HasBack(qkind)
    /\ e \notin InList
    /\ f \in InList
    /\ ql' = IF qkind = "LIST" THEN LIST_INSERT_BEFORE(ql, f, e) ELSE TAILQ_INSERT_BEFORE(ql, f, e)

Q_InsertTail(h, e) ==
    /\ HasLast(qkind)
    /\ e \notin InList
    /\ ql' = IF qkind = "STAILQ" THEN STAILQ_INSERT_TAIL(ql, h, e) ELSE TAILQ_INSERT_TAIL(ql, h, e)

\* The element goes back to the caller, with its fields.
Drop(l, e) == [l EXCEPT !.link = Restrict(@, DOMAIN @ \ {e}), !.back = Restrict(@, DOMAIN @ \ {e})]

\* The removal of e from the list of h.
RemoveOf(l, h, e) ==
    Drop(CASE qkind = "SLIST"  -> SLIST_REMOVE(l, h, e)
           [] qkind = "STAILQ" -> STAILQ_REMOVE(l, h, e)
           [] qkind = "LIST"   -> LIST_REMOVE(l, e)
           [] qkind = "TAILQ"  -> TAILQ_REMOVE(l, h, e), e)

Q_Remove(h, e) ==
    /\ e \in Of(h)
    /\ ql' = RemoveOf(ql, h, e)

Q_Concat(h, g) ==
    /\ HasLast(qkind)
    /\ h # g
    /\ ql' = IF qkind = "STAILQ" THEN STAILQ_CONCAT(ql, h, g) ELSE TAILQ_CONCAT(ql, h, g)

Q_Swap(h, g) ==
    /\ qkind # "SLIST"
    /\ h # g
    /\ ql' = CASE qkind = "STAILQ" -> STAILQ_SWAP(ql, h, g)
               [] qkind = "LIST"   -> LIST_SWAP(ql, h, g)
               [] qkind = "TAILQ"  -> TAILQ_SWAP(ql, h, g)

QNext ==
    /\ \/ \E h \in Heads, e \in Items : Q_InsertHead(h, e) \/ Q_InsertTail(h, e) \/ Q_Remove(h, e)
       \/ \E h \in Heads, f, e \in Items : Q_InsertAfter(h, f, e)
       \/ \E f, e \in Items : Q_InsertBefore(f, e)
       \/ \E h, g \in Heads : Q_Concat(h, g) \/ Q_Swap(h, g)
    /\ UNCHANGED qkind

\* FOREACH_SAFE with a body that removes the elements of "gone": tvar is read
\* before the body runs.
RECURSIVE QForeachSafe(_, _, _, _, _)
QForeachSafe(l, h, var, gone, seen) ==
    IF var = NoItem THEN [list |-> l, seen |-> seen]
    ELSE QForeachSafe(IF var \in gone THEN RemoveOf(l, h, var) ELSE l, h, l.link[var], gone,
                      Append(seen, var))

-----------------------------------------------------------------------------
(* Properties *)

\* Whatever macros are used, in any order, the pointers of each kind of list
\* implement sequences: an element is where the macro's name says, none is lost,
\* doubled or left in two lists.
Abstract == INSTANCE Lists WITH lists <- [h \in Heads |-> Contents(ql, h)]
QImplementsLists == Abstract!Spec

\* The addresses agree with the links: an element's back is the address of the
\* link that leads to it, a queue's last the address of the null link that ends
\* it.  These are the conditions on which the QMD_LIST_CHECK and QMD_TAILQ_CHECK
\* macros panic.
QAddressesRight ==
    /\ HasBack(qkind) => \A h \in Heads : \A e \in Of(h) : ql.link[ql.back[e]] = e
    /\ HasLast(qkind) =>
         \A h \in Heads : /\ ql.last[h] \in Of(h) \cup {h}
                          /\ ql.link[ql.last[h]] = NoItem

\* STAILQ_LAST, TAILQ_LAST and TAILQ_PREV, which read a next/prev pair through the
\* type of the head, find the last element and the one before.
QBackwardsRight ==
    \A h \in Heads :
        LET c == Contents(ql, h)
            at(i) == IF i = 0 THEN NoItem ELSE c[i]
        IN  /\ qkind = "STAILQ" => STAILQ_LAST(ql, h) = at(Len(c))
            /\ qkind = "TAILQ"  => /\ TAILQ_LAST(ql, h) = at(Len(c))
                                   /\ \A i \in 1 .. Len(c) : TAILQ_PREV(ql, c[i]) = at(i - 1)

\* FOREACH_SAFE visits every element once though its body removes any of them, and
\* what the body removed is gone.
QForeachComplete ==
    \A h \in Heads : \A gone \in SUBSET Of(h) :
        LET r == QForeachSafe(ql, h, ql.link[h], gone, <<>>)
        IN  /\ r.seen = Contents(ql, h)
            /\ Contents(r.list, h) = SelectSeq(Contents(ql, h), LAMBDA e : e \notin gone)

\* The pointers a list keeps beside its forward chain agree with that chain: the
\* addresses to write through, the way back, and the saved successor of a loop that
\* removes what it visits.
QPointersRight == QAddressesRight /\ QBackwardsRight /\ QForeachComplete
=============================================================================
