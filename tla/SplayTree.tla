----------------------------- MODULE SplayTree ------------------------------
(***************************************************************************)
(* The splay tree macros of kvstore/NtyCo/core/nty_tree.h.  Every access   *)
(* restructures the tree: SPLAY_FIND, SPLAY_NEXT, SPLAY_MIN and SPLAY_MAX  *)
(* are steps that change it.  A macro is one step.                         *)
(*                                                                         *)
(* A tree is the root and the two links of every element that is in it.    *)
(***************************************************************************)
EXTENDS TreeElements, Functions, SequencesExt

CONSTANT Tmp   \* the local "__node" of SPLAY and SPLAY_MINMAX

ASSUME SplayAssumption == Tmp \notin Elements \cup {NoNode}

VARIABLE spt

spVars == <<spt>>

\* SPLAY_INIT
SpEmpty == [root |-> NoNode, left |-> <<>>, right |-> <<>>]

SpIn(t) == DOMAIN t.left

-----------------------------------------------------------------------------
(* name##_SPLAY and name##_SPLAY_MINMAX.  The links of Tmp hold the two     *)
(* trees that are split off while the descent goes on;                       *)
(* ends.left and ends.right are the locals __left and __right.               *)

\* SPLAY_ROTATE_RIGHT (side "left") and SPLAY_ROTATE_LEFT (side "right"): the
\* root's child on "side" becomes the root.
SPLAY_ROTATE(t, tmp, side) ==
    [[t EXCEPT ![side][t.root] = t[Other(side)][tmp]]
       EXCEPT ![Other(side)][tmp] = t.root, !.root = tmp]

\* Fault: the trees that were split off are hung on the wrong sides.
Fault_AssembleSwapped(t, ends) ==
    LET t1 == [t EXCEPT !.right[ends.left] = t.left[t.root]]
        t2 == [t1 EXCEPT !.left[ends.right] = t1.right[t.root]]
    IN  [t2 EXCEPT !.left[t.root] = t2.left[Tmp], !.right[t.root] = t2.right[Tmp]]

\* SPLAY_ASSEMBLE, assignment by assignment: ends.left and ends.right may be Tmp.
SPLAY_ASSEMBLE(t, ends) ==
    LET t1 == [t EXCEPT !.right[ends.left] = t.left[t.root]]
        t2 == [t1 EXCEPT !.left[ends.right] = t1.right[t.root]]
    IN  [t2 EXCEPT !.left[t.root] = t2.right[Tmp], !.right[t.root] = t2.left[Tmp]]

\* SPLAY_LINKLEFT and SPLAY_LINKRIGHT: the root is hung below "end" and the descent
\* goes on at its child.
SPLAY_LINK(t, end, side) == [t EXCEPT ![side][end] = t.root, !.root = t[side][t.root]]

\* The loop.  where[n] is the side on which the wanted element lies from n.
RECURSIVE SplayLoop(_, _, _)
SplayLoop(t, where, ends) ==
    LET side == where[t.root]
        tmp  == t[side][t.root]
        t1   == IF where[tmp] = side THEN SPLAY_ROTATE(t, tmp, side) ELSE t
        next == t1[side][t1.root]
    IN  IF side = "here" \/ tmp = NoNode THEN SPLAY_ASSEMBLE(t, ends)
        ELSE IF next = NoNode THEN SPLAY_ASSEMBLE(t1, ends)
        ELSE SplayLoop(SPLAY_LINK(t1, ends[Other(side)], side), where,
                       [ends EXCEPT ![Other(side)] = t1.root])

SplayTo(t, where) ==
    LET put(f)  == (Tmp :> NoNode) @@ f
        done    == SplayLoop([t EXCEPT !.left = put(@), !.right = put(@)], where,
                             [left |-> Tmp, right |-> Tmp])
    IN  [done EXCEPT !.left = Restrict(@, SpIn(t)), !.right = Restrict(@, SpIn(t))]

SPLAY(t, elm) ==
    SplayTo(t, [n \in Elements |-> IF Key[elm] = Key[n] THEN "here" ELSE Branch(elm, n)])

\* __comp keeps its sign all the way.
SPLAY_MINMAX(t, side) == SplayTo(t, [n \in Elements |-> side])

-----------------------------------------------------------------------------
(* The operations *)

\* The new root elm, over the tree whose root has been splayed: the root goes on
\* its far side and gives up the subtree on the near side.
RootOver(t, elm, side) ==
    LET put(f, v) == (elm :> v) @@ f
        near      == [t EXCEPT ![side] = put(@, t[side][t.root])]
    IN  [near EXCEPT ![Other(side)] = put(@, t.root), ![side][t.root] = NoNode, !.root = elm]

SPLAY_INSERT(t, elm) ==
    LET t1 == SPLAY(t, elm)
    IN  IF t.root = NoNode
        THEN [root |-> elm, left |-> elm :> NoNode, right |-> elm :> NoNode]
        ELSE IF Key[elm] = Key[t1.root] THEN t1
        ELSE RootOver(t1, elm, Branch(elm, t1.root))

SPLAY_REMOVE(t, elm) ==
    LET t1   == SPLAY(t, elm)
        keep == SpIn(t) \ {t1.root}
        out(u) == [u EXCEPT !.left = Restrict(@, keep), !.right = Restrict(@, keep)]
        low  == SPLAY([t1 EXCEPT !.root = t1.left[t1.root]], elm)
    IN  IF t.root = NoNode THEN t
        ELSE IF Key[elm] # Key[t1.root] THEN t1
        ELSE IF t1.left[t1.root] = NoNode THEN out([t1 EXCEPT !.root = t1.right[t1.root]])
        ELSE out([low EXCEPT !.right[low.root] = t1.right[t1.root]])

\* A query: the tree it leaves and its answer.
SplayAnswer(t, r) == [tree |-> t, result |-> r]

SPLAY_FIND(t, elm) ==
    LET t1 == SPLAY(t, elm)
    IN  IF t.root = NoNode THEN SplayAnswer(t, NoNode)
        ELSE SplayAnswer(t1, IF Key[elm] = Key[t1.root] THEN t1.root ELSE NoNode)

RECURSIVE Leftmost(_, _)
Leftmost(t, n) == IF t.left[n] = NoNode THEN n ELSE Leftmost(t, t.left[n])

SPLAY_NEXT(t, elm) ==
    LET t1 == SPLAY(t, elm)
    IN  SplayAnswer(t1, IF t1.right[elm] = NoNode THEN NoNode ELSE Leftmost(t1, t1.right[elm]))

\* SPLAY_MIN (side "left") and SPLAY_MAX (side "right")
SPLAY_MIN_MAX(t, side) ==
    LET t1 == SPLAY_MINMAX(t, side)
    IN  IF t.root = NoNode THEN SplayAnswer(t, NoNode) ELSE SplayAnswer(t1, t1.root)

\* SPLAY_FOREACH: the elements in the order in which the loop meets them.
RECURSIVE SpForeach(_, _, _)
SpForeach(t, x, seen) ==
    IF x = NoNode THEN seen
    ELSE LET a == SPLAY_NEXT(t, x) IN SpForeach(a.tree, a.result, Append(seen, x))

SPLAY_FOREACH(t) ==
    LET a == SPLAY_MIN_MAX(t, "left") IN SpForeach(a.tree, a.result, <<>>)

-----------------------------------------------------------------------------
SpInit == spt = SpEmpty

Sp_Insert(n) == n \notin SpIn(spt) /\ spt' = SPLAY_INSERT(spt, n)
Sp_Remove(n) == spt' = SPLAY_REMOVE(spt, n)
Sp_Find(n) == spt' = SPLAY_FIND(spt, n).tree
Sp_Next(n) == n \in SpIn(spt) /\ spt' = SPLAY_NEXT(spt, n).tree
Sp_MinMax(side) == spt' = SPLAY_MIN_MAX(spt, side).tree

SpNext ==
    \/ \E n \in Elements : Sp_Insert(n) \/ Sp_Remove(n) \/ Sp_Find(n) \/ Sp_Next(n)
    \/ \E side \in {"left", "right"} : Sp_MinMax(side)

-----------------------------------------------------------------------------
(* Properties *)

RECURSIVE SpBelow(_, _)
SpBelow(t, n) ==
    IF n = NoNode THEN {} ELSE {n} \cup SpBelow(t, t.left[n]) \cup SpBelow(t, t.right[n])

\* However the accesses rotate, link and reassemble it, the tree holds every
\* element once, reached from the root, with keys that ascend from left to right.
SpLinked ==
    /\ spt.right \in [SpIn(spt) -> SpIn(spt) \cup {NoNode}]
    /\ spt.left \in [SpIn(spt) -> SpIn(spt) \cup {NoNode}]
    /\ SpBelow(spt, spt.root) = SpIn(spt)
    /\ \A n \in SpIn(spt) :
         /\ \A m \in SpBelow(spt, spt.left[n]) : Key[m] < Key[n]
         /\ \A m \in SpBelow(spt, spt.right[n]) : Key[m] > Key[n]

\* SPLAY_FIND, SPLAY_NEXT, SPLAY_MIN and SPLAY_MAX answer as on a set of keys.
SpQueriesRight ==
    LET S == SpIn(spt) IN
    /\ SPLAY_MIN_MAX(spt, "left").result = Least(S)
    /\ SPLAY_MIN_MAX(spt, "right").result = Greatest(S)
    /\ \A e \in Elements : SPLAY_FIND(spt, e).result = Least({n \in S : Key[n] = Key[e]})
    /\ \A e \in S : SPLAY_NEXT(spt, e).result = Least({n \in S : Key[n] > Key[e]})

\* SPLAY_FOREACH visits every element once, in order, though SPLAY_NEXT
\* restructures the tree under the loop at each step.
SpForeachComplete == InOrder(SPLAY_FOREACH(spt), SpIn(spt))

\* A splay tree after any history of its operations, lookups that restructure it
\* included: ordered, and every lookup and SPLAY_FOREACH gives what its set prescribes.
SplayTreeRight == SpLinked /\ SpQueriesRight /\ SpForeachComplete
=============================================================================
