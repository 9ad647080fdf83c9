------------------------------- MODULE RbTree -------------------------------
(***************************************************************************)
(* The red-black tree macros of kvstore/NtyCo/core/nty_tree.h, at the      *)
(* level of the links they write.  The tree belongs to one scheduler and   *)
(* is used by one thread, so a macro is one step.                          *)
(*                                                                         *)
(* A tree is a record: the root and, for the elements that are in it, the  *)
(* fields of RB_ENTRY.  An element outside the tree has no fields: RB_SET  *)
(* writes all four before they are read.  The code writes each mirrored    *)
(* case twice; here "side" is "left" in the one and "right" in the other.  *)
(***************************************************************************)
EXTENDS TreeElements, Functions, SequencesExt

VARIABLE rbt

rbVars == <<rbt>>

\* RB_INIT
RbEmpty == [root |-> NoNode, left |-> <<>>, right |-> <<>>, parent |-> <<>>, color |-> <<>>]

In(t) == DOMAIN t.parent

IsRed(t, n) == n # NoNode /\ t.color[n] = "red"

\* RB_SET: parent, no children, red.
RB_SET(t, elm, parent) ==
    LET put(f, v) == (elm :> v) @@ f
    IN  [t EXCEPT !.parent = put(@, parent), !.left = put(@, NoNode),
                  !.right = put(@, NoNode), !.color = put(@, "red")]

RB_SET_BLACKRED(t, black, red) ==
    [t EXCEPT !.color = [@ EXCEPT ![black] = "black", ![red] = "red"]]

\* The link that leads to old, in old's parent or in the head, is made to lead to new.
Relink(t, parent, old, new) ==
    IF parent = NoNode THEN [t EXCEPT !.root = new]
    ELSE IF t.left[parent] = old THEN [t EXCEPT !.left[parent] = new]
                                 ELSE [t EXCEPT !.right[parent] = new]

\* "if (child) RB_PARENT(child) = parent"
Adopt(t, child, parent) ==
    IF child = NoNode THEN t ELSE [t EXCEPT !.parent[child] = parent]

\* Fault: the subtree that changes sides keeps its old parent.
Fault_RotateNoAdopt(t, elm, side) ==
    LET tmp == t[Other(side)][elm]
        t1  == [t EXCEPT ![Other(side)][elm] = t[side][tmp]]
        t2  == Relink([t1 EXCEPT !.parent[tmp] = t.parent[elm]], t.parent[elm], elm, tmp)
    IN  [t2 EXCEPT ![side][tmp] = elm, !.parent[elm] = tmp]

\* RB_ROTATE_LEFT and RB_ROTATE_RIGHT: elm goes down on "side", its child on the
\* other side takes its place.
RB_ROTATE(t, elm, side) ==
    LET tmp == t[Other(side)][elm]
        t1  == Adopt([t EXCEPT ![Other(side)][elm] = t[side][tmp]], t[side][tmp], elm)
        t2  == Relink([t1 EXCEPT !.parent[tmp] = t.parent[elm]], t.parent[elm], elm, tmp)
    IN  [t2 EXCEPT ![side][tmp] = elm, !.parent[elm] = tmp]

-----------------------------------------------------------------------------
(* Insertion *)

RECURSIVE RB_INSERT_COLOR(_, _)
RB_INSERT_COLOR(t, elm) ==
    LET parent  == t.parent[elm]
        gparent == t.parent[parent]
        side    == IF parent = t.left[gparent] THEN "left" ELSE "right"
        uncle   == t[Other(side)][gparent]
        inner   == t[Other(side)][parent] = elm
        t1      == IF inner THEN RB_ROTATE(t, parent, side) ELSE t
        upper   == IF inner THEN elm ELSE parent
        lower   == IF inner THEN parent ELSE elm
    IN  IF ~IsRed(t, parent) THEN [t EXCEPT !.color[t.root] = "black"]
        ELSE IF IsRed(t, uncle)
        THEN RB_INSERT_COLOR(RB_SET_BLACKRED([t EXCEPT !.color[uncle] = "black"], parent, gparent),
                             gparent)
        ELSE RB_INSERT_COLOR(RB_ROTATE(RB_SET_BLACKRED(t1, upper, gparent), gparent, Other(side)),
                             lower)

\* Where the descent for elm ends: the element with its key, or the last one met.
RECURSIVE Descend(_, _, _)
Descend(t, elm, n) ==
    IF Key[elm] = Key[n] \/ t[Branch(elm, n)][n] = NoNode THEN n
    ELSE Descend(t, elm, t[Branch(elm, n)][n])

RB_INSERT(t, elm) ==
    LET parent == Descend(t, elm, t.root)
    IN  IF t.root = NoNode
        THEN RB_INSERT_COLOR([RB_SET(t, elm, NoNode) EXCEPT !.root = elm], elm)
        ELSE IF Key[elm] = Key[parent] THEN t
        ELSE RB_INSERT_COLOR([RB_SET(t, elm, parent) EXCEPT ![Branch(elm, parent)][parent] = elm],
                             elm)

-----------------------------------------------------------------------------
(* Removal *)

\* RB_REMOVE_COLOR, the last case: the sibling tmp goes up and the black height
\* that elm's side lacks is made good.
LiftSibling(t, parent, tmp, side) ==
    LET far == t[Other(side)][tmp]
        t1  == [t EXCEPT !.color = [@ EXCEPT ![tmp] = t.color[parent], ![parent] = "black"]]
        t2  == IF far = NoNode THEN t1 ELSE [t1 EXCEPT !.color[far] = "black"]
    IN  RB_ROTATE(t2, parent, side)

Blacken(t, n) == IF n = NoNode THEN t ELSE [t EXCEPT !.color[n] = "black"]

RECURSIVE RB_REMOVE_COLOR(_, _, _)
RB_REMOVE_COLOR(t, parent, elm) ==
    LET side == IF t.left[parent] = elm THEN "left" ELSE "right"
        sib  == t[Other(side)][parent]
        t1   == IF IsRed(t, sib) THEN RB_ROTATE(RB_SET_BLACKRED(t, sib, parent), parent, side)
                                 ELSE t
        tmp  == t1[Other(side)][parent]
        near == t1[side][tmp]
        t2   == IF IsRed(t1, t1[Other(side)][tmp]) THEN t1
                ELSE RB_ROTATE([Blacken(t1, near) EXCEPT !.color[tmp] = "red"], tmp, Other(side))
        t3   == LiftSibling(t2, parent, t2[Other(side)][parent], side)
    IN  IF IsRed(t, elm) \/ elm = t.root THEN Blacken(t, elm)
        ELSE IF ~IsRed(t1, near) /\ ~IsRed(t1, t1[Other(side)][tmp])
        THEN RB_REMOVE_COLOR([t1 EXCEPT !.color[tmp] = "red"], t1.parent[parent], parent)
        ELSE Blacken(t3, t3.root)

RECURSIVE Outermost(_, _, _)
Outermost(t, n, side) == IF t[side][n] = NoNode THEN n ELSE Outermost(t, t[side][n], side)

\* Take elm, which has at most one child, out of its place.
SpliceOut(t, elm, child) ==
    Relink(Adopt(t, child, t.parent[elm]), t.parent[elm], elm, child)

\* "(elm)->field = (old)->field" and the links to old: elm takes old's place.
TakePlace(t, elm, old) ==
    LET t1 == [t EXCEPT !.parent[elm] = t.parent[old], !.left[elm] = t.left[old],
                        !.right[elm] = t.right[old], !.color[elm] = t.color[old]]
        t2 == Relink(t1, t.parent[old], old, elm)
    IN  Adopt([t2 EXCEPT !.parent[t.left[old]] = elm], t.right[old], elm)

Forget(t, n) ==
    LET keep == In(t) \ {n}
    IN  [t EXCEPT !.left = Restrict(@, keep), !.right = Restrict(@, keep),
                  !.parent = Restrict(@, keep), !.color = Restrict(@, keep)]

RB_REMOVE(t, old) ==
    LET two    == t.left[old] # NoNode /\ t.right[old] # NoNode
        elm    == IF two THEN Outermost(t, t.right[old], "left") ELSE old
        child  == IF t.left[elm] = NoNode THEN t.right[elm] ELSE t.left[elm]
        parent == IF two /\ t.parent[elm] = old THEN elm ELSE t.parent[elm]
        t1     == SpliceOut(t, elm, child)
        t2     == IF two THEN TakePlace(t1, elm, old) ELSE t1
        t3     == IF t.color[elm] = "black" THEN RB_REMOVE_COLOR(t2, parent, child) ELSE t2
    IN  Forget(t3, old)

-----------------------------------------------------------------------------
(* Queries *)

RB_FIND(t, elm) ==
    LET n == Descend(t, elm, t.root)
    IN  IF t.root = NoNode \/ Key[n] # Key[elm] THEN NoNode ELSE n

RECURSIVE Nfind(_, _, _, _)
Nfind(t, elm, tmp, res) ==
    IF tmp = NoNode THEN res
    ELSE IF Key[elm] = Key[tmp] THEN tmp
    ELSE IF Key[elm] < Key[tmp] THEN Nfind(t, elm, t.left[tmp], tmp)
                                    ELSE Nfind(t, elm, t.right[tmp], res)

RB_NFIND(t, elm) == Nfind(t, elm, t.root, NoNode)

RECURSIVE Ascend(_, _, _)
Ascend(t, n, side) ==
    IF t.parent[n] # NoNode /\ n = t[side][t.parent[n]] THEN Ascend(t, t.parent[n], side)
    ELSE t.parent[n]

\* RB_NEXT (side "right") and RB_PREV (side "left")
Neighbour(t, n, side) ==
    IF t[side][n] # NoNode THEN Outermost(t, t[side][n], Other(side)) ELSE Ascend(t, n, side)

\* RB_MINMAX: the minimum is on the side "left".
RB_MINMAX(t, side) == IF t.root = NoNode THEN NoNode ELSE Outermost(t, t.root, side)

\* RB_FOREACH_SAFE with a body that removes the elements of "gone": y is read
\* before the body runs.
RECURSIVE ForeachSafe(_, _, _, _)
ForeachSafe(t, x, gone, seen) ==
    IF x = NoNode THEN [tree |-> t, seen |-> seen]
    ELSE ForeachSafe(IF x \in gone THEN RB_REMOVE(t, x) ELSE t, Neighbour(t, x, "right"),
                     gone, Append(seen, x))

-----------------------------------------------------------------------------
RbInit == rbt = RbEmpty

Rb_Insert(n) ==
    /\ n \notin In(rbt)
    /\ rbt' = RB_INSERT(rbt, n)

Rb_Remove(n) ==
    /\ n \in In(rbt)
    /\ rbt' = RB_REMOVE(rbt, n)

RbNext == \E n \in Elements : Rb_Insert(n) \/ Rb_Remove(n)

-----------------------------------------------------------------------------
(* Properties *)

RECURSIVE RbBelow(_, _)
RbBelow(t, n) ==
    IF n = NoNode THEN {} ELSE {n} \cup RbBelow(t, t.left[n]) \cup RbBelow(t, t.right[n])

RECURSIVE BlackHeights(_, _)
BlackHeights(t, n) ==
    IF n = NoNode THEN {0}
    ELSE LET here == IF t.color[n] = "black" THEN 1 ELSE 0
         IN  {h + here : h \in BlackHeights(t, t.left[n]) \cup BlackHeights(t, t.right[n])}

\* Whatever is inserted and removed, in any order, RB_INSERT_COLOR and
\* RB_REMOVE_COLOR leave a black root, no red element with a red child, and the
\* same number of black elements on every way down.
RbBalanced ==
    /\ rbt.root # NoNode => rbt.color[rbt.root] = "black"
    /\ \A n \in In(rbt) : IsRed(rbt, n) => ~IsRed(rbt, rbt.left[n]) /\ ~IsRed(rbt, rbt.right[n])
    /\ Cardinality(BlackHeights(rbt, rbt.root)) = 1

\* The links of RB_ROTATE and RB_REMOVE: every element is reached from the root,
\* its parent is the element that leads to it, and keys ascend from left to right.
RbLinked ==
    /\ RbBelow(rbt, rbt.root) = In(rbt)
    /\ rbt.root # NoNode => rbt.parent[rbt.root] = NoNode
    /\ \A n \in In(rbt) :
         /\ \A m \in RbBelow(rbt, rbt.left[n]) : Key[m] < Key[n]
         /\ \A m \in RbBelow(rbt, rbt.right[n]) : Key[m] > Key[n]
         /\ \A c \in {rbt.left[n], rbt.right[n]} \ {NoNode} : rbt.parent[c] = n

\* RB_FIND, RB_NFIND, RB_NEXT, RB_PREV, RB_MIN and RB_MAX answer as on a set of
\* keys, for every element, in the tree or not.
RbQueriesRight ==
    LET S == In(rbt) IN
    /\ RB_MINMAX(rbt, "left") = Least(S)
    /\ RB_MINMAX(rbt, "right") = Greatest(S)
    /\ \A e \in Elements :
         /\ RB_FIND(rbt, e) = Least({n \in S : Key[n] = Key[e]})
         /\ RB_NFIND(rbt, e) = Least({n \in S : Key[n] >= Key[e]})
    /\ \A e \in S :
         /\ Neighbour(rbt, e, "right") = Least({n \in S : Key[n] > Key[e]})
         /\ Neighbour(rbt, e, "left") = Greatest({n \in S : Key[n] < Key[e]})

\* RB_FOREACH_SAFE with a body that removes any subset of what it visits: every
\* element is visited once, in the order of the keys, and exactly those are gone.
RbForeachSafe ==
    \A gone \in SUBSET In(rbt) :
        LET r == ForeachSafe(rbt, RB_MINMAX(rbt, "left"), gone, <<>>)
        IN  /\ InOrder(r.seen, In(rbt))
            /\ RbBelow(r.tree, r.tree.root) = In(rbt) \ gone

\* A red-black tree after any history of RB_INSERT and RB_REMOVE: linked both ways,
\* in order, balanced, and every lookup and loop of the macros gives what the set of
\* its elements prescribes.
RbTreeRight == RbBalanced /\ RbLinked /\ RbQueriesRight /\ RbForeachSafe
=============================================================================
