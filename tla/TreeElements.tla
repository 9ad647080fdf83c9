---------------------------- MODULE TreeElements ----------------------------
(* The elements that the caller of the tree macros of nty_tree.h links into  *)
(* its trees, and the order that the caller's cmp gives them.                *)
EXTENDS Integers, FiniteSets

CONSTANTS Elements,
          Key,      \* cmp(a, b) has the sign of Key[a] - Key[b]
          NoNode    \* NULL

ASSUME TreeAssumption == /\ IsFiniteSet(Elements)
                         /\ Key \in [Elements -> Int]
                         /\ NoNode \notin Elements

Other(side) == IF side = "left" THEN "right" ELSE "left"

\* The branch a descent for elm takes at n.
Branch(elm, n) == IF Key[elm] < Key[n] THEN "left" ELSE "right"

\* The elements of S with the smallest and the greatest key, or none.
Least(S) == IF S = {} THEN NoNode ELSE CHOOSE n \in S : \A m \in S : Key[n] <= Key[m]
Greatest(S) == IF S = {} THEN NoNode ELSE CHOOSE n \in S : \A m \in S : Key[n] >= Key[m]

\* A walk that visits every element of S once, in the order of the keys.
InOrder(seq, S) ==
    /\ {seq[i] : i \in DOMAIN seq} = S
    /\ \A i, j \in DOMAIN seq : i < j => Key[seq[i]] < Key[seq[j]]
=============================================================================
