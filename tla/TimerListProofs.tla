--------------------------- MODULE TimerListProofs --------------------------
(***************************************************************************)
(* TimerList: the sorted list of timers, for any number of timers.         *)
(*                                                                         *)
(* The invariant (ListInv) says what the pointers of an intact list are:   *)
(* there is a sequence s without repetition of exactly the allocated       *)
(* timers, head is its first, tail its last, next goes from each to the    *)
(* one behind it, and their times of expiry ascend (Chain, Sorted).  No    *)
(* timer expires later than now + Lifetime, which is why a timer that is   *)
(* set belongs at the end: add_timer() then walks to the end (AddBehindEnd)*)
(* and never takes LinkBetween, whose t->next = t would close a cycle.     *)
(* Every call leaves s with a timer at its end (Appended) or without its   *)
(* first timers (Shifted).                                                 *)
(*                                                                         *)
(* The walk along next is a recursive function; that it satisfies its      *)
(* equation, and where it is along a chain, are shown by induction, which  *)
(* rests on the least element of a set of naturals (LeastNat).             *)
(*                                                                         *)
(* UserTable: registration and login, for every number of workers, names   *)
(* and passwords, with crashes and restarts of the server.                 *)
(***************************************************************************)
EXTENDS TimerList, UserTable, FiniteSetTheorems, WellFoundedInduction, TLAPS

ListType == [head : Pointers, tail : Pointers,
             prev : [Timers -> Pointers], next : [Timers -> Pointers]]
N == Cardinality(Timers)

-----------------------------------------------------------------------------
(* Induction *)

\* Every set of natural numbers that is not empty has a least element.
LEMMA LeastNat ==
    ASSUME NEW S \in SUBSET Nat, S # {}
    PROVE  \E m \in S : \A n \in S : m <= n
<1> DEFINE R == OpToRel(<, Nat)
<1>1. IsWellFoundedOn(R, Nat) BY NatLessThanWellFounded
<1> HIDE DEF R
<1>2. PICK m \in S : \A n \in S : ~(<<n, m>> \in R) BY <1>1, WFMin
<1>3. \A n \in S : n < m => <<n, m>> \in R BY DEF R, OpToRel
<1>4. \A n \in S : m <= n
  <2> SUFFICES ASSUME NEW n \in S PROVE m <= n OBVIOUS
  <2>1. ~(n < m) BY <1>2, <1>3
  <2>2. m \in Nat /\ n \in Nat OBVIOUS
  <2> QED BY <2>1, <2>2
<1> QED BY <1>4

\* Induction, with a set for what is shown.
LEMMA SetInduction ==
    ASSUME NEW S, 0 \in S, \A n \in Nat : n \in S => n + 1 \in S
    PROVE  \A n \in Nat : n \in S
<1> SUFFICES ASSUME NEW k \in Nat, k \notin S PROVE FALSE OBVIOUS
<1> DEFINE T == {n \in Nat : n \notin S}
<1>1. PICK m \in T : \A n \in T : m <= n BY LeastNat
<1>2. m # 0 /\ m - 1 \in Nat /\ m - 1 \in S BY <1>1
<1>3. m - 1 + 1 = m BY <1>1
<1> QED BY <1>1, <1>2, <1>3

\* Min, of natural numbers.
LEMMA MinNat ==
    ASSUME NEW S \in SUBSET Nat, S # {}
    PROVE  Min(S) \in S /\ \A n \in S : Min(S) <= n
<1>1. \E m \in S : \A n \in S : m <= n BY LeastNat
<1> QED BY <1>1 DEF Min

-----------------------------------------------------------------------------
(* The walk along next *)

\* The walk has as many steps as there are timers, and Null is none of them.
LEMMA Sizes == N \in Nat /\ Steps = 0 .. N /\ Null \notin Timers
BY TimerAssumption, FS_CardinalityType DEF N, Steps

\* Walk is what its definition says: where the walk is after k steps.
LEMMA WalkSteps ==
    ASSUME NEW next \in [Timers -> Pointers], NEW p \in Pointers, NEW alive \in SUBSET Timers
    PROVE  LET w == Walk(next, p, alive)
           IN  /\ w \in [Steps -> Pointers]
               /\ w[0] = p
               /\ \A k \in Steps \ {0} : w[k] = IF w[k - 1] \in alive THEN next[w[k - 1]] ELSE w[k - 1]
<1> DEFINE Step(g, k) == IF g[k - 1] \in alive THEN next[g[k - 1]] ELSE g[k - 1]
           Goes(g, n) == g[0] = p /\ \A k \in 1 .. n : g[k] = Step(g, k)
           S == {n \in Nat : \E g \in [0 .. n -> Pointers] : Goes(g, n)}
           w == Walk(next, p, alive)
           Def(g) == [k \in Steps |-> IF k = 0 THEN p ELSE Step(g, k)]
<1>1. 0 \in S
  <2> DEFINE g == [k \in 0 .. 0 |-> p]
  <2>1. g \in [0 .. 0 -> Pointers] /\ Goes(g, 0) OBVIOUS
  <2> QED BY <2>1
<1>2. ASSUME NEW n \in Nat, n \in S PROVE n + 1 \in S
  <2>1. PICK g \in [0 .. n -> Pointers] : Goes(g, n) BY <1>2
  <2> DEFINE v == IF g[n] \in alive THEN next[g[n]] ELSE g[n]
             h == [k \in 0 .. n + 1 |-> IF k = n + 1 THEN v ELSE g[k]]
  <2>2. g[n] \in Pointers BY <2>1
  <2>3. v \in Pointers BY <2>2 DEF Pointers
  <2>4. h \in [0 .. n + 1 -> Pointers] BY <2>1, <2>3
  <2>5. h[0] = p /\ \A k \in 0 .. n : h[k] = g[k] BY <2>1
  <2>6. h[n + 1] = Step(h, n + 1) BY <2>5
  <2>7. \A k \in 1 .. n : h[k] = Step(h, k)
    <3> SUFFICES ASSUME NEW k \in 1 .. n PROVE h[k] = Step(h, k) OBVIOUS
    <3>1. h[k] = g[k] /\ h[k - 1] = g[k - 1] BY <2>5
    <3>2. g[k] = Step(g, k) BY <2>1
    <3> HIDE DEF h
    <3> QED BY <3>1, <3>2
  <2>8. Goes(h, n + 1)
    <3> SUFFICES ASSUME NEW k \in 1 .. n + 1 PROVE h[k] = Step(h, k) BY <2>5
    <3> HIDE DEF h
    <3>1. CASE k = n + 1 BY <3>1, <2>6
    <3>2. CASE k \in 1 .. n BY <3>2, <2>7
    <3> QED BY <3>1, <3>2
  <2>9. \E f \in [0 .. n + 1 -> Pointers] : Goes(f, n + 1)
    <3> HIDE DEF h, Goes
    <3> QED BY <2>4, <2>8
  <2> HIDE DEF h, Goes
  <2> QED BY <2>9
<1>3. N \in S
  <2> HIDE DEF S
  <2> QED BY <1>1, <1>2, Sizes, SetInduction
<1>4. PICK g \in [0 .. N -> Pointers] : Goes(g, N) BY <1>3
<1>5. g = Def(g)
  <2>1. \A k \in 0 .. N : g[k] = IF k = 0 THEN p ELSE Step(g, k) BY <1>4, Sizes
  <2> QED BY <2>1, <1>4, Sizes
<1>6. w = Def(w) BY <1>5 DEF Walk
<1> HIDE DEF w
<1>7. w[0] = p /\ \A k \in Steps \ {0} : w[k] = Step(w, k) BY <1>6, Sizes
<1>8. \A n \in Nat : n \in Steps => w[n] \in Pointers
  <2> DEFINE T == {n \in Nat : n \in Steps => w[n] \in Pointers}
  <2>1. 0 \in T BY <1>7
  <2>2. ASSUME NEW n \in Nat, n \in T PROVE n + 1 \in T
    <3> SUFFICES ASSUME n + 1 \in Steps PROVE w[n + 1] \in Pointers OBVIOUS
    <3>1. n \in Steps /\ n + 1 \in Steps \ {0} /\ n + 1 - 1 = n BY Sizes
    <3>2. w[n + 1] = IF w[n] \in alive THEN next[w[n]] ELSE w[n] BY <1>7, <3>1
    <3> QED BY <2>2, <3>1, <3>2 DEF Pointers
  <2> HIDE DEF T
  <2>3. \A n \in Nat : n \in T BY <2>1, <2>2, SetInduction
  <2> QED BY <2>3 DEF T
<1>9. w \in [Steps -> Pointers]
  <2>1. \A k \in Steps : w[k] \in Pointers BY <1>8, Sizes
  <2>2. w = [k \in Steps |-> w[k]] BY <1>6
  <2> QED BY <2>1, <2>2
<1> QED BY <1>7, <1>9 DEF w

-----------------------------------------------------------------------------
(* Chains: the timers of S, from head to tail, are s[1] .. s[n] *)

Follows(next, n, s) == \A i \in 1 .. n : next[s[i]] = IF i < n THEN s[i + 1] ELSE Null

Distinct(n, s) == \A i, j \in 1 .. n : s[i] = s[j] => i = j
NoneLater(ex, t, n, s) == \A i \in 1 .. n : ex[s[i]] <= ex[t]
First(n, s) == IF n = 0 THEN Null ELSE s[1]

Chain(l, S, n, s) ==
    /\ n \in Nat /\ s \in [1 .. n -> S]
    /\ Distinct(n, s)
    /\ \A t \in S : \E i \in 1 .. n : s[i] = t
    /\ Follows(l.next, n, s)
    /\ l.head = First(n, s)
    /\ n > 0 => l.tail = s[n]

Sorted(ex, n, s) == \A i, j \in 1 .. n : i <= j => ex[s[i]] <= ex[s[j]]

Right ==
    /\ \E n \in 0 .. N : \E s \in [1 .. n -> live] : Chain(lst, live, n, s) /\ Sorted(expire, n, s)
    /\ \A t \in live : expire[t] <= now + Lifetime
    /\ \A t \in Timers \ live : lst.next[t] = Null

\* The inductive invariant.
ListInv ==
    /\ TypeOK
    /\ FaultNeedsCause
    /\ fault = "none" /\ ~setBack /\ ~spliced => Right

\* A chain has no more than all timers.
LEMMA ChainLength ==
    ASSUME NEW S \in SUBSET Timers, NEW n \in Nat, NEW s \in [1 .. n -> S],
           Distinct(n, s)
    PROVE  n <= N
<1>1. s \in Injection(1 .. n, Timers) BY DEF Injection, IsInjective, Distinct
<1>2. Cardinality(1 .. n) <= Cardinality(Timers) BY <1>1, TimerAssumption, FS_Injection
<1>3. Cardinality(1 .. n) = n BY FS_Interval
<1> QED BY <1>2, <1>3 DEF N

\* The walk along a chain.
LEMMA ChainWalk ==
    ASSUME NEW next \in [Timers -> Pointers], NEW alive \in SUBSET Timers, NEW n \in 0 .. N,
           NEW s \in [1 .. n -> alive], Follows(next, n, s)
    PROVE  \A k \in Steps : Walk(next, First(n, s), alive)[k] = IF k < n THEN s[k + 1] ELSE Null
<1> DEFINE p == First(n, s)
           w == Walk(next, p, alive)
           T == {k \in Nat : k \in Steps => w[k] = IF k < n THEN s[k + 1] ELSE Null}
<1>1. p \in Pointers BY Sizes DEF Pointers, First
<1>2. /\ w \in [Steps -> Pointers] /\ w[0] = p
      /\ \A k \in Steps \ {0} : w[k] = IF w[k - 1] \in alive THEN next[w[k - 1]] ELSE w[k - 1]
  BY <1>1, WalkSteps
<1> HIDE DEF w
<1>3. 0 \in T BY <1>2, Sizes DEF First
<1>4. ASSUME NEW k \in Nat, k \in T PROVE k + 1 \in T
  <2> SUFFICES ASSUME k + 1 \in Steps PROVE w[k + 1] = IF k + 1 < n THEN s[k + 2] ELSE Null
    OBVIOUS
  <2>1. k \in Steps /\ k + 1 \in Steps \ {0} /\ k + 1 - 1 = k BY Sizes
  <2>2. w[k + 1] = IF w[k] \in alive THEN next[w[k]] ELSE w[k] BY <1>2, <2>1
  <2>3. w[k] = IF k < n THEN s[k + 1] ELSE Null BY <1>4, <2>1
  <2>4. CASE k < n
    <3>1. k + 1 \in 1 .. n BY <2>4, Sizes
    <3>2. s[k + 1] \in alive BY <3>1
    <3>3. next[s[k + 1]] = IF k + 1 < n THEN s[k + 1 + 1] ELSE Null BY <3>1 DEF Follows
    <3>4. k + 1 + 1 = k + 2 OBVIOUS
    <3> QED BY <2>2, <2>3, <2>4, <3>2, <3>3, <3>4
  <2>5. CASE ~(k < n)
    <3>1. w[k] = Null /\ Null \notin alive BY <2>3, <2>5, Sizes
    <3>2. ~(k + 1 < n) BY <2>5, Sizes
    <3> QED BY <2>2, <3>1, <3>2
  <2> QED BY <2>4, <2>5
<1> HIDE DEF T
<1>5. \A k \in Nat : k \in T BY <1>3, <1>4, SetInduction
<1>6. \A k \in Steps : k \in T BY <1>5, Sizes
<1> QED BY <1>2, <1>6 DEF T, w

-----------------------------------------------------------------------------
(* The operations of the list *)

\* The operations keep the type of the list and meet a fault that has a name.
Typed(o) == o.lst \in ListType /\ o.fault \in Faults

\* An outcome is well typed when its parts are.
LEMMA OutcomeTyped ==
    ASSUME NEW l \in ListType, NEW why \in Faults
    PROVE  Typed(Outcome(l, why))
BY DEF Outcome, Typed

\* Following a pointer ends in one of the faults.
LEMMA DerefFault == \A p, alive : Deref(p, alive) \in Faults
BY DEF Deref, Faults

\* Linking a timer keeps the type of the list.
LEMMA LinkTypes ==
    ASSUME NEW l \in ListType, NEW t \in Timers, NEW p \in Pointers, NEW q
    PROVE  LinkAtTail(l, t) \in ListType /\ LinkBetween(l, p, t, q) \in ListType
<1>1. LinkAtTail(l, t) \in ListType BY DEF LinkAtTail, ListType, Pointers
<1>2. LinkBetween(l, p, t, q) \in ListType BY DEF LinkBetween, ListType, Pointers
<1> QED BY <1>1, <1>2

\* So does add_timer(timer, lst_head), wherever its walk ends ...
LEMMA AddBehindTyped ==
    ASSUME NEW l \in ListType, NEW t \in Timers, NEW h \in Pointers, NEW ex, NEW alive \in SUBSET Timers
    PROVE  Typed(AddBehind(l, t, h, ex, alive))
<1>1. \A why \in Faults : Typed(Outcome(l, why)) BY OutcomeTyped
<1>2. "none" \in Faults /\ "freed" \in Faults /\ "loop" \in Faults BY DEF Faults
<1>3. Typed(Outcome(LinkAtTail(l, t), "none")) BY <1>2, LinkTypes, OutcomeTyped DEF Pointers
<1>4. \A p \in Pointers : \A q : Typed(Outcome(LinkBetween(l, p, t, q), "none"))
  BY <1>2, LinkTypes, OutcomeTyped
<1> DEFINE w == Walk(l.next, h, alive)
           ends == {k \in Steps \ {0} : w[k] \notin alive \/ ex[t] < ex[w[k]]}
<1>5. ends # {} => w[Min(ends) - 1] \in Pointers
  <2> SUFFICES ASSUME ends # {} PROVE w[Min(ends) - 1] \in Pointers OBVIOUS
  <2>1. l.next \in [Timers -> Pointers] BY DEF ListType
  <2>2. w \in [Steps -> Pointers] BY <2>1, WalkSteps
  <2>3. ends \in SUBSET Nat /\ ends \subseteq Steps \ {0} BY Sizes
  <2> HIDE DEF ends, w
  <2>4. Min(ends) \in Steps \ {0} BY <2>3, MinNat
  <2>5. Min(ends) - 1 \in Steps BY <2>4, Sizes
  <2> QED BY <2>2, <2>5
<1> QED BY <1>1, <1>2, <1>3, <1>4, <1>5, DerefFault, Zenon DEF AddBehind

\* ... add_timer(timer) ...
LEMMA AddTimerTyped ==
    ASSUME NEW l \in ListType, NEW t \in Timers, NEW ex, NEW alive \in SUBSET Timers
    PROVE  Typed(AddTimer(l, t, ex, alive))
<1>1. "none" \in Faults /\ "freed" \in Faults BY DEF Faults
<1>2. [l EXCEPT !.head = t, !.tail = t] \in ListType BY DEF ListType, Pointers
<1>3. [l EXCEPT !.prev[l.head] = t, !.next[t] = l.head, !.head = t] \in ListType
  BY DEF ListType, Pointers
<1>4. l.head \in Pointers BY DEF ListType
<1>5. Typed(AddBehind(l, t, l.head, ex, alive)) BY <1>4, AddBehindTyped
<1>6. /\ Typed(Outcome([l EXCEPT !.head = t, !.tail = t], "none"))
      /\ Typed(Outcome([l EXCEPT !.prev[l.head] = t, !.next[t] = l.head, !.head = t], "none"))
      /\ Typed(Outcome(l, "freed"))
  BY <1>1, <1>2, <1>3, OutcomeTyped
<1> QED BY <1>5, <1>6, Zenon DEF AddTimer

\* ... adjust_timer() ...
LEMMA AdjustTimerTyped ==
    ASSUME NEW l \in ListType, NEW t \in Timers, NEW ex, NEW alive \in SUBSET Timers
    PROVE  Typed(AdjustTimer(l, t, ex, alive))
<1> DEFINE p == l.prev[t]
           n == l.next[t]
           l1 == [l EXCEPT !.head = n, !.prev[n] = Null, !.next[t] = Null]
           l2 == [l EXCEPT !.next[p] = n, !.prev[n] = p]
<1>1. "none" \in Faults /\ "freed" \in Faults BY DEF Faults
<1>2. p \in Pointers /\ n \in Pointers /\ l.head \in Pointers BY DEF ListType
<1>3. l1 \in ListType BY <1>2 DEF ListType, Pointers
<1>4. l2 \in ListType BY <1>2 DEF ListType, Pointers
<1>5. Typed(AddBehind(l1, t, n, ex, alive)) BY <1>2, <1>3, AddBehindTyped
<1>6. Typed(AddBehind(l2, t, l.head, ex, alive)) BY <1>2, <1>4, AddBehindTyped
<1>7. \A why \in Faults : Typed(Outcome(l, why)) BY OutcomeTyped
<1> QED BY <1>1, <1>5, <1>6, <1>7, DerefFault, Zenon DEF AdjustTimer

\* ... del_timer() ...
LEMMA UnlinkTyped ==
    ASSUME NEW l \in ListType, NEW t \in Timers, NEW alive \in SUBSET Timers
    PROVE  Typed(Unlink(l, t, alive))
<1> DEFINE p == l.prev[t]
           n == l.next[t]
<1>1. "none" \in Faults BY DEF Faults
<1>2. p \in Pointers /\ n \in Pointers BY DEF ListType
<1>3. [l EXCEPT !.head = Null, !.tail = Null] \in ListType BY DEF ListType, Pointers
<1>4. [l EXCEPT !.head = n, !.prev[n] = Null] \in ListType BY <1>2 DEF ListType, Pointers
<1>5. [l EXCEPT !.next[p] = n, !.prev[n] = p] \in ListType BY <1>2 DEF ListType, Pointers
<1>6. /\ Typed(Outcome([l EXCEPT !.head = Null, !.tail = Null], "none"))
      /\ Typed(Outcome([l EXCEPT !.head = n, !.prev[n] = Null], "none"))
      /\ Typed(Outcome([l EXCEPT !.next[p] = n, !.prev[n] = p], "none"))
  BY <1>1, <1>3, <1>4, <1>5, OutcomeTyped
<1>7. \A why \in Faults : Typed(Outcome(l, why)) BY OutcomeTyped
<1> QED BY <1>6, <1>7, DerefFault, Zenon DEF Unlink

\* ... and freeing timers.
LEMMA FreedTyped ==
    ASSUME NEW l \in ListType, NEW S
    PROVE  Freed(l, S) \in ListType
BY DEF Freed, ListType, Pointers

\* Behind a chain of timers that do not expire later, add_timer() ends at the tail.
LEMMA AddBehindEnd ==
    ASSUME NEW l \in ListType, NEW t \in Timers, NEW ex \in [Timers -> Int], NEW alive \in SUBSET Timers,
           NEW n \in 1 .. N, NEW s \in [1 .. n -> alive], Follows(l.next, n, s),
           NoneLater(ex, t, n, s), l.tail \in alive
    PROVE  AddBehind(l, t, s[1], ex, alive) = Outcome(LinkAtTail(l, t), "none")
<1> DEFINE w == Walk(l.next, s[1], alive)
           ends == {k \in Steps \ {0} : w[k] \notin alive \/ ex[t] < ex[w[k]]}
<1>1. l.next \in [Timers -> Pointers] BY DEF ListType
<1>2. \A k \in Steps : w[k] = IF k < n THEN s[k + 1] ELSE Null
  <2>1. n \in 0 .. N /\ s[1] = First(n, s) BY Sizes DEF First
  <2>2. \A k \in Steps : Walk(l.next, First(n, s), alive)[k] = IF k < n THEN s[k + 1] ELSE Null
    BY <1>1, <2>1, ChainWalk
  <2> QED BY <2>1, <2>2, Zenon
<1> HIDE DEF w
<1>3. ends \in SUBSET Nat /\ n \in ends /\ \A k \in ends : n <= k
  <2>1. n \in ends BY <1>2, Sizes
  <2>2. ASSUME NEW k \in ends, k < n PROVE FALSE
    <3>1. k \in Steps /\ k + 1 \in 1 .. n BY <2>2, Sizes
    <3>2. w[k] = s[k + 1] /\ s[k + 1] \in alive BY <1>2, <2>2, <3>1
    <3>3. ex[t] < ex[s[k + 1]] BY <2>2, <3>2
    <3>4. ex[s[k + 1]] <= ex[t] /\ ex[t] \in Int /\ ex[s[k + 1]] \in Int BY <3>1, <3>2 DEF NoneLater
    <3> QED BY <3>3, <3>4
  <2> QED BY <2>1, <2>2, Sizes
<1> HIDE DEF ends
<1>4. Min(ends) = n
  <2>1. Min(ends) \in ends /\ Min(ends) <= n BY <1>3, MinNat
  <2>2. Min(ends) \in Nat /\ n \in Nat /\ n <= Min(ends) BY <1>3, <2>1
  <2> QED BY <2>1, <2>2
<1>5. w[n] = Null BY <1>2, Sizes
<1>6. s[1] \in alive /\ ends # {} /\ Null \notin alive BY <1>3, Sizes
<1>7. AddBehind(l, t, s[1], ex, alive)
        = CASE s[1] \notin alive -> Outcome(l, Deref(s[1], alive))
            [] s[1] \in alive /\ ends = {} -> Outcome(l, "loop")
            [] s[1] \in alive /\ ends # {} /\ w[Min(ends)] = Null ->
                 IF l.tail \in alive THEN Outcome(LinkAtTail(l, t), "none")
                                     ELSE Outcome(l, Deref(l.tail, alive))
            [] s[1] \in alive /\ ends # {} /\ w[Min(ends)] \in alive ->
                 Outcome(LinkBetween(l, w[Min(ends) - 1], t, w[Min(ends)]), "none")
            [] OTHER -> Outcome(l, "freed")
  BY Zenon DEF AddBehind, w, ends
<1> QED BY <1>4, <1>5, <1>6, <1>7

-----------------------------------------------------------------------------
(* How a chain changes *)

AtEnd(n, s, t) == [i \in 1 .. n + 1 |-> IF i <= n THEN s[i] ELSE t]
From(m, n, s) == [i \in 1 .. n - m |-> s[i + m]]

\* A timer behind the last one.
LEMMA Appended ==
    ASSUME NEW l \in ListType, NEW S \in SUBSET Timers, NEW n \in Nat, n > 0, NEW s, Chain(l, S, n, s),
           NEW t \in Timers \ S
    PROVE  Chain(LinkAtTail(l, t), S \cup {t}, n + 1, AtEnd(n, s, t))
<1> DEFINE l2 == LinkAtTail(l, t)
           r == AtEnd(n, s, t)
<1>1. /\ s \in [1 .. n -> S] /\ \A i, j \in 1 .. n : s[i] = s[j] => i = j
      /\ \A u \in S : \E i \in 1 .. n : s[i] = u
      /\ \A i \in 1 .. n : l.next[s[i]] = IF i < n THEN s[i + 1] ELSE Null
      /\ l.head = s[1] /\ l.tail = s[n]
  BY DEF Chain, Follows, First, Distinct
<1>2. /\ l2.head = l.head /\ l2.tail = t
      /\ l2.next = [l.next EXCEPT ![l.tail] = t, ![t] = Null]
  BY DEF LinkAtTail, ListType
<1> HIDE DEF l2
<1>3. r[n + 1] = t /\ \A i \in 1 .. n : r[i] = s[i] /\ r[i] # t /\ r[i] \in S BY <1>1 DEF AtEnd
<1>4. r \in [1 .. n + 1 -> S \cup {t}] BY <1>1 DEF AtEnd
<1> HIDE DEF r
<1>5. \A i \in 1 .. n + 1 : i \in 1 .. n \/ i = n + 1 OBVIOUS
<1>6. \A i, j \in 1 .. n + 1 : r[i] = r[j] => i = j
  <2> SUFFICES ASSUME NEW i \in 1 .. n + 1, NEW j \in 1 .. n + 1, r[i] = r[j] PROVE i = j OBVIOUS
  <2>1. CASE i \in 1 .. n /\ j \in 1 .. n BY <1>1, <1>3, <2>1
  <2>2. CASE i = n + 1 /\ j \in 1 .. n BY <1>3, <2>2
  <2>3. CASE i \in 1 .. n /\ j = n + 1 BY <1>3, <2>3
  <2> QED BY <1>5, <2>1, <2>2, <2>3
<1>7. \A u \in S \cup {t} : \E i \in 1 .. n + 1 : r[i] = u
  <2>1. \A u \in S : \E i \in 1 .. n + 1 : r[i] = u
    <3> SUFFICES ASSUME NEW u \in S PROVE \E i \in 1 .. n + 1 : r[i] = u OBVIOUS
    <3>1. PICK i \in 1 .. n : s[i] = u BY <1>1
    <3>2. i \in 1 .. n + 1 /\ r[i] = u BY <1>3, <3>1
    <3> QED BY <3>2
  <2>2. n + 1 \in 1 .. n + 1 OBVIOUS
  <2> QED BY <1>3, <2>1, <2>2
<1>8. Follows(l2.next, n + 1, r)
  <2> SUFFICES ASSUME NEW i \in 1 .. n + 1 PROVE l2.next[r[i]] = IF i < n + 1 THEN r[i + 1] ELSE Null
    BY DEF Follows
  <2>0. l.next \in [Timers -> Pointers] /\ S \subseteq Timers /\ n \in 1 .. n BY DEF ListType
  <2>1. CASE i = n + 1 BY <1>2, <1>3, <2>0, <2>1
  <2>2. CASE i = n
    <3>1. r[n] = s[n] /\ s[n] \in Timers /\ s[n] # t /\ r[n + 1] = t BY <1>3, <2>0
    <3>2. l2.next[s[n]] = t BY <1>1, <1>2, <2>0, <3>1
    <3> QED BY <2>2, <3>1, <3>2
  <2>3. CASE i \in 1 .. n /\ i # n
    <3>1. i + 1 \in 1 .. n /\ i < n BY <2>3
    <3>2. r[i] = s[i] /\ r[i + 1] = s[i + 1] /\ s[i] \in Timers /\ s[i] # t BY <1>3, <2>0, <2>3, <3>1
    <3>3. s[i] # s[n] BY <1>1, <2>0, <2>3
    <3>4. l2.next[s[i]] = l.next[s[i]] BY <1>1, <1>2, <2>0, <3>2, <3>3
    <3>5. l.next[s[i]] = s[i + 1] BY <1>1, <2>3, <3>1
    <3> QED BY <3>1, <3>2, <3>4, <3>5
  <2> QED BY <1>5, <2>1, <2>2, <2>3
<1>9. l2.head = First(n + 1, r)
  <2>1. 1 \in 1 .. n OBVIOUS
  <2> QED BY <1>1, <1>2, <1>3, <2>1 DEF First
<1>10. n + 1 \in Nat OBVIOUS
<1> QED BY <1>2, <1>3, <1>4, <1>6, <1>7, <1>8, <1>9, <1>10 DEF Chain, Distinct, l2, r

\* Without the first m timers.
LEMMA Shifted ==
    ASSUME NEW l, NEW S, NEW n, NEW s, Chain(l, S, n, s), NEW m \in 0 .. n,
           NEW S2, S2 = S \ {s[i] : i \in 1 .. m},
           NEW l2, l2.tail = l.tail \/ m = n, l2.head = IF m = n THEN Null ELSE s[m + 1],
           \A u \in S2 : l2.next[u] = l.next[u]
    PROVE  Chain(l2, S2, n - m, From(m, n, s))
<1> DEFINE r == From(m, n, s)
<1>1. /\ n \in Nat /\ s \in [1 .. n -> S] /\ \A i, j \in 1 .. n : s[i] = s[j] => i = j
      /\ \A u \in S : \E i \in 1 .. n : s[i] = u
      /\ \A i \in 1 .. n : l.next[s[i]] = IF i < n THEN s[i + 1] ELSE Null
      /\ n > 0 => l.tail = s[n]
  BY DEF Chain, Follows, Distinct
<1>0. n \in Nat /\ m \in Nat /\ m <= n BY <1>1
<1>2. n - m \in Nat /\ \A i \in 1 .. n - m : i + m \in 1 .. n /\ r[i] = s[i + m] BY <1>1 DEF From
<1>3. \A i \in 1 .. n - m : r[i] \in S2
  <2> SUFFICES ASSUME NEW i \in 1 .. n - m, NEW j \in 1 .. m, s[i + m] = s[j] PROVE FALSE
    BY <1>1, <1>2
  <2>1. j \in 1 .. n /\ i + m # j BY <1>1
  <2> QED BY <1>1, <1>2, <2>1
<1>4. r \in [1 .. n - m -> S2] BY <1>3 DEF From
<1> HIDE DEF r
<1>5. \A i, j \in 1 .. n - m : r[i] = r[j] => i = j
  <2> SUFFICES ASSUME NEW i \in 1 .. n - m, NEW j \in 1 .. n - m, r[i] = r[j] PROVE i = j OBVIOUS
  <2>1. i + m = j + m BY <1>1, <1>2
  <2> QED BY <1>1, <2>1
<1>6. \A u \in S2 : \E i \in 1 .. n - m : r[i] = u
  <2> SUFFICES ASSUME NEW u \in S2 PROVE \E i \in 1 .. n - m : r[i] = u OBVIOUS
  <2>1. PICK j \in 1 .. n : s[j] = u BY <1>1
  <2>2. j \notin 1 .. m BY <2>1
  <2>3. j - m \in 1 .. n - m /\ j - m + m = j BY <1>0, <2>2
  <2>4. r[j - m] = u BY <1>2, <2>1, <2>3
  <2> QED BY <2>3, <2>4
<1>7. Follows(l2.next, n - m, r)
  <2> SUFFICES ASSUME NEW i \in 1 .. n - m
               PROVE  l2.next[r[i]] = IF i < n - m THEN r[i + 1] ELSE Null
    BY DEF Follows
  <2>1. i + m \in 1 .. n /\ r[i] = s[i + m] /\ r[i] \in S2 BY <1>2, <1>3
  <2>2. l2.next[r[i]] = IF i + m < n THEN s[i + m + 1] ELSE Null BY <1>1, <2>1
  <2>3. CASE i < n - m
    <3>0. n \in Nat /\ m \in Nat /\ i \in Nat \ {0} BY <1>0
    <3>a. i + m < n BY <2>3, <3>0
    <3>b. i + 1 \in 1 .. n - m BY <2>3, <3>0
    <3>c. i + 1 + m = i + m + 1 BY <3>0
    <3>1. i + 1 \in 1 .. n - m /\ i + m < n /\ i + 1 + m = i + m + 1 BY <3>a, <3>b, <3>c
    <3>2. r[i + 1] = s[i + 1 + m] BY <1>2, <3>1
    <3> QED BY <2>2, <2>3, <3>1, <3>2
  <2>4. CASE ~(i < n - m)
    <3>1. ~(i + m < n) BY <1>1, <2>4
    <3> QED BY <2>2, <2>4, <3>1
  <2> QED BY <2>3, <2>4
<1>8. l2.head = First(n - m, r)
  <2>1. CASE m = n BY <1>1, <2>1 DEF First
  <2>2. CASE m # n
    <3>1. 1 \in 1 .. n - m /\ n - m # 0 /\ 1 + m = m + 1 BY <1>1, <2>2
    <3> QED BY <1>2, <2>2, <3>1 DEF First
  <2> QED BY <2>1, <2>2
<1>9. n - m > 0 => l2.tail = r[n - m]
  <2> SUFFICES ASSUME n - m > 0 PROVE l2.tail = r[n - m] OBVIOUS
  <2>1. n - m \in 1 .. n - m /\ n - m + m = n /\ n > 0 /\ m # n BY <1>0
  <2> QED BY <1>1, <1>2, <2>1
<1> QED BY <1>2, <1>4, <1>5, <1>6, <1>7, <1>8, <1>9 DEF Chain, Distinct, r

\* The order, with one more timer at the end.
LEMMA SortedAtEnd ==
    ASSUME NEW ex \in [Timers -> Int], NEW n \in Nat, NEW s \in [1 .. n -> Timers], NEW t \in Timers,
           Sorted(ex, n, s), NoneLater(ex, t, n, s)
    PROVE  Sorted(ex, n + 1, AtEnd(n, s, t))
<1> DEFINE r == AtEnd(n, s, t)
<1> SUFFICES ASSUME NEW i \in 1 .. n + 1, NEW j \in 1 .. n + 1, i <= j PROVE ex[r[i]] <= ex[r[j]]
  BY DEF Sorted
<1>1. CASE j \in 1 .. n
  <2>1. i \in 1 .. n /\ r[i] = s[i] /\ r[j] = s[j] BY <1>1 DEF AtEnd
  <2> QED BY <1>1, <2>1 DEF Sorted
<1>2. CASE j = n + 1 /\ i \in 1 .. n BY <1>2 DEF AtEnd, NoneLater
<1>3. CASE j = n + 1 /\ i = n + 1
  <2>1. ex[r[i]] = ex[t] /\ ex[t] \in Int BY <1>3 DEF AtEnd
  <2> QED BY <1>3, <2>1
<1> QED BY <1>1, <1>2, <1>3

\* The order of the timers that are left when the first m are gone.
LEMMA SortedFrom ==
    ASSUME NEW ex, NEW n \in Nat, NEW s, NEW m \in 0 .. n, Sorted(ex, n, s)
    PROVE  Sorted(ex, n - m, From(m, n, s))
<1> SUFFICES ASSUME NEW i \in 1 .. n - m, NEW j \in 1 .. n - m, i <= j
             PROVE  ex[From(m, n, s)[i]] <= ex[From(m, n, s)[j]]
  BY DEF Sorted
<1>1. i + m \in 1 .. n /\ j + m \in 1 .. n /\ i + m <= j + m OBVIOUS
<1> QED BY <1>1 DEF Sorted, From

\* A chain makes the list right.
LEMMA MakesRight ==
    ASSUME NEW n, NEW s, Chain(lst', live', n, s), Sorted(expire', n, s), live' \in SUBSET Timers,
           \A t \in live' : expire'[t] <= now' + Lifetime, \A t \in Timers \ live' : lst'.next[t] = Null
    PROVE  Right'
<1>1. n \in Nat /\ s \in [1 .. n -> live'] /\ Distinct(n, s) BY DEF Chain
<1>2. n \in 0 .. N BY <1>1, ChainLength, Sizes
<1>3. \E m \in 0 .. N : \E r \in [1 .. m -> live'] : Chain(lst', live', m, r) /\ Sorted(expire', m, r)
  BY <1>1, <1>2
<1> QED BY <1>3 DEF Right, N

-----------------------------------------------------------------------------
(* The steps of the event loop *)

\* A new connection: its timer becomes the last one.
LEMMA TimerStep ==
    ASSUME TypeOK, Right, NEW t \in Timers, Timer(t)
    PROVE  fault' = "none" /\ Right'
<1>0. PICK n \in 0 .. N : \E s \in [1 .. n -> live] : Chain(lst, live, n, s) /\ Sorted(expire, n, s)
  BY DEF Right
<1>1. PICK s \in [1 .. n -> live] : Chain(lst, live, n, s) /\ Sorted(expire, n, s) BY <1>0
<1>2. /\ t \notin live /\ live' = live \cup {t} /\ now' = now
      /\ expire' = [expire EXCEPT ![t] = now + Lifetime]
      /\ lst' = AddTimer(lst, t, expire', live').lst /\ fault' = AddTimer(lst, t, expire', live').fault
  BY DEF Timer, Settle, NewExpire
<1>3. /\ lst \in ListType /\ live \in SUBSET Timers /\ now \in Nat /\ Lifetime \in Nat
      /\ expire \in [Timers -> Nat] /\ lst.next \in [Timers -> Pointers]
  BY TimerAssumption DEF TypeOK, ListType
<1>4. expire' \in [Timers -> Int] /\ expire'[t] = now + Lifetime /\ \A u \in live : expire'[u] = expire[u]
  BY <1>2, <1>3
<1>5. \A u \in live' : expire'[u] <= now' + Lifetime BY <1>2, <1>3, <1>4 DEF Right
<1>6. live' \in SUBSET Timers BY <1>2, <1>3
<1>7. CASE n = 0
  <2>1. lst.head = Null /\ live = {} BY <1>1, <1>7 DEF Chain, First
  <2>2. AddTimer(lst, t, expire', live') = Outcome([lst EXCEPT !.head = t, !.tail = t], "none")
    BY <2>1, Sizes, <1>6 DEF AddTimer
  <2>3. fault' = "none" /\ lst' = [lst EXCEPT !.head = t, !.tail = t] BY <1>2, <2>2 DEF Outcome
  <2>4. lst'.head = t /\ lst'.tail = t /\ lst'.next = lst.next BY <1>3, <2>3 DEF ListType
  <2>5. \A u \in Timers : lst.next[u] = Null BY <2>1 DEF Right
  <2> DEFINE r == [i \in 1 .. 1 |-> t]
  <2>6. Chain(lst', live', 1, r) BY <1>2, <2>1, <2>4, <2>5 DEF Chain, Follows, First, Distinct
  <2>7. Sorted(expire', 1, r) BY <1>3, <1>4 DEF Sorted
  <2> HIDE DEF r
  <2>8. Right' BY <1>5, <1>6, <2>4, <2>5, <2>6, <2>7, MakesRight
  <2> QED BY <2>3, <2>8
<1>8. CASE n # 0
  <2>1. n \in Nat /\ n > 0 /\ n \in 1 .. N /\ 1 \in 1 .. n /\ n \in 1 .. n BY <1>8, Sizes
  <2>2. lst.head = s[1] /\ lst.tail = s[n] /\ s[1] \in live /\ s[n] \in live /\ Follows(lst.next, n, s)
    BY <1>1, <2>1 DEF Chain, First
  <2>3. \A i \in 1 .. n : expire'[s[i]] = expire[s[i]] /\ expire'[s[i]] <= expire'[t]
    BY <1>2, <1>4, <1>5
  <2>4. s \in [1 .. n -> live'] /\ NoneLater(expire', t, n, s) /\ lst.tail \in live'
    BY <1>2, <2>2, <2>3 DEF NoneLater
  <2>5. AddBehind(lst, t, s[1], expire', live') = Outcome(LinkAtTail(lst, t), "none")
    BY <1>3, <1>4, <1>6, <2>1, <2>2, <2>4, AddBehindEnd
  <2>6. AddTimer(lst, t, expire', live') = AddBehind(lst, t, s[1], expire', live')
    <3>1. expire'[lst.head] <= expire'[t] /\ expire'[lst.head] \in Int /\ expire'[t] \in Int
      BY <1>4, <2>1, <2>2, <2>3, <1>3
    <3>2. ~(expire'[t] < expire'[lst.head]) /\ expire'[t] >= expire'[lst.head] BY <3>1
    <3>3. lst.head \in live' /\ lst.head # Null BY <1>2, <1>3, <2>2, Sizes
    <3> QED BY <2>2, <3>2, <3>3 DEF AddTimer
  <2>7. fault' = "none" /\ lst' = LinkAtTail(lst, t) BY <1>2, <2>5, <2>6 DEF Outcome
  <2> DEFINE r == AtEnd(n, s, t)
  <2>8. Chain(lst', live', n + 1, r)
    <3>1. t \in Timers \ live BY <1>2
    <3>2. Chain(LinkAtTail(lst, t), live \cup {t}, n + 1, AtEnd(n, s, t))
      BY <1>1, <1>3, <2>1, <3>1, Appended
    <3> QED BY <1>2, <2>7, <3>2, Zenon
  <2>9. Sorted(expire', n + 1, r)
    <3>1. Sorted(expire', n, s) BY <1>1, <2>3 DEF Sorted
    <3>2. s \in [1 .. n -> Timers] BY <1>3
    <3> QED BY <1>4, <2>1, <2>4, <3>1, <3>2, SortedAtEnd
  <2>10. \A u \in Timers \ live' : lst'.next[u] = Null
    <3> SUFFICES ASSUME NEW u \in Timers, u \notin live, u # t PROVE lst'.next[u] = Null BY <1>2
    <3>1. u # lst.tail /\ lst.next[u] = Null BY <2>2 DEF Right
    <3> QED BY <1>3, <2>7, <3>1 DEF LinkAtTail, ListType
  <2> HIDE DEF r
  <2>11. Right' BY <1>5, <1>6, <2>8, <2>9, <2>10, MakesRight
  <2> QED BY <2>7, <2>11
<1> QED BY <1>7, <1>8

\* Data on a connection: the first timer becomes the last one, the last one stays.
LEMMA AdjustStep ==
    ASSUME TypeOK, Right, NEW t \in Timers, Adjust(t), ~spliced'
    PROVE  fault' = "none" /\ Right'
<1>0. PICK n \in 0 .. N : \E s \in [1 .. n -> live] : Chain(lst, live, n, s) /\ Sorted(expire, n, s)
  BY DEF Right
<1>1. PICK s \in [1 .. n -> live] : Chain(lst, live, n, s) /\ Sorted(expire, n, s) BY <1>0
<1>2. /\ t \in live /\ live' = live /\ now' = now
      /\ expire' = [expire EXCEPT ![t] = now + Lifetime]
      /\ lst' = AdjustTimer(lst, t, expire', live).lst /\ fault' = AdjustTimer(lst, t, expire', live).fault
      /\ ~(MustMove(lst, t, expire', live) /\ t # lst.head)
  BY DEF Adjust, Settle, NewExpire
<1>3. /\ lst \in ListType /\ live \in SUBSET Timers /\ now \in Nat /\ Lifetime \in Nat
      /\ expire \in [Timers -> Nat] /\ lst.next \in [Timers -> Pointers]
  BY TimerAssumption DEF TypeOK, ListType
<1>4. /\ expire' \in [Timers -> Int] /\ expire'[t] = now + Lifetime
      /\ \A u \in live : u # t => expire'[u] = expire[u]
  BY <1>2, <1>3
<1>5. \A u \in live' : expire'[u] <= now' + Lifetime BY <1>2, <1>3, <1>4 DEF Right
<1>6. live' \in SUBSET Timers BY <1>2, <1>3
<1>7. /\ n \in Nat /\ Distinct(n, s) /\ Follows(lst.next, n, s) /\ lst.head = First(n, s)
      /\ n > 0 => lst.tail = s[n]
  BY <1>1 DEF Chain
<1>8. PICK i \in 1 .. n : s[i] = t BY <1>1, <1>2 DEF Chain
<1>9. n > 0 /\ 1 \in 1 .. n /\ n \in 1 .. n BY <1>7, <1>8
<1>10. lst.head = s[1] /\ lst.tail = s[n] BY <1>7, <1>9 DEF First
<1>11. CASE i = n
  <2>1. lst.next[t] = Null /\ Null \notin live BY <1>3, <1>7, <1>8, <1>11, Sizes DEF Follows
  <2>2. ~MustMove(lst, t, expire', live) /\ Deref(lst.next[t], live) # "freed" BY <2>1 DEF MustMove, Deref
  <2>3. AdjustTimer(lst, t, expire', live) = Outcome(lst, "none") BY <2>2, Zenon DEF AdjustTimer
  <2>4. fault' = "none" /\ lst' = lst BY <1>2, <2>3 DEF Outcome
  <2>5. Sorted(expire', n, s)
    <3> SUFFICES ASSUME NEW j \in 1 .. n, NEW k \in 1 .. n, j <= k PROVE expire'[s[j]] <= expire'[s[k]]
      BY DEF Sorted
    <3>1. s[j] \in live /\ s[k] \in live BY <1>9
    <3>2. CASE k = n
      <4>1. expire'[s[k]] = now + Lifetime BY <1>4, <1>8, <1>11, <3>2
      <4> QED BY <1>2, <1>5, <3>1, <4>1
    <3>3. CASE k # n
      <4>1. j # n BY <1>7, <3>3
      <4>2. s[j] # t /\ s[k] # t BY <1>7, <1>8, <1>9, <1>11, <3>3, <4>1 DEF Distinct
      <4>3. expire[s[j]] <= expire[s[k]] BY <1>1 DEF Sorted
      <4> QED BY <1>4, <3>1, <4>2, <4>3
    <3> QED BY <3>2, <3>3
  <2>6. Chain(lst', live', n, s) BY <1>1, <1>2, <2>4
  <2>7. \A u \in Timers \ live' : lst'.next[u] = Null BY <1>2, <2>4 DEF Right
  <2>8. Right' BY <1>5, <1>6, <2>5, <2>6, <2>7, MakesRight
  <2> QED BY <2>4, <2>8
<1>12. CASE i # n
  <2>1. i < n /\ i + 1 \in 1 .. n BY <1>7, <1>12
  <2>2. lst.next[t] = s[i + 1] /\ s[i + 1] \in live BY <1>7, <1>8, <2>1 DEF Follows
  <2>3. t # s[n] BY <1>7, <1>8, <1>9, <1>12 DEF Distinct
  <2>4. MustMove(lst, t, expire', live)
    <3>1. expire'[s[i + 1]] <= expire'[t] /\ expire'[t] \in Int /\ expire'[s[i + 1]] \in Int
      BY <1>2, <1>3, <1>4, <1>5, <2>2
    <3>2. expire'[t] >= expire'[lst.next[t]] BY <2>2, <3>1
    <3> QED BY <1>10, <2>2, <2>3, <3>2 DEF MustMove
  <2>5. t = lst.head /\ i = 1 /\ lst.next[t] = s[2]
    BY <1>2, <1>7, <1>8, <1>9, <1>10, <2>2, <2>4 DEF Distinct
  <2> DEFINE q == s[2]
             l1 == [lst EXCEPT !.head = q, !.prev[q] = Null, !.next[t] = Null]
             r == From(1, n, s)
             S == live \ {t}
  <2>6. AdjustTimer(lst, t, expire', live) = AddBehind(l1, t, q, expire', live)
    <3>1. AdjustTimer(lst, t, expire', live)
            = AddBehind([lst EXCEPT !.head = lst.next[t], !.prev[lst.next[t]] = Null, !.next[t] = Null],
                        t, lst.next[t], expire', live)
      <4>1. Deref(lst.next[t], live) # "freed" BY <2>2 DEF Deref
      <4> QED BY <2>4, <2>5, <4>1, Zenon DEF AdjustTimer
    <3>2. lst.next[t] = q BY <2>5
    <3> QED BY <3>1, <3>2, Zenon
  <2>7. q \in live /\ q \in Timers BY <1>3, <2>2, <2>5
  <2>8. l1 \in ListType BY <1>3, <2>7 DEF ListType, Pointers
  <2>9. /\ l1.head = q /\ l1.tail = lst.tail /\ l1.next \in [Timers -> Pointers]
        /\ \A u \in S : l1.next[u] = lst.next[u]
    BY <1>3, <2>8 DEF ListType
  <2> HIDE DEF l1
  <2>10. Chain(l1, S, n - 1, r)
    <3>1. S = live \ {s[j] : j \in 1 .. 1} BY <1>8, <2>5
    <3>2. 1 \in 0 .. n /\ l1.head = IF 1 = n THEN Null ELSE s[1 + 1] BY <1>7, <1>9, <1>12, <2>5, <2>9
    <3> HIDE DEF S, q
    <3> QED BY <1>1, <2>9, <3>1, <3>2, Shifted
  <2>11. n - 1 \in Nat /\ n - 1 > 0 /\ n - 1 \in 1 .. N /\ 1 \in 1 .. n - 1 /\ n - 1 + 1 = n
    BY <1>7, <1>9, <1>12, <2>5, Sizes
  <2>12. r[1] = q BY <2>11 DEF From
  <2>13. r \in [1 .. n - 1 -> S] /\ Follows(l1.next, n - 1, r) BY <2>10 DEF Chain
  <2>14. r \in [1 .. n - 1 -> live] /\ r \in [1 .. n - 1 -> Timers] BY <1>3, <2>13
  <2>15. NoneLater(expire', t, n - 1, r)
    <3> SUFFICES ASSUME NEW j \in 1 .. n - 1 PROVE expire'[r[j]] <= expire'[t] BY DEF NoneLater
    <3>1. r[j] \in live BY <2>14
    <3> QED BY <1>2, <1>4, <1>5, <3>1
  <2>16. l1.tail \in live BY <1>9, <1>10, <2>9
  <2>17. AddBehind(l1, t, r[1], expire', live) = Outcome(LinkAtTail(l1, t), "none")
    <3> HIDE DEF r
    <3> QED BY <1>3, <1>4, <2>8, <2>11, <2>13, <2>14, <2>15, <2>16, AddBehindEnd
  <2>18. fault' = "none" /\ lst' = LinkAtTail(l1, t) BY <1>2, <2>6, <2>12, <2>17 DEF Outcome
  <2>19. Chain(lst', live', n, AtEnd(n - 1, r, t))
    <3>1. S \cup {t} = live' /\ S \in SUBSET Timers /\ t \in Timers \ S BY <1>2, <1>3
    <3> HIDE DEF S, r
    <3>2. Chain(LinkAtTail(l1, t), S \cup {t}, n - 1 + 1, AtEnd(n - 1, r, t))
      BY <2>8, <2>10, <2>11, <3>1, Appended
    <3> QED BY <2>11, <2>18, <3>1, <3>2, Zenon
  <2>20. Sorted(expire', n, AtEnd(n - 1, r, t))
    <3>1. Sorted(expire, n - 1, r) BY <1>1, <1>7, <1>9, SortedFrom
    <3>2. \A j \in 1 .. n - 1 : expire'[r[j]] = expire[r[j]] BY <1>4, <2>13
    <3>3. Sorted(expire', n - 1, r) BY <3>1, <3>2 DEF Sorted
    <3> HIDE DEF r
    <3>4. Sorted(expire', n - 1 + 1, AtEnd(n - 1, r, t))
      BY <1>4, <2>11, <2>14, <2>15, <3>3, SortedAtEnd
    <3> QED BY <2>11, <3>4, Zenon
  <2>21. \A u \in Timers \ live' : lst'.next[u] = Null
    <3> SUFFICES ASSUME NEW u \in Timers, u \notin live PROVE lst'.next[u] = Null BY <1>2
    <3>1. u # t /\ u # l1.tail BY <1>2, <2>16
    <3>2. l1.next[u] = lst.next[u] BY <1>3, <3>1 DEF l1, ListType
    <3>3. lst.next[u] = Null BY DEF Right
    <3> QED BY <2>8, <2>9, <2>18, <3>1, <3>2, <3>3 DEF LinkAtTail, ListType
  <2> HIDE DEF r
  <2>22. Right' BY <1>5, <1>6, <2>19, <2>20, <2>21, MakesRight
  <2> QED BY <2>18, <2>22
<1> QED BY <1>11, <1>12

\* The first m timers of the chain are taken out and freed.
Gone(n, s, m) ==
    /\ live' = live \ {s[j] : j \in 1 .. m}
    /\ \A u \in live' : expire'[u] = expire[u]
    /\ lst'.tail = lst.tail \/ m = n
    /\ lst'.head = IF m = n THEN Null ELSE s[m + 1]
    /\ \A u \in Timers : lst'.next[u] = IF u \in live \ live' THEN Null ELSE lst.next[u]
    /\ now' = now

\* What is left is right.
LEMMA FrontGone ==
    ASSUME TypeOK, Right, NEW n \in 0 .. N, NEW s \in [1 .. n -> live],
           Chain(lst, live, n, s), Sorted(expire, n, s), NEW m \in 0 .. n, Gone(n, s, m)
    PROVE  Right'
<1> DEFINE r == From(m, n, s)
<1>0. /\ live' = live \ {s[j] : j \in 1 .. m} /\ now' = now
      /\ \A u \in live' : expire'[u] = expire[u]
      /\ lst'.tail = lst.tail \/ m = n
      /\ lst'.head = IF m = n THEN Null ELSE s[m + 1]
      /\ \A u \in Timers : lst'.next[u] = IF u \in live \ live' THEN Null ELSE lst.next[u]
  BY DEF Gone
<1>1. live' \in SUBSET Timers /\ live' \subseteq live /\ live \in SUBSET Timers BY <1>0 DEF TypeOK
<1>2. \A u \in live' : lst'.next[u] = lst.next[u] BY <1>0, <1>1
<1>3. Chain(lst', live', n - m, r) BY <1>0, <1>2, Shifted
<1>4. n \in Nat OBVIOUS
<1>5. Sorted(expire', n - m, r)
  <2>1. Sorted(expire, n - m, r) BY <1>4, SortedFrom
  <2>2. r \in [1 .. n - m -> live'] BY <1>3 DEF Chain
  <2> HIDE DEF r
  <2>3. \A j \in 1 .. n - m : expire'[r[j]] = expire[r[j]] BY <1>0, <2>2
  <2> QED BY <2>1, <2>3 DEF Sorted
<1>6. \A u \in live' : expire'[u] <= now' + Lifetime BY <1>0, <1>1 DEF Right
<1>7. \A u \in Timers \ live' : lst'.next[u] = Null BY <1>0 DEF Right
<1> HIDE DEF r
<1> QED BY <1>1, <1>3, <1>5, <1>6, <1>7, MakesRight

\* A connection is closed whose timer is the first one.
LEMMA DelStep ==
    ASSUME TypeOK, Right, NEW t \in Timers, Del(t), ~spliced'
    PROVE  fault' = "none" /\ Right'
<1>0. PICK n \in 0 .. N : \E s \in [1 .. n -> live] : Chain(lst, live, n, s) /\ Sorted(expire, n, s)
  BY DEF Right
<1>1. PICK s \in [1 .. n -> live] : Chain(lst, live, n, s) /\ Sorted(expire, n, s) BY <1>0
<1> DEFINE o == Unlink(lst, t, live)
<1>2. /\ t \in live /\ now' = now /\ (lst.head = lst.tail \/ t = lst.head)
      /\ o.fault = "none" => /\ lst' = [o EXCEPT !.lst = Freed(o.lst, {t})].lst
                             /\ fault' = [o EXCEPT !.lst = Freed(o.lst, {t})].fault
                             /\ live' = live \ {t} /\ expire' = [expire EXCEPT ![t] = 0]
  BY DEF Del, Settle
<1>3. /\ lst \in ListType /\ live \in SUBSET Timers /\ expire \in [Timers -> Nat]
      /\ lst.next \in [Timers -> Pointers]
  BY TimerAssumption DEF TypeOK, ListType
<1>4. /\ n \in Nat /\ Distinct(n, s) /\ Follows(lst.next, n, s) /\ lst.head = First(n, s)
      /\ n > 0 => lst.tail = s[n]
  BY <1>1 DEF Chain
<1>5. PICK i \in 1 .. n : s[i] = t BY <1>1, <1>2 DEF Chain
<1>6. n > 0 /\ 1 \in 1 .. n /\ n \in 1 .. n BY <1>4, <1>5
<1>7. lst.head = s[1] /\ lst.tail = s[n] BY <1>4, <1>6 DEF First
<1>8. s[1] = t
  <2>1. CASE t = lst.head BY <1>7, <2>1
  <2>2. CASE lst.head = lst.tail
    <3>1. n = 1 BY <1>4, <1>6, <1>7, <2>2 DEF Distinct
    <3> QED BY <1>5, <3>1
  <2> QED BY <1>2, <2>1, <2>2
<1> DEFINE h == IF 1 = n THEN Null ELSE s[1 + 1]
<1>9. \E l \in ListType : /\ o = Outcome(l, "none") /\ l.head = h /\ l.next = lst.next
                          /\ l.tail = lst.tail \/ 1 = n
  <2>1. CASE n = 1
    <3> DEFINE l == [lst EXCEPT !.head = Null, !.tail = Null]
    <3>1. lst.head = lst.tail BY <1>7, <2>1
    <3>2. o = Outcome(l, "none") BY <3>1, Zenon DEF Unlink
    <3>3. l \in ListType /\ l.head = h /\ l.next = lst.next BY <1>3, <2>1 DEF ListType, Pointers
    <3> HIDE DEF l
    <3> QED BY <2>1, <3>2, <3>3
  <2>2. CASE n # 1
    <3> DEFINE l == [lst EXCEPT !.head = s[2], !.prev[s[2]] = Null]
    <3>1. 2 \in 1 .. n /\ 1 < n BY <1>4, <1>6, <2>2
    <3>2. lst.head # lst.tail BY <1>4, <1>6, <1>7, <2>2 DEF Distinct
    <3>3. lst.next[t] = s[2] /\ s[2] \in live BY <1>4, <1>6, <1>8, <3>1 DEF Follows
    <3>4. o = Outcome(l, "none") BY <1>7, <1>8, <3>2, <3>3, Zenon DEF Unlink
    <3>5. s[2] \in Timers /\ h = s[2] BY <1>3, <2>2, <3>3
    <3> HIDE DEF h
    <3>6. l \in ListType BY <1>3, <3>5 DEF ListType, Pointers
    <3>7. l.head = h /\ l.next = lst.next /\ l.tail = lst.tail BY <1>3, <3>5 DEF ListType
    <3> HIDE DEF l
    <3> QED BY <3>4, <3>6, <3>7
  <2> QED BY <2>1, <2>2
<1>10. PICK l \in ListType : /\ o = Outcome(l, "none") /\ l.head = h /\ l.next = lst.next
                             /\ l.tail = lst.tail \/ 1 = n
  BY <1>9
<1> HIDE DEF h
<1>11. o.fault = "none" /\ o.lst = l BY <1>10 DEF Outcome
<1>12. [o EXCEPT !.lst = Freed(o.lst, {t})] = Outcome(Freed(l, {t}), "none") BY <1>10 DEF Outcome
<1>13. lst' = Freed(l, {t}) /\ fault' = "none" BY <1>2, <1>11, <1>12 DEF Outcome
<1>14. live' = live \ {t} /\ expire' = [expire EXCEPT ![t] = 0] BY <1>2, <1>11
<1>15. /\ lst'.head = h /\ (lst'.tail = lst.tail \/ 1 = n)
       /\ \A u \in Timers : lst'.next[u] = IF u \in {t} THEN Null ELSE lst.next[u]
  BY <1>10, <1>13 DEF Freed, ListType
<1>16. live \ live' = {t} BY <1>2, <1>14
<1>17. live' = live \ {s[j] : j \in 1 .. 1} BY <1>8, <1>14
<1>18. \A u \in live' : expire'[u] = expire[u] BY <1>3, <1>14
<1>19. 1 \in 0 .. n BY <1>6
<1>20. \A u \in Timers : lst'.next[u] = IF u \in live \ live' THEN Null ELSE lst.next[u] BY <1>15, <1>16
<1>21. Gone(n, s, 1) BY <1>2, <1>15, <1>17, <1>18, <1>20 DEF Gone, h
<1>22. Right' BY <1>1, <1>19, <1>21, FrontGone
<1> QED BY <1>13, <1>22

\* SIGALRM: the timers that have expired are the first ones, and they are freed.
LEMMA TickStep ==
    ASSUME TypeOK, Right, TimeHandler
    PROVE  fault' = "none" /\ Right' /\ live' = {t \in live : expire[t] > now}
<1>0. PICK n \in 0 .. N : \E s \in [1 .. n -> live] : Chain(lst, live, n, s) /\ Sorted(expire, n, s)
  BY DEF Right
<1>1. PICK s \in [1 .. n -> live] : Chain(lst, live, n, s) /\ Sorted(expire, n, s) BY <1>0
<1>2. /\ lst \in ListType /\ live \in SUBSET Timers /\ expire \in [Timers -> Nat] /\ now \in Nat
      /\ lst.next \in [Timers -> Pointers] /\ Null \notin live
  BY TimerAssumption, Sizes DEF TypeOK, ListType
<1>3. /\ n \in Nat /\ Follows(lst.next, n, s) /\ lst.head = First(n, s)
      /\ live = {s[j] : j \in 1 .. n} /\ Distinct(n, s)
  BY <1>1 DEF Chain
<1> DEFINE w == Walk(lst.next, lst.head, live)
           ends == TickEnds(w, expire, live, now)
           m == Min(ends)
           fired == {w[k] : k \in 0 .. m - 1}
<1>4. \A k \in Steps : w[k] = IF k < n THEN s[k + 1] ELSE Null
  <2>1. \A k \in Steps : Walk(lst.next, First(n, s), live)[k] = IF k < n THEN s[k + 1] ELSE Null
    <3>1. lst.next \in [Timers -> Pointers] /\ live \in SUBSET Timers /\ Follows(lst.next, n, s)
      BY <1>2, <1>3
    <3> QED BY <3>1, ChainWalk
  <2> QED BY <1>3, <2>1, Zenon
<1>5. n \in ends /\ ends \in SUBSET Nat
  BY <1>2, <1>4, Sizes DEF TickEnds
<1>6. m \in ends /\ \A k \in ends : m <= k BY <1>5, MinNat
<1>7. m \in 0 .. n /\ m \in Steps
  <2> HIDE DEF m, w
  <2>1. m <= n /\ m \in Nat BY <1>5, <1>6
  <2>2. m \in Steps BY <1>6 DEF TickEnds
  <2> QED BY <1>3, <2>1, <2>2
<1>8. ends # {} BY <1>5
<1> DEFINE l == Freed(HeadAt(lst, w[m]), fired)
           out == CASE w[m] = Null -> Outcome(l, "none")
                    [] w[m] \in live \ fired ->
                         Outcome([l EXCEPT !.prev[w[m]] = IF m = 0 THEN @ ELSE Null], "none")
                    [] OTHER -> Outcome(l, "freed")
<1>9. /\ live' = live \ fired /\ expire' = [t \in Timers |-> IF t \in fired THEN 0 ELSE expire[t]]
      /\ now' = now /\ lst' = out.lst /\ fault' = out.fault
  BY <1>8, Zenon DEF TimeHandler, Settle
<1> HIDE DEF w, m
<1>10. \A k \in 0 .. m - 1 : k \in Steps /\ k < n /\ k + 1 \in 1 .. m /\ w[k] = s[k + 1]
  BY <1>4, <1>7, Sizes
<1>11. fired = {s[j] : j \in 1 .. m}
  <2>1. \A j \in 1 .. m : j - 1 \in 0 .. m - 1 /\ j - 1 + 1 = j BY <1>7
  <2> QED BY <1>10, <2>1
<1>12. w[m] = IF m = n THEN Null ELSE s[m + 1] BY <1>4, <1>7
<1>13. m # n => w[m] \in live \ fired
  <2> SUFFICES ASSUME m # n PROVE w[m] \in live \ fired OBVIOUS
  <2>1. m + 1 \in 1 .. n /\ w[m] = s[m + 1] BY <1>7, <1>12
  <2>2. \A j \in 1 .. m : j \in 1 .. n /\ j # m + 1 BY <1>7
  <2>3. s[m + 1] \notin {s[j] : j \in 1 .. m} BY <1>3, <2>1, <2>2 DEF Distinct
  <2> QED BY <1>11, <2>1, <2>3
<1>14. /\ l \in ListType /\ l.head = w[m] /\ l.tail = lst.tail
       /\ \A u \in Timers : l.next[u] = IF u \in fired THEN Null ELSE lst.next[u]
  <2>1. w[m] \in Pointers BY <1>2, <1>12, <1>13 DEF Pointers
  <2>2. HeadAt(lst, w[m]) \in ListType BY <1>2, <2>1 DEF HeadAt, ListType
  <2>3. l \in ListType BY <2>2, FreedTyped
  <2> QED BY <1>2, <2>3 DEF HeadAt, Freed, ListType
<1> HIDE DEF l, fired
<1>15. fault' = "none" /\ lst'.head = w[m] /\ lst'.tail = lst.tail /\ lst'.next = l.next
  <2>1. CASE m = n
    <3>0. w[m] = Null /\ w[m] \notin live \ fired BY <1>2, <1>12, <2>1
    <3>1. out = Outcome(l, "none") BY <3>0, Zenon
    <3> QED BY <1>9, <1>14, <3>1 DEF Outcome
  <2>2. CASE m # n
    <3> DEFINE l1 == [l EXCEPT !.prev[w[m]] = IF m = 0 THEN @ ELSE Null]
    <3>1. w[m] # Null /\ w[m] \in live \ fired BY <1>2, <1>13, <2>2
    <3>2. out = Outcome(l1, "none") BY <3>1, Zenon
    <3>3. l1.head = l.head /\ l1.tail = l.tail /\ l1.next = l.next BY <1>14 DEF ListType
    <3> HIDE DEF l1
    <3> QED BY <1>9, <1>14, <3>2, <3>3 DEF Outcome
  <2> QED BY <2>1, <2>2
<1>16. fired \subseteq live BY <1>3, <1>7, <1>11
<1>17. live \ live' = fired BY <1>9, <1>16
<1>18. Right'
  <2>1. live' = live \ {s[j] : j \in 1 .. m} BY <1>9, <1>11
  <2>2. \A u \in live' : expire'[u] = expire[u] BY <1>2, <1>9
  <2>3. \A u \in Timers : lst'.next[u] = IF u \in live \ live' THEN Null ELSE lst.next[u]
    BY <1>14, <1>15, <1>17
  <2>4. Gone(n, s, m) BY <1>9, <1>12, <1>15, <2>1, <2>2, <2>3 DEF Gone
  <2> QED BY <1>1, <1>7, <2>4, FrontGone
<1>19. live' = {t \in live : expire[t] > now}
  <2>1. \A t \in fired : expire[t] <= now
    <3> SUFFICES ASSUME NEW k \in 0 .. m - 1 PROVE expire[w[k]] <= now BY DEF fired
    <3>1. k \notin ends BY <1>5, <1>6, <1>7
    <3>2. w[k] \in live BY <1>7, <1>10, <1>16 DEF fired
    <3> QED BY <1>2, <1>10, <3>1, <3>2 DEF TickEnds
  <2>2. ASSUME NEW t \in live, t \notin fired PROVE expire[t] > now
    <3>1. PICK j \in 1 .. n : s[j] = t BY <1>3
    <3>2. ~(j \in 1 .. m) BY <1>11, <2>2, <3>1
    <3>3. m + 1 \in 1 .. n /\ m + 1 <= j /\ m # n BY <1>7, <3>2
    <3>4. w[m] = s[m + 1] /\ w[m] \in live BY <1>12, <1>13, <3>3
    <3>5. expire[w[m]] > now BY <1>6, <3>4 DEF TickEnds
    <3>6. expire[s[m + 1]] <= expire[s[j]] BY <1>1, <3>3 DEF Sorted
    <3>7. expire[w[m]] \in Nat /\ expire[t] \in Nat BY <1>2, <3>4
    <3> QED BY <1>2, <3>1, <3>4, <3>5, <3>6, <3>7
  <2> QED BY <1>2, <1>9, <1>16, <2>1, <2>2
<1> QED BY <1>15, <1>18, <1>19

-----------------------------------------------------------------------------
(* The inductive invariant *)

\* What a call of the list leaves has its type.
LEMMA SettleTyped ==
    ASSUME NEW o, Typed(o), Settle(o)
    PROVE  lst' \in ListType /\ fault' \in Faults
BY DEF Typed, Settle

\* The expiry of a timer that is set has its type.
LEMMA NewExpireTyped ==
    ASSUME TypeOK, NEW t \in Timers
    PROVE  NewExpire(t) \in [Timers -> 0 .. MaxTime + Lifetime]
<1>1. now + Lifetime \in 0 .. MaxTime + Lifetime BY TimerAssumption DEF TypeOK
<1> QED BY <1>1 DEF TypeOK, NewExpire

\* Every step keeps the types.
LEMMA TypeStep ==
    ASSUME TypeOK, [Next]_vars
    PROVE  TypeOK'
<1> USE DEF ListType
<1>1. /\ lst \in ListType /\ live \in SUBSET Timers /\ Null \in Pointers /\ 0 \in 0 .. MaxTime + Lifetime
      /\ Timers \subseteq Pointers
  BY TimerAssumption DEF TypeOK, Pointers
<1>2. SUFFICES lst' \in ListType /\ expire' \in [Timers -> 0 .. MaxTime + Lifetime]
               /\ live' \in SUBSET Timers /\ deleting' \in Pointers /\ now' \in 0 .. MaxTime
               /\ fault' \in Faults /\ setBack' \in BOOLEAN /\ spliced' \in BOOLEAN
  BY DEF TypeOK
<1> HIDE DEF ListType
<1>3. ASSUME NEW t \in Timers, Timer(t) PROVE <1>2!1
  <2>1. live' = live \cup {t} /\ expire' = NewExpire(t) /\ Settle(AddTimer(lst, t, expire', live'))
        /\ UNCHANGED <<deleting, now, setBack, spliced>>
    BY <1>3 DEF Timer
  <2>2. live' \in SUBSET Timers BY <1>1, <2>1
  <2>3. Typed(AddTimer(lst, t, expire', live')) BY <1>1, <2>2, AddTimerTyped
  <2>4. lst' \in ListType /\ fault' \in Faults BY <2>1, <2>3, SettleTyped
  <2> QED BY <2>1, <2>2, <2>4, NewExpireTyped DEF TypeOK
<1>4. ASSUME NEW t \in Timers, Adjust(t) PROVE <1>2!1
  <2>1. expire' = NewExpire(t) /\ Settle(AdjustTimer(lst, t, expire', live))
        /\ UNCHANGED <<live, deleting, now, setBack>>
        /\ spliced' = (spliced \/ (MustMove(lst, t, expire', live) /\ t # lst.head))
    BY <1>4 DEF Adjust
  <2>2. Typed(AdjustTimer(lst, t, expire', live)) BY <1>1, AdjustTimerTyped
  <2>3. lst' \in ListType /\ fault' \in Faults BY <2>1, <2>2, SettleTyped
  <2>4. spliced' \in BOOLEAN BY <2>1, Zenon DEF TypeOK, MustMove
  <2> QED BY <2>1, <2>3, <2>4, NewExpireTyped DEF TypeOK
<1>5. ASSUME NEW t \in Timers, Del(t) PROVE <1>2!1
  <2> DEFINE o == Unlink(lst, t, live)
  <2>1. Typed(o) BY <1>1, UnlinkTyped
  <2>2. o.lst \in ListType /\ o.fault \in Faults BY <2>1 DEF Typed
  <2> HIDE DEF o
  <2>3. UNCHANGED <<now, setBack>> /\ spliced' = (spliced \/ (lst.head # lst.tail /\ t # lst.head))
    BY <1>5 DEF Del
  <2>4. spliced' \in BOOLEAN BY <2>3, Zenon DEF TypeOK
  <2>5. CASE o.fault = "none"
    <3> DEFINE q == [o EXCEPT !.lst = Freed(o.lst, {t})]
    <3>1. Settle(q) /\ live' = live \ {t} /\ expire' = [expire EXCEPT ![t] = 0] /\ deleting' = t
      BY <1>5, <2>5 DEF Del, o
    <3>2. Freed(o.lst, {t}) \in ListType BY <2>2, FreedTyped
    <3>3. Typed(q) BY <2>1, <3>2 DEF Typed
    <3> HIDE DEF q
    <3>4. lst' \in ListType /\ fault' \in Faults BY <3>1, <3>3, SettleTyped
    <3> QED BY <1>1, <2>3, <2>4, <3>1, <3>4 DEF TypeOK
  <2>6. CASE o.fault # "none"
    <3>1. Settle(o) /\ UNCHANGED <<live, expire, deleting>> BY <1>5, <2>6 DEF Del, o
    <3>2. lst' \in ListType /\ fault' \in Faults BY <2>1, <3>1, SettleTyped
    <3> QED BY <2>3, <2>4, <3>1, <3>2 DEF TypeOK
  <2> QED BY <2>5, <2>6
<1>6. CASE DelAgain BY <1>1, <1>6 DEF DelAgain, TypeOK, Faults
<1>7. CASE TimeHandler
  <2> DEFINE w == Walk(lst.next, lst.head, live)
             ends == TickEnds(w, expire, live, now)
             last == IF ends = {} THEN Cardinality(Timers) ELSE Min(ends)
             fired == {w[k] : k \in 0 .. last - 1}
             l == Freed(HeadAt(lst, w[last]), fired)
             out == CASE w[last] = Null -> Outcome(l, "none")
                      [] w[last] \in live \ fired ->
                           Outcome([l EXCEPT !.prev[w[last]] = IF last = 0 THEN @ ELSE Null], "none")
                      [] OTHER -> Outcome(l, "freed")
  <2>1. /\ live' = live \ fired /\ expire' = [t \in Timers |-> IF t \in fired THEN 0 ELSE expire[t]]
        /\ Settle(out) /\ UNCHANGED <<deleting, now, setBack, spliced>>
    BY <1>7, Zenon DEF TimeHandler
  <2>2. w \in [Steps -> Pointers]
    <3>1. lst.next \in [Timers -> Pointers] /\ lst.head \in Pointers BY <1>1 DEF ListType
    <3> QED BY <1>1, <3>1, WalkSteps
  <2>3. last \in Steps
    <3> HIDE DEF w
    <3>1. ends \subseteq Steps BY DEF TickEnds
    <3>2. ends # {} => Min(ends) \in ends
      <4> HIDE DEF ends
      <4>1. ends \in SUBSET Nat BY <3>1, Sizes
      <4> QED BY <4>1, MinNat
    <3>3. Cardinality(Timers) \in Steps BY Sizes DEF N
    <3> HIDE DEF ends
    <3> QED BY <3>1, <3>2, <3>3
  <2> HIDE DEF w, last, fired
  <2>4. w[last] \in Pointers BY <2>2, <2>3
  <2>5. l \in ListType
    <3>1. HeadAt(lst, w[last]) \in ListType BY <1>1, <2>4 DEF HeadAt, ListType
    <3> QED BY <3>1, FreedTyped
  <2> HIDE DEF l
  <2>6. [l EXCEPT !.prev[w[last]] = IF last = 0 THEN @ ELSE Null] \in ListType
    <3> DEFINE v == IF last = 0 THEN l.prev[w[last]] ELSE Null
    <3>1. w[last] \in Timers => v \in Pointers BY <1>1, <2>5 DEF ListType
    <3> HIDE DEF v
    <3>2. [l EXCEPT !.prev = [l.prev EXCEPT ![w[last]] = v]] \in ListType BY <2>5, <3>1 DEF ListType
    <3> QED BY <3>2 DEF v
  <2>7. Typed(out)
    <3>1. "none" \in Faults /\ "freed" \in Faults BY DEF Faults
    <3>2. /\ Typed(Outcome(l, "none")) /\ Typed(Outcome(l, "freed"))
          /\ Typed(Outcome([l EXCEPT !.prev[w[last]] = IF last = 0 THEN @ ELSE Null], "none"))
      BY <2>5, <2>6, <3>1, OutcomeTyped
    <3> QED BY <3>2, Zenon
  <2> HIDE DEF out
  <2>8. lst' \in ListType /\ fault' \in Faults BY <2>1, <2>7, SettleTyped
  <2> QED BY <1>1, <2>1, <2>8 DEF TypeOK
<1>8. CASE Clock BY <1>1, <1>8, TimerAssumption DEF Clock, TypeOK
<1>9. CASE SetBack BY <1>1, <1>9, TimerAssumption DEF SetBack, TypeOK
<1>10. CASE UNCHANGED vars BY <1>1, <1>10 DEF vars, TypeOK
<1> QED BY <1>3, <1>4, <1>5, <1>6, <1>7, <1>8, <1>9, <1>10 DEF Next

\* The empty list of the start is right.
LEMMA ListInvInit == Init => ListInv
<1> SUFFICES ASSUME Init PROVE ListInv OBVIOUS
<1>1. TypeOK
  <2>1. 0 \in 0 .. MaxTime + Lifetime /\ 0 \in 0 .. MaxTime BY TimerAssumption
  <2>2. Null \in Pointers /\ "none" \in Faults BY DEF Pointers, Faults
  <2>3. lst \in ListType BY <2>2 DEF Init, ListType
  <2>4. expire \in [Timers -> 0 .. MaxTime + Lifetime] BY <2>1 DEF Init
  <2> QED BY <2>1, <2>2, <2>3, <2>4 DEF Init, TypeOK, ListType
<1>2. FaultNeedsCause BY DEF Init, FaultNeedsCause
<1>3. Right
  <2> DEFINE s == [i \in 1 .. 0 |-> Null]
  <2>1. 0 \in 0 .. N BY Sizes
  <2>2. s \in [1 .. 0 -> live] /\ s \in [1 .. 0 -> {}] /\ {} = {s[i] : i \in 1 .. 0} OBVIOUS
  <2>3. Chain(lst, live, 0, s) BY <2>2 DEF Init, Chain, Distinct, Follows, First
  <2>4. Sorted(expire, 0, s) BY DEF Sorted
  <2>5. \E r \in [1 .. 0 -> live] : Chain(lst, live, 0, r) /\ Sorted(expire, 0, r) BY <2>2, <2>3, <2>4
  <2>6. \E n \in 0 .. N : \E r \in [1 .. n -> live] : Chain(lst, live, n, r) /\ Sorted(expire, n, r)
    BY <2>1, <2>5
  <2> QED BY <2>6 DEF Init, Right
<1> QED BY <1>1, <1>2, <1>3 DEF ListInv

\* Every step keeps the invariant.
LEMMA ListInvStep == ListInv /\ [Next]_vars => ListInv'
<1> SUFFICES ASSUME ListInv, [Next]_vars PROVE ListInv' OBVIOUS
<1>1. TypeOK /\ TypeOK' /\ FaultNeedsCause BY TypeStep DEF ListInv
<1>2. SUFFICES ASSUME ~setBack', ~spliced'
               PROVE  /\ fault' \notin {"null", "freed", "loop"}
                      /\ fault' = "none" => Right'
  BY <1>1 DEF ListInv, FaultNeedsCause
<1>3. CASE UNCHANGED vars
  BY <1>2, <1>3 DEF vars, ListInv, FaultNeedsCause, Right
<1>4. CASE Next
  <2>1. fault = "none" BY <1>4 DEF Next, Timer, Adjust, Del, DelAgain, TimeHandler, Clock, SetBack, Running
  <2>2. ~setBack /\ ~spliced
    <3>1. ASSUME NEW t \in Timers, Timer(t) PROVE ~setBack /\ ~spliced BY <1>2, <3>1 DEF Timer
    <3>2. ASSUME NEW t \in Timers, Adjust(t) PROVE ~setBack /\ ~spliced BY <1>2, <3>2 DEF Adjust
    <3>3. ASSUME NEW t \in Timers, Del(t) PROVE ~setBack /\ ~spliced BY <1>2, <3>3 DEF Del
    <3>4. CASE DelAgain BY <1>2, <3>4 DEF DelAgain
    <3>5. CASE TimeHandler
      <4>1. UNCHANGED <<setBack, spliced>> BY <3>5, Zenon DEF TimeHandler
      <4> QED BY <1>2, <4>1
    <3>6. CASE Clock BY <1>2, <3>6 DEF Clock
    <3>7. CASE SetBack BY <1>2, <3>7 DEF SetBack
    <3> QED BY <1>4, <3>1, <3>2, <3>3, <3>4, <3>5, <3>6, <3>7 DEF Next
  <2>3. Right BY <2>1, <2>2 DEF ListInv
  <2>4. ASSUME NEW t \in Timers, Timer(t) PROVE fault' = "none" /\ Right' BY <1>1, <2>3, <2>4, TimerStep
  <2>5. ASSUME NEW t \in Timers, Adjust(t) PROVE fault' = "none" /\ Right'
    BY <1>1, <1>2, <2>3, <2>5, AdjustStep
  <2>6. ASSUME NEW t \in Timers, Del(t) PROVE fault' = "none" /\ Right'
    BY <1>1, <1>2, <2>3, <2>6, DelStep
  <2>7. CASE DelAgain
    <3>1. UNCHANGED <<lst, expire, live, now>> /\ fault' \in {"none", "double free"} BY <2>7 DEF DelAgain
    <3>2. Right' BY <2>3, <3>1 DEF Right
    <3> QED BY <3>1, <3>2
  <2>8. CASE TimeHandler BY <1>1, <2>3, <2>8, TickStep
  <2>9. CASE Clock
    <3>1. UNCHANGED <<lst, expire, live, fault>> /\ now' = now + 1 BY <2>9 DEF Clock
    <3>2. now \in Nat /\ Lifetime \in Nat /\ live \in SUBSET Timers /\ expire \in [Timers -> Nat]
      BY <1>1, TimerAssumption DEF TypeOK
    <3>3. \A u \in live : expire[u] <= now' + Lifetime BY <2>3, <3>1, <3>2 DEF Right
    <3>4. Right' BY <2>3, <3>1, <3>3 DEF Right
    <3> QED BY <2>1, <3>1, <3>4
  <2>10. CASE SetBack BY <1>2, <2>10 DEF SetBack
  <2> QED BY <1>4, <2>4, <2>5, <2>6, <2>7, <2>8, <2>9, <2>10 DEF Next
<1> QED BY <1>3, <1>4

\* The invariant holds of every history of the list.
THEOREM ListInvariant == Spec => []ListInv
BY ListInvInit, ListInvStep, PTL DEF Spec

-----------------------------------------------------------------------------
(* What the invariant says of the list *)

\* A list that is right is complete and ascending.
LEMMA RightSound ==
    ASSUME TypeOK, Right
    PROVE  /\ Reachable = live /\ List[Cardinality(Timers)] = Null
           /\ lst.head # Null => lst.tail \in live /\ lst.next[lst.tail] = Null
           /\ \A j, k \in Steps :
                 j < k /\ List[j] \in live /\ List[k] \in live => expire[List[j]] <= expire[List[k]]
<1>0. PICK n \in 0 .. N : \E s \in [1 .. n -> live] : Chain(lst, live, n, s) /\ Sorted(expire, n, s)
  BY DEF Right
<1>1. PICK s \in [1 .. n -> live] : Chain(lst, live, n, s) /\ Sorted(expire, n, s) BY <1>0
<1>2. live \in SUBSET Timers /\ lst.next \in [Timers -> Pointers] /\ Null \notin live /\ N \in Nat
      /\ Steps = 0 .. N
  BY Sizes DEF TypeOK
<1>3. /\ n \in Nat /\ Follows(lst.next, n, s) /\ lst.head = First(n, s)
      /\ live = {s[j] : j \in 1 .. n} /\ (n > 0 => lst.tail = s[n])
  BY <1>1 DEF Chain
<1>4. \A k \in Steps : List[k] = IF k < n THEN s[k + 1] ELSE Null
  <2>1. \A k \in Steps : Walk(lst.next, First(n, s), live)[k] = IF k < n THEN s[k + 1] ELSE Null
    <3>1. lst.next \in [Timers -> Pointers] /\ live \in SUBSET Timers /\ Follows(lst.next, n, s)
      BY <1>2, <1>3
    <3> QED BY <3>1, ChainWalk
  <2> QED BY <1>3, <2>1, Zenon DEF List
<1>5. Reachable = live
  <2> SUFFICES ASSUME NEW t \in live PROVE \E k \in Steps : List[k] = t BY DEF Reachable
  <2>1. PICK j \in 1 .. n : s[j] = t BY <1>3
  <2>2. j - 1 \in Steps /\ j - 1 < n /\ j - 1 + 1 = j BY <1>2
  <2> QED BY <1>4, <2>1, <2>2
<1>6. List[Cardinality(Timers)] = Null
  <2>1. N \in Steps /\ ~(N < n) BY <1>2
  <2> QED BY <1>4, <2>1 DEF N
<1>7. ASSUME lst.head # Null PROVE lst.tail \in live /\ lst.next[lst.tail] = Null
  <2>1. n > 0 /\ n \in 1 .. n BY <1>3, <1>7 DEF First
  <2> QED BY <1>3, <2>1 DEF Follows
<1>8. ASSUME NEW j \in Steps, NEW k \in Steps, j < k, List[j] \in live, List[k] \in live
      PROVE  expire[List[j]] <= expire[List[k]]
  <2>1. j < n /\ k < n BY <1>2, <1>4, <1>8
  <2>2. j + 1 \in 1 .. n /\ k + 1 \in 1 .. n /\ j + 1 <= k + 1 BY <1>2, <1>8, <2>1
  <2>3. List[j] = s[j + 1] /\ List[k] = s[k + 1] BY <1>4, <2>1
  <2> QED BY <1>1, <2>2, <2>3 DEF Sorted
<1> QED BY <1>5, <1>6, <1>7, <1>8

\* Over any history of new connections, traffic, closed connections and ticks, for
\* any number of timers: until the clock is set back or a timer is taken out of the
\* middle, the list holds exactly the timers of the open connections, ends at tail,
\* and is in the order of expiry.
THEOREM TimerListSound == Spec => []ListSound
<1>1. ListInv => ListSound
  <2> SUFFICES ASSUME ListInv PROVE ListSound OBVIOUS
  <2>1. TypeOK BY DEF ListInv
  <2>2. ListComplete /\ Ascending
    <3>1. CASE fault = "none" /\ ~setBack /\ ~spliced
      <4>1. Right BY <3>1 DEF ListInv
      <4> QED BY <2>1, <4>1, RightSound DEF ListComplete, Ascending
    <3>2. CASE ~(fault = "none" /\ ~setBack /\ ~spliced) BY <3>2 DEF ListComplete, Ascending
    <3> QED BY <3>1, <3>2
  <2> QED BY <2>1, <2>2 DEF ListSound
<1> QED BY <1>1, ListInvariant, PTL

\* No call of the list follows a null or a dangling pointer or walks for ever,
\* unless the clock was set back or a timer was taken out of the middle.
THEOREM TimerListFaults == Spec => []FaultNeedsCause
<1>1. ListInv => FaultNeedsCause BY DEF ListInv
<1> QED BY <1>1, ListInvariant, PTL

\* tick() closes exactly the connections whose time is over, although it stops at
\* the first timer that has not expired.
THEOREM TimerListTick == Spec => TickExact
<1>1. ListInv => (TimeHandler /\ ~setBack /\ ~spliced => live' = {t \in live : expire[t] > now})
  <2> SUFFICES ASSUME ListInv, TimeHandler, ~setBack, ~spliced
               PROVE  live' = {t \in live : expire[t] > now}
    OBVIOUS
  <2>1. TypeOK /\ Right BY DEF ListInv, TimeHandler, Running
  <2> QED BY <2>1, TickStep
<1> QED BY <1>1, ListInvariant, PTL DEF TickExact

-----------------------------------------------------------------------------
(* UserTable: the inductive invariant *)

InSection(w) == upc[w] \in {"query", "insert", "unlock"}

\* m_lock is held from the query to the end.
LockHeld == \A w \in Workers : InSection(w) => m_lock = w

\* A key on the names: one row for each.
OneRow == UniqueNames => \A n \in Names, p, q \in Passwords :
                            <<n, p>> \in table /\ <<n, q>> \in table => p = q

\* What the map knows stands in the table.
CacheFromTable == UniqueNames /\ ~sqlFailed =>
                    \A n \in Names : Known(n) => <<n, users[n]>> \in table

\* What a worker inside the section may rely on.
SectionRight ==
    \A w \in Workers :
        /\ upc[w] \in {"insert", "unlock"} /\ res[w] => form[w] \in table
        /\ upc[w] = "insert" /\ ~res[w] /\ UniqueNames /\ ~sqlFailed => Known(form[w][1])
        /\ upc[w] = "unlock" => Known(form[w][1])

\* A registration that succeeded is in the table and known to the map.
WonRight == \A r \in won : r \in table /\ Known(r[1])

UserInv ==
    /\ UserTypeOK /\ LockHeld /\ CacheCoversTable
    /\ OneRow /\ CacheFromTable /\ SectionRight /\ WonRight

\* A row is a pair.
LEMMA RowIsPair ==
    \A r \in Names \X Passwords :
        r[1] \in Names /\ r[2] \in Passwords /\ r = <<r[1], r[2]>>
OBVIOUS

\* What init_mysql_result() loads covers the table and comes from it.
LEMMA LoadedRight ==
    ASSUME UserTypeOK, NEW f \in Loaded(table), NEW n \in Names
    PROVE  /\ f \in [Names -> Passwords \cup {NoPassword}]
           /\ InTable(n) => f[n] # NoPassword /\ <<n, f[n]>> \in table
           /\ f[n] # NoPassword => <<n, f[n]>> \in table
<1>1. f \in [Names -> Passwords \cup {NoPassword}]
  BY DEF Loaded
<1>2. IF \E p \in Passwords : <<n, p>> \in table THEN <<n, f[n]>> \in table
                                                ELSE f[n] = NoPassword
  BY DEF Loaded
<1>3. <<n, f[n]>> \in table => f[n] # NoPassword
  BY UserAssumption DEF UserTypeOK
<1> QED BY <1>1, <1>2, <1>3 DEF InTable

LEMMA UserInitial == UserInit => UserInv
<1> SUFFICES ASSUME UserInit PROVE UserInv
  OBVIOUS
<1>1. UserTypeOK
  BY DEF UserInit, UserTypeOK, Loaded
<1>2. LockHeld /\ SectionRight
  BY DEF UserInit, LockHeld, InSection, SectionRight
<1>3. CacheCoversTable /\ OneRow /\ WonRight
  BY DEF UserInit, CacheCoversTable, OneRow, WonRight, InTable
<1>4. CacheFromTable
  BY <1>1, LoadedRight DEF UserInit, CacheFromTable, Known
<1> QED BY <1>1, <1>2, <1>3, <1>4 DEF UserInv

-----------------------------------------------------------------------------
(* UserTable: one lemma per conjunct, one step per action *)

\* Every action keeps the types.
LEMMA TypeKept == UserInv /\ UserNext => UserTypeOK'
<1> SUFFICES ASSUME UserInv, UserNext PROVE UserTypeOK'
  OBVIOUS
<1> USE DEF UserInv
<1>1. CASE User_Restart
  BY <1>1 DEF User_Restart, UserTypeOK, Loaded
<1>2. ASSUME NEW w \in Workers, User_Request(w) PROVE UserTypeOK'
  BY <1>2 DEF User_Request, UserTypeOK
<1>3. ASSUME NEW w \in Workers, User_Find(w) PROVE UserTypeOK'
  BY <1>3 DEF User_Find, UserTypeOK
<1>4. ASSUME NEW w \in Workers, User_Lock(w) PROVE UserTypeOK'
  BY <1>4 DEF User_Lock, UserTypeOK
<1>5. ASSUME NEW w \in Workers, User_Query(w) PROVE UserTypeOK'
  <2>1. table' \subseteq Names \X Passwords
    BY <1>5 DEF User_Query, UserTypeOK
  <2>2. res' \in [Workers -> BOOLEAN] /\ sqlFailed' \in BOOLEAN
    BY <1>5 DEF User_Query, UserTypeOK
  <2> QED BY <1>5, <2>1, <2>2 DEF User_Query, UserTypeOK
<1>6. ASSUME NEW w \in Workers, User_Insert(w) PROVE UserTypeOK'
  BY <1>6, RowIsPair DEF User_Insert, UserTypeOK
<1>7. ASSUME NEW w \in Workers, User_Unlock(w) PROVE UserTypeOK'
  BY <1>7 DEF User_Unlock, UserTypeOK
<1>8. ASSUME NEW w \in Workers, User_Login(w) PROVE UserTypeOK'
  BY <1>8 DEF User_Login, UserTypeOK
<1> QED BY <1>1, <1>2, <1>3, <1>4, <1>5, <1>6, <1>7, <1>8 DEF UserNext, UserStep

\* Only the holder of m_lock is inside the section.
LEMMA LockKept == UserInv /\ UserNext => LockHeld'
<1> SUFFICES ASSUME UserInv, UserNext PROVE LockHeld'
  OBVIOUS
<1> USE DEF UserInv
<1>1. CASE User_Restart
  BY <1>1 DEF User_Restart, LockHeld, InSection
<1>2. ASSUME NEW w \in Workers, User_Request(w) PROVE LockHeld'
  BY <1>2 DEF User_Request, UserTypeOK, LockHeld, InSection
<1>3. ASSUME NEW w \in Workers, User_Find(w) PROVE LockHeld'
  BY <1>3 DEF User_Find, UserTypeOK, LockHeld, InSection
<1>4. ASSUME NEW w \in Workers, User_Lock(w) PROVE LockHeld'
  BY <1>4, UserAssumption DEF User_Lock, UserTypeOK, LockHeld, InSection
<1>5. ASSUME NEW w \in Workers, User_Query(w) PROVE LockHeld'
  BY <1>5 DEF User_Query, UserTypeOK, LockHeld, InSection
<1>6. ASSUME NEW w \in Workers, User_Insert(w) PROVE LockHeld'
  BY <1>6 DEF User_Insert, UserTypeOK, LockHeld, InSection
<1>7. ASSUME NEW w \in Workers, User_Unlock(w) PROVE LockHeld'
  BY <1>7 DEF User_Unlock, UserTypeOK, LockHeld, InSection
<1>8. ASSUME NEW w \in Workers, User_Login(w) PROVE LockHeld'
  BY <1>8 DEF User_Login, UserTypeOK, LockHeld, InSection
<1> QED BY <1>1, <1>2, <1>3, <1>4, <1>5, <1>6, <1>7, <1>8 DEF UserNext, UserStep

\* The map follows the table.
LEMMA CoverKept == UserInv /\ UserNext => CacheCoversTable'
<1> SUFFICES ASSUME UserInv, UserNext PROVE CacheCoversTable'
  OBVIOUS
<1> USE DEF UserInv
<1>1. CASE User_Restart
  BY <1>1, LoadedRight DEF User_Restart, CacheCoversTable, InTable, Known
<1>2. ASSUME NEW w \in Workers, User_Request(w) PROVE CacheCoversTable'
  <2>1. \A v \in Workers : upc[v] = "insert" => upc'[v] = "insert" /\ form'[v] = form[v]
    BY <1>2 DEF User_Request, UserTypeOK
  <2>2. UNCHANGED <<users, table>>
    BY <1>2 DEF User_Request
  <2> QED BY <2>1, <2>2 DEF CacheCoversTable, InTable, Known
<1>3. ASSUME NEW w \in Workers, User_Find(w) PROVE CacheCoversTable'
  BY <1>3 DEF User_Find, UserTypeOK, CacheCoversTable, InTable, Known
<1>4. ASSUME NEW w \in Workers, User_Lock(w) PROVE CacheCoversTable'
  BY <1>4 DEF User_Lock, UserTypeOK, CacheCoversTable, InTable, Known
<1>5. ASSUME NEW w \in Workers, User_Query(w) PROVE CacheCoversTable'
  <2> SUFFICES ASSUME NEW n \in Names, InTable(n)'
               PROVE  Known(n)' \/ \E v \in Workers : upc'[v] = "insert" /\ form'[v][1] = n
    BY DEF CacheCoversTable
  <2>1. upc'[w] = "insert" /\ UNCHANGED <<users, form>>
    BY <1>5 DEF User_Query, UserTypeOK
  <2>2. InTable(n) \/ form[w][1] = n
    BY <1>5 DEF User_Query, InTable, UserTypeOK
  <2>3. \A v \in Workers : upc[v] = "insert" => upc'[v] = "insert"
    BY <1>5 DEF User_Query, UserTypeOK
  <2> QED BY <2>1, <2>2, <2>3 DEF CacheCoversTable, Known
<1>6. ASSUME NEW w \in Workers, User_Insert(w) PROVE CacheCoversTable'
  <2> SUFFICES ASSUME NEW n \in Names, InTable(n)'
               PROVE  Known(n)' \/ \E v \in Workers : upc'[v] = "insert" /\ form'[v][1] = n
    BY DEF CacheCoversTable
  <2>1. form[w][1] \in Names /\ form[w][2] \in Passwords
    BY RowIsPair DEF UserTypeOK
  <2>2. Known(form[w][1])' /\ (Known(n) => Known(n)')
    BY <1>6, <2>1, UserAssumption DEF User_Insert, Known, UserTypeOK
  <2>3. \A v \in Workers \ {w} : upc'[v] = upc[v]
    BY <1>6 DEF User_Insert, UserTypeOK
  <2>4. InTable(n) /\ UNCHANGED form
    BY <1>6 DEF User_Insert, InTable
  <2> QED BY <2>2, <2>3, <2>4 DEF CacheCoversTable
<1>7. ASSUME NEW w \in Workers, User_Unlock(w) PROVE CacheCoversTable'
  BY <1>7 DEF User_Unlock, UserTypeOK, CacheCoversTable, InTable, Known
<1>8. ASSUME NEW w \in Workers, User_Login(w) PROVE CacheCoversTable'
  BY <1>8 DEF User_Login, UserTypeOK, CacheCoversTable, InTable, Known
<1> QED BY <1>1, <1>2, <1>3, <1>4, <1>5, <1>6, <1>7, <1>8 DEF UserNext, UserStep

\* The key keeps one row for each name.
LEMMA RowKept == UserInv /\ UserNext => OneRow'
<1> SUFFICES ASSUME UserInv, UserNext PROVE OneRow'
  OBVIOUS
<1> USE DEF UserInv
<1>1. CASE User_Restart
  BY <1>1 DEF User_Restart, OneRow
<1>2. ASSUME NEW w \in Workers, User_Request(w) PROVE OneRow'
  BY <1>2 DEF User_Request, UserTypeOK, OneRow
<1>3. ASSUME NEW w \in Workers, User_Find(w) PROVE OneRow'
  BY <1>3 DEF User_Find, UserTypeOK, OneRow
<1>4. ASSUME NEW w \in Workers, User_Lock(w) PROVE OneRow'
  BY <1>4 DEF User_Lock, UserTypeOK, OneRow
<1>5. ASSUME NEW w \in Workers, User_Query(w) PROVE OneRow'
  <2> SUFFICES ASSUME UniqueNames, NEW n \in Names, NEW p \in Passwords, NEW q \in Passwords,
                      <<n, p>> \in table', <<n, q>> \in table'
               PROVE  p = q
    BY DEF OneRow
  <2>1. CASE table' = table
    BY <2>1 DEF OneRow
  <2>2. CASE table' = table \cup {form[w]} /\ ~InTable(form[w][1])
    BY <2>2 DEF InTable, OneRow
  <2> QED BY <1>5, <2>1, <2>2 DEF User_Query
<1>6. ASSUME NEW w \in Workers, User_Insert(w) PROVE OneRow'
  BY <1>6 DEF User_Insert, UserTypeOK, OneRow
<1>7. ASSUME NEW w \in Workers, User_Unlock(w) PROVE OneRow'
  BY <1>7 DEF User_Unlock, UserTypeOK, OneRow
<1>8. ASSUME NEW w \in Workers, User_Login(w) PROVE OneRow'
  BY <1>8 DEF User_Login, UserTypeOK, OneRow
<1> QED BY <1>1, <1>2, <1>3, <1>4, <1>5, <1>6, <1>7, <1>8 DEF UserNext, UserStep

\* What the map learns stands in the table.
LEMMA FromTableKept == UserInv /\ UserNext => CacheFromTable'
<1> SUFFICES ASSUME UserInv, UserNext PROVE CacheFromTable'
  OBVIOUS
<1> USE DEF UserInv
<1>1. CASE User_Restart
  BY <1>1, LoadedRight DEF User_Restart, CacheFromTable, Known
<1>2. ASSUME NEW w \in Workers, User_Request(w) PROVE CacheFromTable'
  BY <1>2 DEF User_Request, UserTypeOK, CacheFromTable, Known
<1>3. ASSUME NEW w \in Workers, User_Find(w) PROVE CacheFromTable'
  BY <1>3 DEF User_Find, UserTypeOK, CacheFromTable, Known
<1>4. ASSUME NEW w \in Workers, User_Lock(w) PROVE CacheFromTable'
  BY <1>4 DEF User_Lock, UserTypeOK, CacheFromTable, Known
<1>5. ASSUME NEW w \in Workers, User_Query(w) PROVE CacheFromTable'
  BY <1>5 DEF User_Query, UserTypeOK, CacheFromTable, Known
<1>6. ASSUME NEW w \in Workers, User_Insert(w) PROVE CacheFromTable'
  <2> SUFFICES ASSUME UniqueNames, ~sqlFailed, NEW n \in Names, Known(n)'
               PROVE  <<n, users'[n]>> \in table
    BY <1>6 DEF User_Insert, CacheFromTable
  <2>1. form[w] = <<form[w][1], form[w][2]>> /\ form[w][1] \in Names
    BY RowIsPair DEF UserTypeOK
  <2>2. CASE Known(form[w][1])
    BY <1>6, <2>2 DEF User_Insert, CacheFromTable, Known
  <2>3. CASE ~Known(form[w][1])
    <3>1. form[w] \in table
      BY <1>6, <2>3 DEF User_Insert, SectionRight, UserTypeOK
    <3> QED BY <1>6, <2>1, <2>3, <3>1 DEF User_Insert, CacheFromTable, Known, UserTypeOK
  <2> QED BY <2>2, <2>3
<1>7. ASSUME NEW w \in Workers, User_Unlock(w) PROVE CacheFromTable'
  BY <1>7 DEF User_Unlock, UserTypeOK, CacheFromTable, Known
<1>8. ASSUME NEW w \in Workers, User_Login(w) PROVE CacheFromTable'
  BY <1>8 DEF User_Login, UserTypeOK, CacheFromTable, Known
<1> QED BY <1>1, <1>2, <1>3, <1>4, <1>5, <1>6, <1>7, <1>8 DEF UserNext, UserStep

\* What a worker relies on lasts until it leaves the section.
LEMMA SectionKept == UserInv /\ UserNext => SectionRight'
<1> SUFFICES ASSUME UserInv, UserNext PROVE SectionRight'
  OBVIOUS
<1> USE DEF UserInv
<1>1. CASE User_Restart
  BY <1>1 DEF User_Restart, SectionRight
<1>2. ASSUME NEW w \in Workers, User_Request(w) PROVE SectionRight'
  BY <1>2 DEF User_Request, UserTypeOK, SectionRight, Known
<1>3. ASSUME NEW w \in Workers, User_Find(w) PROVE SectionRight'
  BY <1>3 DEF User_Find, UserTypeOK, SectionRight, Known
<1>4. ASSUME NEW w \in Workers, User_Lock(w) PROVE SectionRight'
  BY <1>4 DEF User_Lock, UserTypeOK, SectionRight, Known
<1>5. ASSUME NEW w \in Workers, User_Query(w) PROVE SectionRight'
  <2> SUFFICES ASSUME NEW v \in Workers
               PROVE  /\ upc'[v] \in {"insert", "unlock"} /\ res'[v] => form[v] \in table'
                      /\ upc'[v] = "insert" /\ ~res'[v] /\ UniqueNames /\ ~sqlFailed' => Known(form[v][1])
                      /\ upc'[v] = "unlock" => Known(form[v][1])
    BY <1>5 DEF User_Query, SectionRight, Known
  <2>1. CASE v # w
    BY <1>5, <2>1 DEF User_Query, SectionRight, LockHeld, InSection, UserTypeOK
  <2>2. CASE v = w
    <3>1. form[w][1] \in Names
      BY RowIsPair DEF UserTypeOK
    <3>2. InTable(form[w][1]) => Known(form[w][1])
      BY <1>5, <3>1 DEF User_Query, CacheCoversTable, LockHeld, InSection, UserTypeOK
    <3> QED BY <1>5, <2>2, <3>2 DEF User_Query, UserTypeOK
  <2> QED BY <2>1, <2>2
<1>6. ASSUME NEW w \in Workers, User_Insert(w) PROVE SectionRight'
  <2>1. form[w][1] \in Names /\ form[w][2] \in Passwords
    BY RowIsPair DEF UserTypeOK
  <2>2. Known(form[w][1])' /\ \A n \in Names : Known(n) => Known(n)'
    BY <1>6, <2>1, UserAssumption DEF User_Insert, Known, UserTypeOK
  <2>3. \A v \in Workers : form[v][1] \in Names
    BY RowIsPair DEF UserTypeOK
  <2>4. \A v \in Workers \ {w} : upc'[v] = upc[v]
    BY <1>6 DEF User_Insert, UserTypeOK
  <2>5. upc[w] = "insert" /\ upc'[w] = "unlock" /\ UNCHANGED <<table, form, res, sqlFailed>>
    BY <1>6 DEF User_Insert, UserTypeOK
  <2> QED BY <2>2, <2>3, <2>4, <2>5 DEF SectionRight
<1>7. ASSUME NEW w \in Workers, User_Unlock(w) PROVE SectionRight'
  BY <1>7 DEF User_Unlock, UserTypeOK, SectionRight, Known
<1>8. ASSUME NEW w \in Workers, User_Login(w) PROVE SectionRight'
  BY <1>8 DEF User_Login, UserTypeOK, SectionRight, Known
<1> QED BY <1>1, <1>2, <1>3, <1>4, <1>5, <1>6, <1>7, <1>8 DEF UserNext, UserStep

\* A registration that succeeded stays in the table and in the map.
LEMMA WonKept == UserInv /\ UserNext => WonRight'
<1> SUFFICES ASSUME UserInv, UserNext PROVE WonRight'
  OBVIOUS
<1> USE DEF UserInv
<1>1. CASE User_Restart
  <2>1. \A r \in won : r[1] \in Names /\ InTable(r[1])
    BY RowIsPair DEF UserTypeOK, WonRight, InTable
  <2> QED BY <1>1, <2>1, LoadedRight DEF User_Restart, WonRight, Known
<1>2. ASSUME NEW w \in Workers, User_Request(w) PROVE WonRight'
  BY <1>2 DEF User_Request, UserTypeOK, WonRight, Known
<1>3. ASSUME NEW w \in Workers, User_Find(w) PROVE WonRight'
  BY <1>3 DEF User_Find, UserTypeOK, WonRight, Known
<1>4. ASSUME NEW w \in Workers, User_Lock(w) PROVE WonRight'
  BY <1>4 DEF User_Lock, UserTypeOK, WonRight, Known
<1>5. ASSUME NEW w \in Workers, User_Query(w) PROVE WonRight'
  BY <1>5 DEF User_Query, UserTypeOK, WonRight, Known
<1>6. ASSUME NEW w \in Workers, User_Insert(w) PROVE WonRight'
  <2>1. \A n \in Names : Known(n) => Known(n)'
    BY <1>6, RowIsPair DEF User_Insert, Known, UserTypeOK
  <2>2. \A r \in won : r[1] \in Names
    BY RowIsPair DEF UserTypeOK
  <2> QED BY <1>6, <2>1, <2>2 DEF User_Insert, WonRight
<1>7. ASSUME NEW w \in Workers, User_Unlock(w) PROVE WonRight'
  BY <1>7 DEF User_Unlock, WonRight, Known, SectionRight, UserTypeOK
<1>8. ASSUME NEW w \in Workers, User_Login(w) PROVE WonRight'
  BY <1>8 DEF User_Login, UserTypeOK, WonRight, Known
<1> QED BY <1>1, <1>2, <1>3, <1>4, <1>5, <1>6, <1>7, <1>8 DEF UserNext, UserStep

-----------------------------------------------------------------------------
(* UserTable: results *)

\* The invariant that the properties follow from holds for ever.
THEOREM UserInvariant == UserSpec => []UserInv
<1>1. UserInit => UserInv BY UserInitial
<1>2. UserInv /\ [UserNext]_userVars => UserInv'
  <2> SUFFICES ASSUME UserInv, [UserNext]_userVars PROVE UserInv'
    OBVIOUS
  <2>1. CASE UserNext
    BY <2>1, TypeKept, LockKept, CoverKept, RowKept, FromTableKept, SectionKept, WonKept
       DEF UserInv
  <2>2. CASE UNCHANGED userVars
    BY <2>2 DEF userVars, UserInv, UserTypeOK, LockHeld, InSection, CacheCoversTable, OneRow,
                CacheFromTable, SectionRight, WonRight, Known, InTable
  <2> QED BY <2>1, <2>2
<1> QED BY <1>1, <1>2, PTL DEF UserSpec

\* Whoever do_request() answered log.html can log in with that password, for any
\* number of workers and across restarts.
THEOREM WinnersLogIn == UserSpec => []WinnerCanLogIn
<1>1. UserInv => WinnerCanLogIn
  <2> SUFFICES ASSUME UserInv, UniqueNames, ~sqlFailed, NEW r \in won PROVE users[r[1]] = r[2]
    BY DEF WinnerCanLogIn
  <2>1. r[1] \in Names /\ r[2] \in Passwords /\ <<r[1], r[2]>> \in table /\ Known(r[1])
    BY RowIsPair DEF UserInv, UserTypeOK, WonRight
  <2>2. <<r[1], users[r[1]]>> \in table
    BY <2>1 DEF UserInv, CacheFromTable
  <2>3. users[r[1]] \in Passwords
    BY <2>2 DEF UserInv, UserTypeOK
  <2> QED BY <2>1, <2>2, <2>3 DEF UserInv, OneRow
<1> QED BY <1>1, UserInvariant, PTL

\* The map knows every name of the table outside the moment of its insertion.
THEOREM CacheCovers == UserSpec => []CacheCoversTable
<1>1. UserInv => CacheCoversTable
  BY DEF UserInv
<1> QED BY <1>1, UserInvariant, PTL

\* users.insert() never changes the password of a name that the map knows.
THEOREM PasswordsKept == UserSpec => PasswordKept
<1>1. ASSUME UserInv, NEW w \in Workers, UserStep(w), NEW n \in Names, Known(n)
      PROVE  users'[n] = users[n]
  BY <1>1 DEF UserStep, User_Request, User_Find, User_Lock, User_Query, User_Insert, User_Unlock,
              User_Login, UserInv, UserTypeOK, Known
<1>2. UserInv /\ [UserNext]_userVars =>
        [\A w \in Workers : UserStep(w) =>
            \A n \in Names : Known(n) => users'[n] = users[n]]_userVars
  BY <1>1
<1> QED BY <1>2, UserInvariant, PTL DEF UserSpec, PasswordKept

=============================================================================
