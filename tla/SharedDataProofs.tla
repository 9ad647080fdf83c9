-------------------------- MODULE SharedDataProofs --------------------------
(***************************************************************************)
(* Proofs about data that threads share under a mutex.                     *)
(*                                                                         *)
(* ConcurrentSum: for any numbers of threads and of values, and any        *)
(* modulus.  What the sum of a set of squares is follows by induction on   *)
(* the number of its elements, with the least-number principle.            *)
(*                                                                         *)
(* BlockQueue: for any number of threads, any items and any m_max_size.    *)
(***************************************************************************)
EXTENDS ConcurrentSum, BlockQueue, FiniteSetTheorems, TLAPS

-----------------------------------------------------------------------------
(* Induction *)

\* Every set of natural numbers that is not empty has a least element.
LEMMA LeastNat ==
    ASSUME NEW S \in SUBSET Nat, S # {}
    PROVE  \E m \in S : \A n \in S : m <= n
<1> DEFINE R == OpToRel(<, Nat)
<1>1. IsWellFoundedOn(R, Nat) BY NatLessThanWellFounded
<1> HIDE DEF R
<1>2. PICK m \in S : \A n \in S : ~(<<n, m>> \in R) BY <1>1, WFMin
<1>3. \A n \in S : n < m => <<n, m>> \in R BY DEF R, OpToRel
<1>4. \A n \in S : m <= n
  <2> SUFFICES ASSUME NEW n \in S PROVE m <= n OBVIOUS
  <2>1. ~(n < m) BY <1>2, <1>3
  <2>2. m \in Nat /\ n \in Nat OBVIOUS
  <2> QED BY <2>1, <2>2
<1> QED BY <1>4

\* Induction, with a set for what is shown.
LEMMA SetInduction ==
    ASSUME NEW S, 0 \in S, \A n \in Nat : n \in S => n + 1 \in S
    PROVE  \A n \in Nat : n \in S
<1> SUFFICES ASSUME NEW k \in Nat, k \notin S PROVE FALSE OBVIOUS
<1> DEFINE T == {n \in Nat : n \notin S}
<1>1. PICK m \in T : \A n \in T : m <= n BY LeastNat
<1>2. m # 0 /\ m - 1 \in Nat /\ m - 1 \in S BY <1>1
<1>3. m - 1 + 1 = m BY <1>1
<1> QED BY <1>1, <1>2, <1>3

-----------------------------------------------------------------------------
(* ConcurrentSum: sums over finite sets of numbers *)

Chosen(s) == CHOOSE x \in s : TRUE
Square(x) == x * x
FinSets == {S \in SUBSET Nat : IsFiniteSet(S)}

\* The sum of s by the sum of s without the element that is taken first.
SumStep(g, s) == IF s = {} THEN 0 ELSE Square(Chosen(s)) + g[s \ {Chosen(s)}]
Sums(g, S) == \A s \in S : g[s] = SumStep(g, s)

\* CHOOSE takes an element of the set.
LEMMA ChosenIn == ASSUME NEW s, s # {} PROVE Chosen(s) \in s
BY DEF Chosen

\* Squares are natural numbers.
LEMMA SquareNat == ASSUME NEW x \in Nat PROVE Square(x) \in Nat
BY DEF Square

\* A finite set without one of its elements.
LEMMA OneLess ==
    ASSUME NEW S \in FinSets, NEW x \in S
    PROVE  /\ S \ {x} \in FinSets /\ Cardinality(S) \in Nat /\ Cardinality(S \ {x}) \in Nat
           /\ Cardinality(S \ {x}) = Cardinality(S) - 1 /\ Cardinality(S) > 0
<1>1. IsFiniteSet(S) BY DEF FinSets
<1>2. IsFiniteSet(S \ {x}) /\ Cardinality(S \ {x}) = Cardinality(S) - 1 BY <1>1, FS_RemoveElement
<1>3. Cardinality(S) \in Nat /\ Cardinality(S \ {x}) \in Nat BY <1>1, <1>2, FS_CardinalityType
<1> QED BY <1>1, <1>2, <1>3 DEF FinSets

\* The recursion that MapThenSumSet stands for has a solution ...
LEMMA SumExists ==
    ASSUME NEW S \in FinSets
    PROVE  \E g \in [SUBSET S -> Nat] : Sums(g, SUBSET S)
<1> DEFINE Upto(n) == {s \in SUBSET S : Cardinality(s) <= n}
           T == {n \in Nat : \E g \in [Upto(n) -> Nat] : Sums(g, Upto(n))}
<1>1. \A s \in SUBSET S : s \in FinSets /\ Cardinality(s) \in Nat /\ (Cardinality(s) = 0 <=> s = {})
                           /\ Cardinality(s) <= Cardinality(S)
  BY FS_Subset, FS_CardinalityType, FS_EmptySet DEF FinSets
<1>2. 0 \in T
  <2> DEFINE g == [s \in Upto(0) |-> 0]
  <2>1. g \in [Upto(0) -> Nat] OBVIOUS
  <2>2. \A s \in Upto(0) : s = {}
    <3> SUFFICES ASSUME NEW s \in Upto(0) PROVE s = {} OBVIOUS
    <3>1. Cardinality(s) <= 0 /\ Cardinality(s) \in Nat BY <1>1
    <3>2. Cardinality(s) = 0 BY <3>1
    <3> QED BY <1>1, <3>2
  <2>3. \A s \in Upto(0) : g[s] = 0 OBVIOUS
  <2>4. Sums(g, Upto(0)) BY <2>2, <2>3, Zenon DEF Sums, SumStep
  <2> HIDE DEF g, Upto
  <2> QED BY <2>1, <2>4
<1>3. ASSUME NEW n \in Nat, n \in T PROVE n + 1 \in T
  <2>1. PICK g \in [Upto(n) -> Nat] : Sums(g, Upto(n)) BY <1>3
  <2> DEFINE h == [s \in Upto(n + 1) |-> IF s \in Upto(n) THEN g[s] ELSE SumStep(g, s)]
  <2>2. \A s \in Upto(n + 1) : s # {} => /\ Chosen(s) \in Nat /\ s \ {Chosen(s)} \in Upto(n)
                                          /\ s \ {Chosen(s)} \in Upto(n + 1)
    <3> SUFFICES ASSUME NEW s \in Upto(n + 1), s # {}
                 PROVE  Chosen(s) \in Nat /\ s \ {Chosen(s)} \in Upto(n) /\ s \ {Chosen(s)} \in Upto(n + 1)
      OBVIOUS
    <3>1. s \in FinSets /\ Chosen(s) \in s BY <1>1, ChosenIn
    <3>2. Cardinality(s \ {Chosen(s)}) = Cardinality(s) - 1 /\ Cardinality(s) \in Nat BY <3>1, OneLess
    <3>3. Cardinality(s) <= n + 1 OBVIOUS
    <3>4. Cardinality(s \ {Chosen(s)}) <= n /\ Cardinality(s \ {Chosen(s)}) <= n + 1 BY <3>2, <3>3
    <3> QED BY <3>1, <3>4 DEF FinSets
  <2>3. \A s \in Upto(n) : s \in Upto(n + 1)
    <3> SUFFICES ASSUME NEW s \in Upto(n) PROVE Cardinality(s) <= n + 1 OBVIOUS
    <3>1. Cardinality(s) \in Nat /\ Cardinality(s) <= n BY <1>1
    <3> QED BY <3>1
  <2> HIDE DEF Upto
  <2>4. h \in [Upto(n + 1) -> Nat]
    <3> SUFFICES ASSUME NEW s \in Upto(n + 1), s \notin Upto(n) PROVE SumStep(g, s) \in Nat OBVIOUS
    <3>1. CASE s = {} BY <3>1 DEF SumStep
    <3>2. CASE s # {}
      <4>1. Square(Chosen(s)) \in Nat /\ g[s \ {Chosen(s)}] \in Nat BY <2>2, <3>2, SquareNat
      <4> QED BY <3>2, <4>1 DEF SumStep
    <3> QED BY <3>1, <3>2
  <2>5. \A s \in Upto(n) : h[s] = g[s] BY <2>3
  <2>6. \A s \in Upto(n + 1) : h[s] = SumStep(g, s) BY <2>1 DEF Sums
  <2> HIDE DEF h
  <2>7. \A s \in Upto(n + 1) : SumStep(g, s) = SumStep(h, s)
    <3> SUFFICES ASSUME NEW s \in Upto(n + 1), s # {} PROVE g[s \ {Chosen(s)}] = h[s \ {Chosen(s)}]
      BY Zenon DEF SumStep
    <3> QED BY <2>2, <2>5
  <2>8. Sums(h, Upto(n + 1)) BY <2>6, <2>7 DEF Sums
  <2> QED BY <2>4, <2>8
<1>4. Cardinality(S) \in Nat BY FS_CardinalityType DEF FinSets
<1>5. Cardinality(S) \in T
  <2> HIDE DEF T
  <2> QED BY <1>2, <1>3, <1>4, SetInduction
<1>6. Upto(Cardinality(S)) = SUBSET S BY <1>1
<1> HIDE DEF Upto
<1> QED BY <1>5, <1>6

\* ... which is what it computes.
LEMMA SumIs ==
    ASSUME NEW S \in FinSets
    PROVE  \E g : Sums(g, SUBSET S) /\ SumOfSquares(S) = g[S]
<1> DEFINE Def(g) == [s \in SUBSET S |-> SumStep(g, s)]
           w == CHOOSE g : g = Def(g)
<1>1. PICK g \in [SUBSET S -> Nat] : Sums(g, SUBSET S) BY SumExists
<1>2. g = Def(g) BY <1>1 DEF Sums
<1>3. w = Def(w)
  <2> HIDE DEF Def
  <2> QED BY <1>2
<1>4. SumOfSquares(S) = w[S]
  BY Zenon DEF SumOfSquares, MapThenSumSet, MapThenFoldSet, SumStep, Square, Chosen
<1> HIDE DEF w
<1>5. Sums(w, SUBSET S)
  <2> SUFFICES ASSUME NEW s \in SUBSET S PROVE w[s] = SumStep(w, s) BY DEF Sums
  <2>1. Def(w)[s] = SumStep(w, s) OBVIOUS
  <2> HIDE DEF Def
  <2> QED BY <1>3, <2>1, Zenon
<1> QED BY <1>4, <1>5

\* The recursion has one solution only, whatever sets it is defined for.
LEMMA SumUnique ==
    ASSUME NEW S \in FinSets, NEW T \in FinSets, NEW g, NEW h,
           Sums(g, SUBSET S), Sums(h, SUBSET T), NEW s \in SUBSET S, s \in SUBSET T
    PROVE  g[s] = h[s]
<1> DEFINE U == {n \in Nat : \A r \in SUBSET s : Cardinality(r) = n => g[r] = h[r]}
<1>1. \A r \in SUBSET s : /\ r \in FinSets /\ r \in SUBSET S /\ r \in SUBSET T
                         /\ Cardinality(r) \in Nat /\ (Cardinality(r) = 0 <=> r = {})
  BY FS_Subset, FS_CardinalityType, FS_EmptySet DEF FinSets
<1>2. 0 \in U
  <2> SUFFICES ASSUME NEW r \in SUBSET s, r = {} PROVE g[r] = h[r] BY <1>1
  <2> QED BY <1>1 DEF Sums, SumStep
<1>3. ASSUME NEW n \in Nat, n \in U PROVE n + 1 \in U
  <2> SUFFICES ASSUME NEW r \in SUBSET s, Cardinality(r) = n + 1 PROVE g[r] = h[r] OBVIOUS
  <2>1. r # {} BY <1>1
  <2>2. Chosen(r) \in r /\ r \in FinSets BY <1>1, <2>1, ChosenIn
  <2>3. Cardinality(r \ {Chosen(r)}) = n + 1 - 1 BY <2>2, OneLess
  <2>4. Cardinality(r \ {Chosen(r)}) = n /\ r \ {Chosen(r)} \in SUBSET s BY <2>3
  <2>5. g[r \ {Chosen(r)}] = h[r \ {Chosen(r)}] BY <1>3, <2>4
  <2>6. g[r] = Square(Chosen(r)) + g[r \ {Chosen(r)}] BY <1>1, <2>1 DEF Sums, SumStep
  <2>7. h[r] = Square(Chosen(r)) + h[r \ {Chosen(r)}] BY <1>1, <2>1 DEF Sums, SumStep
  <2> QED BY <2>5, <2>6, <2>7
<1> HIDE DEF U
<1>4. \A n \in Nat : n \in U BY <1>2, <1>3, SetInduction
<1>5. Cardinality(s) \in U BY <1>1, <1>4
<1> QED BY <1>5 DEF U

\* The sum of no numbers.
LEMMA SumNone == SumOfSquares({}) = 0
<1>1. {} \in FinSets BY FS_EmptySet DEF FinSets
<1>2. PICK g : Sums(g, SUBSET {}) /\ SumOfSquares({}) = g[{}] BY <1>1, SumIs
<1> QED BY <1>2 DEF Sums, SumStep

\* The sum by the element that is taken first.
LEMMA SumChosen ==
    ASSUME NEW S \in FinSets, S # {}
    PROVE  SumOfSquares(S) = Square(Chosen(S)) + SumOfSquares(S \ {Chosen(S)})
<1> DEFINE R == S \ {Chosen(S)}
<1>1. R \in FinSets /\ R \in SUBSET S /\ R \in SUBSET R BY ChosenIn, OneLess
<1>2. PICK g : Sums(g, SUBSET S) /\ SumOfSquares(S) = g[S] BY SumIs
<1>3. PICK h : Sums(h, SUBSET R) /\ SumOfSquares(R) = h[R]
  <2> HIDE DEF R
  <2> QED BY <1>1, SumIs
<1>4. g[R] = h[R]
  <2> HIDE DEF R
  <2> QED BY <1>1, <1>2, <1>3, SumUnique
<1>5. g[S] = Square(Chosen(S)) + g[R] BY <1>2 DEF Sums, SumStep
<1> QED BY <1>2, <1>3, <1>4, <1>5

\* The sum of a finite set of numbers is a natural number.
LEMMA SumNat == ASSUME NEW S \in FinSets PROVE SumOfSquares(S) \in Nat
<1> DEFINE U == {n \in Nat : \A R \in FinSets : Cardinality(R) = n => SumOfSquares(R) \in Nat}
<1>1. \A R \in FinSets : Cardinality(R) \in Nat /\ (Cardinality(R) = 0 <=> R = {})
  BY FS_CardinalityType, FS_EmptySet DEF FinSets
<1>2. 0 \in U BY <1>1, SumNone
<1>3. ASSUME NEW n \in Nat, n \in U PROVE n + 1 \in U
  <2> SUFFICES ASSUME NEW R \in FinSets, Cardinality(R) = n + 1 PROVE SumOfSquares(R) \in Nat OBVIOUS
  <2>1. R # {} BY <1>1
  <2>2. Chosen(R) \in R BY <2>1, ChosenIn
  <2>3. R \ {Chosen(R)} \in FinSets /\ Cardinality(R \ {Chosen(R)}) = n + 1 - 1 BY <2>2, OneLess
  <2>4. Cardinality(R \ {Chosen(R)}) = n BY <2>3
  <2>5. SumOfSquares(R \ {Chosen(R)}) \in Nat BY <1>3, <2>3, <2>4
  <2>6. Square(Chosen(R)) \in Nat BY <2>2, SquareNat DEF FinSets
  <2>7. SumOfSquares(R) = Square(Chosen(R)) + SumOfSquares(R \ {Chosen(R)}) BY <2>1, SumChosen
  <2> QED BY <2>5, <2>6, <2>7
<1> HIDE DEF U
<1>4. \A n \in Nat : n \in U BY <1>2, <1>3, SetInduction
<1>5. Cardinality(S) \in U BY <1>1, <1>4
<1> QED BY <1>5 DEF U

\* It does not matter which number is taken first.
LEMMA SumRest ==
    ASSUME NEW S \in FinSets, NEW x \in S
    PROVE  SumOfSquares(S) = Square(x) + SumOfSquares(S \ {x})
<1> DEFINE U == {n \in Nat : \A R \in FinSets : \A y \in R :
                   Cardinality(R) = n => SumOfSquares(R) = Square(y) + SumOfSquares(R \ {y})}
<1>1. \A R \in FinSets : Cardinality(R) \in Nat /\ (Cardinality(R) = 0 <=> R = {})
  BY FS_CardinalityType, FS_EmptySet DEF FinSets
<1>2. 0 \in U BY <1>1
<1>3. ASSUME NEW n \in Nat, n \in U PROVE n + 1 \in U
  <2> SUFFICES ASSUME NEW R \in FinSets, NEW y \in R, Cardinality(R) = n + 1
               PROVE  SumOfSquares(R) = Square(y) + SumOfSquares(R \ {y})
    OBVIOUS
  <2> DEFINE c == Chosen(R)
             Q == R \ {c}
             P == R \ {y}
             O == Q \ {y}
  <2>1. c \in R BY ChosenIn
  <2>2. SumOfSquares(R) = Square(c) + SumOfSquares(Q) BY SumChosen
  <2> HIDE DEF c
  <2>3. CASE c = y BY <2>2, <2>3
  <2>4. CASE c # y
    <3>1. y \in Q /\ c \in P /\ P \ {c} = O BY <2>1, <2>4
    <3>2. Q \in FinSets /\ P \in FinSets /\ Cardinality(Q) = n + 1 - 1 /\ Cardinality(P) = n + 1 - 1
      BY <2>1, OneLess
    <3>3. Cardinality(Q) = n /\ Cardinality(P) = n /\ O \in FinSets
      <4>1. Cardinality(Q) = n /\ Cardinality(P) = n BY <3>2
      <4> HIDE DEF Q
      <4> QED BY <3>1, <3>2, <4>1, OneLess
    <3>4. SumOfSquares(Q) = Square(y) + SumOfSquares(O)
      <4> HIDE DEF Q, P
      <4> QED BY <1>3, <3>1, <3>2, <3>3
    <3>5. SumOfSquares(P) = Square(c) + SumOfSquares(O)
      <4>1. SumOfSquares(P) = Square(c) + SumOfSquares(P \ {c})
        <5> HIDE DEF Q, P
        <5> QED BY <1>3, <3>1, <3>2, <3>3
      <4> QED BY <3>1, <4>1
    <3>6. Square(c) \in Nat /\ Square(y) \in Nat /\ SumOfSquares(O) \in Nat
      BY <2>1, <3>3, SquareNat, SumNat DEF FinSets
    <3> HIDE DEF O, P, Q
    <3>7. SumOfSquares(R) = Square(y) + SumOfSquares(P) BY <2>2, <3>4, <3>5, <3>6
    <3> QED BY <3>7 DEF P
  <2> QED BY <2>3, <2>4
<1> HIDE DEF U
<1>4. \A n \in Nat : n \in U BY <1>2, <1>3, SetInduction
<1>5. Cardinality(S) \in U BY <1>1, <1>4
<1> QED BY <1>5 DEF U

\* The sum over two sets that have no number in common.
LEMMA SumUnion ==
    ASSUME NEW A \in FinSets, NEW B \in FinSets, A \cap B = {}
    PROVE  A \cup B \in FinSets /\ SumOfSquares(A \cup B) = SumOfSquares(A) + SumOfSquares(B)
<1> DEFINE U == {n \in Nat : \A R \in FinSets : R \subseteq B /\ Cardinality(R) = n =>
                   SumOfSquares(A \cup R) = SumOfSquares(A) + SumOfSquares(R)}
<1>1. \A R \in FinSets : Cardinality(R) \in Nat /\ (Cardinality(R) = 0 <=> R = {})
  BY FS_CardinalityType, FS_EmptySet DEF FinSets
<1>2. \A R \in FinSets : A \cup R \in FinSets /\ SumOfSquares(R) \in Nat
  BY FS_Union, SumNat DEF FinSets
<1>3. 0 \in U
  <2> SUFFICES ASSUME NEW R \in FinSets, R = {}
               PROVE  SumOfSquares(A \cup R) = SumOfSquares(A) + SumOfSquares(R)
    BY <1>1
  <2>1. A \cup R = A /\ SumOfSquares(R) = 0 /\ SumOfSquares(A) \in Nat BY <1>2, SumNone
  <2> QED BY <2>1
<1>4. ASSUME NEW n \in Nat, n \in U PROVE n + 1 \in U
  <2> SUFFICES ASSUME NEW R \in FinSets, R \subseteq B, Cardinality(R) = n + 1
               PROVE  SumOfSquares(A \cup R) = SumOfSquares(A) + SumOfSquares(R)
    OBVIOUS
  <2>1. PICK x \in R : TRUE BY <1>1
  <2> DEFINE Q == R \ {x}
  <2>2. Q \in FinSets /\ Q \subseteq B /\ Cardinality(Q) = n + 1 - 1 BY OneLess
  <2>3. Cardinality(Q) = n BY <2>2
  <2>4. SumOfSquares(A \cup Q) = SumOfSquares(A) + SumOfSquares(Q)
    <3> HIDE DEF Q
    <3> QED BY <1>4, <2>2, <2>3
  <2>5. SumOfSquares(R) = Square(x) + SumOfSquares(Q) BY SumRest
  <2>6. SumOfSquares(A \cup R) = Square(x) + SumOfSquares((A \cup R) \ {x})
    <3>1. A \cup R \in FinSets /\ x \in A \cup R BY <1>2
    <3> HIDE DEF Q
    <3> QED BY <3>1, SumRest
  <2>7. (A \cup R) \ {x} = A \cup Q OBVIOUS
  <2>8. Square(x) \in Nat BY SquareNat DEF FinSets
  <2>9. SumOfSquares(Q) \in Nat /\ SumOfSquares(A) \in Nat
    <3> HIDE DEF Q
    <3> QED BY <1>2, <2>2
  <2> HIDE DEF Q
  <2>10. SumOfSquares(A \cup R) = Square(x) + SumOfSquares(A \cup Q) BY <2>6, <2>7
  <2> QED BY <2>4, <2>5, <2>8, <2>9, <2>10
<1> HIDE DEF U
<1>5. \A n \in Nat : n \in U BY <1>3, <1>4, SetInduction
<1>6. Cardinality(B) \in U BY <1>1, <1>5
<1> QED BY <1>2, <1>6 DEF U

-----------------------------------------------------------------------------
(* ConcurrentSum: the inductive invariant *)

SumTypes ==
    /\ task \in [maxV : MaxVs, count : Counts]
    /\ boss \in [at : {"serial", "killed", "spawn", "printed"}, t : Nat, minV : Nat]
    /\ adder \in [Adders -> [at : {"none", "adds", "reads", "writes", "ended"},
                            lo : Nat, hi : Nat, tmp : Nat]]
    /\ sum \in Nat /\ mtx \in BOOLEAN /\ serial \in Nat

\* One thread at a time is between lock() and unlock().
Adding(a) == adder[a].at \in {"reads", "writes"}
SumLock == \A a \in Adders : Adding(a) => mtx /\ \A b \in Adders : Adding(b) => b = a

\* What a thread has in hand; the sum that it has read has not changed.
SumParts ==
    \A a \in Adders :
        /\ adder[a].at = "reads" => adder[a].tmp = Squares(adder[a].lo, adder[a].hi)
        /\ adder[a].at = "writes" => adder[a].tmp = Wrapped(sum + Squares(adder[a].lo, adder[a].hi))

SumBoss ==
    /\ boss.t <= task.count
    /\ \A a \in Adders : a > boss.t => adder[a].at = "none"
    /\ boss.at \in {"serial", "killed"} => boss.t = 0
    /\ boss.at = "serial" => boss.minV = 0 /\ sum = 0
    /\ boss.at \in {"spawn", "printed"} => task.count > 0 /\ serial = Squares(1, task.maxV)
    /\ boss.at = "printed" => /\ boss.t = task.count
                              /\ \A a \in 1 .. task.count : adder[a].at = "ended"

\* The numbers of a thread, of all threads that were started, of those that have ended.
Numbers(a) == adder[a].lo .. adder[a].hi
Covered == UNION {Numbers(a) : a \in 1 .. boss.t}
Done == UNION {Numbers(a) : a \in {b \in Adders : adder[b].at = "ended"}}

\* The ranges do not overlap, leave nothing out, and the sum is that of the threads
\* that have ended.
SumCover ==
    boss.at \in {"spawn", "printed"} /\ RangesFit =>
        /\ \A a, b \in 1 .. boss.t : a # b => Numbers(a) \cap Numbers(b) = {}
        /\ boss.t < task.count => /\ boss.minV = boss.t * (Range_ + 1)
                                 /\ Covered = 0 .. boss.minV - 1
        /\ boss.t = task.count => Covered = 0 .. task.maxV
        /\ sum = Wrapped(SumOfSquares(Done))

SumInv == SumTypes /\ SumLock /\ SumParts /\ SumBoss /\ SumCover

-----------------------------------------------------------------------------
(* ConcurrentSum: the steps *)

\* A wrapped number is a natural number.
LEMMA WrappedNat == ASSUME NEW a \in Nat PROVE Wrapped(a) \in Nat
BY SumAssumption DEF Wrapped

\* Division with remainder, the modulus being any number.
LEMMA Division ==
    ASSUME NEW M \in Nat \ {0}, NEW a \in Nat
    PROVE  \E q \in Int : a = M * q + (a % M) /\ a % M \in 0 .. M - 1
<1>1. a % M \in 0 .. M - 1 /\ a \div M \in Int /\ a = M * (a \div M) + (a % M) OBVIOUS
<1> QED BY <1>1

\* The remainder is the only one.
LEMMA Remainder ==
    ASSUME NEW M \in Nat \ {0}, NEW q \in Int, NEW r \in 0 .. M - 1
    PROVE  (M * q + r) % M = r
OBVIOUS

\* Multiplication distributes over a sum of three.
LEMMA Distributes ==
    ASSUME NEW M \in Int, NEW q \in Int, NEW p \in Int, NEW o \in Int
    PROVE  M * (q + p + o) = M * q + M * p + M * o
OBVIOUS

\* Wrapping the parts of a sum does not change where the sum ends.
LEMMA WrappedSum ==
    ASSUME NEW a \in Nat, NEW b \in Nat
    PROVE  Wrapped(Wrapped(a) + Wrapped(b)) = Wrapped(a + b)
<1>1. PICK M \in Nat \ {0} : M = Modulus BY SumAssumption
<1>2. PICK q \in Int : a = M * q + (a % M) /\ a % M \in 0 .. M - 1 BY Division
<1>3. PICK p \in Int : b = M * p + (b % M) /\ b % M \in 0 .. M - 1 BY Division
<1>4. PICK r \in Int : r = a % M BY <1>2
<1>5. PICK s \in Int : s = b % M BY <1>3
<1>6. r + s \in Nat BY <1>2, <1>3, <1>4, <1>5
<1>7. PICK o \in Int : r + s = M * o + ((r + s) % M) /\ (r + s) % M \in 0 .. M - 1 BY <1>6, Division
<1>8. PICK u \in 0 .. M - 1 : u = (r + s) % M BY <1>7
<1>9. q + p + o \in Int /\ a + b = M * (q + p + o) + u
  <2>1. a = M * q + r /\ b = M * p + s /\ r + s = M * o + u BY <1>2, <1>3, <1>4, <1>5, <1>7, <1>8
  <2>2. M * (q + p + o) = M * q + M * p + M * o BY Distributes
  <2>3. M * q \in Int /\ M * p \in Int /\ M * o \in Int OBVIOUS
  <2> QED BY <2>1, <2>2, <2>3
<1>10. (M * (q + p + o) + u) % M = u BY <1>9, Remainder
<1>11. (a + b) % M = u BY <1>9, <1>10
<1> QED BY <1>1, <1>4, <1>5, <1>8, <1>11 DEF Wrapped

\* An interval of natural numbers is a finite set of them.
LEMMA IntervalFin == ASSUME NEW a \in Nat, NEW b \in Int PROVE a .. b \in FinSets
<1>1. IsFiniteSet(a .. b) BY FS_Interval
<1> QED BY <1>1 DEF FinSets

\* The sum of a range has its type.
LEMMA SquaresNat == ASSUME NEW a \in Nat, NEW b \in Int PROVE Squares(a, b) \in Nat
BY IntervalFin, SumNat, WrappedNat DEF Squares

\* There is a thread for every range.
LEMMA EnoughAdders ==
    ASSUME SumTypes
    PROVE  task.count \in Nat /\ task.maxV \in Nat /\ 1 .. task.count \subseteq Adders /\ Adders \subseteq Nat
<1>1. PICK m \in Counts : \A n \in Counts : n <= m BY SumAssumption
<1>2. Max(Counts) \in Counts /\ \A n \in Counts : n <= Max(Counts) BY <1>1 DEF Max
<1>3. task.count \in Counts /\ task.maxV \in MaxVs BY DEF SumTypes
<1>4. task.count \in Nat /\ Max(Counts) \in Nat /\ task.count <= Max(Counts) /\ task.maxV \in Nat
  BY <1>2, <1>3, SumAssumption
<1> QED BY <1>4 DEF Adders

\* What the threads that have ended have added is part of what was given out.
LEMMA DoneFin ==
    ASSUME SumInv, boss.at \in {"spawn", "printed"}, RangesFit
    PROVE  Done \in FinSets /\ Done \subseteq Covered
<1>1. task.maxV \in Nat /\ task.count \in Nat /\ boss.t \in Nat /\ boss.minV \in Nat /\ Adders \subseteq Nat
  BY EnoughAdders DEF SumInv, SumTypes
<1>2. \A b \in Adders : adder[b].at = "ended" => b \in 1 .. boss.t
  <2> SUFFICES ASSUME NEW b \in Adders, adder[b].at = "ended" PROVE b \in 1 .. boss.t OBVIOUS
  <2>1. ~(b > boss.t) BY DEF SumInv, SumBoss
  <2>2. b \in Nat /\ b >= 1 BY <1>1 DEF Adders
  <2> QED BY <1>1, <2>1, <2>2
<1>3. Done \subseteq Covered BY <1>2 DEF Done, Covered
<1>4. Covered = 0 .. boss.minV - 1 \/ Covered = 0 .. task.maxV
  <2>1. boss.t < task.count \/ boss.t = task.count BY <1>1 DEF SumInv, SumBoss
  <2> QED BY <2>1 DEF SumInv, SumCover
<1>5. Covered \in FinSets BY <1>1, <1>4, IntervalFin
<1>6. Done \in FinSets BY <1>3, <1>5, FS_Subset DEF FinSets
<1> QED BY <1>3, <1>6

\* The initial states satisfy the invariant.
LEMMA SumInitial == SumInit => SumInv
<1> SUFFICES ASSUME SumInit PROVE SumInv OBVIOUS
<1>1. \A a \in Adders : adder[a] = Absent BY DEF SumInit
<1>2. SumTypes BY DEF SumInit, SumTypes, Absent
<1>3. task.count \in Nat BY <1>2, EnoughAdders
<1>4. SumLock BY <1>1 DEF SumLock, Adding, Absent
<1>5. SumParts BY <1>1 DEF SumParts, Absent
<1>6. SumBoss BY <1>1, <1>3 DEF SumInit, SumBoss, Absent
<1>7. SumCover BY DEF SumInit, SumCover
<1> QED BY <1>2, <1>4, <1>5, <1>6, <1>7 DEF SumInv

\* Before the first thread.
LEMMA SerialStep ==
    ASSUME SumInv, Serial_Task
    PROVE  SumInv'
<1>1. /\ boss.at = "serial" /\ serial' = Squares(1, task.maxV) /\ sum' = 0
      /\ boss' = [boss EXCEPT !.at = IF task.count = 0 THEN "killed" ELSE "spawn"]
      /\ task' = task /\ adder' = adder /\ mtx' = mtx
  BY DEF Serial_Task
<1>2. SumTypes /\ boss.t = 0 /\ boss.minV = 0 /\ task.count \in Nat /\ task.maxV \in Nat /\ Adders \subseteq Nat
  BY <1>1, EnoughAdders DEF SumInv, SumBoss
<1>3. \A a \in Adders : adder[a].at = "none"
  <2> SUFFICES ASSUME NEW a \in Adders PROVE adder[a].at = "none" OBVIOUS
  <2>1. a > boss.t BY <1>2 DEF Adders
  <2> QED BY <2>1 DEF SumInv, SumBoss
<1>4. /\ boss'.at = IF task.count = 0 THEN "killed" ELSE "spawn"
      /\ boss'.t = 0 /\ boss'.minV = 0
      /\ boss' \in [at : {"serial", "killed", "spawn", "printed"}, t : Nat, minV : Nat]
  BY <1>1, <1>2 DEF SumTypes
<1>5. serial' \in Nat BY <1>1, <1>2, SquaresNat
<1>6. SumTypes' BY <1>1, <1>2, <1>4, <1>5 DEF SumTypes
<1>7. SumLock' /\ SumParts' BY <1>1, <1>3 DEF SumLock, SumParts, Adding
<1>8. SumBoss' BY <1>1, <1>2, <1>3, <1>4 DEF SumBoss
<1>9. SumCover'
  <2> SUFFICES ASSUME boss'.at \in {"spawn", "printed"}
               PROVE  /\ boss'.t < task'.count /\ boss'.minV = boss'.t * (Range_' + 1)
                      /\ Covered' = 0 .. boss'.minV - 1
                      /\ sum' = Wrapped(SumOfSquares(Done'))
                      /\ \A a, b \in 1 .. boss'.t : a # b => Numbers(a)' \cap Numbers(b)' = {}
    BY <1>2, <1>4 DEF SumCover
  <2>1. boss'.t < task'.count BY <1>1, <1>2, <1>4
  <2>2. Range_' \in Nat
    <3>1. task.maxV \div task.count \in Nat BY <1>1, <1>2, <2>1, <1>4
    <3> QED BY <1>1, <3>1 DEF Range_
  <2>3. boss'.minV = boss'.t * (Range_' + 1)
    <3>1. \A k \in Nat : 0 * (k + 1) = 0 OBVIOUS
    <3>2. 0 * (Range_' + 1) = 0 BY <2>2, <3>1
    <3> QED BY <1>4, <3>2
  <2>4. Covered' = 0 .. boss'.minV - 1 BY <1>4 DEF Covered
  <2>5. Done' = {} BY <1>1, <1>3 DEF Done
  <2>6. Wrapped(SumOfSquares({})) = 0 BY SumNone, SumAssumption DEF Wrapped
  <2>7. sum' = Wrapped(SumOfSquares(Done')) BY <1>1, <2>5, <2>6
  <2> QED BY <1>4, <2>1, <2>3, <2>4, <2>7
<1> QED BY <1>6, <1>7, <1>8, <1>9 DEF SumInv

\* A thread is started: its range follows those given out before.
LEMMA SpawnStep ==
    ASSUME SumInv, Spawn
    PROVE  SumInv'
<1> DEFINE last == boss.t = task.count - 1
<1>1. SumTypes /\ boss.t \in Nat /\ boss.minV \in Nat /\ task.count \in Nat /\ task.maxV \in Nat
      /\ Adders \subseteq Nat /\ 1 .. task.count \subseteq Adders
  BY EnoughAdders DEF SumInv, SumTypes
<1>2. boss.at = "spawn" /\ boss.t < task.count /\ task' = task /\ sum' = sum /\ mtx' = mtx /\ serial' = serial
  BY DEF Spawn
<1>3. Range_ \in Nat /\ Range_' = Range_
  <2>1. task.count # 0 BY <1>2, <1>1
  <2>2. task.maxV \div task.count \in Nat BY <1>1, <2>1
  <2> QED BY <1>2, <2>2 DEF Range_
<1>4. PICK a \in Adders : a = boss.t + 1 /\ a \in Nat /\ a <= task.count BY <1>2, <1>1
<1>5. PICK hi \in Nat : hi = IF last THEN task.maxV ELSE boss.minV + Range_ BY <1>1, <1>3
<1>6. PICK minV \in Nat : minV = IF last THEN boss.minV ELSE boss.minV + Range_ + 1 BY <1>1, <1>3
<1>7. /\ adder' = [adder EXCEPT ![a] = [Absent EXCEPT !.at = "adds", !.lo = boss.minV, !.hi = hi]]
      /\ boss' = [boss EXCEPT !.t = a, !.minV = minV]
  BY <1>4, <1>5, <1>6 DEF Spawn
<1> DEFINE new == [Absent EXCEPT !.at = "adds", !.lo = boss.minV, !.hi = hi]
<1>8. /\ new.at = "adds" /\ new.lo = boss.minV /\ new.hi = hi
      /\ new \in [at : {"none", "adds", "reads", "writes", "ended"}, lo : Nat, hi : Nat, tmp : Nat]
  BY <1>1 DEF Absent
<1> HIDE DEF new
<1>9. /\ adder'[a] = new /\ \A b \in Adders : b # a => adder'[b] = adder[b]
      /\ adder' \in [Adders -> [at : {"none", "adds", "reads", "writes", "ended"},
                               lo : Nat, hi : Nat, tmp : Nat]]
  BY <1>7, <1>1, <1>8 DEF SumTypes, new
<1>10. /\ boss'.at = "spawn" /\ boss'.t = a /\ boss'.minV = minV
      /\ boss' \in [at : {"serial", "killed", "spawn", "printed"}, t : Nat, minV : Nat]
  BY <1>2, <1>7, <1>1, <1>4 DEF SumTypes
<1>11. SumTypes' BY <1>2, <1>1, <1>9, <1>10 DEF SumTypes
<1>12. adder[a].at = "none"
  <2>1. a > boss.t BY <1>1, <1>4
  <2> QED BY <2>1 DEF SumInv, SumBoss
<1>13. adder'[a].at = "adds" /\ adder'[a].lo = boss.minV /\ adder'[a].hi = hi BY <1>8, <1>9
<1>14. SumLock' BY <1>2, <1>9, <1>13 DEF SumInv, SumLock, Adding
<1>15. SumParts' BY <1>2, <1>9, <1>13 DEF SumInv, SumParts
<1>16. SumBoss'
  <2>1. \A b \in Adders : b > a => adder'[b].at = "none"
    <3> SUFFICES ASSUME NEW b \in Adders, b > a PROVE adder[b].at = "none" BY <1>1, <1>4, <1>9
    <3>1. b > boss.t BY <1>1, <1>4, <1>4
    <3> QED BY <3>1 DEF SumInv, SumBoss
  <2> QED BY <1>2, <1>4, <1>10, <2>1 DEF SumInv, SumBoss
<1>17. ASSUME RangesFit' PROVE SumCover'
  <2>1. RangesFit BY <1>2, <1>3, <1>17 DEF RangesFit
  <2>2. /\ \A c, b \in 1 .. boss.t : c # b => Numbers(c) \cap Numbers(b) = {}
        /\ boss.minV = boss.t * (Range_ + 1) /\ Covered = 0 .. boss.minV - 1
        /\ sum = Wrapped(SumOfSquares(Done))
    BY <1>2, <2>1 DEF SumInv, SumCover
  <2>3. \A b \in 1 .. boss.t : b \in Adders /\ b # a /\ Numbers(b)' = Numbers(b)
    <3> SUFFICES ASSUME NEW b \in 1 .. boss.t PROVE b \in Adders /\ b # a /\ Numbers(b)' = Numbers(b) OBVIOUS
    <3>1. b \in 1 .. task.count /\ b # a BY <1>2, <1>1, <1>4
    <3>2. b \in Adders BY <1>1, <3>1
    <3> QED BY <1>9, <3>1, <3>2 DEF Numbers
  <2>4. Numbers(a)' = boss.minV .. hi BY <1>13 DEF Numbers
  <2>5. 1 .. a = 1 .. boss.t \cup {a} BY <1>1, <1>4
  <2>6. Covered' = Covered \cup (boss.minV .. hi)
    <3>1. Covered' = UNION {Numbers(b)' : b \in 1 .. a} BY <1>10 DEF Covered
    <3>2. UNION {Numbers(b)' : b \in 1 .. a} = (UNION {Numbers(b)' : b \in 1 .. boss.t}) \cup Numbers(a)'
      BY <2>5
    <3>3. UNION {Numbers(b)' : b \in 1 .. boss.t} = UNION {Numbers(b) : b \in 1 .. boss.t} BY <2>3
    <3> QED BY <2>4, <3>1, <3>2, <3>3 DEF Covered
  <2>7. Done' = Done
    <3>1. \A b \in Adders : adder'[b].at = "ended" <=> adder[b].at = "ended" BY <1>9, <1>12, <1>13
    <3>2. \A b \in Adders : adder[b].at = "ended" => Numbers(b)' = Numbers(b)
      BY <1>9, <1>12 DEF Numbers
    <3> QED BY <3>1, <3>2 DEF Done
  <2>8. ASSUME NEW c \in 1 .. a, NEW b \in 1 .. a, c # b PROVE Numbers(c)' \cap Numbers(b)' = {}
    <3>1. \A d \in 1 .. boss.t : Numbers(d) \cap (boss.minV .. hi) = {}
      <4> SUFFICES ASSUME NEW d \in 1 .. boss.t, NEW x \in Numbers(d), x \in boss.minV .. hi PROVE FALSE
        OBVIOUS
      <4>1. x \in 0 .. boss.minV - 1 BY <2>2 DEF Covered
      <4> QED BY <1>1, <1>5, <4>1
    <3>2. CASE c \in 1 .. boss.t /\ b \in 1 .. boss.t BY <2>2, <2>3, <2>8, <3>2
    <3>3. CASE c \in 1 .. boss.t /\ b = a BY <2>3, <2>4, <3>1, <3>3
    <3>4. CASE c = a /\ b \in 1 .. boss.t BY <2>3, <2>4, <3>1, <3>4
    <3> QED BY <2>5, <2>8, <3>2, <3>3, <3>4
  <2>9. CASE last
    <3>1. a = task.count /\ hi = task.maxV BY <1>1, <1>4, <1>5, <2>9
    <3>2. boss.minV <= task.maxV + 1 BY <2>1, <2>2, <2>9 DEF RangesFit
    <3>3. Covered' = 0 .. task.maxV BY <1>1, <2>2, <2>6, <3>1, <3>2
    <3> QED BY <1>2, <1>1, <1>10, <2>2, <2>7, <2>8, <3>1, <3>3 DEF SumCover
  <2>10. CASE ~last
    <3>1. a < task.count /\ hi = boss.minV + Range_ BY <1>2, <1>1, <2>10, <1>4, <1>5
    <3>2. boss'.minV = boss.minV + Range_ + 1 BY <1>6, <1>10, <2>10
    <3>3. Covered' = 0 .. boss'.minV - 1 BY <1>1, <1>3, <2>2, <2>6, <3>1, <3>2
    <3>4. boss'.minV = a * (Range_ + 1)
      <4>1. \A m, k \in Nat : (m + 1) * (k + 1) = m * (k + 1) + k + 1 OBVIOUS
      <4>2. (boss.t + 1) * (Range_ + 1) = boss.t * (Range_ + 1) + Range_ + 1 BY <1>1, <1>3, <4>1
      <4> QED BY <2>2, <3>2, <4>2, <1>4
    <3>5. a # task.count BY <1>1, <1>4, <3>1
    <3> QED BY <1>2, <1>3, <1>10, <2>2, <2>7, <2>8, <3>1, <3>3, <3>4, <3>5 DEF SumCover
  <2> QED BY <2>9, <2>10
<1>18. SumCover' BY <1>17 DEF SumCover
<1> QED BY <1>11, <1>14, <1>15, <1>16, <1>18 DEF SumInv

\* A step of the thread a that leaves its range alone.
Moves(a, place, tmp) ==
    /\ adder' = [adder EXCEPT ![a].at = place, ![a].tmp = tmp]
    /\ task' = task /\ boss' = boss /\ serial' = serial

\* What such a step leaves alone.
LEMMA MovesOne ==
    ASSUME SumInv, NEW a \in Adders, NEW place \in {"reads", "writes", "ended"}, NEW tmp \in Nat,
           Moves(a, place, tmp), adder[a].at \in {"adds", "reads", "writes"}
    PROVE  /\ adder'[a].at = place /\ adder'[a].tmp = tmp
           /\ adder'[a].lo = adder[a].lo /\ adder'[a].hi = adder[a].hi
           /\ \A b \in Adders : b # a => adder'[b] = adder[b]
           /\ adder' \in [Adders -> [at : {"none", "adds", "reads", "writes", "ended"},
                                    lo : Nat, hi : Nat, tmp : Nat]]
           /\ \A b \in Adders : Numbers(b)' = Numbers(b)
           /\ Covered' = Covered /\ RangesFit' = RangesFit /\ Range_' = Range_
           /\ SumBoss'
<1>1. SumTypes /\ Adders \subseteq Nat /\ task.count \in Nat /\ 1 .. task.count \subseteq Adders /\ boss.t \in Nat
  BY EnoughAdders DEF SumInv, SumTypes
<1>2. adder' = [adder EXCEPT ![a] = [adder[a] EXCEPT !.at = place, !.tmp = tmp]] BY <1>1 DEF Moves, SumTypes
<1>3. adder[a] \in [at : {"none", "adds", "reads", "writes", "ended"}, lo : Nat, hi : Nat, tmp : Nat]
  BY <1>1 DEF SumTypes
<1> DEFINE new == [adder[a] EXCEPT !.at = place, !.tmp = tmp]
<1>4. /\ new.at = place /\ new.tmp = tmp /\ new.lo = adder[a].lo /\ new.hi = adder[a].hi
      /\ new \in [at : {"none", "adds", "reads", "writes", "ended"}, lo : Nat, hi : Nat, tmp : Nat]
  BY <1>3
<1> HIDE DEF new
<1>5. /\ adder'[a] = new /\ \A b \in Adders : b # a => adder'[b] = adder[b]
      /\ adder' \in [Adders -> [at : {"none", "adds", "reads", "writes", "ended"},
                               lo : Nat, hi : Nat, tmp : Nat]]
  BY <1>1, <1>2, <1>4 DEF SumTypes, new
<1>6. \A b \in Adders : Numbers(b)' = Numbers(b) BY <1>4, <1>5 DEF Numbers
<1>7. RangesFit' = RangesFit /\ Range_' = Range_ BY DEF Moves, RangesFit, Range_
<1>8. ~(a > boss.t) /\ boss.at # "serial" /\ boss.at # "killed" /\ boss.at # "printed"
  <2>1. ~(a > boss.t) BY DEF SumInv, SumBoss
  <2>2. a >= 1 BY <1>1 DEF Adders
  <2>3. boss.t # 0 /\ a \in 1 .. boss.t BY <1>1, <2>1, <2>2
  <2>4. boss.at \notin {"serial", "killed"} BY <2>3 DEF SumInv, SumBoss
  <2>5. boss.at # "printed" BY <2>3 DEF SumInv, SumBoss
  <2> QED BY <2>1, <2>4, <2>5
<1>9. SumBoss'
  <2>1. task' = task /\ boss' = boss /\ serial' = serial BY DEF Moves
  <2>2. \A b \in Adders : b > boss.t => adder'[b].at = "none" BY <1>5, <1>8 DEF SumInv, SumBoss
  <2> QED BY <1>8, <2>1, <2>2 DEF SumInv, SumBoss
<1>10. Covered' = Covered
  <2>1. 1 .. boss.t \subseteq Adders BY <1>1 DEF SumInv, SumBoss
  <2>2. Covered' = UNION {Numbers(b)' : b \in 1 .. boss.t} BY DEF Covered, Moves
  <2> QED BY <1>6, <2>1, <2>2 DEF Covered
<1> QED BY <1>4, <1>5, <1>6, <1>7, <1>9, <1>10

\* A step that does not end a thread keeps the sum of those that have ended.
LEMMA SameDone ==
    ASSUME SumInv, NEW a \in Adders, NEW place \in {"reads", "writes"}, NEW tmp \in Nat, Moves(a, place, tmp),
           adder[a].at \in {"adds", "reads"}, sum' = sum
    PROVE  SumCover'
<1>1. /\ adder'[a].at = place /\ \A b \in Adders : b # a => adder'[b] = adder[b]
      /\ \A b \in Adders : Numbers(b)' = Numbers(b)
      /\ Covered' = Covered /\ RangesFit' = RangesFit /\ Range_' = Range_
  BY MovesOne
<1>2. task' = task /\ boss' = boss BY DEF Moves
<1>3. Done' = Done
  <2>1. \A b \in Adders : adder'[b].at = "ended" <=> adder[b].at = "ended" BY <1>1
  <2> QED BY <1>1, <2>1 DEF Done
<1>4. 1 .. boss.t \subseteq Adders BY EnoughAdders DEF SumInv, SumBoss, SumTypes
<1> SUFFICES ASSUME boss.at \in {"spawn", "printed"}, RangesFit
             PROVE  /\ \A c, b \in 1 .. boss.t : c # b => Numbers(c)' \cap Numbers(b)' = {}
                    /\ boss.t < task.count => boss.minV = boss.t * (Range_ + 1)
                                             /\ Covered = 0 .. boss.minV - 1
                    /\ boss.t = task.count => Covered = 0 .. task.maxV
                    /\ sum = Wrapped(SumOfSquares(Done))
  BY <1>1, <1>2, <1>3 DEF SumCover
<1>5. /\ \A c, b \in 1 .. boss.t : c # b => Numbers(c) \cap Numbers(b) = {}
      /\ boss.t < task.count => boss.minV = boss.t * (Range_ + 1)
                               /\ Covered = 0 .. boss.minV - 1
      /\ boss.t = task.count => Covered = 0 .. task.maxV
      /\ sum = Wrapped(SumOfSquares(Done))
  BY DEF SumInv, SumCover
<1>6. \A c, b \in 1 .. boss.t : c # b => Numbers(c)' \cap Numbers(b)' = {} BY <1>1, <1>4, <1>5
<1> QED BY <1>5, <1>6

\* A thread has summed its range and takes the lock.
LEMMA LockStep ==
    ASSUME SumInv, NEW a \in Adders, Adder_Lock(a)
    PROVE  SumInv'
<1> DEFINE tmp == Squares(adder[a].lo, adder[a].hi)
<1>1. adder[a].at = "adds" /\ ~mtx /\ mtx' = TRUE /\ sum' = sum /\ serial' = serial /\ task' = task
  BY DEF Adder_Lock
<1>2. SumTypes /\ adder[a].lo \in Nat /\ adder[a].hi \in Nat BY DEF SumInv, SumTypes
<1>3. tmp \in Nat
  <2>1. adder[a].lo \in Nat /\ adder[a].hi \in Int BY <1>2
  <2> QED BY <2>1, SquaresNat
<1> HIDE DEF tmp
<1>4. PICK k \in Nat : k = tmp BY <1>3
<1>5. Moves(a, "reads", k) BY <1>4 DEF Adder_Lock, Moves, tmp
<1>6. /\ adder'[a].at = "reads" /\ adder'[a].tmp = k
      /\ adder'[a].lo = adder[a].lo /\ adder'[a].hi = adder[a].hi
      /\ \A b \in Adders : b # a => adder'[b] = adder[b]
      /\ adder' \in [Adders -> [at : {"none", "adds", "reads", "writes", "ended"},
                               lo : Nat, hi : Nat, tmp : Nat]]
      /\ SumBoss'
  BY <1>1, <1>5, MovesOne
<1>7. SumTypes' BY <1>1, <1>2, <1>5, <1>6 DEF SumTypes, Moves
<1>8. SumLock' BY <1>1, <1>6 DEF SumInv, SumLock, Adding
<1>9. SumParts' BY <1>1, <1>4, <1>6 DEF SumInv, SumParts, tmp
<1>10. SumCover' BY <1>1, <1>5, SameDone
<1> QED BY <1>6, <1>7, <1>8, <1>9, <1>10 DEF SumInv

\* A thread reads the sum; nobody changes it until it has written.
LEMMA ReadStep ==
    ASSUME SumInv, NEW a \in Adders, Adder_Read(a)
    PROVE  SumInv'
<1>1. adder[a].at = "reads" /\ mtx' = mtx /\ sum' = sum /\ serial' = serial /\ task' = task
  BY DEF Adder_Read
<1>2. SumTypes /\ adder[a].lo \in Nat /\ adder[a].hi \in Nat /\ adder[a].tmp \in Nat /\ sum \in Nat
  BY DEF SumInv, SumTypes
<1>3. PICK k \in Nat : k = Wrapped(sum + adder[a].tmp) BY <1>2, WrappedNat
<1>4. Moves(a, "writes", k) BY <1>2, <1>3 DEF Adder_Read, Moves, SumTypes
<1>5. /\ adder'[a].at = "writes" /\ adder'[a].tmp = k
      /\ adder'[a].lo = adder[a].lo /\ adder'[a].hi = adder[a].hi
      /\ \A b \in Adders : b # a => adder'[b] = adder[b]
      /\ adder' \in [Adders -> [at : {"none", "adds", "reads", "writes", "ended"},
                               lo : Nat, hi : Nat, tmp : Nat]]
      /\ SumBoss'
  BY <1>1, <1>4, MovesOne
<1>6. SumTypes' BY <1>1, <1>2, <1>4, <1>5 DEF SumTypes, Moves
<1>7. SumLock' BY <1>1, <1>5 DEF SumInv, SumLock, Adding
<1>8. k = Wrapped(sum + Squares(adder[a].lo, adder[a].hi)) BY <1>1, <1>3 DEF SumInv, SumParts
<1>9. SumParts' BY <1>1, <1>5, <1>8 DEF SumInv, SumParts
<1>10. SumCover' BY <1>1, <1>4, SameDone
<1> QED BY <1>5, <1>6, <1>7, <1>9, <1>10 DEF SumInv

\* The part of a thread is added to that of the others, whose numbers are not its own.
LEMMA WriteStep ==
    ASSUME SumInv, NEW a \in Adders, Adder_Write(a)
    PROVE  SumInv'
<1>1. /\ adder[a].at = "writes" /\ mtx' = FALSE /\ sum' = adder[a].tmp /\ serial' = serial
      /\ task' = task /\ boss' = boss
  BY DEF Adder_Write
<1>2. SumTypes /\ adder[a].lo \in Nat /\ adder[a].hi \in Nat /\ adder[a].tmp \in Nat /\ sum \in Nat
  BY DEF SumInv, SumTypes
<1>3. PICK k \in Nat : k = adder[a].tmp BY <1>2
<1>4. Moves(a, "ended", k)
  <2>1. adder' = [adder EXCEPT ![a] = [adder[a] EXCEPT !.at = "ended"]] BY <1>2 DEF Adder_Write, SumTypes
  <2>2. [adder[a] EXCEPT !.at = "ended"] = [adder[a] EXCEPT !.at = "ended", !.tmp = k]
    <3>1. adder[a] \in [at : {"none", "adds", "reads", "writes", "ended"}, lo : Nat, hi : Nat, tmp : Nat]
      BY <1>2 DEF SumTypes
    <3> QED BY <1>3, <3>1
  <2>3. adder' = [adder EXCEPT ![a] = [adder[a] EXCEPT !.at = "ended", !.tmp = k]] BY <2>1, <2>2
  <2>4. adder' = [adder EXCEPT ![a].at = "ended", ![a].tmp = k] BY <1>2, <2>3 DEF SumTypes
  <2> QED BY <1>1, <2>4 DEF Moves
<1>5. /\ adder'[a].at = "ended"
      /\ \A b \in Adders : b # a => adder'[b] = adder[b]
      /\ adder' \in [Adders -> [at : {"none", "adds", "reads", "writes", "ended"},
                               lo : Nat, hi : Nat, tmp : Nat]]
      /\ \A b \in Adders : Numbers(b)' = Numbers(b)
      /\ Covered' = Covered /\ RangesFit' = RangesFit /\ Range_' = Range_
      /\ SumBoss'
  BY <1>1, <1>4, MovesOne
<1>6. SumTypes' BY <1>1, <1>2, <1>5 DEF SumTypes
<1>7. \A b \in Adders : b # a => ~Adding(b) BY <1>1 DEF SumInv, SumLock, Adding
<1>8. SumLock' BY <1>5, <1>7 DEF SumLock, Adding
<1>9. SumParts' BY <1>5, <1>7 DEF SumParts, Adding
<1>10. SumCover'
  <2> SUFFICES ASSUME boss.at \in {"spawn", "printed"}, RangesFit
               PROVE  /\ \A c, b \in 1 .. boss.t : c # b => Numbers(c)' \cap Numbers(b)' = {}
                      /\ boss.t < task.count => boss.minV = boss.t * (Range_ + 1)
                                               /\ Covered = 0 .. boss.minV - 1
                      /\ boss.t = task.count => Covered = 0 .. task.maxV
                      /\ sum' = Wrapped(SumOfSquares(Done'))
    BY <1>1, <1>5 DEF SumCover
  <2>1. /\ \A c, b \in 1 .. boss.t : c # b => Numbers(c) \cap Numbers(b) = {}
        /\ boss.t < task.count => boss.minV = boss.t * (Range_ + 1)
                                 /\ Covered = 0 .. boss.minV - 1
        /\ boss.t = task.count => Covered = 0 .. task.maxV
        /\ sum = Wrapped(SumOfSquares(Done))
    BY DEF SumInv, SumCover
  <2>2. Adders \subseteq Nat /\ boss.t \in Nat /\ 1 .. boss.t \subseteq Adders
    BY EnoughAdders DEF SumInv, SumBoss, SumTypes
  <2>3. \A b \in Adders : adder[b].at # "none" => b \in 1 .. boss.t
    <3> SUFFICES ASSUME NEW b \in Adders, adder[b].at # "none" PROVE b \in 1 .. boss.t OBVIOUS
    <3>1. ~(b > boss.t) BY DEF SumInv, SumBoss
    <3>2. b \in Nat /\ boss.t \in Nat /\ b >= 1 BY <2>2 DEF Adders
    <3>3. \A i, j \in Nat : ~(i > j) /\ i >= 1 => i \in 1 .. j OBVIOUS
    <3> QED BY <3>1, <3>2, <3>3
  <2>4. \A c, b \in 1 .. boss.t : c # b => Numbers(c)' \cap Numbers(b)' = {} BY <1>5, <2>1, <2>2
  <2>5. Done' = Done \cup Numbers(a)
    <3>1. \A b \in Adders : adder'[b].at = "ended" <=> (adder[b].at = "ended" \/ b = a) BY <1>1, <1>5
    <3>2. Done' = UNION {Numbers(b)' : b \in {c \in Adders : adder'[c].at = "ended"}} BY DEF Done
    <3> QED BY <1>5, <3>1, <3>2 DEF Done
  <2>6. Done \cap Numbers(a) = {}
    <3> SUFFICES ASSUME NEW b \in Adders, adder[b].at = "ended" PROVE Numbers(b) \cap Numbers(a) = {}
      BY DEF Done
    <3>1. b \in 1 .. boss.t /\ a \in 1 .. boss.t /\ a # b BY <1>1, <2>3
    <3> QED BY <2>1, <3>1
  <2>7. Done \in FinSets /\ Numbers(a) \in FinSets BY <1>2, DoneFin, IntervalFin DEF Numbers
  <2>8. SumOfSquares(Done') = SumOfSquares(Done) + SumOfSquares(Numbers(a))
    BY <2>5, <2>6, <2>7, SumUnion
  <2>9. sum' = Wrapped(sum + Wrapped(SumOfSquares(Numbers(a))))
    BY <1>1 DEF SumInv, SumParts, Squares, Numbers
  <2>10. SumOfSquares(Done) \in Nat /\ SumOfSquares(Numbers(a)) \in Nat BY <2>7, SumNat
  <2>11. sum' = Wrapped(SumOfSquares(Done) + SumOfSquares(Numbers(a)))
    BY <2>1, <2>9, <2>10, WrappedSum
  <2> QED BY <2>1, <2>4, <2>8, <2>11
<1> QED BY <1>5, <1>6, <1>8, <1>9, <1>10 DEF SumInv

\* Every step keeps the invariant.
LEMMA SumInvStep == SumInv /\ [SumNext]_sumVars => SumInv'
<1> SUFFICES ASSUME SumInv, [SumNext]_sumVars PROVE SumInv' OBVIOUS
<1>1. CASE Join
  <2>1. /\ boss.at = "spawn" /\ boss.t = task.count /\ \A a \in 1 .. task.count : adder[a].at = "ended"
        /\ boss' = [boss EXCEPT !.at = "printed"]
        /\ task' = task /\ adder' = adder /\ sum' = sum /\ mtx' = mtx /\ serial' = serial
    BY <1>1 DEF Join
  <2>2. /\ boss'.at = "printed" /\ boss'.t = boss.t /\ boss'.minV = boss.minV
        /\ boss' \in [at : {"serial", "killed", "spawn", "printed"}, t : Nat, minV : Nat]
    BY <2>1 DEF SumInv, SumTypes
  <2>3. SumTypes' BY <2>1, <2>2 DEF SumInv, SumTypes
  <2>4. SumLock' /\ SumParts' BY <2>1 DEF SumInv, SumLock, SumParts, Adding
  <2>5. SumBoss' BY <2>1, <2>2 DEF SumInv, SumBoss
  <2>6. Covered' = Covered /\ Done' = Done /\ Range_' = Range_ /\ RangesFit' = RangesFit
        /\ \A a : Numbers(a)' = Numbers(a)
    BY <2>1, <2>2 DEF Covered, Done, Numbers, Range_, RangesFit
  <2>7. SumCover' BY <2>1, <2>2, <2>6 DEF SumInv, SumCover
  <2> QED BY <2>3, <2>4, <2>5, <2>7 DEF SumInv
<1>2. CASE UNCHANGED sumVars
  <2>1. task' = task /\ boss' = boss /\ adder' = adder /\ sum' = sum /\ mtx' = mtx /\ serial' = serial
    BY <1>2 DEF sumVars
  <2>2. SumTypes' BY <2>1 DEF SumInv, SumTypes
  <2>3. SumLock' /\ SumParts' BY <2>1 DEF SumInv, SumLock, SumParts, Adding
  <2>4. SumBoss' BY <2>1 DEF SumInv, SumBoss
  <2>5. Covered' = Covered /\ Done' = Done /\ Range_' = Range_ /\ RangesFit' = RangesFit
        /\ \A a : Numbers(a)' = Numbers(a)
    BY <2>1 DEF Covered, Done, Numbers, Range_, RangesFit
  <2>6. SumCover' BY <2>1, <2>5 DEF SumInv, SumCover
  <2> QED BY <2>2, <2>3, <2>4, <2>6 DEF SumInv
<1> QED BY <1>1, <1>2, SerialStep, SpawnStep, LockStep, ReadStep, WriteStep DEF SumNext

\* The threads print what one thread printed, for any numbers of threads and of
\* numbers for which the ranges fit, and wherever the sum wraps.
THEOREM ThreadsPrintTheSum == SumSpec => []SumAsSerial
<1>1. SumInv => SumAsSerial
  <2> SUFFICES ASSUME SumInv, boss.at = "printed", RangesFit PROVE sum = serial BY DEF SumAsSerial
  <2>1. task.maxV \in Nat /\ task.count \in Nat /\ 1 .. task.count \subseteq Adders /\ boss.t = task.count
        /\ \A a \in 1 .. task.count : adder[a].at = "ended"
    BY EnoughAdders DEF SumInv, SumBoss
  <2>2. Covered = 0 .. task.maxV /\ sum = Wrapped(SumOfSquares(Done)) /\ serial = Squares(1, task.maxV)
    BY <2>1 DEF SumInv, SumCover, SumBoss
  <2>3. Covered \subseteq Done BY <2>1 DEF Covered, Done
  <2>4. Done = 0 .. task.maxV BY <2>2, <2>3, DoneFin
  <2>5. 0 .. task.maxV \in FinSets /\ 0 \in 0 .. task.maxV /\ (0 .. task.maxV) \ {0} = 1 .. task.maxV
    BY <2>1, IntervalFin
  <2>6. SumOfSquares(0 .. task.maxV) = Square(0) + SumOfSquares(1 .. task.maxV) BY <2>5, SumRest
  <2>7. Square(0) = 0 /\ SumOfSquares(1 .. task.maxV) \in Nat
    <3>1. 1 \in Nat /\ task.maxV \in Int BY <2>1
    <3>2. 1 .. task.maxV \in FinSets BY <3>1, IntervalFin
    <3>3. SumOfSquares(1 .. task.maxV) \in Nat BY <3>2, SumNat
    <3> QED BY <3>3 DEF Square
  <2>8. SumOfSquares(Done) = SumOfSquares(1 .. task.maxV) BY <2>4, <2>6, <2>7
  <2> QED BY <2>2, <2>8 DEF Squares
<1> QED BY <1>1, SumInitial, SumInvStep, PTL DEF SumSpec

-----------------------------------------------------------------------------
(* Positions in the ring *)

\* What (index + 1) % size comes to in the range in which the code uses it.
LEMMA WrapOnce ==
    ASSUME NEW f \in -1 .. MaxSize - 1, NEW i \in 1 .. MaxSize
    PROVE  /\ (f + i) % MaxSize = IF f + i < MaxSize THEN f + i ELSE f + i - MaxSize
           /\ (f + i) % MaxSize \in Slots
BY QueueAssumption DEF Slots

\* push() writes the slot after the newest element, which no element occupies.
LEMMA PushSlot ==
    ASSUME TypeOK, RingInv, m_size < MaxSize
    PROVE  /\ (m_back + 1) % MaxSize \in Slots
           /\ (m_back + 1) % MaxSize = (m_front + (m_size + 1)) % MaxSize
           /\ \A i \in 1 .. m_size : (m_front + i) % MaxSize # (m_back + 1) % MaxSize
<1> USE QueueAssumption
<1>1. /\ m_front \in -1 .. MaxSize - 1 /\ m_back \in -1 .. MaxSize - 1
      /\ m_size \in 0 .. MaxSize - 1 /\ MaxSize \in Nat \ {0}
  BY DEF TypeOK
<1>2. /\ (m_back + 1) % MaxSize = IF m_back + 1 < MaxSize THEN m_back + 1 ELSE m_back + 1 - MaxSize
      /\ (m_back + 1) % MaxSize \in Slots
  BY <1>1, WrapOnce
<1>3. \A i \in 1 .. (m_size + 1) :
          (m_front + i) % MaxSize = IF m_front + i < MaxSize THEN m_front + i ELSE m_front + i - MaxSize
  <2>1. \A i \in 1 .. (m_size + 1) : i \in 1 .. MaxSize
    BY <1>1
  <2> QED BY <1>1, <2>1, WrapOnce
<1>4. (m_back + 1) % MaxSize = (m_front + (m_size + 1)) % MaxSize
  <2>1. m_size + 1 \in 1 .. (m_size + 1)
    BY <1>1
  <2>2. (m_front + (m_size + 1)) % MaxSize =
            IF m_front + (m_size + 1) < MaxSize THEN m_front + (m_size + 1) ELSE m_front + (m_size + 1) - MaxSize
    BY <1>3, <2>1
  <2> QED BY <1>1, <1>2, <2>2 DEF RingInv
<1>5. ASSUME NEW i \in 1 .. m_size PROVE (m_front + i) % MaxSize # (m_back + 1) % MaxSize
  <2>1. i \in 1 .. (m_size + 1)
    BY <1>1
  <2>2. (m_front + i) % MaxSize = IF m_front + i < MaxSize THEN m_front + i ELSE m_front + i - MaxSize
    BY <1>3, <2>1
  <2> QED BY <1>1, <1>2, <2>2 DEF RingInv
<1> QED BY <1>2, <1>4, <1>5

\* pop() reads the slot of the oldest element and makes the next one the oldest.
LEMMA PopSlot ==
    ASSUME TypeOK, m_size > 0
    PROVE  /\ (m_front + 1) % MaxSize \in Slots
           /\ \A i \in 1 .. (m_size - 1) :
                 (((m_front + 1) % MaxSize) + i) % MaxSize = (m_front + (i + 1)) % MaxSize
<1> USE QueueAssumption
<1>1. /\ m_front \in -1 .. MaxSize - 1
      /\ m_size \in 1 .. MaxSize /\ MaxSize \in Nat \ {0}
  BY DEF TypeOK
<1>2. /\ (m_front + 1) % MaxSize = IF m_front + 1 < MaxSize THEN m_front + 1 ELSE m_front + 1 - MaxSize
      /\ (m_front + 1) % MaxSize \in Slots
  BY <1>1, WrapOnce
<1>3. ASSUME NEW i \in 1 .. (m_size - 1)
      PROVE  (((m_front + 1) % MaxSize) + i) % MaxSize = (m_front + (i + 1)) % MaxSize
  <2> DEFINE f == (m_front + 1) % MaxSize
  <2>1. i \in 1 .. MaxSize /\ i + 1 \in 1 .. MaxSize /\ f \in -1 .. MaxSize - 1
    BY <1>1, <1>2 DEF Slots
  <2>2. (f + i) % MaxSize = IF f + i < MaxSize THEN f + i ELSE f + i - MaxSize
    BY <2>1, WrapOnce
  <2>3. (m_front + (i + 1)) % MaxSize =
            IF m_front + (i + 1) < MaxSize THEN m_front + (i + 1) ELSE m_front + (i + 1) - MaxSize
    BY <1>1, <2>1, WrapOnce
  <2> QED BY <1>1, <1>2, <2>1, <2>2, <2>3
<1> QED BY <1>2, <1>3

-----------------------------------------------------------------------------
(* The invariant *)

\* The constructor makes an empty ring.
LEMMA QueueInvInit == Init => QueueInv
BY QueueAssumption
   DEF Init, QueueInv, TypeOK, RingInv, MutexInv, NoLostWakeup, SlotsInv, PopsWhatWasPushed,
       Slots, Steps, Threads, Takers

\* Every step of push(), both pop()s and clear() preserves QueueInv.
LEMMA QueueInvStep == QueueInv /\ [Next]_vars => QueueInv'
<1> SUFFICES ASSUME QueueInv, [Next]_vars PROVE QueueInv'
  OBVIOUS
<1> USE QueueAssumption DEF QueueInv, Goes, ring
<1>0. ASSUME NEW t \in Pushers, NEW x \in Items, Push_Call(t, x) PROVE QueueInv'
  <2>1. TypeOK' /\ MutexInv'
    BY <1>0 DEF TypeOK, Steps, MutexInv, Threads, Takers, Push_Call
  <2>2. RingInv' /\ NoLostWakeup' /\ SlotsInv' /\ PopsWhatWasPushed'
    BY <1>0 DEF TypeOK, RingInv, NoLostWakeup, SlotsInv, PopsWhatWasPushed, Threads, Takers, Push_Call
  <2> QED BY <2>1, <2>2
<1>1. ASSUME NEW t \in Threads, Enter(t) PROVE QueueInv'
  <2>1. TypeOK' /\ MutexInv'
    BY <1>1 DEF TypeOK, Steps, MutexInv, Threads, Takers, Enter, Lock
  <2>2. RingInv' /\ NoLostWakeup' /\ SlotsInv' /\ PopsWhatWasPushed'
    BY <1>1 DEF TypeOK, RingInv, NoLostWakeup, SlotsInv, PopsWhatWasPushed, Threads, Takers, Enter, Lock
  <2> QED BY <2>1, <2>2
<1>2. ASSUME NEW t \in Pushers, Push_Full(t) PROVE QueueInv'
  <2>1. TypeOK' /\ MutexInv'
    BY <1>2 DEF TypeOK, Steps, MutexInv, Threads, Takers, Push_Full, CondBroadcast, Unlock
  <2>2. RingInv' /\ NoLostWakeup' /\ SlotsInv' /\ PopsWhatWasPushed'
    BY <1>2 DEF TypeOK, RingInv, NoLostWakeup, SlotsInv, PopsWhatWasPushed, Threads, Takers, Push_Full, CondBroadcast, Unlock
  <2> QED BY <2>1, <2>2
<1>3. ASSUME NEW t \in Pushers, Push_Store(t) PROVE QueueInv'
  <2> DEFINE b == (m_back + 1) % MaxSize
  <2>1. b \in Slots /\ b = (m_front + (m_size + 1)) % MaxSize
    BY <1>3, PushSlot DEF Push_Store
  <2>2. b = IF m_back + 1 < MaxSize THEN m_back + 1 ELSE m_back + 1 - MaxSize
    BY WrapOnce DEF TypeOK
  <2>3. item[t] \in Items /\ m_back' = b /\ m_array' = [m_array EXCEPT ![b] = item[t]]
    BY <1>3 DEF TypeOK, Push_Store
  <2>4. TypeOK' /\ MutexInv'
    BY <1>3, <2>1, <2>3 DEF TypeOK, Slots, Steps, MutexInv, Threads, Takers, Push_Store, CondBroadcast, Unlock
  <2>5. RingInv'
    BY <1>3, <2>2, <2>3 DEF TypeOK, RingInv, Push_Store
  <2>6. SlotsInv'
    <3> SUFFICES ASSUME NEW i \in 1 .. (m_size + 1) PROVE m_array'[(m_front + i) % MaxSize] \in Items
      BY <1>3 DEF SlotsInv, Push_Store
    <3>1. CASE i = m_size + 1
      BY <2>1, <2>3, <3>1 DEF TypeOK
    <3>2. CASE i \in 1 .. m_size
      <4>1. (m_front + i) % MaxSize \in Slots
        <5>1. m_front \in -1 .. MaxSize - 1 /\ i \in 1 .. MaxSize
          BY <3>2 DEF TypeOK
        <5> QED BY <5>1, WrapOnce
      <4> QED BY <2>1, <2>3, <3>2, <4>1 DEF TypeOK, SlotsInv
    <3>3. m_size \in Nat BY DEF TypeOK
    <3>4. i = m_size + 1 \/ i \in 1 .. m_size BY <3>3
    <3> QED BY <3>1, <3>2, <3>4
  <2>7. NoLostWakeup' /\ PopsWhatWasPushed'
    BY <1>3 DEF TypeOK, NoLostWakeup, PopsWhatWasPushed, Threads, Takers, Push_Store, CondBroadcast, Unlock
  <2> QED BY <2>4, <2>5, <2>6, <2>7
<1>4. ASSUME NEW t \in Takers, Pop_Call(t) PROVE QueueInv'
  <2>1. TypeOK' /\ MutexInv'
    BY <1>4 DEF TypeOK, Steps, MutexInv, Threads, Takers, Pop_Call
  <2>2. RingInv' /\ NoLostWakeup' /\ SlotsInv' /\ PopsWhatWasPushed'
    BY <1>4 DEF TypeOK, RingInv, NoLostWakeup, SlotsInv, PopsWhatWasPushed, Threads, Takers, Pop_Call
  <2> QED BY <2>1, <2>2
<1>5. ASSUME NEW t \in Takers, Pop_Wait(t) PROVE QueueInv'
  <2>1. TypeOK' /\ MutexInv'
    BY <1>5 DEF TypeOK, Steps, MutexInv, Threads, Takers, Pop_Wait, CondWait, Unlock
  <2>2. RingInv' /\ NoLostWakeup' /\ SlotsInv' /\ PopsWhatWasPushed'
    BY <1>5 DEF TypeOK, RingInv, NoLostWakeup, SlotsInv, PopsWhatWasPushed, Threads, Takers, Pop_Wait, CondWait, Unlock
  <2> QED BY <2>1, <2>2
<1>6. ASSUME NEW t \in Takers, Pop_Woken(t) PROVE QueueInv'
  <2>1. TypeOK' /\ MutexInv'
    BY <1>6 DEF TypeOK, Steps, MutexInv, Threads, Takers, Pop_Woken, CondReturn, Lock
  <2>2. RingInv' /\ NoLostWakeup' /\ SlotsInv' /\ PopsWhatWasPushed'
    BY <1>6 DEF TypeOK, RingInv, NoLostWakeup, SlotsInv, PopsWhatWasPushed, Threads, Takers, Pop_Woken, CondReturn, Lock
  <2> QED BY <2>1, <2>2
<1>7. ASSUME NEW t \in Takers, Pop_Spurious(t) PROVE QueueInv'
  <2>1. TypeOK' /\ MutexInv'
    BY <1>7 DEF TypeOK, Steps, MutexInv, Threads, Takers, Pop_Spurious, CondGiveUp, Lock
  <2>2. RingInv' /\ NoLostWakeup' /\ SlotsInv' /\ PopsWhatWasPushed'
    BY <1>7 DEF TypeOK, RingInv, NoLostWakeup, SlotsInv, PopsWhatWasPushed, Threads, Takers, Pop_Spurious, CondGiveUp, Lock
  <2> QED BY <2>1, <2>2
<1>8. ASSUME NEW t \in Takers, Pop_Timeout(t) PROVE QueueInv'
  <2>1. TypeOK' /\ MutexInv'
    BY <1>8 DEF TypeOK, Steps, MutexInv, Threads, Takers, Pop_Timeout
  <2>2. RingInv' /\ NoLostWakeup' /\ SlotsInv' /\ PopsWhatWasPushed'
    BY <1>8 DEF TypeOK, RingInv, NoLostWakeup, SlotsInv, PopsWhatWasPushed, Threads, Takers, Pop_Timeout
  <2> QED BY <2>1, <2>2
<1>9. ASSUME NEW t \in Takers, Pop_TooLate(t) PROVE QueueInv'
  <2>1. TypeOK' /\ MutexInv'
    BY <1>9 DEF TypeOK, Steps, MutexInv, Threads, Takers, Pop_TooLate, Unlock
  <2>2. RingInv' /\ NoLostWakeup' /\ SlotsInv' /\ PopsWhatWasPushed'
    BY <1>9 DEF TypeOK, RingInv, NoLostWakeup, SlotsInv, PopsWhatWasPushed, Threads, Takers, Pop_TooLate, Unlock
  <2> QED BY <2>1, <2>2
<1>10. ASSUME NEW t \in Takers, Pop_Take(t) PROVE QueueInv'
  <2> DEFINE f == (m_front + 1) % MaxSize
  <2>1. /\ f \in Slots
        /\ \A i \in 1 .. (m_size - 1) : (f + i) % MaxSize = (m_front + (i + 1)) % MaxSize
    BY <1>10, PopSlot DEF Pop_Take
  <2>2. f = IF m_front + 1 < MaxSize THEN m_front + 1 ELSE m_front + 1 - MaxSize
    BY WrapOnce DEF TypeOK
  <2>3. m_array[f] \in Items
    BY <1>10 DEF TypeOK, SlotsInv, Pop_Take
  <2>4. m_front' = f /\ item' = [item EXCEPT ![t] = m_array[f]] /\ m_size' = m_size - 1 /\ m_size > 0
    BY <1>10 DEF Pop_Take
  <2>5. TypeOK' /\ MutexInv'
    BY <1>10, <2>1, <2>3, <2>4 DEF TypeOK, Slots, Steps, MutexInv, Threads, Takers, Pop_Take, Unlock
  <2>6. RingInv'
    BY <1>10, <2>2, <2>4 DEF TypeOK, RingInv, Pop_Take
  <2>7. SlotsInv'
    <3> SUFFICES ASSUME NEW i \in 1 .. (m_size - 1) PROVE m_array[(f + i) % MaxSize] \in Items
      BY <1>10, <2>4 DEF SlotsInv, Pop_Take
    <3>1. (f + i) % MaxSize = (m_front + (i + 1)) % MaxSize
      BY <2>1
    <3>2. i + 1 \in 1 .. m_size
      BY DEF TypeOK
    <3> QED BY <3>1, <3>2 DEF SlotsInv
  <2>8. NoLostWakeup' /\ PopsWhatWasPushed'
    BY <1>10, <2>3, <2>4 DEF TypeOK, NoLostWakeup, PopsWhatWasPushed, Threads, Takers, Pop_Take, Unlock
  <2> QED BY <2>5, <2>6, <2>7, <2>8
<1>11. ASSUME NEW t \in Takers, Pop_Return(t) PROVE QueueInv'
  <2>1. TypeOK' /\ MutexInv'
    BY <1>11 DEF TypeOK, Steps, MutexInv, Threads, Takers, Pop_Return
  <2>2. RingInv' /\ NoLostWakeup' /\ SlotsInv' /\ PopsWhatWasPushed'
    BY <1>11 DEF TypeOK, RingInv, NoLostWakeup, SlotsInv, PopsWhatWasPushed, Threads, Takers, Pop_Return
  <2> QED BY <2>1, <2>2
<1>12. ASSUME NEW t \in Clearers, Clear_Call(t) PROVE QueueInv'
  <2>1. TypeOK' /\ MutexInv'
    BY <1>12 DEF TypeOK, Steps, MutexInv, Threads, Takers, Clear_Call
  <2>2. RingInv' /\ NoLostWakeup' /\ SlotsInv' /\ PopsWhatWasPushed'
    BY <1>12 DEF TypeOK, RingInv, NoLostWakeup, SlotsInv, PopsWhatWasPushed, Threads, Takers, Clear_Call
  <2> QED BY <2>1, <2>2
<1>13. ASSUME NEW t \in Clearers, Clear_Reset(t) PROVE QueueInv'
  <2>1. TypeOK' /\ MutexInv'
    BY <1>13 DEF TypeOK, Steps, MutexInv, Threads, Takers, Clear_Reset, Unlock
  <2>2. RingInv' /\ NoLostWakeup' /\ SlotsInv' /\ PopsWhatWasPushed'
    BY <1>13 DEF TypeOK, RingInv, NoLostWakeup, SlotsInv, PopsWhatWasPushed, Threads, Takers, Clear_Reset, Unlock
  <2> QED BY <2>1, <2>2
<1>14. CASE UNCHANGED vars
  BY <1>14 DEF vars, TypeOK, RingInv, MutexInv, NoLostWakeup, SlotsInv, PopsWhatWasPushed
<1> QED
  BY <1>0, <1>1, <1>2, <1>3, <1>4, <1>5, <1>6, <1>7, <1>8, <1>9, <1>10, <1>11, <1>12, <1>13, <1>14 DEF Next

\* The ring, its mutex and its condition variable stay consistent.
THEOREM QueueSafe == Spec => []QueueInv
BY QueueInvInit, QueueInvStep, PTL DEF Spec

\* m_size, m_front and m_back agree at every position of the ring.
THEOREM RingConsistent == Spec => []RingInv
BY QueueSafe, PTL DEF QueueInv

\* The mutex belongs to the thread inside an operation and to no other.
THEOREM MutualExclusion == Spec => []MutexInv
BY QueueSafe, PTL DEF QueueInv

\* A thread waits on m_cond only while the queue is empty.
THEOREM WakeupsNotLost == Spec => []NoLostWakeup
BY QueueSafe, PTL DEF QueueInv

\* pop() never reads a slot that push() has not written.
THEOREM PopsOnlyPushed == Spec => []PopsWhatWasPushed
BY QueueSafe, PTL DEF QueueInv

-----------------------------------------------------------------------------
(* Refinement *)

\* A step that leaves the ring and what the poppers hold alone is a stutter.
LEMMA Stutter ==
    ASSUME UNCHANGED ring, \A c \in Takers : Taken'[c] = Taken[c]
    PROVE  UNCHANGED BQ!vars
<1>1. Contents' = Contents
  BY DEF ring, Contents
<1>2. Taken' = Taken
  BY DEF Taken
<1> QED BY <1>1, <1>2 DEF BQ!vars

\* push() appends to the contents of the ring.
LEMMA PushAppends ==
    ASSUME QueueInv, NEW t \in Pushers, Push_Store(t)
    PROVE  /\ Len(Contents) < MaxSize
           /\ Contents' = Append(Contents, item[t])
           /\ item[t] \in Items
<1> USE QueueAssumption DEF QueueInv, Goes
<1> DEFINE b == (m_back + 1) % MaxSize
<1>1. /\ b \in Slots /\ b = (m_front + (m_size + 1)) % MaxSize
      /\ \A i \in 1 .. m_size : (m_front + i) % MaxSize # b
  BY PushSlot DEF Push_Store
<1>2. /\ item[t] \in Items /\ m_array' = [m_array EXCEPT ![b] = item[t]]
      /\ m_size' = m_size + 1 /\ m_front' = m_front /\ m_size < MaxSize /\ m_size \in Nat
  BY DEF TypeOK, Push_Store
<1>3. Contents \in Seq(Items) /\ Len(Contents) = m_size
  BY <1>2 DEF Contents, SlotsInv
<1>4. \A i \in 1 .. m_size : m_array'[(m_front + i) % MaxSize] = m_array[(m_front + i) % MaxSize]
  <2> SUFFICES ASSUME NEW i \in 1 .. m_size
               PROVE  m_array'[(m_front + i) % MaxSize] = m_array[(m_front + i) % MaxSize]
    OBVIOUS
  <2>1. m_front \in -1 .. MaxSize - 1 /\ i \in 1 .. MaxSize
    BY DEF TypeOK
  <2>2. (m_front + i) % MaxSize \in Slots
    BY <2>1, WrapOnce
  <2> QED BY <1>1, <1>2, <2>2 DEF TypeOK
<1>5. m_array'[b] = item[t]
  BY <1>1, <1>2 DEF TypeOK
<1>6. Contents' = [i \in 1 .. (m_size + 1) |-> m_array'[(m_front + i) % MaxSize]]
  BY <1>2 DEF Contents
<1>7. Append(Contents, item[t]) = [i \in 1 .. (m_size + 1) |-> IF i <= m_size THEN Contents[i] ELSE item[t]]
  BY <1>2, <1>3
<1>8. ASSUME NEW i \in 1 .. (m_size + 1)
      PROVE  m_array'[(m_front + i) % MaxSize] = IF i <= m_size THEN Contents[i] ELSE item[t]
  <2>1. CASE i = m_size + 1
    BY <1>1, <1>2, <1>5, <2>1
  <2>2. CASE i \in 1 .. m_size
    BY <1>4, <2>2 DEF Contents
  <2> QED BY <1>2, <2>1, <2>2
<1> QED BY <1>2, <1>3, <1>6, <1>7, <1>8

\* pop() takes the head of the contents of the ring.
LEMMA PopTakesHead ==
    ASSUME QueueInv, NEW t \in Takers, Pop_Take(t)
    PROVE  /\ Contents # <<>>
           /\ Contents' = Tail(Contents)
           /\ item' = [item EXCEPT ![t] = Head(Contents)]
<1> USE QueueAssumption DEF QueueInv
<1> DEFINE f == (m_front + 1) % MaxSize
<1>1. \A i \in 1 .. (m_size - 1) : (f + i) % MaxSize = (m_front + (i + 1)) % MaxSize
  BY PopSlot DEF Pop_Take
<1>2. /\ m_front' = f /\ m_array' = m_array /\ m_size' = m_size - 1
      /\ m_size > 0 /\ m_size \in Nat /\ item' = [item EXCEPT ![t] = m_array[f]]
  BY DEF TypeOK, Pop_Take
<1>3. Contents \in Seq(Items) /\ Len(Contents) = m_size
  BY <1>2 DEF Contents, SlotsInv
<1>4. Head(Contents) = m_array[f] /\ Contents # <<>>
  BY <1>2, <1>3 DEF Contents
<1>5. Tail(Contents) = [i \in 1 .. (m_size - 1) |-> Contents[i + 1]]
  <2>1. /\ Tail(Contents) \in Seq(Items) /\ Len(Tail(Contents)) = m_size - 1
        /\ \A i \in 1 .. (m_size - 1) : Tail(Contents)[i] = Contents[i + 1]
    BY <1>3, <1>4
  <2>2. Tail(Contents) = [i \in 1 .. (m_size - 1) |-> Tail(Contents)[i]]
    <3>1. PICK s \in Seq(Items) : s = Tail(Contents) BY <2>1
    <3>2. s = [i \in 1 .. Len(s) |-> s[i]] OBVIOUS
    <3> QED BY <2>1, <3>1, <3>2
  <2> QED BY <2>1, <2>2
<1>6. ASSUME NEW i \in 1 .. (m_size - 1) PROVE Contents[i + 1] = m_array[(f + i) % MaxSize]
  <2>1. i + 1 \in 1 .. m_size
    BY <1>2
  <2> QED BY <1>1, <2>1 DEF Contents
<1>7. Contents' = [i \in 1 .. (m_size - 1) |-> m_array[(f + i) % MaxSize]]
  BY <1>2 DEF Contents
<1> QED BY <1>2, <1>4, <1>5, <1>6, <1>7

\* Every step of the ring buffer is a step of the bounded queue or a stutter.
LEMMA RefineStep == QueueInv /\ QueueInv' /\ [Next]_vars => [BQ!Next]_(BQ!vars)
<1> SUFFICES ASSUME QueueInv, QueueInv', [Next]_vars PROVE [BQ!Next]_(BQ!vars)
  OBVIOUS
<1> USE QueueAssumption DEF QueueInv, Goes
<1>0. ASSUME NEW t \in Pushers, NEW x \in Items, Push_Call(t, x) PROVE UNCHANGED BQ!vars
  BY <1>0, Stutter DEF TypeOK, Threads, Takers, Taken, Push_Call
<1>1. ASSUME NEW t \in Threads, Enter(t) PROVE UNCHANGED BQ!vars
  BY <1>1, Stutter DEF TypeOK, Threads, Takers, Taken, Enter, Lock
<1>2. ASSUME NEW t \in Pushers, Push_Full(t) PROVE UNCHANGED BQ!vars
  BY <1>2, Stutter DEF TypeOK, Threads, Takers, Taken, Push_Full, CondBroadcast, Unlock
<1>3. ASSUME NEW t \in Pushers, Push_Store(t) PROVE BQ!Next
  <2>1. Len(Contents) < MaxSize /\ Contents' = Append(Contents, item[t]) /\ item[t] \in Items
    BY <1>3, PushAppends
  <2>2. Taken' = Taken
    BY <1>3 DEF TypeOK, Taken, Threads, Takers, Push_Store
  <2> QED BY <2>1, <2>2 DEF BQ!Next, BQ!Put
<1>4. ASSUME NEW t \in Takers, Pop_Call(t) PROVE UNCHANGED BQ!vars
  BY <1>4, Stutter DEF TypeOK, Threads, Takers, Taken, Pop_Call
<1>5. ASSUME NEW t \in Takers, Pop_Wait(t) PROVE UNCHANGED BQ!vars
  BY <1>5, Stutter DEF TypeOK, Threads, Takers, Taken, Pop_Wait, CondWait, Unlock
<1>6. ASSUME NEW t \in Takers, Pop_Woken(t) PROVE UNCHANGED BQ!vars
  BY <1>6, Stutter DEF TypeOK, Threads, Takers, Taken, Pop_Woken, CondReturn, Lock
<1>7. ASSUME NEW t \in Takers, Pop_Spurious(t) PROVE UNCHANGED BQ!vars
  BY <1>7, Stutter DEF TypeOK, Threads, Takers, Taken, Pop_Spurious, CondGiveUp, Lock
<1>8. ASSUME NEW t \in Takers, Pop_Timeout(t) PROVE UNCHANGED BQ!vars
  BY <1>8, Stutter DEF TypeOK, Threads, Takers, Taken, Pop_Timeout
<1>9. ASSUME NEW t \in Takers, Pop_TooLate(t) PROVE UNCHANGED BQ!vars
  BY <1>9, Stutter DEF TypeOK, Threads, Takers, Taken, Pop_TooLate, Unlock
<1>10. ASSUME NEW t \in Takers, Pop_Take(t) PROVE BQ!Next
  <2>1. /\ Contents # <<>> /\ Contents' = Tail(Contents)
        /\ item' = [item EXCEPT ![t] = Head(Contents)]
    BY <1>10, PopTakesHead
  <2>2. Taken[t] = NoItem /\ Taken' = [Taken EXCEPT ![t] = Head(Contents)]
    BY <1>10, <2>1 DEF TypeOK, Taken, Threads, Takers, Pop_Take
  <2> QED BY <2>1, <2>2 DEF BQ!Next, BQ!Take
<1>11. ASSUME NEW t \in Takers, Pop_Return(t) PROVE BQ!Next
  <2>1. Taken[t] # NoItem
    BY <1>11 DEF TypeOK, Taken, PopsWhatWasPushed, Pop_Return
  <2>2. Taken' = [Taken EXCEPT ![t] = NoItem]
    BY <1>11 DEF TypeOK, Taken, Threads, Takers, Pop_Return
  <2>3. Contents' = Contents
    BY <1>11 DEF ring, Contents, Pop_Return
  <2> QED BY <2>1, <2>2, <2>3 DEF BQ!Next, BQ!GiveUp
<1>12. ASSUME NEW t \in Clearers, Clear_Call(t) PROVE UNCHANGED BQ!vars
  BY <1>12, Stutter DEF TypeOK, Threads, Takers, Taken, Clear_Call
<1>13. ASSUME NEW t \in Clearers, Clear_Reset(t) PROVE BQ!Next
  <2>1. Contents' = <<>>
    BY <1>13 DEF Contents, Clear_Reset
  <2>2. Taken' = Taken
    BY <1>13 DEF TypeOK, Taken, Threads, Takers, Clear_Reset
  <2> QED BY <2>1, <2>2 DEF BQ!Next, BQ!Clear
<1>14. CASE UNCHANGED vars
  BY <1>14, Stutter DEF vars, Taken
<1> QED
  BY <1>0, <1>1, <1>2, <1>3, <1>4, <1>5, <1>6, <1>7, <1>8, <1>9, <1>10, <1>11, <1>12, <1>13, <1>14 DEF Next

\* The ring buffer of block_queue.h implements a bounded first-in first-out queue.
THEOREM RefinesBoundedQueue == Spec => ImplementsBoundedQueue
<1>1. Init => BQ!Init
  <2> SUFFICES ASSUME Init PROVE BQ!Init
    OBVIOUS
  <2>1. Contents = <<>>
    BY DEF Init, Contents
  <2>2. Taken = [c \in Takers |-> NoItem]
    BY DEF Init, Taken, Threads, Takers
  <2> QED BY <2>1, <2>2 DEF BQ!Init
<1> QED
  BY <1>1, QueueSafe, RefineStep, PTL DEF Spec, ImplementsBoundedQueue, BQ!Spec

=============================================================================
