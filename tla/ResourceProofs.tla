--------------------------- MODULE ResourceProofs ---------------------------
(***************************************************************************)
(* Proofs about who holds what.                                            *)
(*                                                                         *)
(* ConnectionPool: for any finite sets of users and of connections, with   *)
(* signals at any moment and with or without a thread that destroys the    *)
(* pool.                                                                   *)
(*                                                                         *)
(* SharedPtr: for any finite set of SharedPtr objects and any set of       *)
(* resources.                                                              *)
(***************************************************************************)
EXTENDS ConnectionPool, SharedPtr, FiniteSetTheorems, TLAPS

-----------------------------------------------------------------------------
(* Lists without repetition *)

\* pop_front() on a list without repetition takes out its first element.
LEMMA TailOfInjective ==
    ASSUME NEW S, NEW s \in Seq(S), s # <<>>, IsInjective(s)
    PROVE  /\ Tail(s) \in Seq(S)
           /\ Len(Tail(s)) = Len(s) - 1
           /\ Head(s) \in S
           /\ IsInjective(Tail(s))
           /\ Range(Tail(s)) = Range(s) \ {Head(s)}
<1>1. /\ Len(s) \in Nat /\ Len(s) > 0
      /\ Head(s) = s[1] /\ Head(s) \in S
      /\ Tail(s) \in Seq(S)
      /\ Len(Tail(s)) = Len(s) - 1
      /\ DOMAIN s = 1 .. Len(s)
      /\ DOMAIN Tail(s) = 1 .. (Len(s) - 1)
      /\ \A i \in 1 .. (Len(s) - 1) : Tail(s)[i] = s[i + 1]
  OBVIOUS
<1>2. IsInjective(Tail(s))
  BY <1>1, SMT DEF IsInjective
<1>3. ASSUME NEW x \in Range(Tail(s)) PROVE x \in Range(s) \ {Head(s)}
  BY <1>1, SMT DEF IsInjective, Range
<1>4. ASSUME NEW x \in Range(s) \ {Head(s)} PROVE x \in Range(Tail(s))
  <2>1. PICK i \in 1 .. Len(s) : x = s[i] /\ i # 1
    BY <1>1 DEF Range
  <2>2. i - 1 \in 1 .. (Len(s) - 1) /\ Tail(s)[i - 1] = x
    BY <1>1, <2>1
  <2> QED BY <1>1, <2>2 DEF Range
<1> QED BY <1>1, <1>2, <1>3, <1>4

\* push_back() of a new element keeps a list without repetition.
LEMMA AppendToInjective ==
    ASSUME NEW S, NEW s \in Seq(S), NEW e \in S, IsInjective(s), e \notin Range(s)
    PROVE  /\ Append(s, e) \in Seq(S)
           /\ Len(Append(s, e)) = Len(s) + 1
           /\ Head(Append(s, e)) = IF s = <<>> THEN e ELSE Head(s)
           /\ IsInjective(Append(s, e))
           /\ Range(Append(s, e)) = Range(s) \cup {e}
<1>1. /\ Len(s) \in Nat
      /\ Append(s, e) \in Seq(S)
      /\ Len(Append(s, e)) = Len(s) + 1
      /\ DOMAIN s = 1 .. Len(s)
      /\ DOMAIN Append(s, e) = 1 .. (Len(s) + 1)
      /\ \A i \in 1 .. Len(s) : Append(s, e)[i] = s[i]
      /\ Append(s, e)[Len(s) + 1] = e
  OBVIOUS
<1>2. IsInjective(Append(s, e))
  BY <1>1, SMT DEF IsInjective, Range
<1>3. ASSUME NEW x \in Range(Append(s, e)) PROVE x \in Range(s) \cup {e}
  BY <1>1, SMT DEF Range
<1>4. ASSUME NEW x \in Range(s) \cup {e} PROVE x \in Range(Append(s, e))
  <2>1. CASE x = e
    <3>1. Len(s) + 1 \in DOMAIN Append(s, e) BY <1>1
    <3> QED BY <1>1, <2>1, <3>1 DEF Range
  <2>2. CASE x \in Range(s)
    <3>1. PICK i \in 1 .. Len(s) : x = s[i] BY <1>1, <2>2 DEF Range
    <3>2. i \in DOMAIN Append(s, e) /\ Append(s, e)[i] = x BY <1>1, <3>1
    <3> QED BY <3>2 DEF Range
  <2> QED BY <2>1, <2>2
<1>5. Head(Append(s, e)) = IF s = <<>> THEN e ELSE Head(s)
  BY <1>1, SMT
<1> QED BY <1>1, <1>2, <1>3, <1>4, <1>5

-----------------------------------------------------------------------------
(* The loans *)

\* A step that touches neither the list nor a borrowed connection keeps the loans.
LEMMA LoanKept ==
    ASSUME ExclusiveLoan, ~crashed, UNCHANGED conn_list, Destroyed' = Destroyed,
           Borrowing' = Borrowing, \A v \in Borrowing : conn'[v] = conn[v]
    PROVE  ExclusiveLoan'
<1>1. {conn'[v] : v \in Borrowing'} = {conn[v] : v \in Borrowing}
  OBVIOUS
<1> QED BY <1>1 DEF ExclusiveLoan

\* The pool is destroyed by the second step of DestroyPool(), for good.
LEMMA DestroyedStep ==
    ASSUME TypeOK
    PROVE  /\ UNCHANGED destroyAt => Destroyed' = Destroyed
           /\ \A d \in Destroyers : Destroy_Call(d) \/ Destroy_Lock(d) => Destroyed' = Destroyed
           /\ \A d \in Destroyers :
                Destroy_Clear(d) \/ Destroy_Unlock(d) \/ Destroy_UnlockAgain(d) => Destroyed'
<1> USE DEF DestroyerGoes
<1>1. UNCHANGED destroyAt => Destroyed' = Destroyed
  BY DEF Destroyed
<1>2. ASSUME NEW d \in Destroyers, Destroy_Call(d) \/ Destroy_Lock(d) PROVE Destroyed' = Destroyed
  BY <1>2 DEF TypeOK, Destroy_Call, Destroy_Lock, Destroyed
<1>3. ASSUME NEW d \in Destroyers,
             Destroy_Clear(d) \/ Destroy_Unlock(d) \/ Destroy_UnlockAgain(d)
      PROVE  Destroyed'
  <2>1. destroyAt'[d] \notin {"out", "start", "clear"}
    BY <1>3 DEF TypeOK, Destroy_Clear, Destroy_Unlock, Destroy_UnlockAgain
  <2> QED BY <2>1 DEF Destroyed
<1> QED BY <1>1, <1>2, <1>3

\* init() leaves every connection in the list.
LEMMA LoanInvInit == Init => LoanInv
<1> SUFFICES ASSUME Init PROVE LoanInv
  OBVIOUS
<1> USE ConnAssumption
<1>1. Cardinality(Conns) \in Nat
  BY FS_CardinalityType
<1>2. conn_list \in Seq(Conns) /\ IsInjective(conn_list) /\ Range(conn_list) = Conns
  <2>1. conn_list \in [1 .. Cardinality(Conns) -> Conns] /\ IsInjective(conn_list)
    BY DEF Init, Bijection, Injection
  <2>2. \A t \in Conns : \E s \in 1 .. Cardinality(Conns) : conn_list[s] = t
    BY DEF Init, Bijection, Surjection
  <2>3. conn_list \in Seq(Conns)
    BY <1>1, <2>1
  <2> QED BY <2>1, <2>2, <2>3 DEF Range
<1>3. TypeOK
  <2>1. m_free_conn \in Int /\ m_cur_conn \in Int /\ reserve \in Nat
    BY <1>1 DEF Init
  <2>2. /\ lock \in Users \cup Destroyers \cup {NoThread}
        /\ userAt \in [Users -> UserSteps]
        /\ conn \in [Users -> Conns \cup {NoConn}]
        /\ destroyAt \in [Destroyers -> DestroySteps]
        /\ closed \in SUBSET Conns
    BY DEF Init, UserSteps, DestroySteps
  <2>3. waitResult \in [Users -> BOOLEAN] /\ crashed \in BOOLEAN /\ interrupted \in BOOLEAN
    BY Zenon DEF Init
  <2> QED BY <1>2, <2>1, <2>2, <2>3 DEF TypeOK
<1>4. MutexInv /\ LocalInv
  BY DEF Init, MutexInv, LocalInv
<1>5. Borrowing = {}
  BY DEF Init, Borrowing
<1>6. ExclusiveLoan
  BY <1>2, <1>5 DEF Init, ExclusiveLoan
<1> QED BY <1>3, <1>4, <1>6 DEF LoanInv

\* Every step preserves LoanInv.
LEMMA LoanInvStep == LoanInv /\ [Next]_vars => LoanInv'
<1> SUFFICES ASSUME LoanInv, [Next]_vars PROVE LoanInv'
  OBVIOUS
<1> USE ConnAssumption DEF LoanInv
<1> USE DEF UserGoes, DestroyerGoes, listVars
<1>1. ASSUME NEW u \in Users, Get_Null(u) PROVE LoanInv'
  <2>1. Destroyed' = Destroyed
    BY <1>1, DestroyedStep DEF Get_Null
  <2>2. TypeOK'
    BY <1>1 DEF TypeOK, UserSteps, Get_Null
  <2>3. MutexInv' /\ LocalInv'
    BY <1>1, <2>1 DEF TypeOK, MutexInv, LocalInv, Get_Null
  <2>4. /\ ~crashed /\ UNCHANGED conn_list /\ Borrowing' = Borrowing
        /\ \A v \in Borrowing : conn'[v] = conn[v]
    BY <1>1 DEF TypeOK, LocalInv, Borrowing, Get_Null
  <2> QED BY <2>1, <2>2, <2>3, <2>4, LoanKept
<1>2. ASSUME NEW u \in Users, Get_Try(u) PROVE LoanInv'
  <2>1. Destroyed' = Destroyed
    BY <1>2, DestroyedStep DEF Get_Try
  <2>2. TypeOK'
    BY <1>2 DEF TypeOK, UserSteps, Get_Try
  <2>3. MutexInv' /\ LocalInv'
    BY <1>2, <2>1 DEF TypeOK, MutexInv, LocalInv, Get_Try
  <2>4. /\ ~crashed /\ UNCHANGED conn_list /\ Borrowing' = Borrowing
        /\ \A v \in Borrowing : conn'[v] = conn[v]
    BY <1>2 DEF TypeOK, LocalInv, Borrowing, Get_Try
  <2> QED BY <2>1, <2>2, <2>3, <2>4, LoanKept
<1>3. ASSUME NEW u \in Users, Get_Wait(u) PROVE LoanInv'
  <2>1. Destroyed' = Destroyed
    BY <1>3, DestroyedStep DEF Get_Wait
  <2>2. TypeOK'
    BY <1>3 DEF TypeOK, UserSteps, Get_Wait, SemWait
  <2>3. MutexInv' /\ LocalInv'
    BY <1>3, <2>1 DEF TypeOK, MutexInv, LocalInv, Get_Wait, SemWait
  <2>4. /\ ~crashed /\ UNCHANGED conn_list /\ Borrowing' = Borrowing
        /\ \A v \in Borrowing : conn'[v] = conn[v]
    BY <1>3 DEF TypeOK, LocalInv, Borrowing, Get_Wait, SemWait
  <2> QED BY <2>1, <2>2, <2>3, <2>4, LoanKept
<1>4. ASSUME NEW u \in Users, Get_Sleep(u) PROVE LoanInv'
  <2>1. Destroyed' = Destroyed
    BY <1>4, DestroyedStep DEF Get_Sleep
  <2>2. TypeOK'
    BY <1>4 DEF TypeOK, UserSteps, Get_Sleep, SemBlock
  <2>3. MutexInv' /\ LocalInv'
    BY <1>4, <2>1 DEF TypeOK, MutexInv, LocalInv, Get_Sleep, SemBlock
  <2>4. /\ ~crashed /\ UNCHANGED conn_list /\ Borrowing' = Borrowing
        /\ \A v \in Borrowing : conn'[v] = conn[v]
    BY <1>4 DEF TypeOK, LocalInv, Borrowing, Get_Sleep, SemBlock
  <2> QED BY <2>1, <2>2, <2>3, <2>4, LoanKept
<1>5. ASSUME NEW u \in Users, Get_Interrupted(u) PROVE LoanInv'
  <2>1. Destroyed' = Destroyed
    BY <1>5, DestroyedStep DEF Get_Interrupted
  <2>2. TypeOK'
    BY <1>5 DEF TypeOK, UserSteps, Get_Interrupted, SemInterrupted
  <2>3. MutexInv' /\ LocalInv'
    BY <1>5, <2>1 DEF TypeOK, MutexInv, LocalInv, Get_Interrupted, SemInterrupted
  <2>4. /\ ~crashed /\ UNCHANGED conn_list /\ Borrowing' = Borrowing
        /\ \A v \in Borrowing : conn'[v] = conn[v]
    BY <1>5 DEF TypeOK, LocalInv, Borrowing, Get_Interrupted, SemInterrupted
  <2> QED BY <2>1, <2>2, <2>3, <2>4, LoanKept
<1>6. ASSUME NEW u \in Users, Get_Lock(u) PROVE LoanInv'
  <2>1. Destroyed' = Destroyed
    BY <1>6, DestroyedStep DEF Get_Lock
  <2>2. TypeOK'
    BY <1>6 DEF TypeOK, UserSteps, Get_Lock, Lock
  <2>3. MutexInv' /\ LocalInv'
    BY <1>6, <2>1 DEF TypeOK, MutexInv, LocalInv, Get_Lock, Lock
  <2>4. /\ ~crashed /\ UNCHANGED conn_list /\ Borrowing' = Borrowing
        /\ \A v \in Borrowing : conn'[v] = conn[v]
    BY <1>6 DEF TypeOK, LocalInv, Borrowing, Get_Lock, Lock
  <2> QED BY <2>1, <2>2, <2>3, <2>4, LoanKept
<1>7. ASSUME NEW u \in Users, Get_Front(u) PROVE LoanInv'
  <2>1. Destroyed' = Destroyed
    BY <1>7, DestroyedStep DEF Get_Front
  <2>2. TypeOK'
    BY <1>7 DEF TypeOK, UserSteps, Get_Front
  <2>3. MutexInv' /\ LocalInv'
    BY <1>7, <2>1 DEF TypeOK, MutexInv, LocalInv, Get_Front
  <2>4. /\ ~crashed /\ UNCHANGED conn_list /\ Borrowing' = Borrowing
        /\ \A v \in Borrowing : conn'[v] = conn[v]
    BY <1>7 DEF TypeOK, LocalInv, Borrowing, Get_Front
  <2> QED BY <2>1, <2>2, <2>3, <2>4, LoanKept
<1>8. ASSUME NEW u \in Users, Get_Pop(u) PROVE LoanInv'
  <2>1. Destroyed' = Destroyed
    BY <1>8, DestroyedStep DEF Get_Pop
  <2>2. TypeOK'
    <3>1. conn_list' \in Seq(Conns)
      BY <1>8 DEF TypeOK, Get_Pop
    <3> QED BY <1>8, <3>1 DEF TypeOK, UserSteps, Get_Pop, Unlock
  <2>3. MutexInv' /\ LocalInv'
    BY <1>8, <2>1 DEF TypeOK, MutexInv, LocalInv, Get_Pop, Unlock
  <2>4. CASE conn_list = <<>> \/ Destroyed
    BY <1>8, <2>1, <2>2, <2>3, <2>4 DEF ExclusiveLoan, Get_Pop
  <2>5. CASE conn_list # <<>> /\ ~Destroyed
    <3>1. ~crashed /\ ~crashed' /\ conn' = conn /\ conn_list' = Tail(conn_list)
      BY <1>8, <2>5 DEF Get_Pop, Unlock
    <3>2. /\ conn[u] = Head(conn_list)
          /\ IsInjective(conn_list')
          /\ Range(conn_list') = Range(conn_list) \ {conn[u]}
          /\ conn[u] \in Conns
      BY <1>8, <2>5, <3>1, TailOfInjective DEF TypeOK, LocalInv, ExclusiveLoan, Get_Pop
    <3>3. conn[u] \in Range(conn_list)
      <4>1. 1 \in DOMAIN conn_list /\ Head(conn_list) = conn_list[1]
        BY <2>5 DEF TypeOK
      <4> QED BY <3>2, <4>1 DEF Range
    <3>4. u \notin Borrowing /\ Borrowing' = Borrowing \cup {u}
      BY <1>8, <3>2 DEF TypeOK, Borrowing, Get_Pop
    <3>5. ExclusiveLoan'
      BY <2>5, <3>1, <3>2, <3>3, <3>4 DEF ExclusiveLoan
    <3> QED BY <2>2, <2>3, <3>5
  <2> QED BY <2>4, <2>5
<1>9. ASSUME NEW u \in Users, Release_Null(u) PROVE LoanInv'
  <2>1. Destroyed' = Destroyed
    BY <1>9, DestroyedStep DEF Release_Null
  <2>2. TypeOK'
    BY <1>9 DEF TypeOK, UserSteps, Release_Null
  <2>3. MutexInv' /\ LocalInv'
    BY <1>9, <2>1 DEF TypeOK, MutexInv, LocalInv, Release_Null
  <2>4. /\ ~crashed /\ UNCHANGED conn_list /\ Borrowing' = Borrowing
        /\ \A v \in Borrowing : conn'[v] = conn[v]
    BY <1>9 DEF TypeOK, LocalInv, Borrowing, Release_Null
  <2> QED BY <2>1, <2>2, <2>3, <2>4, LoanKept
<1>10. ASSUME NEW u \in Users, Release_Call(u) PROVE LoanInv'
  <2>1. Destroyed' = Destroyed
    BY <1>10, DestroyedStep DEF Release_Call
  <2>2. TypeOK'
    BY <1>10 DEF TypeOK, UserSteps, Release_Call
  <2>3. MutexInv' /\ LocalInv'
    BY <1>10, <2>1 DEF TypeOK, MutexInv, LocalInv, Release_Call
  <2>4. /\ ~crashed /\ UNCHANGED conn_list /\ Borrowing' = Borrowing
        /\ \A v \in Borrowing : conn'[v] = conn[v]
    BY <1>10 DEF TypeOK, LocalInv, Borrowing, Release_Call
  <2> QED BY <2>1, <2>2, <2>3, <2>4, LoanKept
<1>11. ASSUME NEW u \in Users, Release_Lock(u) PROVE LoanInv'
  <2>1. Destroyed' = Destroyed
    BY <1>11, DestroyedStep DEF Release_Lock
  <2>2. TypeOK'
    BY <1>11 DEF TypeOK, UserSteps, Release_Lock, Lock
  <2>3. MutexInv' /\ LocalInv'
    BY <1>11, <2>1 DEF TypeOK, MutexInv, LocalInv, Release_Lock, Lock
  <2>4. /\ ~crashed /\ UNCHANGED conn_list /\ Borrowing' = Borrowing
        /\ \A v \in Borrowing : conn'[v] = conn[v]
    BY <1>11 DEF TypeOK, LocalInv, Borrowing, Release_Lock, Lock
  <2> QED BY <2>1, <2>2, <2>3, <2>4, LoanKept
<1>12. ASSUME NEW u \in Users, Release_Push(u) PROVE LoanInv'
  <2>1. Destroyed' = Destroyed
    BY <1>12, DestroyedStep DEF Release_Push
  <2>2. /\ ~crashed /\ ~crashed' /\ conn_list' = Append(conn_list, conn[u])
        /\ u \in Borrowing /\ conn[u] \in Conns
    BY <1>12 DEF TypeOK, LocalInv, Borrowing, Release_Push
  <2>3. TypeOK'
    <3>1. conn_list' \in Seq(Conns)
      BY <2>2 DEF TypeOK
    <3> QED BY <1>12, <3>1 DEF TypeOK, UserSteps, Release_Push, Unlock
  <2>4. MutexInv' /\ LocalInv'
    BY <1>12, <2>1 DEF TypeOK, MutexInv, LocalInv, Release_Push, Unlock
  <2>5. CASE Destroyed
    BY <2>1, <2>3, <2>4, <2>5 DEF ExclusiveLoan
  <2>6. CASE ~Destroyed
    <3>1. /\ IsInjective(conn_list')
          /\ Range(conn_list') = Range(conn_list) \cup {conn[u]}
      BY <2>2, <2>6, AppendToInjective DEF TypeOK, ExclusiveLoan
    <3>2. Borrowing' = Borrowing \ {u}
      BY <1>12 DEF TypeOK, Borrowing, Release_Push
    <3>3. \A v \in Borrowing' : conn'[v] = conn[v]
      BY <1>12, <3>2 DEF TypeOK, Borrowing, Release_Push
    <3>4. ExclusiveLoan'
      BY <2>2, <2>6, <3>1, <3>2, <3>3 DEF ExclusiveLoan
    <3> QED BY <2>3, <2>4, <3>4
  <2> QED BY <2>5, <2>6
<1>13. ASSUME NEW u \in Users, Release_Post(u) PROVE LoanInv'
  <2>1. Destroyed' = Destroyed
    BY <1>13, DestroyedStep DEF Release_Post
  <2>2. TypeOK'
    BY <1>13 DEF TypeOK, UserSteps, Release_Post, SemPost
  <2>3. MutexInv' /\ LocalInv'
    BY <1>13, <2>1 DEF TypeOK, MutexInv, LocalInv, Release_Post, SemPost
  <2>4. /\ ~crashed /\ UNCHANGED conn_list /\ Borrowing' = Borrowing
        /\ \A v \in Borrowing : conn'[v] = conn[v]
    BY <1>13 DEF TypeOK, LocalInv, Borrowing, Release_Post, SemPost
  <2> QED BY <2>1, <2>2, <2>3, <2>4, LoanKept
<1>14. ASSUME NEW d \in Destroyers, Destroy_Call(d) \/ Destroy_Lock(d) PROVE LoanInv'
  <2>1. Destroyed' = Destroyed
    BY <1>14, DestroyedStep
  <2>2. TypeOK'
    BY <1>14 DEF TypeOK, DestroySteps, Destroy_Call, Destroy_Lock, Lock
  <2>3. MutexInv' /\ LocalInv'
    BY <1>14, <2>1 DEF TypeOK, MutexInv, LocalInv, Destroy_Call, Destroy_Lock, Lock
  <2>4. /\ ~crashed /\ UNCHANGED conn_list /\ Borrowing' = Borrowing
        /\ \A v \in Borrowing : conn'[v] = conn[v]
    BY <1>14 DEF Borrowing, Destroy_Call, Destroy_Lock, Lock
  <2> QED BY <2>1, <2>2, <2>3, <2>4, LoanKept
<1>15. ASSUME NEW d \in Destroyers, Destroy_Clear(d) PROVE LoanInv'
  <2>1. Destroyed'
    BY <1>15, DestroyedStep
  <2>2. TypeOK'
    <3>1. conn_list' \in Seq(Conns) /\ closed' \in SUBSET Conns
      BY <1>15 DEF TypeOK, Range, Destroy_Clear
    <3> QED BY <1>15, <3>1 DEF TypeOK, DestroySteps, Destroy_Clear
  <2>3. UNCHANGED <<userAt, conn>>
    BY <1>15 DEF Destroy_Clear
  <2> QED BY <2>1, <2>2, <2>3 DEF MutexInv, LocalInv, ExclusiveLoan
<1>16. ASSUME NEW d \in Destroyers, Destroy_Unlock(d) PROVE LoanInv'
  <2>1. Destroyed'
    BY <1>16, DestroyedStep
  <2>2. TypeOK'
    BY <1>16 DEF TypeOK, DestroySteps, Destroy_Unlock, Unlock
  <2>3. UNCHANGED <<userAt, conn>>
    BY <1>16 DEF Destroy_Unlock, Unlock
  <2> QED BY <2>1, <2>2, <2>3 DEF MutexInv, LocalInv, ExclusiveLoan
<1>17. ASSUME NEW d \in Destroyers, Destroy_UnlockAgain(d) PROVE LoanInv'
  <2>1. Destroyed'
    BY <1>17, DestroyedStep
  <2>2. TypeOK'
    BY <1>17 DEF TypeOK, DestroySteps, Destroy_UnlockAgain, Unlock
  <2>3. UNCHANGED <<userAt, conn>>
    BY <1>17 DEF Destroy_UnlockAgain, Unlock
  <2> QED BY <2>1, <2>2, <2>3 DEF MutexInv, LocalInv, ExclusiveLoan
<1>18. CASE UNCHANGED vars
  BY <1>18 DEF vars, TypeOK, MutexInv, LocalInv, ExclusiveLoan, Borrowing, Destroyed
<1> QED
  BY <1>1, <1>2, <1>3, <1>4, <1>5, <1>6, <1>7, <1>8, <1>9,
     <1>10, <1>11, <1>12, <1>13, <1>14, <1>15, <1>16, <1>17, <1>18 DEF Next, UserStep, DestroyStep

\* The loans are exclusive and no connection is lost, with any number of users
\* and connections, whether signals reach the sleepers or not.
THEOREM LoanSafe == Spec => []LoanInv
BY LoanInvInit, LoanInvStep, PTL DEF Spec

-----------------------------------------------------------------------------
(* The counters and the semaphore *)

\* A step that moves one thread into or out of a counted set changes its
\* cardinality by one.
LEMMA CountOne ==
    ASSUME NEW S, NEW T, NEW x, IsFiniteSet(S), IsFiniteSet(T)
    PROVE  /\ x \notin S /\ T = S \cup {x} => Cardinality(T) = Cardinality(S) + 1
           /\ x \in S /\ T = S \ {x} => Cardinality(T) = Cardinality(S) - 1
BY FS_AddElement, FS_RemoveElement

\* The sets of users that the counters count are finite, before and after a step.
LEMMA CountedSets ==
    /\ \A S \in {Borrowing, TokenHolders, Posting} : IsFiniteSet(S) /\ Cardinality(S) \in Nat
    /\ \A S \in {Borrowing', TokenHolders', Posting'} : IsFiniteSet(S) /\ Cardinality(S) \in Nat
<1>1. \A S \in {Borrowing, TokenHolders, Posting} : S \in SUBSET Users
  BY DEF Borrowing, TokenHolders, Posting
<1>2. \A S \in {Borrowing', TokenHolders', Posting'} : S \in SUBSET Users
  BY DEF Borrowing, TokenHolders, Posting
<1>3. ASSUME NEW S \in SUBSET Users PROVE IsFiniteSet(S) /\ Cardinality(S) \in Nat
  BY ConnAssumption, FS_Subset, FS_CardinalityType
<1> QED BY <1>1, <1>2, <1>3

\* Every step keeps m_free_conn and m_cur_conn exact.
LEMMA CountersStep == LoanInv /\ CountersAgree /\ [Next]_vars => CountersAgree'
<1> SUFFICES ASSUME LoanInv, CountersAgree, [Next]_vars PROVE CountersAgree'
  OBVIOUS
<1> USE DEF UserGoes, DestroyerGoes, listVars
<1>f. /\ IsFiniteSet(Borrowing) /\ Cardinality(Borrowing) \in Nat /\ IsFiniteSet(Borrowing')
  BY CountedSets
<1>t. TypeOK /\ LocalInv
  BY DEF LoanInv
<1>1. ASSUME NEW u \in Users, Get_Null(u) PROVE CountersAgree'
  <2>1. Destroyed' = Destroyed
    BY <1>1, <1>t, DestroyedStep DEF Get_Null
  <2>2. Borrowing' = Borrowing /\ UNCHANGED <<conn_list, m_free_conn, m_cur_conn, crashed>>
    BY <1>1, <1>t DEF TypeOK, LocalInv, Borrowing, Get_Null
  <2> QED BY <2>1, <2>2 DEF CountersAgree
<1>2. ASSUME NEW u \in Users, Get_Try(u) PROVE CountersAgree'
  <2>1. Destroyed' = Destroyed
    BY <1>2, <1>t, DestroyedStep DEF Get_Try
  <2>2. Borrowing' = Borrowing /\ UNCHANGED <<conn_list, m_free_conn, m_cur_conn, crashed>>
    BY <1>2, <1>t DEF TypeOK, LocalInv, Borrowing, Get_Try
  <2> QED BY <2>1, <2>2 DEF CountersAgree
<1>3. ASSUME NEW u \in Users, Get_Wait(u) PROVE CountersAgree'
  <2>1. Destroyed' = Destroyed
    BY <1>3, <1>t, DestroyedStep DEF Get_Wait
  <2>2. Borrowing' = Borrowing /\ UNCHANGED <<conn_list, m_free_conn, m_cur_conn, crashed>>
    BY <1>3, <1>t DEF TypeOK, LocalInv, Borrowing, Get_Wait, SemWait
  <2> QED BY <2>1, <2>2 DEF CountersAgree
<1>4. ASSUME NEW u \in Users, Get_Sleep(u) PROVE CountersAgree'
  <2>1. Destroyed' = Destroyed
    BY <1>4, <1>t, DestroyedStep DEF Get_Sleep
  <2>2. Borrowing' = Borrowing /\ UNCHANGED <<conn_list, m_free_conn, m_cur_conn, crashed>>
    BY <1>4, <1>t DEF TypeOK, LocalInv, Borrowing, Get_Sleep, SemBlock
  <2> QED BY <2>1, <2>2 DEF CountersAgree
<1>5. ASSUME NEW u \in Users, Get_Interrupted(u) PROVE CountersAgree'
  <2>1. Destroyed' = Destroyed
    BY <1>5, <1>t, DestroyedStep DEF Get_Interrupted
  <2>2. Borrowing' = Borrowing /\ UNCHANGED <<conn_list, m_free_conn, m_cur_conn, crashed>>
    BY <1>5, <1>t DEF TypeOK, LocalInv, Borrowing, Get_Interrupted, SemInterrupted
  <2> QED BY <2>1, <2>2 DEF CountersAgree
<1>6. ASSUME NEW u \in Users, Get_Lock(u) PROVE CountersAgree'
  <2>1. Destroyed' = Destroyed
    BY <1>6, <1>t, DestroyedStep DEF Get_Lock
  <2>2. Borrowing' = Borrowing /\ UNCHANGED <<conn_list, m_free_conn, m_cur_conn, crashed>>
    BY <1>6, <1>t DEF TypeOK, LocalInv, Borrowing, Get_Lock, Lock
  <2> QED BY <2>1, <2>2 DEF CountersAgree
<1>7. ASSUME NEW u \in Users, Get_Front(u) PROVE CountersAgree'
  <2>1. Destroyed' = Destroyed
    BY <1>7, <1>t, DestroyedStep DEF Get_Front
  <2>2. Borrowing' = Borrowing /\ UNCHANGED <<conn_list, m_free_conn, m_cur_conn, crashed>>
    BY <1>7, <1>t DEF TypeOK, LocalInv, Borrowing, Get_Front
  <2> QED BY <2>1, <2>2 DEF CountersAgree
<1>8. ASSUME NEW u \in Users, Get_Pop(u) PROVE CountersAgree'
  <2>1. Destroyed' = Destroyed
    BY <1>8, <1>t, DestroyedStep DEF Get_Pop
  <2>2. CASE conn_list = <<>> \/ Destroyed
    BY <1>8, <2>1, <2>2 DEF Get_Pop, CountersAgree
  <2>3. CASE conn_list # <<>> /\ ~Destroyed
    <3>1. u \notin Borrowing /\ Borrowing' = Borrowing \cup {u}
      <4>1. conn[u] # NoConn
        BY <1>8, <1>t, <2>3, ConnAssumption DEF TypeOK, LocalInv, Get_Pop
      <4> QED BY <1>8, <1>t, <4>1 DEF TypeOK, Borrowing, Get_Pop
    <3>2. Cardinality(Borrowing') = Cardinality(Borrowing) + 1
      BY <1>f, <3>1, CountOne
    <3>3. /\ Len(conn_list') = Len(conn_list) - 1
          /\ m_free_conn' = m_free_conn - 1 /\ m_cur_conn' = m_cur_conn + 1
          /\ ~crashed
      BY <1>8, <1>t, <2>3 DEF TypeOK, Get_Pop
    <3> QED BY <2>3, <3>2, <3>3 DEF CountersAgree
  <2> QED BY <2>2, <2>3
<1>9. ASSUME NEW u \in Users, Release_Null(u) PROVE CountersAgree'
  <2>1. Destroyed' = Destroyed
    BY <1>9, <1>t, DestroyedStep DEF Release_Null
  <2>2. Borrowing' = Borrowing /\ UNCHANGED <<conn_list, m_free_conn, m_cur_conn, crashed>>
    BY <1>9, <1>t DEF TypeOK, LocalInv, Borrowing, Release_Null
  <2> QED BY <2>1, <2>2 DEF CountersAgree
<1>10. ASSUME NEW u \in Users, Release_Call(u) PROVE CountersAgree'
  <2>1. Destroyed' = Destroyed
    BY <1>10, <1>t, DestroyedStep DEF Release_Call
  <2>2. Borrowing' = Borrowing /\ UNCHANGED <<conn_list, m_free_conn, m_cur_conn, crashed>>
    BY <1>10, <1>t DEF TypeOK, LocalInv, Borrowing, Release_Call
  <2> QED BY <2>1, <2>2 DEF CountersAgree
<1>11. ASSUME NEW u \in Users, Release_Lock(u) PROVE CountersAgree'
  <2>1. Destroyed' = Destroyed
    BY <1>11, <1>t, DestroyedStep DEF Release_Lock
  <2>2. Borrowing' = Borrowing /\ UNCHANGED <<conn_list, m_free_conn, m_cur_conn, crashed>>
    BY <1>11, <1>t DEF TypeOK, LocalInv, Borrowing, Release_Lock, Lock
  <2> QED BY <2>1, <2>2 DEF CountersAgree
<1>12. ASSUME NEW u \in Users, Release_Push(u) PROVE CountersAgree'
  <2>1. Destroyed' = Destroyed
    BY <1>12, <1>t, DestroyedStep DEF Release_Push
  <2>2. u \in Borrowing /\ Borrowing' = Borrowing \ {u}
    BY <1>12, <1>t DEF TypeOK, LocalInv, Borrowing, Release_Push
  <2>3. Cardinality(Borrowing') = Cardinality(Borrowing) - 1
    BY <1>f, <2>2, CountOne
  <2>4. conn[u] \in Conns
    BY <1>12, <1>t DEF TypeOK, LocalInv, Release_Push
  <2>5. /\ Len(conn_list') = Len(conn_list) + 1
        /\ m_free_conn' = m_free_conn + 1 /\ m_cur_conn' = m_cur_conn - 1
        /\ ~crashed
    BY <1>12, <1>t, <2>4 DEF TypeOK, Release_Push
  <2> QED BY <2>1, <2>3, <2>5 DEF CountersAgree
<1>13. ASSUME NEW u \in Users, Release_Post(u) PROVE CountersAgree'
  <2>1. Destroyed' = Destroyed
    BY <1>13, <1>t, DestroyedStep DEF Release_Post
  <2>2. Borrowing' = Borrowing /\ UNCHANGED <<conn_list, m_free_conn, m_cur_conn, crashed>>
    BY <1>13, <1>t DEF TypeOK, LocalInv, Borrowing, Release_Post, SemPost
  <2> QED BY <2>1, <2>2 DEF CountersAgree
<1>14. ASSUME NEW d \in Destroyers, Destroy_Call(d) \/ Destroy_Lock(d) PROVE CountersAgree'
  <2>1. Destroyed' = Destroyed
    BY <1>14, <1>t, DestroyedStep
  <2>2. Borrowing' = Borrowing /\ UNCHANGED <<conn_list, m_free_conn, m_cur_conn, crashed>>
    BY <1>14 DEF Borrowing, Destroy_Call, Destroy_Lock
  <2> QED BY <2>1, <2>2 DEF CountersAgree
<1>15. ASSUME NEW d \in Destroyers,
              Destroy_Clear(d) \/ Destroy_Unlock(d) \/ Destroy_UnlockAgain(d)
       PROVE  CountersAgree'
  BY <1>15, <1>t, DestroyedStep DEF CountersAgree
<1>16. CASE UNCHANGED vars
  BY <1>16 DEF vars, CountersAgree, Borrowing, Destroyed
<1> QED
  BY <1>1, <1>2, <1>3, <1>4, <1>5, <1>6, <1>7, <1>8,
     <1>9, <1>10, <1>11, <1>12, <1>13, <1>14, <1>15, <1>16 DEF Next, UserStep, DestroyStep

\* Initially every connection is free and the semaphore counts them all.
LEMMA CountersInit == Init => CountersAgree /\ ReserveAgrees /\ CrashNeedsSignal
<1> SUFFICES ASSUME Init PROVE CountersAgree /\ ReserveAgrees /\ CrashNeedsSignal
  OBVIOUS
<1>1. Borrowing = {} /\ TokenHolders = {} /\ Posting = {}
  BY DEF Init, Borrowing, TokenHolders, Posting
<1>2. Cardinality({}) = 0
  BY FS_EmptySet
<1>3. Cardinality(Conns) \in Nat
  BY ConnAssumption, FS_CardinalityType
<1>4. Len(conn_list) = Cardinality(Conns)
  <2>1. DOMAIN conn_list = 1 .. Cardinality(Conns) /\ conn_list \in [1 .. Cardinality(Conns) -> Conns]
    BY DEF Init, Bijection, Injection
  <2>2. conn_list \in Seq(Conns)
    BY LoanInvInit DEF LoanInv, TypeOK
  <2> QED BY <1>3, <2>1, <2>2
<1> QED
  BY <1>1, <1>2, <1>3, <1>4 DEF Init, CountersAgree, ReserveAgrees, CrashNeedsSignal

\* Every step but an interrupted wait keeps the semaphore in step with the list,
\* and the unit a user took guarantees that the list it pops has an element.
LEMMA ReserveStep ==
    LoanInv /\ ReserveAgrees /\ CrashNeedsSignal /\ [Next]_vars
        => ReserveAgrees' /\ CrashNeedsSignal'
<1> SUFFICES ASSUME LoanInv, ReserveAgrees, CrashNeedsSignal, [Next]_vars
             PROVE  ReserveAgrees' /\ CrashNeedsSignal'
  OBVIOUS
<1> USE DEF UserGoes, DestroyerGoes, listVars
<1>f. /\ IsFiniteSet(TokenHolders) /\ Cardinality(TokenHolders) \in Nat /\ IsFiniteSet(TokenHolders')
      /\ IsFiniteSet(Posting) /\ Cardinality(Posting) \in Nat /\ IsFiniteSet(Posting')
      /\ Cardinality(TokenHolders') \in Nat
  BY CountedSets
<1>t. TypeOK /\ LocalInv
  BY DEF LoanInv
<1>n. reserve \in Nat /\ Len(conn_list) \in Nat
  BY <1>t DEF TypeOK
<1>1. ASSUME NEW u \in Users, Get_Null(u) PROVE ReserveAgrees' /\ CrashNeedsSignal'
  <2>1. Destroyed' = Destroyed /\ interrupted' = interrupted
    BY <1>1, <1>t, DestroyedStep DEF Get_Null
  <2>2. /\ TokenHolders' = TokenHolders /\ Posting' = Posting
        /\ UNCHANGED <<conn_list, reserve, crashed>>
    BY <1>1, <1>t DEF TypeOK, TokenHolders, Posting, Get_Null
  <2> QED BY <2>1, <2>2 DEF ReserveAgrees, CrashNeedsSignal
<1>2. ASSUME NEW u \in Users, Get_Try(u) PROVE ReserveAgrees' /\ CrashNeedsSignal'
  <2>1. Destroyed' = Destroyed /\ interrupted' = interrupted
    BY <1>2, <1>t, DestroyedStep DEF Get_Try
  <2>2. /\ TokenHolders' = TokenHolders /\ Posting' = Posting
        /\ UNCHANGED <<conn_list, reserve, crashed>>
    BY <1>2, <1>t DEF TypeOK, TokenHolders, Posting, Get_Try
  <2> QED BY <2>1, <2>2 DEF ReserveAgrees, CrashNeedsSignal
<1>3. ASSUME NEW u \in Users, Get_Wait(u) PROVE ReserveAgrees' /\ CrashNeedsSignal'
  <2>1. Destroyed' = Destroyed /\ interrupted' = interrupted
    BY <1>3, <1>t, DestroyedStep DEF Get_Wait
  <2>2. u \notin TokenHolders /\ TokenHolders' = TokenHolders \cup {u} /\ Posting' = Posting
    BY <1>3, <1>t DEF TypeOK, TokenHolders, Posting, Get_Wait
  <2>3. /\ Cardinality(TokenHolders') = Cardinality(TokenHolders) + 1
        /\ Cardinality(Posting') = Cardinality(Posting)
    BY <1>f, <2>2, CountOne
  <2>4. reserve' = reserve - 1 /\ UNCHANGED conn_list /\ ~crashed'
    BY <1>3, <1>t DEF TypeOK, Get_Wait, SemWait
  <2> QED BY <1>f, <1>n, <2>1, <2>3, <2>4 DEF ReserveAgrees, CrashNeedsSignal
<1>4. ASSUME NEW u \in Users, Get_Sleep(u) PROVE ReserveAgrees' /\ CrashNeedsSignal'
  <2>1. Destroyed' = Destroyed /\ interrupted' = interrupted
    BY <1>4, <1>t, DestroyedStep DEF Get_Sleep
  <2>2. /\ TokenHolders' = TokenHolders /\ Posting' = Posting
        /\ UNCHANGED <<conn_list, reserve, crashed>>
    BY <1>4, <1>t DEF TypeOK, TokenHolders, Posting, Get_Sleep, SemBlock
  <2> QED BY <2>1, <2>2 DEF ReserveAgrees, CrashNeedsSignal
<1>5. ASSUME NEW u \in Users, Get_Interrupted(u) PROVE ReserveAgrees' /\ CrashNeedsSignal'
  BY <1>5 DEF Get_Interrupted, ReserveAgrees, CrashNeedsSignal
<1>6. ASSUME NEW u \in Users, Get_Lock(u) PROVE ReserveAgrees' /\ CrashNeedsSignal'
  <2>1. Destroyed' = Destroyed /\ interrupted' = interrupted
    BY <1>6, <1>t, DestroyedStep DEF Get_Lock
  <2>2. /\ TokenHolders' = TokenHolders /\ Posting' = Posting
        /\ UNCHANGED <<conn_list, reserve, crashed>>
    BY <1>6, <1>t DEF TypeOK, TokenHolders, Posting, Get_Lock, Lock
  <2> QED BY <2>1, <2>2 DEF ReserveAgrees, CrashNeedsSignal
<1>7. ASSUME NEW u \in Users, Get_Front(u) PROVE ReserveAgrees' /\ CrashNeedsSignal'
  <2>1. Destroyed' = Destroyed /\ interrupted' = interrupted
    BY <1>7, <1>t, DestroyedStep DEF Get_Front
  <2>2. /\ TokenHolders' = TokenHolders /\ Posting' = Posting
        /\ UNCHANGED <<conn_list, reserve, crashed>>
    BY <1>7, <1>t DEF TypeOK, TokenHolders, Posting, Get_Front
  <2> QED BY <2>1, <2>2 DEF ReserveAgrees, CrashNeedsSignal
<1>8. ASSUME NEW u \in Users, Get_Pop(u) PROVE ReserveAgrees' /\ CrashNeedsSignal'
  <2>1. Destroyed' = Destroyed /\ interrupted' = interrupted
    BY <1>8, <1>t, DestroyedStep DEF Get_Pop
  <2>2. u \in TokenHolders /\ TokenHolders' = TokenHolders \ {u} /\ Posting' = Posting
    BY <1>8, <1>t DEF TypeOK, TokenHolders, Posting, Get_Pop
  <2>3. /\ Cardinality(TokenHolders') = Cardinality(TokenHolders) - 1
        /\ Cardinality(Posting') = Cardinality(Posting)
    BY <1>f, <2>2, CountOne
  <2>4. CASE interrupted \/ Destroyed
    BY <2>1, <2>4 DEF ReserveAgrees, CrashNeedsSignal
  <2>5. CASE ~interrupted /\ ~Destroyed
    <3>1. Len(conn_list) > 0
      BY <1>f, <1>n, <2>3, <2>5 DEF ReserveAgrees
    <3>2. Len(conn_list') = Len(conn_list) - 1 /\ reserve' = reserve /\ ~crashed'
      BY <1>8, <1>t, <3>1 DEF TypeOK, Get_Pop
    <3> QED BY <1>f, <1>n, <2>3, <2>5, <3>2 DEF ReserveAgrees, CrashNeedsSignal
  <2> QED BY <2>4, <2>5
<1>9. ASSUME NEW u \in Users, Release_Null(u) PROVE ReserveAgrees' /\ CrashNeedsSignal'
  <2>1. Destroyed' = Destroyed /\ interrupted' = interrupted
    BY <1>9, <1>t, DestroyedStep DEF Release_Null
  <2>2. /\ TokenHolders' = TokenHolders /\ Posting' = Posting
        /\ UNCHANGED <<conn_list, reserve, crashed>>
    BY <1>9, <1>t DEF TypeOK, TokenHolders, Posting, Release_Null
  <2> QED BY <2>1, <2>2 DEF ReserveAgrees, CrashNeedsSignal
<1>10. ASSUME NEW u \in Users, Release_Call(u) PROVE ReserveAgrees' /\ CrashNeedsSignal'
  <2>1. Destroyed' = Destroyed /\ interrupted' = interrupted
    BY <1>10, <1>t, DestroyedStep DEF Release_Call
  <2>2. /\ TokenHolders' = TokenHolders /\ Posting' = Posting
        /\ UNCHANGED <<conn_list, reserve, crashed>>
    BY <1>10, <1>t DEF TypeOK, TokenHolders, Posting, Release_Call
  <2> QED BY <2>1, <2>2 DEF ReserveAgrees, CrashNeedsSignal
<1>11. ASSUME NEW u \in Users, Release_Lock(u) PROVE ReserveAgrees' /\ CrashNeedsSignal'
  <2>1. Destroyed' = Destroyed /\ interrupted' = interrupted
    BY <1>11, <1>t, DestroyedStep DEF Release_Lock
  <2>2. /\ TokenHolders' = TokenHolders /\ Posting' = Posting
        /\ UNCHANGED <<conn_list, reserve, crashed>>
    BY <1>11, <1>t DEF TypeOK, TokenHolders, Posting, Release_Lock, Lock
  <2> QED BY <2>1, <2>2 DEF ReserveAgrees, CrashNeedsSignal
<1>12. ASSUME NEW u \in Users, Release_Push(u) PROVE ReserveAgrees' /\ CrashNeedsSignal'
  <2>1. Destroyed' = Destroyed /\ interrupted' = interrupted
    BY <1>12, <1>t, DestroyedStep DEF Release_Push
  <2>2. TokenHolders' = TokenHolders /\ u \notin Posting /\ Posting' = Posting \cup {u}
    BY <1>12, <1>t DEF TypeOK, TokenHolders, Posting, Release_Push
  <2>3. /\ Cardinality(TokenHolders') = Cardinality(TokenHolders)
        /\ Cardinality(Posting') = Cardinality(Posting) + 1
    BY <1>f, <2>2, CountOne
  <2>5. conn[u] \in Conns
    BY <1>12, <1>t DEF TypeOK, LocalInv, Release_Push
  <2>4. Len(conn_list') = Len(conn_list) + 1 /\ reserve' = reserve /\ ~crashed'
    BY <1>12, <1>t, <2>5 DEF TypeOK, Release_Push, Unlock
  <2> QED BY <1>f, <1>n, <2>1, <2>3, <2>4 DEF ReserveAgrees, CrashNeedsSignal
<1>13. ASSUME NEW u \in Users, Release_Post(u) PROVE ReserveAgrees' /\ CrashNeedsSignal'
  <2>1. Destroyed' = Destroyed /\ interrupted' = interrupted
    BY <1>13, <1>t, DestroyedStep DEF Release_Post
  <2>2. TokenHolders' = TokenHolders /\ u \in Posting /\ Posting' = Posting \ {u}
    BY <1>13, <1>t DEF TypeOK, TokenHolders, Posting, Release_Post
  <2>3. /\ Cardinality(TokenHolders') = Cardinality(TokenHolders)
        /\ Cardinality(Posting') = Cardinality(Posting) - 1
    BY <1>f, <2>2, CountOne
  <2>4. reserve' = reserve + 1 /\ UNCHANGED conn_list /\ ~crashed'
    BY <1>13, <1>t DEF TypeOK, Release_Post, SemPost
  <2> QED BY <1>f, <1>n, <2>1, <2>3, <2>4 DEF ReserveAgrees, CrashNeedsSignal
<1>14. ASSUME NEW d \in Destroyers, Destroy_Call(d) \/ Destroy_Lock(d) PROVE ReserveAgrees' /\ CrashNeedsSignal'
  <2>1. Destroyed' = Destroyed
    BY <1>14, <1>t, DestroyedStep
  <2>2. /\ TokenHolders' = TokenHolders /\ Posting' = Posting
        /\ UNCHANGED <<conn_list, reserve, crashed, interrupted>>
    BY <1>14 DEF TokenHolders, Posting, Destroy_Call, Destroy_Lock
  <2> QED BY <2>1, <2>2 DEF ReserveAgrees, CrashNeedsSignal
<1>15. ASSUME NEW d \in Destroyers,
              Destroy_Clear(d) \/ Destroy_Unlock(d) \/ Destroy_UnlockAgain(d)
       PROVE  ReserveAgrees' /\ CrashNeedsSignal'
  BY <1>15, <1>t, DestroyedStep DEF ReserveAgrees, CrashNeedsSignal
<1>16. CASE UNCHANGED vars
  BY <1>16 DEF vars, ReserveAgrees, CrashNeedsSignal, TokenHolders, Posting, Destroyed
<1> QED
  BY <1>1, <1>2, <1>3, <1>4, <1>5, <1>6, <1>7, <1>8,
     <1>9, <1>10, <1>11, <1>12, <1>13, <1>14, <1>15, <1>16 DEF Next, UserStep, DestroyStep

-----------------------------------------------------------------------------
(* Destroying the pool under its users *)

\* Every step keeps closed connections out of the list and out of users' hands:
\* DestroyPool() closes what is in the list, which the mutex and the exclusive
\* loans keep apart from what is lent, and nothing puts a closed one back.
LEMMA CloseStep == LoanInv /\ CloseInv /\ [Next]_vars => CloseInv'
<1> SUFFICES ASSUME LoanInv, CloseInv, [Next]_vars PROVE CloseInv'
  OBVIOUS
<1> USE DEF UserGoes, DestroyerGoes, listVars
<1>t. TypeOK /\ LocalInv /\ MutexInv /\ ExclusiveLoan
  BY DEF LoanInv
<1>1. ASSUME NEW u \in Users, Get_Null(u) PROVE CloseInv'
  <2>1. Destroyed' = Destroyed /\ closed' = closed
    BY <1>1, <1>t, DestroyedStep DEF Get_Null
  <2>2. NoConn \notin closed
    BY <1>t, ConnAssumption DEF TypeOK
  <2> QED BY <1>1, <1>t, <2>1, <2>2 DEF TypeOK, CloseInv, Get_Null
<1>2. ASSUME NEW u \in Users, Get_Try(u) PROVE CloseInv'
  <2>1. Destroyed' = Destroyed /\ closed' = closed
    BY <1>2, <1>t, DestroyedStep DEF Get_Try
  <2> QED BY <1>2, <1>t, <2>1 DEF TypeOK, CloseInv, Get_Try
<1>3. ASSUME NEW u \in Users, Get_Wait(u) PROVE CloseInv'
  <2>1. Destroyed' = Destroyed /\ closed' = closed
    BY <1>3, <1>t, DestroyedStep DEF Get_Wait
  <2> QED BY <1>3, <1>t, <2>1 DEF TypeOK, CloseInv, Get_Wait, SemWait
<1>4. ASSUME NEW u \in Users, Get_Sleep(u) PROVE CloseInv'
  <2>1. Destroyed' = Destroyed /\ closed' = closed
    BY <1>4, <1>t, DestroyedStep DEF Get_Sleep
  <2> QED BY <1>4, <1>t, <2>1 DEF TypeOK, CloseInv, Get_Sleep, SemBlock
<1>5. ASSUME NEW u \in Users, Get_Interrupted(u) PROVE CloseInv'
  <2>1. Destroyed' = Destroyed /\ closed' = closed
    BY <1>5, <1>t, DestroyedStep DEF Get_Interrupted
  <2> QED BY <1>5, <1>t, <2>1 DEF TypeOK, CloseInv, Get_Interrupted, SemInterrupted
<1>6. ASSUME NEW u \in Users, Get_Lock(u) PROVE CloseInv'
  <2>1. Destroyed' = Destroyed /\ closed' = closed
    BY <1>6, <1>t, DestroyedStep DEF Get_Lock
  <2> QED BY <1>6, <1>t, <2>1 DEF TypeOK, CloseInv, Get_Lock, Lock
<1>7. ASSUME NEW u \in Users, Get_Front(u) PROVE CloseInv'
  <2>1. Destroyed' = Destroyed /\ closed' = closed
    BY <1>7, <1>t, DestroyedStep DEF Get_Front
  <2>2. conn'[u] = IF conn_list = <<>> THEN NoConn ELSE Head(conn_list)
    BY <1>7, <1>t DEF TypeOK, Get_Front
  <2>3. conn'[u] \notin closed
    <3>1. CASE conn_list = <<>>
      BY <1>t, <2>2, <3>1, ConnAssumption DEF TypeOK
    <3>2. CASE conn_list # <<>>
      <4>1. 1 \in DOMAIN conn_list /\ Head(conn_list) = conn_list[1]
        BY <1>t, <3>2 DEF TypeOK
      <4> QED BY <2>2, <3>2, <4>1 DEF CloseInv, Range
    <3> QED BY <3>1, <3>2
  <2> QED BY <1>7, <1>t, <2>1, <2>3 DEF TypeOK, CloseInv, Get_Front
<1>8. ASSUME NEW u \in Users, Get_Pop(u) PROVE CloseInv'
  <2>1. Destroyed' = Destroyed /\ closed' = closed
    BY <1>8, <1>t, DestroyedStep DEF Get_Pop
  <2>2. Range(conn_list') \subseteq Range(conn_list)
    <3>1. CASE conn_list = <<>>
      BY <1>8, <3>1 DEF Get_Pop
    <3>2. CASE conn_list # <<>>
      <4>1. /\ conn_list' = Tail(conn_list) /\ Len(conn_list) \in Nat
            /\ DOMAIN conn_list = 1 .. Len(conn_list)
            /\ DOMAIN Tail(conn_list) = 1 .. (Len(conn_list) - 1)
            /\ \A i \in 1 .. (Len(conn_list) - 1) : Tail(conn_list)[i] = conn_list[i + 1]
        BY <1>8, <1>t, <3>2 DEF TypeOK, Get_Pop
      <4> QED BY <4>1, SMT DEF Range
    <3> QED BY <3>1, <3>2
  <2>3. \A v \in Users : conn'[v] = conn[v] /\ (v # u => userAt'[v] = userAt[v])
    BY <1>8, <1>t DEF TypeOK, Get_Pop
  <2>4. userAt[u] = "pop"
    BY <1>8 DEF Get_Pop
  <2> QED BY <2>1, <2>2, <2>3, <2>4 DEF CloseInv
<1>9. ASSUME NEW u \in Users, Release_Null(u) PROVE CloseInv'
  <2>1. Destroyed' = Destroyed /\ closed' = closed
    BY <1>9, <1>t, DestroyedStep DEF Release_Null
  <2> QED BY <1>9, <1>t, <2>1 DEF TypeOK, CloseInv, Release_Null
<1>10. ASSUME NEW u \in Users, Release_Call(u) PROVE CloseInv'
  <2>1. Destroyed' = Destroyed /\ closed' = closed
    BY <1>10, <1>t, DestroyedStep DEF Release_Call
  <2> QED BY <1>10, <1>t, <2>1 DEF TypeOK, CloseInv, Release_Call
<1>11. ASSUME NEW u \in Users, Release_Lock(u) PROVE CloseInv'
  <2>1. Destroyed' = Destroyed /\ closed' = closed
    BY <1>11, <1>t, DestroyedStep DEF Release_Lock
  <2> QED BY <1>11, <1>t, <2>1 DEF TypeOK, CloseInv, Release_Lock, Lock
<1>12. ASSUME NEW u \in Users, Release_Push(u) PROVE CloseInv'
  <2>1. Destroyed' = Destroyed /\ closed' = closed
    BY <1>12, <1>t, DestroyedStep DEF Release_Push
  <2>2. conn[u] \notin closed /\ NoConn \notin closed
    BY <1>12, <1>t, ConnAssumption DEF TypeOK, CloseInv, Release_Push
  <2>3. Range(conn_list') \subseteq Range(conn_list) \cup {conn[u]}
    <3>1. conn_list' = Append(conn_list, conn[u]) /\ conn[u] \in Conns
      BY <1>12, <1>t DEF TypeOK, LocalInv, Release_Push
    <3>2. /\ Len(conn_list) \in Nat
          /\ DOMAIN conn_list = 1 .. Len(conn_list)
          /\ DOMAIN conn_list' = 1 .. (Len(conn_list) + 1)
          /\ \A i \in 1 .. Len(conn_list) : conn_list'[i] = conn_list[i]
          /\ conn_list'[Len(conn_list) + 1] = conn[u]
      BY <1>t, <3>1 DEF TypeOK
    <3> QED BY <3>2, SMT DEF Range
  <2>4. \A v \in Users : v # u => conn'[v] = conn[v] /\ userAt'[v] = userAt[v]
    BY <1>12, <1>t DEF TypeOK, Release_Push
  <2>5. conn'[u] = NoConn
    BY <1>12, <1>t DEF TypeOK, Release_Push
  <2> QED BY <2>1, <2>2, <2>3, <2>4, <2>5 DEF CloseInv
<1>13. ASSUME NEW u \in Users, Release_Post(u) PROVE CloseInv'
  <2>1. Destroyed' = Destroyed /\ closed' = closed
    BY <1>13, <1>t, DestroyedStep DEF Release_Post
  <2> QED BY <1>13, <1>t, <2>1 DEF TypeOK, CloseInv, Release_Post, SemPost
<1>14. ASSUME NEW d \in Destroyers, Destroy_Call(d) \/ Destroy_Lock(d) PROVE CloseInv'
  <2>1. Destroyed' = Destroyed
    BY <1>14, <1>t, DestroyedStep
  <2> QED BY <1>14, <2>1 DEF CloseInv, Destroy_Call, Destroy_Lock
<1>15. ASSUME NEW d \in Destroyers, Destroy_Clear(d) PROVE CloseInv'
  <2>1. ~Destroyed /\ Destroyed'
    BY <1>15, <1>t, DestroyedStep, ConnAssumption DEF Destroyed, Destroy_Clear
  <2>2. closed' = Range(conn_list) /\ Range(conn_list') = {} /\ UNCHANGED <<userAt, conn>>
    BY <1>15, <2>1 DEF CloseInv, Destroy_Clear, Range
  <2>3. \A u \in Users : userAt[u] # "pop"
    BY <1>15, <1>t, <2>1, ConnAssumption DEF MutexInv, Destroy_Clear
  <2>4. \A u \in Users : userAt[u] \in {"using", "relock", "push"} => conn[u] \notin Range(conn_list)
    <3> SUFFICES ASSUME NEW u \in Users, userAt[u] \in {"using", "relock", "push"}
                 PROVE  conn[u] \notin Range(conn_list)
      OBVIOUS
    <3>1. CASE conn[u] = NoConn
      <4>1. Range(conn_list) \subseteq Conns
        BY <1>t DEF TypeOK, Range
      <4> QED BY <3>1, <4>1, ConnAssumption
    <3>2. CASE conn[u] # NoConn
      BY <1>15, <1>t, <2>1, <3>2 DEF ExclusiveLoan, Borrowing, Destroy_Clear
    <3> QED BY <3>1, <3>2
  <2> QED BY <2>1, <2>2, <2>3, <2>4 DEF CloseInv
<1>16. ASSUME NEW d \in Destroyers, Destroy_Unlock(d) \/ Destroy_UnlockAgain(d) PROVE CloseInv'
  <2>1. Destroyed'
    BY <1>16, <1>t, DestroyedStep
  <2>2. UNCHANGED <<conn_list, closed, userAt, conn>>
    BY <1>16 DEF Destroy_Unlock, Destroy_UnlockAgain
  <2> QED BY <2>1, <2>2 DEF CloseInv
<1>17. CASE UNCHANGED vars
  BY <1>17 DEF vars, CloseInv, Destroyed
<1> QED
  BY <1>1, <1>2, <1>3, <1>4, <1>5, <1>6, <1>7, <1>8,
     <1>9, <1>10, <1>11, <1>12, <1>13, <1>14, <1>15, <1>16, <1>17 DEF Next, UserStep, DestroyStep

\* Nothing is closed when the pool has just been made.
LEMMA CloseInit == Init => CloseInv
BY DEF Init, CloseInv

-----------------------------------------------------------------------------
(* The theorems *)

\* Every variable of the pool keeps its type.
THEOREM TypeCorrect == Spec => []TypeOK
BY LoanSafe, PTL DEF LoanInv

\* Until the pool is destroyed the mutex belongs to the thread inside a critical
\* section of GetConnection(), ReleaseConnection() or DestroyPool(), and to no
\* other.
THEOREM MutualExclusion == Spec => []MutexInv
BY LoanSafe, PTL DEF LoanInv

\* No two users hold the same connection and none is lost, signals or not.
THEOREM LoansAreExclusive == Spec => []ExclusiveLoan
BY LoanSafe, PTL DEF LoanInv

\* m_free_conn and m_cur_conn are exact in every state before the destruction.
THEOREM CountersExact == Spec => []CountersAgree
BY LoanSafe, CountersInit, CountersStep, PTL DEF Spec

\* Until a signal ends a wait the semaphore counts the connections in the list ...
THEOREM ReserveExact == Spec => []ReserveAgrees
BY LoanSafe, CountersInit, ReserveStep, PTL DEF Spec

\* ... and so GetConnection() pops an empty list only after a signal ended a wait
\* or the pool was destroyed.
THEOREM EmptyPopNeedsSignal == Spec => []CrashNeedsSignal
BY LoanSafe, CountersInit, ReserveStep, PTL DEF Spec

\* DestroyPool() never closes a connection under a worker that uses it, and no
\* worker gets a closed one.
THEOREM NoClosedLoan == Spec => []NoUseAfterClose
<1>1. CloseInv => NoUseAfterClose
  BY DEF CloseInv, NoUseAfterClose, Borrowing
<1> QED BY <1>1, LoanSafe, CloseInit, CloseStep, PTL DEF Spec

-----------------------------------------------------------------------------
(* SharedPtr: the inductive invariant *)

Running(p) == call[p] \in {"clean", "delete", "cleaned", "add"}

\* A call that copies or moves has an argument, at rest while the call runs; one
\* that has read it (at "add") holds the same block; one that will move from it
\* has it to itself.
ArgumentAtRest ==
    \A p \in Ptrs :
        /\ Running(p) /\ goal[p] \in {"copy", "move"} => other[p] # NoPtr
        /\ other[p] # NoPtr => /\ Running(p) /\ goal[p] \in {"copy", "move"}
                               /\ other[p] # p
                               /\ call[other[p]] = "idle"
        /\ call[p] = "add" => goal[p] = "copy" /\ ref[p] = ref[other[p]]
        /\ other[p] # NoPtr /\ goal[p] = "move" => \A r \in Ptrs : other[r] = other[p] => r = p

\* The object whose call took the count to 0 is the only one that refers to the
\* block; an object that is cleaned or not constructed refers to none.
LastHolder ==
    \A p \in Ptrs :
        /\ call[p] \in {"none", "cleaned"} => ref[p] = NoBlock
        /\ call[p] = "delete" => /\ ref[p] # NoBlock
                                 /\ \A r \in Ptrs : ref[r] = ref[p] => r = p

\* A raw pointer on its way into reset() is managed by nobody.
GivenOnce ==
    \A p \in Ptrs : given[p] # NoBlock =>
        /\ block[given[p]] = "given"
        /\ \A r \in Ptrs : given[r] = given[p] => r = p

Structure == PtrTypeOK /\ NoDangling /\ ArgumentAtRest /\ LastHolder /\ GivenOnce /\ NoLeak

PtrInv == Structure /\ CountRight

-----------------------------------------------------------------------------
(* Counting holders *)

LEMMA HoldersFinite ==
    ASSUME NEW b
    PROVE  /\ IsFiniteSet(Holders(b))
           /\ Holders(b) \subseteq Ptrs
           /\ Cardinality(Holders(b)) \in Nat
<1>1. Holders(b) \subseteq Ptrs BY DEF Holders
<1> QED BY <1>1, SharedPtrAssumption, FS_Subset, FS_CardinalityType

\* A finite set that gains, loses or exchanges an element.
LEMMA CountPlus ==
    ASSUME NEW S, IsFiniteSet(S), NEW x, x \notin S
    PROVE  Cardinality(S \cup {x}) = Cardinality(S) + 1
BY FS_AddElement

LEMMA CountMinus ==
    ASSUME NEW S, IsFiniteSet(S), NEW x, x \in S
    PROVE  Cardinality(S \ {x}) = Cardinality(S) - 1
BY FS_RemoveElement

LEMMA CountExchange ==
    ASSUME NEW S, IsFiniteSet(S), NEW x, NEW y, x \in S, y \notin S
    PROVE  Cardinality((S \ {x}) \cup {y}) = Cardinality(S)
<1>1. Cardinality(S \ {x}) = Cardinality(S) - 1 BY FS_RemoveElement
<1>2. IsFiniteSet(S \ {x}) /\ y \notin S \ {x} BY FS_RemoveElement
<1>3. Cardinality((S \ {x}) \cup {y}) = Cardinality(S \ {x}) + 1 BY <1>2, FS_AddElement
<1>4. Cardinality(S) \in Nat BY FS_CardinalityType
<1> QED BY <1>1, <1>3, <1>4

LEMMA CountSingle == ASSUME NEW x PROVE Cardinality({x}) = 1
BY FS_Singleton

\* A counter of 1 has one holder.
LEMMA OnlyHolder ==
    ASSUME CountRight, NEW b \in Blocks, count[b] = 1, NEW p \in Holders(b)
    PROVE  Holders(b) = {p}
<1>1. Cardinality(Holders(b)) = 1 BY DEF CountRight
<1>2. PICK x : Holders(b) = {x} BY <1>1, HoldersFinite, FS_Singleton
<1> QED BY <1>2

-----------------------------------------------------------------------------
(* Every step keeps the structure *)

LEMMA StructureInit == PtrInit => PtrInv
<1> SUFFICES ASSUME PtrInit PROVE PtrInv OBVIOUS
<1>1. Structure
  BY SharedPtrAssumption DEF PtrInit, Structure, PtrTypeOK, NoDangling, ArgumentAtRest, LastHolder,
     GivenOnce, NoLeak, Running
<1>2. ASSUME NEW b \in Blocks PROVE count[b] = Cardinality(Holders(b))
  <2>1. Holders(b) = {} BY SharedPtrAssumption DEF PtrInit, Holders
  <2> QED BY <2>1, FS_EmptySet DEF PtrInit
<1> QED BY <1>1, <1>2 DEF PtrInv, CountRight

LEMMA StructureStep ==
    ASSUME PtrInv, PtrNext
    PROVE  Structure'
<1> USE SharedPtrAssumption DEF PtrInv, Structure, PtrTypeOK
<1>1. ASSUME NEW p \in Ptrs, Construct(p) PROVE Structure'
  <2>1. PtrTypeOK' BY <1>1 DEF Construct
  <2>2. NoDangling' BY <1>1 DEF Construct, NoDangling, ArgumentAtRest, LastHolder, GivenOnce
  <2>3. ArgumentAtRest' BY <1>1 DEF Construct, ArgumentAtRest, LastHolder, Running
  <2>4. LastHolder' BY <1>1 DEF Construct, LastHolder, ArgumentAtRest, NoDangling, GivenOnce
  <2>5. GivenOnce' BY <1>1 DEF Construct, GivenOnce, NoDangling
  <2>6. NoLeak' BY <1>1 DEF Construct, NoLeak, NoDangling, ArgumentAtRest, LastHolder, GivenOnce
  <2> QED BY <2>1, <2>2, <2>3, <2>4, <2>5, <2>6
<1>2. ASSUME NEW p \in Ptrs, NEW b \in Blocks, ConstructFrom(p, b) PROVE Structure'
  <2>1. PtrTypeOK' BY <1>2 DEF ConstructFrom
  <2>2. NoDangling' BY <1>2 DEF ConstructFrom, NoDangling, ArgumentAtRest, LastHolder, GivenOnce
  <2>3. ArgumentAtRest' BY <1>2 DEF ConstructFrom, ArgumentAtRest, LastHolder, Running
  <2>4. LastHolder' BY <1>2 DEF ConstructFrom, LastHolder, ArgumentAtRest, NoDangling, GivenOnce
  <2>5. GivenOnce' BY <1>2 DEF ConstructFrom, GivenOnce, NoDangling
  <2>6. NoLeak'
    BY <1>2 DEF ConstructFrom, NoLeak, NoDangling, ArgumentAtRest, LastHolder, GivenOnce
  <2> QED BY <2>1, <2>2, <2>3, <2>4, <2>5, <2>6
<1>3. ASSUME NEW p \in Ptrs, NEW q \in Ptrs, CopyConstruct(p, q) PROVE Structure'
  <2>1. PtrTypeOK' BY <1>3 DEF CopyConstruct, MayRead
  <2>2. NoDangling'
    BY <1>3 DEF CopyConstruct, MayRead, NoDangling, ArgumentAtRest, LastHolder, GivenOnce
  <2>3. ArgumentAtRest' BY <1>3 DEF CopyConstruct, MayRead, ArgumentAtRest, LastHolder, Running
  <2>4. LastHolder'
    BY <1>3 DEF CopyConstruct, MayRead, LastHolder, ArgumentAtRest, NoDangling, GivenOnce
  <2>5. GivenOnce' BY <1>3 DEF CopyConstruct, MayRead, GivenOnce, NoDangling
  <2>6. NoLeak'
    BY <1>3 DEF CopyConstruct, MayRead, NoLeak, NoDangling, ArgumentAtRest, LastHolder,
       GivenOnce
  <2> QED BY <2>1, <2>2, <2>3, <2>4, <2>5, <2>6
<1>4. ASSUME NEW p \in Ptrs, NEW q \in Ptrs, MoveConstruct(p, q) PROVE Structure'
  <2>1. PtrTypeOK' BY <1>4 DEF MoveConstruct, MayChange
  <2>2. NoDangling'
    BY <1>4 DEF MoveConstruct, MayChange, NoDangling, ArgumentAtRest, LastHolder, GivenOnce
  <2>3. ArgumentAtRest'
    BY <1>4 DEF MoveConstruct, MayChange, ArgumentAtRest, LastHolder, Running
  <2>4. LastHolder'
    BY <1>4 DEF MoveConstruct, MayChange, LastHolder, ArgumentAtRest, NoDangling, GivenOnce
  <2>5. GivenOnce' BY <1>4 DEF MoveConstruct, MayChange, GivenOnce, NoDangling
  <2>6. NoLeak'
    BY <1>4 DEF MoveConstruct, MayChange, NoLeak, NoDangling, ArgumentAtRest, LastHolder,
       GivenOnce
  <2> QED BY <2>1, <2>2, <2>3, <2>4, <2>5, <2>6
<1>5. ASSUME NEW p \in Ptrs, NEW q \in Ptrs, CopyAssign(p, q) PROVE Structure'
  <2>1. PtrTypeOK' BY <1>5 DEF CopyAssign, MayChange, MayRead, BeginClean
  <2>2. NoDangling'
    BY <1>5 DEF CopyAssign, MayChange, MayRead, BeginClean, NoDangling, ArgumentAtRest,
       LastHolder, GivenOnce
  <2>3. ArgumentAtRest'
    BY <1>5 DEF CopyAssign, MayChange, MayRead, BeginClean, ArgumentAtRest, LastHolder, Running
  <2>4. LastHolder'
    BY <1>5 DEF CopyAssign, MayChange, MayRead, BeginClean, LastHolder, ArgumentAtRest,
       NoDangling, GivenOnce
  <2>5. GivenOnce' BY <1>5 DEF CopyAssign, MayChange, MayRead, BeginClean, GivenOnce, NoDangling
  <2>6. NoLeak'
    BY <1>5 DEF CopyAssign, MayChange, MayRead, BeginClean, NoLeak, NoDangling, ArgumentAtRest,
       LastHolder, GivenOnce
  <2> QED BY <2>1, <2>2, <2>3, <2>4, <2>5, <2>6
<1>6. ASSUME NEW p \in Ptrs, NEW q \in Ptrs, MoveAssign(p, q) PROVE Structure'
  <2>1. PtrTypeOK' BY <1>6 DEF MoveAssign, MayChange, BeginClean
  <2>2. NoDangling'
    BY <1>6 DEF MoveAssign, MayChange, BeginClean, NoDangling, ArgumentAtRest, LastHolder,
       GivenOnce
  <2>3. ArgumentAtRest'
    BY <1>6 DEF MoveAssign, MayChange, BeginClean, ArgumentAtRest, LastHolder, Running
  <2>4. LastHolder'
    BY <1>6 DEF MoveAssign, MayChange, BeginClean, LastHolder, ArgumentAtRest, NoDangling,
       GivenOnce
  <2>5. GivenOnce' BY <1>6 DEF MoveAssign, MayChange, BeginClean, GivenOnce, NoDangling
  <2>6. NoLeak'
    BY <1>6 DEF MoveAssign, MayChange, BeginClean, NoLeak, NoDangling, ArgumentAtRest,
       LastHolder, GivenOnce
  <2> QED BY <2>1, <2>2, <2>3, <2>4, <2>5, <2>6
<1>7. ASSUME NEW p \in Ptrs, NEW q \in Ptrs, Swap(p, q) PROVE Structure'
  <2>1. PtrTypeOK' BY <1>7 DEF Swap, MayChange
  <2>2. NoDangling'
    BY <1>7 DEF Swap, MayChange, NoDangling, ArgumentAtRest, LastHolder, GivenOnce
  <2>3. ArgumentAtRest' BY <1>7 DEF Swap, MayChange, ArgumentAtRest, LastHolder, Running
  <2>4. LastHolder'
    BY <1>7 DEF Swap, MayChange, LastHolder, ArgumentAtRest, NoDangling, GivenOnce
  <2>5. GivenOnce' BY <1>7 DEF Swap, MayChange, GivenOnce, NoDangling
  <2>6. NoLeak'
    BY <1>7 DEF Swap, MayChange, NoLeak, NoDangling, ArgumentAtRest, LastHolder, GivenOnce
  <2> QED BY <2>1, <2>2, <2>3, <2>4, <2>5, <2>6
<1>8. ASSUME NEW p \in Ptrs, NEW b \in Blocks \cup {NoBlock}, Reset(p, b) PROVE Structure'
  <2>1. PtrTypeOK' BY <1>8 DEF Reset, MayChange, BeginClean
  <2>2. NoDangling'
    BY <1>8 DEF Reset, MayChange, BeginClean, NoDangling, ArgumentAtRest, LastHolder, GivenOnce
  <2>3. ArgumentAtRest'
    BY <1>8 DEF Reset, MayChange, BeginClean, ArgumentAtRest, LastHolder, Running
  <2>4. LastHolder'
    BY <1>8 DEF Reset, MayChange, BeginClean, LastHolder, ArgumentAtRest, NoDangling, GivenOnce
  <2>5. GivenOnce' BY <1>8 DEF Reset, MayChange, BeginClean, GivenOnce, NoDangling
  <2>6. NoLeak'
    BY <1>8 DEF Reset, MayChange, BeginClean, NoLeak, NoDangling, ArgumentAtRest, LastHolder,
       GivenOnce
  <2> QED BY <2>1, <2>2, <2>3, <2>4, <2>5, <2>6
<1>9. ASSUME NEW p \in Ptrs, Destroy(p) PROVE Structure'
  <2>1. PtrTypeOK' BY <1>9 DEF Destroy, MayChange, BeginClean
  <2>2. NoDangling'
    BY <1>9 DEF Destroy, MayChange, BeginClean, NoDangling, ArgumentAtRest, LastHolder,
       GivenOnce
  <2>3. ArgumentAtRest'
    BY <1>9 DEF Destroy, MayChange, BeginClean, ArgumentAtRest, LastHolder, Running
  <2>4. LastHolder'
    BY <1>9 DEF Destroy, MayChange, BeginClean, LastHolder, ArgumentAtRest, NoDangling,
       GivenOnce
  <2>5. GivenOnce' BY <1>9 DEF Destroy, MayChange, BeginClean, GivenOnce, NoDangling
  <2>6. NoLeak'
    BY <1>9 DEF Destroy, MayChange, BeginClean, NoLeak, NoDangling, ArgumentAtRest, LastHolder,
       GivenOnce
  <2> QED BY <2>1, <2>2, <2>3, <2>4, <2>5, <2>6
<1>10. ASSUME NEW p \in Ptrs, Clean_Nothing(p) PROVE Structure'
  <2>1. PtrTypeOK' BY <1>10 DEF Clean_Nothing
  <2>2. NoDangling'
    BY <1>10 DEF Clean_Nothing, NoDangling, ArgumentAtRest, LastHolder, GivenOnce
  <2>3. ArgumentAtRest' BY <1>10 DEF Clean_Nothing, ArgumentAtRest, LastHolder, Running
  <2>4. LastHolder'
    BY <1>10 DEF Clean_Nothing, LastHolder, ArgumentAtRest, NoDangling, GivenOnce
  <2>5. GivenOnce' BY <1>10 DEF Clean_Nothing, GivenOnce, NoDangling
  <2>6. NoLeak'
    BY <1>10 DEF Clean_Nothing, NoLeak, NoDangling, ArgumentAtRest, LastHolder, GivenOnce
  <2> QED BY <2>1, <2>2, <2>3, <2>4, <2>5, <2>6
<1>11. ASSUME NEW p \in Ptrs, Clean_Minus(p) PROVE Structure'
  <2>0. ASSUME count[ref[p]] = 1, NEW r \in Ptrs, ref[r] = ref[p] PROVE r = p
    <3>1. ref[p] \in Blocks /\ p \in Holders(ref[p]) BY <1>11 DEF Clean_Minus, Holders
    <3>2. Holders(ref[p]) = {p} BY <2>0, <3>1, OnlyHolder
    <3>3. CASE call[r] \notin {"add", "delete"} BY <2>0, <3>2, <3>3 DEF Holders
    <3>4. CASE call[r] = "add"
      <4>1. other[r] \in Ptrs /\ call[other[r]] = "idle" /\ ref[other[r]] = ref[p]
        BY <2>0, <3>4 DEF ArgumentAtRest, Running
      <4>2. other[r] \in Holders(ref[p]) BY <4>1 DEF Holders
      <4> QED BY <1>11, <3>2, <4>1, <4>2 DEF Clean_Minus
    <3>5. CASE call[r] = "delete" BY <2>0, <3>1, <3>5 DEF LastHolder
    <3> QED BY <3>3, <3>4, <3>5
  <2>00. count[ref[p]] > 0
    <3>1. ref[p] \in Blocks /\ p \in Holders(ref[p]) BY <1>11 DEF Clean_Minus, Holders
    <3>2. Cardinality(Holders(ref[p])) # 0 BY <3>1, HoldersFinite, FS_EmptySet
    <3> QED BY <3>1, <3>2, HoldersFinite DEF CountRight
  <2>01. ASSUME count[ref[p]] # 1 PROVE \E r \in Ptrs : r # p /\ ref[r] = ref[p]
    <3>1. ref[p] \in Blocks /\ p \in Holders(ref[p]) BY <1>11 DEF Clean_Minus, Holders
    <3>2. Holders(ref[p]) # {p} BY <2>01, <3>1, CountSingle DEF CountRight
    <3> QED BY <3>1, <3>2 DEF Holders
  <2>1. PtrTypeOK' BY <2>0, <2>00, <2>01, <1>11 DEF Clean_Minus
  <2>2. NoDangling'
    BY <2>0, <2>00, <2>01, <1>11 DEF Clean_Minus, NoDangling, ArgumentAtRest, LastHolder,
       GivenOnce
  <2>3. ArgumentAtRest'
    BY <2>0, <2>00, <2>01, <1>11 DEF Clean_Minus, ArgumentAtRest, LastHolder, Running
  <2>4. LastHolder'
    BY <2>0, <2>00, <2>01, <1>11 DEF Clean_Minus, LastHolder, ArgumentAtRest, NoDangling,
       GivenOnce
  <2>5. GivenOnce' BY <2>0, <2>00, <2>01, <1>11 DEF Clean_Minus, GivenOnce, NoDangling
  <2>6. NoLeak'
    BY <2>0, <2>00, <2>01, <1>11 DEF Clean_Minus, NoLeak, NoDangling, ArgumentAtRest,
       LastHolder, GivenOnce
  <2> QED BY <2>1, <2>2, <2>3, <2>4, <2>5, <2>6
<1>12. ASSUME NEW p \in Ptrs, Clean_Delete(p) PROVE Structure'
  <2>1. PtrTypeOK' BY <1>12 DEF Clean_Delete
  <2>2. NoDangling' BY <1>12 DEF Clean_Delete, NoDangling, ArgumentAtRest, LastHolder, GivenOnce
  <2>3. ArgumentAtRest' BY <1>12 DEF Clean_Delete, ArgumentAtRest, LastHolder, Running
  <2>4. LastHolder' BY <1>12 DEF Clean_Delete, LastHolder, ArgumentAtRest, NoDangling, GivenOnce
  <2>5. GivenOnce' BY <1>12 DEF Clean_Delete, GivenOnce, NoDangling
  <2>6. NoLeak'
    BY <1>12 DEF Clean_Delete, NoLeak, NoDangling, ArgumentAtRest, LastHolder, GivenOnce
  <2> QED BY <2>1, <2>2, <2>3, <2>4, <2>5, <2>6
<1>13. ASSUME NEW p \in Ptrs, Finish_Destroy(p) PROVE Structure'
  <2>1. PtrTypeOK' BY <1>13 DEF Finish_Destroy, Return
  <2>2. NoDangling'
    BY <1>13 DEF Finish_Destroy, Return, NoDangling, ArgumentAtRest, LastHolder, GivenOnce
  <2>3. ArgumentAtRest' BY <1>13 DEF Finish_Destroy, Return, ArgumentAtRest, LastHolder, Running
  <2>4. LastHolder'
    BY <1>13 DEF Finish_Destroy, Return, LastHolder, ArgumentAtRest, NoDangling, GivenOnce
  <2>5. GivenOnce' BY <1>13 DEF Finish_Destroy, Return, GivenOnce, NoDangling
  <2>6. NoLeak'
    BY <1>13 DEF Finish_Destroy, Return, NoLeak, NoDangling, ArgumentAtRest, LastHolder,
       GivenOnce
  <2> QED BY <2>1, <2>2, <2>3, <2>4, <2>5, <2>6
<1>14. ASSUME NEW p \in Ptrs, Finish_Reset(p) PROVE Structure'
  <2>1. PtrTypeOK' BY <1>14 DEF Finish_Reset, Return
  <2>2. NoDangling'
    BY <1>14 DEF Finish_Reset, Return, NoDangling, ArgumentAtRest, LastHolder, GivenOnce
  <2>3. ArgumentAtRest' BY <1>14 DEF Finish_Reset, Return, ArgumentAtRest, LastHolder, Running
  <2>4. LastHolder'
    BY <1>14 DEF Finish_Reset, Return, LastHolder, ArgumentAtRest, NoDangling, GivenOnce
  <2>5. GivenOnce' BY <1>14 DEF Finish_Reset, Return, GivenOnce, NoDangling
  <2>6. NoLeak'
    BY <1>14 DEF Finish_Reset, Return, NoLeak, NoDangling, ArgumentAtRest, LastHolder, GivenOnce
  <2> QED BY <2>1, <2>2, <2>3, <2>4, <2>5, <2>6
<1>15. ASSUME NEW p \in Ptrs, Finish_Move(p) PROVE Structure'
  <2>0. other[p] \in Ptrs /\ other[p] # p /\ call[other[p]] = "idle"
    BY <1>15 DEF Finish_Move, ArgumentAtRest, Running
  <2>1. PtrTypeOK' BY <2>0, <1>15 DEF Finish_Move, Return
  <2>2. NoDangling'
    BY <2>0, <1>15 DEF Finish_Move, Return, NoDangling, ArgumentAtRest, LastHolder, GivenOnce
  <2>3. ArgumentAtRest'
    BY <2>0, <1>15 DEF Finish_Move, Return, ArgumentAtRest, LastHolder, Running
  <2>4. LastHolder'
    BY <2>0, <1>15 DEF Finish_Move, Return, LastHolder, ArgumentAtRest, NoDangling, GivenOnce
  <2>5. GivenOnce' BY <2>0, <1>15 DEF Finish_Move, Return, GivenOnce, NoDangling
  <2>6. NoLeak'
    BY <2>0, <1>15 DEF Finish_Move, Return, NoLeak, NoDangling, ArgumentAtRest, LastHolder,
       GivenOnce
  <2> QED BY <2>1, <2>2, <2>3, <2>4, <2>5, <2>6
<1>16. ASSUME NEW p \in Ptrs, Finish_Copy(p) PROVE Structure'
  <2>0. other[p] \in Ptrs /\ other[p] # p /\ call[other[p]] = "idle"
    BY <1>16 DEF Finish_Copy, ArgumentAtRest, Running
  <2>1. PtrTypeOK' BY <2>0, <1>16 DEF Finish_Copy
  <2>2. NoDangling'
    BY <2>0, <1>16 DEF Finish_Copy, NoDangling, ArgumentAtRest, LastHolder, GivenOnce
  <2>3. ArgumentAtRest' BY <2>0, <1>16 DEF Finish_Copy, ArgumentAtRest, LastHolder, Running
  <2>4. LastHolder'
    BY <2>0, <1>16 DEF Finish_Copy, LastHolder, ArgumentAtRest, NoDangling, GivenOnce
  <2>5. GivenOnce' BY <2>0, <1>16 DEF Finish_Copy, GivenOnce, NoDangling
  <2>6. NoLeak'
    BY <2>0, <1>16 DEF Finish_Copy, NoLeak, NoDangling, ArgumentAtRest, LastHolder, GivenOnce
  <2> QED BY <2>1, <2>2, <2>3, <2>4, <2>5, <2>6
<1>17. ASSUME NEW p \in Ptrs, Add(p) PROVE Structure'
  <2>1. PtrTypeOK' BY <1>17 DEF Add, Return
  <2>2. NoDangling' BY <1>17 DEF Add, Return, NoDangling, ArgumentAtRest, LastHolder, GivenOnce
  <2>3. ArgumentAtRest' BY <1>17 DEF Add, Return, ArgumentAtRest, LastHolder, Running
  <2>4. LastHolder' BY <1>17 DEF Add, Return, LastHolder, ArgumentAtRest, NoDangling, GivenOnce
  <2>5. GivenOnce' BY <1>17 DEF Add, Return, GivenOnce, NoDangling
  <2>6. NoLeak'
    BY <1>17 DEF Add, Return, NoLeak, NoDangling, ArgumentAtRest, LastHolder, GivenOnce
  <2> QED BY <2>1, <2>2, <2>3, <2>4, <2>5, <2>6
<1> QED BY <1>1, <1>2, <1>3, <1>4, <1>5, <1>6, <1>7, <1>8, <1>9, <1>10, <1>11, <1>12, <1>13, <1>14, <1>15, <1>16, <1>17 DEF PtrNext, PtrCall, PtrStep

-----------------------------------------------------------------------------
(* Every step keeps the counters *)

\* A step that changes neither the counters nor who holds what.
LEMMA SameHolders ==
    ASSUME CountRight, UNCHANGED count, \A b \in Blocks : Holders(b)' = Holders(b)
    PROVE  CountRight'
BY DEF CountRight

\* A block takes p as its first holder.
LEMMA FirstHolder ==
    ASSUME CountRight, NEW p \in Ptrs, NEW b,
           \A c \in Blocks : count'[c] = IF c = b THEN 1 ELSE count[c],
           b \in Blocks => Holders(b)' = {p},
           \A c \in Blocks \ {b} : Holders(c)' = Holders(c)
    PROVE  CountRight'
BY CountSingle DEF CountRight

\* q hands what it holds on to p, which holds nothing.
LEMMA HandedOn ==
    ASSUME PtrTypeOK, CountRight, UNCHANGED count, NEW p \in Ptrs, NEW q \in Ptrs, p # q,
           ref[p] = NoBlock, call[q] = "idle", call'[p] = "idle",
           ref' = [ref EXCEPT ![p] = ref[q], ![q] = NoBlock],
           \A r \in Ptrs \ {p} : call'[r] = call[r]
    PROVE  CountRight'
<1> SUFFICES ASSUME NEW b \in Blocks PROVE count[b] = Cardinality(Holders(b)')
  BY DEF CountRight
<1>1. count[b] = Cardinality(Holders(b)) BY DEF CountRight
<1>2. CASE ref[q] = b
  <2>1. q \in Holders(b) /\ p \notin Holders(b) BY <1>2, SharedPtrAssumption DEF Holders
  <2>2. Holders(b)' = (Holders(b) \ {q}) \cup {p}
    BY <1>2, SharedPtrAssumption DEF Holders, PtrTypeOK
  <2> QED BY <1>1, <2>1, <2>2, HoldersFinite, CountExchange
<1>3. CASE ref[q] # b
  <2>1. Holders(b)' = Holders(b) BY <1>3, SharedPtrAssumption DEF Holders, PtrTypeOK
  <2> QED BY <1>1, <2>1
<1> QED BY <1>2, <1>3

LEMMA CountStep ==
    ASSUME PtrInv, PtrNext
    PROVE  CountRight'
<1> USE SharedPtrAssumption DEF PtrInv, Structure, PtrTypeOK
<1>1. ASSUME NEW p \in Ptrs, Construct(p) PROVE CountRight'
  <2>1. \A c \in Blocks : Holders(c)' = Holders(c)
    BY <1>1 DEF Construct, Holders, LastHolder
  <2>2. UNCHANGED count BY <1>1 DEF Construct
  <2> QED BY <2>1, <2>2, SameHolders
<1>2. ASSUME NEW p \in Ptrs, NEW b \in Blocks, ConstructFrom(p, b) PROVE CountRight'
  <2>1. \A c \in Blocks \ {b} : Holders(c)' = Holders(c)
    BY <1>2 DEF ConstructFrom, Holders, LastHolder
  <2>2. Holders(b)' = {p}
    BY <1>2 DEF ConstructFrom, Holders, NoDangling
  <2>3. \A c \in Blocks : count'[c] = IF c = b THEN 1 ELSE count[c]
    BY <1>2 DEF ConstructFrom
  <2> QED BY <2>1, <2>2, <2>3, FirstHolder
<1>3. ASSUME NEW p \in Ptrs, NEW q \in Ptrs, CopyConstruct(p, q) PROVE CountRight'
  <2>1. \A c \in Blocks : Holders(c)' = Holders(c)
    BY <1>3 DEF CopyConstruct, MayRead, Holders, LastHolder
  <2>2. UNCHANGED count BY <1>3 DEF CopyConstruct, MayRead
  <2> QED BY <2>1, <2>2, SameHolders
<1>4. ASSUME NEW p \in Ptrs, NEW q \in Ptrs, MoveConstruct(p, q) PROVE CountRight'
  <2>1. /\ p # q /\ ref[p] = NoBlock /\ call[q] = "idle" /\ call'[p] = "idle" /\ UNCHANGED count
        /\ ref' = [ref EXCEPT ![p] = ref[q], ![q] = NoBlock]
        /\ \A r \in Ptrs \ {p} : call'[r] = call[r]
    BY <1>4 DEF MoveConstruct, MayChange, LastHolder
  <2> QED BY <2>1, HandedOn
<1>5. ASSUME NEW p \in Ptrs, NEW q \in Ptrs, CopyAssign(p, q) PROVE CountRight'
  <2>1. \A c \in Blocks : Holders(c)' = Holders(c)
    BY <1>5 DEF CopyAssign, MayChange, MayRead, BeginClean, Holders
  <2>2. UNCHANGED count BY <1>5 DEF CopyAssign, MayChange, MayRead, BeginClean
  <2> QED BY <2>1, <2>2, SameHolders
<1>6. ASSUME NEW p \in Ptrs, NEW q \in Ptrs, MoveAssign(p, q) PROVE CountRight'
  <2>1. \A c \in Blocks : Holders(c)' = Holders(c)
    BY <1>6 DEF MoveAssign, MayChange, BeginClean, Holders
  <2>2. UNCHANGED count BY <1>6 DEF MoveAssign, MayChange, BeginClean
  <2> QED BY <2>1, <2>2, SameHolders
<1>7. ASSUME NEW p \in Ptrs, NEW q \in Ptrs, Swap(p, q) PROVE CountRight'
  <2> SUFFICES ASSUME NEW c \in Blocks PROVE count[c] = Cardinality(Holders(c)')
    BY <1>7 DEF Swap, CountRight
  <2>1. count[c] = Cardinality(Holders(c)) BY DEF CountRight
  <2>2. call[p] = "idle" /\ call[q] = "idle" /\ p # q BY <1>7 DEF Swap, MayChange
  <2>3. CASE ref[p] = c /\ ref[q] # c
    <3>1. Holders(c)' = (Holders(c) \ {p}) \cup {q} BY <1>7, <2>2, <2>3 DEF Swap, Holders
    <3>2. p \in Holders(c) /\ q \notin Holders(c) BY <2>2, <2>3 DEF Holders
    <3> QED BY <2>1, <3>1, <3>2, HoldersFinite, CountExchange
  <2>4. CASE ref[q] = c /\ ref[p] # c
    <3>1. Holders(c)' = (Holders(c) \ {q}) \cup {p} BY <1>7, <2>2, <2>4 DEF Swap, Holders
    <3>2. q \in Holders(c) /\ p \notin Holders(c) BY <2>2, <2>4 DEF Holders
    <3> QED BY <2>1, <3>1, <3>2, HoldersFinite, CountExchange
  <2>5. CASE (ref[p] = c) = (ref[q] = c)
    <3>1. Holders(c)' = Holders(c) BY <1>7, <2>2, <2>5 DEF Swap, Holders
    <3> QED BY <2>1, <3>1
  <2> QED BY <2>3, <2>4, <2>5
<1>8. ASSUME NEW p \in Ptrs, NEW b \in Blocks \cup {NoBlock}, Reset(p, b) PROVE CountRight'
  <2>1. \A c \in Blocks : Holders(c)' = Holders(c)
    BY <1>8 DEF Reset, MayChange, BeginClean, Holders
  <2>2. UNCHANGED count BY <1>8 DEF Reset, MayChange, BeginClean
  <2> QED BY <2>1, <2>2, SameHolders
<1>9. ASSUME NEW p \in Ptrs, Destroy(p) PROVE CountRight'
  <2>1. \A c \in Blocks : Holders(c)' = Holders(c)
    BY <1>9 DEF Destroy, MayChange, BeginClean, Holders
  <2>2. UNCHANGED count BY <1>9 DEF Destroy, MayChange, BeginClean
  <2> QED BY <2>1, <2>2, SameHolders
<1>10. ASSUME NEW p \in Ptrs, Clean_Nothing(p) PROVE CountRight'
  <2>1. \A c \in Blocks : Holders(c)' = Holders(c)
    BY <1>10 DEF Clean_Nothing, Holders
  <2>2. UNCHANGED count BY <1>10 DEF Clean_Nothing
  <2> QED BY <2>1, <2>2, SameHolders
<1>11. ASSUME NEW p \in Ptrs, Clean_Minus(p) PROVE CountRight'
  <2> SUFFICES ASSUME NEW c \in Blocks PROVE count'[c] = Cardinality(Holders(c)')
    BY DEF CountRight
  <2>1. count[c] = Cardinality(Holders(c)) BY DEF CountRight
  <2>2. CASE c = ref[p]
    <3>1. Holders(c)' = Holders(c) \ {p} /\ p \in Holders(c)
      BY <1>11, <2>2 DEF Clean_Minus, Holders
    <3>2. count'[c] = count[c] - 1 BY <1>11, <2>2 DEF Clean_Minus
    <3>3. Cardinality(Holders(c)') = Cardinality(Holders(c)) - 1
      BY <3>1, HoldersFinite, CountMinus
    <3> QED BY <2>1, <3>2, <3>3
  <2>3. CASE c # ref[p]
    <3>1. Holders(c)' = Holders(c) /\ count'[c] = count[c]
      BY <1>11, <2>3 DEF Clean_Minus, Holders
    <3> QED BY <2>1, <3>1
  <2> QED BY <2>2, <2>3
<1>12. ASSUME NEW p \in Ptrs, Clean_Delete(p) PROVE CountRight'
  <2>1. \A c \in Blocks : Holders(c)' = Holders(c)
    BY <1>12 DEF Clean_Delete, Holders
  <2>2. UNCHANGED count BY <1>12 DEF Clean_Delete
  <2> QED BY <2>1, <2>2, SameHolders
<1>13. ASSUME NEW p \in Ptrs, Finish_Destroy(p) PROVE CountRight'
  <2>1. \A c \in Blocks : Holders(c)' = Holders(c)
    BY <1>13 DEF Finish_Destroy, Return, Holders, LastHolder
  <2>2. UNCHANGED count BY <1>13 DEF Finish_Destroy, Return
  <2> QED BY <2>1, <2>2, SameHolders
<1>14. ASSUME NEW p \in Ptrs, Finish_Reset(p) PROVE CountRight'
  <2>0. PICK g : g = given[p] OBVIOUS
  <2>1. \A c \in Blocks \ {g} : Holders(c)' = Holders(c)
    BY <1>14, <2>0 DEF Finish_Reset, Return, Holders, LastHolder
  <2>2. g \in Blocks => Holders(g)' = {p}
    BY <1>14, <2>0 DEF Finish_Reset, Return, Holders, NoDangling, GivenOnce
  <2>3. \A c \in Blocks : count'[c] = IF c = g THEN 1 ELSE count[c]
    BY <1>14, <2>0 DEF Finish_Reset
  <2> QED BY <2>1, <2>2, <2>3, FirstHolder
<1>15. ASSUME NEW p \in Ptrs, Finish_Move(p) PROVE CountRight'
  <2>1. /\ other[p] \in Ptrs /\ p # other[p] /\ call[other[p]] = "idle"
    BY <1>15 DEF Finish_Move, ArgumentAtRest, Running
  <2>2. /\ ref[p] = NoBlock /\ call'[p] = "idle" /\ UNCHANGED count
        /\ ref' = [ref EXCEPT ![p] = ref[other[p]], ![other[p]] = NoBlock]
        /\ \A r \in Ptrs \ {p} : call'[r] = call[r]
    BY <1>15 DEF Finish_Move, Return, LastHolder
  <2> QED BY <2>1, <2>2, HandedOn
<1>16. ASSUME NEW p \in Ptrs, Finish_Copy(p) PROVE CountRight'
  <2>1. \A c \in Blocks : Holders(c)' = Holders(c)
    BY <1>16 DEF Finish_Copy, Holders, LastHolder
  <2>2. UNCHANGED count BY <1>16 DEF Finish_Copy
  <2> QED BY <2>1, <2>2, SameHolders
<1>17. ASSUME NEW p \in Ptrs, Add(p) PROVE CountRight'
  <2> SUFFICES ASSUME NEW c \in Blocks PROVE count'[c] = Cardinality(Holders(c)')
    BY DEF CountRight
  <2>1. count[c] = Cardinality(Holders(c)) BY DEF CountRight
  <2>2. CASE c = ref[p]
    <3>1. Holders(c)' = Holders(c) \cup {p} /\ p \notin Holders(c)
      BY <1>17, <2>2 DEF Add, Return, Holders
    <3>2. count'[c] = count[c] + 1 BY <1>17, <2>2 DEF Add
    <3>3. Cardinality(Holders(c)') = Cardinality(Holders(c)) + 1
      BY <3>1, HoldersFinite, CountPlus
    <3> QED BY <2>1, <3>2, <3>3
  <2>3. CASE c # ref[p]
    <3>1. Holders(c)' = Holders(c) /\ count'[c] = count[c]
      BY <1>17, <2>3 DEF Add, Return, Holders
    <3> QED BY <2>1, <3>1
  <2> QED BY <2>2, <2>3
<1> QED BY <1>1, <1>2, <1>3, <1>4, <1>5, <1>6, <1>7, <1>8, <1>9, <1>10, <1>11, <1>12, <1>13, <1>14, <1>15, <1>16, <1>17 DEF PtrNext, PtrCall, PtrStep

-----------------------------------------------------------------------------
(* Results *)

\* The invariant that the properties follow from holds for ever.
THEOREM PtrInvariant == PtrSpec => []PtrInv
<1>1. PtrInit => PtrInv BY StructureInit
<1>2. PtrInv /\ [PtrNext]_ptrVars => PtrInv'
  <2> SUFFICES ASSUME PtrInv, [PtrNext]_ptrVars PROVE PtrInv' OBVIOUS
  <2>1. CASE PtrNext BY <2>1, StructureStep, CountStep DEF PtrInv
  <2>2. CASE UNCHANGED ptrVars
    <3>1. Structure'
      <4>1. PtrTypeOK' BY <2>2 DEF ptrVars, PtrInv, Structure, PtrTypeOK
      <4>2. NoDangling' BY <2>2 DEF ptrVars, PtrInv, Structure, NoDangling
      <4>3. ArgumentAtRest' BY <2>2 DEF ptrVars, PtrInv, Structure, ArgumentAtRest, Running
      <4>4. LastHolder' BY <2>2 DEF ptrVars, PtrInv, Structure, LastHolder
      <4>5. GivenOnce' BY <2>2 DEF ptrVars, PtrInv, Structure, GivenOnce
      <4>6. NoLeak' BY <2>2 DEF ptrVars, PtrInv, Structure, NoLeak
      <4> QED BY <4>1, <4>2, <4>3, <4>4, <4>5, <4>6 DEF Structure
    <3>2. UNCHANGED count /\ \A b \in Blocks : Holders(b)' = Holders(b)
      BY <2>2 DEF ptrVars, Holders
    <3> QED BY <3>1, <3>2, SameHolders DEF PtrInv
  <2> QED BY <2>1, <2>2
<1> QED BY <1>1, <1>2, PTL DEF PtrSpec

\* SharedCount counts exactly the SharedPtr objects that hold the block.
THEOREM CountsExact == PtrSpec => []CountRight
BY PtrInvariant, PTL DEF PtrInv

\* clean() never deletes a resource that an object still refers to.
THEOREM NeverDangling == PtrSpec => []NoDangling
BY PtrInvariant, PTL DEF PtrInv, Structure

\* The last object to let go of a resource deletes it.
THEOREM NeverLeaks == PtrSpec => []NoLeak
BY PtrInvariant, PTL DEF PtrInv, Structure

=============================================================================
