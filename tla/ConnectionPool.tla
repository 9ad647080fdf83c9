--------------------------- MODULE ConnectionPool ---------------------------
(***************************************************************************)
(* The MySQL connection pool of TinyWebServer/CGImysql: GetConnection(),   *)
(* ReleaseConnection() and DestroyPool(), as the worker threads call them  *)
(* through ConnectionRAII and as the static pool is destroyed at exit      *)
(* while the detached workers still run.                                   *)
(*                                                                         *)
(* GetConnection() ignores the result of reserve.wait(), and the signals   *)
(* whose handlers webserver.cpp installs without SA_RESTART may be         *)
(* delivered to a worker that sleeps there.                                *)
(*                                                                         *)
(* front() and pop_front() on an empty list are undefined; pop_front()     *)
(* frees the list's own header node, for which the allocator aborts the    *)
(* process.  The model stops in that state (crashed).                      *)
(***************************************************************************)
EXTENDS Locker, Sequences, FiniteSets, Functions

CONSTANTS Users,       \* the threads that use connections
          Destroyers,  \* the one thread that runs DestroyPool(), if any
          Conns,       \* the connections init() creates, max_conn of them
          NoConn       \* a null MYSQL*

ASSUME ConnAssumption ==
    /\ IsFiniteSet(Users) /\ IsFiniteSet(Conns)
    /\ Users \cap Destroyers = {}
    /\ \A d, e \in Destroyers : d = e
    /\ NoThread \notin Users \cup Destroyers
    /\ NoConn \notin Conns

VARIABLES conn_list,    \* list<MYSQL*>
          m_free_conn,
          m_cur_conn,
          lock,         \* the owner of the mutex
          reserve,      \* the count of the semaphore
          userAt,       \* where each user is
          waitResult,   \* the (ignored) result of its last reserve.wait()
          conn,         \* its local variable conn, then conn_RAII
          destroyAt,    \* where the destroyer is in DestroyPool()
          closed,       \* the connections given to mysql_close()
          crashed,      \* pop_front() was called on an empty list
          interrupted   \* history: a signal has ended a wait

listVars == <<conn_list, m_free_conn, m_cur_conn>>
vars == <<listVars, lock, reserve, userAt, waitResult, conn, destroyAt, closed, crashed,
          interrupted>>

UserSteps == {"idle", "wait", "asleep", "lock", "front", "pop", "using",
              "relock", "push", "post"}
DestroySteps == {"out", "start", "clear", "unlock", "again", "done"}

TypeOK ==
    /\ conn_list \in Seq(Conns)
    /\ m_free_conn \in Int
    /\ m_cur_conn \in Int
    /\ lock \in Users \cup Destroyers \cup {NoThread}
    /\ reserve \in Nat
    /\ userAt \in [Users -> UserSteps]
    /\ waitResult \in [Users -> BOOLEAN]
    /\ conn \in [Users -> Conns \cup {NoConn}]
    /\ destroyAt \in [Destroyers -> DestroySteps]
    /\ closed \in SUBSET Conns
    /\ crashed \in BOOLEAN
    /\ interrupted \in BOOLEAN

\* After init(): every connection was made, or the server has exited.
Init ==
    /\ conn_list \in Bijection(1 .. Cardinality(Conns), Conns)
    /\ m_free_conn = Cardinality(Conns)
    /\ m_cur_conn = 0
    /\ lock = NoThread
    /\ reserve = Cardinality(Conns)
    /\ userAt = [u \in Users |-> "idle"]
    /\ waitResult = [u \in Users |-> FALSE]
    /\ conn = [u \in Users |-> NoConn]
    /\ destroyAt = [d \in Destroyers |-> "out"]
    /\ closed = {}
    /\ crashed = FALSE
    /\ interrupted = FALSE

UserGoes(u, from, to) == /\ ~crashed
                         /\ userAt[u] \in from
                         /\ userAt' = [userAt EXCEPT ![u] = to]

-----------------------------------------------------------------------------
(* GetConnection() *)

\* The list is seen empty, without the lock: return NULL.
Get_Null(u) ==
    /\ UserGoes(u, {"idle"}, "using")
    /\ conn_list = <<>>
    /\ conn' = [conn EXCEPT ![u] = NoConn]
    /\ UNCHANGED <<listVars, lock, reserve, waitResult, destroyAt, closed, crashed, interrupted>>

Get_Try(u) ==
    /\ UserGoes(u, {"idle"}, "wait")
    /\ conn_list # <<>>
    /\ UNCHANGED <<listVars, lock, reserve, waitResult, conn, destroyAt, closed, crashed, interrupted>>

Get_Wait(u) ==
    /\ UserGoes(u, {"wait", "asleep"}, "lock")
    /\ SemWait(reserve)
    /\ waitResult' = [waitResult EXCEPT ![u] = TRUE]
    /\ UNCHANGED <<listVars, lock, conn, destroyAt, closed, crashed, interrupted>>

Get_Sleep(u) ==
    /\ UserGoes(u, {"wait"}, "asleep")
    /\ SemBlock(reserve)
    /\ UNCHANGED <<listVars, lock, waitResult, conn, destroyAt, closed, crashed, interrupted>>

Get_Interrupted(u) ==
    /\ UserGoes(u, {"asleep"}, "lock")
    /\ SemInterrupted(reserve)
    /\ waitResult' = [waitResult EXCEPT ![u] = FALSE]
    /\ interrupted' = TRUE
    /\ UNCHANGED <<listVars, lock, conn, destroyAt, closed, crashed>>

\* Fault: the list is used without the lock.
Fault_GetUnlocked(u) ==
    /\ UserGoes(u, {"lock"}, "front")
    /\ UNCHANGED <<listVars, lock, reserve, waitResult, conn, destroyAt, closed, crashed, interrupted>>

Get_Lock(u) ==
    /\ UserGoes(u, {"lock"}, "front")
    /\ Lock(lock, u)
    /\ UNCHANGED <<listVars, reserve, waitResult, conn, destroyAt, closed, crashed, interrupted>>

Get_Front(u) ==
    /\ UserGoes(u, {"front"}, "pop")
    /\ conn' = [conn EXCEPT ![u] = IF conn_list = <<>> THEN NoConn ELSE Head(conn_list)]
    /\ UNCHANGED <<listVars, lock, reserve, waitResult, destroyAt, closed, crashed, interrupted>>

\* Fault: the lock is kept.
Fault_PopKeepsLock(u) ==
    /\ UserGoes(u, {"pop"}, "using")
    /\ conn_list' = IF conn_list = <<>> THEN <<>> ELSE Tail(conn_list)
    /\ m_free_conn' = m_free_conn - 1
    /\ m_cur_conn' = m_cur_conn + 1
    /\ crashed' = (conn_list = <<>>)
    /\ UNCHANGED <<lock, reserve, waitResult, conn, destroyAt, closed, interrupted>>

\* pop_front(), the two counters, unlock.
Get_Pop(u) ==
    /\ UserGoes(u, {"pop"}, "using")
    /\ conn_list' = IF conn_list = <<>> THEN <<>> ELSE Tail(conn_list)
    /\ m_free_conn' = m_free_conn - 1
    /\ m_cur_conn' = m_cur_conn + 1
    /\ crashed' = (conn_list = <<>>)
    /\ Unlock(lock)
    /\ UNCHANGED <<reserve, waitResult, conn, destroyAt, closed, interrupted>>

-----------------------------------------------------------------------------
(* ReleaseConnection(), from the destructor of ConnectionRAII *)

Release_Null(u) ==
    /\ UserGoes(u, {"using"}, "idle")
    /\ conn[u] = NoConn
    /\ UNCHANGED <<listVars, lock, reserve, waitResult, conn, destroyAt, closed, crashed, interrupted>>

\* Fault: the connection is never given back.
Fault_Leak(u) ==
    /\ UserGoes(u, {"using"}, "idle")
    /\ conn[u] # NoConn
    /\ UNCHANGED <<listVars, lock, reserve, waitResult, conn, destroyAt, closed, crashed, interrupted>>

Release_Call(u) ==
    /\ UserGoes(u, {"using"}, "relock")
    /\ conn[u] # NoConn
    /\ UNCHANGED <<listVars, lock, reserve, waitResult, conn, destroyAt, closed, crashed, interrupted>>

Release_Lock(u) ==
    /\ UserGoes(u, {"relock"}, "push")
    /\ Lock(lock, u)
    /\ UNCHANGED <<listVars, reserve, waitResult, conn, destroyAt, closed, crashed, interrupted>>

\* push_back(), the two counters, unlock.  conn dies with the ConnectionRAII.
Release_Push(u) ==
    /\ UserGoes(u, {"push"}, "post")
    /\ conn_list' = Append(conn_list, conn[u])
    /\ m_free_conn' = m_free_conn + 1
    /\ m_cur_conn' = m_cur_conn - 1
    /\ conn' = [conn EXCEPT ![u] = NoConn]
    /\ Unlock(lock)
    /\ UNCHANGED <<reserve, waitResult, destroyAt, closed, crashed, interrupted>>

\* Fault: the semaphore is not posted.
Fault_NoPost(u) ==
    /\ UserGoes(u, {"post"}, "idle")
    /\ UNCHANGED <<listVars, lock, reserve, waitResult, conn, destroyAt, closed, crashed, interrupted>>

Release_Post(u) ==
    /\ UserGoes(u, {"post"}, "idle")
    /\ SemPost(reserve)
    /\ UNCHANGED <<listVars, lock, waitResult, conn, destroyAt, closed, crashed, interrupted>>

-----------------------------------------------------------------------------
(* DestroyPool(), from the destructor of the static pool *)

DestroyerGoes(d, from, to) == /\ ~crashed
                              /\ destroyAt[d] = from
                              /\ destroyAt' = [destroyAt EXCEPT ![d] = to]

\* The process exits and runs the destructors of its static objects.
Destroy_Call(d) ==
    /\ DestroyerGoes(d, "out", "start")
    /\ UNCHANGED <<listVars, lock, reserve, userAt, waitResult, conn, closed, crashed, interrupted>>

\* Fault: the list is cleared without the lock.
Fault_DestroyUnlocked(d) ==
    /\ DestroyerGoes(d, "start", "clear")
    /\ UNCHANGED <<listVars, lock, reserve, userAt, waitResult, conn, closed, crashed, interrupted>>

Destroy_Lock(d) ==
    /\ DestroyerGoes(d, "start", "clear")
    /\ Lock(lock, d)
    /\ UNCHANGED <<listVars, reserve, userAt, waitResult, conn, closed, crashed, interrupted>>

\* Close what is in the list, zero the counters, clear the list.  An empty list
\* skips all of that and the first of the two calls of unlock().
Destroy_Clear(d) ==
    /\ DestroyerGoes(d, "clear", IF conn_list = <<>> THEN "again" ELSE "unlock")
    /\ closed' = closed \cup Range(conn_list)
    /\ conn_list' = <<>>
    /\ m_free_conn' = IF conn_list = <<>> THEN m_free_conn ELSE 0
    /\ m_cur_conn' = IF conn_list = <<>> THEN m_cur_conn ELSE 0
    /\ UNCHANGED <<lock, reserve, userAt, waitResult, conn, crashed, interrupted>>

Destroy_Unlock(d) ==
    /\ DestroyerGoes(d, "unlock", "again")
    /\ Unlock(lock)
    /\ UNCHANGED <<listVars, reserve, userAt, waitResult, conn, closed, crashed, interrupted>>

\* unlock() does not test who owns the mutex.
Destroy_UnlockAgain(d) ==
    /\ DestroyerGoes(d, "again", "done")
    /\ Unlock(lock)
    /\ UNCHANGED <<listVars, reserve, userAt, waitResult, conn, closed, crashed, interrupted>>

-----------------------------------------------------------------------------

UserStep(u) == \/ Get_Wait(u)
               \/ Get_Sleep(u)
               \/ Get_Lock(u)
               \/ Get_Front(u)
               \/ Get_Pop(u)
               \/ Release_Null(u)
               \/ Release_Call(u)
               \/ Release_Lock(u)
               \/ Release_Push(u)
               \/ Release_Post(u)

DestroyStep(d) == \/ Destroy_Lock(d)
                  \/ Destroy_Clear(d)
                  \/ Destroy_Unlock(d)
                  \/ Destroy_UnlockAgain(d)

Next == \/ \E u \in Users : Get_Null(u) \/ Get_Try(u)
        \/ \E u \in Users : UserStep(u)
        \/ \E u \in Users : Get_Interrupted(u)
        \/ \E d \in Destroyers : Destroy_Call(d) \/ DestroyStep(d)

Spec == Init /\ [][Next]_vars

\* A thread that can go on again and again eventually does: it is scheduled, it
\* gets the mutex when it keeps trying and it is not passed over for ever in
\* sem_wait().  Nothing makes a thread call GetConnection(), nothing makes a
\* signal arrive and nothing makes the process exit.
Fairness ==
    /\ \A u \in Users : SF_vars(UserStep(u))
    /\ \A d \in Destroyers : SF_vars(DestroyStep(d))

FairSpec == Spec /\ Fairness

-----------------------------------------------------------------------------
(* Properties *)

\* DestroyPool() has begun to clear the list: the process is on its way out.
Destroyed == \E d \in Destroyers : destroyAt[d] \notin {"out", "start", "clear"}

\* A user has borrowed a connection from the pop in GetConnection() until the
\* push in ReleaseConnection().
Borrowing == {u \in Users : userAt[u] \in {"using", "relock", "push"} /\ conn[u] # NoConn}

\* Until the pool is destroyed a connection is in the list once or with one user:
\* never in two places and never lost (GetConnection(), ReleaseConnection()).
ExclusiveLoan ==
    ~crashed /\ ~Destroyed =>
        /\ IsInjective(conn_list)
        /\ \A u, v \in Borrowing : conn[u] = conn[v] => u = v
        /\ \A u \in Borrowing : conn[u] \notin Range(conn_list)
        /\ Conns = Range(conn_list) \cup {conn[u] : u \in Borrowing}

\* m_free_conn and m_cur_conn, which GetFreeConn() reports without taking the
\* lock, count the connections in the list and on loan in every state.
CountersAgree ==
    ~crashed /\ ~Destroyed => /\ m_free_conn = Len(conn_list)
                             /\ m_cur_conn = Cardinality(Borrowing)

\* Until the pool is destroyed the mutex is owned exactly by the thread inside a
\* critical section.
MutexInv ==
    ~Destroyed =>
        /\ \A u \in Users : userAt[u] \in {"front", "pop", "push"} <=> lock = u
        /\ \A d \in Destroyers : destroyAt[d] = "clear" <=> lock = d

\* A user that has read front() and not yet popped still sees its connection at
\* the front, and one that is giving a connection back has one.
LocalInv ==
    /\ ~Destroyed => \A u \in Users : userAt[u] = "pop" =>
          conn[u] = IF conn_list = <<>> THEN NoConn ELSE Head(conn_list)
    /\ \A u \in Users : userAt[u] \in {"relock", "push"} => conn[u] # NoConn

\* What holds of the list and its users together; inductive.
LoanInv == TypeOK /\ MutexInv /\ LocalInv /\ ExclusiveLoan

TokenHolders == {u \in Users : userAt[u] \in {"lock", "front", "pop"}}
Posting      == {u \in Users : userAt[u] = "post"}

\* As long as no signal has ended a wait the semaphore counts the list: the units
\* that are left, that a user has taken and not yet used and that a user is about
\* to post add up to the length of conn_list.
ReserveAgrees ==
    ~interrupted /\ ~Destroyed =>
        reserve + Cardinality(TokenHolders) + Cardinality(Posting) = Len(conn_list)

\* Only a wait ended by a signal, or the destruction of the pool, makes
\* GetConnection() pop an empty list: the test without the lock, the semaphore
\* and the mutex together rule it out otherwise.
CrashNeedsSignal == crashed => interrupted \/ Destroyed

\* DestroyPool() closes no connection that a worker is using, and no worker is
\* given a closed one, although it runs while the workers go on.
NoUseAfterClose == \A u \in Borrowing : conn[u] \notin closed

\* Nothing is closed before the pool is destroyed, and then nothing that is in
\* the list or in a user's hands; NoUseAfterClose made inductive.
CloseInv ==
    /\ ~Destroyed => closed = {}
    /\ Range(conn_list) \cap closed = {}
    /\ \A u \in Users : userAt[u] \in {"pop", "using", "relock", "push"} => conn[u] \notin closed

\* "信号量 - 1, 保证了如果数据库中没有连接，会阻塞等待": a thread that finds no
\* connection waits for one, so nobody pops an empty list.
NeverPopsEmpty == ~crashed

\* A user that waits in GetConnection() eventually has a connection, unless the
\* process crashes or exits first.
EveryWaitEnds ==
    \A u \in Users : userAt[u] = "wait" ~> (u \in Borrowing \/ crashed \/ Destroyed)

\* DestroyPool() gets the lock and ends although workers are still using the
\* pool, unless one of them crashes the process first.
DestroyEnds == \A d \in Destroyers : destroyAt[d] = "start" ~> (destroyAt[d] = "done" \/ crashed)

=============================================================================
