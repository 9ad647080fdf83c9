----------------------------- MODULE ThreadPool -----------------------------
(***************************************************************************)
(* The half-sync/half-reactor thread pool of                               *)
(* TinyWebServer/threadpool/threadpool.h.                                  *)
(*                                                                         *)
(* Callers append requests to m_work_queue under m_queue_locker and then   *)
(* post m_queue_stat; the worker threads wait on m_queue_stat, take the    *)
(* lock and pop the front of the queue.  run() does not look at the        *)
(* result of Sem::wait(), and webserver.cpp installs the handlers          *)
(* of SIGALRM and SIGTERM without SA_RESTART, so a sleeping worker may     *)
(* come back from wait() without having taken a unit of the semaphore.     *)
(*                                                                         *)
(* What a worker does with a request once it has popped it is one step     *)
(* here (Serve): it touches neither the queue nor the semaphore.           *)
(***************************************************************************)
EXTENDS Locker, Sequences, FiniteSets

CONSTANTS Callers,      \* threads that call append() and append_p()
          Workers,      \* the m_thread_number threads that execute run()
          Requests,     \* the connections, T* request
          MaxRequests,  \* m_max_requests
          NoRequest     \* a worker that holds no request

ASSUME PoolAssumption ==
    /\ MaxRequests \in Nat \ {0}      \* the constructor throws otherwise
    /\ IsFiniteSet(Workers)
    /\ IsFiniteSet(Callers)
    /\ Workers \cap Callers = {}
    /\ NoThread \notin Workers \cup Callers
    /\ NoRequest \notin Requests

\* The values append() stores in request->m_state: 0 to read, 1 to write.
\* append_p() leaves the field alone, which is what Keep stands for.
Keep == 2
IoStates == {0, 1}

VARIABLES m_work_queue,    \* std::list<T*>
          m_queue_locker,  \* the owner of the queue's mutex
          m_queue_stat,    \* the count of the semaphore
          m_state,         \* the m_state field of every request
          callerAt,        \* where each caller is in append()
          callerArg,       \* the arguments of that call
          workerAt,        \* where each worker is in run()
          waitResult,      \* the (ignored) result of its last Sem::wait()
          request          \* its local variable request

queueVars  == <<m_work_queue, m_queue_locker, m_queue_stat, m_state>>
callerVars == <<callerAt, callerArg>>
workerVars == <<workerAt, waitResult, request>>
vars == <<queueVars, callerVars, workerVars>>

Args == [request : Requests \cup {NoRequest}, state : IoStates \cup {Keep}]
NoArg == [request |-> NoRequest, state |-> Keep]

CallerSteps == {"idle", "lock", "check", "push", "post"}
WorkerSteps == {"wait", "asleep", "lock", "check", "pop", "serve"}

TypeOK ==
    /\ m_work_queue \in Seq(Requests)
    /\ m_queue_locker \in Callers \cup Workers \cup {NoThread}
    /\ m_queue_stat \in Nat
    /\ m_state \in [Requests -> IoStates]
    /\ callerAt \in [Callers -> CallerSteps]
    /\ callerArg \in [Callers -> Args]
    /\ \A c \in Callers : callerAt[c] # "idle" => callerArg[c].request \in Requests
    /\ workerAt \in [Workers -> WorkerSteps]
    /\ waitResult \in [Workers -> BOOLEAN]
    /\ request \in [Workers -> Requests \cup {NoRequest}]

Init ==
    /\ m_work_queue = <<>>
    /\ m_queue_locker = NoThread
    /\ m_queue_stat = 0
    /\ m_state = [r \in Requests |-> 0]
    /\ callerAt = [c \in Callers |-> "idle"]
    /\ callerArg = [c \in Callers |-> NoArg]
    /\ workerAt = [w \in Workers |-> "wait"]
    /\ waitResult = [w \in Workers |-> FALSE]
    /\ request = [w \in Workers |-> NoRequest]

-----------------------------------------------------------------------------
(* append(request, state) and append_p(request) *)

CallerGoes(c, from, to) == /\ callerAt[c] = from
                           /\ callerAt' = [callerAt EXCEPT ![c] = to]

CallerReturns(c, from) == /\ CallerGoes(c, from, "idle")
                          /\ callerArg' = [callerArg EXCEPT ![c] = NoArg]

Append_Call(c, r, s) ==
    /\ CallerGoes(c, "idle", "lock")
    /\ callerArg' = [callerArg EXCEPT ![c] = [request |-> r, state |-> s]]
    /\ UNCHANGED <<queueVars, workerVars>>

Append_Lock(c) ==
    /\ CallerGoes(c, "lock", "check")
    /\ Lock(m_queue_locker, c)
    /\ UNCHANGED <<m_work_queue, m_queue_stat, m_state, callerArg, workerVars>>

\* The queue has room: go on to push_back().
Append_Room(c) ==
    /\ CallerGoes(c, "check", "push")
    /\ Len(m_work_queue) < MaxRequests
    /\ UNCHANGED <<queueVars, callerArg, workerVars>>

\* Fault: the semaphore is posted although nothing was pushed.
Fault_FullPosts(c) ==
    /\ CallerReturns(c, "check")
    /\ Len(m_work_queue) >= MaxRequests
    /\ Unlock(m_queue_locker)
    /\ SemPost(m_queue_stat)
    /\ UNCHANGED <<m_work_queue, m_state, workerVars>>

\* The queue is full: unlock and return false.
Append_Full(c) ==
    /\ CallerReturns(c, "check")
    /\ Len(m_work_queue) >= MaxRequests
    /\ Unlock(m_queue_locker)
    /\ UNCHANGED <<m_work_queue, m_queue_stat, m_state, workerVars>>

Append_Push(c) ==
    /\ CallerGoes(c, "push", "post")
    /\ LET arg == callerArg[c]
       IN  /\ m_work_queue' = Append(m_work_queue, arg.request)
           /\ m_state' = IF arg.state = Keep
                         THEN m_state
                         ELSE [m_state EXCEPT ![arg.request] = arg.state]
    /\ Unlock(m_queue_locker)
    /\ UNCHANGED <<m_queue_stat, callerArg, workerVars>>

\* Fault: the post is missing.
Fault_NoPost(c) ==
    /\ CallerReturns(c, "post")
    /\ UNCHANGED <<queueVars, workerVars>>

Append_Post(c) ==
    /\ CallerReturns(c, "post")
    /\ SemPost(m_queue_stat)
    /\ UNCHANGED <<m_work_queue, m_queue_locker, m_state, workerVars>>

CallerStep(c) == \/ Append_Lock(c)
                 \/ Append_Room(c)
                 \/ Append_Full(c)
                 \/ Append_Push(c)
                 \/ Append_Post(c)

-----------------------------------------------------------------------------
(* run() *)

WorkerGoes(w, from, to) == /\ workerAt[w] \in from
                           /\ workerAt' = [workerAt EXCEPT ![w] = to]

\* m_queue_stat.wait() takes a unit, at once or after a sleep.
Run_Wait(w) ==
    /\ WorkerGoes(w, {"wait", "asleep"}, "lock")
    /\ SemWait(m_queue_stat)
    /\ waitResult' = [waitResult EXCEPT ![w] = TRUE]
    /\ UNCHANGED <<m_work_queue, m_queue_locker, m_state, request, callerVars>>

Run_Sleep(w) ==
    /\ WorkerGoes(w, {"wait"}, "asleep")
    /\ SemBlock(m_queue_stat)
    /\ UNCHANGED <<queueVars, waitResult, request, callerVars>>

\* A signal is delivered to a sleeping worker; run() goes on regardless.
Run_Interrupted(w) ==
    /\ WorkerGoes(w, {"asleep"}, "lock")
    /\ SemInterrupted(m_queue_stat)
    /\ waitResult' = [waitResult EXCEPT ![w] = FALSE]
    /\ UNCHANGED <<queueVars, request, callerVars>>

Run_Lock(w) ==
    /\ WorkerGoes(w, {"lock"}, "check")
    /\ Lock(m_queue_locker, w)
    /\ UNCHANGED <<m_work_queue, m_queue_stat, m_state, waitResult, request, callerVars>>

\* The queue is empty: unlock and continue.
Run_Empty(w) ==
    /\ WorkerGoes(w, {"check"}, "wait")
    /\ m_work_queue = <<>>
    /\ Unlock(m_queue_locker)
    /\ UNCHANGED <<m_work_queue, m_queue_stat, m_state, waitResult, request, callerVars>>

Run_NotEmpty(w) ==
    /\ WorkerGoes(w, {"check"}, "pop")
    /\ m_work_queue # <<>>
    /\ UNCHANGED <<queueVars, waitResult, request, callerVars>>

\* Fault: the last request is served first.
Fault_PopBack(w) ==
    /\ WorkerGoes(w, {"pop"}, "serve")
    /\ LET n == Len(m_work_queue)
       IN  /\ request' = [request EXCEPT ![w] = m_work_queue[n]]
           /\ m_work_queue' = SubSeq(m_work_queue, 1, n - 1)
    /\ Unlock(m_queue_locker)
    /\ UNCHANGED <<m_queue_stat, m_state, waitResult, callerVars>>

\* front(), pop_front(), unlock.  No caller appends a null pointer, so the
\* test of request that follows always succeeds.
Run_Pop(w) ==
    /\ WorkerGoes(w, {"pop"}, "serve")
    /\ request' = [request EXCEPT ![w] = Head(m_work_queue)]
    /\ m_work_queue' = Tail(m_work_queue)
    /\ Unlock(m_queue_locker)
    /\ UNCHANGED <<m_queue_stat, m_state, waitResult, callerVars>>

Run_Serve(w) ==
    /\ WorkerGoes(w, {"serve"}, "wait")
    /\ request' = [request EXCEPT ![w] = NoRequest]
    /\ UNCHANGED <<queueVars, waitResult, callerVars>>

WorkerStep(w) == \/ Run_Wait(w)
                 \/ Run_Sleep(w)
                 \/ Run_Lock(w)
                 \/ Run_Empty(w)
                 \/ Run_NotEmpty(w)
                 \/ Run_Pop(w)
                 \/ Run_Serve(w)

-----------------------------------------------------------------------------

Next == \/ \E c \in Callers, r \in Requests, s \in IoStates \cup {Keep} :
               Append_Call(c, r, s)
        \/ \E c \in Callers : CallerStep(c)
        \/ \E w \in Workers : WorkerStep(w)
        \/ \E w \in Workers : Run_Interrupted(w)

Spec == Init /\ [][Next]_vars

\* A thread that can run is eventually scheduled, and a thread that keeps
\* trying to lock the mutex eventually gets it.  Nothing makes a caller call
\* append() and nothing makes a signal arrive.
Fairness ==
    /\ \A c \in Callers : WF_vars(CallerStep(c)) /\ SF_vars(Append_Lock(c))
    /\ \A w \in Workers : WF_vars(WorkerStep(w)) /\ SF_vars(Run_Lock(w))

FairSpec == Spec /\ Fairness

-----------------------------------------------------------------------------
(* Properties *)

\* Workers that hold a unit of the semaphore and have not yet used it to look
\* at the queue; workers that sleep in wait() or came back from it empty-handed.
TokenHolders == {w \in Workers : workerAt[w] \in {"lock", "check", "pop"} /\ waitResult[w]}
Tokenless    == {w \in Workers : \/ workerAt[w] = "asleep"
                                 \/ workerAt[w] \in {"lock", "check", "pop"} /\ ~waitResult[w]}
Posting      == {c \in Callers : callerAt[c] = "post"}

\* The units of m_queue_stat that are available, owed or about to be used.
Credit == m_queue_stat + Cardinality(Posting) + Cardinality(TokenHolders)

\* No accepted request is stranded: for every request in m_work_queue there is
\* a unit of the semaphore that has been or will be posted and that sends a
\* worker to the queue, even though workers interrupted by a signal pop requests
\* without having taken a unit (run(), append()).
NoStrandedRequest == Len(m_work_queue) <= Credit

\* The count of m_queue_stat stays bounded: the units left over when interrupted
\* workers pop requests (run() ignores the result of wait()) do not accumulate
\* beyond one per thread, however long the server runs.
NoTokenLeak ==
    Credit + Cardinality(Tokenless)
        <= Len(m_work_queue) + Cardinality(Workers) + Cardinality(Callers)

\* append() and append_p() test the size before they push, so the queue never
\* holds more than m_max_requests requests, whatever the interleaving.
QueueBounded == Len(m_work_queue) <= MaxRequests

\* run() calls front() and pop_front() only while the list has an element: the
\* emptiness it tested still holds when it pops.
PopIsSafe == \A w \in Workers : workerAt[w] = "pop" => m_work_queue # <<>>

\* The mutex is owned by exactly the thread that is inside a critical section of
\* append(), append_p() or run(): every path out of one, the early returns
\* included, unlocks it once.
MutexInv ==
    /\ \A c \in Callers : callerAt[c] \in {"check", "push"} <=> m_queue_locker = c
    /\ \A w \in Workers : workerAt[w] \in {"check", "pop"} <=> m_queue_locker = w

\* A caller that found room still has room when it pushes, and a worker holds a
\* request exactly while it serves it.
LocalInv ==
    /\ \A c \in Callers : callerAt[c] = "push" => Len(m_work_queue) < MaxRequests
    /\ \A w \in Workers : request[w] # NoRequest <=> workerAt[w] = "serve"

\* What holds of the queue, the mutex and the threads together.  It is inductive,
\* while TypeOK alone is not: pop_front() keeps the list's type only because of
\* PopIsSafe, and PopIsSafe only holds because of MutexInv.
QueueInv == TypeOK /\ MutexInv /\ LocalInv /\ PopIsSafe /\ QueueBounded

-----------------------------------------------------------------------------
(* The abstract specification *)

WQ == INSTANCE WorkQueue WITH pending <- m_work_queue, serving <- request

\* The pool behaves as a bounded queue from which idle workers take requests in
\* the order in which they were accepted, and no request waits for ever while a
\* worker is idle.
ImplementsWorkQueue == WQ!Spec

\* The same without the waiting: the part of the promise that is proved.
ImplementsWorkQueueSafely == WQ!Safety
=============================================================================
