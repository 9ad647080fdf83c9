------------------------------- MODULE Locker -------------------------------
(***************************************************************************)
(* The pthread wrappers of TinyWebServer/lock/locker.h: Sem (a counting    *)
(* semaphore), Locker (a mutex) and Cond (a condition variable).           *)
(*                                                                         *)
(* A mutex is a variable that holds the thread that owns it, or NoThread.  *)
(* A semaphore is a variable that holds its count.  A condition variable   *)
(* is a variable that holds the set of threads that wait on it.  Every     *)
(* operator below constrains the next value of the variable it is given,   *)
(* and a blocking call is an action that is disabled while it would block. *)
(***************************************************************************)
EXTENDS Integers

CONSTANT NoThread   \* the owner of a mutex that is not locked

-----------------------------------------------------------------------------
(* Locker *)

Lock(mutex, self) == /\ mutex = NoThread
                     /\ mutex' = self

Unlock(mutex) == mutex' = NoThread

-----------------------------------------------------------------------------
(* Sem *)

\* sem_wait() finds a positive count and takes one unit, now or on wake-up.
SemWait(sem) == /\ sem > 0
                /\ sem' = sem - 1

\* sem_wait() finds the count at zero and puts the thread to sleep.
SemBlock(sem) == /\ sem = 0
                 /\ UNCHANGED sem

\* A signal handler installed without SA_RESTART ends the sleep of sem_wait():
\* wait() returns false and no unit is taken.
SemInterrupted(sem) == UNCHANGED sem

SemPost(sem) == sem' = sem + 1

-----------------------------------------------------------------------------
(* Cond *)

\* wait() and timewait() start: release the mutex and join the waiting threads.
CondWait(cond, mutex, self) == /\ cond' = cond \cup {self}
                               /\ Unlock(mutex)

\* A thread that was signalled gets the mutex back and its wait() returns true.
CondReturn(cond, mutex, self) == /\ self \notin cond
                                 /\ UNCHANGED cond
                                 /\ Lock(mutex, self)

\* A wait ends although nobody signalled: a spurious wake-up or, in timewait(),
\* the end of the time.
CondGiveUp(cond, mutex, self) == /\ self \in cond
                                 /\ cond' = cond \ {self}
                                 /\ Lock(mutex, self)

CondBroadcast(cond) == cond' = {}

=============================================================================
