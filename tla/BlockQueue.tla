----------------------------- MODULE BlockQueue -----------------------------
(***************************************************************************)
(* The blocking queue of the log, TinyWebServer/log/block_queue.h: a ring  *)
(* buffer with a mutex and a condition variable.                           *)
(*                                                                         *)
(* m_back is the index of the newest element and m_front the index BEFORE  *)
(* the oldest one; both start at -1.  Every operation is two steps, lock() *)
(* and the body up to unlock(); a pop() that has to wait gives the mutex   *)
(* up in between.  push() never blocks: on a full queue it wakes the       *)
(* waiting threads and returns false.                                      *)
(***************************************************************************)
EXTENDS Locker, Sequences, FiniteSets

CONSTANTS Pushers,       \* threads that call push()
          Poppers,       \* threads that call pop(item)
          TimedPoppers,  \* threads that call pop(item, ms_timeout)
          Clearers,      \* threads that call clear()
          Items,
          MaxSize,       \* m_max_size
          NoItem

Takers  == Poppers \cup TimedPoppers
Threads == Pushers \cup Takers \cup Clearers

ASSUME QueueAssumption ==
    /\ MaxSize \in Nat \ {0}          \* the constructor exits otherwise
    /\ NoThread \notin Threads
    /\ NoItem \notin Items
    /\ Pushers \cap Takers = {} /\ Clearers \cap (Pushers \cup Takers) = {}
    /\ Poppers \cap TimedPoppers = {}

VARIABLES m_array,   \* T[m_max_size]
          m_size,
          m_front,
          m_back,
          m_mutex,   \* its owner
          m_cond,    \* the threads that wait on it
          at,        \* where each thread is
          item       \* the argument of its push() or the result of its pop()

ring == <<m_array, m_size, m_front, m_back>>
vars == <<ring, m_mutex, m_cond, at, item>>

Slots == 0 .. MaxSize - 1
Steps == {"out", "lock", "in", "waiting", "woken", "return"}

TypeOK ==
    /\ m_array \in [Slots -> Items \cup {NoItem}]
    /\ m_size \in 0 .. MaxSize
    /\ m_front \in -1 .. MaxSize - 1
    /\ m_back \in -1 .. MaxSize - 1
    /\ m_mutex \in Threads \cup {NoThread}
    /\ m_cond \in SUBSET Takers
    /\ at \in [Threads -> Steps]
    /\ item \in [Threads -> Items \cup {NoItem}]
    /\ \A p \in Pushers : at[p] # "out" => item[p] \in Items

\* The array's elements are default-constructed, which NoItem stands for.
Init ==
    /\ m_array = [i \in Slots |-> NoItem]
    /\ m_size = 0
    /\ m_front = -1
    /\ m_back = -1
    /\ m_mutex = NoThread
    /\ m_cond = {}
    /\ at = [t \in Threads |-> "out"]
    /\ item = [t \in Threads |-> NoItem]

Goes(t, from, to) == /\ at[t] = from
                     /\ at' = [at EXCEPT ![t] = to]

\* m_mutex.lock(), the first statement of every operation.
Enter(t) ==
    /\ Goes(t, "lock", "in")
    /\ Lock(m_mutex, t)
    /\ UNCHANGED <<ring, m_cond, item>>

-----------------------------------------------------------------------------
(* push(item) *)

Push_Call(p, x) ==
    /\ Goes(p, "out", "lock")
    /\ item' = [item EXCEPT ![p] = x]
    /\ UNCHANGED <<ring, m_mutex, m_cond>>

Push_Full(p) ==
    /\ Goes(p, "in", "out")
    /\ m_size >= MaxSize
    /\ CondBroadcast(m_cond)
    /\ Unlock(m_mutex)
    /\ item' = [item EXCEPT ![p] = NoItem]
    /\ UNCHANGED ring

\* Fault: waiting threads are not woken.
Fault_PushSilently(p) ==
    /\ Goes(p, "in", "out")
    /\ m_size < MaxSize
    /\ m_back' = (m_back + 1) % MaxSize
    /\ m_array' = [m_array EXCEPT ![m_back'] = item[p]]
    /\ m_size' = m_size + 1
    /\ Unlock(m_mutex)
    /\ item' = [item EXCEPT ![p] = NoItem]
    /\ UNCHANGED <<m_front, m_cond>>

Push_Store(p) ==
    /\ Goes(p, "in", "out")
    /\ m_size < MaxSize
    /\ m_back' = (m_back + 1) % MaxSize
    /\ m_array' = [m_array EXCEPT ![m_back'] = item[p]]
    /\ m_size' = m_size + 1
    /\ CondBroadcast(m_cond)
    /\ Unlock(m_mutex)
    /\ item' = [item EXCEPT ![p] = NoItem]
    /\ UNCHANGED m_front

-----------------------------------------------------------------------------
(* pop(item) and pop(item, ms_timeout) *)

Pop_Call(c) ==
    /\ Goes(c, "out", "lock")
    /\ UNCHANGED <<ring, m_mutex, m_cond, item>>

\* The queue is empty: wait.  The timed pop() waits once only.
Pop_Wait(c) ==
    /\ Goes(c, "in", "waiting")
    /\ m_size <= 0
    /\ CondWait(m_cond, m_mutex, c)
    /\ UNCHANGED <<ring, item>>

\* A signalled pop(item) tests the size again, a signalled timed one goes on to
\* its second test.
Pop_Woken(c) ==
    /\ Goes(c, "waiting", IF c \in TimedPoppers THEN "woken" ELSE "in")
    /\ CondReturn(m_cond, m_mutex, c)
    /\ UNCHANGED <<ring, item>>

Pop_Spurious(c) ==
    /\ Goes(c, "waiting", IF c \in TimedPoppers THEN "woken" ELSE "in")
    /\ CondGiveUp(m_cond, m_mutex, c)
    /\ UNCHANGED <<ring, item>>

\* timewait() runs out of time: it returns false holding the mutex, and pop()
\* unlocks and returns false.
Pop_Timeout(c) ==
    /\ c \in TimedPoppers
    /\ Goes(c, "waiting", "out")
    /\ m_mutex = NoThread
    /\ m_cond' = m_cond \ {c}
    /\ UNCHANGED <<ring, m_mutex, item>>

\* The second test of the timed pop() fails: another thread was faster.
Pop_TooLate(c) ==
    /\ Goes(c, "woken", "out")
    /\ m_size <= 0
    /\ Unlock(m_mutex)
    /\ UNCHANGED <<ring, m_cond, item>>

\* Fault: the newest element is read.
Fault_PopReadsBack(c) ==
    /\ at[c] \in {"in", "woken"}
    /\ at' = [at EXCEPT ![c] = "return"]
    /\ m_size > 0
    /\ m_front' = (m_front + 1) % MaxSize
    /\ item' = [item EXCEPT ![c] = m_array[m_back]]
    /\ m_size' = m_size - 1
    /\ Unlock(m_mutex)
    /\ UNCHANGED <<m_array, m_back, m_cond>>

Pop_Take(c) ==
    /\ at[c] \in {"in", "woken"}
    /\ at' = [at EXCEPT ![c] = "return"]
    /\ m_size > 0
    /\ m_front' = (m_front + 1) % MaxSize
    /\ item' = [item EXCEPT ![c] = m_array[m_front']]
    /\ m_size' = m_size - 1
    /\ Unlock(m_mutex)
    /\ UNCHANGED <<m_array, m_back, m_cond>>

\* The caller of pop() is done with what it got.
Pop_Return(c) ==
    /\ Goes(c, "return", "out")
    /\ item' = [item EXCEPT ![c] = NoItem]
    /\ UNCHANGED <<ring, m_mutex, m_cond>>

-----------------------------------------------------------------------------
(* clear() *)

Clear_Call(t) ==
    /\ Goes(t, "out", "lock")
    /\ UNCHANGED <<ring, m_mutex, m_cond, item>>

Clear_Reset(t) ==
    /\ Goes(t, "in", "out")
    /\ m_size' = 0
    /\ m_front' = -1
    /\ m_back' = -1
    /\ Unlock(m_mutex)
    /\ UNCHANGED <<m_array, m_cond, item>>

-----------------------------------------------------------------------------

Next == \/ \E p \in Pushers, x \in Items : Push_Call(p, x)
        \/ \E t \in Threads : Enter(t)
        \/ \E p \in Pushers : Push_Full(p) \/ Push_Store(p)
        \/ \E c \in Takers : \/ Pop_Call(c)
                             \/ Pop_Wait(c)
                             \/ Pop_Woken(c)
                             \/ Pop_Spurious(c)
                             \/ Pop_Timeout(c)
                             \/ Pop_TooLate(c)
                             \/ Pop_Take(c)
                             \/ Pop_Return(c)
        \/ \E t \in Clearers : Clear_Call(t) \/ Clear_Reset(t)

Spec == Init /\ [][Next]_vars

-----------------------------------------------------------------------------
(* Properties *)

\* The three ways of saying how many elements there are agree, at every position
\* of the ring and across the wrap: m_size, and the distance from m_front to
\* m_back, which are equal for an empty and for a full queue.
RingInv == \/ m_back - m_front = m_size
           \/ m_back - m_front = m_size - MaxSize

\* The mutex is owned exactly by the thread inside an operation's body.
MutexInv == \A t \in Threads : at[t] \in {"in", "woken"} <=> m_mutex = t

\* No wake-up is lost: a thread is left waiting on m_cond only while there is
\* nothing to pop.
NoLostWakeup == m_cond # {} => m_size = 0

\* Every slot between m_front and m_back holds an element that was pushed.
SlotsInv == \A i \in 1 .. m_size : m_array[(m_front + i) % MaxSize] \in Items

\* pop() never hands out an element that was not pushed: the slots it reads have
\* been written (m_array is not initialised beyond the default constructor).
PopsWhatWasPushed == \A c \in Takers : at[c] = "return" => item[c] \in Items

\* What holds of the ring, its mutex and its condition together; inductive.
QueueInv == TypeOK /\ RingInv /\ MutexInv /\ NoLostWakeup /\ SlotsInv /\ PopsWhatWasPushed

\* The elements of the ring, oldest first.
Contents == [i \in 1 .. m_size |-> m_array[(m_front + i) % MaxSize]]

Taken == [c \in Takers |-> IF at[c] = "return" THEN item[c] ELSE NoItem]

BQ == INSTANCE BoundedQueue WITH items <- Contents, taken <- Taken

\* The ring buffer is a bounded first-in first-out queue.
ImplementsBoundedQueue == BQ!Spec

=============================================================================
