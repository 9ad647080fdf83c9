----------------------------- MODULE TimerList ------------------------------
(***************************************************************************)
(* The list of connection timers of TinyWebServer: SortTimeLst of          *)
(* timer/lst_timer.cpp at the level of its pointers, driven as the event   *)
(* loop drives it: WebServer::timer() for a new connection, adjust_timer() *)
(* when data moves, del_timer() when it closes, time_handler() on SIGALRM. *)
(* Only the main thread touches the list, so a call is one step.           *)
(*                                                                         *)
(* A timer is the heap object of one connection.  The model stops when the *)
(* code follows a null pointer or one to freed memory, frees an object     *)
(* twice or walks round a cycle for ever, and records which it was.        *)
(***************************************************************************)
EXTENDS Integers, FiniteSets, FiniteSetsExt

CONSTANTS Timers,
          Null,
          Lifetime,   \* 3 * TIMESLOT
          MaxTime     \* bound: how far the clock goes

ASSUME TimerAssumption == /\ IsFiniteSet(Timers)
                          /\ Null \notin Timers
                          /\ Lifetime \in Nat \ {0}
                          /\ MaxTime \in Nat

VARIABLES lst,       \* head, tail, and the prev and next of every timer
          expire,
          live,      \* the timers that are allocated
          deleting,  \* the timer that WebServer::del_timer() is deleting, or Null
          now,       \* what time() returns
          fault,     \* why the process stopped, or "none"
          setBack,   \* history: the clock has been set back
          spliced    \* history: a timer that was not the head was taken out

vars == <<lst, expire, live, deleting, now, fault, setBack, spliced>>

Pointers == Timers \cup {Null}
Faults   == {"none", "null", "freed", "loop", "double free"}

TypeOK ==
    /\ lst \in [head : Pointers, tail : Pointers,
                prev : [Timers -> Pointers], next : [Timers -> Pointers]]
    /\ expire \in [Timers -> 0 .. MaxTime + Lifetime]
    /\ live \in SUBSET Timers
    /\ deleting \in Pointers
    /\ now \in 0 .. MaxTime
    /\ fault \in Faults
    /\ setBack \in BOOLEAN
    /\ spliced \in BOOLEAN

Init ==
    /\ lst = [head |-> Null, tail |-> Null, prev |-> [t \in Timers |-> Null],
              next |-> [t \in Timers |-> Null]]
    /\ expire = [t \in Timers |-> 0]
    /\ live = {}
    /\ deleting = Null
    /\ now = 0
    /\ fault = "none"
    /\ setBack = FALSE
    /\ spliced = FALSE

-----------------------------------------------------------------------------
(* Following pointers.  "alive" is the set of timers allocated at the time. *)

\* What becomes of the process when it uses p as a pointer to a timer.
Deref(p, alive) == IF p \in alive THEN "none" ELSE IF p = Null THEN "null" ELSE "freed"

\* The nodes met from p along next: the walk stays where it cannot go on, and is
\* still at a timer after as many steps as there are timers only in a cycle.
Steps == 0 .. Cardinality(Timers)
Walk(next, p, alive) ==
    LET at[k \in Steps] ==
          IF k = 0 THEN p
          ELSE IF at[k - 1] \in alive THEN next[at[k - 1]] ELSE at[k - 1]
    IN  at

\* The outcome of an operation: the list it leaves, and the fault it met.
Outcome(l, why) == [lst |-> l, fault |-> why]

-----------------------------------------------------------------------------
(* SortTimeLst *)

\* Fault: the last node is not recorded.
Fault_TailKept(l, t) ==
    [l EXCEPT !.next = [@ EXCEPT ![l.tail] = t, ![t] = Null], !.prev[t] = t]

\* Behind the last node.  t->prev is set to t itself.
LinkAtTail(l, t) ==
    [l EXCEPT !.next = [@ EXCEPT ![l.tail] = t, ![t] = Null], !.prev[t] = t, !.tail = t]

\* Between p and q.  t->next is set to t itself.
LinkBetween(l, p, t, q) ==
    [l EXCEPT !.next = [@ EXCEPT ![p] = t, ![t] = t],
              !.prev = [@ EXCEPT ![t] = p, ![q] = t]]

\* add_timer(timer, lst_head): before the first later timer behind lst_head, or
\* at the tail.
AddBehind(l, t, lst_head, ex, alive) ==
    LET w    == Walk(l.next, lst_head, alive)
        ends == {k \in Steps \ {0} : w[k] \notin alive \/ ex[t] < ex[w[k]]}
        tmp  == w[Min(ends)]
    IN  CASE lst_head \notin alive -> Outcome(l, Deref(lst_head, alive))
          [] lst_head \in alive /\ ends = {} -> Outcome(l, "loop")
          [] lst_head \in alive /\ ends # {} /\ tmp = Null ->
               IF l.tail \in alive THEN Outcome(LinkAtTail(l, t), "none")
                                   ELSE Outcome(l, Deref(l.tail, alive))
          [] lst_head \in alive /\ ends # {} /\ tmp \in alive ->
               Outcome(LinkBetween(l, w[Min(ends) - 1], t, tmp), "none")
          [] OTHER -> Outcome(l, "freed")

\* add_timer(timer)
AddTimer(l, t, ex, alive) ==
    CASE l.head = Null -> Outcome([l EXCEPT !.head = t, !.tail = t], "none")
      [] l.head \in alive /\ ex[t] < ex[l.head] ->
           Outcome([l EXCEPT !.prev[l.head] = t, !.next[t] = l.head, !.head = t], "none")
      [] l.head \in alive /\ ex[t] >= ex[l.head] -> AddBehind(l, t, l.head, ex, alive)
      [] OTHER -> Outcome(l, "freed")

\* adjust_timer(): t has to move behind its successor.
MustMove(l, t, ex, alive) ==
    /\ ~(t = l.head /\ t = l.tail)
    /\ l.next[t] \in alive
    /\ ex[t] >= ex[l.next[t]]

\* adjust_timer(): take the timer out and add it again.
AdjustTimer(l, t, ex, alive) ==
    LET p == l.prev[t]
        n == l.next[t]
    IN  CASE MustMove(l, t, ex, alive) /\ t = l.head ->
               AddBehind([l EXCEPT !.head = n, !.prev[n] = Null, !.next[t] = Null],
                         t, n, ex, alive)
          [] MustMove(l, t, ex, alive) /\ t # l.head /\ p \in alive ->
               AddBehind([l EXCEPT !.next[p] = n, !.prev[n] = p], t, l.head, ex, alive)
          [] MustMove(l, t, ex, alive) /\ t # l.head /\ p \notin alive ->
               Outcome(l, Deref(p, alive))
          [] ~(t = l.head /\ t = l.tail) /\ Deref(n, alive) = "freed" -> Outcome(l, "freed")
          [] OTHER -> Outcome(l, "none")

\* del_timer(), up to the delete.
Unlink(l, t, alive) ==
    LET p == l.prev[t]
        n == l.next[t]
    IN  CASE l.head = l.tail -> Outcome([l EXCEPT !.head = Null, !.tail = Null], "none")
          [] l.head # l.tail /\ t = l.head /\ n \in alive ->
               Outcome([l EXCEPT !.head = n, !.prev[n] = Null], "none")
          [] l.head # l.tail /\ t # l.head /\ p \in alive /\ n \in alive ->
               Outcome([l EXCEPT !.next[p] = n, !.prev[n] = p], "none")
          [] OTHER ->
               Outcome(l, IF t = l.head \/ p \in alive THEN Deref(n, alive) ELSE Deref(p, alive))

\* What is left in the list when its timers in S have been freed.
Freed(l, S) == [l EXCEPT !.next = [t \in Timers |-> IF t \in S THEN Null ELSE @[t]],
                         !.prev = [t \in Timers |-> IF t \in S THEN Null ELSE @[t]]]

\* Fault: a timer that expires in this second is left alone.
Fault_TickLate(w, ex, alive, cur) == {k \in Steps : w[k] \notin alive \/ ex[w[k]] >= cur}

\* tick(): where the loop over the expired timers of the walk w ends.
TickEnds(w, ex, alive, cur) == {k \in Steps : w[k] \notin alive \/ ex[w[k]] > cur}

\* Fault: the head stays at the timer that is freed.
Fault_HeadStays(l, p) == l

\* tick(): head = tmp->next.
HeadAt(l, p) == [l EXCEPT !.head = p]

-----------------------------------------------------------------------------
(* The event loop *)

Running == fault = "none" /\ deleting = Null

NewExpire(t) == [expire EXCEPT ![t] = now + Lifetime]

Settle(outcome) == lst' = outcome.lst /\ fault' = outcome.fault

\* WebServer::timer(), for a new connection.
Timer(t) ==
    /\ Running
    /\ t \notin live
    /\ live' = live \cup {t}
    /\ expire' = NewExpire(t)
    /\ Settle(AddTimer(lst, t, expire', live'))
    /\ UNCHANGED <<deleting, now, setBack, spliced>>

\* WebServer::adjust_timer(), when data has moved.
Adjust(t) ==
    /\ Running
    /\ t \in live
    /\ expire' = NewExpire(t)
    /\ Settle(AdjustTimer(lst, t, expire', live))
    /\ spliced' = (spliced \/ (MustMove(lst, t, expire', live) /\ t # lst.head))
    /\ UNCHANGED <<live, deleting, now, setBack>>

\* WebServer::del_timer(), when a connection is closed: SortTimeLst::del_timer()
\* takes the timer out and frees it ...
Del(t) ==
    /\ Running
    /\ t \in live
    /\ LET o == Unlink(lst, t, live)
       IN  IF o.fault = "none"
           THEN /\ Settle([o EXCEPT !.lst = Freed(o.lst, {t})])
                /\ live' = live \ {t}
                /\ expire' = [expire EXCEPT ![t] = 0]
                /\ deleting' = t
           ELSE Settle(o) /\ UNCHANGED <<live, expire, deleting>>
    /\ spliced' = (spliced \/ (lst.head # lst.tail /\ t # lst.head))
    /\ UNCHANGED <<now, setBack>>

\* ... and del_timer() frees it again, for which the allocator stops the process.
DelAgain ==
    /\ fault = "none" /\ deleting # Null
    /\ fault' = IF deleting \in live THEN "none" ELSE "double free"
    /\ UNCHANGED <<lst, expire, live, deleting, now, setBack, spliced>>

\* Utils::time_handler() and tick(): the expired timers at the front are fired
\* and freed.
TimeHandler ==
    /\ Running
    /\ LET w     == Walk(lst.next, lst.head, live)
           ends  == TickEnds(w, expire, live, now)
           last  == IF ends = {} THEN Cardinality(Timers) ELSE Min(ends)
           fired == {w[k] : k \in 0 .. last - 1}
           l     == Freed(HeadAt(lst, w[last]), fired)
       IN  /\ live' = live \ fired
           /\ expire' = [t \in Timers |-> IF t \in fired THEN 0 ELSE expire[t]]
           /\ Settle(CASE w[last] = Null -> Outcome(l, "none")
                       [] w[last] \in live \ fired ->
                            Outcome([l EXCEPT !.prev[w[last]] = IF last = 0 THEN @ ELSE Null], "none")
                       [] OTHER -> Outcome(l, "freed"))
    /\ UNCHANGED <<deleting, now, setBack, spliced>>

Clock ==
    /\ Running
    /\ now < MaxTime
    /\ now' = now + 1
    /\ UNCHANGED <<lst, expire, live, deleting, fault, setBack, spliced>>

SetBack ==
    /\ Running
    /\ now' \in 0 .. now - 1
    /\ setBack' = TRUE
    /\ UNCHANGED <<lst, expire, live, deleting, fault, spliced>>

Next == \/ \E t \in Timers : Timer(t) \/ Adjust(t) \/ Del(t)
        \/ DelAgain
        \/ TimeHandler
        \/ Clock
        \/ SetBack

Spec == Init /\ [][Next]_vars

-----------------------------------------------------------------------------
(* Properties *)

List      == Walk(lst.next, lst.head, live)
Reachable == {List[k] : k \in Steps} \cap live

\* Until the clock is set back or a timer is taken out of the middle, the list
\* holds exactly the timers of the open connections and ends at tail.
ListComplete ==
    fault = "none" /\ ~setBack /\ ~spliced =>
        /\ Reachable = live
        /\ List[Cardinality(Timers)] = Null
        /\ lst.head # Null => lst.tail \in live /\ lst.next[lst.tail] = Null

\* Until then the timers that tick() walks along expire in ascending order.  (With
\* four timers, one that was taken out of the middle can leave them out of order.)
Ascending ==
    fault = "none" /\ ~setBack /\ ~spliced =>
        \A j, k \in Steps :
            j < k /\ List[j] \in live /\ List[k] \in live => expire[List[j]] <= expire[List[k]]

\* tick() closes exactly the connections whose time is over, although it stops at
\* the first timer that has not expired.
TickExact ==
    [][TimeHandler /\ ~setBack /\ ~spliced => live' = {t \in live : expire[t] > now}]_vars

\* A null or dangling pointer is followed and a walk goes round for ever only
\* after the clock was set back or a timer was taken out of the middle.
FaultNeedsCause == fault \in {"null", "freed", "loop"} => setBack \/ spliced

\* "利用升序事件链表管理所有定时器": the list manages all timers, so the timer of an
\* open connection can be reached from its head.
ManagesAllTimers == Running /\ ~setBack => live \subseteq Reachable

\* The list over any history of its operations: well typed and, unless the clock was
\* set back or a timer was taken out of the middle, complete and in the order of
\* expiry.
ListSound == TypeOK /\ ListComplete /\ Ascending
=============================================================================
