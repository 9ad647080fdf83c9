---------------------------- MODULE ConcurrentSum ---------------------------
(***************************************************************************)
(* process/multi_thread_cal.cpp: the sum of the squares of 1 .. MAX, by    *)
(* one thread and then by as many as the hardware runs at a time.  Each    *)
(* thread adds the squares of a range of its own and then adds its part to *)
(* the shared sum under a mutex.                                           *)
(*                                                                         *)
(* "sum += tmp" reads sum in one step and writes it in another.  The sum   *)
(* has 64 bits and wraps, as the compiled code does; the squares of        *)
(* 1 .. 1e8 do not fit.                                                    *)
(***************************************************************************)
EXTENDS Integers, FiniteSetsExt

CONSTANTS MaxVs,    \* the values of MAX
          Counts,   \* the values of hardware_concurrency(), 0 if it is not known
          Modulus   \* where the sum wraps (2^64)

ASSUME SumAssumption ==
    /\ Counts \subseteq Nat /\ \E m \in Counts : \A n \in Counts : n <= m
    /\ MaxVs \subseteq Nat
    /\ Modulus \in Nat \ {0}

VARIABLES task,     \* MAX and hardware_concurrency()
          boss,     \* the main thread: where it is, t and minV
          adder,    \* each thread: where it is, its range, tmp or what it is to write
          sum, mtx, \* the shared sum; whether the mutex is locked
          serial    \* what serial_task() has printed

sumVars == <<task, boss, adder, sum, mtx, serial>>

Adders == 1 .. Max(Counts)
Absent == [at |-> "none", lo |-> 0, hi |-> 0, tmp |-> 0]
Wrapped(n) == n % Modulus
SumOfSquares(S) == MapThenSumSet(LAMBDA i : i * i, S)
Squares(lo, hi) == Wrapped(SumOfSquares(lo .. hi))

SumInit ==
    /\ task \in [maxV : MaxVs, count : Counts]
    /\ boss = [at |-> "serial", t |-> 0, minV |-> 0]
    /\ adder = [a \in Adders |-> Absent]
    /\ sum = 0 /\ mtx = FALSE /\ serial = 0

\* serial_task(), and concurrent_task() up to the division, which kills the process
\* if the number of threads is not known.
Serial_Task ==
    /\ boss.at = "serial"
    /\ serial' = Squares(1, task.maxV)
    /\ sum' = 0
    /\ boss' = [boss EXCEPT !.at = IF task.count = 0 THEN "killed" ELSE "spawn"]
    /\ UNCHANGED <<task, adder, mtx>>

Range_ == task.maxV \div task.count

\* Fault: the next range begins with the last number of this one.
Fault_Overlap ==
    /\ boss.at = "spawn" /\ boss.t < task.count
    /\ LET last == boss.t = task.count - 1
           hi   == IF last THEN task.maxV ELSE boss.minV + Range_
       IN  /\ adder' = [adder EXCEPT ![boss.t + 1] =
                          [Absent EXCEPT !.at = "adds", !.lo = boss.minV, !.hi = hi]]
           /\ boss' = [boss EXCEPT !.t = @ + 1, !.minV = IF last THEN @ ELSE @ + Range_]
    /\ UNCHANGED <<task, sum, mtx, serial>>

\* The loop of concurrent_task(): a thread for the next range.
Spawn ==
    /\ boss.at = "spawn" /\ boss.t < task.count
    /\ LET last == boss.t = task.count - 1
           hi   == IF last THEN task.maxV ELSE boss.minV + Range_
       IN  /\ adder' = [adder EXCEPT ![boss.t + 1] =
                          [Absent EXCEPT !.at = "adds", !.lo = boss.minV, !.hi = hi]]
           /\ boss' = [boss EXCEPT !.t = @ + 1, !.minV = IF last THEN @ ELSE @ + Range_ + 1]
    /\ UNCHANGED <<task, sum, mtx, serial>>

\* All threads are joined and the sum is printed.
Join ==
    /\ boss.at = "spawn" /\ boss.t = task.count
    /\ \A a \in 1 .. task.count : adder[a].at = "ended"
    /\ boss' = [boss EXCEPT !.at = "printed"]
    /\ UNCHANGED <<task, adder, sum, mtx, serial>>

\* concurrent_worker(): its own part, and mtx.lock()
Adder_Lock(a) ==
    /\ adder[a].at = "adds" /\ ~mtx
    /\ mtx' = TRUE
    /\ adder' = [adder EXCEPT ![a].at = "reads", ![a].tmp = Squares(adder[a].lo, adder[a].hi)]
    /\ UNCHANGED <<task, boss, sum, serial>>

Adder_Read(a) ==
    /\ adder[a].at = "reads"
    /\ adder' = [adder EXCEPT ![a].at = "writes", ![a].tmp = Wrapped(sum + @)]
    /\ UNCHANGED <<task, boss, sum, mtx, serial>>

\* The sum is written and the mutex unlocked.
Adder_Write(a) ==
    /\ adder[a].at = "writes"
    /\ sum' = adder[a].tmp /\ mtx' = FALSE
    /\ adder' = [adder EXCEPT ![a].at = "ended"]
    /\ UNCHANGED <<task, boss, serial>>

SumNext ==
    \/ Serial_Task \/ Spawn \/ Join
    \/ \E a \in Adders : Adder_Lock(a) \/ Adder_Read(a) \/ Adder_Write(a)

SumSpec == SumInit /\ [][SumNext]_sumVars

-----------------------------------------------------------------------------
(* Properties *)

\* The ranges before the last, of range + 1 numbers each, end before MAX.
RangesFit == (task.count - 1) * (Range_ + 1) <= task.maxV + 1

\* The threads print what one thread printed, in whatever order they add their parts
\* and whether or not the sum wraps, if the ranges fit: the last range then has
\* exactly the numbers that are left.  With 1e8 numbers they do up to 10000 threads.
SumAsSerial == boss.at = "printed" /\ RangesFit => sum = serial
=============================================================================
