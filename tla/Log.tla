-------------------------------- MODULE Log ---------------------------------
(***************************************************************************)
(* The log of TinyWebServer (log/log.h, log/log.cpp): write_log() as the   *)
(* LOG_ macros call it, flush(), the thread that empties the queue of the  *)
(* asynchronous mode, and the change of file by day and by line count.     *)
(*                                                                         *)
(* A line is known by its writer and a number; its text is left out.  The  *)
(* critical sections of Log::m_mutex nest nothing and block on nothing, so *)
(* each of them is one step.  m_log_queue is the bounded queue that        *)
(* BlockQueue implements, with its operations as atomic steps.             *)
(*                                                                         *)
(* fputs() leaves a line in the buffer of the open file; it is on disk     *)
(* after fflush() or fclose().                                             *)
(***************************************************************************)
EXTENDS Integers, Sequences, FiniteSets, Functions

CONSTANTS Writers,     \* threads that log
          Capacities,  \* the choices of max_queue_size; 0 makes the log synchronous
          SplitLines,  \* m_split_lines
          MaxDay,      \* bound: the days the clock goes through
          MaxLines,    \* bound: the lines each writer logs
          NoLine

ASSUME LogAssumption == /\ Capacities \subseteq Nat
                        /\ SplitLines \in Nat \ {0}
                        /\ MaxDay \in Nat \ {0}
                        /\ MaxLines \in Nat
                        /\ IsFiniteSet(Writers)
                        /\ NoLine \notin Writers \X (1 .. MaxLines)

Days  == 1 .. MaxDay
Lines == Writers \X (1 .. MaxLines)
\* Log files are named by a date and, after a split, a suffix.
Files == Days \X (0 .. MaxLines * Cardinality(Writers))

VARIABLES capacity,     \* max_queue_size, as init() was called
          day,          \* what the clock says
          m_today,
          m_count,
          m_fp,         \* the open file
          disk,         \* the lines of every file
          buffer,       \* the lines of the open file that are not on disk yet
          m_log_queue,
          at,           \* where each writer is in a LOG_ macro
          my_tm,        \* the day it read
          calls,        \* the number of lines it has logged
          single_log,   \* the line the flush thread has popped
          refused       \* lines that push() refused

fileVars   == <<m_today, m_count, m_fp, disk, buffer>>
writerVars == <<at, my_tm, calls>>
vars == <<capacity, day, fileVars, m_log_queue, writerVars, single_log, refused>>

TypeOK ==
    /\ capacity \in Capacities
    /\ day \in Days
    /\ m_today \in Days
    /\ m_count \in Nat
    /\ m_fp \in Files
    /\ disk \in [Files -> Seq(Lines)]
    /\ buffer \in Seq(Lines)
    /\ m_log_queue \in Seq(Lines) /\ Len(m_log_queue) <= capacity
    /\ at \in [Writers -> {"out", "count", "full", "push", "fputs", "flush"}]
    /\ my_tm \in [Writers -> Days]
    /\ calls \in [Writers -> 0 .. MaxLines]
    /\ single_log \in Lines \cup {NoLine}
    /\ refused \in SUBSET Lines

\* After init() on the first day.
Init ==
    /\ capacity \in Capacities
    /\ day = 1
    /\ m_today = 1
    /\ m_count = 0
    /\ m_fp = <<1, 0>>
    /\ disk = [f \in Files |-> <<>>]
    /\ buffer = <<>>
    /\ m_log_queue = <<>>
    /\ at = [w \in Writers |-> "out"]
    /\ my_tm = [w \in Writers |-> 1]
    /\ calls = [w \in Writers |-> 0]
    /\ single_log = NoLine
    /\ refused = {}

Midnight ==
    /\ day < MaxDay
    /\ day' = day + 1
    /\ UNCHANGED <<capacity, fileVars, m_log_queue, writerVars, single_log, refused>>

-----------------------------------------------------------------------------
(* write_log() and the flush() that follows it in the LOG_ macros *)

Line(w) == <<w, calls[w]>>

Goes(w, from, to) == /\ at[w] = from
                     /\ at' = [at EXCEPT ![w] = to]

Flushed == [disk EXCEPT ![m_fp] = @ \o buffer]

\* write_log() reads the clock before it locks.
Write_Call(w) ==
    /\ Goes(w, "out", "count")
    /\ calls[w] < MaxLines
    /\ calls' = [calls EXCEPT ![w] = @ + 1]
    /\ my_tm' = [my_tm EXCEPT ![w] = day]
    /\ UNCHANGED <<capacity, day, fileVars, m_log_queue, single_log, refused>>

\* Fault: the file is closed without the lines of its buffer reaching the disk.
Fault_SplitDrops(w) ==
    /\ Goes(w, "count", "full")
    /\ LET count  == m_count + 1
           newDay == m_today # my_tm[w]
           split  == newDay \/ count % SplitLines = 0
       IN  /\ m_count' = IF newDay THEN 0 ELSE count
           /\ m_today' = my_tm[w]
           /\ m_fp' = IF split THEN <<my_tm[w], IF newDay THEN 0 ELSE count \div SplitLines>>
                               ELSE m_fp
           /\ buffer' = IF split THEN <<>> ELSE buffer
    /\ UNCHANGED <<capacity, day, disk, m_log_queue, my_tm, calls, single_log, refused>>

\* The first critical section: count the line and change the file when the day
\* read before is not m_today or the count is a multiple of m_split_lines.
Write_Count(w) ==
    /\ Goes(w, "count", "full")
    /\ LET count  == m_count + 1
           newDay == m_today # my_tm[w]
           split  == newDay \/ count % SplitLines = 0
       IN  /\ m_count' = IF newDay THEN 0 ELSE count
           /\ m_today' = my_tm[w]
           /\ m_fp' = IF split THEN <<my_tm[w], IF newDay THEN 0 ELSE count \div SplitLines>>
                               ELSE m_fp
           /\ disk' = IF split THEN Flushed ELSE disk
           /\ buffer' = IF split THEN <<>> ELSE buffer
    /\ UNCHANGED <<capacity, day, m_log_queue, my_tm, calls, single_log, refused>>

\* Format the line in m_buf and ask the queue, if there is one, whether it is full.
Write_Full(w) ==
    /\ Goes(w, "full", IF capacity > 0 /\ Len(m_log_queue) < capacity THEN "push" ELSE "fputs")
    /\ UNCHANGED <<capacity, day, fileVars, m_log_queue, my_tm, calls, single_log, refused>>

\* push(), whose result is ignored.
Write_Push(w) ==
    /\ Goes(w, "push", "flush")
    /\ IF Len(m_log_queue) < capacity
       THEN /\ m_log_queue' = Append(m_log_queue, Line(w))
            /\ UNCHANGED refused
       ELSE /\ refused' = refused \cup {Line(w)}
            /\ UNCHANGED m_log_queue
    /\ UNCHANGED <<capacity, day, fileVars, my_tm, calls, single_log>>

Write_Fputs(w) ==
    /\ Goes(w, "fputs", "flush")
    /\ buffer' = Append(buffer, Line(w))
    /\ UNCHANGED <<capacity, day, m_today, m_count, m_fp, disk, m_log_queue, my_tm, calls, single_log, refused>>

\* Fault: flush() is not called.
Fault_NoFlush(w) ==
    /\ Goes(w, "flush", "out")
    /\ UNCHANGED <<capacity, day, fileVars, m_log_queue, my_tm, calls, single_log, refused>>

Write_Flush(w) ==
    /\ Goes(w, "flush", "out")
    /\ disk' = Flushed
    /\ buffer' = <<>>
    /\ UNCHANGED <<capacity, day, m_today, m_count, m_fp, m_log_queue, my_tm, calls, single_log, refused>>

WriterStep(w) == \/ Write_Count(w)
                 \/ Write_Full(w)
                 \/ Write_Push(w)
                 \/ Write_Fputs(w)
                 \/ Write_Flush(w)

-----------------------------------------------------------------------------
(* async_write_log() *)

\* Fault: the newest line is taken.
Fault_PopNewest ==
    /\ single_log = NoLine
    /\ m_log_queue # <<>>
    /\ single_log' = m_log_queue[Len(m_log_queue)]
    /\ m_log_queue' = SubSeq(m_log_queue, 1, Len(m_log_queue) - 1)
    /\ UNCHANGED <<capacity, day, fileVars, writerVars, refused>>

Async_Pop ==
    /\ single_log = NoLine
    /\ m_log_queue # <<>>
    /\ single_log' = Head(m_log_queue)
    /\ m_log_queue' = Tail(m_log_queue)
    /\ UNCHANGED <<capacity, day, fileVars, writerVars, refused>>

\* Fault: the line is dropped.
Fault_AsyncDrops ==
    /\ single_log # NoLine
    /\ single_log' = NoLine
    /\ UNCHANGED <<capacity, day, fileVars, m_log_queue, writerVars, refused>>

Async_Fputs ==
    /\ single_log # NoLine
    /\ buffer' = Append(buffer, single_log)
    /\ single_log' = NoLine
    /\ UNCHANGED <<capacity, day, m_today, m_count, m_fp, disk, m_log_queue, writerVars, refused>>

-----------------------------------------------------------------------------

Next == \/ \E w \in Writers : Write_Call(w) \/ WriterStep(w)
        \/ Async_Pop
        \/ Async_Fputs
        \/ Midnight

Spec == Init /\ [][Next]_vars

\* Threads that can run are scheduled; nothing makes a thread log.
Fairness == /\ \A w \in Writers : WF_vars(WriterStep(w))
            /\ WF_vars(Async_Pop)
            /\ WF_vars(Async_Fputs)

FairSpec == Spec /\ Fairness

-----------------------------------------------------------------------------
(* Properties *)

Occurrences(l, s) == Cardinality({i \in DOMAIN s : s[i] = l})

\* The lines of a file, those that are still in its buffer included.
Content(f) == disk[f] \o (IF f = m_fp THEN buffer ELSE <<>>)

\* Where a line is in the files.
Written(l) == {p \in UNION {{f} \X DOMAIN Content(f) : f \in Files} : Content(p[1])[p[2]] = l}

\* How often a line is in a file, in the queue, in the hands of the flush thread or
\* refused.
Copies(l) == Cardinality(Written(l)) + Occurrences(l, m_log_queue)
               + (IF single_log = l THEN 1 ELSE 0) + (IF l \in refused THEN 1 ELSE 0)

Returned(l) == l[2] < calls[l[1]] \/ (l[2] = calls[l[1]] /\ at[l[1]] \in {"flush", "out"})

\* A line that write_log() has handed on is in exactly one place, whatever the
\* interleaving with other writers, the flush thread and changes of file; a line
\* that it has not handed on is nowhere.
EveryLineOnce == \A l \in Lines : Copies(l) = IF Returned(l) THEN 1 ELSE 0

\* A line logged in synchronous mode is on disk when the LOG_ macro ends, even
\* if another writer changed the file between its fputs() and its fflush().
SyncLineOnDisk ==
    capacity = 0 =>
      \A w \in Writers : at[w] = "out" =>
          \A n \in 1 .. calls[w] : \E f \in Files : <<w, n>> \in Range(disk[f])

\* The lines of one writer are in each file in the order in which it logged them,
\* in synchronous mode and as long as the queue cannot be full: a line that finds
\* it full is written at once and overtakes those in the queue.
WriterOrder ==
    capacity = 0 \/ capacity >= Cardinality(Lines) =>
      \A f \in Files :
        LET s == Content(f)
        IN  \A i, j \in DOMAIN s : i < j /\ s[i][1] = s[j][1] => s[i][2] < s[j][2]

\* m_split_lines bounds the files of a day in synchronous mode, up to the lines
\* that other writers had counted and not yet written when the file changed.
SplitBound ==
    capacity = 0 /\ day = 1 =>
        \A f \in Files : Len(Content(f)) < SplitLines + Cardinality(Writers)

\* "如果日志创建时间 m_day 不是当前日期 ... 分割日志文件": a change of file follows
\* the calendar, so the log never goes back to the file of an earlier day.
NeverBackInTime == [][m_today' >= m_today]_vars

\* "阻塞: pop()无数据队列 or push 满队列时，阻塞": push() on a full queue waits, so
\* no line is refused.
NothingRefused == refused = {}

\* A line that the queue accepted is eventually written to a file.
AcceptedLineWritten ==
    \A l \in Lines :
        l \in Range(m_log_queue)
            ~> (l \in Range(buffer) \/ \E f \in Files : l \in Range(disk[f]))

\* The files of the log over any interleaving of writers, the log thread and the
\* splits: well typed, each writer's lines in the order of its calls while none
\* can overtake the queue, and no file of the first day above its size.
FilesRight == TypeOK /\ WriterOrder /\ SplitBound
=============================================================================
