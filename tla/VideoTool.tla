------------------------------ MODULE VideoTool -----------------------------
(***************************************************************************)
(* The video tool (videoedit): UserInput::Start reads a line and calls the *)
(* functions that XVideoInput::Start has registered; FFTask::Start makes   *)
(* the command line; XExec runs it in a thread of its own, whose output    *)
(* goes to FFTask's callback or, in the program xexec/test.cpp, to a       *)
(* BlockQueue.                                                             *)
(*                                                                         *)
(* A command line is a sequence of words, a command a record of its parts, *)
(* a line of ffmpeg's output what the callback finds in it.                *)
(***************************************************************************)
EXTENDS Integers, Sequences, FiniteSetsExt, SequencesExt

CONSTANTS Typed,    \* the lines a user may type, as words
          Folder,   \* the files of each directory, in the order of the iteration
          Seconds,  \* the length of each video
          Number    \* what stoi() makes of a word; it throws on any other

VARIABLES vkind,    \* the program: "video" or "test"
          vpc,      \* where its main thread is
          words,    \* the line it works on
          data,     \* XTask::Data
          todo,     \* the tasks of the line, the current one first
          command,  \* the command that runs
          running,  \* running_
          worker,   \* worker_thread_: none, runs, ended
          printed,  \* what the command prints
          pos,      \* how many lines of it the worker has read
          outputs,  \* outputs_
          taken,    \* what GetOutput() has returned
          total, progress,   \* total_seconds_, progress_
          early     \* history: the worker was done before RunTask() looked

videoVars == <<vkind, vpc, words, data, todo, command, running, worker, printed, pos,
               outputs, taken, total, progress, early>>
execVars == <<running, worker, printed, pos, outputs, early>>
taskVars == <<total, progress>>

Keys == {"-s", "-d", "-p", "-dp", "-b", "-e"}
NoData == [task_type |-> "", src |-> "", des |-> "", begin_seconds |-> "",
           end_seconds |-> "", secret_key |-> "", is_encrypt |-> TRUE]
NoCommand == [tool |-> ""]
Thrown == "terminated"      \* an exception nobody catches, or a crash

VideoInit ==
    /\ vkind \in {"video", "test"}
    /\ vpc = IF vkind = "video" THEN "prompt" ELSE "start"
    /\ words = <<>> /\ data = NoData /\ command = NoCommand
    /\ todo = IF vkind = "video" THEN <<>> ELSE <<NoData>>
    /\ running = FALSE /\ worker = "none"
    /\ printed = <<>> /\ pos = 0 /\ outputs = <<>> /\ taken = <<>>
    /\ total = 0 /\ progress = 0
    /\ early = FALSE

-----------------------------------------------------------------------------
(* UserInput and XVideoInput *)

\* An empty -p or -dp asks for the key (the answer is the word "typed").
KeyOr(value) == IF value = "" THEN "typed" ELSE value

\* The functions registered for the keys.
KeyFunction(d, key, value) ==
    CASE key = "-s"  -> [d EXCEPT !.src = value]
      [] key = "-d"  -> [d EXCEPT !.des = value]
      [] key = "-b"  -> [d EXCEPT !.begin_seconds = value]
      [] key = "-e"  -> [d EXCEPT !.end_seconds = value]
      [] key = "-p"  -> [d EXCEPT !.secret_key = KeyOr(value), !.is_encrypt = TRUE]
      [] key = "-dp" -> [d EXCEPT !.secret_key = KeyOr(value), !.is_encrypt = FALSE]

\* The loop over the words from the i-th on.
RECURSIVE ParseArguments(_, _, _)
ParseArguments(d, ws, i) ==
    IF i > Len(ws) THEN d
    ELSE IF ws[i] \notin Keys THEN ParseArguments(d, ws, i + 1)
    ELSE IF i < Len(ws) /\ ws[i + 1] \notin Keys
         THEN ParseArguments(KeyFunction(d, ws[i], ws[i + 1]), ws, i + 2)
    ELSE ParseArguments(KeyFunction(d, ws[i], ""), ws, i + 1)

\* Fault: the data of the line before is kept.
Fault_KeepData(d) == d

\* init_function
Initialised(d) == NoData

IsDir(path) == path \in DOMAIN Folder

\* The task "cv": one task, or one for each file of the directory.
Convert(d) ==
    IF IsDir(d.src)
    THEN [i \in DOMAIN Folder[d.src] |->
            [d EXCEPT !.src = Folder[d.src][i], !.des = <<d.des, Folder[d.src][i]>>]]
    ELSE <<d>>

\* A line is read.  One of blanks only has no first word to look at.
UserInput_Start ==
    /\ vkind = "video" /\ vpc = "prompt"
    /\ \E ws \in Typed :
         /\ words' = ws
         /\ IF ws = <<"exit">> \/ ws = <<>> THEN UNCHANGED <<data, todo>>
            ELSE LET d == ParseArguments(Initialised(data), ws, 1)
                 IN  /\ data' = IF ws[1] \in {"cv", "play"}
                                THEN [d EXCEPT !.task_type = ws[1]] ELSE d
                     /\ todo' = CASE ws[1] = "cv" -> Convert(data')
                                  [] ws[1] = "play" -> <<data'>>
                                  [] OTHER -> <<>>
         /\ vpc' = CASE ws = <<"exit">> -> "exited"
                     [] ws = <<>> -> Thrown
                     [] OTHER -> IF todo' = <<>> THEN "prompt" ELSE "start"
    /\ UNCHANGED <<vkind, command, taken, execVars, taskVars>>

-----------------------------------------------------------------------------
(* FFTask and XExec, the calling thread *)

\* The command line of FFTask::Start.  The key, overlaid on DEFAULTKEY, is the one given.
CommandOf(d) ==
    [tool |-> IF d.task_type = "play" THEN "ffplay" ELSE "ffmpeg",
     i    |-> d.src,
     ss   |-> d.begin_seconds,
     t    |-> IF d.end_seconds = "" THEN 0
              ELSE LET n == Number[d.end_seconds] - Number[d.begin_seconds]
                   IN  IF n > 0 THEN n ELSE 0,
     crypt |-> CASE d.secret_key = "" -> "no" [] d.is_encrypt -> "encryption"
                 [] OTHER -> "decryption",
     key  |-> d.secret_key,
     out  |-> IF d.task_type = "cv" THEN d.des ELSE ""]

StoiThrows(d) == d.end_seconds # "" /\ {d.begin_seconds, d.end_seconds} \ DOMAIN Number # {}

\* What a command may print: ffmpeg's duration and times, either of them N/A (-1), or
\* an error.
Prints(c) ==
    IF c.tool = "" THEN {<<[k |-> "other", s |-> 1], [k |-> "other", s |-> 2]>>}
    ELSE {<<[k |-> "other", s |-> 0]>>, <<[k |-> "Duration", s |-> -1]>>,
          <<[k |-> "time", s |-> -1]>>}
         \cup IF c.i \notin DOMAIN Seconds THEN {}
              ELSE {<<[k |-> "Duration", s |-> Seconds[c.i]],
                      [k |-> "time", s |-> Seconds[c.i] \div 2],
                      [k |-> "time", s |-> Seconds[c.i]]>>}

\* Before a file of a directory is converted, the directory for the results may have
\* to be made, which may throw.
MkdirThrows == vkind = "video" /\ data.task_type = "cv" /\ IsDir(data.src)

\* FFTask::Start up to the new thread in XExec::Start.  To assign to a thread that
\* has not been joined ends the process.
Task_Start ==
    /\ vpc = "start"
    /\ command' = IF vkind = "test" \/ StoiThrows(todo[1]) THEN NoCommand
                  ELSE CommandOf(todo[1])
    /\ \E mkdir \in {FALSE, MkdirThrows} :
       IF mkdir \/ (vkind = "video" /\ StoiThrows(todo[1])) \/ worker # "none"
       THEN vpc' = Thrown /\ UNCHANGED <<worker, printed, pos>>
       ELSE /\ vpc' = "set" /\ worker' = "runs" /\ pos' = 0
            /\ printed' \in Prints(command')
    /\ UNCHANGED <<vkind, words, data, todo, running, outputs, taken, early, taskVars>>

\* running_ = true, after the thread was made.
Exec_SetRunning ==
    /\ vpc = "set"
    /\ running' = TRUE
    /\ vpc' = CASE vkind = "test" -> "get" [] todo[1].task_type = "play" -> "stop"
                [] OTHER -> "wait"
    /\ UNCHANGED <<vkind, words, data, todo, command, worker, printed, pos, outputs, taken,
                   early, taskVars>>

\* RunTask(): the loop until Running(), the loop while Running() that shows progress_.
RunTask_Wait ==
    /\ vpc = "wait" /\ running
    /\ vpc' = "show"
    /\ UNCHANGED <<vkind, words, data, todo, command, taken, execVars, taskVars>>

RunTask_Show ==
    /\ vpc = "show" /\ ~running
    /\ vpc' = "stop"
    /\ UNCHANGED <<vkind, words, data, todo, command, taken, execVars, taskVars>>

\* XExec::Stop
Exec_Stop ==
    /\ vpc = "stop" /\ worker = "ended"
    /\ worker' = "none"
    /\ todo' = Tail(todo)
    /\ vpc' = CASE vkind = "test" -> "exited" [] Len(todo) > 1 -> "start" [] OTHER -> "prompt"
    /\ UNCHANGED <<vkind, words, data, command, running, printed, pos, outputs, taken,
                   early, taskVars>>

\* GetOutput() in TestXExec(): it waits while the queue is empty.
Exec_GetOutput ==
    /\ vpc = "get" /\ outputs # <<>>
    /\ taken' = Append(taken, Head(outputs)) /\ outputs' = Tail(outputs)
    /\ vpc' = "check"
    /\ UNCHANGED <<vkind, words, data, todo, command, running, worker, printed, pos,
                   early, taskVars>>

Test_Check ==
    /\ vpc = "check"
    /\ vpc' = IF running THEN "get" ELSE "stop"
    /\ UNCHANGED <<vkind, words, data, todo, command, taken, execVars, taskVars>>

MainThread ==
    \/ Task_Start \/ Exec_SetRunning \/ RunTask_Wait \/ RunTask_Show \/ Exec_Stop
    \/ Exec_GetOutput \/ Test_Check

-----------------------------------------------------------------------------
(* RunCommand in its thread *)

VideoAlive == vpc \notin {Thrown, "exited"}

\* Fault: the quotient is turned round.
Fault_TotalOverTime(line) ==
    /\ total' = IF total <= 0 /\ line.k = "Duration" THEN line.s ELSE total
    /\ progress' = IF line.k = "time" /\ line.s > 0 THEN (100 * total) \div line.s ELSE progress

\* FFTask's callback: the length from the first duration, then the progress.
Callback(line) ==
    /\ total' = IF total <= 0 /\ line.k = "Duration" THEN line.s ELSE total
    /\ progress' = IF line.k = "time" /\ total > 0 THEN (100 * line.s) \div total ELSE progress

\* A line is complete.  TimeToSeconds() throws on N/A; a duration is looked at only as
\* long as there is none.
RunCommand_Line ==
    /\ VideoAlive /\ worker = "runs" /\ pos < Len(printed)
    /\ pos' = pos + 1
    /\ LET line == printed[pos + 1]
       IN  IF vkind = "test"
           THEN outputs' = Append(outputs, line) /\ UNCHANGED <<vpc, taskVars>>
           ELSE /\ UNCHANGED outputs
                /\ IF line.s = -1 /\ (line.k = "time" \/ total <= 0)
                   THEN vpc' = Thrown /\ UNCHANGED taskVars
                   ELSE Callback(line) /\ UNCHANGED vpc
    /\ UNCHANGED <<vkind, words, data, todo, command, running, worker, printed, taken,
                   early>>

\* popen() fails and the exception leaves the thread.
RunCommand_Fails ==
    /\ VideoAlive /\ worker = "runs" /\ pos = 0
    /\ vpc' = Thrown
    /\ UNCHANGED <<vkind, words, data, todo, command, taken, execVars, taskVars>>

\* Fault: running_ is not reset.
Fault_StaysRunning ==
    /\ VideoAlive /\ worker = "runs" /\ pos = Len(printed)
    /\ worker' = "ended"
    /\ UNCHANGED <<vkind, vpc, words, data, todo, command, running, printed, pos, outputs,
                   taken, early, taskVars>>

\* running_ = false
RunCommand_End ==
    /\ VideoAlive /\ worker = "runs" /\ pos = Len(printed)
    /\ running' = FALSE /\ worker' = "ended"
    /\ early' = (early \/ vpc = "wait" \/ (vpc = "set" /\ ~(vkind = "video" /\ todo[1].task_type = "play")))
    /\ UNCHANGED <<vkind, vpc, words, data, todo, command, printed, pos, outputs, taken,
                   taskVars>>

WorkerThread == RunCommand_Line \/ RunCommand_End

VideoNext == UserInput_Start \/ MainThread \/ WorkerThread \/ RunCommand_Fails

VideoFairness == WF_videoVars(MainThread) /\ WF_videoVars(WorkerThread)

-----------------------------------------------------------------------------
(* Properties *)

\* The value of a key by the words: that of its last place, "" if a key or nothing
\* follows it there.
At(ws, keys) == {i \in DOMAIN ws : ws[i] \in keys}
ValueOf(ws, keys) ==
    LET i == Max(At(ws, keys))
    IN  IF At(ws, keys) = {} \/ i = Len(ws) \/ ws[i + 1] \in Keys THEN "" ELSE ws[i + 1]

\* The tasks of a line get the arguments of that line and of no line before it,
\* whatever the order of the keys and whichever of them lack a value.
VideoDataOfLine ==
    vkind = "video" /\ words \notin {<<>>, <<"exit">>} /\ vpc # "exited" =>
        /\ data.src = ValueOf(words, {"-s"}) /\ data.des = ValueOf(words, {"-d"})
        /\ data.begin_seconds = ValueOf(words, {"-b"})
        /\ data.end_seconds = ValueOf(words, {"-e"})
        /\ data.secret_key = (IF At(words, {"-p", "-dp"}) = {} THEN ""
                              ELSE KeyOr(ValueOf(words, {"-p", "-dp"})))
        /\ ~data.is_encrypt => words[Max(At(words, {"-p", "-dp"}))] = "-dp"

\* The thread of a task is joined before the next one is assigned to worker_thread_.
VideoJoined == vpc \in {"start", "prompt"} => worker = "none"

\* "Progress, 0 to 100": progress_ is set to more than 100 only for a video that is
\* longer than the first one this process has worked on, whose length FFTask keeps.
VideoProgress ==
    [][progress' > 100 /\ progress' # progress => Seconds[command.i] > total]_videoVars

\* The queue of XExec neither loses nor reorders a line.
VideoOutputKept == vkind = "test" => taken \o outputs = SubSeq(printed, 1, pos)

\* GetOutput() waits for a line that will not come: TestXExec() looked at Running()
\* after the last line and before running_ = false.
Starved == vpc = "get" /\ outputs = <<>> /\ worker = "ended"

\* RunTask() and TestXExec() return, unless the worker was done before the caller's
\* first look at Running(), or Running() was looked at too early after the last line.
VideoReturns ==
    vpc \notin {"prompt", "exited", Thrown} ~>
        vpc \in {"prompt", "exited", Thrown} \/ early \/ Starved

\* A command runs for the line it was typed in, its thread is joined before the
\* object is used again, and nothing the program printed is lost.
VideoCommandRight == VideoDataOfLine /\ VideoJoined /\ VideoOutputKept
=============================================================================
