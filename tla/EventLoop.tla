------------------------------ MODULE EventLoop -----------------------------
(***************************************************************************)
(* The server of TinyWebServer at work: WebServer::event_loop and its      *)
(* handlers, the workers of the thread pool with the reactor and the       *)
(* proactor half of ThreadPool::run, epoll with EPOLLONESHOT, the signals  *)
(* that come through the pipe and the timers that close idle connections.  *)
(*                                                                         *)
(* A connection has a number of its own; its descriptor is used again once *)
(* it is closed, and users[fd] and client_data[fd] with it.  The methods   *)
(* of HttpConn are reduced to their outcomes (see module HttpConn), the    *)
(* pool to its queue (module ThreadPool), the timers to the set of those   *)
(* in the list (module TimerList shows when the list loses timers: never   *)
(* with two, the bound used here), time to the ticks.                      *)
(* m_user_count is only ever decremented, so the test against MAX_FD never *)
(* refuses a connection and is left out.                                   *)
(*                                                                         *)
(* WebServer::del_timer closes the connection, lets the list delete the    *)
(* timer and deletes it again: the allocator then aborts the process.      *)
(* ThreadPool::append has no return on its last path; in an optimised      *)
(* build a successful append() runs on into other code and crashes.        *)
(***************************************************************************)
EXTENDS Integers, FiniteSets, Sequences

CONSTANTS Fds,             \* descriptors for connections, from 1 on
          Workers,         \* worker threads, from 1 on
          Modes,           \* how the server is built and started
          MaxConnections,  \* bound: clients that connect
          MaxRequests      \* m_max_requests

ASSUME EventLoopAssumption ==
    /\ Fds \subseteq Nat \ {0} /\ Workers \subseteq Nat \ {0}
    /\ Modes \subseteq [build : {"-g", "-O2"}, actor : {0, 1}, listen : {0, 1},
                         threads : Workers, fds : Fds]
    /\ MaxConnections \in Nat /\ MaxRequests \in Nat \ {0}

VARIABLES mode,     \* the build, m_actor_mode, m_listen_trig_mode, m_thread_num and the
                    \* descriptors the process may open
          kern,     \* the kernel's side of a descriptor: the connection (0: closed),
                    \* the event it is armed for, and what the peer did last: it
                    \* is quiet, it has sent data or it is gone
          obj,      \* users[fd]: whether m_sockfd is valid, m_improv, m_timer_flag,
                    \* m_state, and whether a response waits to be sent
          tm,       \* the timer of each connection
          tfd,      \* the descriptor it closes (user_data)
          cd,       \* client_data[fd].timer
          main,     \* the event loop: where it is, the events it has fetched, the
                    \* descriptor it handles, timeout and stop_server
          queue,    \* m_work_queue
          wk,       \* each worker: where it is and with which descriptor
          pipe,     \* signals in the pipe
          alarmSet, \* alarm() is running
          accepted, \* connections so far
          fate,     \* running, stopped, aborted, crashed
          reused,   \* history: descriptors accepted anew while a thread still used them
          shut      \* history: descriptors a worker has closed (close_conn)

elVars == <<mode, kern, obj, tm, tfd, cd, main, queue, wk, pipe, alarmSet, accepted, fate,
            reused, shut>>

Connections == 1 .. MaxConnections
Closed == [conn |-> 0, armed |-> "no", peer |-> "quiet"]
Fresh == [valid |-> TRUE, improv |-> 0, flag |-> 0, state |-> 0, reply |-> FALSE]

Idle == [at |-> "idle", fd |-> 0]

ElInit ==
    /\ mode \in Modes
    /\ kern = [f \in Fds |-> Closed]
    /\ obj = [f \in Fds |-> Fresh]
    /\ tm = [c \in Connections |-> "none"]
    /\ tfd = [c \in Connections |-> 0]
    /\ cd = [f \in Fds |-> 0]
    /\ main = [at |-> "wait", batch |-> {}, fd |-> 0, timeout |-> FALSE, stop |-> FALSE]
    /\ queue = <<>>
    /\ wk = [w \in Workers |-> Idle]
    /\ pipe = {} /\ alarmSet = TRUE       \* event_listen() ends with alarm(TIMESLOT)
    /\ accepted = 0
    /\ fate = "running" /\ reused = {} /\ shut = {}

Running == fate = "running"
Busy(w) == wk[w].at # "idle"
Uses(f) == \/ \E i \in DOMAIN queue : queue[i] = f
           \/ \E w \in Workers : Busy(w) /\ wk[w].fd = f

-----------------------------------------------------------------------------
(* The clients, the kernel and the clock *)

\* What a client does to a descriptor that is not armed shows when it is armed again,
\* so the model lets it happen then (read_once() may fail or find nothing anyway).
Client_Send(f) ==
    /\ Running /\ kern[f].conn # 0 /\ kern[f].armed = "IN" /\ kern[f].peer = "quiet"
    /\ kern' = [kern EXCEPT ![f].peer = "data"]
    /\ UNCHANGED <<mode, obj, tm, tfd, cd, main, queue, wk, pipe, alarmSet, accepted, fate, reused, shut>>

Client_Hangup(f) ==
    /\ Running /\ kern[f].conn # 0 /\ kern[f].armed # "no" /\ kern[f].peer # "gone"
    /\ kern' = [kern EXCEPT ![f].peer = "gone"]
    /\ UNCHANGED <<mode, obj, tm, tfd, cd, main, queue, wk, pipe, alarmSet, accepted, fate, reused, shut>>

\* SIGALRM or SIGTERM: sig_handler() sends its number through the pipe.
Alarm ==
    /\ Running /\ alarmSet
    /\ alarmSet' = FALSE /\ pipe' = pipe \cup {"ALRM"}
    /\ UNCHANGED <<mode, kern, obj, tm, tfd, cd, main, queue, wk, accepted,
                   fate, reused, shut>>

Terminate ==
    /\ Running /\ "TERM" \notin pipe /\ ~main.stop
    /\ pipe' = pipe \cup {"TERM"}
    /\ UNCHANGED <<mode, kern, obj, tm, tfd, cd, main, queue, wk, alarmSet, accepted, fate, reused, shut>>

-----------------------------------------------------------------------------
(* What the threads do to a descriptor or to users[fd] *)

\* modfd(m_epoll_fd, m_sockfd, e): nothing, if the descriptor is closed or -1.
modfd(k, f, e) ==
    IF k[f].conn # 0 /\ obj[f].valid THEN [k EXCEPT ![f].armed = e] ELSE k

\* epoll_ctl(EPOLL_CTL_DEL) and close()
removefd(k, f) == [k EXCEPT ![f] = Closed]

\* adjust_timer(client_data[fd].timer)
Adjusted(f) == [tm EXCEPT ![cd[f]] = "fresh"]

\* The process ends; the kernel closes what is open.
ProcessEnds(why) ==
    /\ fate' = why
    /\ kern' = [f \in Fds |-> Closed] /\ obj' = [f \in Fds |-> Fresh]
    /\ tm' = [c \in Connections |-> "none"]
    /\ queue' = <<>> /\ wk' = [w \in Workers |-> Idle]
    /\ main' = [main EXCEPT !.at = "end", !.batch = {}, !.fd = 0]

\* del_timer(): cb_func() closes the connection, the second delete aborts.
del_timer(f) == ProcessEnds("aborted")

\* read_once() on what the descriptor refers to.  It fails on a closed descriptor,
\* after a hangup, and also when the buffer is full; edge-triggered, to find nothing
\* to read is no failure.
read_once(f, ok) ==
    ok => kern[f].conn # 0 /\ obj[f].valid /\ kern[f].peer # "gone"

\* The outcomes of write(): what it returns, the event it arms, the object.
\* A response that was sent whole is not kept alive, so the call returns false.
WriteOutcomes(f) ==
    IF ~obj[f].reply
    THEN {[ok |-> TRUE, arm |-> "IN", obj |-> [Fresh EXCEPT !.valid = obj[f].valid]]}
    ELSE {[ok |-> TRUE, arm |-> "OUT", obj |-> obj[f]],
          [ok |-> FALSE, arm |-> "no", obj |-> obj[f]],
          [ok |-> FALSE, arm |-> "IN", obj |-> [obj[f] EXCEPT !.reply = FALSE]]}

-----------------------------------------------------------------------------
(* The event loop *)

Ready(f) ==
    /\ kern[f].conn # 0 /\ kern[f].armed # "no"
    /\ kern[f].peer # "quiet" \/ kern[f].armed = "OUT"

Free == {f \in Fds : f <= mode.fds /\ kern[f].conn = 0}

\* A client may be waiting for accept().
MayAccept == accepted < MaxConnections /\ Free # {}

Events(listen) ==
    {[src |-> "conn", fd |-> f, hup |-> kern[f].peer = "gone", ev |-> kern[f].armed] :
        f \in {f \in Fds : Ready(f)}}
    \cup (IF listen THEN {[src |-> "listen"]} ELSE {})
    \cup (IF pipe # {} THEN {[src |-> "pipe"]} ELSE {})

\* Fault: the descriptors stay armed (EPOLLONESHOT not set).
Fault_StayArmed ==
    /\ Running /\ main.at = "wait" /\ ~main.stop
    /\ Events(MayAccept) # {}
    /\ main' = [main EXCEPT !.at = "events", !.batch = Events(MayAccept)]
    /\ UNCHANGED <<mode, kern, obj, tm, tfd, cd, queue, wk, pipe, alarmSet, accepted, fate,
                   reused, shut>>

\* epoll_wait(): all events, each descriptor disarmed.
Main_Wait ==
    /\ Running /\ main.at = "wait" /\ ~main.stop
    /\ \E listen \in {FALSE, MayAccept} :
         /\ Events(listen) # {}
         /\ main' = [main EXCEPT !.at = "events", !.batch = Events(listen)]
    /\ kern' = [f \in Fds |-> IF Ready(f) THEN [kern[f] EXCEPT !.armed = "no"] ELSE kern[f]]
    /\ UNCHANGED <<mode, obj, tm, tfd, cd, queue, wk, pipe, alarmSet, accepted, fate, reused, shut>>

\* accept() and WebServer::timer(); the kernel gives the lowest free descriptor.
Accept(f, c) ==
    /\ kern' = [kern EXCEPT ![f] = [Closed EXCEPT !.conn = c, !.armed = "IN"]]
    /\ obj' = [obj EXCEPT ![f] = Fresh]
    /\ tm' = [tm EXCEPT ![c] = "fresh"]
    /\ tfd' = [tfd EXCEPT ![c] = f]
    /\ cd' = [cd EXCEPT ![f] = c]
    /\ accepted' = c
    /\ reused' = IF Uses(f) THEN reused \cup {f} ELSE reused

\* deal_client_data(): LT: one accept().  ET: again, while clients wait.
deal_client_data ==
    /\ Running /\ main.at = "events"
    /\ \E e \in main.batch, more \in BOOLEAN :
         /\ e.src = "listen"
         /\ IF MayAccept
            THEN \E f \in Free : (\A g \in Free : f <= g) /\ Accept(f, accepted + 1)
            ELSE UNCHANGED <<kern, obj, tm, tfd, cd, accepted, reused>>
         /\ more => mode.listen = 1 /\ MayAccept
         /\ main' = IF more THEN main ELSE [main EXCEPT !.batch = @ \ {e}]
    /\ UNCHANGED <<mode, queue, wk, pipe, alarmSet, fate, shut>>

\* EPOLLRDHUP, EPOLLHUP, EPOLLERR
Main_Hangup ==
    /\ Running /\ main.at = "events"
    /\ \E e \in main.batch : e.src = "conn" /\ e.hup /\ del_timer(e.fd)
    /\ UNCHANGED <<mode, tfd, cd, pipe, alarmSet, accepted, reused, shut>>

\* Fault: only the first signal in the buffer is looked at.
Fault_FirstSignal ==
    /\ Running /\ main.at = "events"
    /\ \E e \in main.batch, sig \in pipe :
         /\ e.src = "pipe"
         /\ main' = [main EXCEPT !.batch = @ \ {e}, !.timeout = @ \/ sig = "ALRM",
                                 !.stop = @ \/ sig = "TERM"]
    /\ pipe' = {}
    /\ UNCHANGED <<mode, kern, obj, tm, tfd, cd, queue, wk, alarmSet, accepted, fate, reused, shut>>

deal_with_signal ==
    /\ Running /\ main.at = "events"
    /\ \E e \in main.batch :
         /\ e.src = "pipe"
         /\ main' = [main EXCEPT !.batch = @ \ {e}, !.timeout = @ \/ "ALRM" \in pipe,
                                 !.stop = @ \/ "TERM" \in pipe]
    /\ pipe' = {}
    /\ UNCHANGED <<mode, kern, obj, tm, tfd, cd, queue, wk, alarmSet, accepted, fate, reused, shut>>

\* Proactor: the event loop reads and hands the request over with append_p(), which
\* a full queue refuses; the caller does not look.
read_Proactor(e) ==
    /\ mode.actor = 0
    /\ \/ /\ read_once(e.fd, TRUE)
          /\ kern' = [kern EXCEPT ![e.fd].peer = "quiet"]
          /\ queue' = IF Len(queue) >= MaxRequests THEN queue ELSE Append(queue, e.fd)
          /\ tm' = Adjusted(e.fd)
          /\ main' = [main EXCEPT !.batch = @ \ {e}]
          /\ UNCHANGED <<obj, wk, fate>>
       \/ read_once(e.fd, FALSE) /\ del_timer(e.fd)

\* Reactor: the event loop hands the descriptor over with append() and waits, also
\* if a full queue has refused it.
Delegate(e, s, wait) ==
    /\ mode.actor = 1
    /\ IF mode.build = "-O2" /\ Len(queue) < MaxRequests
       THEN ProcessEnds("crashed")
       ELSE /\ IF Len(queue) >= MaxRequests THEN UNCHANGED <<queue, obj>>
               ELSE /\ queue' = Append(queue, e.fd)
                    /\ obj' = [obj EXCEPT ![e.fd].state = s]
            /\ tm' = Adjusted(e.fd)
            /\ main' = [main EXCEPT !.batch = @ \ {e}, !.at = wait, !.fd = e.fd]
            /\ UNCHANGED <<kern, wk, fate>>

deal_with_read ==
    /\ Running /\ main.at = "events"
    /\ \E e \in main.batch :
         /\ e.src = "conn" /\ ~e.hup /\ e.ev = "IN"
         /\ read_Proactor(e) \/ Delegate(e, 0, "read")
    /\ UNCHANGED <<mode, tfd, cd, pipe, alarmSet, accepted, reused, shut>>

\* The proactor writes; the reactor waits for the worker and then writes as well.
deal_with_write ==
    /\ Running /\ main.at = "events"
    /\ \E e \in main.batch :
         /\ e.src = "conn" /\ ~e.hup /\ e.ev = "OUT"
         /\ \/ /\ mode.actor = 0
               /\ main' = [main EXCEPT !.batch = @ \ {e}, !.at = "send", !.fd = e.fd]
               /\ UNCHANGED <<kern, obj, tm, queue, wk, fate>>
            \/ Delegate(e, 1, "write")
    /\ UNCHANGED <<mode, tfd, cd, pipe, alarmSet, accepted, reused, shut>>

\* The loops that wait for m_improv.
Main_Improv ==
    /\ Running /\ main.at \in {"read", "write"} /\ obj[main.fd].improv = 1
    /\ IF obj[main.fd].flag = 1
       THEN del_timer(main.fd)
       ELSE /\ obj' = [obj EXCEPT ![main.fd].improv = 0]
            /\ main' = IF main.at = "read" THEN [main EXCEPT !.at = "events", !.fd = 0]
                       ELSE [main EXCEPT !.at = "send"]
            /\ UNCHANGED <<kern, tm, queue, wk, fate>>
    /\ UNCHANGED <<mode, tfd, cd, pipe, alarmSet, accepted, reused, shut>>

\* write() in the event loop.  It may loop for ever (the response of a file).
Main_Send ==
    /\ Running /\ main.at = "send"
    /\ \/ \E o \in WriteOutcomes(main.fd) :
            IF ~o.ok THEN del_timer(main.fd)
            ELSE /\ obj' = [obj EXCEPT ![main.fd] = o.obj]
                 /\ kern' = modfd(kern, main.fd, o.arm)
                 /\ tm' = Adjusted(main.fd)
                 /\ main' = [main EXCEPT !.at = "events", !.fd = 0]
                 /\ UNCHANGED <<queue, wk, fate>>
       \/ /\ obj[main.fd].reply
          /\ main' = [main EXCEPT !.at = "stuck"]
          /\ UNCHANGED <<kern, obj, tm, queue, wk, fate>>
    /\ UNCHANGED <<mode, tfd, cd, pipe, alarmSet, accepted, reused, shut>>

\* tick(): the connections whose timers are due are closed, by descriptor, and the
\* timers deleted.  A timer that nobody adjusts is due at one of the next ticks (in
\* the model at the second).
tick ==
    LET due == {c \in Connections : tm[c] = "due"}
    IN  /\ kern' = [f \in Fds |-> IF \E c \in due : tfd[c] = f
                                  THEN removefd(kern, f)[f] ELSE kern[f]]
        /\ tm' = [c \in Connections |->
                    CASE tm[c] = "fresh" -> "due" [] tm[c] = "due" -> "freed"
                      [] OTHER -> tm[c]]

\* Fault: the timer that has fired stays in the list.
Fault_TimerKept ==
    LET due == {c \in Connections : tm[c] = "due"}
    IN  /\ kern' = [f \in Fds |-> IF \E c \in due : tfd[c] = f
                                  THEN removefd(kern, f)[f] ELSE kern[f]]
        /\ tm' = [c \in Connections |-> IF tm[c] = "fresh" THEN "due" ELSE tm[c]]
        /\ alarmSet' = TRUE

\* Fault: alarm() is not called again.
Fault_NoAlarm == tick /\ UNCHANGED alarmSet

time_handler == tick /\ alarmSet' = TRUE

\* The end of a round
Main_Round ==
    /\ Running /\ main.at = "events" /\ main.batch = {}
    /\ main' = [main EXCEPT !.at = "wait", !.timeout = FALSE]
    /\ IF main.timeout THEN time_handler ELSE UNCHANGED <<kern, tm, alarmSet>>
    /\ UNCHANGED <<mode, obj, tfd, cd, queue, wk, pipe, accepted, fate, reused, shut>>

Main_Stop ==
    /\ Running /\ main.at = "wait" /\ main.stop
    /\ ProcessEnds("stopped")
    /\ UNCHANGED <<mode, tfd, cd, pipe, alarmSet, accepted, reused, shut>>

MainStep ==
    \/ Main_Wait \/ deal_client_data \/ Main_Hangup \/ deal_with_signal \/ deal_with_read
    \/ deal_with_write \/ Main_Improv \/ Main_Send \/ Main_Round \/ Main_Stop

-----------------------------------------------------------------------------
(* The workers: ThreadPool::run *)

Goes(w, at) ==
    wk' = [wk EXCEPT ![w] = [at |-> at, fd |-> IF at = "idle" THEN 0 ELSE wk[w].fd]]

W_Take(w) ==
    /\ Running /\ w <= mode.threads /\ wk[w].at = "idle" /\ queue # <<>>
    /\ queue' = Tail(queue)
    /\ wk' = [wk EXCEPT ![w] =
                [at |-> CASE mode.actor = 0 -> "process"
                          [] mode.actor = 1 /\ obj[Head(queue)].state = 0 -> "read"
                          [] OTHER -> "write",
                 fd |-> Head(queue)]]
    /\ UNCHANGED <<mode, kern, obj, tm, tfd, cd, main, pipe, alarmSet, accepted,
                   fate, reused, shut>>

\* The reactor's read: m_improv first, then process() or m_timer_flag.
W_Read(w) ==
    /\ Running /\ wk[w].at = "read"
    /\ LET f == wk[w].fd
       IN  \E ok \in BOOLEAN :
             /\ read_once(f, ok)
             /\ kern' = IF ok THEN [kern EXCEPT ![f].peer = "quiet"] ELSE kern
             /\ obj' = [obj EXCEPT ![f].improv = 1]
             /\ Goes(w, IF ok THEN "process" ELSE "flag")
    /\ UNCHANGED <<mode, tm, tfd, cd, main, queue, pipe, alarmSet, accepted, fate,
                   reused, shut>>

\* The reactor's write(), which may also loop for ever.
W_Write(w) ==
    /\ Running /\ wk[w].at = "write"
    /\ LET f == wk[w].fd
       IN  \/ \E o \in WriteOutcomes(f) :
                /\ obj' = [obj EXCEPT ![f] = o.obj]
                /\ kern' = IF o.arm = "no" THEN kern ELSE modfd(kern, f, o.arm)
                /\ Goes(w, IF o.ok THEN "improv" ELSE "improv, flag")
           \/ obj[f].reply /\ Goes(w, "stuck") /\ UNCHANGED <<kern, obj>>
    /\ UNCHANGED <<mode, tm, tfd, cd, main, queue, pipe, alarmSet, accepted, fate,
                   reused, shut>>

\* Fault: m_improv is set on success only.
Fault_ImprovOnSuccess(w) ==
    /\ Running /\ wk[w].at \in {"improv", "improv, flag"}
    /\ obj' = IF wk[w].at = "improv" THEN [obj EXCEPT ![wk[w].fd].improv = 1] ELSE obj
    /\ Goes(w, IF wk[w].at = "improv" THEN "idle" ELSE "flag")
    /\ UNCHANGED <<mode, kern, tm, tfd, cd, main, queue, pipe, alarmSet, accepted,
                   fate, reused, shut>>

W_Improv(w) ==
    /\ Running /\ wk[w].at \in {"improv", "improv, flag"}
    /\ obj' = [obj EXCEPT ![wk[w].fd].improv = 1]
    /\ Goes(w, IF wk[w].at = "improv" THEN "idle" ELSE "flag")
    /\ UNCHANGED <<mode, kern, tm, tfd, cd, main, queue, pipe, alarmSet, accepted,
                   fate, reused, shut>>

W_Flag(w) ==
    /\ Running /\ wk[w].at = "flag"
    /\ obj' = [obj EXCEPT ![wk[w].fd].flag = 1]
    /\ Goes(w, "idle")
    /\ UNCHANGED <<mode, kern, tm, tfd, cd, main, queue, pipe, alarmSet, accepted,
                   fate, reused, shut>>

\* process(): wait for more, have a response to send, close, or never end.  The
\* response is in the object before the event is armed.
W_Process(w) ==
    /\ Running /\ wk[w].at = "process"
    /\ LET f == wk[w].fd
       IN  \/ kern' = modfd(kern, f, "IN") /\ Goes(w, "idle") /\ UNCHANGED <<obj, shut>>
           \/ /\ obj' = [obj EXCEPT ![f].reply = TRUE]
              /\ Goes(w, "arm") /\ UNCHANGED <<kern, shut>>
           \/ /\ obj[f].valid
              /\ kern' = removefd(kern, f) /\ shut' = shut \cup {f}
              /\ Goes(w, "close") /\ UNCHANGED obj
           \/ ~obj[f].valid /\ Goes(w, "arm") /\ UNCHANGED <<kern, obj, shut>>
           \/ mode.build = "-O2" /\ Goes(w, "stuck") /\ UNCHANGED <<kern, obj, shut>>
    /\ UNCHANGED <<mode, tm, tfd, cd, main, queue, pipe, alarmSet, accepted, fate, reused>>

\* close_conn(): m_sockfd = -1 after removefd().
W_Close(w) ==
    /\ Running /\ wk[w].at = "close"
    /\ obj' = [obj EXCEPT ![wk[w].fd].valid = FALSE]
    /\ Goes(w, "arm")
    /\ UNCHANGED <<mode, kern, tm, tfd, cd, main, queue, pipe, alarmSet, accepted,
                   fate, reused, shut>>

\* The last call of process(), also after close_conn().
W_Arm(w) ==
    /\ Running /\ wk[w].at = "arm"
    /\ kern' = modfd(kern, wk[w].fd, "OUT")
    /\ Goes(w, "idle")
    /\ UNCHANGED <<mode, obj, tm, tfd, cd, main, queue, pipe, alarmSet, accepted,
                   fate, reused, shut>>

WorkerStep(w) ==
    \/ W_Take(w) \/ W_Read(w) \/ W_Write(w) \/ W_Improv(w) \/ W_Flag(w) \/ W_Process(w)
    \/ W_Close(w) \/ W_Arm(w)

Environment ==
    \/ \E f \in Fds : Client_Send(f) \/ Client_Hangup(f)
    \/ Terminate

\* The process is gone, or a thread goes round a loop that it cannot leave.
Ended ==
    /\ ~Running \/ main.at \in {"stuck", "read", "write"}
    /\ UNCHANGED elVars

ElNext ==
    \/ Environment \/ Alarm
    \/ MainStep \/ \E w \in Workers : WorkerStep(w)
    \/ Ended

ElFairness ==
    /\ WF_elVars(MainStep) /\ WF_elVars(Alarm)
    /\ \A w \in Workers : WF_elVars(WorkerStep(w))

ElSpec == ElInit /\ [][ElNext]_elVars /\ ElFairness

-----------------------------------------------------------------------------
(* Properties *)

\* The threads that work on users[f], and the hands it is in: theirs, or the queue.
Threads(f) == Cardinality({w \in Workers : Busy(w) /\ wk[w].fd = f})
            + (IF main.at = "send" /\ main.fd = f THEN 1 ELSE 0)
Hands(f) == Threads(f) + Cardinality({i \in DOMAIN queue : queue[i] = f})

\* EPOLLONESHOT keeps users[fd] in the hands of one thread: once the event loop has
\* fetched its event, it is in the queue or with one thread until it is armed again.
\* There are two exceptions: a descriptor accepted anew before the thread that closed
\* it was done with users[fd], and a worker that has set m_improv, which lets the
\* event loop go on, and not yet m_timer_flag.
ElOneHandler ==
    \A f \in Fds \ reused :
        (\A w \in Workers : wk[w] # [at |-> "flag", fd |-> f]) => Hands(f) <= 1

\* addfd(): with EPOLLONESHOT "a connection is handled by one thread at any moment".
ElOneThread == \A f \in Fds : Threads(f) <= 1

\* A connection that is open has its timer in the list, and client_data[fd] leads to
\* it: no connection is without the deadline that frees its descriptor, and
\* adjust_timer() never gets a timer that tick() has freed.
ElTimerForEach ==
    \A f \in Fds : LET c == kern[f].conn
                   IN  c # 0 => tm[c] \in {"fresh", "due"} /\ tfd[c] = f /\ cd[f] = c

\* A timer outlives its connection only on a descriptor that a worker has closed with
\* close_conn(), which leaves the timer in the list; every other way to close takes
\* the timer off in the same step.
ElTimerOutlives ==
    \A c \in Connections :
        tm[c] \in {"fresh", "due"} /\ kern[tfd[c]].conn # c => tfd[c] \in shut

\* In reactor mode the event loop waits for every request it has handed over, so the
\* queue is never longer than one and never full: append() is never refused and no
\* wait for m_improv is for a request nobody has.
ElReactorHandsOneOver ==
    mode.actor = 1 /\ queue # <<>> =>
        Len(queue) = 1 /\ main.at \in {"read", "write"} /\ queue[1] = main.fd

Stuck == main.at = "stuck" \/ \E w \in Workers : wk[w].at = "stuck"

\* The event loop's wait for m_improv ends, whatever the worker's read_once(), write()
\* or process() does, unless a worker goes round the loop of write() for ever.
ElImprovComes == main.at \in {"read", "write"} ~> main.at \notin {"read", "write"} \/ Stuck

Lost(c) ==
    \E f \in Fds : /\ kern[f].conn = c /\ kern[f].armed = "no"
                   /\ Hands(f) = 0 /\ main.fd # f
                   /\ \A e \in main.batch : e.src = "conn" => e.fd # f

\* A connection that nobody handles and no event can wake (append_p() found the queue
\* full) does not stay so: the timers close it, as long as the event loop runs.
ElLostIsClosed == \A c \in Connections : Lost(c) ~> ~Lost(c) \/ Stuck

\* SIGTERM ends the event loop: the signal is not lost in the pipe, and the loop
\* comes to its test of stop_server however many requests come in.
ElTermEnds == "TERM" \in pipe ~> ~Running \/ Stuck

\* A connection is in the hands of one handler, and the reactor has at most one
\* request with the workers, whichever way the events and the workers interleave.
ElHandlersRight == ElOneHandler /\ ElReactorHandsOneOver

\* Timers and connections agree in both directions: an open connection is in the
\* list, and a timer in the list whose connection is gone needs its cause.
ElTimersRight == ElTimerForEach /\ ElTimerOutlives
=============================================================================
