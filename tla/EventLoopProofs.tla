--------------------------- MODULE EventLoopProofs --------------------------
(***************************************************************************)
(* Proofs about EventLoop.  For every set of descriptors and of workers,   *)
(* every mode, any number of connections and any length of the queue:      *)
(*                                                                         *)
(*   - every open connection has its timer in the list, and a timer whose  *)
(*     connection is gone is on a descriptor that a worker has closed;     *)
(*   - users[fd] is in the hands of one handler, and the reactor has at    *)
(*     most one request with the workers.                                  *)
(*                                                                         *)
(* Neither is inductive.  The timers need what the event loop may still    *)
(* adjust: the descriptors of the events it has fetched and of the one it  *)
(* handles (TimersInv).  The handlers need where a descriptor's single     *)
(* "turn" is: armed in epoll, among the fetched events, in the queue or    *)
(* with a thread (TurnInv), and that in turn needs how the reactor and the *)
(* one worker it waits for stand to each other (ReactorInv).               *)
(*                                                                         *)
(* The theorems are about EventLoop, where the timers are a set.  The list *)
(* of the code loses timers once one is taken out of its middle, which     *)
(* takes three timers (see TimerList).                                     *)
(***************************************************************************)
EXTENDS EventLoop, FiniteSetTheorems, TLAPS

MainAts == {"wait", "events", "read", "write", "send", "stuck", "end"}
WorkerAts == {"idle", "read", "write", "improv", "improv, flag", "flag", "process",
              "close", "arm", "stuck"}
ConnEvents == [src : {"conn"}, fd : Fds, hup : BOOLEAN, ev : {"IN", "OUT"}]
AllEvents == ConnEvents \cup {[src |-> "listen"], [src |-> "pipe"]}

Kern == [conn : 0 .. MaxConnections, armed : {"no", "IN", "OUT"},
         peer : {"quiet", "data", "gone"}]
Users == [valid : BOOLEAN, improv : {0, 1}, flag : {0, 1}, state : {0, 1}, reply : BOOLEAN]
EventLoops == [at : MainAts, batch : SUBSET AllEvents, fd : Fds \cup {0},
               timeout : BOOLEAN, stop : BOOLEAN]

\* The types, and when the event loop and the workers have a descriptor at hand.
DataOK ==
    /\ mode \in Modes
    /\ kern \in [Fds -> Kern]
    /\ obj \in [Fds -> Users]
    /\ tm \in [Connections -> {"none", "fresh", "due", "freed"}]
    /\ tfd \in [Connections -> Fds \cup {0}]
    /\ cd \in [Fds -> 0 .. MaxConnections]
    /\ accepted \in 0 .. MaxConnections

MainOK ==
    /\ main \in EventLoops
    /\ main.fd \in Fds <=> main.at \in {"read", "write", "send", "stuck"}
    /\ main.at \in {"wait", "end"} => main.batch = {}

WorkOK ==
    /\ queue \in Seq(Fds)
    /\ wk \in [Workers -> [at : WorkerAts, fd : Fds \cup {0}]]
    /\ \A w \in Workers : wk[w].fd \in Fds <=> wk[w].at # "idle"

ElTypeOK == DataOK /\ MainOK /\ WorkOK

-----------------------------------------------------------------------------
Listed == {"fresh", "due"}
InBatch(f) == \E e \in main.batch : e.src = "conn" /\ e.fd = f

\* The event loop may still adjust the timer of f.
Handled(f) == InBatch(f) \/ main.fd = f

TimersInv ==
    /\ ElTimersRight
    /\ \A f \in Fds : kern[f].conn <= accepted
    /\ \A c \in Connections : tm[c] \in Listed => c <= accepted /\ tfd[c] \in Fds
    /\ \A f \in Fds : cd[f] # 0 => cd[f] <= accepted /\ tfd[cd[f]] = f
    /\ \A f \in Fds : Handled(f) => cd[f] # 0 /\ tm[cd[f]] \in Listed

-----------------------------------------------------------------------------
InQueue(f) == \E i \in DOMAIN queue : queue[i] = f

\* The worker has users[f] in its hands; at "flag" it counts no more.
Has(w, f) == wk[w].at \notin {"idle", "flag"} /\ wk[w].fd = f

\* The worker has taken what the reactor waits for and has not set m_improv yet.
Pre(w) == wk[w].at \in {"read", "write", "improv", "improv, flag"}

Waits == main.at \in {"read", "write"}

ReactorInv ==
    /\ Waits \/ (\E w \in Workers : Pre(w)) => mode.actor = 1
    /\ mode.actor = 1 /\ ~Waits =>
         /\ queue = <<>>
         /\ \A w \in Workers : ~Pre(w)
         /\ \A f \in Fds : obj[f].improv = 0
    /\ Waits =>
         /\ \A f \in Fds : f # main.fd => obj[f].improv = 0
         /\ queue # <<>> => /\ queue = <<main.fd>>
                            /\ obj[main.fd].improv = 0
                            /\ obj[main.fd].state = (IF main.at = "read" THEN 0 ELSE 1)
                            /\ \A w \in Workers : ~Pre(w)
         /\ \A w \in Workers : Pre(w) => /\ wk[w].fd = main.fd
                                         /\ queue = <<>>
                                         /\ obj[main.fd].improv = 0
                                         /\ wk[w].at = "read" <=> main.at = "read"
         /\ \A v, w \in Workers : Pre(v) /\ Pre(w) => v = w

Turn(f) ==
    /\ \A v, w \in Workers : Has(v, f) /\ Has(w, f) => v = w
    /\ \A i, j \in DOMAIN queue : queue[i] = f /\ queue[j] = f => i = j
    /\ \A d, e \in main.batch : d.src = "conn" /\ e.src = "conn" /\ d.fd = f /\ e.fd = f => d = e
    /\ InQueue(f) => /\ ~InBatch(f)
                     /\ kern[f].armed = "no"
                     /\ ~(main.at = "send" /\ main.fd = f)
                     /\ \A w \in Workers : ~Has(w, f)
    /\ InBatch(f) => /\ kern[f].conn # 0
                     /\ kern[f].armed = "no"
                     /\ main.fd # f
                     /\ \A w \in Workers : ~Has(w, f)
    /\ kern[f].armed # "no" =>
         \A w \in Workers : Has(w, f) => /\ wk[w].at \in {"improv", "improv, flag"}
                                         /\ main.at = "write" /\ main.fd = f
    /\ main.at = "send" /\ main.fd = f => \A w \in Workers : ~Has(w, f)
    /\ main.at = "write" /\ main.fd = f =>
         \A w \in Workers : Has(w, f) => /\ Pre(w) \/ wk[w].at = "stuck"
                                         /\ obj[f].improv = 0

TurnInv == \A f \in Fds \ reused : Turn(f)

ElInv == ElTypeOK /\ TimersInv /\ ReactorInv /\ TurnInv

-----------------------------------------------------------------------------
(* Types *)

\* Descriptors and worker numbers are not 0.
LEMMA NotZero == 0 \notin Fds /\ MaxConnections \in Nat /\ MaxRequests \in Nat \ {0}
BY EventLoopAssumption

\* A worker's step to its next place keeps its descriptor while it has one.
LEMMA GoesType ==
    ASSUME WorkOK, NEW w \in Workers, wk[w].at # "idle", NEW to \in WorkerAts, Goes(w, to), queue' = queue
    PROVE  WorkOK'
BY NotZero DEF WorkOK, Goes, WorkerAts

\* The records a descriptor starts with.
LEMMA FirstRecords == Closed \in Kern /\ Fresh \in Users
BY NotZero DEF Closed, Kern, Fresh, Users

\* An assignment to what the peer did last.
LEMMA PeerType ==
    ASSUME DataOK, NEW f \in Fds, NEW p \in {"quiet", "data", "gone"}, kern' = [kern EXCEPT ![f].peer = p]
    PROVE  kern' \in [Fds -> Kern]
BY DEF DataOK, Kern

\* An assignment to a field of users[f].
LEMMA FieldType ==
    ASSUME DataOK, NEW f \in Fds, NEW n \in {0, 1}, NEW b \in BOOLEAN,
           \/ obj' = [obj EXCEPT ![f].improv = n]
           \/ obj' = [obj EXCEPT ![f].flag = n]
           \/ obj' = [obj EXCEPT ![f].state = n]
           \/ obj' = [obj EXCEPT ![f].valid = b]
           \/ obj' = [obj EXCEPT ![f].reply = b]
    PROVE  obj' \in [Fds -> Users]
<1>1. CASE obj' = [obj EXCEPT ![f].improv = n] BY <1>1 DEF DataOK, Users
<1>2. CASE obj' = [obj EXCEPT ![f].flag = n] BY <1>2 DEF DataOK, Users
<1>3. CASE obj' = [obj EXCEPT ![f].state = n] BY <1>3 DEF DataOK, Users
<1>4. CASE obj' = [obj EXCEPT ![f].valid = b] BY <1>4 DEF DataOK, Users
<1>5. CASE obj' = [obj EXCEPT ![f].reply = b] BY <1>5 DEF DataOK, Users
<1> QED BY <1>1, <1>2, <1>3, <1>4, <1>5

\* modfd() sets what a descriptor is armed for.
LEMMA ModfdType ==
    ASSUME DataOK, NEW f \in Fds, NEW e \in {"no", "IN", "OUT"}
    PROVE  modfd(kern, f, e) \in [Fds -> Kern]
BY DEF DataOK, modfd, Kern

\* What write() leaves behind: it sets no m_improv.
LEMMA OutcomeType ==
    ASSUME DataOK, NEW f \in Fds, NEW o \in WriteOutcomes(f)
    PROVE  /\ o.arm \in {"no", "IN", "OUT"} /\ o.obj \in Users
           /\ o.obj.improv = 1 => obj[f].improv = 1
<1> DEFINE empty == [Fresh EXCEPT !.valid = obj[f].valid]
           sent  == [obj[f] EXCEPT !.reply = FALSE]
<1>1. obj[f] \in Users BY DEF DataOK
<1>2. empty \in Users /\ sent \in Users /\ empty.improv = 0 /\ sent.improv = obj[f].improv
  BY <1>1 DEF Fresh, Users
<1> HIDE DEF empty, sent
<1>3. \/ o = [ok |-> TRUE, arm |-> "IN", obj |-> empty]
      \/ o = [ok |-> TRUE, arm |-> "OUT", obj |-> obj[f]]
      \/ o = [ok |-> FALSE, arm |-> "no", obj |-> obj[f]]
      \/ o = [ok |-> FALSE, arm |-> "IN", obj |-> sent]
  BY Zenon DEF WriteOutcomes, empty, sent
<1> QED BY <1>1, <1>2, <1>3

\* A worker's step, seen from wk.
LEMMA GoesFacts ==
    ASSUME WorkOK, NEW w \in Workers, NEW to, Goes(w, to)
    PROVE  /\ wk'[w].at = to /\ wk'[w].fd = (IF to = "idle" THEN 0 ELSE wk[w].fd)
           /\ \A v \in Workers \ {w} : wk'[v] = wk[v]
BY DEF Goes, WorkOK

\* write() by a worker: it arms the descriptor or not, sets no m_improv and either
\* returns or goes round its loop.
LEMMA WriteFacts ==
    ASSUME DataOK, WorkOK, NEW w \in Workers, W_Write(w)
    PROVE  /\ wk'[w].at \in {"improv", "improv, flag", "stuck"} /\ wk'[w].fd = wk[w].fd
           /\ \A v \in Workers \ {w} : wk'[v] = wk[v]
           /\ wk'[w].at = "stuck" => kern' = kern
           /\ kern' = kern \/ \E a \in {"no", "IN", "OUT"} : kern' = modfd(kern, wk[w].fd, a)
           /\ \A f \in Fds : obj[f].improv = 0 => obj'[f].improv = 0
<1> DEFINE g == wk[w].fd
<1>1. g \in Fds BY DEF W_Write, WorkOK
<1>2. CASE Goes(w, "stuck") /\ UNCHANGED <<kern, obj>> BY <1>2, GoesFacts
<1>3. ASSUME NEW o \in WriteOutcomes(g), obj' = [obj EXCEPT ![g] = o.obj],
             kern' = IF o.arm = "no" THEN kern ELSE modfd(kern, g, o.arm),
             NEW to \in {"improv", "improv, flag"}, Goes(w, to)
      PROVE  /\ wk'[w].at \in {"improv", "improv, flag"} /\ wk'[w].fd = g
             /\ \A v \in Workers \ {w} : wk'[v] = wk[v]
             /\ kern' = kern \/ \E a \in {"no", "IN", "OUT"} : kern' = modfd(kern, g, a)
             /\ \A f \in Fds : obj[f].improv = 0 => obj'[f].improv = 0
  <2>1. o.arm \in {"no", "IN", "OUT"} /\ o.obj \in Users /\ (o.obj.improv = 1 => obj[g].improv = 1)
    BY <1>1, OutcomeType
  <2>2. obj[g].improv = 0 => o.obj.improv = 0 BY <2>1 DEF Users
  <2>3. \A f \in Fds : obj[f].improv = 0 => obj'[f].improv = 0 BY <1>1, <1>3, <2>2 DEF DataOK
  <2>4. kern' = kern \/ \E a \in {"no", "IN", "OUT"} : kern' = modfd(kern, g, a) BY <1>3, <2>1
  <2> QED BY <1>3, <2>3, <2>4, GoesFacts
<1>4. \/ Goes(w, "stuck") /\ UNCHANGED <<kern, obj>>
      \/ \E o \in WriteOutcomes(g), to \in {"improv", "improv, flag"} :
            /\ obj' = [obj EXCEPT ![g] = o.obj]
            /\ kern' = IF o.arm = "no" THEN kern ELSE modfd(kern, g, o.arm)
            /\ Goes(w, to)
  BY DEF W_Write
<1> QED BY <1>2, <1>3, <1>4, GoesFacts

\* adjust_timer()
LEMMA AdjustedType ==
    ASSUME DataOK, NEW f \in Fds
    PROVE  Adjusted(f) \in [Connections -> {"none", "fresh", "due", "freed"}]
BY Zenon DEF DataOK, Adjusted

\* A fetched event of a connection names a descriptor.
LEMMA EventType ==
    ASSUME MainOK, NEW e \in main.batch, e.src = "conn"
    PROVE  e.fd \in Fds
BY DEF MainOK, EventLoops, AllEvents, ConnEvents

\* The end of the process, in whichever way.
LEMMA EndTypes ==
    ASSUME ElTypeOK, NEW why, ProcessEnds(why), UNCHANGED <<mode, tfd, cd, accepted>>
    PROVE  ElTypeOK'
<1>1. DataOK' BY NotZero DEF ElTypeOK, DataOK, ProcessEnds, Closed, Fresh, Kern, Users
<1>2. MainOK' BY NotZero, Zenon DEF ElTypeOK, MainOK, ProcessEnds, EventLoops, MainAts
<1>3. WorkOK'
  <2>1. queue' \in Seq(Fds) BY DEF ProcessEnds
  <2>2. wk' = [w \in Workers |-> [at |-> "idle", fd |-> 0]] BY DEF ProcessEnds, Idle
  <2> QED BY <2>1, <2>2, NotZero DEF WorkOK, WorkerAts
<1> QED BY <1>1, <1>2, <1>3 DEF ElTypeOK

\* Every step keeps the types.
LEMMA TypesStep ==
    ASSUME ElTypeOK, [ElNext]_elVars
    PROVE  ElTypeOK'
<1> DataOK /\ MainOK /\ WorkOK BY DEF ElTypeOK
<1>1. ASSUME NEW f \in Fds, Client_Send(f) \/ Client_Hangup(f) PROVE ElTypeOK'
  <2>1. kern' \in [Fds -> Kern] BY <1>1, PeerType DEF Client_Send, Client_Hangup
  <2> QED BY <1>1, <2>1 DEF Client_Send, Client_Hangup, ElTypeOK, DataOK, MainOK, WorkOK
<1>2. CASE Terminate \/ Alarm BY <1>2 DEF Terminate, Alarm, ElTypeOK, DataOK, MainOK, WorkOK
<1>3. CASE Main_Wait
  <2>1. \A listen \in BOOLEAN : Events(listen) \in SUBSET AllEvents
    <3>1. \A f \in Fds : Ready(f) =>
             [src |-> "conn", fd |-> f, hup |-> kern[f].peer = "gone", ev |-> kern[f].armed] \in ConnEvents
      BY DEF ConnEvents, DataOK, Ready, Kern
    <3> QED BY <3>1, Zenon DEF Events, AllEvents
  <2>2. kern' \in [Fds -> Kern]
    <3>1. \A f \in Fds : kern[f] \in Kern /\ [kern[f] EXCEPT !.armed = "no"] \in Kern BY DEF Kern, DataOK
    <3> QED BY <1>3, <3>1 DEF Main_Wait
  <2>3. PICK b \in SUBSET AllEvents : main' = [main EXCEPT !.at = "events", !.batch = b]
    BY <1>3, <2>1, Zenon DEF Main_Wait, MayAccept
  <2>4. MainOK' BY <1>3, <2>3, NotZero, Zenon DEF Main_Wait, MainOK, EventLoops, MainAts
  <2> QED BY <1>3, <2>2, <2>4 DEF Main_Wait, ElTypeOK, DataOK, WorkOK
<1>4. CASE deal_client_data
  <2>1. MainOK' BY <1>4 DEF deal_client_data, MainOK, EventLoops
  <2>2. CASE UNCHANGED <<kern, obj, tm, tfd, cd, accepted, reused>>
    BY <1>4, <2>1, <2>2 DEF deal_client_data, ElTypeOK, DataOK, WorkOK
  <2>3. ASSUME NEW f \in Free, MayAccept, Accept(f, accepted + 1) PROVE ElTypeOK'
    <3>1. f \in Fds /\ accepted + 1 \in Connections /\ accepted + 1 \in 0 .. MaxConnections
      BY <2>3, NotZero DEF Free, MayAccept, DataOK, Connections
    <3>2. [Closed EXCEPT !.conn = accepted + 1, !.armed = "IN"] \in Kern /\ Fresh \in Users
      BY <3>1 DEF Closed, Kern, Fresh, Users
    <3>3. DataOK' BY <1>4, <2>3, <3>1, <3>2 DEF deal_client_data, Accept, DataOK
    <3> QED BY <1>4, <2>1, <3>3 DEF deal_client_data, ElTypeOK, WorkOK
  <2> QED BY <1>4, <2>2, <2>3 DEF deal_client_data
<1>5. CASE Main_Hangup BY <1>5, EndTypes DEF Main_Hangup, del_timer
<1>6. CASE deal_with_signal
  <2>1. PICK b \in SUBSET main.batch, s \in BOOLEAN, u \in BOOLEAN :
           main' = [main EXCEPT !.batch = b, !.timeout = s, !.stop = u]
    BY <1>6, Zenon DEF deal_with_signal
  <2>2. MainOK' BY <1>6, <2>1, Zenon DEF deal_with_signal, MainOK, EventLoops
  <2> QED BY <1>6, <2>2 DEF deal_with_signal, ElTypeOK, DataOK, WorkOK
<1>a. ASSUME NEW e \in main.batch, e.src = "conn", NEW s \in {0, 1}, NEW wait \in {"read", "write"},
             Delegate(e, s, wait), UNCHANGED <<mode, tfd, cd, pipe, alarmSet, accepted, reused, shut>>
      PROVE  ElTypeOK'
  <2>1. CASE ProcessEnds("crashed") BY <1>a, <2>1, EndTypes
  <2>2. CASE ~ProcessEnds("crashed")
    <3>1. e.fd \in Fds BY <1>a, EventType
    <3>2. obj' \in [Fds -> Users] BY <1>a, <2>2, <3>1, FieldType, Zenon DEF Delegate, DataOK
    <3>3. DataOK' BY <1>a, <2>2, <3>1, <3>2, AdjustedType DEF Delegate, DataOK
    <3>4. MainOK'
      <4>1. main' = [main EXCEPT !.batch = @ \ {e}, !.at = wait, !.fd = e.fd] BY <1>a, <2>2 DEF Delegate
      <4> QED BY <4>1, <3>1, NotZero DEF MainOK, EventLoops, MainAts
    <3>5. WorkOK' BY <1>a, <2>2, <3>1 DEF Delegate, WorkOK
    <3> QED BY <3>3, <3>4, <3>5 DEF ElTypeOK
  <2> QED BY <2>1, <2>2
<1>7. CASE deal_with_read
  <2>1. ASSUME NEW e \in main.batch, e.src = "conn", read_Proactor(e) PROVE ElTypeOK'
    <3>1. CASE del_timer(e.fd) BY <1>7, <3>1, EndTypes DEF deal_with_read, del_timer
    <3>2. CASE ~del_timer(e.fd)
      <4>1. e.fd \in Fds BY <2>1, EventType
      <4>2. kern' \in [Fds -> Kern] BY <2>1, <3>2, <4>1, PeerType, Zenon DEF read_Proactor
      <4>3. DataOK' BY <1>7, <2>1, <3>2, <4>1, <4>2, AdjustedType, Zenon DEF deal_with_read, read_Proactor, DataOK
      <4>4. MainOK' BY <2>1, <3>2, Zenon DEF read_Proactor, MainOK, EventLoops, MainAts
      <4>5. WorkOK'
        <5>1. queue' = queue \/ queue' = Append(queue, e.fd) BY <2>1, <3>2 DEF read_Proactor
        <5>2. queue' \in Seq(Fds) BY <5>1, <4>1 DEF WorkOK
        <5> QED BY <2>1, <3>2, <5>2, Zenon DEF read_Proactor, WorkOK
      <4> QED BY <4>3, <4>4, <4>5 DEF ElTypeOK
    <3> QED BY <3>1, <3>2
  <2> QED BY <1>7, <1>a, <2>1 DEF deal_with_read
<1>8. CASE deal_with_write
  <2>1. ASSUME NEW e \in main.batch, e.src = "conn",
               main' = [main EXCEPT !.batch = @ \ {e}, !.at = "send", !.fd = e.fd],
               UNCHANGED <<kern, obj, tm, queue, wk, fate>>
        PROVE  ElTypeOK'
    <3>1. e.fd \in Fds BY <2>1, EventType
    <3>2. MainOK' BY <2>1, <3>1, NotZero, Zenon DEF MainOK, EventLoops, MainAts
    <3> QED BY <1>8, <2>1, <3>2 DEF deal_with_write, ElTypeOK, DataOK, WorkOK
  <2> QED BY <1>8, <1>a, <2>1, Zenon DEF deal_with_write
<1>9. CASE Main_Improv
  <2>1. CASE del_timer(main.fd) BY <1>9, <2>1, EndTypes DEF Main_Improv, del_timer
  <2>2. CASE ~del_timer(main.fd)
    <3>1. main.fd \in Fds BY <1>9 DEF Main_Improv, MainOK
    <3>2. obj' \in [Fds -> Users] BY <1>9, <2>2, <3>1, FieldType, Zenon DEF Main_Improv
    <3>3. MainOK'
      <4>1. \/ main' = [main EXCEPT !.at = "events", !.fd = 0]
            \/ main' = [main EXCEPT !.at = "send"]
        BY <1>9, <2>2 DEF Main_Improv
      <4> QED BY <4>1, <3>1, NotZero DEF MainOK, EventLoops, MainAts
    <3> QED BY <1>9, <2>2, <3>2, <3>3 DEF Main_Improv, ElTypeOK, DataOK, WorkOK
  <2> QED BY <2>1, <2>2
<1>10. CASE Main_Send
  <2>1. CASE del_timer(main.fd) BY <1>10, <2>1, EndTypes DEF Main_Send, del_timer
  <2>2. CASE ~del_timer(main.fd)
    <3>1. main.fd \in Fds BY <1>10 DEF Main_Send, MainOK
    <3>2. obj' \in [Fds -> Users] /\ kern' \in [Fds -> Kern]
      <4>1. CASE UNCHANGED <<obj, kern>> BY <4>1 DEF DataOK
      <4>2. ASSUME NEW o \in WriteOutcomes(main.fd), obj' = [obj EXCEPT ![main.fd] = o.obj],
                   kern' = modfd(kern, main.fd, o.arm)
            PROVE  obj' \in [Fds -> Users] /\ kern' \in [Fds -> Kern]
        <5>1. o.arm \in {"no", "IN", "OUT"} /\ o.obj \in Users BY <3>1, OutcomeType
        <5> QED BY <3>1, <4>2, <5>1, ModfdType DEF DataOK
      <4> QED BY <1>10, <2>2, <4>1, <4>2 DEF Main_Send
    <3>3. DataOK' BY <1>10, <2>2, <3>1, <3>2, AdjustedType DEF Main_Send, DataOK
    <3>4. MainOK' BY <1>10, <2>2, <3>1, NotZero, Zenon DEF Main_Send, MainOK, EventLoops, MainAts
    <3> QED BY <1>10, <2>2, <3>3, <3>4 DEF Main_Send, ElTypeOK, WorkOK
  <2> QED BY <2>1, <2>2
<1>11. CASE Main_Round
  <2>2. DataOK' BY <1>11, FirstRecords DEF Main_Round, time_handler, tick, removefd, DataOK
  <2>3. MainOK' BY <1>11, NotZero, Zenon DEF Main_Round, MainOK, EventLoops, MainAts
  <2> QED BY <1>11, <2>2, <2>3 DEF Main_Round, ElTypeOK, WorkOK
<1>12. CASE Main_Stop BY <1>12, EndTypes DEF Main_Stop
<1>13. ASSUME NEW w \in Workers, W_Take(w) PROVE ElTypeOK'
  <2>1. Head(queue) \in Fds /\ Tail(queue) \in Seq(Fds) BY <1>13 DEF W_Take, WorkOK
  <2>2. WorkOK' BY <1>13, <2>1 DEF W_Take, WorkOK, WorkerAts
  <2> QED BY <1>13, <2>2 DEF W_Take, ElTypeOK, DataOK, MainOK
<1>b. ASSUME NEW w \in Workers, wk[w].at # "idle", NEW to \in WorkerAts, Goes(w, to), queue' = queue,
             kern' \in [Fds -> Kern], obj' \in [Fds -> Users],
             UNCHANGED <<mode, tm, tfd, cd, main, accepted>>
      PROVE  ElTypeOK'
  <2>1. WorkOK' BY <1>b, GoesType
  <2> QED BY <1>b, <2>1 DEF ElTypeOK, DataOK, MainOK
<1>c. \A w \in Workers : wk[w].at # "idle" => wk[w].fd \in Fds BY DEF WorkOK
<1>14. ASSUME NEW w \in Workers, W_Read(w) PROVE ElTypeOK'
  <2>1. kern' \in [Fds -> Kern] BY <1>14, <1>c, PeerType, Zenon DEF W_Read, DataOK
  <2>2. obj' \in [Fds -> Users] BY <1>14, <1>c, FieldType DEF W_Read
  <2> QED BY <1>14, <1>b, <2>1, <2>2, Zenon DEF W_Read, WorkerAts
<1>15. ASSUME NEW w \in Workers, W_Write(w) PROVE ElTypeOK'
  <2>1. kern' \in [Fds -> Kern] /\ obj' \in [Fds -> Users]
    <3>1. CASE UNCHANGED <<obj, kern>> BY <3>1 DEF DataOK
    <3>2. ASSUME NEW o \in WriteOutcomes(wk[w].fd), obj' = [obj EXCEPT ![wk[w].fd] = o.obj],
                 kern' = kern \/ kern' = modfd(kern, wk[w].fd, o.arm)
          PROVE  obj' \in [Fds -> Users] /\ kern' \in [Fds -> Kern]
      <4>1. wk[w].fd \in Fds BY <1>15, <1>c DEF W_Write
      <4>2. o.arm \in {"no", "IN", "OUT"} /\ o.obj \in Users BY <4>1, OutcomeType
      <4> QED BY <4>1, <3>2, <4>2, ModfdType DEF DataOK
    <3> QED BY <1>15, <3>1, <3>2 DEF W_Write
  <2> QED BY <1>15, <1>b, <2>1 DEF W_Write, WorkerAts
<1>16. ASSUME NEW w \in Workers, W_Improv(w) \/ W_Flag(w) \/ W_Close(w) PROVE ElTypeOK'
  <2>1. obj' \in [Fds -> Users] /\ kern' \in [Fds -> Kern]
    BY <1>16, <1>c, FieldType DEF W_Improv, W_Flag, W_Close, DataOK
  <2> QED BY <1>16, <1>b, <2>1 DEF W_Improv, W_Flag, W_Close, WorkerAts
<1>17. ASSUME NEW w \in Workers, W_Process(w) PROVE ElTypeOK'
  <2>1. kern' \in [Fds -> Kern]
    BY <1>17, <1>c, FirstRecords, ModfdType DEF W_Process, removefd, DataOK
  <2>2. obj' \in [Fds -> Users] BY <1>17, <1>c, FieldType, Zenon DEF W_Process, DataOK
  <2> QED BY <1>17, <1>b, <2>1, <2>2, Zenon DEF W_Process, WorkerAts
<1>18. ASSUME NEW w \in Workers, W_Arm(w) PROVE ElTypeOK'
  <2>1. kern' \in [Fds -> Kern] BY <1>18, <1>c, ModfdType DEF W_Arm
  <2> QED BY <1>18, <1>b, <2>1 DEF W_Arm, WorkerAts, DataOK
<1>19. CASE Ended \/ UNCHANGED elVars BY <1>19 DEF Ended, elVars, ElTypeOK, DataOK, MainOK, WorkOK
<1> QED
  BY <1>1, <1>2, <1>3, <1>4, <1>5, <1>6, <1>7, <1>8, <1>9, <1>10, <1>11, <1>12, <1>13, <1>14, <1>15,
     <1>16, <1>17, <1>18, <1>19
  DEF ElNext, Environment, MainStep, WorkerStep

-----------------------------------------------------------------------------
(* Timers *)

\* modfd() opens and closes nothing.
LEMMA ModfdConn ==
    ASSUME DataOK, NEW f \in Fds, NEW e, NEW g \in Fds
    PROVE  modfd(kern, f, e)[g].conn = kern[g].conn
BY DEF DataOK, modfd, Kern

\* A step that opens and closes no connection, puts no timer into the list, takes none
\* off it and fetches events of open connections only.
LEMMA TimersKept ==
    ASSUME DataOK, TimersInv, DataOK',
           \A f \in Fds : kern'[f].conn = kern[f].conn,
           \A c \in Connections : tm'[c] \in Listed <=> tm[c] \in Listed,
           UNCHANGED <<tfd, cd, accepted, shut>>,
           \A f \in Fds : Handled(f)' => Handled(f) \/ kern[f].conn # 0
    PROVE  TimersInv'
<1>1. \A f \in Fds : cd[f] # 0 => cd[f] \in Connections BY NotZero DEF DataOK, Connections
<1>2. \A f \in Fds : kern[f].conn # 0 => kern[f].conn \in Connections
  BY NotZero DEF DataOK, Connections, Kern
<1>3. ElTimersRight'
  BY <1>2 DEF TimersInv, ElTimersRight, ElTimerForEach, ElTimerOutlives, Listed
<1>4. \A f \in Fds : Handled(f)' => cd'[f] # 0 /\ tm'[cd'[f]] \in Listed
  BY <1>1, <1>2 DEF TimersInv, ElTimersRight, ElTimerForEach, Listed
<1> QED BY <1>3, <1>4 DEF TimersInv

\* The event loop goes on with what it has fetched.
LEMMA HandledKept ==
    ASSUME MainOK, main'.batch \subseteq main.batch,
           \/ main'.fd = main.fd
           \/ main'.fd = 0
           \/ \E e \in main.batch : e.src = "conn" /\ main'.fd = e.fd
    PROVE  \A f \in Fds : Handled(f)' => Handled(f)
BY NotZero DEF Handled, InBatch

\* adjust_timer() gets a timer of the list and leaves it there.
LEMMA AdjustedListed ==
    ASSUME DataOK, TimersInv, NEW f \in Fds, Handled(f), tm' = Adjusted(f)
    PROVE  \A c \in Connections : tm'[c] \in Listed <=> tm[c] \in Listed
<1>1. cd[f] # 0 /\ tm[cd[f]] \in Listed BY DEF TimersInv
<1> QED BY <1>1 DEF Adjusted, Listed, DataOK

\* The end of the process leaves no connection and no timer.
LEMMA EndTimers ==
    ASSUME DataOK, MainOK, TimersInv, NEW why, ProcessEnds(why), UNCHANGED <<tfd, cd, accepted>>
    PROVE  TimersInv'
<1>1. /\ \A f \in Fds : kern'[f].conn = 0
      /\ \A c \in Connections : tm'[c] = "none"
      /\ main'.batch = {} /\ main'.fd = 0
  BY DEF ProcessEnds, Closed, MainOK, EventLoops
<1>2. \A f \in Fds : ~Handled(f)' BY <1>1, NotZero DEF Handled, InBatch
<1> QED BY <1>1, <1>2, NotZero DEF TimersInv, ElTimersRight, ElTimerForEach, ElTimerOutlives, Listed, DataOK

\* accept(): the new connection takes a closed descriptor and a new timer.
LEMMA AcceptTimers ==
    ASSUME DataOK, TimersInv, NEW f \in Fds, kern[f].conn = 0, accepted < MaxConnections,
           Accept(f, accepted + 1), shut' = shut, \A g \in Fds : Handled(g)' => Handled(g)
    PROVE  TimersInv'
<1> DEFINE n == accepted + 1
<1>1. n \in Connections /\ n # 0 BY NotZero DEF DataOK, Connections
<1>2. /\ kern'[f].conn = n /\ \A g \in Fds \ {f} : kern'[g] = kern[g]
      /\ tm'[n] = "fresh" /\ \A c \in Connections \ {n} : tm'[c] = tm[c]
      /\ tfd'[n] = f /\ \A c \in Connections \ {n} : tfd'[c] = tfd[c]
      /\ cd'[f] = n /\ \A g \in Fds \ {f} : cd'[g] = cd[g]
      /\ accepted' = n
  BY <1>1 DEF Accept, DataOK, Closed
<1>3. /\ \A g \in Fds : kern[g].conn \in 0 .. accepted /\ cd[g] \in 0 .. accepted
      /\ \A c \in Connections : tm[c] \in Listed => c \in 1 .. accepted /\ tfd[c] \in Fds
      /\ accepted \in Nat /\ n \notin 0 .. accepted /\ 0 .. accepted \subseteq Connections \cup {0}
  BY NotZero DEF TimersInv, DataOK, Connections, Kern
<1> HIDE DEF n
<1>4. ElTimerForEach'
  BY <1>1, <1>2, <1>3 DEF TimersInv, ElTimersRight, ElTimerForEach, Listed
<1>5. ElTimerOutlives'
  <2> SUFFICES ASSUME NEW c \in Connections, tm'[c] \in Listed, kern'[tfd'[c]].conn # c
               PROVE  tfd'[c] \in shut'
    BY DEF ElTimerOutlives, Listed
  <2>1. c # n BY <1>2
  <2>2. tm[c] \in Listed /\ tfd'[c] = tfd[c] /\ tfd[c] \in Fds /\ c # 0 BY <1>2, <1>3, <2>1 DEF Connections
  <2>3. kern[tfd[c]].conn # c BY <1>2, <2>2
  <2> QED BY <2>2, <2>3 DEF TimersInv, ElTimersRight, ElTimerOutlives, Listed
<1>6. \A c \in Connections : tm'[c] \in Listed => c <= accepted' /\ tfd'[c] \in Fds
  BY <1>1, <1>2, <1>3 DEF n
<1>7. \A g \in Fds : kern'[g].conn <= accepted' BY <1>2, <1>3 DEF n
<1>8. \A g \in Fds : cd'[g] # 0 => cd'[g] <= accepted' /\ tfd'[cd'[g]] = g
  BY <1>1, <1>2, <1>3 DEF TimersInv, n
<1>9. \A g \in Fds : Handled(g)' => cd'[g] # 0 /\ tm'[cd'[g]] \in Listed
  BY <1>1, <1>2, <1>3 DEF TimersInv, Listed
<1> QED BY <1>4, <1>5, <1>6, <1>7, <1>8, <1>9 DEF TimersInv, ElTimersRight

\* tick(): what is due is closed and taken off the list in one step; a newer
\* connection that goes with it is on a descriptor that a worker has closed.
LEMMA TickTimers ==
    ASSUME DataOK, TimersInv, tick, UNCHANGED <<tfd, cd, accepted, shut>>,
           \A f \in Fds : ~Handled(f)'
    PROVE  TimersInv'
<1>1. \A f \in Fds : /\ (\E c \in Connections : tm[c] = "due" /\ tfd[c] = f) => kern'[f].conn = 0
                     /\ (\A c \in Connections : ~(tm[c] = "due" /\ tfd[c] = f)) => kern'[f] = kern[f]
  BY DEF tick, removefd, Closed, DataOK
<1>2. \A c \in Connections : tm'[c] \in Listed <=> tm[c] = "fresh"
  <2> SUFFICES ASSUME NEW c \in Connections PROVE tm'[c] \in Listed <=> tm[c] = "fresh" OBVIOUS
  <2>1. tm'[c] = (CASE tm[c] = "fresh" -> "due" [] tm[c] = "due" -> "freed" [] OTHER -> tm[c]) BY DEF tick
  <2>2. tm[c] \in {"none", "fresh", "due", "freed"} BY DEF DataOK
  <2> QED BY <2>1, <2>2 DEF Listed
<1>3. \A f \in Fds : kern'[f].conn = 0 \/ kern'[f].conn = kern[f].conn BY <1>1
<1>4. \A f \in Fds : kern[f].conn # 0 => kern[f].conn \in Connections
  BY NotZero DEF DataOK, Connections, Kern
<1>5. ElTimerForEach'
  <2> SUFFICES ASSUME NEW f \in Fds, kern'[f].conn # 0
               PROVE  tm'[kern'[f].conn] \in Listed /\ tfd[kern'[f].conn] = f /\ cd[f] = kern'[f].conn
    BY DEF ElTimerForEach, Listed
  <2> DEFINE c == kern[f].conn
  <2>1. kern'[f].conn = c /\ c \in Connections BY <1>3, <1>4
  <2>2. tm[c] \in Listed /\ tfd[c] = f /\ cd[f] = c
    BY <2>1 DEF TimersInv, ElTimersRight, ElTimerForEach, Listed
  <2>3. tm[c] # "due" BY <1>1, <2>1, <2>2
  <2> QED BY <1>2, <2>1, <2>2, <2>3 DEF Listed
<1>6. ElTimerOutlives'
  <2> SUFFICES ASSUME NEW c \in Connections, tm[c] = "fresh", kern'[tfd[c]].conn # c
               PROVE  tfd[c] \in shut
    BY <1>2 DEF ElTimerOutlives, Listed
  <2>1. tfd[c] \in Fds BY DEF TimersInv, Listed
  <2>2. CASE kern[tfd[c]].conn # c BY <2>2 DEF TimersInv, ElTimersRight, ElTimerOutlives
  <2>3. CASE kern[tfd[c]].conn = c
    <3>a. kern'[tfd[c]] # kern[tfd[c]] BY <2>3
    <3>1. PICK d \in Connections : tm[d] = "due" /\ tfd[d] = tfd[c] BY <1>1, <2>1, <3>a
    <3>2. kern[tfd[d]].conn # d BY <2>3, <3>1
    <3> QED BY <3>1, <3>2 DEF TimersInv, ElTimersRight, ElTimerOutlives
  <2> QED BY <2>2, <2>3
<1>7. \A f \in Fds : kern'[f].conn <= accepted'
  BY <1>3, NotZero DEF TimersInv, DataOK
<1> QED BY <1>2, <1>5, <1>6, <1>7 DEF TimersInv, ElTimersRight, Listed

\* close_conn() by a worker: the descriptor is closed, its timer stays in the list.
LEMMA CloseTimers ==
    ASSUME DataOK, TimersInv, NEW f \in Fds, kern' = removefd(kern, f), shut' = shut \cup {f},
           UNCHANGED <<tm, tfd, cd, accepted, main>>
    PROVE  TimersInv'
<1>1. kern'[f].conn = 0 /\ \A g \in Fds \ {f} : kern'[g] = kern[g] BY DEF removefd, Closed, DataOK
<1>2. ElTimerForEach' BY <1>1 DEF TimersInv, ElTimersRight, ElTimerForEach
<1>3. ElTimerOutlives' BY <1>1 DEF TimersInv, ElTimersRight, ElTimerOutlives, Listed
<1>4. \A g \in Fds : kern'[g].conn <= accepted' BY <1>1, NotZero DEF TimersInv, DataOK
<1>5. \A g \in Fds : Handled(g)' <=> Handled(g) BY DEF Handled, InBatch
<1> QED BY <1>2, <1>3, <1>4, <1>5 DEF TimersInv, ElTimersRight

\* Every step keeps timers and connections in agreement.
LEMMA TimersStep ==
    ASSUME ElTypeOK, ElTypeOK', TimersInv, [ElNext]_elVars
    PROVE  TimersInv'
<1> DataOK /\ MainOK /\ WorkOK /\ DataOK' BY DEF ElTypeOK
<1>a. ASSUME UNCHANGED <<tm, tfd, cd, accepted, shut, main>>,
             \A f \in Fds : kern'[f].conn = kern[f].conn
      PROVE  TimersInv'
  <2>1. \A f \in Fds : Handled(f)' => Handled(f) BY <1>a DEF Handled, InBatch
  <2> QED BY <1>a, <2>1, TimersKept
<1>1. ASSUME NEW f \in Fds, Client_Send(f) \/ Client_Hangup(f) PROVE TimersInv'
  <2>1. \A g \in Fds : kern'[g].conn = kern[g].conn BY <1>1 DEF Client_Send, Client_Hangup, DataOK, Kern
  <2> QED BY <1>1, <1>a, <2>1 DEF Client_Send, Client_Hangup
<1>2. CASE Terminate \/ Alarm BY <1>2, <1>a DEF Terminate, Alarm
<1>3. CASE Main_Wait
  <2>1. \A f \in Fds : kern'[f].conn = kern[f].conn BY <1>3 DEF Main_Wait, DataOK, Kern
  <2>2. \A f \in Fds : Handled(f)' => kern[f].conn # 0
    <3>1. main'.fd = 0 BY <1>3 DEF Main_Wait, MainOK, EventLoops
    <3>2. PICK listen \in BOOLEAN : main'.batch = Events(listen)
      BY <1>3 DEF Main_Wait, MayAccept, MainOK, EventLoops
    <3>3. \A e \in Events(listen) : e.src = "conn" => \E g \in Fds : Ready(g) /\ e.fd = g
      BY DEF Events
    <3> QED BY <3>1, <3>2, <3>3, NotZero DEF Handled, InBatch, Ready
  <2> QED BY <1>3, <2>1, <2>2, TimersKept DEF Main_Wait
<1>4. CASE deal_client_data
  <2>1. main'.batch \subseteq main.batch /\ main'.fd = main.fd
    BY <1>4 DEF deal_client_data, MainOK, EventLoops
  <2>2. \A f \in Fds : Handled(f)' => Handled(f) BY <2>1, HandledKept
  <2>3. CASE UNCHANGED <<kern, obj, tm, tfd, cd, accepted, reused>>
    BY <1>4, <2>2, <2>3, TimersKept DEF deal_client_data
  <2>4. ASSUME NEW f \in Free, MayAccept, Accept(f, accepted + 1) PROVE TimersInv'
    BY <1>4, <2>2, <2>4, AcceptTimers DEF deal_client_data, MayAccept, Free
  <2> QED BY <1>4, <2>3, <2>4 DEF deal_client_data
<1>5. CASE Main_Hangup BY <1>5, EndTimers DEF Main_Hangup, del_timer
<1>6. CASE deal_with_signal
  <2>1. main'.batch \subseteq main.batch /\ main'.fd = main.fd
    BY <1>6 DEF deal_with_signal, MainOK, EventLoops
  <2>2. \A f \in Fds : Handled(f)' => Handled(f) BY <2>1, HandledKept
  <2> QED BY <1>6, <2>2, TimersKept DEF deal_with_signal
<1>b. ASSUME NEW e \in main.batch, e.src = "conn", NEW s, NEW wait, Delegate(e, s, wait),
             UNCHANGED <<mode, tfd, cd, pipe, alarmSet, accepted, reused, shut>>
      PROVE  TimersInv'
  <2>1. CASE ProcessEnds("crashed") BY <1>b, <2>1, EndTimers
  <2>2. CASE ~ProcessEnds("crashed")
    <3>1. e.fd \in Fds /\ Handled(e.fd) BY <1>b, EventType DEF Handled, InBatch
    <3>2. /\ main' = [main EXCEPT !.batch = @ \ {e}, !.at = wait, !.fd = e.fd]
          /\ tm' = Adjusted(e.fd) /\ kern' = kern
      BY <1>b, <2>2 DEF Delegate
    <3>3. main'.batch \subseteq main.batch /\ main'.fd = e.fd BY <3>2 DEF MainOK, EventLoops
    <3>4. \A f \in Fds : Handled(f)' => Handled(f) BY <1>b, <3>3, HandledKept
    <3> QED BY <1>b, <3>1, <3>2, <3>4, AdjustedListed, TimersKept
  <2> QED BY <2>1, <2>2
<1>7. CASE deal_with_read
  <2>1. ASSUME NEW e \in main.batch, e.src = "conn", read_Proactor(e) PROVE TimersInv'
    <3>1. CASE del_timer(e.fd) BY <1>7, <3>1, EndTimers DEF deal_with_read, del_timer
    <3>2. CASE ~del_timer(e.fd)
      <4>1. e.fd \in Fds /\ Handled(e.fd) BY <2>1, EventType DEF Handled, InBatch
      <4>2. /\ main' = [main EXCEPT !.batch = @ \ {e}]
            /\ tm' = Adjusted(e.fd) /\ kern' = [kern EXCEPT ![e.fd].peer = "quiet"]
        BY <2>1, <3>2 DEF read_Proactor
      <4>3. main'.batch \subseteq main.batch /\ main'.fd = main.fd BY <4>2 DEF MainOK, EventLoops
      <4>4. \A f \in Fds : Handled(f)' => Handled(f) BY <4>3, HandledKept
      <4>5. \A f \in Fds : kern'[f].conn = kern[f].conn BY <4>1, <4>2 DEF DataOK, Kern
      <4> QED BY <1>7, <4>1, <4>2, <4>4, <4>5, AdjustedListed, TimersKept DEF deal_with_read
    <3> QED BY <3>1, <3>2
  <2> QED BY <1>7, <1>b, <2>1 DEF deal_with_read
<1>8. CASE deal_with_write
  <2>1. ASSUME NEW e \in main.batch, e.src = "conn",
               main' = [main EXCEPT !.batch = @ \ {e}, !.at = "send", !.fd = e.fd],
               UNCHANGED <<kern, obj, tm, queue, wk, fate>>
        PROVE  TimersInv'
    <3>1. main'.batch \subseteq main.batch /\ main'.fd = e.fd BY <2>1 DEF MainOK, EventLoops
    <3>2. \A f \in Fds : Handled(f)' => Handled(f) BY <2>1, <3>1, HandledKept
    <3> QED BY <1>8, <2>1, <3>2, TimersKept DEF deal_with_write
  <2> QED BY <1>8, <1>b, <2>1, Zenon DEF deal_with_write
<1>9. CASE Main_Improv
  <2>1. CASE del_timer(main.fd) BY <1>9, <2>1, EndTimers DEF Main_Improv, del_timer
  <2>2. CASE ~del_timer(main.fd)
    <3>1. \/ main' = [main EXCEPT !.at = "events", !.fd = 0]
          \/ main' = [main EXCEPT !.at = "send"]
      BY <1>9, <2>2 DEF Main_Improv
    <3>2. main'.batch = main.batch /\ main'.fd \in {0, main.fd} BY <3>1 DEF MainOK, EventLoops
    <3>3. \A f \in Fds : Handled(f)' => Handled(f) BY <3>2, HandledKept
    <3> QED BY <1>9, <2>2, <3>3, TimersKept DEF Main_Improv
  <2> QED BY <2>1, <2>2
<1>10. CASE Main_Send
  <2>1. CASE del_timer(main.fd) BY <1>10, <2>1, EndTimers DEF Main_Send, del_timer
  <2>2. CASE ~del_timer(main.fd)
    <3>1. main.fd \in Fds /\ Handled(main.fd) BY <1>10 DEF Main_Send, MainOK, Handled
    <3>2. main'.batch = main.batch /\ main'.fd \in {0, main.fd}
      BY <1>10, <2>2 DEF Main_Send, MainOK, EventLoops
    <3>3. \A f \in Fds : Handled(f)' => Handled(f) BY <3>2, HandledKept
    <3>4. \A f \in Fds : kern'[f].conn = kern[f].conn BY <1>10, <2>2, <3>1, ModfdConn DEF Main_Send
    <3>5. \A c \in Connections : tm'[c] \in Listed <=> tm[c] \in Listed
      BY <1>10, <2>2, <3>1, AdjustedListed DEF Main_Send
    <3> QED BY <1>10, <3>3, <3>4, <3>5, TimersKept DEF Main_Send
  <2> QED BY <2>1, <2>2
<1>11. CASE Main_Round
  <2>1. main'.batch = {} /\ main'.fd = 0 BY <1>11 DEF Main_Round, MainOK, EventLoops
  <2>2. \A f \in Fds : ~Handled(f)' BY <2>1, NotZero DEF Handled, InBatch
  <2>3. CASE main.timeout BY <1>11, <2>2, <2>3, TickTimers DEF Main_Round, time_handler
  <2>4. CASE ~main.timeout BY <1>11, <2>2, <2>4, TimersKept DEF Main_Round
  <2> QED BY <2>3, <2>4
<1>12. CASE Main_Stop BY <1>12, EndTimers DEF Main_Stop
<1>c. \A w \in Workers : wk[w].at # "idle" => wk[w].fd \in Fds BY DEF WorkOK
<1>13. ASSUME NEW w \in Workers, W_Take(w) \/ W_Improv(w) \/ W_Flag(w) \/ W_Close(w) PROVE TimersInv'
  BY <1>13, <1>a, Zenon DEF W_Take, W_Improv, W_Flag, W_Close
<1>14. ASSUME NEW w \in Workers, W_Read(w) PROVE TimersInv'
  <2>1. \A f \in Fds : kern'[f].conn = kern[f].conn BY <1>14, <1>c DEF W_Read, DataOK, Kern
  <2> QED BY <1>14, <1>a, <2>1 DEF W_Read
<1>15. ASSUME NEW w \in Workers, W_Write(w) \/ W_Arm(w) PROVE TimersInv'
  <2>1. wk[w].fd \in Fds BY <1>15, <1>c DEF W_Write, W_Arm
  <2>2. kern' = kern \/ \E a \in {"no", "IN", "OUT"} : kern' = modfd(kern, wk[w].fd, a)
    BY <1>15, <2>1, WriteFacts, Zenon DEF W_Arm
  <2>3. \A f \in Fds : kern'[f].conn = kern[f].conn BY <2>1, <2>2, ModfdConn
  <2> QED BY <1>15, <1>a, <2>3 DEF W_Write, W_Arm
<1>16. ASSUME NEW w \in Workers, W_Process(w) PROVE TimersInv'
  <2>1. wk[w].fd \in Fds BY <1>16, <1>c DEF W_Process
  <2>2. CASE shut' = shut /\ \A f \in Fds : kern'[f].conn = kern[f].conn
    BY <1>16, <1>a, <2>2 DEF W_Process
  <2>3. CASE kern' = removefd(kern, wk[w].fd) /\ shut' = shut \cup {wk[w].fd}
    BY <1>16, <2>1, <2>3, CloseTimers DEF W_Process
  <2> QED BY <1>16, <2>1, <2>2, <2>3, ModfdConn DEF W_Process
<1>17. CASE Ended \/ UNCHANGED elVars BY <1>17, <1>a DEF Ended, elVars
<1> QED
  BY <1>1, <1>2, <1>3, <1>4, <1>5, <1>6, <1>7, <1>8, <1>9, <1>10, <1>11, <1>12, <1>13, <1>14, <1>15,
     <1>16, <1>17
  DEF ElNext, Environment, MainStep, WorkerStep

-----------------------------------------------------------------------------
(* The reactor and the worker it waits for *)

\* A step that leaves the event loop where it is, hands nothing over and sets no m_improv.
LEMMA ReactorKept ==
    ASSUME ElTypeOK, ReactorInv, UNCHANGED <<mode, queue>>, main'.at = main.at, main'.fd = main.fd,
           \A w \in Workers : Pre(w)' => Pre(w) /\ wk'[w] = wk[w],
           \A f \in Fds : obj'[f].improv = obj[f].improv /\ obj'[f].state = obj[f].state
    PROVE  ReactorInv'
<1>1. Waits => main.fd \in Fds BY DEF Waits, ElTypeOK, MainOK
<1>2. Waits' <=> Waits BY DEF Waits
<1> QED BY <1>1, <1>2 DEF ReactorInv, Waits

\* A step of the event loop while it waits for nobody.
LEMMA ReactorFree ==
    ASSUME ReactorInv, ~Waits, ~Waits', UNCHANGED <<mode, wk>>, queue' = queue \/ mode.actor = 0,
           \A f \in Fds : obj'[f].improv = 0 \/ obj'[f].improv = obj[f].improv
    PROVE  ReactorInv'
<1>1. \A w \in Workers : Pre(w)' <=> Pre(w) BY DEF Pre
<1> QED BY <1>1 DEF ReactorInv

\* The end of the process ends every wait.
LEMMA EndReactor ==
    ASSUME MainOK, NEW why, ProcessEnds(why)
    PROVE  ReactorInv'
<1>1. /\ \A f \in Fds : obj'[f].improv = 0
      /\ \A w \in Workers : wk'[w].at = "idle"
      /\ main'.at = "end" /\ queue' = <<>>
  BY DEF ProcessEnds, Fresh, Idle, MainOK, EventLoops
<1>2. ~Waits' /\ \A w \in Workers : ~Pre(w)' BY <1>1 DEF Waits, Pre
<1> QED BY <1>1, <1>2 DEF ReactorInv

\* append() in reactor mode finds the queue empty and nobody else waited for.
LEMMA DelegateReactor ==
    ASSUME ElTypeOK, ReactorInv, main.at = "events", NEW e \in main.batch, e.src = "conn",
           Delegate(e, 0, "read") \/ Delegate(e, 1, "write"), mode' = mode
    PROVE  ReactorInv'
<1> MainOK /\ DataOK BY DEF ElTypeOK
<1>1. CASE ProcessEnds("crashed") BY <1>1, EndReactor
<1>2. CASE ~ProcessEnds("crashed")
  <2>1. e.fd \in Fds BY EventType
  <2>2. mode.actor = 1 BY DEF Delegate
  <2>3. queue = <<>> /\ (\A w \in Workers : ~Pre(w)) /\ \A f \in Fds : obj[f].improv = 0
    BY <2>2 DEF ReactorInv, Waits
  <2>4. Len(queue) = 0 /\ ~(Len(queue) >= MaxRequests) BY <2>3, NotZero
  <2>5. \E s \in {0, 1}, wait \in {"read", "write"} :
           /\ s = (IF wait = "read" THEN 0 ELSE 1)
           /\ queue' = Append(queue, e.fd) /\ obj' = [obj EXCEPT ![e.fd].state = s]
           /\ main' = [main EXCEPT !.batch = @ \ {e}, !.at = wait, !.fd = e.fd] /\ wk' = wk
    BY <1>2, <2>4 DEF Delegate
  <2>6. PICK s \in {0, 1}, wait \in {"read", "write"} :
           /\ s = (IF wait = "read" THEN 0 ELSE 1)
           /\ queue' = Append(queue, e.fd) /\ obj' = [obj EXCEPT ![e.fd].state = s]
           /\ main' = [main EXCEPT !.batch = @ \ {e}, !.at = wait, !.fd = e.fd] /\ wk' = wk
    BY <2>5
  <2>7. main'.at = wait /\ main'.fd = e.fd BY <2>6 DEF MainOK, EventLoops
  <2>8. queue' = <<e.fd>> BY <2>3, <2>6
  <2>9. obj'[e.fd].state = s /\ \A f \in Fds : obj'[f].improv = 0
    BY <2>1, <2>3, <2>6 DEF DataOK, Users
  <2>10. \A w \in Workers : ~Pre(w)' BY <2>3, <2>6 DEF Pre
  <2> QED BY <2>1, <2>2, <2>6, <2>7, <2>8, <2>9, <2>10 DEF ReactorInv, Waits
<1> QED BY <1>1, <1>2

\* The wait ends: whoever was waited for has set m_improv and is past it.
LEMMA ImprovReactor ==
    ASSUME ElTypeOK, ReactorInv, Main_Improv
    PROVE  ReactorInv'
<1> MainOK /\ DataOK BY DEF ElTypeOK
<1>1. CASE del_timer(main.fd) BY <1>1, EndReactor DEF del_timer
<1>2. CASE ~del_timer(main.fd)
  <2>1. main.fd \in Fds /\ obj[main.fd].improv = 1 /\ Waits BY DEF Main_Improv, MainOK, Waits
  <2>2. /\ obj' = [obj EXCEPT ![main.fd].improv = 0] /\ UNCHANGED <<queue, wk, mode>>
        /\ main' = IF main.at = "read" THEN [main EXCEPT !.at = "events", !.fd = 0]
                   ELSE [main EXCEPT !.at = "send"]
    BY <1>2 DEF Main_Improv
  <2>3. main'.at \in {"events", "send"} BY <2>2 DEF MainOK, EventLoops
  <2>4. queue = <<>> /\ (\A w \in Workers : ~Pre(w)) /\ \A f \in Fds : f # main.fd => obj[f].improv = 0
    BY <2>1 DEF ReactorInv
  <2>5. \A f \in Fds : obj'[f].improv = 0 BY <2>1, <2>2, <2>4 DEF DataOK, Users
  <2>6. \A w \in Workers : ~Pre(w)' BY <2>2, <2>4 DEF Pre
  <2> QED BY <2>2, <2>3, <2>4, <2>5, <2>6 DEF ReactorInv, Waits
<1> QED BY <1>1, <1>2

\* A worker takes the request that is waited for.
LEMMA TakeReactor ==
    ASSUME ElTypeOK, ReactorInv, NEW w \in Workers, W_Take(w)
    PROVE  ReactorInv'
<1> WorkOK BY DEF ElTypeOK
<1>1. UNCHANGED <<mode, obj, main>> /\ queue # <<>> BY DEF W_Take
<1>2. /\ \A v \in Workers \ {w} : wk'[v] = wk[v]
      /\ wk'[w].fd = Head(queue)
      /\ wk'[w].at = (CASE mode.actor = 0 -> "process"
                        [] mode.actor = 1 /\ obj[Head(queue)].state = 0 -> "read"
                        [] OTHER -> "write")
  BY DEF W_Take, WorkOK
<1>3. CASE mode.actor = 1
  <2>1. Waits BY <1>1, <1>3 DEF ReactorInv
  <2>2. /\ queue = <<main.fd>> /\ obj[main.fd].improv = 0
        /\ obj[main.fd].state = (IF main.at = "read" THEN 0 ELSE 1)
        /\ \A v \in Workers : ~Pre(v)
        /\ \A f \in Fds : f # main.fd => obj[f].improv = 0
    BY <1>1, <2>1 DEF ReactorInv
  <2>3. Head(queue) = main.fd /\ queue' = <<>> BY <2>2 DEF W_Take
  <2>4. wk'[w].at = (IF main.at = "read" THEN "read" ELSE "write") /\ wk'[w].fd = main.fd
    BY <1>2, <1>3, <2>2, <2>3
  <2>5. \A v \in Workers : Pre(v)' => v = w BY <1>2, <2>2, Zenon DEF Pre
  <2> QED BY <1>1, <1>3, <2>1, <2>2, <2>3, <2>4, <2>5 DEF ReactorInv, Waits
<1>4. CASE mode.actor # 1
  <2>1. ~Waits /\ \A v \in Workers : ~Pre(v) BY <1>4 DEF ReactorInv
  <2>2. mode.actor = 0
    <3>1. mode.actor \in {0, 1} BY EventLoopAssumption DEF ElTypeOK, DataOK
    <3> QED BY <3>1, <1>4
  <2>3. wk'[w].at = "process" BY <1>2, <2>2
  <2>4. \A v \in Workers : ~Pre(v)' BY <1>2, <2>1, <2>3 DEF Pre
  <2> QED BY <1>1, <1>4, <2>1, <2>4 DEF ReactorInv, Waits
<1> QED BY <1>3, <1>4

\* The worker that is waited for sets m_improv.
LEMMA SetsReactor ==
    ASSUME ElTypeOK, ReactorInv, NEW w \in Workers, Pre(w), ~Pre(w)',
           \A v \in Workers \ {w} : wk'[v] = wk[v],
           obj' = [obj EXCEPT ![wk[w].fd].improv = 1], UNCHANGED <<mode, queue, main>>
    PROVE  ReactorInv'
<1>1. Waits /\ mode.actor = 1 BY DEF ReactorInv
<1>2. /\ wk[w].fd = main.fd /\ queue = <<>>
      /\ \A v \in Workers : Pre(v) => v = w
      /\ \A f \in Fds : f # main.fd => obj[f].improv = 0
  BY <1>1 DEF ReactorInv
<1>3. \A f \in Fds : f # main.fd => obj'[f].improv = 0
  BY <1>2 DEF ElTypeOK, DataOK, Users
<1>4. \A v \in Workers : ~Pre(v)' BY <1>2 DEF Pre
<1> QED BY <1>1, <1>2, <1>3, <1>4 DEF ReactorInv, Waits

\* write() of the worker that is waited for.
LEMMA WriteReactor ==
    ASSUME ElTypeOK, ReactorInv, NEW w \in Workers, W_Write(w)
    PROVE  ReactorInv'
<1> DataOK /\ WorkOK BY DEF ElTypeOK
<1>1. Pre(w) /\ wk[w].at = "write" BY Zenon DEF W_Write, Pre
<1>2. Waits /\ mode.actor = 1 BY <1>1 DEF ReactorInv
<1>3. /\ wk[w].fd = main.fd /\ queue = <<>> /\ obj[main.fd].improv = 0 /\ main.at = "write"
      /\ \A v \in Workers : Pre(v) => v = w
      /\ \A f \in Fds : f # main.fd => obj[f].improv = 0
  BY <1>1, <1>2 DEF ReactorInv, Waits
<1>4. main.fd \in Fds BY <1>2 DEF Waits, ElTypeOK, MainOK
<1>5. /\ \A v \in Workers \ {w} : wk'[v] = wk[v]
      /\ wk'[w].fd = main.fd /\ wk'[w].at \in {"improv", "improv, flag", "stuck"}
  BY <1>3, WriteFacts
<1>6. \A f \in Fds : obj'[f].improv = 0
  BY <1>3, <1>4, WriteFacts
<1>7. \A v \in Workers : Pre(v)' => v = w BY <1>3, <1>5 DEF Pre
<1>8. UNCHANGED <<mode, queue, main>> BY DEF W_Write
<1>9. wk'[w].at # "read" BY <1>5, Zenon
<1> QED BY <1>2, <1>3, <1>4, <1>5, <1>6, <1>7, <1>8, <1>9, Zenon DEF ReactorInv, Waits

\* Every step keeps the reactor and its worker in step.
LEMMA ReactorStep ==
    ASSUME ElTypeOK, ReactorInv, [ElNext]_elVars
    PROVE  ReactorInv'
<1> DataOK /\ MainOK /\ WorkOK BY DEF ElTypeOK
<1>a. ASSUME UNCHANGED <<mode, obj, queue, wk>>, main'.at = main.at, main'.fd = main.fd PROVE ReactorInv'
  <2>1. \A w \in Workers : Pre(w)' => Pre(w) /\ wk'[w] = wk[w] BY <1>a DEF Pre
  <2> QED BY <1>a, <2>1, ReactorKept
<1>1. ASSUME NEW f \in Fds, Client_Send(f) \/ Client_Hangup(f) PROVE ReactorInv'
  BY <1>1, <1>a DEF Client_Send, Client_Hangup
<1>2. CASE Terminate \/ Alarm BY <1>2, <1>a DEF Terminate, Alarm
<1>3. CASE Main_Wait \/ Main_Round
  <2>1. main.at \in {"wait", "events"} /\ main'.at \in {"wait", "events"}
    BY <1>3 DEF Main_Wait, Main_Round, MainOK, EventLoops
  <2> QED BY <1>3, <2>1, ReactorFree, Zenon DEF Main_Wait, Main_Round, Waits
<1>4. CASE deal_client_data
  <2>1. main.at = "events" /\ main'.at = "events" BY <1>4 DEF deal_client_data, MainOK, EventLoops
  <2>2. \A f \in Fds : obj'[f].improv = 0 \/ obj'[f].improv = obj[f].improv
    BY <1>4 DEF deal_client_data, Accept, Free, Fresh, DataOK
  <2> QED BY <1>4, <2>1, <2>2, ReactorFree DEF deal_client_data, Waits
<1>5. CASE Main_Hangup BY <1>5, EndReactor DEF Main_Hangup, del_timer
<1>6. CASE deal_with_signal
  <2>1. main'.at = main.at /\ main'.fd = main.fd BY <1>6 DEF deal_with_signal, MainOK, EventLoops
  <2> QED BY <1>6, <1>a, <2>1 DEF deal_with_signal
<1>7. CASE deal_with_read
  <2>1. ASSUME NEW e \in main.batch, read_Proactor(e) PROVE ReactorInv'
    <3>1. CASE del_timer(e.fd) BY <3>1, EndReactor DEF del_timer
    <3>2. CASE ~del_timer(e.fd)
      <4>1. main.at = "events" /\ main'.at = "events"
        BY <1>7, <2>1, <3>2, Zenon DEF deal_with_read, read_Proactor, MainOK, EventLoops
      <4> QED BY <1>7, <2>1, <3>2, <4>1, ReactorFree, Zenon DEF deal_with_read, read_Proactor, Waits
    <3> QED BY <3>1, <3>2
  <2> QED BY <1>7, <2>1, DelegateReactor DEF deal_with_read
<1>8. CASE deal_with_write
  <2>1. ASSUME NEW e \in main.batch, UNCHANGED <<kern, obj, tm, queue, wk, fate>>,
               main' = [main EXCEPT !.batch = @ \ {e}, !.at = "send", !.fd = e.fd]
        PROVE  ReactorInv'
    <3>1. main.at = "events" /\ main'.at = "send" BY <1>8, <2>1 DEF deal_with_write, MainOK, EventLoops
    <3> QED BY <1>8, <2>1, <3>1, ReactorFree DEF deal_with_write, Waits
  <2> QED BY <1>8, <2>1, DelegateReactor, Zenon DEF deal_with_write
<1>9. CASE Main_Improv BY <1>9, ImprovReactor
<1>10. CASE Main_Send
  <2>1. CASE del_timer(main.fd) BY <2>1, EndReactor DEF del_timer
  <2>2. CASE ~del_timer(main.fd)
    <3>1. main.fd \in Fds BY <1>10 DEF Main_Send, MainOK
    <3>2. main.at = "send" /\ main'.at \in {"events", "stuck"}
      BY <1>10, <2>2, Zenon DEF Main_Send, MainOK, EventLoops
    <3>3. \A f \in Fds : obj'[f].improv = 0 \/ obj'[f].improv = obj[f].improv
      <4>1. CASE obj' = obj BY <4>1
      <4>2. ASSUME NEW o \in WriteOutcomes(main.fd), obj' = [obj EXCEPT ![main.fd] = o.obj]
            PROVE  \A f \in Fds : obj'[f].improv = 0 \/ obj'[f].improv = obj[f].improv
        <5>1. o.obj \in Users /\ (o.obj.improv = 1 => obj[main.fd].improv = 1) BY <3>1, OutcomeType
        <5>2. o.obj.improv = 0 \/ o.obj.improv = obj[main.fd].improv BY <5>1 DEF Users
        <5> QED BY <3>1, <4>2, <5>2 DEF DataOK
      <4> QED BY <1>10, <2>2, <4>1, <4>2 DEF Main_Send
    <3> QED BY <1>10, <2>2, <3>2, <3>3, ReactorFree DEF Main_Send, Waits
  <2> QED BY <2>1, <2>2
<1>11. CASE Main_Stop BY <1>11, EndReactor DEF Main_Stop
<1>12. ASSUME NEW w \in Workers, W_Take(w) PROVE ReactorInv' BY <1>12, TakeReactor
<1>13. ASSUME NEW w \in Workers, W_Read(w) PROVE ReactorInv'
  <2>1. /\ \A v \in Workers \ {w} : wk'[v] = wk[v]
        /\ wk[w].at = "read" /\ wk'[w].at \in {"process", "flag"}
    BY <1>13 DEF W_Read, Goes, WorkOK
  <2>2. Pre(w) /\ ~Pre(w)' BY <2>1 DEF Pre
  <2> QED BY <1>13, <2>1, <2>2, SetsReactor, Zenon DEF W_Read
<1>14. ASSUME NEW w \in Workers, W_Improv(w) PROVE ReactorInv'
  <2>1. /\ \A v \in Workers \ {w} : wk'[v] = wk[v]
        /\ wk[w].at \in {"improv", "improv, flag"} /\ wk'[w].at \in {"idle", "flag"}
    BY <1>14 DEF W_Improv, Goes, WorkOK
  <2>2. Pre(w) /\ ~Pre(w)' BY <2>1 DEF Pre
  <2> QED BY <1>14, <2>1, <2>2, SetsReactor DEF W_Improv
<1>15. ASSUME NEW w \in Workers, W_Write(w) PROVE ReactorInv' BY <1>15, WriteReactor
<1>16. ASSUME NEW w \in Workers, W_Flag(w) \/ W_Process(w) \/ W_Close(w) \/ W_Arm(w) PROVE ReactorInv'
  <2>1. /\ \A v \in Workers \ {w} : wk'[v] = wk[v]
        /\ wk'[w].at \in {"idle", "arm", "close", "stuck"}
    BY <1>16 DEF W_Flag, W_Process, W_Close, W_Arm, Goes, WorkOK
  <2>2. \A v \in Workers : Pre(v)' => Pre(v) /\ wk'[v] = wk[v] BY <2>1, Zenon DEF Pre
  <2>3. wk[w].fd \in Fds BY <1>16 DEF W_Flag, W_Process, W_Close, W_Arm, WorkOK
  <2>4. \A f \in Fds : obj'[f].improv = obj[f].improv /\ obj'[f].state = obj[f].state
    BY <1>16, <2>3 DEF W_Flag, W_Process, W_Close, W_Arm, DataOK, Users
  <2> QED BY <1>16, <2>2, <2>4, ReactorKept DEF W_Flag, W_Process, W_Close, W_Arm
<1>17. CASE Ended \/ UNCHANGED elVars BY <1>17, <1>a DEF Ended, elVars
<1> QED
  BY <1>1, <1>2, <1>3, <1>4, <1>5, <1>6, <1>7, <1>8, <1>9, <1>10, <1>11, <1>12, <1>13, <1>14, <1>15,
     <1>16, <1>17
  DEF ElNext, Environment, MainStep, WorkerStep

-----------------------------------------------------------------------------
(* The turn of a descriptor *)

\* A step that gives users[f] to nobody: what it takes away does no harm.
LEMMA TurnKept ==
    ASSUME NEW f \in Fds, Turn(f), queue' = queue, main'.batch \subseteq main.batch,
           \A w \in Workers : Has(w, f)' => Has(w, f) /\ wk'[w] = wk[w],
           kern'[f].armed \in {"no", kern[f].armed},
           InBatch(f)' => kern'[f].conn = kern[f].conn,
           \/ main'.at = main.at /\ main'.fd = main.fd /\ obj'[f].improv = obj[f].improv
           \/ main.fd # f /\ main'.fd # f
    PROVE  Turn(f)'
<1>1. InBatch(f)' => InBatch(f) BY DEF InBatch
<1>2. InQueue(f)' <=> InQueue(f) BY Zenon DEF InQueue
<1>3. \A w \in Workers : Has(w, f)' => (Pre(w)' <=> Pre(w)) BY DEF Pre
<1> QED BY <1>1, <1>2, <1>3, Zenon DEF Turn

\* A step of the one worker that has users[f] and is not waited for in a write.
LEMMA TurnWorker ==
    ASSUME NEW f \in Fds, Turn(f), NEW w \in Workers, Has(w, f),
           wk[w].at \notin {"improv", "improv, flag"}, ~(main.at = "write" /\ main.fd = f),
           \A v \in Workers \ {w} : wk'[v] = wk[v], UNCHANGED <<main, queue>>,
           Has(w, f)' => kern'[f].armed = "no"
    PROVE  Turn(f)'
<1>1. (InBatch(f)' <=> InBatch(f)) /\ (InQueue(f)' <=> InQueue(f)) BY Zenon DEF InBatch, InQueue
<1>2. \A v \in Workers \ {w} : Has(v, f)' <=> Has(v, f) BY Zenon DEF Has
<1>3. /\ ~InBatch(f) /\ ~InQueue(f) /\ ~(main.at = "send" /\ main.fd = f)
      /\ \A v \in Workers \ {w} : ~Has(v, f)
  BY Zenon DEF Turn
<1> QED BY <1>1, <1>2, <1>3, Zenon DEF Turn, InQueue, InBatch

\* Nobody has users[f], and nobody gets it.
LEMMA TurnNobody ==
    ASSUME NEW f \in Fds, ~InQueue(f)', ~InBatch(f)', \A w \in Workers : ~Has(w, f)'
    PROVE  Turn(f)'
BY ZenonT(30) DEF Turn, InQueue, InBatch

\* append() puts users[f] into the queue once its event is done.
LEMMA TurnQueued ==
    ASSUME ElTypeOK, NEW f \in Fds, Turn(f), NEW e \in main.batch, e.src = "conn", e.fd = f,
           queue' = queue \/ queue' = Append(queue, f), main'.batch = main.batch \ {e},
           wk' = wk, kern'[f].armed = kern[f].armed, main'.at # "send"
    PROVE  Turn(f)'
<1>1. InBatch(f) BY DEF InBatch
<1>2. ~InQueue(f) /\ kern[f].armed = "no" /\ \A w \in Workers : ~Has(w, f) BY <1>1, Zenon DEF Turn
<1>3. \A w \in Workers : ~Has(w, f)' BY <1>2 DEF Has
<1>4. ~InBatch(f)' BY Zenon DEF InBatch, Turn
<1>5. queue \in Seq(Fds) BY DEF ElTypeOK, WorkOK
<1>6. \A i, j \in DOMAIN queue' : queue'[i] = f /\ queue'[j] = f => i = j
  <2>1. CASE queue' = queue BY <2>1, <1>2 DEF InQueue
  <2>2. CASE queue' = Append(queue, f)
    <3>1. /\ Len(queue') = Len(queue) + 1 /\ DOMAIN queue' = 1 .. (Len(queue) + 1)
          /\ Len(queue) \in Nat /\ DOMAIN queue = 1 .. Len(queue)
          /\ \A i \in 1 .. Len(queue) : queue'[i] = queue[i]
      BY <2>2, <1>5
    <3>2. \A i \in DOMAIN queue' : queue'[i] = f => i = Len(queue) + 1 BY <3>1, <1>2 DEF InQueue
    <3> QED BY <3>2
  <2> QED BY <2>1, <2>2
<1> QED BY <1>2, <1>3, <1>4, <1>6 DEF Turn, InBatch

\* append() of another descriptor.
LEMMA TurnOther ==
    ASSUME ElTypeOK, NEW f \in Fds, Turn(f), NEW g \in Fds \ {f}, queue' = Append(queue, g),
           main'.batch \subseteq main.batch, wk' = wk, kern'[f] = kern[f], main.fd # f, main'.fd # f
    PROVE  Turn(f)'
<1>1. queue \in Seq(Fds) BY DEF ElTypeOK, WorkOK
<1>2. /\ DOMAIN queue' = 1 .. (Len(queue) + 1) /\ Len(queue) \in Nat /\ DOMAIN queue = 1 .. Len(queue)
      /\ \A i \in 1 .. Len(queue) : queue'[i] = queue[i]
      /\ queue'[Len(queue) + 1] = g
  BY <1>1
<1>3. \A i \in DOMAIN queue' : queue'[i] = f => i \in DOMAIN queue /\ queue[i] = f BY <1>2
<1>4. InQueue(f)' => InQueue(f) BY <1>3 DEF InQueue
<1>5. InBatch(f)' => InBatch(f) BY DEF InBatch
<1>6. \A w \in Workers : Has(w, f)' <=> Has(w, f) BY DEF Has
<1> QED BY <1>3, <1>4, <1>5, <1>6, Zenon DEF Turn

\* A worker takes the head of the queue.
LEMMA TakeTurn ==
    ASSUME ElTypeOK, ReactorInv, NEW w \in Workers, W_Take(w), NEW f \in Fds, Turn(f)
    PROVE  Turn(f)'
<1>1. UNCHANGED <<kern, obj, main>> /\ queue # <<>> /\ queue' = Tail(queue) BY DEF W_Take
<1>2. /\ \A v \in Workers \ {w} : wk'[v] = wk[v]
      /\ wk'[w].fd = Head(queue)
      /\ mode.actor = 1 /\ obj[Head(queue)].state # 0 => wk'[w].at = "write"
  BY DEF W_Take, ElTypeOK, WorkOK
<1>3. /\ queue \in Seq(Fds) /\ Len(queue) \in Nat \ {0} /\ Head(queue) = queue[1]
      /\ DOMAIN queue = 1 .. Len(queue) /\ DOMAIN queue' = 1 .. (Len(queue) - 1)
      /\ \A i \in DOMAIN queue' : i + 1 \in DOMAIN queue /\ queue'[i] = queue[i + 1]
  BY <1>1 DEF ElTypeOK, WorkOK
<1>4. \A i, j \in DOMAIN queue' : queue'[i] = f /\ queue'[j] = f => i = j
  <2> SUFFICES ASSUME NEW i \in DOMAIN queue', NEW j \in DOMAIN queue', queue'[i] = f, queue'[j] = f
               PROVE  i = j
    OBVIOUS
  <2>1. i + 1 = j + 1 BY <1>3, Zenon DEF Turn
  <2>2. i \in Int /\ j \in Int BY <1>3
  <2> QED BY <2>1, <2>2
<1>5. (InBatch(f)' <=> InBatch(f)) /\ (InQueue(f)' => InQueue(f)) BY <1>1, <1>3 DEF InBatch, InQueue
<1>6. \A v \in Workers \ {w} : Has(v, f)' <=> Has(v, f) BY <1>2 DEF Has
<1>7. CASE f = Head(queue)
  <2>1. 1 \in DOMAIN queue /\ queue[1] = f BY <1>3, <1>7
  <2>2. InQueue(f) BY <2>1 DEF InQueue
  <2>3. ~InQueue(f)'
    <3> SUFFICES ASSUME NEW i \in DOMAIN queue', queue'[i] = f PROVE FALSE BY DEF InQueue
    <3>1. i + 1 = 1 BY <1>3, <2>1, Zenon DEF Turn
    <3> QED BY <1>3, <3>1
  <2>4. main.at = "write" /\ main.fd = f => wk'[w].at = "write" /\ obj[f].improv = 0
    BY <1>1, <1>2, <1>7 DEF ReactorInv, Waits
  <2>5. /\ ~InBatch(f) /\ kern[f].armed = "no" /\ ~(main.at = "send" /\ main.fd = f)
        /\ \A v \in Workers : ~Has(v, f)
    BY <2>2, ZenonT(30) DEF Turn
  <2>6. \A v \in Workers : Has(v, f)' => v = w BY <1>6, <2>5
  <2>7. \A d, e \in main'.batch : d.src = "conn" /\ e.src = "conn" /\ d.fd = f /\ e.fd = f => d = e
    BY <1>1, Zenon DEF Turn
  <2>8. wk'[w].at = "write" => Pre(w)' BY DEF Pre
  <2> QED BY <1>1, <1>4, <1>5, <2>3, <2>4, <2>5, <2>6, <2>7, <2>8, Zenon DEF Turn
<1>8. CASE f # Head(queue)
  <2>1. ~Has(w, f)' BY <1>2, <1>8 DEF Has
  <2>2. \A v \in Workers : Has(v, f)' => Has(v, f) /\ wk'[v] = wk[v] BY <1>2, <1>6, <2>1
  <2>3. \A v \in Workers : Has(v, f)' => (Pre(v)' <=> Pre(v)) BY <2>2, Zenon DEF Pre
  <2> QED BY <1>1, <1>4, <1>5, <2>2, <2>3, ZenonT(30) DEF Turn
<1> QED BY <1>7, <1>8

\* epoll_wait() disarms what it reports.
LEMMA FetchTurn ==
    ASSUME ElTypeOK, Main_Wait, NEW f \in Fds, Turn(f)
    PROVE  Turn(f)'
<1>1. main.at = "wait" /\ main.batch = {} /\ main'.at = "events" /\ main'.fd = main.fd /\ main.fd \notin Fds
  BY DEF Main_Wait, ElTypeOK, MainOK, EventLoops
<1>2. UNCHANGED <<wk, queue>> BY DEF Main_Wait
<1>3. PICK listen \in BOOLEAN : main'.batch = Events(listen)
  BY Zenon DEF Main_Wait, MayAccept, ElTypeOK, MainOK, EventLoops
<1> DEFINE Ev(g) == [src |-> "conn", fd |-> g, hup |-> kern[g].peer = "gone", ev |-> kern[g].armed]
<1>4. \A e \in Events(listen) : e.src = "conn" => \E g \in Fds : Ready(g) /\ e = Ev(g)
  BY DEF Events
<1>5. \A g \in Fds : Ev(g).fd = g OBVIOUS
<1> HIDE DEF Ev
<1>6. \A e \in main'.batch : e.src = "conn" /\ e.fd = f => Ready(f) /\ e = Ev(f) BY <1>3, <1>4, <1>5
<1>7. InBatch(f)' => Ready(f) BY <1>6 DEF InBatch
<1>8. InQueue(f)' <=> InQueue(f) BY <1>2 DEF InQueue
<1>9. \A w \in Workers : Has(w, f)' <=> Has(w, f) BY <1>2 DEF Has
<1>10. CASE Ready(f)
  <2>1. kern[f].conn # 0 /\ kern[f].armed # "no" BY <1>10 DEF Ready
  <2>2. ~InQueue(f) /\ \A w \in Workers : ~Has(w, f) BY <1>1, <2>1, Zenon DEF Turn
  <2>3. kern'[f].conn # 0 /\ kern'[f].armed = "no" BY <1>10, <2>1 DEF Main_Wait, ElTypeOK, DataOK, Kern
  <2> QED BY <1>1, <1>2, <1>6, <1>8, <1>9, <2>2, <2>3, Zenon DEF Turn
<1>11. CASE ~Ready(f)
  <2>1. kern'[f] = kern[f] BY <1>11 DEF Main_Wait
  <2> QED BY <1>1, <1>2, <1>6, <1>7, <1>8, <1>9, <1>11, <2>1, Zenon DEF Turn
<1> QED BY <1>10, <1>11

\* accept() of a descriptor that no thread uses.
LEMMA AcceptTurn ==
    ASSUME ElTypeOK, main.at = "events", main'.at = main.at, main'.fd = main.fd,
           main'.batch \subseteq main.batch, UNCHANGED <<wk, queue>>,
           NEW g \in Fds, kern[g].conn = 0, NEW c, Accept(g, c), NEW f \in Fds \ reused', Turn(f)
    PROVE  Turn(f)'
<1>1. main.fd \notin Fds BY DEF ElTypeOK, MainOK
<1>2. InBatch(f)' => InBatch(f) BY DEF InBatch
<1>3. CASE f = g
  <2>1. ~Uses(f) BY <1>3 DEF Accept
  <2>2. ~InQueue(f)' BY <2>1 DEF Uses, InQueue
  <2>3. ~InBatch(f) BY <1>3 DEF Turn
  <2>4. \A w \in Workers : ~Has(w, f)' BY <2>1 DEF Uses, Busy, Has
  <2> QED BY <1>2, <2>2, <2>3, <2>4, TurnNobody
<1>4. CASE f # g
  <2>1. kern'[f] = kern[f] /\ obj'[f] = obj[f] BY <1>4 DEF Accept, ElTypeOK, DataOK
  <2>2. \A w \in Workers : Has(w, f)' => Has(w, f) /\ wk'[w] = wk[w] BY DEF Has
  <2> QED BY <2>1, <2>2, TurnKept
<1> QED BY <1>3, <1>4

\* The end of the process.
LEMMA EndTurn ==
    ASSUME MainOK, NEW why, ProcessEnds(why), NEW f \in Fds
    PROVE  Turn(f)'
<1>1. main'.batch = {} /\ queue' = <<>> /\ \A w \in Workers : wk'[w].at = "idle"
  BY DEF ProcessEnds, Idle, MainOK, EventLoops
<1>2. ~InBatch(f)' /\ (\A w \in Workers : ~Has(w, f)') BY <1>1 DEF InBatch, Has
<1>3. ~InQueue(f)' BY <1>1 DEF InQueue
<1> QED BY <1>2, <1>3, TurnNobody

\* The reactor hands users[e.fd] over.
LEMMA DelegateTurn ==
    ASSUME ElTypeOK, main.at = "events", NEW e \in main.batch, e.src = "conn",
           NEW s, NEW wait \in {"read", "write"}, Delegate(e, s, wait), NEW f \in Fds, Turn(f)
    PROVE  Turn(f)'
<1> MainOK BY DEF ElTypeOK
<1>1. CASE ProcessEnds("crashed") BY <1>1, EndTurn
<1>2. CASE ~ProcessEnds("crashed")
  <2>1. e.fd \in Fds /\ main.fd # f BY EventType DEF MainOK
  <2>2. /\ main' = [main EXCEPT !.batch = @ \ {e}, !.at = wait, !.fd = e.fd]
        /\ queue' = queue \/ queue' = Append(queue, e.fd)
        /\ UNCHANGED <<kern, wk>>
    BY <1>2 DEF Delegate
  <2>3. main'.batch = main.batch \ {e} /\ main'.at \in {"read", "write"} /\ main'.fd = e.fd
    BY <2>2 DEF MainOK, EventLoops
  <2>4. CASE e.fd = f BY <2>2, <2>3, <2>4, TurnQueued
  <2>5. CASE e.fd # f /\ queue' = queue
    <3>1. \A w \in Workers : Has(w, f)' => Has(w, f) /\ wk'[w] = wk[w] BY <2>2 DEF Has
    <3> QED BY <2>1, <2>2, <2>3, <2>5, <3>1, TurnKept
  <2>6. CASE e.fd # f /\ queue' = Append(queue, e.fd) BY <2>1, <2>2, <2>3, <2>6, TurnOther
  <2> QED BY <2>2, <2>4, <2>5, <2>6
<1> QED BY <1>1, <1>2

\* The proactor has read and hands users[e.fd] over.
LEMMA ProactorTurn ==
    ASSUME ElTypeOK, main.at = "events", NEW e \in main.batch, e.src = "conn", read_Proactor(e),
           NEW f \in Fds, Turn(f)
    PROVE  Turn(f)'
<1> MainOK /\ DataOK BY DEF ElTypeOK
<1>1. CASE del_timer(e.fd) BY <1>1, EndTurn DEF del_timer
<1>2. CASE ~del_timer(e.fd)
  <2>1. e.fd \in Fds /\ main.fd # f BY EventType DEF MainOK
  <2>2. /\ main' = [main EXCEPT !.batch = @ \ {e}]
        /\ kern' = [kern EXCEPT ![e.fd].peer = "quiet"]
        /\ queue' = queue \/ queue' = Append(queue, e.fd)
        /\ wk' = wk
    BY <1>2, Zenon DEF read_Proactor
  <2>3. main'.batch = main.batch \ {e} /\ main'.at = "events" /\ main'.fd = main.fd
    BY <2>2 DEF MainOK, EventLoops
  <2>4. kern'[f].armed = kern[f].armed /\ (f # e.fd => kern'[f] = kern[f])
    BY <2>1, <2>2 DEF DataOK, Kern
  <2>5. CASE e.fd = f BY <2>2, <2>3, <2>4, <2>5, TurnQueued
  <2>6. CASE e.fd # f /\ queue' = queue
    <3>1. \A w \in Workers : Has(w, f)' => Has(w, f) /\ wk'[w] = wk[w] BY <2>2 DEF Has
    <3> QED BY <2>1, <2>3, <2>4, <2>6, <3>1, TurnKept
  <2>7. CASE e.fd # f /\ queue' = Append(queue, e.fd) BY <2>1, <2>2, <2>3, <2>4, <2>7, TurnOther
  <2> QED BY <2>2, <2>5, <2>6, <2>7
<1> QED BY <1>1, <1>2

\* The wait for m_improv ends: the worker of a write has let go of users[main.fd].
LEMMA ImprovTurn ==
    ASSUME ElTypeOK, ReactorInv, Main_Improv, NEW f \in Fds, Turn(f)
    PROVE  Turn(f)'
<1> MainOK BY DEF ElTypeOK
<1>1. CASE del_timer(main.fd) BY <1>1, EndTurn DEF del_timer
<1>2. CASE ~del_timer(main.fd)
  <2>1. /\ Waits /\ obj[main.fd].improv = 1 /\ UNCHANGED <<kern, queue, wk>>
        /\ main' = IF main.at = "read" THEN [main EXCEPT !.at = "events", !.fd = 0]
                   ELSE [main EXCEPT !.at = "send"]
    BY <1>2 DEF Main_Improv, Waits
  <2>2. /\ main'.batch = main.batch
        /\ \/ main.at = "read" /\ main'.at = "events" /\ main'.fd = 0
           \/ main.at = "write" /\ main'.at = "send" /\ main'.fd = main.fd
    BY <2>1 DEF MainOK, EventLoops, Waits
  <2>3. queue = <<>> BY <2>1 DEF ReactorInv
  <2>4. ~InQueue(f)' BY <2>1, <2>3 DEF InQueue
  <2>5. InBatch(f)' <=> InBatch(f) BY <2>2 DEF InBatch
  <2>6. \A w \in Workers : Has(w, f)' <=> Has(w, f) BY <2>1 DEF Has
  <2>7. CASE f = main.fd
    <3>a. obj[f].improv # 0 BY <2>1, <2>7
    <3>1. main.at = "write" => \A w \in Workers : ~Has(w, f) BY <2>7, <3>a, Zenon DEF Turn
    <3>2. ~InBatch(f) BY <2>7, Zenon DEF Turn
    <3> QED BY <2>1, <2>2, <2>4, <2>5, <2>6, <2>7, <3>1, <3>2, NotZero DEF Turn, InQueue, InBatch
  <2>8. CASE f # main.fd
    <3>1. \A w \in Workers : Has(w, f)' => Has(w, f) /\ wk'[w] = wk[w] BY <2>1, <2>6
    <3>2. main'.fd # f BY <2>2, <2>8, NotZero
    <3> QED BY <2>1, <2>2, <2>8, <3>1, <3>2, TurnKept
  <2> QED BY <2>7, <2>8
<1> QED BY <1>1, <1>2

\* write() in the event loop, which has users[main.fd] to itself.
LEMMA SendTurn ==
    ASSUME ElTypeOK, Main_Send, NEW f \in Fds, Turn(f)
    PROVE  Turn(f)'
<1> MainOK /\ DataOK BY DEF ElTypeOK
<1>1. CASE del_timer(main.fd) BY <1>1, EndTurn DEF del_timer
<1>2. CASE ~del_timer(main.fd)
  <2>1. main.at = "send" /\ main.fd \in Fds /\ UNCHANGED <<queue, wk>>
    BY <1>2 DEF Main_Send, MainOK
  <2>2. main'.batch = main.batch /\ main'.fd \in {0, main.fd}
    BY <1>2, Zenon DEF Main_Send, MainOK, EventLoops
  <2>3. \A w \in Workers : Has(w, f)' <=> Has(w, f) BY <2>1 DEF Has
  <2>4. (InBatch(f)' <=> InBatch(f)) /\ (InQueue(f)' <=> InQueue(f)) BY <2>1, <2>2 DEF InBatch, InQueue
  <2>5. CASE f = main.fd
    <3>1. ~InBatch(f) /\ ~InQueue(f) /\ \A w \in Workers : ~Has(w, f) BY <2>1, <2>5 DEF Turn
    <3> QED BY <2>3, <2>4, <3>1, TurnNobody
  <2>6. CASE f # main.fd
    <3>1. kern'[f] = kern[f] BY <1>2, <2>1, <2>6 DEF Main_Send, modfd, DataOK
    <3>2. main'.fd # f BY <2>2, <2>6, NotZero
    <3>3. \A w \in Workers : Has(w, f)' => Has(w, f) /\ wk'[w] = wk[w] BY <2>1, <2>3
    <3> QED BY <2>1, <2>2, <2>6, <3>1, <3>2, <3>3, TurnKept, Zenon
  <2> QED BY <2>5, <2>6
<1> QED BY <1>1, <1>2

\* A worker that goes on with users[g] touches no other descriptor.
LEMMA WorkerElsewhere ==
    ASSUME ElTypeOK, NEW w \in Workers,
           \/ W_Read(w) \/ W_Write(w) \/ W_Improv(w) \/ W_Flag(w) \/ W_Process(w)
           \/ W_Close(w) \/ W_Arm(w),
           NEW f \in Fds
    PROVE  /\ wk[w].fd \in Fds /\ UNCHANGED <<main, queue>>
           /\ \A v \in Workers \ {w} : wk'[v] = wk[v]
           /\ f # wk[w].fd /\ Turn(f) => Turn(f)'
<1> WorkOK /\ DataOK BY DEF ElTypeOK
<1>1. wk[w].fd \in Fds /\ UNCHANGED <<main, queue>>
  BY Zenon DEF W_Read, W_Write, W_Improv, W_Flag, W_Process, W_Close, W_Arm, WorkOK
<1>2. /\ \A v \in Workers \ {w} : wk'[v] = wk[v]
      /\ wk'[w].fd \in {0, wk[w].fd}
  <2>1. \E to \in WorkerAts : Goes(w, to)
    BY ZenonT(30) DEF W_Read, W_Write, W_Improv, W_Flag, W_Process, W_Close, W_Arm, WorkerAts
  <2> QED BY <2>1, GoesFacts, Zenon
<1>3. ASSUME f # wk[w].fd, Turn(f) PROVE Turn(f)'
  <2>1. kern'[f] = kern[f]
    BY <1>1, <1>3, Zenon DEF W_Read, W_Write, W_Improv, W_Flag, W_Process, W_Close, W_Arm, modfd, removefd, DataOK
  <2>2. obj'[f] = obj[f]
    BY <1>1, <1>3, ZenonT(30) DEF W_Read, W_Write, W_Improv, W_Flag, W_Process, W_Close, W_Arm, DataOK
  <2>3. \A v \in Workers : Has(v, f)' => Has(v, f) /\ wk'[v] = wk[v] BY <1>2, <1>3, NotZero DEF Has
  <2> QED BY <1>1, <1>3, <2>1, <2>2, <2>3, TurnKept
<1> QED BY <1>1, <1>2, <1>3, Zenon

\* What a worker does with users[f] while it has it.
LEMMA WorkerTurn ==
    ASSUME ElTypeOK, ReactorInv, NEW w \in Workers, NEW f \in Fds, Turn(f),
           \/ W_Read(w) \/ W_Write(w) \/ W_Improv(w) \/ W_Flag(w) \/ W_Process(w)
           \/ W_Close(w) \/ W_Arm(w)
    PROVE  Turn(f)'
<1> WorkOK /\ DataOK BY DEF ElTypeOK
<1>1. CASE f # wk[w].fd BY <1>1, WorkerElsewhere, Zenon
<1>2. CASE f = wk[w].fd
  <2>1. UNCHANGED <<main, queue>> /\ \A v \in Workers \ {w} : wk'[v] = wk[v] BY WorkerElsewhere
  <2>2. (InBatch(f)' <=> InBatch(f)) /\ (InQueue(f)' <=> InQueue(f)) BY <2>1 DEF InBatch, InQueue
  <2>3. CASE W_Read(w)
    <3>1. wk[w].at = "read" /\ Pre(w) /\ Has(w, f) BY <1>2, <2>3 DEF W_Read, Pre, Has
    <3>2. main.at # "write" BY <3>1, Zenon DEF ReactorInv, Waits
    <3>3. kern[f].armed = "no" BY <3>1, Zenon DEF Turn
    <3>4. kern'[f].armed = "no" BY <1>2, <2>3, <3>3 DEF W_Read, DataOK, Kern
    <3> QED BY <2>1, <3>1, <3>2, <3>4, TurnWorker, Zenon
  <2>4. CASE W_Process(w) \/ W_Close(w) \/ W_Arm(w)
    <3>1. wk[w].at \in {"process", "close", "arm"} BY <2>4 DEF W_Process, W_Close, W_Arm
    <3>2. Has(w, f) /\ ~Pre(w) BY <1>2, <3>1, Zenon DEF Has, Pre
    <3>3. kern[f].armed = "no" /\ ~(main.at = "write" /\ main.fd = f) BY <3>1, <3>2, ZenonT(30) DEF Turn
    <3>4. Has(w, f)' => kern'[f] \in {kern[f], Closed}
      BY <1>2, <2>4 DEF W_Process, W_Close, W_Arm, Goes, WorkOK, removefd, DataOK, Has
    <3>5. Has(w, f)' => kern'[f].armed = "no" BY <3>3, <3>4 DEF Closed
    <3> QED BY <2>1, <3>1, <3>2, <3>3, <3>5, TurnWorker, ZenonT(30)
  <2>5. CASE W_Write(w)
    <3>1. wk[w].at = "write" /\ Pre(w) /\ Has(w, f) BY <1>2, <2>5, Zenon DEF W_Write, Pre, Has
    <3>2. main.at = "write" /\ main.fd = f BY <1>2, <3>1, Zenon DEF ReactorInv, Waits
    <3>3. /\ ~InBatch(f) /\ ~InQueue(f) /\ \A v \in Workers \ {w} : ~Has(v, f) BY <3>1, ZenonT(30) DEF Turn
    <3>4. \A v \in Workers : Has(v, f)' => v = w BY <2>1, <3>3 DEF Has
    <3>5. wk'[w].at \in {"improv", "improv, flag", "stuck"} /\ (wk'[w].at = "stuck" => kern' = kern)
      BY <2>5, WriteFacts, Zenon
    <3>6. obj'[f].improv = 0
      <4>1. obj[f].improv = 0 BY <3>1, <3>2 DEF ReactorInv, Waits
      <4> QED BY <1>2, <2>5, <4>1, WriteFacts, Zenon
    <3>7. kern'[f].armed # "no" => wk'[w].at \in {"improv", "improv, flag"}
      <4>1. kern[f].armed = "no" BY <3>1, Zenon DEF Turn
      <4> QED BY <3>5, <4>1, Zenon
    <3>8. Pre(w)' \/ wk'[w].at = "stuck" BY <3>5, Zenon DEF Pre
    <3> QED BY <2>1, <2>2, <3>2, <3>3, <3>4, <3>6, <3>7, <3>8, Zenon DEF Turn, InQueue, InBatch
  <2>6. CASE W_Improv(w)
    <3>1. wk[w].at \in {"improv", "improv, flag"} /\ Has(w, f) BY <1>2, <2>6 DEF W_Improv, Has
    <3>2. /\ ~InBatch(f) /\ ~InQueue(f) /\ \A v \in Workers \ {w} : ~Has(v, f) BY <3>1, Zenon DEF Turn
    <3>3. wk'[w].at \in {"idle", "flag"} BY <2>6 DEF W_Improv, Goes, WorkOK
    <3>4. \A v \in Workers : ~Has(v, f)' BY <2>1, <3>2, <3>3, Zenon DEF Has
    <3> QED BY <2>2, <3>2, <3>4, TurnNobody
  <2>7. CASE W_Flag(w)
    <3>1. wk'[w].at = "idle" /\ kern' = kern BY <2>7 DEF W_Flag, Goes, WorkOK
    <3>2. obj'[f].improv = obj[f].improv BY <1>2, <2>7 DEF W_Flag, DataOK, Users
    <3>3. \A v \in Workers : Has(v, f)' => Has(v, f) /\ wk'[v] = wk[v] BY <2>1, <3>1, Zenon DEF Has
    <3> QED BY <2>1, <3>1, <3>2, <3>3, TurnKept, Zenon
  <2> QED BY <2>3, <2>4, <2>5, <2>6, <2>7
<1> QED BY <1>1, <1>2

\* Every step keeps a descriptor in one place.
LEMMA TurnStep ==
    ASSUME ElTypeOK, ReactorInv, TurnInv, [ElNext]_elVars
    PROVE  TurnInv'
<1> DataOK /\ MainOK /\ WorkOK BY DEF ElTypeOK
<1>0. reused \subseteq reused'
  BY Zenon DEF ElNext, Environment, MainStep, WorkerStep, elVars, Client_Send, Client_Hangup, Terminate, Alarm,
         Main_Wait, deal_client_data, Accept, Main_Hangup, deal_with_signal, deal_with_read,
         deal_with_write, Main_Improv, Main_Send, Main_Round, Main_Stop, W_Take, W_Read, W_Write,
         W_Improv, W_Flag, W_Process, W_Close, W_Arm, Ended
<1> SUFFICES ASSUME NEW f \in Fds, f \notin reused' PROVE Turn(f)' BY DEF TurnInv
<1>t. Turn(f) BY <1>0 DEF TurnInv
<1>a. ASSUME UNCHANGED <<obj, queue, wk>>, main'.batch \subseteq main.batch, main'.at = main.at,
             main'.fd = main.fd, kern'[f].conn = kern[f].conn, kern'[f].armed = kern[f].armed
      PROVE  Turn(f)'
  <2>1. \A w \in Workers : Has(w, f)' => Has(w, f) /\ wk'[w] = wk[w] BY <1>a DEF Has
  <2> QED BY <1>a, <1>t, <2>1, TurnKept
<1>1. ASSUME NEW g \in Fds, Client_Send(g) \/ Client_Hangup(g) PROVE Turn(f)'
  <2>1. kern'[f].conn = kern[f].conn /\ kern'[f].armed = kern[f].armed
    BY <1>1 DEF Client_Send, Client_Hangup, DataOK, Kern
  <2> QED BY <1>1, <1>a, <2>1 DEF Client_Send, Client_Hangup
<1>2. CASE Terminate \/ Alarm BY <1>2, <1>a DEF Terminate, Alarm
<1>3. CASE Main_Wait BY <1>3, <1>t, FetchTurn
<1>4. CASE deal_client_data
  <2>1. main'.batch \subseteq main.batch /\ main'.fd = main.fd /\ main'.at = main.at /\ main.at = "events"
    BY <1>4 DEF deal_client_data, MainOK, EventLoops
  <2>2. CASE UNCHANGED <<kern, obj, tm, tfd, cd, accepted, reused>>
    BY <1>4, <1>a, <2>1, <2>2 DEF deal_client_data
  <2>3. ASSUME NEW g \in Free, Accept(g, accepted + 1) PROVE Turn(f)'
    BY <1>4, <1>t, <2>1, <2>3, AcceptTurn DEF deal_client_data, Free
  <2> QED BY <1>4, <2>2, <2>3 DEF deal_client_data
<1>5. CASE Main_Hangup BY <1>5, EndTurn DEF Main_Hangup, del_timer
<1>6. CASE deal_with_signal
  <2>1. main'.batch \subseteq main.batch /\ main'.fd = main.fd /\ main'.at = main.at
    BY <1>6 DEF deal_with_signal, MainOK, EventLoops
  <2> QED BY <1>6, <1>a, <2>1 DEF deal_with_signal
<1>7. CASE deal_with_read BY <1>7, <1>t, ProactorTurn, DelegateTurn DEF deal_with_read
<1>8. CASE deal_with_write
  <2>1. ASSUME NEW e \in main.batch, e.src = "conn", UNCHANGED <<kern, obj, tm, queue, wk, fate>>,
               main' = [main EXCEPT !.batch = @ \ {e}, !.at = "send", !.fd = e.fd]
        PROVE  Turn(f)'
    <3>1. /\ main'.batch = main.batch \ {e} /\ main'.at = "send" /\ main'.fd = e.fd
          /\ e.fd \in Fds /\ main.fd \notin Fds
      BY <1>8, <2>1, EventType DEF deal_with_write, MainOK, EventLoops
    <3>2. \A w \in Workers : Has(w, f)' => Has(w, f) /\ wk'[w] = wk[w] BY <2>1 DEF Has
    <3>3. CASE e.fd = f
      <4>1. InBatch(f) BY <2>1, <3>3 DEF InBatch
      <4>2. ~InQueue(f) /\ \A w \in Workers : ~Has(w, f) BY <1>t, <4>1, Zenon DEF Turn
      <4>3. ~InQueue(f)' BY <2>1, <4>2 DEF InQueue
      <4>4. ~InBatch(f)' BY <1>t, <2>1, <3>1, <3>3 DEF InBatch, Turn
      <4> QED BY <3>2, <4>2, <4>3, <4>4, TurnNobody
    <3>4. CASE e.fd # f BY <1>t, <2>1, <3>1, <3>2, <3>4, TurnKept
    <3> QED BY <3>3, <3>4
  <2> QED BY <1>8, <1>t, <2>1, DelegateTurn, Zenon DEF deal_with_write
<1>9. CASE Main_Improv BY <1>9, <1>t, ImprovTurn
<1>10. CASE Main_Send BY <1>10, <1>t, SendTurn
<1>11. CASE Main_Round
  <2>1. main'.batch = {} /\ main.batch = {} /\ main'.fd = main.fd /\ main.fd \notin Fds
    BY <1>11 DEF Main_Round, MainOK, EventLoops
  <2>2. ~InBatch(f)' BY <2>1 DEF InBatch
  <2>3. kern'[f] \in {kern[f], Closed} BY <1>11 DEF Main_Round, time_handler, tick, removefd, DataOK
  <2>4. kern'[f].armed \in {"no", kern[f].armed} BY <2>3 DEF Closed
  <2>5. \A w \in Workers : Has(w, f)' => Has(w, f) /\ wk'[w] = wk[w] BY <1>11 DEF Main_Round, Has
  <2>6. queue' = queue BY <1>11 DEF Main_Round
  <2> QED BY <1>t, <2>1, <2>2, <2>4, <2>5, <2>6, TurnKept
<1>12. CASE Main_Stop BY <1>12, EndTurn DEF Main_Stop
<1>13. ASSUME NEW w \in Workers, WorkerStep(w) PROVE Turn(f)'
  BY <1>13, <1>t, TakeTurn, WorkerTurn DEF WorkerStep
<1>14. CASE Ended \/ UNCHANGED elVars BY <1>14, <1>a DEF Ended, elVars
<1> QED
  BY <1>1, <1>2, <1>3, <1>4, <1>5, <1>6, <1>7, <1>8, <1>9, <1>10, <1>11, <1>12, <1>13, <1>14
  DEF ElNext, Environment, MainStep

-----------------------------------------------------------------------------
(* The theorems *)

\* The inductive invariant holds when the event loop starts.
LEMMA ElInvInit == ElInit => ElInv
<1> SUFFICES ASSUME ElInit PROVE ElInv OBVIOUS
<1>1. /\ mode \in Modes /\ kern = [f \in Fds |-> Closed] /\ obj = [f \in Fds |-> Fresh]
      /\ tm = [c \in Connections |-> "none"] /\ tfd = [c \in Connections |-> 0]
      /\ cd = [f \in Fds |-> 0] /\ queue = <<>> /\ accepted = 0
      /\ main = [at |-> "wait", batch |-> {}, fd |-> 0, timeout |-> FALSE, stop |-> FALSE]
      /\ wk = [w \in Workers |-> [at |-> "idle", fd |-> 0]]
  BY DEF ElInit, Idle
<1>2. DataOK BY <1>1, FirstRecords, NotZero DEF DataOK
<1>3. MainOK BY <1>1, NotZero DEF MainOK, EventLoops, MainAts
<1>4. WorkOK
  <2>1. queue \in Seq(Fds) BY <1>1
  <2> QED BY <1>1, <2>1, NotZero DEF WorkOK, WorkerAts
<1>5. \A f \in Fds : ~InBatch(f) /\ ~Handled(f) /\ ~InQueue(f)
  <2>1. \A f \in Fds : ~InBatch(f) /\ main.fd # f BY <1>1, NotZero DEF InBatch
  <2>2. \A f \in Fds : ~InQueue(f) BY <1>1 DEF InQueue
  <2> QED BY <2>1, <2>2 DEF Handled
<1>6. TimersInv
  <2>1. \A f \in Fds : kern[f].conn = 0 BY <1>1 DEF Closed
  <2> QED BY <1>1, <1>5, <2>1 DEF TimersInv, ElTimersRight, ElTimerForEach, ElTimerOutlives, Listed
<1>7. \A w \in Workers : ~Pre(w) /\ \A f \in Fds : ~Has(w, f) BY <1>1, Zenon DEF Pre, Has
<1>8. \A f \in Fds : obj[f].improv = 0 BY <1>1 DEF Fresh
<1>9. ReactorInv BY <1>1, <1>7, <1>8 DEF ReactorInv, Waits
<1>10. TurnInv
  <2>1. main.batch = {} /\ DOMAIN queue = {} BY <1>1
  <2> QED BY <1>5, <1>7, <2>1, Zenon DEF TurnInv, Turn
<1> QED BY <1>2, <1>3, <1>4, <1>6, <1>9, <1>10 DEF ElInv, ElTypeOK

\* The inductive invariant is an invariant.
LEMMA ElInvariant == ElSpec => []ElInv
<1>1. ElInv /\ [ElNext]_elVars => ElInv'
  <2> SUFFICES ASSUME ElInv, [ElNext]_elVars PROVE ElInv' OBVIOUS
  <2> ElTypeOK /\ TimersInv /\ ReactorInv /\ TurnInv BY DEF ElInv
  <2>1. ElTypeOK' BY TypesStep
  <2>2. TimersInv' /\ ReactorInv' /\ TurnInv' BY <2>1, TimersStep, ReactorStep, TurnStep
  <2> QED BY <2>1, <2>2 DEF ElInv
<1> QED BY <1>1, ElInvInit, PTL DEF ElSpec

\* A set in which no two elements differ has at most one.
LEMMA AtMostOne ==
    ASSUME NEW S, \A x, y \in S : x = y
    PROVE  Cardinality(S) \in 0 .. 1 /\ (S = {} => Cardinality(S) = 0)
<1>1. CASE S = {} BY <1>1, FS_EmptySet
<1>2. CASE S # {}
  <2>1. PICK x : S = {x} BY <1>2
  <2>2. Cardinality(S) = 1 BY <2>1, FS_Singleton, Zenon
  <2> QED BY <1>2, <2>2
<1> QED BY <1>1, <1>2

\* WebServer::event_loop(), ThreadPool::run() and EPOLLONESHOT keep users[fd] in the
\* hands of one handler, and in reactor mode the queue holds at most the one request
\* that the event loop waits for.
THEOREM EventLoopHandlers == ElSpec => []ElHandlersRight
<1>1. ElInv => ElHandlersRight
  <2> SUFFICES ASSUME ElInv PROVE ElHandlersRight OBVIOUS
  <2>0. ElTypeOK /\ ReactorInv /\ TurnInv BY DEF ElInv
  <2>1. ElReactorHandsOneOver
    <3> SUFFICES ASSUME mode.actor = 1, queue # <<>>
                 PROVE  Len(queue) = 1 /\ main.at \in {"read", "write"} /\ queue[1] = main.fd
      BY DEF ElReactorHandsOneOver
    <3>1. Waits /\ queue = <<main.fd>> BY <2>0 DEF ReactorInv
    <3> QED BY <3>1 DEF Waits
  <2>2. ElOneHandler
    <3> SUFFICES ASSUME NEW f \in Fds \ reused, \A w \in Workers : wk[w] # [at |-> "flag", fd |-> f]
                 PROVE  Hands(f) <= 1
      BY DEF ElOneHandler
    <3> DEFINE W == {w \in Workers : Busy(w) /\ wk[w].fd = f}
               Q == {i \in DOMAIN queue : queue[i] = f}
    <3>1. Turn(f) BY <2>0 DEF TurnInv
    <3>2. \A w \in W : Has(w, f)
      <4>1. \A w \in Workers : wk[w].at = "flag" /\ wk[w].fd = f => wk[w] = [at |-> "flag", fd |-> f]
        BY <2>0 DEF ElTypeOK, WorkOK
      <4> QED BY <4>1 DEF Busy, Has
    <3>3. Cardinality(W) \in 0 .. 1 /\ (W = {} => Cardinality(W) = 0)
      <4>1. \A v, w \in W : v = w BY <3>1, <3>2, Zenon DEF Turn
      <4> QED BY <4>1, AtMostOne
    <3>4. Cardinality(Q) \in 0 .. 1 /\ (Q = {} => Cardinality(Q) = 0)
      <4>1. \A i, j \in Q : i = j BY <3>1, Zenon DEF Turn
      <4> QED BY <4>1, AtMostOne, Zenon
    <3>5. Q # {} => W = {} /\ ~(main.at = "send" /\ main.fd = f) BY <3>1, <3>2, Zenon DEF Turn, InQueue
    <3>6. main.at = "send" /\ main.fd = f => W = {} BY <3>1, <3>2, Zenon DEF Turn
    <3>7. Hands(f) = Cardinality(W) + (IF main.at = "send" /\ main.fd = f THEN 1 ELSE 0) + Cardinality(Q)
      BY Zenon DEF Hands, Threads
    <3> HIDE DEF W, Q
    <3> QED BY <3>3, <3>4, <3>5, <3>6, <3>7
  <2> QED BY <2>1, <2>2 DEF ElHandlersRight
<1> QED BY <1>1, ElInvariant, PTL

\* Every open connection has its timer in the list, where client_data[fd] finds it, and
\* a timer whose connection is gone is on a descriptor that close_conn() has closed.
THEOREM EventLoopTimers == ElSpec => []ElTimersRight
<1>1. ElInv => ElTimersRight BY DEF ElInv, TimersInv
<1> QED BY <1>1, ElInvariant, PTL

\* The timer that the event loop adjusts is one of the list: the events it has fetched,
\* the descriptor whose worker it waits for and the one it writes to have a timer, also
\* if a worker has closed the connection since.
AdjustsListed ==
    /\ main.at = "events" => \A e \in main.batch : e.src = "conn" => tm[cd[e.fd]] \in {"fresh", "due"}
    /\ main.at \in {"read", "write", "send"} => tm[cd[main.fd]] \in {"fresh", "due"}

\* adjust_timer(), which deal_with_read() and deal_with_write() call with the timer of
\* client_data[fd], never gets a timer that tick() has deleted.
THEOREM EventLoopAdjusts == ElSpec => []AdjustsListed
<1>1. ElInv => AdjustsListed
  <2> SUFFICES ASSUME ElInv PROVE AdjustsListed OBVIOUS
  <2>1. MainOK BY DEF ElInv, ElTypeOK
  <2>2. \A f \in Fds : Handled(f) => tm[cd[f]] \in Listed BY DEF ElInv, TimersInv
  <2>3. ASSUME NEW e \in main.batch, e.src = "conn" PROVE tm[cd[e.fd]] \in Listed
    <3>1. e.fd \in Fds BY <2>1, <2>3, EventType
    <3> QED BY <2>2, <2>3, <3>1 DEF Handled, InBatch
  <2>4. main.at \in {"read", "write", "send"} => tm[cd[main.fd]] \in Listed
    BY <2>1, <2>2 DEF MainOK, Handled
  <2> QED BY <2>3, <2>4 DEF AdjustsListed, Listed
<1> QED BY <1>1, ElInvariant, PTL
=============================================================================
