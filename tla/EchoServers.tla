----------------------------- MODULE EchoServers ----------------------------
(***************************************************************************)
(* The echo servers of net-program with the clients that read and write in *)
(* two processes: chap10/echo_mp_server.c (a process for each client),     *)
(* chap11/echo_store_server.c (which also sends what it echoes through a   *)
(* pipe to a process that keeps it in a file) and                          *)
(* chap12/echo_select_server.c (one process and select()).                 *)
(*                                                                         *)
(* Data is counted in messages; read() takes some or all of those that     *)
(* wait.  A connection is closed when the last process that holds a copy   *)
(* of its descriptor has closed it, which is when the client reads the end *)
(* of the stream.  One SIGCHLD is pending at most; one that comes while    *)
(* another is pending is merged with it.                                   *)
(***************************************************************************)
EXTENDS Integers, Sequences, FiniteSets

CONSTANTS Clients,    \* the clients; each gives its name to the server's child for it
          Server,     \* the server process
          Storer,     \* the process that stores the messages
          MaxSend,    \* bound: messages of a client
          PipeSize,   \* bound: messages the pipe holds
          MaxReads    \* reads of the storing process (10)

ASSUME NetAssumption == IsFiniteSet(Clients) /\ Server \notin Clients /\ Storer \notin Clients

VARIABLES netKind,  \* "mp", "store" or "select"
          client,   \* each client: new, waiting (connected), ended
          sent, unread, echoed,     \* of each client: messages
          quit,     \* the client has shut its side down
          holders,  \* the processes that hold the connection's descriptor
          child,    \* the server's child for each client, and the storing process
          spc,      \* the server: where it is, with which client
          batch,    \* what select() has found
          pending, merged,          \* SIGCHLD
          pipe, stored, reads       \* the pipe, the file, the reads so far

netVars == <<netKind, client, sent, unread, echoed, quit, holders, child, spc, batch,
             pending, merged, pipe, stored, reads>>
peerVars == <<client, sent, quit>>
storeVars == <<pipe, stored, reads>>

NetInit ==
    /\ netKind \in {"mp", "store", "select"}
    /\ client = [c \in Clients |-> "new"]
    /\ sent = [c \in Clients |-> 0] /\ unread = sent /\ echoed = sent
    /\ quit = [c \in Clients |-> FALSE]
    /\ holders = [c \in Clients |-> {}]
    /\ child = [p \in Clients \cup {Storer} |->
                  IF p = Storer /\ netKind = "store" THEN "stores" ELSE "none"]
    /\ spc = [at |-> "accept", client |-> Server]
    /\ batch = {}
    /\ pending = FALSE /\ merged = 0
    /\ pipe = <<>> /\ stored = <<>> /\ reads = 0

Gone == spc.at = "gone"
Accepted(c) == holders[c] # {}
\* Clients that accept() has not taken.
Backlog == {c \in Clients : client[c] = "waiting"}

-----------------------------------------------------------------------------
(* The clients: echo_mp_client.c *)

Client_Connect(c) ==
    /\ client[c] = "new" /\ ~Gone
    /\ client' = [client EXCEPT ![c] = "waiting"]
    /\ UNCHANGED <<netKind, sent, unread, echoed, quit, holders, child, spc, batch, pending,
                   merged, storeVars>>

\* write_routine()
Client_Write(c) ==
    /\ client[c] \in {"waiting", "served"} /\ ~quit[c] /\ sent[c] < MaxSend
    /\ sent' = [sent EXCEPT ![c] = @ + 1]
    /\ unread' = [unread EXCEPT ![c] = @ + 1]
    /\ UNCHANGED <<netKind, client, echoed, quit, holders, child, spc, batch, pending, merged,
                   storeVars>>

\* "q": shutdown(SHUT_WR); the write() that follows kills the writing process.
Client_Quit(c) ==
    /\ client[c] \in {"waiting", "served"} /\ ~quit[c]
    /\ quit' = [quit EXCEPT ![c] = TRUE]
    /\ UNCHANGED <<netKind, client, sent, unread, echoed, holders, child, spc, batch, pending,
                   merged, storeVars>>

\* read_routine() returns at the end of the stream, or when the server is gone.
Client_End(c) ==
    /\ \/ client[c] = "served" /\ holders[c] = {}
       \/ client[c] = "waiting" /\ Gone
    /\ client' = [client EXCEPT ![c] = "ended"]
    /\ UNCHANGED <<netKind, sent, unread, echoed, quit, holders, child, spc, batch, pending,
                   merged, storeVars>>

-----------------------------------------------------------------------------
(* The servers with a process for each client *)

\* A process ends: its descriptors are closed.
Dropped(p) == [c \in Clients |-> holders[c] \ {p}]

\* A child ends.  Without a parent it is nobody's zombie.
ChildEnds(p) ==
    /\ child' = [child EXCEPT ![p] = IF Gone THEN "reaped" ELSE "zombie"]
    /\ pending' = ~Gone
    /\ merged' = IF pending THEN merged + 1 ELSE merged

Server_Accept ==
    /\ netKind # "select" /\ spc.at = "accept"
    /\ \E c \in Backlog :
         /\ client' = [client EXCEPT ![c] = "served"]
         /\ holders' = [holders EXCEPT ![c] = {Server}]
         /\ spc' = [at |-> "fork", client |-> c]
    /\ UNCHANGED <<netKind, sent, unread, echoed, quit, child, batch, pending, merged, storeVars>>

\* The child gets copies of all descriptors of the server.
Server_Fork ==
    /\ spc.at = "fork"
    /\ child' = [child EXCEPT ![spc.client] = "reads"]
    /\ holders' = [c \in Clients |-> IF Server \in holders[c] THEN holders[c] \cup {spc.client}
                                     ELSE holders[c]]
    /\ spc' = [spc EXCEPT !.at = "close"]
    /\ UNCHANGED <<netKind, unread, echoed, batch, pending, merged, peerVars, storeVars>>

\* Fork() ends the server when it fails.
Server_ForkFails ==
    /\ spc.at = "fork"
    /\ holders' = Dropped(Server)
    /\ spc' = [at |-> "gone", client |-> Server]
    /\ child' = [p \in DOMAIN child |-> IF child[p] = "zombie" THEN "reaped" ELSE child[p]]
    /\ pending' = FALSE /\ merged' = 0
    /\ UNCHANGED <<netKind, unread, echoed, batch, peerVars, storeVars>>

\* Fault: the server keeps its copy of the descriptor.
Fault_KeepsCopy ==
    /\ spc.at = "close"
    /\ spc' = [at |-> "accept", client |-> Server]
    /\ UNCHANGED <<netKind, unread, echoed, holders, child, batch, pending, merged, peerVars,
                   storeVars>>

Server_Close ==
    /\ spc.at = "close"
    /\ holders' = [holders EXCEPT ![spc.client] = @ \ {Server}]
    /\ spc' = [at |-> "accept", client |-> Server]
    /\ UNCHANGED <<netKind, unread, echoed, child, batch, pending, merged, peerVars, storeVars>>

\* Fault: the handler does not wait for the child.
Fault_NoWait ==
    /\ pending /\ pending' = FALSE
    /\ UNCHANGED <<netKind, unread, echoed, holders, child, spc, batch, merged, peerVars,
                   storeVars>>

\* SIGCHLD interrupts the server; the handler waits for one child.
read_childproc ==
    /\ pending /\ pending' = FALSE
    /\ IF \E p \in DOMAIN child : child[p] = "zombie"
       THEN \E p \in DOMAIN child :
              child[p] = "zombie" /\ child' = [child EXCEPT ![p] = "reaped"]
       ELSE UNCHANGED child
    /\ UNCHANGED <<netKind, unread, echoed, holders, spc, batch, merged, peerVars, storeVars>>

\* The child reads and echoes; for the storing server it then writes to the pipe.
Child_Echo(c) ==
    /\ child[c] = "reads"
    /\ \E k \in 1 .. unread[c] :
         /\ unread' = [unread EXCEPT ![c] = @ - k]
         /\ echoed' = [echoed EXCEPT ![c] = @ + k]
    /\ child' = [child EXCEPT ![c] = IF netKind = "store" THEN "writes" ELSE "reads"]
    /\ UNCHANGED <<netKind, holders, spc, batch, pending, merged, peerVars, storeVars>>

Child_Store(c) ==
    /\ child[c] = "writes" /\ Len(pipe) < PipeSize
    /\ pipe' = Append(pipe, <<c, echoed[c]>>)
    /\ child' = [child EXCEPT ![c] = "reads"]
    /\ UNCHANGED <<netKind, unread, echoed, holders, spc, batch, pending, merged, stored, reads,
                   peerVars>>

Child_End(c) ==
    /\ child[c] = "reads" /\ unread[c] = 0 /\ quit[c]
    /\ holders' = Dropped(c)
    /\ ChildEnds(c)
    /\ UNCHANGED <<netKind, unread, echoed, spc, batch, peerVars, storeVars>>

\* The storing process: a read() takes one or more of the messages in the pipe.
Storer_Read ==
    /\ child[Storer] = "stores" /\ pipe # <<>> /\ reads < MaxReads
    /\ \E k \in 1 .. Len(pipe) :
         /\ stored' = stored \o SubSeq(pipe, 1, k)
         /\ pipe' = SubSeq(pipe, k + 1, Len(pipe))
    /\ reads' = reads + 1
    /\ UNCHANGED <<netKind, unread, echoed, holders, child, spc, batch, pending, merged, peerVars>>

Storer_End ==
    /\ child[Storer] = "stores" /\ reads = MaxReads
    /\ ChildEnds(Storer)
    /\ UNCHANGED <<netKind, unread, echoed, holders, spc, batch, peerVars, storeVars>>

-----------------------------------------------------------------------------
(* The select server *)

ReadySockets ==
    {c \in Clients : Accepted(c) /\ (unread[c] > 0 \/ quit[c])}
    \cup (IF Backlog # {} THEN {Server} ELSE {})

Select_Return ==
    /\ netKind = "select" /\ spc.at = "accept" /\ batch = {} /\ ReadySockets # {}
    /\ batch' = ReadySockets
    /\ UNCHANGED <<netKind, unread, echoed, holders, child, spc, pending, merged, peerVars,
                   storeVars>>

\* Nothing happened for 30 seconds: the server ends.
Select_Timeout ==
    /\ netKind = "select" /\ spc.at = "accept" /\ batch = {} /\ ReadySockets = {}
    /\ spc' = [at |-> "gone", client |-> Server]
    /\ holders' = Dropped(Server)
    /\ UNCHANGED <<netKind, unread, echoed, child, batch, pending, merged, peerVars, storeVars>>

Select_Accept ==
    /\ Server \in batch
    /\ batch' = batch \ {Server}
    /\ \E c \in Backlog :
         /\ client' = [client EXCEPT ![c] = "served"]
         /\ holders' = [holders EXCEPT ![c] = {Server}]
    /\ UNCHANGED <<netKind, sent, unread, echoed, quit, child, spc, pending, merged, storeVars>>

\* read() finds messages to echo, or the end.
Select_Read(c) ==
    /\ c \in batch /\ Server \notin batch
    /\ batch' = batch \ {c}
    /\ IF unread[c] = 0
       THEN holders' = [holders EXCEPT ![c] = {}] /\ UNCHANGED <<unread, echoed>>
       ELSE \E k \in 1 .. unread[c] :
              /\ unread' = [unread EXCEPT ![c] = @ - k]
              /\ echoed' = [echoed EXCEPT ![c] = @ + k]
              /\ UNCHANGED holders
    /\ UNCHANGED <<netKind, child, spc, pending, merged, peerVars, storeVars>>

-----------------------------------------------------------------------------

NetServer == Server_Accept \/ Server_Fork \/ Server_Close \/ read_childproc
NetSelect == Select_Return \/ Select_Accept \/ \E c \in Clients : Select_Read(c)
NetChild(c) == Child_Echo(c) \/ Child_Store(c) \/ Child_End(c)
NetStorer == Storer_Read \/ Storer_End

NetNext ==
    \/ \E c \in Clients : Client_Connect(c) \/ Client_Write(c) \/ Client_Quit(c) \/ Client_End(c)
    \/ NetServer \/ Server_ForkFails \/ \E c \in Clients : NetChild(c)
    \/ NetStorer
    \/ NetSelect \/ Select_Timeout

NetSpec == NetInit /\ [][NetNext]_netVars

NetFairness ==
    /\ WF_netVars(NetServer) /\ WF_netVars(NetSelect) /\ WF_netVars(NetStorer)
    /\ \A c \in Clients : WF_netVars(NetChild(c)) /\ WF_netVars(Client_End(c))

-----------------------------------------------------------------------------
(* Properties *)

\* A child that has ended is a zombie for good only if its SIGCHLD was merged with
\* that of another: there are exactly as many zombies as merged and pending signals,
\* because each run of the handler waits for one child.
NetZombies ==
    Cardinality({p \in DOMAIN child : child[p] = "zombie"})
        = merged + (IF pending THEN 1 ELSE 0)

\* What is in the file and what is on its way to it.
Kept == stored \o pipe

\* What is in the file and in the pipe is what was echoed, all of it and, for each
\* client, in order: the last message stored of a client is the last one echoed, but
\* for the one its child is about to write.
NetStoredInOrder ==
    netKind = "store" =>
        /\ \A i, j \in 1 .. Len(Kept) :
             i < j /\ Kept[i][1] = Kept[j][1] => Kept[i][2] < Kept[j][2]
        /\ \A c \in Clients : child[c] # "writes" /\ echoed[c] > 0 =>
             \E i \in 1 .. Len(Kept) :
                /\ Kept[i] = <<c, echoed[c]>>
                /\ \A j \in i + 1 .. Len(Kept) : Kept[j][1] # c

\* The child for c waits for room in the pipe, which nobody reads any more.
PipeBlocked(c) == child[c] = "writes" /\ Len(pipe) = PipeSize /\ child[Storer] # "stores"

\* A client that quits comes to its end: all copies of the descriptor of its
\* connection are closed in the server's processes.  Unless the storing process has
\* made its reads and the pipe is full.
NetQuitEnds == \A c \in Clients : quit[c] ~> client[c] = "ended" \/ PipeBlocked(c)

\* What the child processes leave behind: exactly the zombies whose SIGCHLD
\* was merged or is pending, and a file with the messages of each client in order.
NetChildrenRight == NetZombies /\ NetStoredInOrder
=============================================================================
