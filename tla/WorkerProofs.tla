---------------------------- MODULE WorkerProofs ----------------------------
(***************************************************************************)
(* Proofs about those who work for others, and about the sizes of the      *)
(* blocks they allocate.                                                   *)
(*                                                                         *)
(* EchoServers: for any finite set of clients, and whatever the bounds.    *)
(*                                                                         *)
(* ThreadPool: for any number of callers, workers and requests and any     *)
(* m_max_requests.                                                         *)
(*                                                                         *)
(* SizeClasses: for every size up to 4096.  One lemma for each range of    *)
(* sizes: with k the number of steps that n is rounded up to, both         *)
(* functions are linear in k.                                              *)
(***************************************************************************)
EXTENDS EchoServers, ThreadPool, SizeClasses, FiniteSetTheorems, TLAPS

-----------------------------------------------------------------------------
(* EchoServers: the inductive invariant *)

Stages == {"none", "reads", "writes", "stores", "zombie", "reaped"}

NetTypes ==
    /\ netKind \in {"mp", "store", "select"}
    /\ client \in [Clients -> {"new", "waiting", "served", "ended"}]
    /\ unread \in [Clients -> Nat] /\ echoed \in [Clients -> Nat]
    /\ child \in [Clients \cup {Storer} -> Stages]
    /\ spc \in [at : {"accept", "fork", "close", "gone"}, client : Clients \cup {Server}]
    /\ pending \in BOOLEAN /\ merged \in Nat
    /\ stored \in Seq(Clients \X Nat) /\ pipe \in Seq(Clients \X Nat)

\* A child is forked for a client that has none; a server that is gone left no
\* signal; the select server has no children, and the others no batch.
NetForks ==
    /\ spc.at = "fork" => /\ spc.client \in Clients /\ child[spc.client] = "none"
                          /\ client[spc.client] \in {"served", "ended"}
    /\ \A c \in Clients : client[c] \in {"new", "waiting"} => child[c] = "none"
    /\ Gone => ~pending /\ merged = 0
    /\ IF netKind = "select"
       THEN /\ spc.at \in {"accept", "gone"} /\ ~pending /\ merged = 0
            /\ \A p \in Clients \cup {Storer} : child[p] = "none"
       ELSE batch = {}

\* No message is kept that was not echoed, nor before its child has written it.
NetKeeps ==
    netKind = "store" =>
        \A i \in 1 .. Len(Kept) :
            /\ Kept[i][2] <= echoed[Kept[i][1]]
            /\ child[Kept[i][1]] = "writes" => Kept[i][2] < echoed[Kept[i][1]]

NetInv == NetTypes /\ NetForks /\ NetZombies /\ NetKeeps /\ NetStoredInOrder

-----------------------------------------------------------------------------
(* EchoServers: what most steps leave alone *)

\* What is stored or on its way is a sequence of messages of clients.
LEMMA KeptSeq ==
    ASSUME NetTypes
    PROVE  /\ Kept \in Seq(Clients \X Nat) /\ Len(Kept) \in Nat
           /\ \A i \in 1 .. Len(Kept) : Kept[i] \in Clients \X Nat
<1>1. Kept \in Seq(Clients \X Nat) BY DEF NetTypes, Kept
<1> QED BY <1>1

\* A step that echoes nothing, keeps what was kept and has the same children writing.
LEMMA SameKept ==
    ASSUME NetInv, Kept' = Kept, echoed' = echoed, netKind' = netKind,
           \A c \in Clients : child'[c] = "writes" <=> child[c] = "writes"
    PROVE  NetKeeps' /\ NetStoredInOrder'
<1>1. \A i \in 1 .. Len(Kept) : Kept[i] \in Clients \X Nat BY KeptSeq DEF NetInv
<1>2. \A i \in 1 .. Len(Kept) : Kept[i][1] \in Clients BY <1>1
<1>3. NetKeeps' BY <1>2 DEF NetInv, NetKeeps
<1>4. NetStoredInOrder' BY DEF NetInv, NetStoredInOrder
<1> QED BY <1>3, <1>4

\* A step with the same zombies and the same signals.
LEMMA SameZombies ==
    ASSUME NetInv, DOMAIN child' = DOMAIN child, merged' = merged, pending' = pending,
           \A p \in DOMAIN child : child'[p] = "zombie" <=> child[p] = "zombie"
    PROVE  NetZombies'
<1>1. {p \in DOMAIN child' : child'[p] = "zombie"} = {p \in DOMAIN child : child[p] = "zombie"}
  OBVIOUS
<1> QED BY <1>1 DEF NetInv, NetZombies

\* The zombies are finitely many.
LEMMA ZombiesFinite ==
    ASSUME NetTypes
    PROVE  /\ DOMAIN child = Clients \cup {Storer}
           /\ IsFiniteSet({p \in DOMAIN child : child[p] = "zombie"})
<1>1. DOMAIN child = Clients \cup {Storer} BY DEF NetTypes
<1>2. IsFiniteSet(Clients \cup {Storer}) BY NetAssumption, FS_AddElement
<1> QED BY <1>1, <1>2, FS_Subset

\* A child ends: one more zombie and one more signal, or neither if the server is gone.
LEMMA OneEnds ==
    ASSUME NetInv, NEW p \in Clients \cup {Storer}, child[p] \in {"reads", "stores"},
           ChildEnds(p), spc' = spc
    PROVE  /\ NetZombies' /\ pending' \in BOOLEAN /\ merged' \in Nat
           /\ child' \in [Clients \cup {Storer} -> Stages]
           /\ \A q \in Clients \cup {Storer} : q # p => child'[q] = child[q]
           /\ child'[p] \in {"reaped", "zombie"}
           /\ Gone' => ~pending' /\ merged' = 0
<1> DEFINE Z == {q \in DOMAIN child : child[q] = "zombie"}
<1>1. NetTypes /\ IsFiniteSet(Z) /\ DOMAIN child = Clients \cup {Storer} BY ZombiesFinite DEF NetInv
<1>2. Gone' <=> Gone BY DEF Gone
<1>3. child' = [child EXCEPT ![p] = IF Gone THEN "reaped" ELSE "zombie"] BY DEF ChildEnds
<1>4. /\ child' \in [Clients \cup {Storer} -> Stages]
      /\ \A q \in Clients \cup {Storer} : q # p => child'[q] = child[q]
      /\ child'[p] = IF Gone THEN "reaped" ELSE "zombie"
  BY <1>1, <1>3 DEF NetTypes, Stages
<1>5. Cardinality(Z) = merged + (IF pending THEN 1 ELSE 0) BY DEF NetInv, NetZombies
<1> DEFINE Zn == {q \in DOMAIN child' : child'[q] = "zombie"}
<1>6. DOMAIN child' = Clients \cup {Storer} BY <1>4
<1>7. CASE Gone
  <2>1. ~pending /\ merged = 0 BY <1>7 DEF NetInv, NetForks
  <2>2. pending' = FALSE /\ merged' = 0 BY <1>7, <2>1 DEF ChildEnds
  <2>3. Zn = Z BY <1>1, <1>4, <1>6, <1>7
  <2>4. NetZombies' BY <1>5, <2>1, <2>2, <2>3 DEF NetZombies
  <2> QED BY <1>4, <1>7, <2>2, <2>4
<1>8. CASE ~Gone
  <2>1. pending' = TRUE BY <1>8 DEF ChildEnds
  <2>2. merged' = merged + (IF pending THEN 1 ELSE 0) /\ merged' \in Nat
    BY <1>1 DEF ChildEnds, NetTypes
  <2>3. Zn = Z \cup {p} /\ p \notin Z BY <1>1, <1>4, <1>6, <1>8
  <2>4. Cardinality(Zn) = Cardinality(Z) + 1
    <3> HIDE DEF Z, Zn
    <3> QED BY <1>1, <2>3, FS_AddElement
  <2>5. Cardinality(Zn) = merged' + (IF pending' THEN 1 ELSE 0) BY <1>5, <2>1, <2>2, <2>4
  <2>6. NetZombies' BY <2>5 DEF NetZombies
  <2> QED BY <1>2, <1>4, <1>8, <2>1, <2>2, <2>6
<1> QED BY <1>7, <1>8

-----------------------------------------------------------------------------
(* EchoServers: the steps *)

\* The initial states satisfy the invariant.
LEMMA NetInitial == NetInit => NetInv
<1> SUFFICES ASSUME NetInit PROVE NetInv OBVIOUS
<1>1. NetTypes
  <2>1. stored \in Seq(Clients \X Nat) /\ pipe \in Seq(Clients \X Nat) BY DEF NetInit
  <2>2. sent = [c \in Clients |-> 0] /\ unread = sent /\ echoed = sent BY DEF NetInit
  <2>3. unread \in [Clients -> Nat] /\ echoed \in [Clients -> Nat] BY <2>2
  <2>4. child \in [Clients \cup {Storer} -> Stages] BY DEF NetInit, Stages
  <2> QED BY <2>1, <2>3, <2>4 DEF NetInit, NetTypes
<1>2. \A p \in Clients \cup {Storer} : child[p] \in {"none", "stores"} /\ (p \in Clients => child[p] = "none")
  BY NetAssumption DEF NetInit
<1>3. netKind = "select" => \A p \in Clients \cup {Storer} : child[p] = "none" BY DEF NetInit
<1>4. spc.at = "accept" /\ batch = {} /\ ~pending /\ merged = 0 BY DEF NetInit
<1>5. NetForks BY <1>2, <1>3, <1>4 DEF NetForks, Gone
<1>6. NetZombies
  <2>1. {p \in DOMAIN child : child[p] = "zombie"} = {} BY <1>1, <1>2 DEF NetTypes
  <2> QED BY <1>4, <2>1, FS_EmptySet DEF NetZombies
<1>7. Kept = <<>> /\ Len(Kept) = 0 BY DEF NetInit, Kept
<1>8. \A c \in Clients : echoed[c] = 0 BY DEF NetInit
<1>9. NetKeeps /\ NetStoredInOrder BY <1>7, <1>8 DEF NetKeeps, NetStoredInOrder
<1> QED BY <1>1, <1>5, <1>6, <1>9 DEF NetInv

\* The clients' steps, which send and end but do not fork.
LEMMA ClientStep ==
    ASSUME NetInv, NEW c \in Clients,
           Client_Connect(c) \/ Client_Write(c) \/ Client_Quit(c) \/ Client_End(c)
    PROVE  NetInv'
<1>1. /\ netKind' = netKind /\ echoed' = echoed /\ child' = child /\ spc' = spc /\ batch' = batch
      /\ pending' = pending /\ merged' = merged /\ pipe' = pipe /\ stored' = stored
  BY DEF Client_Connect, Client_Write, Client_Quit, Client_End, storeVars
<1>2. NetTypes BY DEF NetInv
<1>3. unread' \in [Clients -> Nat]
  BY <1>2 DEF NetTypes, Client_Connect, Client_Write, Client_Quit, Client_End
<1>4. /\ client' \in [Clients -> {"new", "waiting", "served", "ended"}]
      /\ \A d \in Clients : client'[d] \in {"new", "waiting"} => client[d] \in {"new", "waiting"}
      /\ \A d \in Clients : client[d] \in {"served", "ended"} => client'[d] \in {"served", "ended"}
  BY <1>2 DEF NetTypes, Client_Connect, Client_Write, Client_Quit, Client_End
<1>5. NetTypes' BY <1>1, <1>2, <1>3, <1>4 DEF NetTypes
<1>6. NetForks' BY <1>1, <1>4 DEF NetInv, NetForks, Gone
<1>7. NetZombies' BY <1>1, SameZombies
<1>8. NetKeeps' /\ NetStoredInOrder' BY <1>1, SameKept DEF Kept
<1> QED BY <1>5, <1>6, <1>7, <1>8 DEF NetInv

\* The servers' steps.
LEMMA ServerStep ==
    ASSUME NetInv, Server_Accept \/ Server_Fork \/ Server_ForkFails \/ Server_Close
    PROVE  NetInv'
<1>1. /\ netKind' = netKind /\ unread' = unread /\ echoed' = echoed /\ batch' = batch
      /\ pipe' = pipe /\ stored' = stored
  BY DEF Server_Accept, Server_Fork, Server_ForkFails, Server_Close, storeVars
<1>2. NetTypes /\ NetForks BY DEF NetInv
<1>3. netKind # "select" BY <1>2 DEF NetForks, Server_Accept, Server_Fork, Server_ForkFails, Server_Close
<1>4. batch' = {} BY <1>1, <1>2, <1>3 DEF NetForks
<1>5. CASE Server_Accept
  <2>1. PICK c \in Clients : /\ client[c] = "waiting" /\ client' = [client EXCEPT ![c] = "served"]
                             /\ spc' = [at |-> "fork", client |-> c]
    BY <1>5 DEF Server_Accept, Backlog
  <2>2. child' = child /\ pending' = pending /\ merged' = merged BY <1>5 DEF Server_Accept
  <2>3. NetTypes' BY <1>1, <1>2, <2>1, <2>2 DEF NetTypes
  <2>4. \A d \in Clients : client'[d] \in {"new", "waiting"} => client[d] \in {"new", "waiting"}
    BY <1>2, <2>1 DEF NetTypes
  <2>5. spc'.at = "fork" /\ spc'.client = c /\ child[c] = "none" /\ client'[c] = "served"
    BY <1>2, <2>1 DEF NetForks, NetTypes
  <2>6. NetForks' BY <1>1, <1>2, <1>3, <1>4, <2>2, <2>4, <2>5 DEF NetForks, Gone
  <2>7. NetZombies' BY <2>2, SameZombies
  <2>8. NetKeeps' /\ NetStoredInOrder' BY <1>1, <2>2, SameKept DEF Kept
  <2> QED BY <2>3, <2>6, <2>7, <2>8 DEF NetInv
<1>6. CASE Server_Fork
  <2>1. PICK c \in Clients : c = spc.client /\ child[c] = "none"
    BY <1>2, <1>6 DEF NetForks, Server_Fork
  <2>2. /\ spc.at = "fork" /\ child' = [child EXCEPT ![c] = "reads"] /\ spc' = [spc EXCEPT !.at = "close"]
        /\ pending' = pending /\ merged' = merged /\ client' = client
    BY <1>6, <2>1 DEF Server_Fork, peerVars
  <2>3. /\ child'[c] = "reads" /\ \A p \in Clients \cup {Storer} : p # c => child'[p] = child[p]
        /\ child' \in [Clients \cup {Storer} -> Stages]
    BY <1>2, <2>2 DEF NetTypes, Stages
  <2>4. spc'.at = "close" /\ spc' \in [at : {"accept", "fork", "close", "gone"}, client : Clients \cup {Server}]
    BY <1>2, <2>2 DEF NetTypes
  <2>5. NetTypes' BY <1>1, <1>2, <2>2, <2>3, <2>4 DEF NetTypes
  <2>6. client[c] \notin {"new", "waiting"} BY <1>2, <2>1, <2>2 DEF NetForks
  <2>7. NetForks' BY <1>1, <1>2, <1>3, <1>4, <2>2, <2>3, <2>4, <2>6 DEF NetForks, Gone
  <2>8. DOMAIN child = Clients \cup {Storer} /\ DOMAIN child' = Clients \cup {Storer}
    BY <1>2, <2>3 DEF NetTypes
  <2>9. NetZombies' BY <2>1, <2>2, <2>3, <2>8, SameZombies
  <2>10. NetKeeps' /\ NetStoredInOrder' BY <1>1, <2>1, <2>3, SameKept DEF Kept
  <2> QED BY <2>5, <2>7, <2>9, <2>10 DEF NetInv
<1>7. CASE Server_ForkFails
  <2>1. /\ child' = [p \in DOMAIN child |-> IF child[p] = "zombie" THEN "reaped" ELSE child[p]]
        /\ spc' = [at |-> "gone", client |-> Server] /\ pending' = FALSE /\ merged' = 0 /\ client' = client
    BY <1>7 DEF Server_ForkFails, peerVars
  <2>2. DOMAIN child = Clients \cup {Storer} BY <1>2 DEF NetTypes
  <2>3. /\ \A p \in Clients \cup {Storer} : child'[p] = IF child[p] = "zombie" THEN "reaped" ELSE child[p]
        /\ child' \in [Clients \cup {Storer} -> Stages] /\ DOMAIN child' = Clients \cup {Storer}
    BY <1>2, <2>1, <2>2 DEF NetTypes, Stages
  <2>4. NetTypes' BY <1>1, <1>2, <2>1, <2>3 DEF NetTypes
  <2>5. spc'.at = "gone" /\ ~pending' /\ merged' = 0 BY <2>1
  <2>6. NetForks' BY <1>1, <1>2, <1>3, <1>4, <2>1, <2>3, <2>5 DEF NetForks, Gone
  <2>7. NetZombies'
    <3>1. {p \in DOMAIN child' : child'[p] = "zombie"} = {} BY <2>3
    <3> QED BY <2>1, <3>1, FS_EmptySet DEF NetZombies
  <2>8. NetKeeps' /\ NetStoredInOrder' BY <1>1, <2>3, SameKept DEF Kept
  <2> QED BY <2>4, <2>6, <2>7, <2>8 DEF NetInv
<1>8. CASE Server_Close
  <2>1. /\ spc' = [at |-> "accept", client |-> Server] /\ child' = child
        /\ pending' = pending /\ merged' = merged /\ client' = client
    BY <1>8 DEF Server_Close, peerVars
  <2>2. NetTypes' BY <1>1, <1>2, <2>1 DEF NetTypes
  <2>3. spc'.at = "accept" BY <2>1
  <2>4. NetForks' BY <1>1, <1>2, <1>3, <1>4, <2>1, <2>3 DEF NetForks, Gone
  <2>5. NetZombies' BY <2>1, SameZombies
  <2>6. NetKeeps' /\ NetStoredInOrder' BY <1>1, <2>1, SameKept DEF Kept
  <2> QED BY <2>2, <2>4, <2>5, <2>6 DEF NetInv
<1> QED BY <1>5, <1>6, <1>7, <1>8

\* The handler waits for one child; there is one, since a signal is pending.
LEMMA HandlerStep ==
    ASSUME NetInv, read_childproc
    PROVE  NetInv'
<1> DEFINE Z == {q \in DOMAIN child : child[q] = "zombie"}
<1>1. /\ netKind' = netKind /\ unread' = unread /\ echoed' = echoed /\ batch' = batch /\ spc' = spc
      /\ pipe' = pipe /\ stored' = stored /\ merged' = merged /\ client' = client
      /\ pending = TRUE /\ pending' = FALSE
  BY DEF read_childproc, peerVars, storeVars, NetInv, NetTypes
<1>2. NetTypes /\ NetForks /\ IsFiniteSet(Z) /\ DOMAIN child = Clients \cup {Storer}
  BY ZombiesFinite DEF NetInv
<1>3. Cardinality(Z) = merged + 1 BY <1>1 DEF NetInv, NetZombies
<1>4. Z # {}
  <2>1. Cardinality(Z) # 0 BY <1>2, <1>3 DEF NetTypes
  <2> HIDE DEF Z
  <2> QED BY <2>1, FS_EmptySet
<1>5. PICK p \in DOMAIN child : child[p] = "zombie" /\ child' = [child EXCEPT ![p] = "reaped"]
  BY <1>4 DEF read_childproc
<1>6. /\ child'[p] = "reaped" /\ \A q \in Clients \cup {Storer} : q # p => child'[q] = child[q]
      /\ child' \in [Clients \cup {Storer} -> Stages] /\ DOMAIN child' = Clients \cup {Storer}
  BY <1>2, <1>5 DEF NetTypes, Stages
<1>7. NetTypes' BY <1>1, <1>2, <1>6 DEF NetTypes
<1>8. netKind # "select" /\ ~Gone BY <1>1, <1>2 DEF NetForks
<1>9. NetForks' BY <1>1, <1>2, <1>5, <1>6, <1>8 DEF NetForks, Gone
<1>10. NetZombies'
  <2> DEFINE Zn == {q \in DOMAIN child' : child'[q] = "zombie"}
  <2>1. Zn = Z \ {p} /\ p \in Z BY <1>2, <1>5, <1>6
  <2>2. Cardinality(Zn) = Cardinality(Z) - 1
    <3> HIDE DEF Z, Zn
    <3> QED BY <1>2, <2>1, FS_RemoveElement
  <2>3. Cardinality(Zn) = merged BY <1>2, <1>3, <2>2 DEF NetTypes
  <2>4. merged = merged + 0 BY <1>2 DEF NetTypes
  <2> QED BY <1>1, <2>3, <2>4 DEF NetZombies
<1>11. NetKeeps' /\ NetStoredInOrder' BY <1>1, <1>2, <1>5, <1>6, SameKept DEF Kept
<1> QED BY <1>7, <1>9, <1>10, <1>11 DEF NetInv

\* A child echoes.  For the storing server it then has a message to write, which is
\* later than all it has written.
LEMMA EchoStep ==
    ASSUME NetInv, NEW c \in Clients, Child_Echo(c)
    PROVE  NetInv'
<1>1. /\ netKind' = netKind /\ spc' = spc /\ batch' = batch /\ pending' = pending /\ merged' = merged
      /\ pipe' = pipe /\ stored' = stored /\ client' = client /\ child[c] = "reads"
      /\ child' = [child EXCEPT ![c] = IF netKind = "store" THEN "writes" ELSE "reads"]
  BY DEF Child_Echo, peerVars, storeVars
<1>2. NetTypes /\ NetForks BY DEF NetInv
<1>3. PICK k \in 1 .. unread[c] : /\ unread' = [unread EXCEPT ![c] = @ - k]
                                  /\ echoed' = [echoed EXCEPT ![c] = @ + k]
  BY DEF Child_Echo
<1>4. /\ unread' \in [Clients -> Nat] /\ echoed' \in [Clients -> Nat] /\ echoed'[c] > echoed[c]
      /\ \A d \in Clients : d # c => echoed'[d] = echoed[d]
  <2>1. unread[c] \in Nat /\ k \in Nat /\ k >= 1 /\ k <= unread[c] /\ echoed[c] \in Nat
    BY <1>2, <1>3 DEF NetTypes
  <2>2. unread[c] - k \in Nat /\ echoed[c] + k \in Nat /\ echoed[c] + k > echoed[c] BY <2>1
  <2> QED BY <1>2, <1>3, <2>2 DEF NetTypes
<1>5. /\ child'[c] = IF netKind = "store" THEN "writes" ELSE "reads"
      /\ \A q \in Clients \cup {Storer} : q # c => child'[q] = child[q]
      /\ child' \in [Clients \cup {Storer} -> Stages] /\ DOMAIN child' = Clients \cup {Storer}
      /\ DOMAIN child = Clients \cup {Storer}
  BY <1>1, <1>2 DEF NetTypes, Stages
<1>6. NetTypes' BY <1>1, <1>2, <1>4, <1>5 DEF NetTypes
<1>7. NetForks' BY <1>1, <1>2, <1>5 DEF NetForks, Gone
<1>8. NetZombies' BY <1>1, <1>5, SameZombies
<1>9. Kept' = Kept BY <1>1 DEF Kept
<1>10. Len(Kept) \in Nat /\ \A i \in 1 .. Len(Kept) : Kept[i][1] \in Clients /\ Kept[i][2] \in Nat
  BY <1>2, KeptSeq
<1>11. NetKeeps'
  <2> SUFFICES ASSUME netKind = "store", NEW i \in 1 .. Len(Kept)
               PROVE  /\ Kept[i][2] <= echoed'[Kept[i][1]]
                      /\ child'[Kept[i][1]] = "writes" => Kept[i][2] < echoed'[Kept[i][1]]
    BY <1>1, <1>9 DEF NetKeeps
  <2>1. /\ Kept[i][2] <= echoed[Kept[i][1]]
        /\ child[Kept[i][1]] = "writes" => Kept[i][2] < echoed[Kept[i][1]]
    BY DEF NetInv, NetKeeps
  <2>2. CASE Kept[i][1] = c
    <3>1. echoed[c] \in Nat /\ echoed'[c] \in Nat /\ Kept[i][2] \in Nat BY <1>2, <1>4, <1>10 DEF NetTypes
    <3>2. Kept[i][2] < echoed'[c] BY <1>4, <2>1, <2>2, <3>1
    <3> QED BY <2>2, <3>1, <3>2
  <2>3. CASE Kept[i][1] # c BY <1>4, <1>5, <1>10, <2>1, <2>3
  <2> QED BY <2>2, <2>3
<1>12. NetStoredInOrder'
  <2> SUFFICES ASSUME netKind = "store", NEW d \in Clients, child'[d] # "writes", echoed'[d] > 0
               PROVE  \E i \in 1 .. Len(Kept) :
                         /\ Kept[i] = <<d, echoed'[d]>>
                         /\ \A j \in i + 1 .. Len(Kept) : Kept[j][1] # d
    <3>1. netKind = "store" => \A i, j \in 1 .. Len(Kept) :
             i < j /\ Kept[i][1] = Kept[j][1] => Kept[i][2] < Kept[j][2]
      BY DEF NetInv, NetStoredInOrder
    <3> QED BY <1>1, <1>9, <3>1 DEF NetStoredInOrder
  <2>1. d # c BY <1>5
  <2>2. echoed'[d] = echoed[d] /\ child[d] # "writes" BY <1>4, <1>5, <2>1
  <2> QED BY <2>2 DEF NetInv, NetStoredInOrder
<1> QED BY <1>6, <1>7, <1>8, <1>11, <1>12 DEF NetInv

\* A child writes what it has echoed to the pipe: behind all that is kept.
LEMMA StoreStep ==
    ASSUME NetInv, NEW c \in Clients, Child_Store(c)
    PROVE  NetInv'
<1>1. /\ netKind' = netKind /\ spc' = spc /\ batch' = batch /\ pending' = pending /\ merged' = merged
      /\ stored' = stored /\ client' = client /\ child[c] = "writes" /\ unread' = unread
      /\ echoed' = echoed /\ child' = [child EXCEPT ![c] = "reads"]
      /\ pipe' = Append(pipe, <<c, echoed[c]>>)
  BY DEF Child_Store, peerVars
<1>2. NetTypes /\ NetForks BY DEF NetInv
<1> DEFINE m == <<c, echoed[c]>>  n == Len(Kept)
<1>3. m \in Clients \X Nat BY <1>2 DEF NetTypes
<1>4. /\ child'[c] = "reads"
      /\ \A q \in Clients \cup {Storer} : q # c => child'[q] = child[q]
      /\ child' \in [Clients \cup {Storer} -> Stages] /\ DOMAIN child' = Clients \cup {Storer}
      /\ DOMAIN child = Clients \cup {Storer}
  BY <1>1, <1>2 DEF NetTypes, Stages
<1>5. pipe' \in Seq(Clients \X Nat) BY <1>1, <1>2, <1>3 DEF NetTypes
<1>6. NetTypes' BY <1>1, <1>2, <1>4, <1>5 DEF NetTypes
<1>7. NetForks' BY <1>1, <1>2, <1>4 DEF NetForks, Gone
<1>8. NetZombies' BY <1>1, <1>4, SameZombies
<1>9. Kept' = Append(Kept, m)
  <2>1. stored \in Seq(Clients \X Nat) /\ pipe \in Seq(Clients \X Nat) BY <1>2 DEF NetTypes
  <2>2. \A s, u \in Seq(Clients \X Nat) : \A e \in Clients \X Nat :
           s \o Append(u, e) = Append(s \o u, e)
    OBVIOUS
  <2> HIDE DEF m
  <2> QED BY <1>1, <1>3, <2>1, <2>2 DEF Kept, m
<1>10. /\ n \in Nat /\ Len(Kept') = n + 1 /\ Kept'[n + 1] = m
       /\ \A i \in 1 .. n : Kept'[i] = Kept[i] /\ Kept[i][1] \in Clients /\ Kept[i][2] \in Nat
  <2>1. Kept \in Seq(Clients \X Nat) /\ n \in Nat /\ \A i \in 1 .. n : Kept[i] \in Clients \X Nat
    BY <1>2, KeptSeq
  <2>2. \A i \in 1 .. n : Kept[i][1] \in Clients /\ Kept[i][2] \in Nat BY <2>1
  <2> HIDE DEF m
  <2> QED BY <1>3, <1>9, <2>1, <2>2
<1>11. \A i \in 1 .. n + 1 : i = n + 1 \/ i \in 1 .. n BY <1>10
<1>12. m[1] = c /\ m[2] = echoed[c] /\ echoed[c] \in Nat BY <1>2 DEF NetTypes
<1> HIDE DEF m, n
<1>13. ASSUME netKind = "store", NEW i \in 1 .. n, Kept[i][1] = c PROVE Kept[i][2] < echoed[c]
  BY <1>1, <1>13 DEF NetInv, NetKeeps, n
<1>14. NetKeeps'
  <2> SUFFICES ASSUME netKind = "store", NEW i \in 1 .. n + 1
               PROVE  /\ Kept'[i][2] <= echoed[Kept'[i][1]]
                      /\ child'[Kept'[i][1]] = "writes" => Kept'[i][2] < echoed[Kept'[i][1]]
    BY <1>1, <1>10 DEF NetKeeps
  <2>1. CASE i = n + 1 BY <1>4, <1>10, <1>12, <2>1
  <2>2. CASE i \in 1 .. n
    <3>1. /\ Kept[i][2] <= echoed[Kept[i][1]]
          /\ child[Kept[i][1]] = "writes" => Kept[i][2] < echoed[Kept[i][1]]
      BY <2>2 DEF NetInv, NetKeeps, n
    <3>2. child'[Kept[i][1]] = "writes" => child[Kept[i][1]] = "writes" BY <1>4, <1>10, <2>2
    <3> QED BY <1>10, <2>2, <3>1, <3>2
  <2> QED BY <1>11, <2>1, <2>2
<1>15. NetStoredInOrder'
  <2> SUFFICES ASSUME netKind = "store"
               PROVE  /\ \A i, j \in 1 .. n + 1 :
                           i < j /\ Kept'[i][1] = Kept'[j][1] => Kept'[i][2] < Kept'[j][2]
                      /\ \A d \in Clients : child'[d] # "writes" /\ echoed[d] > 0 =>
                           \E i \in 1 .. n + 1 :
                              /\ Kept'[i] = <<d, echoed[d]>>
                              /\ \A j \in i + 1 .. n + 1 : Kept'[j][1] # d
    BY <1>1, <1>10 DEF NetStoredInOrder
  <2>1. ASSUME NEW i \in 1 .. n + 1, NEW j \in 1 .. n + 1, i < j, Kept'[i][1] = Kept'[j][1]
        PROVE  Kept'[i][2] < Kept'[j][2]
    <3>1. i \in 1 .. n BY <1>10, <2>1
    <3>2. CASE j = n + 1
      <4>1. Kept[i][1] = c BY <1>10, <1>12, <2>1, <3>1, <3>2
      <4> QED BY <1>10, <1>12, <1>13, <3>1, <3>2, <4>1
    <3>3. CASE j \in 1 .. n
      <4>1. Kept[i][1] = Kept[j][1] BY <1>10, <2>1, <3>1, <3>3
      <4>2. Kept[i][2] < Kept[j][2] BY <2>1, <3>1, <3>3, <4>1 DEF NetInv, NetStoredInOrder, n
      <4> QED BY <1>10, <3>1, <3>3, <4>2
    <3> QED BY <1>11, <3>2, <3>3
  <2>2. ASSUME NEW d \in Clients, child'[d] # "writes", echoed[d] > 0
        PROVE  \E i \in 1 .. n + 1 : /\ Kept'[i] = <<d, echoed[d]>>
                                     /\ \A j \in i + 1 .. n + 1 : Kept'[j][1] # d
    <3>1. CASE d = c
      <4>1. n + 1 \in 1 .. n + 1 /\ (n + 1) + 1 .. n + 1 = {} BY <1>10
      <4> QED BY <1>10, <3>1, <4>1 DEF m
    <3>2. CASE d # c
      <4>1. child[d] # "writes" BY <1>4, <2>2, <3>2
      <4>2. PICK i \in 1 .. n : Kept[i] = <<d, echoed[d]>> /\ \A j \in i + 1 .. n : Kept[j][1] # d
        BY <2>2, <4>1 DEF NetInv, NetStoredInOrder, n
      <4>3. ASSUME NEW j \in i + 1 .. n + 1 PROVE Kept'[j][1] # d
        <5>1. j = n + 1 \/ (j \in i + 1 .. n /\ j \in 1 .. n) BY <1>10
        <5> QED BY <1>10, <1>12, <3>2, <4>2, <5>1
      <4>4. i \in 1 .. n + 1 /\ Kept'[i] = <<d, echoed[d]>> BY <1>10, <4>2
      <4> QED BY <4>3, <4>4
    <3> QED BY <3>1, <3>2
  <2> QED BY <2>1, <2>2
<1> QED BY <1>6, <1>7, <1>8, <1>14, <1>15 DEF NetInv

\* A child ends, or the storing process.
LEMMA EndStep ==
    ASSUME NetInv, NEW p \in Clients \cup {Storer}, child[p] \in {"reads", "stores"},
           ChildEnds(p), UNCHANGED <<netKind, unread, echoed, spc, batch, peerVars, storeVars>>
    PROVE  NetInv'
<1>1. /\ netKind' = netKind /\ spc' = spc /\ batch' = batch /\ stored' = stored /\ pipe' = pipe
      /\ client' = client /\ unread' = unread /\ echoed' = echoed
  BY DEF peerVars, storeVars
<1>2. NetTypes /\ NetForks BY DEF NetInv
<1>3. /\ NetZombies' /\ pending' \in BOOLEAN /\ merged' \in Nat
      /\ child' \in [Clients \cup {Storer} -> Stages]
      /\ \A q \in Clients \cup {Storer} : q # p => child'[q] = child[q]
      /\ child'[p] \in {"reaped", "zombie"}
      /\ Gone' => ~pending' /\ merged' = 0
  BY <1>1, OneEnds
<1>4. NetTypes' BY <1>1, <1>2, <1>3 DEF NetTypes
<1>5. netKind # "select" BY <1>2 DEF NetForks
<1>6. NetForks' BY <1>1, <1>2, <1>3, <1>5 DEF NetForks
<1>7. NetKeeps' /\ NetStoredInOrder' BY <1>1, <1>3, SameKept DEF Kept
<1> QED BY <1>3, <1>4, <1>6, <1>7 DEF NetInv

\* The storing process moves messages from the pipe to the file, in their order.
LEMMA StorerStep ==
    ASSUME NetInv, Storer_Read
    PROVE  NetInv'
<1>1. /\ netKind' = netKind /\ spc' = spc /\ batch' = batch /\ pending' = pending /\ merged' = merged
      /\ client' = client /\ unread' = unread /\ echoed' = echoed /\ child' = child
  BY DEF Storer_Read, peerVars
<1>2. NetTypes /\ NetForks BY DEF NetInv
<1>3. PICK k \in 1 .. Len(pipe) : /\ stored' = stored \o SubSeq(pipe, 1, k)
                                  /\ pipe' = SubSeq(pipe, k + 1, Len(pipe))
  BY DEF Storer_Read
<1> DEFINE M == Clients \X Nat  a == SubSeq(pipe, 1, k)  b == SubSeq(pipe, k + 1, Len(pipe))
<1>4. stored \in Seq(M) /\ pipe \in Seq(M) /\ Len(pipe) \in Nat BY <1>2 DEF NetTypes
<1>5. a \in Seq(M) /\ b \in Seq(M)
  <2>1. \A i \in 1 .. Len(pipe) : pipe[i] \in M BY <1>4
  <2>2. 1 \in Int /\ k \in Int /\ k + 1 \in Int /\ Len(pipe) \in Int
        /\ (\A i \in 1 .. k : pipe[i] \in M) /\ (\A i \in k + 1 .. Len(pipe) : pipe[i] \in M)
    BY <1>4, <2>1
  <2> HIDE DEF M
  <2> QED BY <2>2
<1>6. a \o b = pipe
  <2>1. 1 \in 1 .. Len(pipe) + 1 /\ k \in 1 - 1 .. Len(pipe) /\ Len(pipe) \in k .. Len(pipe) BY <1>4
  <2> HIDE DEF M
  <2>2. a \o b = SubSeq(pipe, 1, Len(pipe)) BY <1>4, <2>1
  <2> QED BY <1>4, <2>2
<1>7. stored' \in Seq(M) /\ pipe' \in Seq(M) /\ Kept' = Kept
  <2> HIDE DEF M, a, b
  <2>1. stored' = stored \o a /\ pipe' = b BY <1>3 DEF a, b
  <2>2. (stored \o a) \o b = stored \o (a \o b)
    <3>1. \A s, u, v \in Seq(M) : (s \o u) \o v = s \o (u \o v) OBVIOUS
    <3> QED BY <1>4, <1>5, <3>1
  <2>3. Kept' = stored' \o pipe' BY DEF Kept
  <2>4. Kept' = Kept BY <1>6, <2>1, <2>2, <2>3 DEF Kept
  <2> QED BY <1>4, <1>5, <2>1, <2>4
<1>8. NetTypes' BY <1>1, <1>2, <1>7 DEF NetTypes
<1>9. NetForks' BY <1>1, <1>2 DEF NetForks, Gone
<1>10. NetZombies' BY <1>1, SameZombies
<1>11. NetKeeps' /\ NetStoredInOrder' BY <1>1, <1>7, SameKept
<1> QED BY <1>8, <1>9, <1>10, <1>11 DEF NetInv

\* The select server: it has no children and stores nothing.
LEMMA SelectStep ==
    ASSUME NetInv, NetSelect \/ Select_Timeout
    PROVE  NetInv'
<1>1. NetTypes /\ NetForks BY DEF NetInv
<1>2. netKind = "select"
  BY <1>1 DEF NetForks, NetSelect, Select_Return, Select_Accept, Select_Read, Select_Timeout
<1>3. /\ netKind' = netKind /\ pending' = pending /\ merged' = merged /\ child' = child
      /\ pipe' = pipe /\ stored' = stored
  BY DEF NetSelect, Select_Return, Select_Accept, Select_Read, Select_Timeout, storeVars
<1>4. spc' = spc \/ spc' = [at |-> "gone", client |-> Server]
  BY DEF NetSelect, Select_Return, Select_Accept, Select_Read, Select_Timeout
<1>5. client' \in [Clients -> {"new", "waiting", "served", "ended"}]
  BY <1>1 DEF NetTypes, NetSelect, Select_Return, Select_Accept, Select_Read, Select_Timeout, peerVars
<1>6. unread' \in [Clients -> Nat] /\ echoed' \in [Clients -> Nat]
  <2>1. CASE unread' = unread /\ echoed' = echoed BY <1>1, <2>1 DEF NetTypes
  <2>2. ASSUME NEW c \in Clients, NEW k \in 1 .. unread[c],
               unread' = [unread EXCEPT ![c] = @ - k], echoed' = [echoed EXCEPT ![c] = @ + k]
        PROVE  unread' \in [Clients -> Nat] /\ echoed' \in [Clients -> Nat]
    <3>1. unread[c] \in Nat /\ k \in Nat /\ k <= unread[c] /\ echoed[c] \in Nat
      BY <1>1, <2>2 DEF NetTypes
    <3>2. unread[c] - k \in Nat /\ echoed[c] + k \in Nat BY <3>1
    <3> QED BY <1>1, <2>2, <3>2 DEF NetTypes
  <2> QED BY <2>1, <2>2 DEF NetSelect, Select_Return, Select_Accept, Select_Read, Select_Timeout
<1>7. NetTypes' BY <1>1, <1>3, <1>4, <1>5, <1>6 DEF NetTypes
<1>8. spc'.at \in {"accept", "gone"} BY <1>1, <1>2, <1>4 DEF NetForks
<1>9. NetForks' BY <1>1, <1>2, <1>3, <1>8 DEF NetForks, Gone
<1>10. NetZombies' BY <1>3, SameZombies
<1>11. NetKeeps' /\ NetStoredInOrder' BY <1>2, <1>3 DEF NetKeeps, NetStoredInOrder
<1> QED BY <1>7, <1>9, <1>10, <1>11 DEF NetInv

\* Every step keeps the invariant.
LEMMA NetInvStep == NetInv /\ [NetNext]_netVars => NetInv'
<1> SUFFICES ASSUME NetInv, [NetNext]_netVars PROVE NetInv' OBVIOUS
<1>1. ASSUME NEW c \in Clients, Child_End(c) PROVE NetInv'
  BY <1>1, EndStep DEF Child_End
<1>2. CASE Storer_End BY <1>2, EndStep DEF Storer_End
<1>3. CASE UNCHANGED netVars
  <2>1. /\ netKind' = netKind /\ spc' = spc /\ batch' = batch /\ pending' = pending /\ merged' = merged
        /\ stored' = stored /\ pipe' = pipe /\ client' = client /\ unread' = unread /\ echoed' = echoed
        /\ child' = child
    BY <1>3 DEF netVars
  <2>2. NetTypes' BY <2>1 DEF NetInv, NetTypes
  <2>3. NetForks' BY <2>1 DEF NetInv, NetForks, Gone
  <2>4. NetZombies' BY <2>1, SameZombies
  <2>5. NetKeeps' /\ NetStoredInOrder' BY <2>1, SameKept DEF Kept
  <2> QED BY <2>2, <2>3, <2>4, <2>5 DEF NetInv
<1> QED BY <1>1, <1>2, <1>3, ClientStep, ServerStep, HandlerStep, EchoStep, StoreStep, StorerStep, SelectStep
        DEF NetNext, NetServer, NetChild, NetStorer

\* The zombies are those whose signal was merged or is pending, and the messages of each
\* client are stored in the order in which they were echoed, for any clients, whatever
\* the sizes of the pipe and of the reads.
THEOREM ChildrenLeaveRight == NetSpec => []NetChildrenRight
<1>1. NetInv => NetChildrenRight BY DEF NetInv, NetChildrenRight
<1> QED BY <1>1, NetInitial, NetInvStep, PTL DEF NetSpec

-----------------------------------------------------------------------------
(* ThreadPool *)

\* Initially the queue is empty, the mutex free and no thread in a critical
\* section.
LEMMA QueueInvInit == Init => QueueInv
BY PoolAssumption
   DEF Init, QueueInv, TypeOK, MutexInv, LocalInv, PopIsSafe, QueueBounded,
       Args, NoArg, IoStates, Keep, CallerSteps, WorkerSteps

\* Every step of append(), append_p() and run() preserves QueueInv.
LEMMA QueueInvStep == QueueInv /\ [Next]_vars => QueueInv'
<1> SUFFICES ASSUME QueueInv, [Next]_vars PROVE QueueInv'
  OBVIOUS
<1> USE PoolAssumption DEF QueueInv
<1> USE DEF CallerGoes, CallerReturns, WorkerGoes, queueVars, callerVars, workerVars
<1>1. ASSUME NEW c \in Callers, NEW r \in Requests, NEW s \in IoStates \cup {Keep}, Append_Call(c, r, s)
      PROVE  QueueInv'
  <2>1. TypeOK'
    BY <1>1 DEF TypeOK, CallerSteps, WorkerSteps, Args, IoStates, Keep, NoArg, PopIsSafe, Append_Call
  <2>2. MutexInv'
    BY <1>1 DEF TypeOK, MutexInv, Append_Call
  <2>3. LocalInv' /\ PopIsSafe' /\ QueueBounded'
    BY <1>1 DEF TypeOK, MutexInv, LocalInv, PopIsSafe, QueueBounded, Append_Call
  <2> QED
    BY <2>1, <2>2, <2>3
<1>2. ASSUME NEW c \in Callers, Append_Lock(c)
      PROVE  QueueInv'
  <2>1. TypeOK'
    BY <1>2 DEF TypeOK, CallerSteps, WorkerSteps, Args, IoStates, Keep, NoArg, PopIsSafe, Append_Lock, Lock
  <2>2. MutexInv'
    BY <1>2 DEF TypeOK, MutexInv, Append_Lock, Lock
  <2>3. LocalInv' /\ PopIsSafe' /\ QueueBounded'
    BY <1>2 DEF TypeOK, MutexInv, LocalInv, PopIsSafe, QueueBounded, Append_Lock, Lock
  <2> QED
    BY <2>1, <2>2, <2>3
<1>3. ASSUME NEW c \in Callers, Append_Room(c)
      PROVE  QueueInv'
  <2>1. TypeOK'
    BY <1>3 DEF TypeOK, CallerSteps, WorkerSteps, Args, IoStates, Keep, NoArg, PopIsSafe, Append_Room
  <2>2. MutexInv'
    BY <1>3 DEF TypeOK, MutexInv, Append_Room
  <2>3. LocalInv' /\ PopIsSafe' /\ QueueBounded'
    BY <1>3 DEF TypeOK, MutexInv, LocalInv, PopIsSafe, QueueBounded, Append_Room
  <2> QED
    BY <2>1, <2>2, <2>3
<1>4. ASSUME NEW c \in Callers, Append_Full(c)
      PROVE  QueueInv'
  <2>1. TypeOK'
    BY <1>4 DEF TypeOK, CallerSteps, WorkerSteps, Args, IoStates, Keep, NoArg, PopIsSafe, Append_Full, Unlock
  <2>2. MutexInv'
    BY <1>4 DEF TypeOK, MutexInv, Append_Full, Unlock
  <2>3. LocalInv' /\ PopIsSafe' /\ QueueBounded'
    BY <1>4 DEF TypeOK, MutexInv, LocalInv, PopIsSafe, QueueBounded, Append_Full, Unlock
  <2> QED
    BY <2>1, <2>2, <2>3
<1>5. ASSUME NEW c \in Callers, Append_Push(c)
      PROVE  QueueInv'
  <2>1. TypeOK'
    BY <1>5 DEF TypeOK, CallerSteps, WorkerSteps, Args, IoStates, Keep, NoArg, PopIsSafe, Append_Push, Unlock
  <2>2. MutexInv'
    BY <1>5 DEF TypeOK, MutexInv, Append_Push, Unlock
  <2>3. LocalInv' /\ PopIsSafe' /\ QueueBounded'
    BY <1>5 DEF TypeOK, MutexInv, LocalInv, PopIsSafe, QueueBounded, Append_Push, Unlock
  <2> QED
    BY <2>1, <2>2, <2>3
<1>6. ASSUME NEW c \in Callers, Append_Post(c)
      PROVE  QueueInv'
  <2>1. TypeOK'
    BY <1>6 DEF TypeOK, CallerSteps, WorkerSteps, Args, IoStates, Keep, NoArg, PopIsSafe, Append_Post, SemPost
  <2>2. MutexInv'
    BY <1>6 DEF TypeOK, MutexInv, Append_Post, SemPost
  <2>3. LocalInv' /\ PopIsSafe' /\ QueueBounded'
    BY <1>6 DEF TypeOK, MutexInv, LocalInv, PopIsSafe, QueueBounded, Append_Post, SemPost
  <2> QED
    BY <2>1, <2>2, <2>3
<1>7. ASSUME NEW w \in Workers, Run_Wait(w)
      PROVE  QueueInv'
  <2>1. TypeOK'
    BY <1>7 DEF TypeOK, CallerSteps, WorkerSteps, Args, IoStates, Keep, NoArg, PopIsSafe, Run_Wait, SemWait
  <2>2. MutexInv'
    BY <1>7 DEF TypeOK, MutexInv, Run_Wait, SemWait
  <2>3. LocalInv' /\ PopIsSafe' /\ QueueBounded'
    BY <1>7 DEF TypeOK, MutexInv, LocalInv, PopIsSafe, QueueBounded, Run_Wait, SemWait
  <2> QED
    BY <2>1, <2>2, <2>3
<1>8. ASSUME NEW w \in Workers, Run_Sleep(w)
      PROVE  QueueInv'
  <2>1. TypeOK'
    BY <1>8 DEF TypeOK, CallerSteps, WorkerSteps, Args, IoStates, Keep, NoArg, PopIsSafe, Run_Sleep
  <2>2. MutexInv'
    BY <1>8 DEF TypeOK, MutexInv, Run_Sleep
  <2>3. LocalInv' /\ PopIsSafe' /\ QueueBounded'
    BY <1>8 DEF TypeOK, MutexInv, LocalInv, PopIsSafe, QueueBounded, Run_Sleep
  <2> QED
    BY <2>1, <2>2, <2>3
<1>9. ASSUME NEW w \in Workers, Run_Interrupted(w)
      PROVE  QueueInv'
  <2>1. TypeOK'
    BY <1>9 DEF TypeOK, CallerSteps, WorkerSteps, Args, IoStates, Keep, NoArg, PopIsSafe, Run_Interrupted
  <2>2. MutexInv'
    BY <1>9 DEF TypeOK, MutexInv, Run_Interrupted
  <2>3. LocalInv' /\ PopIsSafe' /\ QueueBounded'
    BY <1>9 DEF TypeOK, MutexInv, LocalInv, PopIsSafe, QueueBounded, Run_Interrupted
  <2> QED
    BY <2>1, <2>2, <2>3
<1>10. ASSUME NEW w \in Workers, Run_Lock(w)
      PROVE  QueueInv'
  <2>1. TypeOK'
    BY <1>10 DEF TypeOK, CallerSteps, WorkerSteps, Args, IoStates, Keep, NoArg, PopIsSafe, Run_Lock, Lock
  <2>2. MutexInv'
    BY <1>10 DEF TypeOK, MutexInv, Run_Lock, Lock
  <2>3. LocalInv' /\ PopIsSafe' /\ QueueBounded'
    BY <1>10 DEF TypeOK, MutexInv, LocalInv, PopIsSafe, QueueBounded, Run_Lock, Lock
  <2> QED
    BY <2>1, <2>2, <2>3
<1>11. ASSUME NEW w \in Workers, Run_Empty(w)
      PROVE  QueueInv'
  <2>1. TypeOK'
    BY <1>11 DEF TypeOK, CallerSteps, WorkerSteps, Args, IoStates, Keep, NoArg, PopIsSafe, Run_Empty, Unlock
  <2>2. MutexInv'
    BY <1>11 DEF TypeOK, MutexInv, Run_Empty, Unlock
  <2>3. LocalInv' /\ PopIsSafe' /\ QueueBounded'
    BY <1>11 DEF TypeOK, MutexInv, LocalInv, PopIsSafe, QueueBounded, Run_Empty, Unlock
  <2> QED
    BY <2>1, <2>2, <2>3
<1>12. ASSUME NEW w \in Workers, Run_NotEmpty(w)
      PROVE  QueueInv'
  <2>1. TypeOK'
    BY <1>12 DEF TypeOK, CallerSteps, WorkerSteps, Args, IoStates, Keep, NoArg, PopIsSafe, Run_NotEmpty
  <2>2. MutexInv'
    BY <1>12 DEF TypeOK, MutexInv, Run_NotEmpty
  <2>3. LocalInv' /\ PopIsSafe' /\ QueueBounded'
    BY <1>12 DEF TypeOK, MutexInv, LocalInv, PopIsSafe, QueueBounded, Run_NotEmpty
  <2> QED
    BY <2>1, <2>2, <2>3
<1>13. ASSUME NEW w \in Workers, Run_Pop(w)
      PROVE  QueueInv'
  <2>1. TypeOK'
    BY <1>13 DEF TypeOK, CallerSteps, WorkerSteps, Args, IoStates, Keep, NoArg, PopIsSafe, Run_Pop, Unlock
  <2>2. MutexInv'
    BY <1>13 DEF TypeOK, MutexInv, Run_Pop, Unlock
  <2>3. LocalInv' /\ PopIsSafe' /\ QueueBounded'
    BY <1>13 DEF TypeOK, MutexInv, LocalInv, PopIsSafe, QueueBounded, Run_Pop, Unlock
  <2> QED
    BY <2>1, <2>2, <2>3
<1>14. ASSUME NEW w \in Workers, Run_Serve(w)
      PROVE  QueueInv'
  <2>1. TypeOK'
    BY <1>14 DEF TypeOK, CallerSteps, WorkerSteps, Args, IoStates, Keep, NoArg, PopIsSafe, Run_Serve
  <2>2. MutexInv'
    BY <1>14 DEF TypeOK, MutexInv, Run_Serve
  <2>3. LocalInv' /\ PopIsSafe' /\ QueueBounded'
    BY <1>14 DEF TypeOK, MutexInv, LocalInv, PopIsSafe, QueueBounded, Run_Serve
  <2> QED
    BY <2>1, <2>2, <2>3
<1>15. CASE UNCHANGED vars
  BY <1>15 DEF vars, TypeOK, MutexInv, LocalInv, PopIsSafe, QueueBounded
<1> QED
  BY <1>1, <1>2, <1>3, <1>4, <1>5, <1>6, <1>7, <1>8, <1>9, <1>10, <1>11, <1>12,
     <1>13, <1>14, <1>15
     DEF Next, CallerStep, WorkerStep

\* The queue, the mutex and the threads stay consistent: in particular the
\* variables keep their types, the queue never exceeds m_max_requests, and
\* pop_front() is never called on an empty list.
THEOREM QueueSafe == Spec => []QueueInv
BY QueueInvInit, QueueInvStep, PTL DEF Spec

\* Every variable of the pool keeps its type.
THEOREM TypeCorrect == Spec => []TypeOK
BY QueueSafe, PTL DEF QueueInv

\* The mutex belongs to the thread inside a critical section, and to no other.
THEOREM MutualExclusion == Spec => []MutexInv
BY QueueSafe, PTL DEF QueueInv

\* m_max_requests bounds the queue, however many threads append.
THEOREM NeverOverfull == Spec => []QueueBounded
BY QueueSafe, PTL DEF QueueInv

\* No worker pops an empty list, interrupted by a signal or not.
THEOREM PopAlwaysSafe == Spec => []PopIsSafe
BY QueueSafe, PTL DEF QueueInv

-----------------------------------------------------------------------------
(* The semaphore *)

\* The three sets of threads the accounting counts are finite and disjoint
\* where they range over the same threads.
LEMMA CountedSets ==
    /\ IsFiniteSet(Posting) /\ Cardinality(Posting) \in Nat
    /\ Cardinality(Posting) <= Cardinality(Callers)
    /\ IsFiniteSet(TokenHolders) /\ Cardinality(TokenHolders) \in Nat
    /\ IsFiniteSet(Tokenless) /\ Cardinality(Tokenless) \in Nat
    /\ Cardinality(Workers) \in Nat /\ Cardinality(Callers) \in Nat
<1>1. Posting \in SUBSET Callers
  BY DEF Posting
<1>2. TokenHolders \in SUBSET Workers
  BY DEF TokenHolders
<1>3. Tokenless \in SUBSET Workers
  BY DEF Tokenless
<1>4. IsFiniteSet(Workers) /\ IsFiniteSet(Callers)
  BY PoolAssumption
<1>5. IsFiniteSet(Posting) /\ Cardinality(Posting) <= Cardinality(Callers)
  BY <1>1, <1>4, FS_Subset
<1>6. IsFiniteSet(TokenHolders) /\ IsFiniteSet(Tokenless)
  BY <1>2, <1>3, <1>4, FS_Subset
<1> QED
  BY <1>4, <1>5, <1>6, FS_CardinalityType

\* A worker that is about to sleep is counted neither as a holder of a unit nor
\* as a worker without one, so these two sets leave room for it.
LEMMA RoomForSleeper ==
    ASSUME TypeOK, NEW w \in Workers, workerAt[w] = "wait"
    PROVE  Cardinality(TokenHolders) + Cardinality(Tokenless) + 1 <= Cardinality(Workers)
<1>1. IsFiniteSet(TokenHolders) /\ IsFiniteSet(Tokenless)
  BY CountedSets
<1>2. TokenHolders \cap Tokenless = {}
  BY DEF TokenHolders, Tokenless
<1>3. IsFiniteSet(TokenHolders \cup Tokenless)
  BY <1>1, FS_Union
<1>4. Cardinality(TokenHolders \cup Tokenless) = Cardinality(TokenHolders) + Cardinality(Tokenless)
  BY <1>1, <1>2, CountedSets, FS_Union, FS_EmptySet
<1>5. w \notin TokenHolders \cup Tokenless
  BY DEF TokenHolders, Tokenless
<1>6. /\ IsFiniteSet((TokenHolders \cup Tokenless) \cup {w})
      /\ Cardinality((TokenHolders \cup Tokenless) \cup {w})
            = Cardinality(TokenHolders \cup Tokenless) + 1
  BY <1>3, <1>5, FS_AddElement
<1>7. (TokenHolders \cup Tokenless) \cup {w} \in SUBSET Workers
  BY DEF TokenHolders, Tokenless
<1>8. Cardinality((TokenHolders \cup Tokenless) \cup {w}) <= Cardinality(Workers)
  BY <1>7, PoolAssumption, FS_Subset
<1> QED
  BY <1>4, <1>6, <1>8, CountedSets

\* The two accounting invariants of the semaphore, and what makes them inductive.
SemInv == NoStrandedRequest /\ NoTokenLeak

\* A step that moves one thread into or out of a counted set changes its
\* cardinality by one.
LEMMA CountOne ==
    ASSUME NEW S, NEW T, NEW x, IsFiniteSet(S), IsFiniteSet(T)
    PROVE  /\ x \notin S /\ T = S \cup {x} => Cardinality(T) = Cardinality(S) + 1
           /\ x \in S /\ T = S \ {x} => Cardinality(T) = Cardinality(S) - 1
           /\ T = S \ {x} => Cardinality(T) \in Nat /\ Cardinality(T) <= Cardinality(S)
<1>1. /\ x \notin S /\ T = S \cup {x} => Cardinality(T) = Cardinality(S) + 1
      /\ x \in S /\ T = S \ {x} => Cardinality(T) = Cardinality(S) - 1
  BY FS_AddElement, FS_RemoveElement
<1>2. ASSUME T = S \ {x} PROVE Cardinality(T) \in Nat /\ Cardinality(T) <= Cardinality(S)
  <2>1. T \in SUBSET S
    BY <1>2
  <2> QED
    BY <2>1, FS_Subset, FS_CardinalityType
<1> QED
  BY <1>1, <1>2

\* The arithmetic of a push and of a pop: q requests, s units, p callers about to
\* post, h workers with a unit, l workers without, of w workers and c callers.
LEMMA PushPopCount ==
    ASSUME NEW q \in Nat, NEW s \in Nat, NEW p \in Nat, NEW h \in Nat, NEW l \in Nat,
           NEW w \in Nat, NEW c \in Nat, q <= s + p + h, s + p + h + l <= q + w + c
    PROVE  /\ q + 1 <= s + (p + 1) + h /\ s + (p + 1) + h + l <= (q + 1) + w + c
           /\ q - 1 <= s + p + (h - 1) /\ s + p + (h - 1) + l <= (q - 1) + w + c
           /\ q - 1 <= s + p + h /\ s + p + h + (l - 1) <= (q - 1) + w + c
  OBVIOUS

\* Every step of append(), append_p() and run() preserves the accounting.
LEMMA SemInvStep == QueueInv /\ SemInv /\ [Next]_vars => SemInv'
<1> SUFFICES ASSUME QueueInv, SemInv, [Next]_vars PROVE SemInv'
  OBVIOUS
<1> USE DEF SemInv, CallerGoes, CallerReturns, WorkerGoes, queueVars, callerVars, workerVars
<1>q. TypeOK /\ TypeOK' /\ PopIsSafe
  BY QueueInvStep DEF QueueInv
<1>f. /\ IsFiniteSet(Posting) /\ IsFiniteSet(TokenHolders) /\ IsFiniteSet(Tokenless)
      /\ Cardinality(Posting) \in Nat /\ Cardinality(TokenHolders) \in Nat
      /\ Cardinality(Tokenless) \in Nat
      /\ Cardinality(Posting) <= Cardinality(Callers)
      /\ Cardinality(Workers) \in Nat /\ Cardinality(Callers) \in Nat
  BY CountedSets
<1>n. m_queue_stat \in Nat /\ Len(m_work_queue) \in Nat
  BY <1>q DEF TypeOK
<1>a. LET q == Len(m_work_queue)
          s == m_queue_stat
          p == Cardinality(Posting)
          h == Cardinality(TokenHolders)
          l == Cardinality(Tokenless)
          w == Cardinality(Workers)
          c == Cardinality(Callers)
      IN  /\ q + 1 <= s + (p + 1) + h /\ s + (p + 1) + h + l <= (q + 1) + w + c
          /\ q - 1 <= s + p + (h - 1) /\ s + p + (h - 1) + l <= (q - 1) + w + c
          /\ q - 1 <= s + p + h /\ s + p + h + (l - 1) <= (q - 1) + w + c
  BY <1>f, <1>n, PushPopCount DEF NoStrandedRequest, NoTokenLeak, Credit
<1>g. IsFiniteSet(Posting') /\ IsFiniteSet(TokenHolders') /\ IsFiniteSet(Tokenless')
  <2>1. Posting' \in SUBSET Callers /\ TokenHolders' \in SUBSET Workers /\ Tokenless' \in SUBSET Workers
    BY DEF Posting, TokenHolders, Tokenless
  <2> QED
    BY <2>1, PoolAssumption, FS_Subset
<1>1. ASSUME NEW c \in Callers, NEW r \in Requests, NEW s \in IoStates \cup {Keep}, Append_Call(c, r, s)
      PROVE  SemInv'
  <2>1. Posting' = Posting /\ TokenHolders' = TokenHolders /\ Tokenless' = Tokenless
    BY <1>1, <1>q DEF TypeOK, Append_Call, Posting, TokenHolders, Tokenless
  <2>2. UNCHANGED <<m_work_queue, m_queue_stat>>
    BY <1>1, <1>q DEF TypeOK, Append_Call
  <2>3. /\ Cardinality(Posting') = Cardinality(Posting)
        /\ Cardinality(TokenHolders') = Cardinality(TokenHolders)
        /\ Cardinality(Tokenless') = Cardinality(Tokenless)
    BY <1>f, <1>g, <2>1, CountOne
  <2> QED
    BY <1>f, <1>n, <2>2, <2>3 DEF NoStrandedRequest, NoTokenLeak, Credit
<1>2. ASSUME NEW c \in Callers, Append_Lock(c)
      PROVE  SemInv'
  <2>1. Posting' = Posting /\ TokenHolders' = TokenHolders /\ Tokenless' = Tokenless
    BY <1>2, <1>q DEF TypeOK, Append_Lock, Posting, TokenHolders, Tokenless
  <2>2. UNCHANGED <<m_work_queue, m_queue_stat>>
    BY <1>2, <1>q DEF TypeOK, Append_Lock
  <2>3. /\ Cardinality(Posting') = Cardinality(Posting)
        /\ Cardinality(TokenHolders') = Cardinality(TokenHolders)
        /\ Cardinality(Tokenless') = Cardinality(Tokenless)
    BY <1>f, <1>g, <2>1, CountOne
  <2> QED
    BY <1>f, <1>n, <2>2, <2>3 DEF NoStrandedRequest, NoTokenLeak, Credit
<1>3. ASSUME NEW c \in Callers, Append_Room(c)
      PROVE  SemInv'
  <2>1. Posting' = Posting /\ TokenHolders' = TokenHolders /\ Tokenless' = Tokenless
    BY <1>3, <1>q DEF TypeOK, Append_Room, Posting, TokenHolders, Tokenless
  <2>2. UNCHANGED <<m_work_queue, m_queue_stat>>
    BY <1>3, <1>q DEF TypeOK, Append_Room
  <2>3. /\ Cardinality(Posting') = Cardinality(Posting)
        /\ Cardinality(TokenHolders') = Cardinality(TokenHolders)
        /\ Cardinality(Tokenless') = Cardinality(Tokenless)
    BY <1>f, <1>g, <2>1, CountOne
  <2> QED
    BY <1>f, <1>n, <2>2, <2>3 DEF NoStrandedRequest, NoTokenLeak, Credit
<1>4. ASSUME NEW c \in Callers, Append_Full(c)
      PROVE  SemInv'
  <2>1. Posting' = Posting /\ TokenHolders' = TokenHolders /\ Tokenless' = Tokenless
    BY <1>4, <1>q DEF TypeOK, Append_Full, Posting, TokenHolders, Tokenless
  <2>2. UNCHANGED <<m_work_queue, m_queue_stat>>
    BY <1>4, <1>q DEF TypeOK, Append_Full
  <2>3. /\ Cardinality(Posting') = Cardinality(Posting)
        /\ Cardinality(TokenHolders') = Cardinality(TokenHolders)
        /\ Cardinality(Tokenless') = Cardinality(Tokenless)
    BY <1>f, <1>g, <2>1, CountOne
  <2> QED
    BY <1>f, <1>n, <2>2, <2>3 DEF NoStrandedRequest, NoTokenLeak, Credit
<1>5. ASSUME NEW c \in Callers, Append_Push(c)
      PROVE  SemInv'
  <2>1. c \notin Posting /\ Posting' = Posting \cup {c} /\ TokenHolders' = TokenHolders /\ Tokenless' = Tokenless
    BY <1>5, <1>q DEF TypeOK, Append_Push, Posting, TokenHolders, Tokenless
  <2>a. m_work_queue \in Seq(Requests) /\ callerArg[c].request \in Requests
    BY <1>5, <1>q DEF TypeOK, Append_Push, CallerGoes
  <2>b. m_work_queue' = Append(m_work_queue, callerArg[c].request) /\ UNCHANGED m_queue_stat
    BY <1>5 DEF Append_Push
  <2>2. Len(m_work_queue') = Len(m_work_queue) + 1 /\ UNCHANGED m_queue_stat
    BY <2>a, <2>b
  <2>3. /\ Cardinality(Posting') = Cardinality(Posting) + 1
        /\ Cardinality(TokenHolders') = Cardinality(TokenHolders)
        /\ Cardinality(Tokenless') = Cardinality(Tokenless)
    BY <1>f, <1>g, <2>1, CountOne
  <2> QED
    BY <1>a, <2>2, <2>3, Zenon DEF NoStrandedRequest, NoTokenLeak, Credit
<1>6. ASSUME NEW c \in Callers, Append_Post(c)
      PROVE  SemInv'
  <2>1. c \in Posting /\ Posting' = Posting \ {c} /\ TokenHolders' = TokenHolders /\ Tokenless' = Tokenless
    BY <1>6, <1>q DEF TypeOK, Append_Post, Posting, TokenHolders, Tokenless
  <2>2. m_queue_stat' = m_queue_stat + 1 /\ UNCHANGED m_work_queue
    BY <1>6, <1>q DEF TypeOK, Append_Post, SemPost
  <2>3. /\ Cardinality(Posting') = Cardinality(Posting) - 1
        /\ Cardinality(TokenHolders') = Cardinality(TokenHolders)
        /\ Cardinality(Tokenless') = Cardinality(Tokenless)
    BY <1>f, <1>g, <2>1, CountOne
  <2> QED
    BY <1>f, <1>n, <2>2, <2>3 DEF NoStrandedRequest, NoTokenLeak, Credit
<1>7. ASSUME NEW w \in Workers, Run_Wait(w)
      PROVE  SemInv'
  <2>1. /\ Posting' = Posting
        /\ w \notin TokenHolders /\ TokenHolders' = TokenHolders \cup {w}
        /\ Tokenless' = Tokenless \ {w}
    BY <1>7, <1>q DEF TypeOK, Run_Wait, Posting, TokenHolders, Tokenless
  <2>2. m_queue_stat' = m_queue_stat - 1 /\ UNCHANGED m_work_queue
    BY <1>7 DEF Run_Wait, SemWait
  <2>3. /\ Cardinality(TokenHolders') = Cardinality(TokenHolders) + 1
        /\ Cardinality(Posting') = Cardinality(Posting)
    BY <1>f, <1>g, <2>1, CountOne
  <2>4. Cardinality(Tokenless') <= Cardinality(Tokenless) /\ Cardinality(Tokenless') \in Nat
    BY <1>f, <1>g, <2>1, CountOne
  <2> QED
    BY <1>f, <1>n, <2>2, <2>3, <2>4, SMTT(30) DEF NoStrandedRequest, NoTokenLeak, Credit
<1>8. ASSUME NEW w \in Workers, Run_Sleep(w)
      PROVE  SemInv'
  <2>1. /\ Posting' = Posting /\ TokenHolders' = TokenHolders
        /\ w \notin Tokenless /\ Tokenless' = Tokenless \cup {w}
    BY <1>8, <1>q DEF TypeOK, Run_Sleep, Posting, TokenHolders, Tokenless
  <2>2. m_queue_stat = 0 /\ UNCHANGED <<m_work_queue, m_queue_stat>>
    BY <1>8 DEF Run_Sleep, SemBlock
  <2>3. /\ Cardinality(Tokenless') = Cardinality(Tokenless) + 1
        /\ Cardinality(Posting') = Cardinality(Posting)
        /\ Cardinality(TokenHolders') = Cardinality(TokenHolders)
    BY <1>f, <1>g, <2>1, CountOne
  <2>4. Cardinality(TokenHolders) + Cardinality(Tokenless) + 1 <= Cardinality(Workers)
    BY <1>8, <1>q, RoomForSleeper DEF Run_Sleep
  <2> QED
    BY <1>f, <1>n, <2>2, <2>3, <2>4 DEF NoStrandedRequest, NoTokenLeak, Credit
<1>9. ASSUME NEW w \in Workers, Run_Interrupted(w)
      PROVE  SemInv'
  <2>1. Posting' = Posting /\ TokenHolders' = TokenHolders /\ Tokenless' = Tokenless
    BY <1>9, <1>q DEF TypeOK, Run_Interrupted, Posting, TokenHolders, Tokenless
  <2>2. UNCHANGED <<m_work_queue, m_queue_stat>>
    BY <1>9, <1>q DEF TypeOK, Run_Interrupted
  <2>3. /\ Cardinality(Posting') = Cardinality(Posting)
        /\ Cardinality(TokenHolders') = Cardinality(TokenHolders)
        /\ Cardinality(Tokenless') = Cardinality(Tokenless)
    BY <1>f, <1>g, <2>1, CountOne
  <2> QED
    BY <1>f, <1>n, <2>2, <2>3 DEF NoStrandedRequest, NoTokenLeak, Credit
<1>10. ASSUME NEW w \in Workers, Run_Lock(w)
      PROVE  SemInv'
  <2>1. Posting' = Posting /\ TokenHolders' = TokenHolders /\ Tokenless' = Tokenless
    BY <1>10, <1>q DEF TypeOK, Run_Lock, Posting, TokenHolders, Tokenless
  <2>2. UNCHANGED <<m_work_queue, m_queue_stat>>
    BY <1>10, <1>q DEF TypeOK, Run_Lock
  <2>3. /\ Cardinality(Posting') = Cardinality(Posting)
        /\ Cardinality(TokenHolders') = Cardinality(TokenHolders)
        /\ Cardinality(Tokenless') = Cardinality(Tokenless)
    BY <1>f, <1>g, <2>1, CountOne
  <2> QED
    BY <1>f, <1>n, <2>2, <2>3 DEF NoStrandedRequest, NoTokenLeak, Credit
<1>11. ASSUME NEW w \in Workers, Run_Empty(w)
      PROVE  SemInv'
  <2>1. /\ Posting' = Posting
        /\ TokenHolders' = TokenHolders \ {w} /\ Tokenless' = Tokenless \ {w}
    BY <1>11, <1>q DEF TypeOK, Run_Empty, Posting, TokenHolders, Tokenless
  <2>2. Len(m_work_queue) = 0 /\ UNCHANGED <<m_work_queue, m_queue_stat>>
    BY <1>11 DEF Run_Empty
  <2>3. Cardinality(TokenHolders') \in Nat /\ Cardinality(TokenHolders') <= Cardinality(TokenHolders)
    BY <1>f, <1>g, <2>1, CountOne
  <2>4. Cardinality(Tokenless') \in Nat /\ Cardinality(Tokenless') <= Cardinality(Tokenless)
    BY <1>f, <1>g, <2>1, CountOne
  <2>5. Cardinality(Posting') = Cardinality(Posting)
    BY <2>1
  <2> QED
    BY <1>f, <1>n, <2>2, <2>3, <2>4, <2>5 DEF NoStrandedRequest, NoTokenLeak, Credit
<1>12. ASSUME NEW w \in Workers, Run_NotEmpty(w)
      PROVE  SemInv'
  <2>1. Posting' = Posting /\ TokenHolders' = TokenHolders /\ Tokenless' = Tokenless
    BY <1>12, <1>q DEF TypeOK, Run_NotEmpty, Posting, TokenHolders, Tokenless
  <2>2. UNCHANGED <<m_work_queue, m_queue_stat>>
    BY <1>12, <1>q DEF TypeOK, Run_NotEmpty
  <2>3. /\ Cardinality(Posting') = Cardinality(Posting)
        /\ Cardinality(TokenHolders') = Cardinality(TokenHolders)
        /\ Cardinality(Tokenless') = Cardinality(Tokenless)
    BY <1>f, <1>g, <2>1, CountOne
  <2> QED
    BY <1>f, <1>n, <2>2, <2>3 DEF NoStrandedRequest, NoTokenLeak, Credit
<1>13. ASSUME NEW w \in Workers, Run_Pop(w)
      PROVE  SemInv'
  <2>a. m_work_queue \in Seq(Requests) /\ m_work_queue # <<>>
    BY <1>13, <1>q DEF TypeOK, PopIsSafe, Run_Pop, WorkerGoes
  <2>b. m_work_queue' = Tail(m_work_queue) /\ UNCHANGED m_queue_stat
    BY <1>13 DEF Run_Pop
  <2>1. Len(m_work_queue') = Len(m_work_queue) - 1 /\ UNCHANGED m_queue_stat
    BY <2>a, <2>b
  <2>2. CASE waitResult[w]
    <3>1. /\ Posting' = Posting /\ Tokenless' = Tokenless
          /\ w \in TokenHolders /\ TokenHolders' = TokenHolders \ {w}
      BY <1>13, <1>q, <2>2 DEF TypeOK, Run_Pop, Posting, TokenHolders, Tokenless
    <3>2. /\ Cardinality(TokenHolders') = Cardinality(TokenHolders) - 1
          /\ Cardinality(Tokenless') = Cardinality(Tokenless)
          /\ Cardinality(Posting') = Cardinality(Posting)
      BY <1>f, <1>g, <3>1, CountOne
    <3> QED
      BY <1>a, <2>1, <3>2, Zenon DEF NoStrandedRequest, NoTokenLeak, Credit
  <2>3. CASE ~waitResult[w]
    <3>1. /\ Posting' = Posting /\ TokenHolders' = TokenHolders
          /\ w \in Tokenless /\ Tokenless' = Tokenless \ {w}
      BY <1>13, <1>q, <2>3 DEF TypeOK, Run_Pop, Posting, TokenHolders, Tokenless
    <3>2. /\ Cardinality(Tokenless') = Cardinality(Tokenless) - 1
          /\ Cardinality(TokenHolders') = Cardinality(TokenHolders)
          /\ Cardinality(Posting') = Cardinality(Posting)
      BY <1>f, <1>g, <3>1, CountOne
    <3> QED
      BY <1>a, <2>1, <3>2, Zenon DEF NoStrandedRequest, NoTokenLeak, Credit
  <2> QED
    BY <2>2, <2>3
<1>14. ASSUME NEW w \in Workers, Run_Serve(w)
      PROVE  SemInv'
  <2>1. Posting' = Posting /\ TokenHolders' = TokenHolders /\ Tokenless' = Tokenless
    BY <1>14, <1>q DEF TypeOK, Run_Serve, Posting, TokenHolders, Tokenless
  <2>2. UNCHANGED <<m_work_queue, m_queue_stat>>
    BY <1>14, <1>q DEF TypeOK, Run_Serve
  <2>3. /\ Cardinality(Posting') = Cardinality(Posting)
        /\ Cardinality(TokenHolders') = Cardinality(TokenHolders)
        /\ Cardinality(Tokenless') = Cardinality(Tokenless)
    BY <1>f, <1>g, <2>1, CountOne
  <2> QED
    BY <1>f, <1>n, <2>2, <2>3 DEF NoStrandedRequest, NoTokenLeak, Credit
<1>15. CASE UNCHANGED vars
  BY <1>15 DEF vars, NoStrandedRequest, NoTokenLeak, Credit, Posting, TokenHolders, Tokenless
<1> QED
  BY <1>1, <1>2, <1>3, <1>4, <1>5, <1>6, <1>7, <1>8, <1>9, <1>10, <1>11, <1>12,
     <1>13, <1>14, <1>15
     DEF Next, CallerStep, WorkerStep

\* Initially there is neither a request nor a unit of the semaphore.
LEMMA SemInvInit == Init => SemInv
<1> SUFFICES ASSUME Init PROVE SemInv
  OBVIOUS
<1>1. Posting = {} /\ TokenHolders = {} /\ Tokenless = {}
  BY DEF Init, Posting, TokenHolders, Tokenless
<1> QED
  BY <1>1, CountedSets, FS_EmptySet
     DEF Init, SemInv, NoStrandedRequest, NoTokenLeak, Credit

\* In every behaviour of the pool each queued request is covered by a unit of
\* the semaphore, so signals that interrupt workers never strand a request.
THEOREM NeverStranded == Spec => []NoStrandedRequest
<1>1. QueueInv /\ SemInv /\ [Next]_vars => (QueueInv /\ SemInv)'
  BY QueueInvStep, SemInvStep
<1> QED
  BY <1>1, QueueInvInit, SemInvInit, PTL DEF Spec, SemInv

\* The surplus of the semaphore over the queue never exceeds one unit per thread.
THEOREM NeverLeaks == Spec => []NoTokenLeak
<1>1. QueueInv /\ SemInv /\ [Next]_vars => (QueueInv /\ SemInv)'
  BY QueueInvStep, SemInvStep
<1> QED
  BY <1>1, QueueInvInit, SemInvInit, PTL DEF Spec, SemInv

-----------------------------------------------------------------------------
(* Refinement *)

\* The pool implements the safety part of WorkQueue: a push is an Accept, a pop
\* is a Take, the end of serving is a Finish and every other step stutters.
THEOREM RefinesWorkQueue == Spec => ImplementsWorkQueueSafely
<1>1. Init => WQ!Init
  BY DEF Init, WQ!Init
<1>2. QueueInv /\ [Next]_vars => [WQ!Next]_(WQ!vars)
  <2> SUFFICES ASSUME QueueInv, [Next]_vars PROVE [WQ!Next]_(WQ!vars)
    OBVIOUS
  <2> USE DEF QueueInv, CallerGoes, CallerReturns, WorkerGoes, queueVars, callerVars,
              workerVars, WQ!vars
  <2>1. ASSUME NEW c \in Callers, Append_Push(c)
        PROVE  WQ!Next
    <3>1. WQ!Accept(callerArg[c].request)
      BY <2>1 DEF Append_Push, WQ!Accept, LocalInv
    <3> QED
      BY <2>1, <3>1 DEF Append_Push, WQ!Next, TypeOK
  <2>2. ASSUME NEW w \in Workers, Run_Pop(w)
        PROVE  WQ!Next
    BY <2>2 DEF Run_Pop, WQ!Next, WQ!Take, LocalInv, PopIsSafe
  <2>3. ASSUME NEW w \in Workers, Run_Serve(w)
        PROVE  WQ!Next
    BY <2>3 DEF Run_Serve, WQ!Next, WQ!Finish, LocalInv
  <2>4. ASSUME NEW c \in Callers,
               \/ \E r \in Requests, s \in IoStates \cup {Keep} : Append_Call(c, r, s)
               \/ Append_Lock(c) \/ Append_Room(c) \/ Append_Full(c) \/ Append_Post(c)
        PROVE  UNCHANGED <<m_work_queue, request>>
    BY <2>4 DEF Append_Call, Append_Lock, Append_Room, Append_Full, Append_Post
  <2>5. ASSUME NEW w \in Workers,
               \/ Run_Wait(w) \/ Run_Sleep(w) \/ Run_Interrupted(w) \/ Run_Lock(w)
               \/ Run_Empty(w) \/ Run_NotEmpty(w)
        PROVE  UNCHANGED <<m_work_queue, request>>
    BY <2>5 DEF Run_Wait, Run_Sleep, Run_Interrupted, Run_Lock, Run_Empty, Run_NotEmpty
  <2>6. CASE UNCHANGED vars
    BY <2>6 DEF vars
  <2> QED
    BY <2>1, <2>2, <2>3, <2>4, <2>5, <2>6 DEF Next, CallerStep, WorkerStep
<1> QED
  BY <1>1, <1>2, QueueSafe, PTL DEF Spec, ImplementsWorkQueueSafely, WQ!Safety

-----------------------------------------------------------------------------
(* SizeClasses *)

RangeA(n) == 0 < n /\ n <= 128
RangeB(n) == 128 < n /\ n <= 256
RangeC(n) == 256 < n /\ n <= 512
RangeD(n) == 512 < n /\ n <= 1024
RangeE(n) == 1024 < n /\ n <= 2048
RangeF(n) == 2048 < n /\ n <= 4096

LEMMA FitsA == ASSUME NEW n \in Nat, RangeA(n) PROVE ClassFits(n)
<1>0. PICK a \in Int : a = 8 OBVIOUS
<1>1. PICK k \in Int : k = (n + a - 1) \div a BY <1>0
<1>2. 8 * k <= n + 8 - 1 /\ n + 8 - 1 < 8 * k + 8 BY <1>0, <1>1, Z3
<1>3. 0 < k /\ k <= 16 BY <1>2 DEF RangeA
<1>4. M_align(n) = a BY <1>0 DEF M_align, RangeA
<1>5. M_round_up(n) = k * a BY <1>1, <1>4, Zenon DEF M_round_up
<1>6. M_freelist_index(n) = k - 1 BY <1>0, <1>1 DEF M_freelist_index, RangeA
<1>8. BlockSize(k - 1) = k * 8
  <2>1. BlockSize(k - 1) = 8 * ((k - 1) + 1) BY <1>3 DEF BlockSize
  <2> QED BY <2>1
<1> QED BY <1>0, <1>2, <1>3, <1>5, <1>6, <1>8 DEF ClassFits, EFreeListsNumber

LEMMA FitsB == ASSUME NEW n \in Nat, RangeB(n) PROVE ClassFits(n)
<1>0. PICK a \in Int : a = 16 OBVIOUS
<1>1. PICK k \in Int : k = (n + a - 1) \div a BY <1>0
<1>2. 16 * k <= n + 16 - 1 /\ n + 16 - 1 < 16 * k + 16 BY <1>0, <1>1, Z3
<1>3. 8 < k /\ k <= 16 BY <1>2 DEF RangeB
<1>4. M_align(n) = a BY <1>0 DEF M_align, RangeB
<1>5. M_round_up(n) = k * a BY <1>1, <1>4, Zenon DEF M_round_up
<1>6. (n + 16 - 129) \div 16 = k - 8 BY <1>2, Z3
<1>7. M_freelist_index(n) = 15 + (k - 8) BY <1>6 DEF M_freelist_index, RangeB
<1>8. BlockSize(15 + (k - 8)) = k * 16
  <2>1. BlockSize(15 + (k - 8)) = 128 + 16 * ((15 + (k - 8)) - 15) BY <1>3 DEF BlockSize
  <2> QED BY <2>1
<1> QED BY <1>0, <1>2, <1>3, <1>5, <1>7, <1>8 DEF ClassFits, EFreeListsNumber

LEMMA FitsC == ASSUME NEW n \in Nat, RangeC(n) PROVE ClassFits(n)
<1>0. PICK a \in Int : a = 32 OBVIOUS
<1>1. PICK k \in Int : k = (n + a - 1) \div a BY <1>0
<1>2. 32 * k <= n + 32 - 1 /\ n + 32 - 1 < 32 * k + 32 BY <1>0, <1>1, Z3
<1>3. 8 < k /\ k <= 16 BY <1>2 DEF RangeC
<1>4. M_align(n) = a BY <1>0 DEF M_align, RangeC
<1>5. M_round_up(n) = k * a BY <1>1, <1>4, Zenon DEF M_round_up
<1>6. (n + 32 - 257) \div 32 = k - 8 BY <1>2, Z3
<1>7. M_freelist_index(n) = 23 + (k - 8) BY <1>6 DEF M_freelist_index, RangeC
<1>8. BlockSize(23 + (k - 8)) = k * 32
  <2>1. BlockSize(23 + (k - 8)) = 256 + 32 * ((23 + (k - 8)) - 23) BY <1>3 DEF BlockSize
  <2> QED BY <2>1
<1> QED BY <1>0, <1>2, <1>3, <1>5, <1>7, <1>8 DEF ClassFits, EFreeListsNumber

LEMMA FitsD == ASSUME NEW n \in Nat, RangeD(n) PROVE ClassFits(n)
<1>0. PICK a \in Int : a = 64 OBVIOUS
<1>1. PICK k \in Int : k = (n + a - 1) \div a BY <1>0
<1>2. 64 * k <= n + 64 - 1 /\ n + 64 - 1 < 64 * k + 64 BY <1>0, <1>1, Z3
<1>3. 8 < k /\ k <= 16 BY <1>2 DEF RangeD
<1>4. M_align(n) = a BY <1>0 DEF M_align, RangeD
<1>5. M_round_up(n) = k * a BY <1>1, <1>4, Zenon DEF M_round_up
<1>6. (n + 64 - 513) \div 64 = k - 8 BY <1>2, Z3
<1>7. M_freelist_index(n) = 31 + (k - 8) BY <1>6 DEF M_freelist_index, RangeD
<1>8. BlockSize(31 + (k - 8)) = k * 64
  <2>1. BlockSize(31 + (k - 8)) = 512 + 64 * ((31 + (k - 8)) - 31) BY <1>3 DEF BlockSize
  <2> QED BY <2>1
<1> QED BY <1>0, <1>2, <1>3, <1>5, <1>7, <1>8 DEF ClassFits, EFreeListsNumber

LEMMA FitsE == ASSUME NEW n \in Nat, RangeE(n) PROVE ClassFits(n)
<1>0. PICK a \in Int : a = 128 OBVIOUS
<1>1. PICK k \in Int : k = (n + a - 1) \div a BY <1>0
<1>2. 128 * k <= n + 128 - 1 /\ n + 128 - 1 < 128 * k + 128 BY <1>0, <1>1, Z3
<1>3. 8 < k /\ k <= 16 BY <1>2 DEF RangeE
<1>4. M_align(n) = a BY <1>0 DEF M_align, RangeE
<1>5. M_round_up(n) = k * a BY <1>1, <1>4, Zenon DEF M_round_up
<1>6. (n + 128 - 1025) \div 128 = k - 8 BY <1>2, Z3
<1>7. M_freelist_index(n) = 39 + (k - 8) BY <1>6 DEF M_freelist_index, RangeE
<1>8. BlockSize(39 + (k - 8)) = k * 128
  <2>1. BlockSize(39 + (k - 8)) = 1024 + 128 * ((39 + (k - 8)) - 39) BY <1>3 DEF BlockSize
  <2> QED BY <2>1
<1> QED BY <1>0, <1>2, <1>3, <1>5, <1>7, <1>8 DEF ClassFits, EFreeListsNumber

LEMMA FitsF == ASSUME NEW n \in Nat, RangeF(n) PROVE ClassFits(n)
<1>0. PICK a \in Int : a = 256 OBVIOUS
<1>1. PICK k \in Int : k = (n + a - 1) \div a BY <1>0
<1>2. 256 * k <= n + 256 - 1 /\ n + 256 - 1 < 256 * k + 256 BY <1>0, <1>1, Z3
<1>3. 8 < k /\ k <= 16 BY <1>2 DEF RangeF
<1>4. M_align(n) = a BY <1>0 DEF M_align, RangeF
<1>5. M_round_up(n) = k * a BY <1>1, <1>4, Zenon DEF M_round_up
<1>6. (n + 256 - 2049) \div 256 = k - 8 BY <1>2, Z3
<1>7. M_freelist_index(n) = 47 + (k - 8) BY <1>6 DEF M_freelist_index, RangeF
<1>8. BlockSize(47 + (k - 8)) = k * 256
  <2>1. BlockSize(47 + (k - 8)) = 2048 + 256 * ((47 + (k - 8)) - 47) BY <1>3 DEF BlockSize
  <2> QED BY <2>1
<1> QED BY <1>0, <1>2, <1>3, <1>5, <1>7, <1>8 DEF ClassFits, EFreeListsNumber

LEMMA AllFit == ASSUME NEW n \in Sizes PROVE ClassFits(n)
<1>1. n \in Nat BY SizeAssumption DEF Sizes
<1>2. RangeA(n) \/ RangeB(n) \/ RangeC(n) \/ RangeD(n) \/ RangeE(n) \/ RangeF(n)
  BY SizeAssumption DEF Sizes, RangeA, RangeB, RangeC, RangeD, RangeE, RangeF
<1> QED BY <1>1, <1>2, FitsA, FitsB, FitsC, FitsD, FitsE, FitsF

\* Whatever the sizes, a block obtained from the list of m bytes, or given back to
\* it, is large enough for every n that M_freelist_index sends to the same list.
THEOREM OneSizePerList ==
    ASSUME NEW m \in Sizes, NEW n \in Sizes, M_freelist_index(m) = M_freelist_index(n)
    PROVE  M_round_up(m) = M_round_up(n) /\ n <= M_round_up(m)
<1>1. ClassFits(m) /\ ClassFits(n) BY AllFit
<1> QED BY <1>1 DEF ClassFits

\* Every request finds a list, and blocks of its own size there.
THEOREM EverySizeFits == SizeInit /\ [][SizeNext]_bytes => []SizeClassFits
<1> DEFINE Inv == bytes \in Sizes
<1>1. SizeInit => Inv BY SizeAssumption DEF SizeInit, Sizes
<1>2. Inv /\ [SizeNext]_bytes => Inv' BY SizeAssumption DEF SizeNext, Sizes
<1>3. Inv => SizeClassFits BY AllFit DEF SizeClassFits
<1> QED BY <1>1, <1>2, <1>3, PTL

=============================================================================
