----------------------------- MODULE MCPrograms -----------------------------
(***************************************************************************)
(* The instance for TLC of the components that are checked side by side:   *)
(* each behaviour runs one of them, the others rest in an initial state.   *)
(***************************************************************************)
EXTENDS RbTree, SplayTree, NtyQueue, LRUCache, SharedPtr, SizeClasses, HttpConn, UserTable,
        VideoTool, EchoServers, ConcurrentSum

VARIABLE prog

\* Two elements have the same key.
MCElements == 1 .. 8
MCKey == [n \in MCElements |-> IF n = 8 THEN 4 ELSE n]

CRLF == <<"CR", "LF">>
Get(t) == <<"GET", t>> \o CRLF \o CRLF
MCStreams ==
    {Get(t) : t \in {"big", "dir", "empty", "root"}}
    \cup {<<"GET", "file", "CR", "GET">>,
          <<"POSE", "cgi">> \o CRLF \o <<"Content-length: 2">> \o CRLF \o CRLF
              \o <<"user", "password">>}

\* Reactor and proactor, LT and ET, both builds; not each combination of the three.
MCHow == {[build |-> "-g", trig |-> 0, actor |-> 1], [build |-> "-g", trig |-> 1, actor |-> 0],
          [build |-> "-O2", trig |-> 0, actor |-> 0]}

MCTyped ==
    {<<"exit">>, <<>>, <<"cut", "-p", "k">>,
     <<"cv", "-s", "dir", "-d", "out">>,
     <<"cv", "-s", "short", "-d", "out", "-p", "-b", "5", "-e", "8">>,
     <<"play", "-s", "long", "-s", "short", "-dp", "k">>,
     <<"cv", "-e", "5", "-s">>,
     <<"cv", "-p", "k", "-dp", "-s", "long", "-d", "out">>}
MCFolder == [p \in {"dir"} |-> <<"short", "long">>]
MCSeconds == [f \in {"short", "long"} |-> IF f = "short" THEN 4 ELSE 10]
MCNumber == [w \in {"5", "8"} |-> IF w = "5" THEN 5 ELSE 8]

treeVars == <<rbVars, spVars>>
libVars == <<qVars, lruVars, ptrVars, bytes>>
webVars == <<httpVars, userVars>>
toolVars == <<videoVars, netVars, sumVars>>

Init ==
    /\ prog \in {"rb", "splay", "queue", "lru", "ptr", "size", "http", "user", "video", "net",
                "sum"}
    /\ RbInit /\ SpInit /\ QInit /\ LRUInit /\ PtrInit /\ SizeInit /\ HttpInit /\ UserInit
    /\ VideoInit /\ NetInit /\ SumInit
    /\ prog # "queue" => qkind = "SLIST"
    /\ prog # "lru" => capacity = 1
    /\ IF prog = "http" THEN how \in MCHow
       ELSE how = [build |-> "-g", trig |-> 0, actor |-> 0]
    /\ prog # "user" => form = [w \in Workers |-> CHOOSE f \in Names \X Passwords : TRUE]
    /\ prog # "video" => vkind = "video"
    /\ prog # "net" => netKind = "mp"
    /\ prog # "sum" => task = [maxV |-> Max(MaxVs), count |-> Max(Counts)]

Next ==
    /\ UNCHANGED prog
    /\ \/ prog = "rb" /\ RbNext /\ UNCHANGED <<spVars, libVars, webVars, toolVars>>
       \/ prog = "splay" /\ SpNext /\ UNCHANGED <<rbVars, libVars, webVars, toolVars>>
       \/ prog = "queue" /\ QNext
            /\ UNCHANGED <<treeVars, lruVars, ptrVars, bytes, webVars, toolVars>>
       \/ prog = "lru" /\ LRUNext
            /\ UNCHANGED <<treeVars, qVars, ptrVars, bytes, webVars, toolVars>>
       \/ prog = "ptr" /\ PtrNext
            /\ UNCHANGED <<treeVars, qVars, lruVars, bytes, webVars, toolVars>>
       \/ prog = "size" /\ SizeNext
            /\ UNCHANGED <<treeVars, qVars, lruVars, ptrVars, webVars, toolVars>>
       \/ prog = "http" /\ HttpNext /\ UNCHANGED <<treeVars, libVars, userVars, toolVars>>
       \/ prog = "user" /\ UserNext /\ UNCHANGED <<treeVars, libVars, httpVars, toolVars>>
       \/ prog = "video" /\ VideoNext /\ UNCHANGED <<treeVars, libVars, webVars, netVars, sumVars>>
       \/ prog = "net" /\ NetNext /\ UNCHANGED <<treeVars, libVars, webVars, videoVars, sumVars>>
       \/ prog = "sum" /\ SumNext /\ UNCHANGED <<treeVars, libVars, webVars, videoVars, netVars>>

\* A component that rests has no step to be fair to.
Spec ==
    /\ Init /\ [][Next]_<<prog, treeVars, libVars, webVars, toolVars>>
    /\ VideoFairness /\ NetFairness
=============================================================================
