----------------------------- MODULE WorkQueue ------------------------------
(***************************************************************************)
(* What the thread pool of TinyWebServer/threadpool promises its callers:  *)
(* a bounded first-in first-out queue of requests from which idle workers  *)
(* take one request each and serve it.  There is no lock, no semaphore and *)
(* no signal here; ThreadPool is shown to implement this specification.    *)
(***************************************************************************)
EXTENDS Naturals, Sequences

CONSTANTS Workers, Requests, MaxRequests, NoRequest

VARIABLES pending,   \* the accepted requests that no worker has taken yet
          serving    \* the request each worker serves, or NoRequest

vars == <<pending, serving>>

Init == /\ pending = <<>>
        /\ serving = [w \in Workers |-> NoRequest]

Accept(r) == /\ Len(pending) < MaxRequests
             /\ pending' = Append(pending, r)
             /\ UNCHANGED serving

Take(w) == /\ serving[w] = NoRequest
           /\ pending # <<>>
           /\ serving' = [serving EXCEPT ![w] = Head(pending)]
           /\ pending' = Tail(pending)

Finish(w) == /\ serving[w] # NoRequest
             /\ serving' = [serving EXCEPT ![w] = NoRequest]
             /\ UNCHANGED pending

Next == \/ \E r \in Requests : Accept(r)
        \/ \E w \in Workers : Take(w) \/ Finish(w)

Safety == Init /\ [][Next]_vars

\* A request does not wait while a worker is idle, and serving ends.
Fairness == /\ WF_vars(\E w \in Workers : Take(w))
            /\ \A w \in Workers : WF_vars(Finish(w))

Spec == Safety /\ Fairness
=============================================================================
