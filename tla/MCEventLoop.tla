----------------------------- MODULE MCEventLoop ----------------------------
(* The instance of EventLoop for TLC: the ways to build and start the server. *)
EXTENDS EventLoop

Mode(b, a, l, n, m) == [build |-> b, actor |-> a, listen |-> l, threads |-> n, fds |-> m]

\* In proactor mode the steps of the -O2 build include those of the -g build.
MCModes == {Mode("-g", 1, 1, 1, 2), Mode("-O2", 0, 0, 1, 2), Mode("-O2", 1, 0, 1, 2),
            Mode("-O2", 0, 1, 2, 1)}
=============================================================================
