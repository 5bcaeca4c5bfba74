---------------------------- MODULE MCEventLoop ----------------------------
(***************************************************************************)
(* Small instances of EventLoop.  Threads, clients, descriptors and map    *)
(* nodes are interchangeable: no action or invariant names one of them.    *)
(***************************************************************************)
EXTENDS EventLoopService, TLC

CONSTANTS t1, t2, t3, c1, c2, f1, f2, n1, n2

Symmetry == Permutations(Threads) \cup Permutations(Clients)
                \cup Permutations(Fds) \cup Permutations(Nodes)
=============================================================================
