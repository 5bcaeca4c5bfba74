------------------------------ MODULE Startup ------------------------------
(***************************************************************************)
(* How main() divides the processors between threads that serve requests   *)
(* and threads that watch sessions.  All numbers are unsigned int; main()  *)
(* itself serves, too, beside the threads of its pool.                     *)
(***************************************************************************)
EXTENDS Integers

Width == 65536 * 65536

Unsigned == 0..(Width - 1)

\* server_workers as it is initialised: the subtraction wraps around.
InitialServerWorkers(hardware_concurrency) == (hardware_concurrency - 1 - 2) % Width

\* session_workers and server_workers, after the test for less than one.
ThreadCounts(hardware_concurrency) ==
    IF InitialServerWorkers(hardware_concurrency) < 1
      THEN [session_workers |-> 1, server_workers |-> 0]
      ELSE [session_workers |-> 2,
            server_workers |-> InitialServerWorkers(hardware_concurrency)]
=============================================================================
