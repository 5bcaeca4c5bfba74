------------------------- MODULE ConnectionService -------------------------
(***************************************************************************)
(* What the event loop owes each client, without descriptors, epoll, map   *)
(* or mutexes: a connection is admitted once; from then on at most one     *)
(* thread serves it at a time, a thread that has a whole request in hand   *)
(* answers it once or strands the client, and lets go of the connection    *)
(* with nothing unanswered.  A stranded or closed connection is never      *)
(* served again.                                                           *)
(***************************************************************************)
EXTENDS Integers

CONSTANTS Clients, Threads

VARIABLES
    up,         \* the server process runs
    status,     \* of each client: "away", "queued", "open", "stranded", "closed"
    servers,    \* the threads that serve each client
    unanswered  \* each client's whole request, received and not yet answered

state == <<up, status, servers, unanswered>>

Init ==
    /\ up = TRUE
    /\ status = [c \in Clients |-> "away"]
    /\ servers = [c \in Clients |-> {}]
    /\ unanswered = [c \in Clients |-> FALSE]

\* The client's connection comes in, and is admitted.
Queue(c) ==
    /\ status[c] = "away"
    /\ status' = [status EXCEPT ![c] = "queued"]
    /\ UNCHANGED <<servers, unanswered>>

Admit(c) ==
    /\ status[c] = "queued"
    /\ status' = [status EXCEPT ![c] = "open"]
    /\ UNCHANGED <<servers, unanswered>>

\* One thread, and no second one, turns to the connection.
Take(t, c) ==
    /\ status[c] = "open"
    /\ servers[c] = {}
    /\ ~unanswered[c]
    /\ servers' = [servers EXCEPT ![c] = {t}]
    /\ UNCHANGED <<status, unanswered>>

\* The request is whole; it is answered once.
Receive(t, c) ==
    /\ servers[c] = {t}
    /\ ~unanswered[c]
    /\ unanswered' = [unanswered EXCEPT ![c] = TRUE]
    /\ UNCHANGED <<status, servers>>

Answer(t, c) ==
    /\ servers[c] = {t}
    /\ unanswered[c]
    /\ unanswered' = [unanswered EXCEPT ![c] = FALSE]
    /\ UNCHANGED <<status, servers>>

\* The thread is done with the connection, which stays open or is closed.
Release(t, c) ==
    /\ servers[c] = {t}
    /\ ~unanswered[c]
    /\ servers' = [servers EXCEPT ![c] = {}]
    /\ \/ UNCHANGED status
       \/ status' = [status EXCEPT ![c] = "closed"]
    /\ UNCHANGED unanswered

\* Something went wrong: the connection stays open and is never served again.
Strand(t, c) ==
    /\ servers[c] = {t}
    /\ servers' = [servers EXCEPT ![c] = {}]
    /\ status' = [status EXCEPT ![c] = "stranded"]
    /\ UNCHANGED unanswered

Stop == up' = FALSE /\ UNCHANGED <<status, servers, unanswered>>

Finish(t, c) == Release(t, c) \/ Strand(t, c)

Serve(t, c) == Take(t, c) \/ Receive(t, c) \/ Answer(t, c) \/ Finish(t, c)

Next ==
    /\ up
    /\ \/ Stop
       \/ /\ UNCHANGED up
          /\ \E c \in Clients : Queue(c) \/ Admit(c) \/ \E t \in Threads : Serve(t, c)

Spec == Init /\ [][Next]_state
============================================================================
