-------------------------- MODULE EventLoopService --------------------------
(***************************************************************************)
(* The event loop implements ConnectionService: the mapping from sockets,  *)
(* epoll's entries, map nodes and program counters to what a client sees.  *)
(***************************************************************************)
EXTENDS EventLoop

\* The descriptors through which client c is connected (at most one).
SocketsOf(c) == {f \in Fds : socket[f] = c}

ServersOf(c) == {t \in Threads : \E f \in SocketsOf(c) : Handling(t, f)}

StatusOf(c) ==
    CASE c \in abandoned                      -> "stranded"
      [] c \notin abandoned /\ peer[c] = "idle"  -> "away"
      [] OTHER ->
            IF \E i \in DOMAIN backlog : backlog[i] = c THEN "queued"
            ELSE IF SocketsOf(c) = {} THEN "closed"
            ELSE IF \E t \in Threads : pc[t] = "add" /\ incoming[t] \in SocketsOf(c)
                 THEN "queued" ELSE "open"

\* A request is ready in the Connection and clear_message() was not called.
Unanswered(c) ==
    \E f \in SocketsOf(c) :
        connections[f] # NoNode /\ message[connections[f]] = "ready"

Service == INSTANCE ConnectionService WITH
    up         <- process = "running",
    status     <- [c \in Clients |-> StatusOf(c)],
    servers    <- [c \in Clients |-> ServersOf(c)],
    unanswered <- [c \in Clients |-> Unanswered(c)]

\* Every step of serve(), of a client and of the signal handler is a step of
\* the abstract service or invisible to it, whatever descriptors and map nodes
\* are reused: one thread per connection, one answer per request, and no
\* connection is let go of with a request unanswered, except by an exception.
ServiceImplemented == Service!Spec
=============================================================================
