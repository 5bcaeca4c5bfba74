----------------------------- MODULE EventLoop -----------------------------
(***************************************************************************)
(* The RTSP event loop of class Server: the threads that run               *)
(* Server::serve() on one epoll instance, the listening socket, the        *)
(* accepted sockets and the map Server::connections, together with the     *)
(* SIGINT handler of main.cpp, the end of main(), and exit() on an error.  *)
(*                                                                         *)
(* A step is one system call of serve(), one critical section on the map   *)
(* or one operation on a Connection's mutex; between two steps any other   *)
(* thread, client or signal may act.  What a request says is abstracted    *)
(* to what the loop tells apart: a chunk of bytes leaves the request       *)
(* incomplete ("part"), completes it ("end") or makes the parser throw     *)
(* ("bad").                                                                *)
(***************************************************************************)
EXTENDS Integers, Sequences, FiniteSets

CONSTANTS
    Threads,    \* threads that run Server::serve(), the main thread included
    Clients,    \* TCP peers; each one connects at most once
    Fds,        \* descriptor numbers accept() can return (RLIMIT_NOFILE)
    Nodes,      \* addresses a node of Server::connections can be allocated at
    Chunks,     \* what a chunk of bytes can be to the parser
    MaxChunks,  \* bound: chunks all clients together send
    NoThread, NoClient, NoNode, NoFd

ASSUME ThreadsAssumption == IsFiniteSet(Threads) /\ NoThread \notin Threads
ASSUME ClientsAssumption == NoClient \notin Clients
ASSUME FdsAssumption == NoFd \notin Fds
ASSUME NodesAssumption == NoNode \notin Nodes
ASSUME ChunksAssumption ==
    Chunks \subseteq {"part", "end", "bad"} /\ MaxChunks \in Nat

VARIABLES
    phase,          \* "starting" until Server::listen() is through, or "failed"
    process,        \* "running", "exited" (exit(), SIGPIPE, abort) or "finished"
    interrupted,    \* interrupt_fd is readable; nobody ever reads it
    is_live,        \* Session::is_live
    watching,       \* a session worker is still in Group::watch_streams()
    backlog,        \* accept queue of listener_socket
    listenerReady,  \* listener_socket is on epoll's ready list (EPOLLET)
    peer,           \* what each client has done with its socket
    inbox,          \* chunks in each client's receive queue on the server
    sent,           \* chunks sent so far
    socket,         \* which client's socket a descriptor refers to
    interest,       \* epoll's entry of a descriptor (EPOLLONESHOT)
    connections,    \* Server::connections: the map's node of a descriptor
    address,        \* Connection::socket_address in the node
    message,        \* progress of Connection::request in the node
    holder,         \* owner of Connection::mutex in the node
    pc,             \* where each thread is in serve(), or that it is in exit()
    incoming,       \* serve()'s incoming.data.fd, or the descriptor it accepted
    conn,           \* the node serve()'s iterator c refers to
    abandoned       \* clients whose handling ended in an exception (history)

vars == <<phase, process, interrupted, is_live, watching, backlog,
          listenerReady, peer, inbox, sent, socket, interest, connections,
          address, message, holder, pc, incoming, conn, abandoned>>

PcStates == {"wait", "accept", "add", "insert", "find", "lock", "recv",
             "dispatch", "send", "rearm", "unlock", "del", "erase", "exit",
             "done"}

TypeOK ==
    /\ phase \in {"starting", "serving", "failed"}
    /\ process \in {"running", "exited", "finished"}
    /\ interrupted \in BOOLEAN
    /\ is_live \in BOOLEAN
    /\ watching \in BOOLEAN
    /\ backlog \in Seq(Clients)
    /\ listenerReady \in BOOLEAN
    /\ peer \in [Clients -> {"idle", "open", "closed", "reset"}]
    /\ inbox \in [Clients -> Seq(Chunks)]
    /\ sent \in 0..MaxChunks
    /\ socket \in [Fds -> Clients \cup {NoClient}]
    /\ interest \in [Fds -> {"none", "armed", "disarmed"}]
    /\ connections \in [Fds -> Nodes \cup {NoNode}]
    /\ address \in [Nodes -> Clients \cup {NoClient}]
    /\ message \in [Nodes -> {"empty", "partial", "ready"}]
    /\ holder \in [Nodes -> Threads \cup {NoThread}]
    /\ pc \in [Threads -> PcStates]
    /\ incoming \in [Threads -> Fds \cup {NoFd}]
    /\ conn \in [Threads -> Nodes \cup {NoNode}]
    /\ abandoned \subseteq Clients

(***************************************************************************)
(* Helper state formulae.                                                  *)
(***************************************************************************)

\* A thread has taken an event of descriptor f and has neither re-armed it
\* nor closed it yet; a thread that an error of recv() or send() has led into
\* exit() never does.
Handling(t, f) ==
    /\ incoming[t] = f
    /\ pc[t] \in {"find", "lock", "recv", "dispatch", "send", "rearm", "del",
                  "erase", "exit"}

\* Level of EPOLLIN on an accepted socket: data, end of file or an error.
Readable(f) ==
    /\ socket[f] \in Clients
    /\ inbox[socket[f]] # <<>> \/ peer[socket[f]] \in {"closed", "reset"}

\* The map holds a Connection constructed at address n.
Allocated(n) == \E f \in Fds : connections[f] = n

\* Mutant of Parse: the parser stops at the decisive chunk without a verdict.
ParseWithoutVerdict(m, chunks) ==
    LET decisive == SelectSeq(chunks, LAMBDA k : k # "part")
    IN  IF m = "ready" \/ decisive = <<>> THEN "partial" ELSE decisive[1]

\* RTSPRequest::parse_request() on the bytes received so far: the first chunk
\* that is not "part" decides; a request that is ready is not parsed again.
Parse(m, chunks) ==
    LET decisive == SelectSeq(chunks, LAMBDA k : k # "part")
    IN  CASE m = "ready"             -> "ready"
          [] m # "ready" /\ decisive = <<>>  -> "partial"
          [] OTHER -> IF decisive[1] = "end" THEN "ready" ELSE "throw"

(***************************************************************************)
(* The clients and the network, seen through the kernel.                   *)
(***************************************************************************)

environment == <<peer, inbox, sent, backlog, listenerReady>>
server == <<socket, interest, connections, address, message, holder, pc,
            incoming, conn, abandoned>>
control == <<phase, process, interrupted, is_live, watching>>

\* A connection completes its handshake: it joins the accept queue and, the
\* listener being edge-triggered, (re)enters the ready list.
Connect(c) ==
    /\ phase = "serving"
    /\ peer[c] = "idle"
    /\ peer' = [peer EXCEPT ![c] = "open"]
    /\ backlog' = Append(backlog, c)
    /\ listenerReady' = TRUE
    /\ UNCHANGED <<inbox, sent, server, control>>

\* Bytes of a request arrive, before or after the connection is accepted.
SendChunk(c, k) ==
    /\ peer[c] = "open"
    /\ sent < MaxChunks
    /\ sent' = sent + 1
    /\ inbox' = [inbox EXCEPT ![c] = Append(@, k)]
    /\ UNCHANGED <<peer, backlog, listenerReady, server, control>>

\* The client closes its end.
Close(c) ==
    /\ peer[c] = "open"
    /\ peer' = [peer EXCEPT ![c] = "closed"]
    /\ UNCHANGED <<inbox, sent, backlog, listenerReady, server, control>>

\* A reset arrives; what was queued before it can still be received.
Reset(c) ==
    /\ peer[c] \in {"open", "closed"}
    /\ peer' = [peer EXCEPT ![c] = "reset"]
    /\ UNCHANGED <<inbox, sent, backlog, listenerReady, server, control>>

(***************************************************************************)
(* Server::listen(), the SIGINT handler and the end of the process.        *)
(***************************************************************************)

\* Server::listen(): eventfd, listener, epoll instance; a failing call leads
\* the main thread into exit(EXIT_FAILURE).
Listen ==
    /\ phase = "starting"
    /\ phase' \in {"serving", "failed"}
    /\ UNCHANGED <<process, interrupted, is_live, watching, environment, server>>

\* interrupt_handler() while interrupt_fd is 0 or listen() has failed: the
\* write goes to standard input.  It is lost; or it fails, and the handler
\* calls exit(): on the main thread, which then waits for the session workers,
\* or with no worker to wait for, or on a worker, which would have to join
\* itself and aborts the process.
SignalBeforeListen ==
    /\ phase \in {"starting", "failed"}
    /\ \/ is_live' = FALSE /\ UNCHANGED <<phase, process>>
       \/ phase' = "failed" /\ UNCHANGED <<is_live, process>>
       \/ process' = "exited" /\ UNCHANGED <<phase, is_live>>
    /\ UNCHANGED <<interrupted, watching, environment, server>>

\* interrupt_handler() on a thread that is not in epoll_wait() or in send().
Signal ==
    /\ phase = "serving"
    /\ interrupted' = TRUE
    /\ is_live' = FALSE
    /\ UNCHANGED <<phase, process, watching, environment, server>>

\* interrupt_handler() on a thread blocked in epoll_wait(), which then fails
\* with EINTR: serve() calls Session::shutdown() and returns.
SignalInEpollWait(t) ==
    /\ phase = "serving"
    /\ pc[t] = "wait"
    /\ interrupted' = TRUE
    /\ is_live' = FALSE
    /\ pc' = [pc EXCEPT ![t] = "done"]
    /\ UNCHANGED <<phase, process, watching, environment, socket, interest,
                   connections, address, message, holder, incoming, conn, abandoned>>

\* interrupt_handler() on a thread blocked in send(), which then fails with
\* EINTR: HANDLE_INT_RESULT calls exit().
SignalInSend(t) ==
    /\ phase = "serving"
    /\ pc[t] = "send"
    /\ interrupted' = TRUE
    /\ is_live' = FALSE
    /\ pc' = [pc EXCEPT ![t] = "exit"]
    /\ UNCHANGED <<phase, process, watching, environment, socket, interest,
                   connections, address, message, holder, incoming, conn, abandoned>>

\* The session workers return, which they do once is_live is false: each of
\* them when its pass over the sessions ends, if it ever ends.
StopWatching ==
    /\ watching
    /\ ~is_live
    /\ watching' = FALSE
    /\ UNCHANGED <<phase, process, interrupted, is_live, environment, server>>

\* The end of main(): it joins the server threads, and exit() destroys the
\* static thread_pool of Session::watch_streams(), joining the workers.
MainReturns ==
    /\ phase = "serving"
    /\ \A t \in Threads : pc[t] = "done"
    /\ ~watching
    /\ process' = "finished"
    /\ UNCHANGED <<phase, interrupted, is_live, watching, environment, server>>

\* exit() after an error joins the workers as well, on whichever thread it was
\* called; nothing tells them to return, and the other threads go on.
ExitCompletes ==
    /\ phase = "failed" \/ \E t \in Threads : pc[t] = "exit"
    /\ ~watching
    /\ process' = "exited"
    /\ UNCHANGED <<phase, interrupted, is_live, watching, environment, server>>

\* A second call of exit() while the first one waits is undefined: it waits,
\* or it runs what the first one has left and ends the process.
ExitAgain ==
    /\ \E t, u \in Threads : t # u /\ pc[t] = "exit" /\ pc[u] = "exit"
    /\ process' = "exited"
    /\ UNCHANGED <<phase, interrupted, is_live, watching, environment, server>>

(***************************************************************************)
(* Server::serve(): taking an event.                                       *)
(***************************************************************************)

\* Mutant of TakeInterrupt: the first thread drains the eventfd.
DrainInterrupt(t) ==
    /\ pc[t] = "wait"
    /\ interrupted
    /\ interrupted' = FALSE
    /\ pc' = [pc EXCEPT ![t] = "done"]
    /\ UNCHANGED <<phase, process, is_live, watching, environment, socket,
                   interest, connections, address, message, holder, incoming,
                   conn, abandoned>>

\* interrupt_fd is level-triggered and never read: every thread sees it.
TakeInterrupt(t) ==
    /\ pc[t] = "wait"
    /\ interrupted
    /\ pc' = [pc EXCEPT ![t] = "done"]
    /\ UNCHANGED <<control, environment, socket, interest, connections, address,
                   message, holder, incoming, conn, abandoned>>

\* Mutant of TakeListener: the listener is added without EPOLLET.
TakeListenerLevel(t) ==
    /\ pc[t] = "wait"
    /\ backlog # <<>>
    /\ pc' = [pc EXCEPT ![t] = "accept"]
    /\ UNCHANGED <<control, environment, socket, interest, connections, address,
                   message, holder, incoming, conn, abandoned>>

\* An edge of the listener is delivered to one thread only.
TakeListener(t) ==
    /\ pc[t] = "wait"
    /\ listenerReady
    /\ backlog # <<>>
    /\ listenerReady' = FALSE
    /\ pc' = [pc EXCEPT ![t] = "accept"]
    /\ UNCHANGED <<control, peer, inbox, sent, backlog, socket, interest,
                   connections, address, message, holder, incoming, conn,
                   abandoned>>

\* Mutant of TakeSocket: the socket is added without EPOLLONESHOT.
TakeSocketAgain(t, f) ==
    /\ pc[t] = "wait"
    /\ interest[f] = "armed"
    /\ Readable(f)
    /\ incoming' = [incoming EXCEPT ![t] = f]
    /\ pc' = [pc EXCEPT ![t] = "find"]
    /\ UNCHANGED <<control, environment, socket, interest, connections, address,
                   message, holder, conn, abandoned>>

\* An event of an accepted socket disarms it (EPOLLONESHOT).
TakeSocket(t, f) ==
    /\ pc[t] = "wait"
    /\ interest[f] = "armed"
    /\ Readable(f)
    /\ interest' = [interest EXCEPT ![f] = "disarmed"]
    /\ incoming' = [incoming EXCEPT ![t] = f]
    /\ pc' = [pc EXCEPT ![t] = "find"]
    /\ UNCHANGED <<control, environment, socket, connections, address, message,
                   holder, conn, abandoned>>

(***************************************************************************)
(* Server::serve(): a new connection.                                      *)
(***************************************************************************)

\* accept() on a blocking socket: it waits while the queue is empty.
Accept(t, f) ==
    /\ pc[t] = "accept"
    /\ backlog # <<>>
    /\ socket[f] = NoClient
    /\ socket' = [socket EXCEPT ![f] = Head(backlog)]
    /\ backlog' = Tail(backlog)
    /\ incoming' = [incoming EXCEPT ![t] = f]
    /\ pc' = [pc EXCEPT ![t] = "add"]
    /\ UNCHANGED <<control, peer, inbox, sent, listenerReady, interest,
                   connections, address, message, holder, conn, abandoned>>

\* accept() fails because no descriptor is left; the thread leaves serve().
AcceptFails(t) ==
    /\ pc[t] = "accept"
    /\ \A f \in Fds : socket[f] # NoClient
    /\ pc' = [pc EXCEPT ![t] = "done"]
    /\ UNCHANGED <<control, environment, socket, interest, connections, address,
                   message, holder, incoming, conn, abandoned>>

\* epoll_ctl(EPOLL_CTL_ADD): events of the socket may be taken from here on.
AddToEpoll(t) ==
    /\ pc[t] = "add"
    /\ interest' = [interest EXCEPT ![incoming[t]] = "armed"]
    /\ pc' = [pc EXCEPT ![t] = "insert"]
    /\ UNCHANGED <<control, environment, socket, connections, address, message,
                   holder, incoming, conn, abandoned>>

\* connections.insert_or_assign(): a Connection is built in a node the
\* allocator returns, which may be one that was freed before.
InsertConnection(t, n) ==
    /\ pc[t] = "insert"
    /\ ~Allocated(n)
    /\ connections' = [connections EXCEPT ![incoming[t]] = n]
    /\ address' = [address EXCEPT ![n] = socket[incoming[t]]]
    /\ message' = [message EXCEPT ![n] = "empty"]
    /\ holder' = [holder EXCEPT ![n] = NoThread]
    /\ pc' = [pc EXCEPT ![t] = "wait"]
    /\ UNCHANGED <<control, environment, socket, interest, incoming, conn,
                   abandoned>>

(***************************************************************************)
(* Server::serve(): an event of an accepted socket.                        *)
(***************************************************************************)

\* connections.find() succeeds.
FindConnection(t) ==
    /\ pc[t] = "find"
    /\ connections[incoming[t]] # NoNode
    /\ conn' = [conn EXCEPT ![t] = connections[incoming[t]]]
    /\ pc' = [pc EXCEPT ![t] = "lock"]
    /\ UNCHANGED <<control, environment, socket, interest, connections, address,
                   message, holder, incoming, abandoned>>

\* connections.find() fails: the exception leaves the socket disarmed.
ConnectionNotInMap(t) ==
    /\ pc[t] = "find"
    /\ connections[incoming[t]] = NoNode
    /\ abandoned' = abandoned \cup {socket[incoming[t]]}
    /\ pc' = [pc EXCEPT ![t] = "wait"]
    /\ UNCHANGED <<control, environment, socket, interest, connections, address,
                   message, holder, incoming, conn>>

\* Connection::lock().
LockConnection(t) ==
    /\ pc[t] = "lock"
    /\ holder[conn[t]] = NoThread
    /\ holder' = [holder EXCEPT ![conn[t]] = t]
    /\ pc' = [pc EXCEPT ![t] = "recv"]
    /\ UNCHANGED <<control, environment, socket, interest, connections, address,
                   message, incoming, conn, abandoned>>

\* An exception unwinds the handler: the Defer unlocks the connection, the
\* socket stays disarmed and no response is sent.
Abandon(t) ==
    /\ holder' = [holder EXCEPT ![conn[t]] = NoThread]
    /\ abandoned' = abandoned \cup {socket[incoming[t]]}
    /\ pc' = [pc EXCEPT ![t] = "wait"]

\* recv() returns data, append_to_message() parses it and ready() is tested.
ReceiveData(t) ==
    LET c == socket[incoming[t]]
        outcome == Parse(message[conn[t]], inbox[c])
    IN  /\ pc[t] = "recv"
        /\ inbox[c] # <<>>
        /\ inbox' = [inbox EXCEPT ![c] = <<>>]
        /\ \/ /\ outcome = "throw"
              /\ message' = [message EXCEPT ![conn[t]] = "partial"]
              /\ Abandon(t)
           \/ /\ outcome # "throw"
              /\ message' = [message EXCEPT ![conn[t]] = outcome]
              /\ pc' = [pc EXCEPT ![t] = IF outcome = "ready" THEN "dispatch"
                                                             ELSE "rearm"]
              /\ UNCHANGED <<holder, abandoned>>
        /\ UNCHANGED <<control, peer, sent, backlog, listenerReady, socket,
                       interest, connections, address, incoming, conn>>

\* recv() returns 0.
ReceiveEnd(t) ==
    /\ pc[t] = "recv"
    /\ inbox[socket[incoming[t]]] = <<>>
    /\ peer[socket[incoming[t]]] = "closed"
    /\ pc' = [pc EXCEPT ![t] = "del"]
    /\ UNCHANGED <<control, environment, socket, interest, connections, address,
                   message, holder, incoming, conn, abandoned>>

\* recv() returns -1: HANDLE_INT_RESULT calls exit() with the mutex held.
ReceiveFails(t) ==
    /\ pc[t] = "recv"
    /\ inbox[socket[incoming[t]]] = <<>>
    /\ peer[socket[incoming[t]]] = "reset"
    /\ pc' = [pc EXCEPT ![t] = "exit"]
    /\ UNCHANGED <<control, environment, socket, interest, connections, address,
                   message, holder, incoming, conn, abandoned>>

\* Server::dispatch() returns a response or throws.
DispatchRequest(t) ==
    /\ pc[t] = "dispatch"
    /\ \/ pc' = [pc EXCEPT ![t] = "send"] /\ UNCHANGED <<holder, abandoned>>
       \/ Abandon(t)
    /\ UNCHANGED <<control, environment, socket, interest, connections, address,
                   message, incoming, conn>>

\* Mutant of SendResponse: clear_message() is forgotten.
SendAndKeepRequest(t) ==
    /\ pc[t] = "send"
    /\ peer[socket[incoming[t]]] # "reset"
    /\ pc' = [pc EXCEPT ![t] = "rearm"]
    /\ UNCHANGED <<control, environment, socket, interest, connections, address,
                   message, holder, incoming, conn, abandoned>>

\* send() succeeds, for which it may have to wait until the client reads, and
\* clear_message() drops the request and every byte received behind it.
SendResponse(t) ==
    /\ pc[t] = "send"
    /\ peer[socket[incoming[t]]] # "reset"
    /\ message' = [message EXCEPT ![conn[t]] = "empty"]
    /\ pc' = [pc EXCEPT ![t] = "rearm"]
    /\ UNCHANGED <<control, environment, socket, interest, connections, address,
                   holder, incoming, conn, abandoned>>

\* send() on a socket that was reset: SIGPIPE ends the process, or the call
\* fails and HANDLE_INT_RESULT calls exit().
SendFails(t) ==
    /\ pc[t] = "send"
    /\ peer[socket[incoming[t]]] = "reset"
    /\ \/ process' = "exited" /\ UNCHANGED pc
       \/ pc' = [pc EXCEPT ![t] = "exit"] /\ UNCHANGED process
    /\ UNCHANGED <<phase, interrupted, is_live, watching, environment, socket,
                   interest, connections, address, message, holder, incoming,
                   conn, abandoned>>

\* Mutant of Rearm: only an answered request re-arms the socket.
RearmAfterResponse(t) ==
    /\ pc[t] = "rearm"
    /\ interest' = [interest EXCEPT ![incoming[t]] =
                        IF message[conn[t]] = "empty" THEN "armed" ELSE @]
    /\ pc' = [pc EXCEPT ![t] = "unlock"]
    /\ UNCHANGED <<control, environment, socket, connections, address, message,
                   holder, incoming, conn, abandoned>>

\* epoll_ctl(EPOLL_CTL_MOD); the mutex is still held.
Rearm(t) ==
    /\ pc[t] = "rearm"
    /\ interest' = [interest EXCEPT ![incoming[t]] = "armed"]
    /\ pc' = [pc EXCEPT ![t] = "unlock"]
    /\ UNCHANGED <<control, environment, socket, connections, address, message,
                   holder, incoming, conn, abandoned>>

\* Mutant of RemoveFromEpoll: EPOLL_CTL_MOD where EPOLL_CTL_DEL is meant.
RearmAfterEnd(t) ==
    /\ pc[t] = "del"
    /\ interest' = [interest EXCEPT ![incoming[t]] = "armed"]
    /\ pc' = [pc EXCEPT ![t] = "erase"]
    /\ UNCHANGED <<control, environment, socket, connections, address, message,
                   holder, incoming, conn, abandoned>>

\* epoll_ctl(EPOLL_CTL_DEL) after end of file.
RemoveFromEpoll(t) ==
    /\ pc[t] = "del"
    /\ interest' = [interest EXCEPT ![incoming[t]] = "none"]
    /\ pc' = [pc EXCEPT ![t] = "erase"]
    /\ UNCHANGED <<control, environment, socket, connections, address, message,
                   holder, incoming, conn, abandoned>>

\* Mutant of EraseConnection: the socket is closed, the map keeps its entry.
CloseWithoutErase(t) ==
    /\ pc[t] = "erase"
    /\ socket' = [socket EXCEPT ![incoming[t]] = NoClient]
    /\ pc' = [pc EXCEPT ![t] = "unlock"]
    /\ UNCHANGED <<control, environment, interest, connections, address, message,
                   holder, incoming, conn, abandoned>>

\* connections.erase(): the node is freed and ~Connection() closes the socket;
\* the Defer that unlocks the Connection has yet to run.
EraseConnection(t) ==
    /\ pc[t] = "erase"
    /\ connections' = [connections EXCEPT ![incoming[t]] = NoNode]
    /\ socket' = [socket EXCEPT ![incoming[t]] = NoClient]
    /\ pc' = [pc EXCEPT ![t] = "unlock"]
    /\ UNCHANGED <<control, environment, interest, address, message, holder,
                   incoming, conn, abandoned>>

\* Mutant of UnlockConnection: the Defer is missing.
ForgetUnlock(t) ==
    /\ pc[t] = "unlock"
    /\ Allocated(conn[t])
    /\ pc' = [pc EXCEPT ![t] = "wait"]
    /\ UNCHANGED <<control, environment, socket, interest, connections, address,
                   message, holder, incoming, conn, abandoned>>

\* The Defer's Connection::unlock(), on whatever Connection is at the address.
UnlockConnection(t) ==
    /\ pc[t] = "unlock"
    /\ Allocated(conn[t])
    /\ holder' = [holder EXCEPT ![conn[t]] = NoThread]
    /\ pc' = [pc EXCEPT ![t] = "wait"]
    /\ UNCHANGED <<control, environment, socket, interest, connections, address,
                   message, incoming, conn, abandoned>>

\* The Defer's Connection::unlock() on a freed node: undefined; the write is
\* lost, or a sanitizer build aborts.
UnlockFreedNode(t) ==
    /\ pc[t] = "unlock"
    /\ ~Allocated(conn[t])
    /\ process' \in {"running", "exited"}
    /\ pc' = [pc EXCEPT ![t] = "wait"]
    /\ UNCHANGED <<phase, interrupted, is_live, watching, environment, socket,
                   interest, connections, address, message, holder, incoming,
                   conn, abandoned>>
-----------------------------------------------------------------------------
Init ==
    /\ phase = "starting"
    /\ process = "running"
    /\ interrupted = FALSE
    /\ is_live = TRUE
    /\ watching = TRUE
    /\ backlog = <<>>
    /\ listenerReady = FALSE
    /\ peer = [c \in Clients |-> "idle"]
    /\ inbox = [c \in Clients |-> <<>>]
    /\ sent = 0
    /\ socket = [f \in Fds |-> NoClient]
    /\ interest = [f \in Fds |-> "none"]
    /\ connections = [f \in Fds |-> NoNode]
    /\ address = [n \in Nodes |-> NoClient]
    /\ message = [n \in Nodes |-> "empty"]
    /\ holder = [n \in Nodes |-> NoThread]
    /\ pc = [t \in Threads |-> "wait"]
    /\ incoming = [t \in Threads |-> NoFd]
    /\ conn = [t \in Threads |-> NoNode]
    /\ abandoned = {}

Client(c) ==
    \/ Connect(c)
    \/ \E k \in Chunks : SendChunk(c, k)
    \/ Close(c)
    \/ Reset(c)

\* The steps of serve() that only the scheduler can delay.
Run(t) ==
    \/ TakeInterrupt(t)
    \/ TakeListener(t)
    \/ \E f \in Fds : TakeSocket(t, f) \/ Accept(t, f)
    \/ AcceptFails(t)
    \/ AddToEpoll(t)
    \/ \E n \in Nodes : InsertConnection(t, n)
    \/ FindConnection(t)
    \/ ConnectionNotInMap(t)
    \/ LockConnection(t)
    \/ ReceiveData(t)
    \/ ReceiveEnd(t)
    \/ ReceiveFails(t)
    \/ DispatchRequest(t)
    \/ SendFails(t)
    \/ Rearm(t)
    \/ RemoveFromEpoll(t)
    \/ EraseConnection(t)
    \/ UnlockConnection(t)
    \/ UnlockFreedNode(t)

Serve(t) == Run(t) \/ SendResponse(t)

\* A process that has ended takes no further step.
Ended == process # "running" /\ UNCHANGED vars

Next ==
    \/ /\ process = "running"
       /\ \/ Listen
          \/ SignalBeforeListen
          \/ Signal
          \/ StopWatching
          \/ MainReturns
          \/ ExitCompletes
          \/ ExitAgain
          \/ \E c \in Clients : Client(c)
          \/ \E t \in Threads :
                SignalInEpollWait(t) \/ SignalInSend(t) \/ Serve(t)
    \/ Ended

Spec == Init /\ [][Next]_vars

\* The kernel schedules every thread.  Nothing is assumed of the clients, who
\* may never read an answer and so hold up send(), of SIGINT, and of the
\* session workers, whose pass may never end.
Fairness ==
    /\ \A t \in Threads : WF_vars(process = "running" /\ phase = "serving" /\ Run(t))
    /\ WF_vars(process = "running" /\ (MainReturns \/ ExitCompletes))

FairSpec == Spec /\ Fairness
-----------------------------------------------------------------------------
(***************************************************************************)
(* Properties.                                                             *)
(***************************************************************************)

\* EPOLLONESHOT alone gives every accepted socket to one thread at a time,
\* whatever happens to the Connection's mutex: between the event and the
\* re-arming (or the close) no second thread handles the same descriptor.
HandlerExclusive ==
    \A t, u \in Threads, f \in Fds :
        Handling(t, f) /\ Handling(u, f) => t = u

\* recv() is called on a blocking socket, but never blocks: what made the
\* socket readable is still there when the thread gets to recv().
RecvNeverBlocks ==
    \A t \in Threads : pc[t] = "recv" => Readable(incoming[t])

\* Threads on their way to accept().
Acceptors == {t \in Threads : pc[t] = "accept"}

\* accept() is called on a blocking socket, but never blocks: the threads on
\* their way to accept() never outnumber the accept queue.
AcceptNeverBlocks == Cardinality(Acceptors) <= Len(backlog)

\* insert_or_assign() always inserts: a descriptor is never reused while the
\* map has an entry for it (Connection's operator= calls itself forever).
InsertNeverAssigns ==
    \A t \in Threads :
        pc[t] \in {"add", "insert"} => connections[incoming[t]] = NoNode

\* The iterator c, used outside the map's lock, refers to the live Connection
\* of the event's descriptor in every step but the final unlock.
IteratorValid ==
    \A t \in Threads :
        pc[t] \in {"lock", "recv", "dispatch", "send", "rearm", "del", "erase",
                  "exit"}
            => /\ conn[t] # NoNode
               /\ connections[incoming[t]] = conn[t]

\* A Connection carries the address of the client its descriptor is connected
\* to, also after descriptors and nodes were reused: RTP goes to
\* request.client_addr.
AddressMatchesSocket ==
    \A f \in Fds :
        connections[f] # NoNode => /\ socket[f] # NoClient
                                   /\ address[connections[f]] = socket[f]

\* A socket that waits for its next event never holds an answered request:
\* parse_request() returns at once on a ready request, so such a request
\* would be dispatched again for whatever bytes come next.
NoReplay ==
    \A f \in Fds :
        interest[f] = "armed" /\ connections[f] # NoNode
            => message[connections[f]] # "ready"

\* A socket is only ever left disarmed by the thread that is handling it or
\* by an exception; no other path of serve() forgets to re-arm it.
StalledOnlyByException ==
    \A f \in Fds :
        interest[f] = "disarmed" =>
            \/ \E t \in Threads : Handling(t, f)
            \/ socket[f] \in abandoned

\* What the loop needs of others: clients read their answers, so that every
\* send() returns, and session workers come to the end of their pass.
SendsReturn == \A t \in Threads : []<>(pc[t] # "send")

WorkersReturn == []<>(is_live \/ ~watching)

\* Once interrupt_fd is written, every thread of the pool leaves serve(), or is
\* in exit() already, and the process ends, provided that no send() and no
\* session worker is stuck.
ShutdownCompletes ==
    SendsReturn /\ WorkersReturn => (interrupted ~> process # "running")

\* Every thread of the pool has left serve(), for good or into exit().
AllLeft == \A t \in Threads : pc[t] \in {"exit", "done"}

\* Bytes on a registered socket are received and the handling of them comes to
\* an end, waits for the Connection's mutex included, provided that every
\* send() returns, and unless an error of this very socket leads its handler
\* into exit(), the server is stopping or has lost all of its threads to
\* failing accept() calls and to exit().  (What arrives while an exception is
\* on its way stays where it is.)
DataHandled ==
    SendsReturn =>
        \A c \in Clients, f \in Fds :
            (/\ socket[f] = c
             /\ inbox[c] # <<>>
             /\ interest[f] = "armed"
             /\ connections[f] # NoNode)
            ~> \/ /\ inbox[c] = <<>> \/ c \in abandoned
                  /\ \A t \in Threads : ~Handling(t, f)
               \/ \E t \in Threads : Handling(t, f) /\ pc[t] = "exit"
               \/ AllLeft
               \/ interrupted
               \/ process # "running"

\* What the comment at recv() takes for granted: an error of recv() or send()
\* ends the process.
ErrorEndsProcess ==
    \A t \in Threads : pc[t] = "exit" ~> process # "running"

\* What the exception "Connection not in map" of serve() takes for granted:
\* an event is only ever taken for a descriptor the map knows.
EventOfKnownConnection ==
    \A t \in Threads : pc[t] = "find" => connections[incoming[t]] # NoNode
=============================================================================
