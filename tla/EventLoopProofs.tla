-------------------------- MODULE EventLoopProofs --------------------------
(***************************************************************************)
(* Proofs about EventLoop, for every set of threads, clients, descriptors  *)
(* and node addresses.  SocketInv is inductive: one lemma per action shows *)
(* that it keeps every conjunct.  The thread counts of Startup come last.  *)
(***************************************************************************)
EXTENDS EventLoop, Startup, FiniteSetTheorems, TLAPS
-----------------------------------------------------------------------------
(***************************************************************************)
(* The inductive invariant behind the safety properties.                   *)
(***************************************************************************)

\* A client is in one place at most: never connected, in the accept queue
\* once, or behind one descriptor.
ClientsInOnePlace ==
    /\ \A i \in DOMAIN backlog : peer[backlog[i]] # "idle"
    /\ \A i, j \in DOMAIN backlog : backlog[i] = backlog[j] => i = j
    /\ \A f \in Fds, i \in DOMAIN backlog : socket[f] # backlog[i]
    /\ \A f \in Fds : socket[f] # NoClient => peer[socket[f]] # "idle"
    /\ \A f, g \in Fds : socket[f] = socket[g] /\ socket[f] # NoClient => f = g

\* epoll and the map only know open descriptors, and no two descriptors
\* share a node.
OpenDescriptors ==
    /\ \A f \in Fds : interest[f] # "none" => socket[f] # NoClient
    /\ \A f, g \in Fds :
        connections[f] = connections[g] /\ connections[f] # NoNode => f = g

\* A thread between accept() and the insertion is the only one to have that
\* descriptor from accept(), and the map does not know it.
Accepting ==
    \A t \in Threads : pc[t] \in {"add", "insert"} =>
        /\ incoming[t] \in Fds
        /\ socket[incoming[t]] # NoClient
        /\ connections[incoming[t]] = NoNode
        /\ pc[t] = "add" => interest[incoming[t]] = "none"
        /\ \A u \in Threads :
            pc[u] \in {"add", "insert"} /\ incoming[u] = incoming[t] => u = t

\* What a thread that handles an event of f relies on.
Held(t, f) ==
    /\ socket[f] # NoClient
    /\ interest[f] = IF pc[t] = "erase" THEN "none" ELSE "disarmed"
    /\ pc[t] \in {"find", "lock", "recv"} => Readable(f)
    /\ pc[t] = "rearm" => message[conn[t]] # "ready"

HandlerState ==
    \A t \in Threads, f \in Fds : Handling(t, f) => Held(t, f)

\* Only the final unlock may use an iterator that is no longer valid.
UnlockHasNode ==
    \A t \in Threads :
        /\ pc[t] = "unlock" => conn[t] # NoNode
        /\ pc[t] \in {"find", "lock", "recv", "dispatch", "send", "rearm", "del",
                      "erase", "exit"} => incoming[t] \in Fds

SocketInv ==
    /\ TypeOK
    /\ ClientsInOnePlace
    /\ OpenDescriptors
    /\ Accepting
    /\ HandlerState
    /\ UnlockHasNode
    /\ HandlerExclusive
    /\ IteratorValid
    /\ AddressMatchesSocket
    /\ NoReplay
    /\ StalledOnlyByException

\* Every edge of the listener, delivered or not, stands for a connection of
\* its own in the accept queue.
EdgesCovered ==
    Cardinality(Acceptors) + (IF listenerReady THEN 1 ELSE 0) <= Len(backlog)
-----------------------------------------------------------------------------
USE DEF PcStates
USE ThreadsAssumption, ClientsAssumption, FdsAssumption, NodesAssumption,
    ChunksAssumption

\* Parsing ends in one of three ways, whatever the client sends.
LEMMA ParseType ==
    ASSUME NEW m \in {"empty", "partial", "ready"}, NEW s \in Seq(Chunks)
    PROVE  Parse(m, s) \in {"ready", "partial", "throw"}
BY DEF Parse

\* Listen(), the signal handler outside epoll_wait() and send(), the workers'
\* return and the end of the process touch no socket, node or thread.
LEMMA ControlStep ==
    ASSUME SocketInv, UNCHANGED <<environment, server>>,
           phase' \in {"starting", "serving", "failed"},
           process' \in {"running", "exited", "finished"},
           interrupted' \in BOOLEAN,
           is_live' \in BOOLEAN,
           watching' \in BOOLEAN
    PROVE  SocketInv'
<1> USE DEF SocketInv, environment, server
<1>1. TypeOK'
  BY DEF TypeOK
<1>2. /\ ClientsInOnePlace'
      /\ OpenDescriptors'
      /\ AddressMatchesSocket'
      /\ Accepting'
      /\ HandlerExclusive'
      /\ UnlockHasNode'
      /\ IteratorValid'
      /\ NoReplay'
      /\ StalledOnlyByException'
  BY DEF ClientsInOnePlace, OpenDescriptors, AddressMatchesSocket, Accepting,
      HandlerExclusive, Handling, UnlockHasNode, IteratorValid, NoReplay,
      StalledOnlyByException
<1>3. HandlerState'
  BY DEF HandlerState, Held, Readable, Handling
<1>4. QED
  BY <1>1, <1>2, <1>3

\* A thread that returns from serve() without an event of its own (signal,
\* interrupt_fd, failing accept()) leaves every handled socket as it is.
LEMMA LeaveStep ==
    ASSUME SocketInv, NEW t \in Threads, pc[t] \in {"wait", "accept"},
           pc' = [pc EXCEPT ![t] = "done"],
           interrupted' \in BOOLEAN, is_live' \in BOOLEAN,
           UNCHANGED <<phase, process, watching, environment, socket, interest,
                       connections, address, message, holder, incoming, conn, abandoned>>
    PROVE  SocketInv'
<1> USE DEF SocketInv, environment
<1>1. TypeOK'
  BY DEF TypeOK
<1>2. /\ ClientsInOnePlace'
      /\ OpenDescriptors'
      /\ AddressMatchesSocket'
      /\ Accepting'
      /\ HandlerExclusive'
      /\ UnlockHasNode'
      /\ IteratorValid'
      /\ NoReplay'
  BY DEF ClientsInOnePlace, OpenDescriptors, AddressMatchesSocket, Accepting,
      HandlerExclusive, Handling, UnlockHasNode, IteratorValid, NoReplay
<1>3. HandlerState'
  BY DEF HandlerState, Held, Readable, Handling
<1>4. StalledOnlyByException'
  BY DEF StalledOnlyByException, Handling
<1>5. QED
  BY <1>1, <1>2, <1>3, <1>4

\* A handler that an error leads into exit() keeps its socket disarmed and
\* its Connection's mutex.
LEMMA ExitStep ==
    ASSUME SocketInv, NEW t \in Threads, pc[t] \in {"recv", "send"},
           pc' = [pc EXCEPT ![t] = "exit"],
           interrupted' \in BOOLEAN, is_live' \in BOOLEAN,
           UNCHANGED <<phase, process, watching, environment, socket, interest,
                       connections, address, message, holder, incoming, conn, abandoned>>
    PROVE  SocketInv'
<1> USE DEF SocketInv, environment
<1>1. TypeOK'
  BY DEF TypeOK
<1>2. /\ ClientsInOnePlace'
      /\ OpenDescriptors'
      /\ AddressMatchesSocket'
      /\ Accepting'
      /\ UnlockHasNode'
      /\ IteratorValid'
      /\ NoReplay'
  BY <1>1 DEF ClientsInOnePlace, OpenDescriptors, AddressMatchesSocket,
      Accepting, UnlockHasNode, IteratorValid, NoReplay, TypeOK
<1>3. \A u \in Threads, f \in Fds : Handling(u, f)' <=> Handling(u, f)
  BY DEF Handling, TypeOK
<1>4. HandlerState'
  BY <1>3 DEF HandlerState, Held, Readable, Handling, TypeOK
<1>5. HandlerExclusive' /\ StalledOnlyByException'
  BY <1>3 DEF HandlerExclusive, StalledOnlyByException
<1>6. QED
  BY <1>1, <1>2, <1>4, <1>5

\* A handshake puts a client in the accept queue that was nowhere before.
LEMMA ConnectStep ==
    ASSUME SocketInv, NEW c \in Clients, Connect(c)
    PROVE  SocketInv'
<1> USE DEF SocketInv, Connect, control, server
<1>1. TypeOK'
  BY DEF TypeOK
<1>2. /\ Accepting'
      /\ HandlerExclusive'
      /\ UnlockHasNode'
      /\ IteratorValid'
      /\ NoReplay'
      /\ StalledOnlyByException'
  BY DEF Accepting, HandlerExclusive, Handling, UnlockHasNode, IteratorValid,
      NoReplay, StalledOnlyByException
<1>3. ClientsInOnePlace' /\ OpenDescriptors' /\ AddressMatchesSocket'
  <2>1. \A i \in DOMAIN backlog : backlog[i] # c
    BY DEF ClientsInOnePlace
  <2>2. /\ DOMAIN backlog' = 1..(Len(backlog) + 1)
        /\ \A i \in DOMAIN backlog' : backlog'[i] = IF i = Len(backlog) + 1 THEN c ELSE backlog[i]
        /\ DOMAIN backlog = 1..Len(backlog)
        /\ Len(backlog) \in Nat
    BY DEF TypeOK
  <2>3. ClientsInOnePlace'
    BY <2>2 DEF TypeOK, ClientsInOnePlace
  <2>4. QED
    BY <2>3 DEF OpenDescriptors, AddressMatchesSocket
<1>4. HandlerState'
  BY DEF HandlerState, Held, Readable, Handling
<1>5. QED
  BY <1>1, <1>2, <1>3, <1>4

LEMMA AppendNotEmpty ==
    ASSUME NEW S, NEW q \in Seq(S), NEW x \in S
    PROVE  Append(q, x) # <<>>
<1>1. Len(Append(q, x)) = Len(q) + 1 /\ Len(q) \in Nat
  OBVIOUS
<1>2. Len(<<>>) = 0
  OBVIOUS
<1>3. QED
  BY <1>1, <1>2

\* Arriving bytes only make readable what may already be handled.
LEMMA SendChunkStep ==
    ASSUME SocketInv, NEW c \in Clients, NEW k \in Chunks, SendChunk(c, k)
    PROVE  SocketInv'
<1> USE DEF SocketInv, SendChunk, control, server
<1>0. \A g \in Fds : Readable(g) => Readable(g)'
  <2>1. Append(inbox[c], k) # <<>>
    <3>1. inbox[c] \in Seq(Chunks)
      BY DEF TypeOK
    <3>2. QED
      BY <3>1, AppendNotEmpty
  <2>2. inbox' = [inbox EXCEPT ![c] = Append(inbox[c], k)] /\ UNCHANGED <<peer, socket>>
    OBVIOUS
  <2>3. \A d \in Clients : inbox[d] # <<>> => inbox'[d] # <<>>
    BY <2>1, <2>2 DEF TypeOK
  <2>4. QED
    BY <2>2, <2>3 DEF Readable
<1>1. TypeOK'
  BY DEF TypeOK
<1>2. /\ ClientsInOnePlace'
      /\ OpenDescriptors'
      /\ AddressMatchesSocket'
      /\ Accepting'
      /\ HandlerExclusive'
      /\ UnlockHasNode'
      /\ IteratorValid'
      /\ NoReplay'
      /\ StalledOnlyByException'
  BY DEF ClientsInOnePlace, OpenDescriptors, AddressMatchesSocket, Accepting,
      HandlerExclusive, Handling, UnlockHasNode, IteratorValid, NoReplay,
      StalledOnlyByException
<1>3. HandlerState'
  BY <1>0 DEF HandlerState, Held, Handling
<1>4. QED
  BY <1>1, <1>2, <1>3

\* A client that closes or resets stays readable on the server.
LEMMA HangUpStep ==
    ASSUME SocketInv, NEW c \in Clients, Close(c) \/ Reset(c)
    PROVE  SocketInv'
<1> USE DEF SocketInv, Close, Reset, control, server
<1>0. \A g \in Fds : Readable(g) => Readable(g)'
  BY DEF TypeOK, Readable
<1>1. TypeOK'
  <2>1. CASE Close(c)
    BY <2>1 DEF TypeOK
  <2>2. CASE Reset(c)
    BY <2>2 DEF TypeOK
  <2>3. QED
    BY <2>1, <2>2
<1>2. /\ Accepting'
      /\ HandlerExclusive'
      /\ UnlockHasNode'
      /\ IteratorValid'
      /\ NoReplay'
      /\ StalledOnlyByException'
  BY DEF Accepting, HandlerExclusive, Handling, UnlockHasNode, IteratorValid,
      NoReplay, StalledOnlyByException
<1>3. ClientsInOnePlace' /\ OpenDescriptors' /\ AddressMatchesSocket'
  BY DEF TypeOK, ClientsInOnePlace, OpenDescriptors, AddressMatchesSocket
<1>4. HandlerState'
  BY <1>0 DEF HandlerState, Held, Handling
<1>5. QED
  BY <1>1, <1>2, <1>3, <1>4

\* Delivering an edge of the listener involves no accepted socket.
LEMMA TakeListenerStep ==
    ASSUME SocketInv, NEW t \in Threads, TakeListener(t)
    PROVE  SocketInv'
<1> USE DEF SocketInv, TakeListener, control, environment
<1>1. TypeOK'
  BY DEF TypeOK
<1>2. /\ ClientsInOnePlace'
      /\ OpenDescriptors'
      /\ AddressMatchesSocket'
      /\ Accepting'
      /\ HandlerExclusive'
      /\ UnlockHasNode'
      /\ IteratorValid'
      /\ NoReplay'
  BY DEF ClientsInOnePlace, OpenDescriptors, AddressMatchesSocket, Accepting,
      HandlerExclusive, Handling, UnlockHasNode, IteratorValid, NoReplay
<1>3. HandlerState'
  BY DEF HandlerState, Held, Readable, Handling
<1>4. StalledOnlyByException'
  BY DEF StalledOnlyByException, Handling
<1>5. QED
  BY <1>1, <1>2, <1>3, <1>4

\* Taking an event disarms the socket: its taker is the only handler.
LEMMA TakeSocketStep ==
    ASSUME SocketInv, NEW t \in Threads, NEW f \in Fds, TakeSocket(t, f)
    PROVE  SocketInv'
<1> USE DEF SocketInv, TakeSocket, control, environment
<1>1. TypeOK'
  BY DEF TypeOK
<1>2. /\ ClientsInOnePlace'
      /\ OpenDescriptors'
      /\ AddressMatchesSocket'
      /\ Accepting'
      /\ IteratorValid'
      /\ NoReplay'
  BY DEF ClientsInOnePlace, OpenDescriptors, AddressMatchesSocket, Accepting,
      IteratorValid, NoReplay
<1>3. HandlerState'
  BY DEF HandlerState, Held, Handling, Readable, TypeOK
<1>4. HandlerExclusive' /\ UnlockHasNode'
  BY DEF TypeOK, HandlerExclusive, HandlerState, Held, Handling, UnlockHasNode
<1>5. StalledOnlyByException'
  BY DEF StalledOnlyByException, TypeOK, Handling
<1>6. QED
  BY <1>1, <1>2, <1>3, <1>4, <1>5

\* accept() returns a descriptor that neither epoll nor the map knows.
LEMMA AcceptStep ==
    ASSUME SocketInv, NEW t \in Threads, NEW f \in Fds, Accept(t, f)
    PROVE  SocketInv'
<1> USE DEF SocketInv, Accept, control, environment
<1>0. /\ Head(backlog) = backlog[1]
      /\ 1 \in DOMAIN backlog
      /\ DOMAIN backlog' = 1..(Len(backlog) - 1)
      /\ \A i \in DOMAIN backlog' : i + 1 \in DOMAIN backlog /\ backlog'[i] = backlog[i + 1]
      /\ backlog[1] \in Clients
  BY DEF TypeOK
<1>1. TypeOK'
  BY DEF TypeOK
<1>2. /\ HandlerExclusive'
      /\ UnlockHasNode'
      /\ IteratorValid'
      /\ NoReplay'
  BY DEF HandlerExclusive, Handling, UnlockHasNode, IteratorValid, NoReplay
<1>3. ClientsInOnePlace' /\ OpenDescriptors' /\ AddressMatchesSocket'
  <2>1. \A i \in DOMAIN backlog' : backlog'[i] # backlog[1]
    BY DEF ClientsInOnePlace
  <2>2. ClientsInOnePlace'
    <3>1. \A i \in DOMAIN backlog' : peer'[backlog'[i]] # "idle"
      BY <1>0 DEF ClientsInOnePlace
    <3>2. \A i, j \in DOMAIN backlog' : backlog'[i] = backlog'[j] => i = j
      BY <1>0 DEF ClientsInOnePlace
    <3>3. \A g \in Fds, i \in DOMAIN backlog' : socket'[g] # backlog'[i]
      BY <1>0 DEF ClientsInOnePlace
    <3>4. \A g \in Fds : socket'[g] # NoClient => peer'[socket'[g]] # "idle"
      BY DEF ClientsInOnePlace
    <3>5. \A g,
        h \in Fds : socket'[g] = socket'[h] /\ socket'[g] # NoClient => g = h
      BY DEF ClientsInOnePlace
    <3>6. QED
      BY <3>1, <3>2, <3>3, <3>4, <3>5 DEF ClientsInOnePlace
  <2>3. OpenDescriptors' /\ AddressMatchesSocket'
    BY DEF OpenDescriptors, AddressMatchesSocket
  <2>4. QED
    BY <2>2, <2>3
<1>4. Accepting'
  BY DEF Accepting, OpenDescriptors, AddressMatchesSocket, TypeOK
<1>5. HandlerState'
  BY DEF HandlerState, Held, Readable, Handling
<1>6. StalledOnlyByException'
  BY DEF StalledOnlyByException, OpenDescriptors, Handling
<1>7. QED
  BY <1>1, <1>2, <1>3, <1>4, <1>5, <1>6

\* Adding the descriptor to epoll arms it before the map has its entry.
LEMMA AddToEpollStep ==
    ASSUME SocketInv, NEW t \in Threads, AddToEpoll(t)
    PROVE  SocketInv'
<1> USE DEF SocketInv, AddToEpoll, control, environment
<1>1. TypeOK'
  BY DEF TypeOK, Accepting
<1>2. /\ ClientsInOnePlace'
      /\ OpenDescriptors'
      /\ AddressMatchesSocket'
      /\ HandlerExclusive'
      /\ UnlockHasNode'
      /\ IteratorValid'
      /\ NoReplay'
  BY DEF ClientsInOnePlace, OpenDescriptors, AddressMatchesSocket, Accepting,
      HandlerExclusive, Handling, UnlockHasNode, IteratorValid, NoReplay
<1>3. Accepting'
  BY DEF TypeOK, Accepting
<1>4. HandlerState'
  BY DEF HandlerState, Held, Handling, Readable, IteratorValid, Accepting
<1>5. StalledOnlyByException'
  BY DEF StalledOnlyByException, Handling
<1>6. QED
  BY <1>1, <1>2, <1>3, <1>4, <1>5

\* The insertion builds the Connection in a node of its own.
LEMMA InsertConnectionStep ==
    ASSUME SocketInv, NEW t \in Threads, NEW n \in Nodes, InsertConnection(t, n)
    PROVE  SocketInv'
<1> USE DEF SocketInv, InsertConnection, control, environment
<1>1. TypeOK'
  BY DEF TypeOK, Accepting
<1>2. /\ HandlerExclusive'
      /\ UnlockHasNode'
      /\ IteratorValid'
  BY DEF HandlerExclusive, Handling, UnlockHasNode, IteratorValid, Accepting
<1>3. ClientsInOnePlace' /\ OpenDescriptors' /\ AddressMatchesSocket'
  BY DEF TypeOK, ClientsInOnePlace, OpenDescriptors, AddressMatchesSocket,
      Accepting, Allocated
<1>4. Accepting'
  BY DEF TypeOK, Accepting
<1>5. HandlerState'
  BY DEF HandlerState, Held, Readable, Handling
<1>6. NoReplay'
  BY DEF TypeOK, NoReplay
<1>7. StalledOnlyByException'
  BY DEF StalledOnlyByException, Handling
<1>8. QED
  BY <1>1, <1>2, <1>3, <1>4, <1>5, <1>6, <1>7

\* find() gives the handler the node of the event's descriptor.
LEMMA FindConnectionStep ==
    ASSUME SocketInv, NEW t \in Threads, FindConnection(t)
    PROVE  SocketInv'
<1> USE DEF SocketInv, FindConnection, control, environment
<1>0. /\ incoming[t] \in Fds
      /\ Handling(t, incoming[t])
      /\ Held(t, incoming[t])
      /\ socket[incoming[t]] \in Clients
      /\ pc[t] # "find" => conn[t] \in Nodes
  BY DEF TypeOK, HandlerState, Held, Handling, UnlockHasNode
<1>1. TypeOK'
  BY <1>0 DEF TypeOK
<1>2. /\ ClientsInOnePlace'
      /\ OpenDescriptors'
      /\ AddressMatchesSocket'
      /\ Accepting'
      /\ HandlerExclusive'
      /\ UnlockHasNode'
      /\ NoReplay'
  BY DEF ClientsInOnePlace, OpenDescriptors, AddressMatchesSocket, Accepting,
      HandlerExclusive, Handling, UnlockHasNode, NoReplay
<1>3. HandlerState'
  BY DEF HandlerState, Held, Readable, Handling
<1>4. IteratorValid'
  BY DEF TypeOK, IteratorValid
<1>5. StalledOnlyByException'
  BY DEF StalledOnlyByException, Handling
<1>6. QED
  BY <1>1, <1>2, <1>3, <1>4, <1>5

\* A failing find() leaves the socket to the set of abandoned clients.
LEMMA ConnectionNotInMapStep ==
    ASSUME SocketInv, NEW t \in Threads, ConnectionNotInMap(t)
    PROVE  SocketInv'
<1> USE DEF SocketInv, ConnectionNotInMap, control, environment
<1>0. /\ incoming[t] \in Fds
      /\ Handling(t, incoming[t])
      /\ Held(t, incoming[t])
      /\ socket[incoming[t]] \in Clients
      /\ pc[t] # "find" => conn[t] \in Nodes
  BY DEF TypeOK, HandlerState, Held, Handling, UnlockHasNode
<1>1. TypeOK'
  BY <1>0 DEF TypeOK
<1>2. /\ ClientsInOnePlace'
      /\ OpenDescriptors'
      /\ AddressMatchesSocket'
      /\ Accepting'
      /\ HandlerExclusive'
      /\ UnlockHasNode'
      /\ IteratorValid'
      /\ NoReplay'
  BY DEF ClientsInOnePlace, OpenDescriptors, AddressMatchesSocket, Accepting,
      HandlerExclusive, Handling, UnlockHasNode, IteratorValid, NoReplay
<1>3. HandlerState'
  BY DEF HandlerState, Held, Readable, Handling
<1>4. StalledOnlyByException'
  BY DEF StalledOnlyByException, Handling
<1>5. QED
  BY <1>1, <1>2, <1>3, <1>4

\* Taking the Connection's mutex changes no other state.
LEMMA LockConnectionStep ==
    ASSUME SocketInv, NEW t \in Threads, LockConnection(t)
    PROVE  SocketInv'
<1> USE DEF SocketInv, LockConnection, control, environment
<1>0. /\ incoming[t] \in Fds
      /\ Handling(t, incoming[t])
      /\ Held(t, incoming[t])
      /\ socket[incoming[t]] \in Clients
      /\ pc[t] # "find" => conn[t] \in Nodes
  BY DEF TypeOK, HandlerState, Held, Handling, UnlockHasNode, IteratorValid
<1>1. TypeOK'
  BY <1>0 DEF TypeOK
<1>2. /\ ClientsInOnePlace'
      /\ OpenDescriptors'
      /\ AddressMatchesSocket'
      /\ Accepting'
      /\ HandlerExclusive'
      /\ UnlockHasNode'
      /\ IteratorValid'
      /\ NoReplay'
  BY DEF ClientsInOnePlace, OpenDescriptors, AddressMatchesSocket, Accepting,
      HandlerExclusive, Handling, UnlockHasNode, IteratorValid, NoReplay
<1>3. HandlerState'
  BY DEF HandlerState, Held, Readable, Handling
<1>4. StalledOnlyByException'
  BY DEF StalledOnlyByException, Handling
<1>5. QED
  BY <1>1, <1>2, <1>3, <1>4

\* recv() of data: parse error, incomplete request or complete request.
LEMMA ReceiveDataStep ==
    ASSUME SocketInv, NEW t \in Threads, ReceiveData(t)
    PROVE  SocketInv'
<1> USE DEF SocketInv, ReceiveData, control, environment, Abandon
<1>0. /\ incoming[t] \in Fds
      /\ Handling(t, incoming[t])
      /\ Held(t, incoming[t])
      /\ socket[incoming[t]] \in Clients
      /\ pc[t] # "find" => conn[t] \in Nodes
  BY DEF TypeOK, HandlerState, Held, Handling, UnlockHasNode, IteratorValid
<1>1. TypeOK'
  <2>1. Parse(message[conn[t]], inbox[socket[incoming[t]]]) \in {"ready",
      "partial", "throw"}
    BY <1>0, ParseType DEF TypeOK
  <2>2. inbox' \in [Clients -> Seq(Chunks)]
    BY <1>0 DEF TypeOK
  <2>3. message' \in [Nodes -> {"empty", "partial", "ready"}]
    BY <2>1 DEF TypeOK
  <2>4. abandoned' \subseteq Clients /\ holder' \in [Nodes -> Threads \cup {NoThread}] /\ pc' \in [Threads -> PcStates]
    BY <1>0 DEF TypeOK
  <2>5. QED
    BY <2>2, <2>3, <2>4 DEF TypeOK
<1>2. /\ ClientsInOnePlace'
      /\ OpenDescriptors'
      /\ AddressMatchesSocket'
  BY DEF ClientsInOnePlace, OpenDescriptors, AddressMatchesSocket
<1>3. Accepting'
  BY DEF TypeOK, Accepting
<1>4. HandlerState'
  <2> SUFFICES ASSUME NEW u \in Threads, NEW g \in Fds, Handling(u, g)'
               PROVE  Held(u, g)'
    BY DEF HandlerState
  <2>1. CASE u = t
    BY <1>0, <2>1 DEF TypeOK, Held, Handling
  <2>2. CASE u # t
    <3>1. Handling(u, g) /\ Held(u, g) /\ pc'[u] = pc[u]
      BY <2>2 DEF TypeOK, HandlerState, Handling
    <3>2. g # incoming[t]
      BY <1>0, <2>2, <3>1 DEF HandlerExclusive
    <3>3. socket[g] # socket[incoming[t]]
      BY <1>0, <3>2 DEF ClientsInOnePlace
    <3>4. Readable(g) => Readable(g)'
      BY <3>3 DEF Readable
    <3>5. pc[u] # "find" => conn[u] # conn[t]
      BY <1>0, <3>1, <3>2 DEF IteratorValid, OpenDescriptors, Handling
    <3>6. conn' = conn /\ \A n \in Nodes : n # conn[t] => message'[n] = message[n]
      BY DEF TypeOK
    <3>7. pc[u] = "rearm" => conn[u] \in Nodes
      BY DEF TypeOK, IteratorValid
    <3>8. QED
      BY <3>1, <3>4, <3>5, <3>6, <3>7 DEF Held
  <2>3. QED
    BY <2>1, <2>2
<1>5. HandlerExclusive' /\ UnlockHasNode'
  <2>1. \A u \in Threads, g \in Fds : Handling(u, g)' => Handling(u, g)
    BY DEF TypeOK, Handling
  <2>2. HandlerExclusive'
    BY <2>1 DEF HandlerExclusive
  <2>3. UnlockHasNode'
    BY DEF TypeOK, UnlockHasNode
  <2>4. QED
    BY <2>2, <2>3
<1>6. IteratorValid'
  BY DEF TypeOK, IteratorValid
<1>7. NoReplay'
  BY <1>0 DEF TypeOK, NoReplay, Held, OpenDescriptors, IteratorValid
<1>8. StalledOnlyByException'
  BY DEF StalledOnlyByException, TypeOK, Handling
<1>9. QED
  BY <1>1, <1>2, <1>3, <1>4, <1>5, <1>6, <1>7, <1>8

\* recv() of the end of file turns the handler to closing.
LEMMA ReceiveEndStep ==
    ASSUME SocketInv, NEW t \in Threads, ReceiveEnd(t)
    PROVE  SocketInv'
<1> USE DEF SocketInv, ReceiveEnd, control, environment
<1>0. /\ incoming[t] \in Fds
      /\ Handling(t, incoming[t])
      /\ Held(t, incoming[t])
      /\ socket[incoming[t]] \in Clients
      /\ pc[t] # "find" => conn[t] \in Nodes
  BY DEF TypeOK, HandlerState, Held, Handling, UnlockHasNode, IteratorValid
<1>1. TypeOK'
  BY DEF TypeOK
<1>2. /\ ClientsInOnePlace'
      /\ OpenDescriptors'
      /\ AddressMatchesSocket'
      /\ Accepting'
      /\ HandlerExclusive'
      /\ UnlockHasNode'
      /\ IteratorValid'
      /\ NoReplay'
  BY DEF ClientsInOnePlace, OpenDescriptors, AddressMatchesSocket, Accepting,
      HandlerExclusive, Handling, UnlockHasNode, IteratorValid, NoReplay
<1>3. HandlerState'
  BY DEF HandlerState, Held, Readable, Handling
<1>4. StalledOnlyByException'
  BY DEF StalledOnlyByException, Handling
<1>5. QED
  BY <1>1, <1>2, <1>3, <1>4

\* dispatch() keeps the socket handled, or abandons its client.
LEMMA DispatchRequestStep ==
    ASSUME SocketInv, NEW t \in Threads, DispatchRequest(t)
    PROVE  SocketInv'
<1> USE DEF SocketInv, DispatchRequest, control, environment, Abandon
<1>0. /\ incoming[t] \in Fds
      /\ Handling(t, incoming[t])
      /\ Held(t, incoming[t])
      /\ socket[incoming[t]] \in Clients
      /\ pc[t] # "find" => conn[t] \in Nodes
  BY DEF TypeOK, HandlerState, Held, Handling, UnlockHasNode, IteratorValid
<1>1. TypeOK'
  BY <1>0 DEF TypeOK
<1>2. /\ ClientsInOnePlace'
      /\ OpenDescriptors'
      /\ AddressMatchesSocket'
      /\ NoReplay'
  BY DEF ClientsInOnePlace, OpenDescriptors, AddressMatchesSocket, NoReplay
<1>3. Accepting'
  BY DEF TypeOK, Accepting
<1>4. HandlerState'
  BY DEF HandlerState, TypeOK, Held, Readable, Handling
<1>5. HandlerExclusive' /\ UnlockHasNode'
  <2>1. \A u \in Threads, g \in Fds : Handling(u, g)' => Handling(u, g)
    BY DEF TypeOK, Handling
  <2>2. HandlerExclusive'
    BY <2>1 DEF HandlerExclusive
  <2>3. UnlockHasNode'
    BY DEF TypeOK, UnlockHasNode
  <2>4. QED
    BY <2>2, <2>3
<1>6. IteratorValid'
  BY DEF TypeOK, IteratorValid
<1>7. StalledOnlyByException'
  BY DEF StalledOnlyByException, TypeOK, Handling
<1>8. QED
  BY <1>1, <1>2, <1>3, <1>4, <1>5, <1>6, <1>7

\* A sent response empties the request before the socket is re-armed.
LEMMA SendResponseStep ==
    ASSUME SocketInv, NEW t \in Threads, SendResponse(t)
    PROVE  SocketInv'
<1> USE DEF SocketInv, SendResponse, control, environment
<1>0. /\ incoming[t] \in Fds
      /\ Handling(t, incoming[t])
      /\ Held(t, incoming[t])
      /\ socket[incoming[t]] \in Clients
      /\ pc[t] # "find" => conn[t] \in Nodes
  BY DEF TypeOK, HandlerState, Held, Handling, UnlockHasNode, IteratorValid
<1>1. TypeOK'
  BY <1>0 DEF TypeOK
<1>2. /\ ClientsInOnePlace'
      /\ OpenDescriptors'
      /\ AddressMatchesSocket'
      /\ Accepting'
      /\ HandlerExclusive'
      /\ UnlockHasNode'
      /\ IteratorValid'
      /\ NoReplay'
  BY DEF ClientsInOnePlace, OpenDescriptors, AddressMatchesSocket, Accepting,
      HandlerExclusive, Handling, UnlockHasNode, IteratorValid, NoReplay
<1>3. HandlerState'
  BY DEF HandlerState, TypeOK, Held, Readable, IteratorValid, Handling
<1>4. StalledOnlyByException'
  BY DEF StalledOnlyByException, Handling
<1>5. QED
  BY <1>1, <1>2, <1>3, <1>4

\* EPOLL_CTL_MOD ends the handling of a socket whose request is not ready.
LEMMA RearmStep ==
    ASSUME SocketInv, NEW t \in Threads, Rearm(t)
    PROVE  SocketInv'
<1> USE DEF SocketInv, Rearm, control, environment
<1>0. /\ incoming[t] \in Fds
      /\ Handling(t, incoming[t])
      /\ Held(t, incoming[t])
      /\ socket[incoming[t]] \in Clients
      /\ pc[t] # "find" => conn[t] \in Nodes
  BY DEF TypeOK, HandlerState, Held, Handling, UnlockHasNode, IteratorValid
<1>1. TypeOK'
  BY <1>0 DEF TypeOK
<1>2. /\ ClientsInOnePlace'
      /\ OpenDescriptors'
      /\ AddressMatchesSocket'
      /\ IteratorValid'
  BY DEF ClientsInOnePlace, OpenDescriptors, AddressMatchesSocket, IteratorValid
<1>3. Accepting'
  BY <1>0 DEF Accepting, Held
<1>4. HandlerState'
  BY DEF HandlerState, TypeOK, Held, Handling, Readable, HandlerExclusive
<1>5. HandlerExclusive' /\ UnlockHasNode'
  BY <1>0 DEF HandlerExclusive, Handling, UnlockHasNode
<1>6. NoReplay'
  BY <1>0 DEF NoReplay, Held, IteratorValid
<1>7. StalledOnlyByException'
  BY DEF StalledOnlyByException, TypeOK, Handling
<1>8. QED
  BY <1>1, <1>2, <1>3, <1>4, <1>5, <1>6, <1>7

\* EPOLL_CTL_DEL leaves the socket to the thread that will close it.
LEMMA RemoveFromEpollStep ==
    ASSUME SocketInv, NEW t \in Threads, RemoveFromEpoll(t)
    PROVE  SocketInv'
<1> USE DEF SocketInv, RemoveFromEpoll, control, environment
<1>0. /\ incoming[t] \in Fds
      /\ Handling(t, incoming[t])
      /\ Held(t, incoming[t])
      /\ socket[incoming[t]] \in Clients
      /\ pc[t] # "find" => conn[t] \in Nodes
  BY DEF TypeOK, HandlerState, Held, Handling, UnlockHasNode, IteratorValid
<1>1. TypeOK'
  BY <1>0 DEF TypeOK
<1>2. /\ ClientsInOnePlace'
      /\ OpenDescriptors'
      /\ AddressMatchesSocket'
      /\ Accepting'
      /\ HandlerExclusive'
      /\ UnlockHasNode'
      /\ IteratorValid'
      /\ NoReplay'
  BY DEF ClientsInOnePlace, OpenDescriptors, AddressMatchesSocket, Accepting,
      HandlerExclusive, Handling, UnlockHasNode, IteratorValid, NoReplay
<1>3. HandlerState'
  BY DEF HandlerState, TypeOK, Held, Handling, Readable, HandlerExclusive
<1>4. StalledOnlyByException'
  BY DEF StalledOnlyByException, Handling
<1>5. QED
  BY <1>1, <1>2, <1>3, <1>4

\* Erasing frees the node and closes the descriptor in one step.
LEMMA EraseConnectionStep ==
    ASSUME SocketInv, NEW t \in Threads, EraseConnection(t)
    PROVE  SocketInv'
<1> USE DEF SocketInv, EraseConnection, control, environment
<1>0. /\ incoming[t] \in Fds
      /\ Handling(t, incoming[t])
      /\ Held(t, incoming[t])
      /\ socket[incoming[t]] \in Clients
      /\ pc[t] # "find" => conn[t] \in Nodes
  BY DEF TypeOK, HandlerState, Held, Handling, UnlockHasNode, IteratorValid
<1>1. TypeOK'
  BY <1>0 DEF TypeOK
<1>2. /\ NoReplay'
  BY DEF NoReplay
<1>3. ClientsInOnePlace' /\ OpenDescriptors' /\ AddressMatchesSocket'
  BY DEF TypeOK, ClientsInOnePlace, OpenDescriptors, AddressMatchesSocket,
      HandlerState, Held, Handling
<1>4. Accepting'
  BY <1>0 DEF Accepting, IteratorValid
<1>5. HandlerState'
  BY DEF HandlerState, TypeOK, Held, Handling, Readable, HandlerExclusive
<1>6. HandlerExclusive' /\ UnlockHasNode'
  BY <1>0 DEF HandlerExclusive, Handling, UnlockHasNode
<1>7. IteratorValid'
  BY DEF TypeOK, IteratorValid, HandlerExclusive, Handling
<1>8. StalledOnlyByException'
  BY <1>0 DEF StalledOnlyByException, Held, Handling
<1>9. QED
  BY <1>1, <1>2, <1>3, <1>4, <1>5, <1>6, <1>7, <1>8

\* The late unlock writes a mutex at most, whoever owns the node by then.
LEMMA UnlockStep ==
    ASSUME SocketInv, NEW t \in Threads,
        UnlockConnection(t) \/ UnlockFreedNode(t)
    PROVE  SocketInv'
<1> USE DEF SocketInv, UnlockConnection, UnlockFreedNode, control, environment
<1>1. TypeOK'
  <2>1. /\ pc' \in [Threads -> PcStates]
        /\ holder' \in [Nodes -> Threads \cup {NoThread}]
        /\ process' \in {"running", "exited", "finished"}
    BY DEF TypeOK
  <2>2. QED
    BY <2>1 DEF TypeOK
<1>2. /\ ClientsInOnePlace'
      /\ OpenDescriptors'
      /\ AddressMatchesSocket'
      /\ NoReplay'
  BY DEF ClientsInOnePlace, OpenDescriptors, AddressMatchesSocket, NoReplay
<1>3. Accepting'
  BY DEF TypeOK, Accepting, Held, HandlerState, Handling
<1>4. HandlerState'
  BY DEF HandlerState, TypeOK, Held, Readable, Handling
<1>5. HandlerExclusive' /\ UnlockHasNode'
  BY DEF TypeOK, HandlerExclusive, Handling, UnlockHasNode, IteratorValid,
      Accepting
<1>6. IteratorValid'
  BY DEF TypeOK, IteratorValid
<1>7. StalledOnlyByException'
  BY DEF StalledOnlyByException, TypeOK, Handling
<1>8. QED
  BY <1>1, <1>2, <1>3, <1>4, <1>5, <1>6, <1>7
-----------------------------------------------------------------------------
\* SocketInv holds at the start.
LEMMA SocketInvInit == Init => SocketInv
<1> SUFFICES ASSUME Init PROVE SocketInv
  OBVIOUS
<1>1. TypeOK
  <2>1. /\ phase \in {"starting", "serving", "failed"} /\ watching \in BOOLEAN
        /\ process \in {"running", "exited", "finished"}
        /\ interrupted \in BOOLEAN /\ is_live \in BOOLEAN /\ listenerReady \in BOOLEAN
        /\ abandoned \subseteq Clients
    BY DEF Init
  <2>2. /\ backlog \in Seq(Clients)
        /\ inbox \in [Clients -> Seq(Chunks)]
        /\ peer \in [Clients -> {"idle", "open", "closed", "reset"}]
    BY DEF Init
  <2>3. sent \in 0..MaxChunks
    BY ChunksAssumption DEF Init
  <2>4. /\ socket \in [Fds -> Clients \cup {NoClient}]
        /\ interest \in [Fds -> {"none", "armed", "disarmed"}]
        /\ connections \in [Fds -> Nodes \cup {NoNode}]
    BY DEF Init
  <2>5. /\ address \in [Nodes -> Clients \cup {NoClient}]
        /\ message \in [Nodes -> {"empty", "partial", "ready"}]
        /\ holder \in [Nodes -> Threads \cup {NoThread}]
    BY DEF Init
  <2>6. /\ pc \in [Threads -> PcStates]
        /\ incoming \in [Threads -> Fds \cup {NoFd}]
        /\ conn \in [Threads -> Nodes \cup {NoNode}]
    BY DEF Init, PcStates
  <2>7. QED
    BY <2>1, <2>2, <2>3, <2>4, <2>5, <2>6 DEF TypeOK
<1>2. QED
  BY <1>1 DEF Init, SocketInv, ClientsInOnePlace, OpenDescriptors, Accepting,
    HandlerState, UnlockHasNode, HandlerExclusive, Handling, IteratorValid,
    AddressMatchesSocket, NoReplay, StalledOnlyByException

\* Every step keeps SocketInv: one lemma above per action.
LEMMA SocketInvNext == SocketInv /\ [Next]_vars => SocketInv'
<1> SUFFICES ASSUME SocketInv, [Next]_vars PROVE SocketInv'
  OBVIOUS
<1>0. TypeOK
  BY DEF SocketInv
<1>1. CASE \/ Listen \/ SignalBeforeListen \/ Signal \/ StopWatching
         \/ MainReturns \/ ExitCompletes \/ ExitAgain
  BY <1>0, <1>1, ControlStep
    DEF Listen, SignalBeforeListen, Signal, StopWatching, MainReturns,
    ExitCompletes, ExitAgain, TypeOK
<1>2. ASSUME NEW c \in Clients, Client(c)
      PROVE  SocketInv'
  BY <1>2, ConnectStep, SendChunkStep, HangUpStep DEF Client
<1>3. ASSUME NEW t \in Threads, SignalInEpollWait(t) \/ TakeInterrupt(t) \/ AcceptFails(t)
      PROVE  SocketInv'
  BY <1>0, <1>3, LeaveStep
    DEF SignalInEpollWait, TakeInterrupt, AcceptFails, control, TypeOK
<1>4. ASSUME NEW t \in Threads, ReceiveFails(t) \/ SendFails(t) \/ SignalInSend(t)
      PROVE  SocketInv'
  <2>1. CASE ReceiveFails(t) \/ SignalInSend(t)
    BY <1>0, <2>1, ExitStep DEF ReceiveFails, SignalInSend, control, TypeOK
  <2>2. CASE SendFails(t) /\ UNCHANGED pc
    BY <1>0, <2>2, ControlStep DEF SendFails, TypeOK, server
  <2>3. CASE SendFails(t) /\ UNCHANGED process
    BY <1>0, <2>2, <2>3, ExitStep DEF SendFails, TypeOK
  <2>4. QED
    BY <1>4, <2>1, <2>2, <2>3 DEF SendFails
<1>5. ASSUME NEW t \in Threads, Serve(t)
      PROVE  SocketInv'
  BY <1>3, <1>4, <1>5, TakeListenerStep, TakeSocketStep, AcceptStep,
    AddToEpollStep, InsertConnectionStep, FindConnectionStep,
    ConnectionNotInMapStep, LockConnectionStep, ReceiveDataStep,
    ReceiveEndStep, DispatchRequestStep, SendResponseStep, RearmStep,
    RemoveFromEpollStep, EraseConnectionStep, UnlockStep DEF Serve, Run
<1>6. CASE UNCHANGED vars
  BY <1>0, <1>6, ControlStep DEF vars, environment, server, TypeOK
<1>7. QED
  BY <1>1, <1>2, <1>3, <1>4, <1>5, <1>6 DEF Next, Ended

\* The inductive invariant of the event loop.
THEOREM SocketInvariant == Spec => []SocketInv
<1>1. QED
  BY SocketInvInit, SocketInvNext, PTL DEF Spec

\* Every variable keeps its type.
THEOREM TypeCorrect == Spec => []TypeOK
<1>1. SocketInv => TypeOK
  BY DEF SocketInv
<1>2. QED
  BY <1>1, SocketInvariant, PTL

\* EPOLLONESHOT keeps two threads from handling the same socket.
THEOREM OneHandlerPerSocket == Spec => []HandlerExclusive
<1>1. SocketInv => HandlerExclusive
  BY DEF SocketInv
<1>2. QED
  BY <1>1, SocketInvariant, PTL

\* recv() finds data, the end of file or an error.
THEOREM RecvReady == Spec => []RecvNeverBlocks
<1>1. SocketInv => RecvNeverBlocks
  BY DEF SocketInv, RecvNeverBlocks, UnlockHasNode, HandlerState, Handling, Held
<1>2. QED
  BY <1>1, SocketInvariant, PTL

\* insert_or_assign() never assigns.
THEOREM FreshInsertion == Spec => []InsertNeverAssigns
<1>1. SocketInv => InsertNeverAssigns
  BY DEF SocketInv, InsertNeverAssigns, Accepting
<1>2. QED
  BY <1>1, SocketInvariant, PTL

\* The iterator into Server::connections stays valid outside its lock.
THEOREM IteratorSafe == Spec => []IteratorValid
<1>1. SocketInv => IteratorValid
  BY DEF SocketInv
<1>2. QED
  BY <1>1, SocketInvariant, PTL

\* Reused descriptors and nodes never carry an earlier client's address.
THEOREM AddressSafe == Spec => []AddressMatchesSocket
<1>1. SocketInv => AddressMatchesSocket
  BY DEF SocketInv
<1>2. QED
  BY <1>1, SocketInvariant, PTL

\* An answered request is not dispatched again.
THEOREM NoRequestTwice == Spec => []NoReplay
<1>1. SocketInv => NoReplay
  BY DEF SocketInv
<1>2. QED
  BY <1>1, SocketInvariant, PTL

\* Only an exception leaves a socket disarmed for good.
THEOREM NoOtherStall == Spec => []StalledOnlyByException
<1>1. SocketInv => StalledOnlyByException
  BY DEF SocketInv
<1>2. QED
  BY <1>1, SocketInvariant, PTL
-----------------------------------------------------------------------------
\* The threads on their way to accept() can be counted.
LEMMA AcceptorsFinite ==
    IsFiniteSet(Acceptors) /\ Cardinality(Acceptors) \in Nat
BY FS_Subset, FS_CardinalityType DEF Acceptors

\* A thread that leaves accept() takes one from the count.
LEMMA AcceptorsLeave ==
    ASSUME TypeOK, NEW t \in Threads, pc[t] = "accept", NEW q \in PcStates,
           q # "accept", pc' = [pc EXCEPT ![t] = q]
    PROVE  Cardinality(Acceptors') = Cardinality(Acceptors) - 1
<1>1. Acceptors' = Acceptors \ {t} /\ t \in Acceptors
  BY DEF Acceptors, TypeOK
<1>2. QED
  BY <1>1, AcceptorsFinite, FS_RemoveElement

\* A thread that takes the listener's edge adds one to the count.
LEMMA AcceptorsEnter ==
    ASSUME TypeOK, NEW t \in Threads, pc[t] # "accept",
           pc' = [pc EXCEPT ![t] = "accept"]
    PROVE  Cardinality(Acceptors') = Cardinality(Acceptors) + 1
<1>1. Acceptors' = Acceptors \cup {t} /\ t \notin Acceptors
  BY DEF Acceptors, TypeOK
<1>2. QED
  BY <1>1, AcceptorsFinite, FS_AddElement

\* The other steps of a thread.
LEMMA AcceptorsStay ==
    ASSUME TypeOK, NEW t \in Threads, pc[t] # "accept", NEW q \in PcStates,
           q # "accept", pc' = [pc EXCEPT ![t] = q]
    PROVE  Acceptors' = Acceptors
BY DEF Acceptors, TypeOK

\* Every edge of the listener keeps a connection of its own.
LEMMA EdgesCoveredNext == SocketInv /\ EdgesCovered /\ [Next]_vars => EdgesCovered'
<1> SUFFICES ASSUME SocketInv, EdgesCovered, [Next]_vars PROVE EdgesCovered'
  OBVIOUS
<1>0. TypeOK /\ Cardinality(Acceptors) \in Nat /\ Len(backlog) \in Nat
  BY AcceptorsFinite DEF SocketInv, TypeOK
<1>1. ASSUME UNCHANGED <<backlog, listenerReady>>, Acceptors' = Acceptors
      PROVE  EdgesCovered'
  BY <1>1 DEF EdgesCovered
<1>2. ASSUME UNCHANGED <<backlog, listenerReady, pc>>
      PROVE  EdgesCovered'
  BY <1>1, <1>2 DEF Acceptors
<1>3. ASSUME NEW c \in Clients, Connect(c)
      PROVE  EdgesCovered'
  <2>1. Len(backlog') = Len(backlog) + 1 /\ Acceptors' = Acceptors
    BY <1>0, <1>3 DEF Connect, server, Acceptors, TypeOK
  <2>2. QED
    BY <1>0, <2>1 DEF EdgesCovered
<1>4. ASSUME NEW t \in Threads, TakeListener(t)
      PROVE  EdgesCovered'
  <2>1. Cardinality(Acceptors') = Cardinality(Acceptors) + 1
    BY <1>0, <1>4, AcceptorsEnter DEF TakeListener
  <2>2. QED
    BY <1>0, <1>4, <2>1 DEF EdgesCovered, TakeListener
<1>5. ASSUME NEW t \in Threads, NEW f \in Fds, Accept(t, f)
      PROVE  EdgesCovered'
  <2>1. Cardinality(Acceptors') = Cardinality(Acceptors) - 1
    BY <1>0, <1>5, AcceptorsLeave DEF Accept
  <2>2. Len(backlog') = Len(backlog) - 1 /\ listenerReady' = listenerReady
    BY <1>0, <1>5 DEF Accept, TypeOK
  <2>3. QED
    BY <1>0, <2>1, <2>2 DEF EdgesCovered
<1>6. ASSUME NEW t \in Threads, AcceptFails(t)
      PROVE  EdgesCovered'
  <2>1. Cardinality(Acceptors') = Cardinality(Acceptors) - 1
    BY <1>0, <1>6, AcceptorsLeave DEF AcceptFails
  <2>2. QED
    BY <1>0, <1>6, <2>1 DEF EdgesCovered, AcceptFails, environment
<1>7. ASSUME NEW t \in Threads,
             SignalInEpollWait(t) \/ SignalInSend(t) \/ TakeInterrupt(t)
      PROVE  EdgesCovered'
  BY <1>0, <1>1, <1>7, AcceptorsStay
    DEF SignalInEpollWait, SignalInSend, TakeInterrupt, environment
<1>8. ASSUME NEW t \in Threads, NEW q \in PcStates, q # "accept", pc[t] # "accept",
             pc' = [pc EXCEPT ![t] = q], UNCHANGED <<backlog, listenerReady>>
      PROVE  EdgesCovered'
  BY <1>0, <1>1, <1>8, AcceptorsStay
<1>9. ASSUME NEW t \in Threads, Serve(t)
      PROVE  EdgesCovered'
  <2>1. CASE \E f \in Fds : TakeSocket(t, f)
    BY <1>8, <2>1 DEF TakeSocket, environment
  <2>2. CASE AddToEpoll(t) \/ (\E n \in Nodes : InsertConnection(t, n))
    BY <1>8, <2>2 DEF AddToEpoll, InsertConnection, environment
  <2>3. CASE FindConnection(t) \/ ConnectionNotInMap(t) \/ LockConnection(t)
    BY <1>8, <2>3 DEF FindConnection, ConnectionNotInMap, LockConnection, environment
  <2>4. CASE ReceiveData(t)
    <3>1. pc' = [pc EXCEPT ![t] = "wait"] \/ pc' = [pc EXCEPT ![t] = "dispatch"]
            \/ pc' = [pc EXCEPT ![t] = "rearm"]
      BY <2>4 DEF ReceiveData, Abandon
    <3>2. pc[t] # "accept" /\ UNCHANGED <<backlog, listenerReady>>
      BY <2>4 DEF ReceiveData
    <3>3. QED
      BY <1>8, <3>1, <3>2
  <2>5. CASE DispatchRequest(t)
    BY <1>8, <2>5 DEF DispatchRequest, Abandon, environment
  <2>6. CASE ReceiveEnd(t) \/ SendResponse(t) \/ Rearm(t) \/ RemoveFromEpoll(t)
    BY <1>8, <2>6 DEF ReceiveEnd, SendResponse, Rearm, RemoveFromEpoll, environment
  <2>7. CASE EraseConnection(t) \/ UnlockConnection(t) \/ UnlockFreedNode(t)
    BY <1>8, <2>7 DEF EraseConnection, UnlockConnection, UnlockFreedNode, environment
  <2>8. CASE ReceiveFails(t) \/ SendFails(t)
    BY <1>2, <1>8, <2>8 DEF ReceiveFails, SendFails, environment
  <2>9. QED
    BY <1>4, <1>5, <1>6, <1>7, <1>9, <2>1, <2>2, <2>3, <2>4, <2>5, <2>6, <2>7,
      <2>8 DEF Serve, Run
<1>10. ASSUME NEW c \in Clients, \/ \E k \in Chunks : SendChunk(c, k)
                                 \/ Close(c) \/ Reset(c)
       PROVE  EdgesCovered'
  BY <1>2, <1>10 DEF SendChunk, Close, Reset, server
<1>11. CASE \/ Listen \/ SignalBeforeListen \/ Signal \/ StopWatching
          \/ MainReturns \/ ExitCompletes \/ ExitAgain
  BY <1>2, <1>11 DEF Listen, SignalBeforeListen, Signal, StopWatching,
    MainReturns, ExitCompletes, ExitAgain, environment, server
<1>12. CASE UNCHANGED vars
  BY <1>2, <1>12 DEF vars
<1>13. QED
  BY <1>3, <1>7, <1>9, <1>10, <1>11, <1>12 DEF Next, Ended, Client

\* accept() finds a connection: no thread of the pool is ever stuck in it.
THEOREM AcceptReady == Spec => []AcceptNeverBlocks
<1>1. Init => EdgesCovered
  <2> SUFFICES ASSUME Init PROVE EdgesCovered
    OBVIOUS
  <2>1. Acceptors = {} /\ backlog = <<>> /\ ~listenerReady
    BY DEF Init, Acceptors
  <2>2. Cardinality(Acceptors) = 0 /\ Len(backlog) = 0
    BY <2>1, FS_EmptySet
  <2>3. QED
    BY <2>1, <2>2 DEF EdgesCovered
<1>2. SocketInv /\ EdgesCovered => AcceptNeverBlocks
  BY AcceptorsFinite DEF EdgesCovered, AcceptNeverBlocks, SocketInv, TypeOK
<1>3. Spec => []EdgesCovered
  BY <1>1, EdgesCoveredNext, SocketInvariant, PTL DEF Spec
<1>4. QED
  BY <1>2, <1>3, SocketInvariant, PTL
-----------------------------------------------------------------------------
(***************************************************************************)
(* How many threads main() starts, for every unsigned number.              *)
(***************************************************************************)
LEMMA WidthFacts == Width \in Nat /\ Width > 3
  BY DEF Width

\* The subtraction, without a wrap and with one.
LEMMA Wrap ==
    ASSUME NEW n \in Unsigned
    PROVE  /\ n >= 3 => InitialServerWorkers(n) = n - 3
           /\ n < 3 => InitialServerWorkers(n) = Width + n - 3
<1>1. n \in Nat /\ n < Width
  BY WidthFacts DEF Unsigned
<1>2. n >= 3 => (n - 1 - 2) % Width = n - 3
  BY <1>1, WidthFacts
<1>3. n < 3 => (n - 1 - 2) % Width = Width + n - 3
  BY <1>1, WidthFacts
<1>4. QED  BY <1>2, <1>3 DEF InitialServerWorkers

\* From four processors on there is a thread for each of them, the one that
\* runs main() included.
THEOREM ThreadPerProcessor ==
    \A n \in Unsigned : n > 3 =>
        ThreadCounts(n).session_workers + ThreadCounts(n).server_workers + 1 = n
<1>1. ASSUME NEW n \in Unsigned, n > 3
      PROVE  ThreadCounts(n).session_workers + ThreadCounts(n).server_workers + 1 = n
  <2>1. n \in Nat
    BY WidthFacts DEF Unsigned
  <2>2. InitialServerWorkers(n) = n - 3 /\ n - 3 >= 1
    BY <1>1, <2>1, Wrap
  <2>3. ThreadCounts(n) = [session_workers |-> 2, server_workers |-> n - 3]
    BY <2>1, <2>2 DEF ThreadCounts
  <2>4. QED  BY <2>1, <2>3
<1>2. QED  BY <1>1

\* The fallback to two threads ("minimum 2 threads total to listen/serve and
\* watch sessions") is taken with three processors and with no other number.
\* For the machines it is meant for, with one or two processors or an unknown
\* number of them (0), the subtraction wraps around, and main() sets out to
\* start about 2^32 threads.
THEOREM FallbackMissed ==
    \A n \in Unsigned :
        /\ ThreadCounts(n).server_workers = 0 <=> n = 3
        /\ n < 3 => ThreadCounts(n).server_workers = Width + n - 3
<1> SUFFICES ASSUME NEW n \in Unsigned
             PROVE  /\ ThreadCounts(n).server_workers = 0 <=> n = 3
                    /\ n < 3 => ThreadCounts(n).server_workers = Width + n - 3
  OBVIOUS
<1>1. n \in Nat
  BY WidthFacts DEF Unsigned
<1>2. CASE n = 3
  <2>1. InitialServerWorkers(n) = 0
    BY <1>2, Wrap
  <2>2. ThreadCounts(n).server_workers = 0
    BY <2>1 DEF ThreadCounts
  <2>3. QED  BY <1>2, <2>2
<1>3. CASE n # 3
  <2>1. InitialServerWorkers(n) >= 1 /\ InitialServerWorkers(n) \in Nat
    BY <1>1, <1>3, Wrap, WidthFacts
  <2>2. ThreadCounts(n).server_workers = InitialServerWorkers(n)
    BY <2>1 DEF ThreadCounts
  <2>3. QED  BY <1>3, <2>1, <2>2, Wrap
<1>4. QED  BY <1>2, <1>3
=============================================================================
