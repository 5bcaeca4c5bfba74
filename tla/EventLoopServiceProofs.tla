----------------------- MODULE EventLoopServiceProofs -----------------------
(***************************************************************************)
(* The event loop implements ConnectionService for every set of threads,   *)
(* clients, descriptors and node addresses: every step of it is a step of  *)
(* the service or changes nothing that a client sees.                      *)
(***************************************************************************)
EXTENDS EventLoopService, EventLoopProofs
-----------------------------------------------------------------------------
(***************************************************************************)
(* The inductive invariant behind the refinement.                          *)
(***************************************************************************)

\* The socket of a client whose handling ended in an exception stays open,
\* disarmed and unattended.
AbandonedForGood ==
    \A c \in abandoned : \E f \in Fds :
        /\ socket[f] = c
        /\ interest[f] = "disarmed"
        /\ \A t \in Threads : ~Handling(t, f)

\* A handler has a whole request between recv() and clear_message(), and at no
\* other time, unless an error has led it into exit().
RequestInHand ==
    \A t \in Threads, f \in Fds : Handling(t, f) =>
        /\ pc[t] \in {"dispatch", "send"} => message[conn[t]] = "ready"
        /\ pc[t] \notin {"dispatch", "send", "exit"} /\ connections[f] # NoNode =>
                message[connections[f]] # "ready"

ServiceInv == SocketInv /\ AbandonedForGood /\ RequestInHand
-----------------------------------------------------------------------------
USE ThreadsAssumption, ClientsAssumption, FdsAssumption, NodesAssumption,
    ChunksAssumption

-----------------------------------------------------------------------------
(***************************************************************************)
(* What a client sees, told by the descriptor of its socket.               *)
(***************************************************************************)

\* Thread t has registered f and not yet added it to epoll.
Registering(t, f) == pc[t] = "add" /\ incoming[t] = f

\* The Connection of f has a whole request.
ReadyAt(f) == connections[f] # NoNode /\ message[connections[f]] = "ready"

\* A client with a socket.
Connected ==
    \A f \in Fds : socket[f] \in Clients =>
        /\ SocketsOf(socket[f]) = {f}
        /\ ServersOf(socket[f]) = {t \in Threads : Handling(t, f)}
        /\ Unanswered(socket[f]) <=> ReadyAt(f)
        /\ socket[f] \notin abandoned =>
              StatusOf(socket[f]) = IF \E t \in Threads : Registering(t, f) THEN "queued" ELSE "open"

\* A client without one.
NotConnected ==
    \A c \in Clients : (\A f \in Fds : socket[f] # c) =>
        /\ SocketsOf(c) = {}
        /\ ServersOf(c) = {}
        /\ ~Unanswered(c)
        /\ c \notin abandoned =>
              StatusOf(c) = IF peer[c] = "idle" THEN "away"
                            ELSE IF \E i \in DOMAIN backlog : backlog[i] = c THEN "queued"
                            ELSE "closed"

Stranded == \A c \in abandoned : StatusOf(c) = "stranded"

View == Connected /\ NotConnected /\ Stranded

\* A client that has a socket has one, and is not in the accept queue.
LEMMA ViewOfState == SocketInv => View
<1> SUFFICES ASSUME SocketInv PROVE View
  OBVIOUS
<1>1. Connected
  <2> SUFFICES ASSUME NEW f \in Fds, socket[f] \in Clients
               PROVE  /\ SocketsOf(socket[f]) = {f}
                      /\ ServersOf(socket[f]) = {t \in Threads : Handling(t, f)}
                      /\ Unanswered(socket[f]) <=> ReadyAt(f)
                      /\ socket[f] \notin abandoned =>
                            StatusOf(socket[f]) =
                                IF \E t \in Threads : Registering(t, f) THEN "queued" ELSE "open"
    BY DEF Connected
  <2>1. SocketsOf(socket[f]) = {f}
    BY DEF SocketsOf, SocketInv, ClientsInOnePlace
  <2>2. ServersOf(socket[f]) = {t \in Threads : Handling(t, f)}
    BY <2>1 DEF ServersOf
  <2>3. Unanswered(socket[f]) <=> ReadyAt(f)
    BY <2>1 DEF Unanswered, ReadyAt
  <2>4. peer[socket[f]] # "idle" /\ ~\E i \in DOMAIN backlog : backlog[i] = socket[f]
    BY DEF SocketInv, ClientsInOnePlace
  <2>5. (\E t \in Threads : pc[t] = "add" /\ incoming[t] \in SocketsOf(socket[f]))
            <=> \E t \in Threads : Registering(t, f)
    BY <2>1 DEF Registering
  <2>6. ASSUME socket[f] \notin abandoned
        PROVE  StatusOf(socket[f]) =
                    IF \E t \in Threads : Registering(t, f) THEN "queued" ELSE "open"
    BY <2>1, <2>4, <2>5, <2>6 DEF StatusOf
  <2>7. QED
    BY <2>1, <2>2, <2>3, <2>6
<1>2. NotConnected
  <2> SUFFICES ASSUME NEW c \in Clients, \A f \in Fds : socket[f] # c
               PROVE  /\ SocketsOf(c) = {}
                      /\ ServersOf(c) = {}
                      /\ ~Unanswered(c)
                      /\ c \notin abandoned =>
                            StatusOf(c) = IF peer[c] = "idle" THEN "away"
                                          ELSE IF \E i \in DOMAIN backlog : backlog[i] = c
                                               THEN "queued" ELSE "closed"
    BY DEF NotConnected
  <2>1. SocketsOf(c) = {}
    BY DEF SocketsOf
  <2>2. ServersOf(c) = {} /\ ~Unanswered(c)
    BY <2>1 DEF ServersOf, Unanswered
  <2>3. QED
    BY <2>1, <2>2 DEF StatusOf
<1>3. Stranded
  BY DEF Stranded, StatusOf
<1>4. QED
  BY <1>1, <1>2, <1>3 DEF View

LEMMA ViewAfter == SocketInv' => View'
BY ViewOfState, PTL
-----------------------------------------------------------------------------
(***************************************************************************)
(* Steps of the service, client by client.                                 *)
(***************************************************************************)

\* The service leaves client d alone.
Same(d) ==
    /\ StatusOf(d)' = StatusOf(d)
    /\ ServersOf(d)' = ServersOf(d)
    /\ Unanswered(d)' = Unanswered(d)

LEMMA InvisibleStep ==
    ASSUME \A d \in Clients : Same(d), process' = process
    PROVE  UNCHANGED Service!state
BY DEF Service!state, Same

LEMMA StopStep ==
    ASSUME \A d \in Clients : Same(d), process = "running", process' # "running"
    PROVE  Service!Next
BY DEF Service!Next, Service!Stop, Same

LEMMA QueueStep ==
    ASSUME NEW c \in Clients, \A d \in Clients \ {c} : Same(d),
           process = "running", process' = "running",
           StatusOf(c) = "away", StatusOf(c)' = "queued",
           ServersOf(c)' = ServersOf(c), Unanswered(c)' = Unanswered(c)
    PROVE  Service!Next
<1>1. Service!Queue(c)
  BY DEF Service!Queue, Same
<1>2. QED
  BY <1>1 DEF Service!Next

LEMMA AdmitStep ==
    ASSUME NEW c \in Clients, \A d \in Clients \ {c} : Same(d),
           process = "running", process' = "running",
           StatusOf(c) = "queued", StatusOf(c)' = "open",
           ServersOf(c)' = ServersOf(c), Unanswered(c)' = Unanswered(c)
    PROVE  Service!Next
<1>1. Service!Admit(c)
  BY DEF Service!Admit, Same
<1>2. QED
  BY <1>1 DEF Service!Next

LEMMA TakeStep ==
    ASSUME NEW c \in Clients, NEW t \in Threads, \A d \in Clients \ {c} : Same(d),
           process = "running", process' = "running",
           StatusOf(c) = "open", StatusOf(c)' = "open",
           ServersOf(c) = {}, ServersOf(c)' = {t},
           ~Unanswered(c), Unanswered(c)' = Unanswered(c)
    PROVE  Service!Next
<1>1. Service!Take(t, c)
  BY DEF Service!Take, Same
<1>2. QED
  BY <1>1 DEF Service!Next, Service!Serve

\* Receiving a whole request, and answering it.
LEMMA RequestStep ==
    ASSUME NEW c \in Clients, NEW t \in Threads, \A d \in Clients \ {c} : Same(d),
           process = "running", process' = "running",
           StatusOf(c)' = StatusOf(c),
           ServersOf(c) = {t}, ServersOf(c)' = ServersOf(c),
           Unanswered(c)' = ~Unanswered(c)
    PROVE  Service!Next
<1>1. CASE ~Unanswered(c)
  <2>1. Service!Receive(t, c)
    BY <1>1 DEF Service!Receive, Same
  <2>2. QED
    BY <2>1 DEF Service!Next, Service!Serve
<1>2. CASE Unanswered(c)
  <2>1. Service!Answer(t, c)
    BY <1>2 DEF Service!Answer, Same
  <2>2. QED
    BY <2>1 DEF Service!Next, Service!Serve
<1>3. QED
  BY <1>1, <1>2

LEMMA ReleaseStep ==
    ASSUME NEW c \in Clients, NEW t \in Threads, \A d \in Clients \ {c} : Same(d),
           process = "running", process' = "running",
           StatusOf(c)' \in {StatusOf(c), "closed"},
           ServersOf(c) = {t}, ServersOf(c)' = {},
           ~Unanswered(c), Unanswered(c)' = Unanswered(c)
    PROVE  Service!Next
<1>1. Service!Release(t, c)
  BY DEF Service!Release, Same
<1>2. QED
  BY <1>1 DEF Service!Next, Service!Serve, Service!Finish

LEMMA StrandStep ==
    ASSUME NEW c \in Clients, NEW t \in Threads, \A d \in Clients \ {c} : Same(d),
           process = "running", process' = "running",
           StatusOf(c)' = "stranded",
           ServersOf(c) = {t}, ServersOf(c)' = {},
           Unanswered(c)' = Unanswered(c)
    PROVE  Service!Next
<1>1. Service!Strand(t, c)
  BY DEF Service!Strand, Same
<1>2. QED
  BY <1>1 DEF Service!Next, Service!Serve, Service!Finish
-----------------------------------------------------------------------------
(***************************************************************************)
(* ServiceInv is inductive.                                                *)
(***************************************************************************)

LEMMA ServiceInvInit == Init => ServiceInv
BY SocketInvInit DEF Init, ServiceInv, AbandonedForGood, RequestInHand, Handling

\* An abandoned socket is touched by no step: its event cannot be taken.
LEMMA AbandonedKept ==
    ASSUME ServiceInv, Next, NEW f \in Fds, socket[f] \in Clients, interest[f] = "disarmed",
           \A t \in Threads : ~Handling(t, f)
    PROVE  socket'[f] = socket[f] /\ interest'[f] = "disarmed"
           /\ \A t \in Threads : ~Handling(t, f)'
<1> USE DEF ServiceInv
<1>0. TypeOK /\ Accepting /\ UnlockHasNode
  BY DEF SocketInv
<1>1. CASE UNCHANGED <<socket, interest, pc, incoming>>
  BY <1>1 DEF Handling
<1>2. ASSUME NEW t \in Threads, SignalInEpollWait(t) \/ TakeInterrupt(t) \/ TakeListener(t)
                                \/ AcceptFails(t) \/ (\E n \in Nodes : InsertConnection(t, n))
                                \/ UnlockConnection(t) \/ UnlockFreedNode(t)
      PROVE  UNCHANGED <<socket, interest>> /\ \A u \in Threads : ~Handling(u, f)'
  BY <1>0, <1>2 DEF SignalInEpollWait, TakeInterrupt, TakeListener, AcceptFails,
     InsertConnection, UnlockConnection, UnlockFreedNode, Handling, TypeOK
<1>3. ASSUME NEW t \in Threads, NEW g \in Fds, TakeSocket(t, g) \/ Accept(t, g)
      PROVE  /\ socket'[f] = socket[f] /\ interest'[f] = "disarmed"
             /\ \A u \in Threads : ~Handling(u, f)'
  <2>1. CASE TakeSocket(t, g)
    BY <1>0, <1>3, <2>1 DEF TakeSocket, Handling, TypeOK
  <2>2. CASE Accept(t, g)
    BY <1>0, <1>3, <2>2 DEF Accept, Handling, TypeOK
  <2>3. QED
    BY <1>3, <2>1, <2>2
<1>4. ASSUME NEW t \in Threads, AddToEpoll(t)
      PROVE  /\ socket'[f] = socket[f] /\ interest'[f] = "disarmed"
             /\ \A u \in Threads : ~Handling(u, f)'
  BY <1>0, <1>4 DEF AddToEpoll, Handling, TypeOK, Accepting
<1>5. ASSUME NEW t \in Threads, Handling(t, incoming[t]), incoming'[t] = incoming[t],
             NEW p \in PcStates, pc' = [pc EXCEPT ![t] = p],
             incoming' = incoming,
             \A g \in Fds \ {incoming[t]} : socket'[g] = socket[g] /\ interest'[g] = interest[g]
      PROVE  /\ socket'[f] = socket[f] /\ interest'[f] = "disarmed"
             /\ \A u \in Threads : ~Handling(u, f)'
  BY <1>0, <1>5 DEF Handling, TypeOK
<1>6. ASSUME NEW t \in Threads, FindConnection(t) \/ ConnectionNotInMap(t) \/ LockConnection(t)
                                \/ ReceiveEnd(t) \/ SendResponse(t) \/ Rearm(t)
                                \/ RemoveFromEpoll(t) \/ EraseConnection(t)
      PROVE  /\ socket'[f] = socket[f] /\ interest'[f] = "disarmed"
             /\ \A u \in Threads : ~Handling(u, f)'
  BY <1>0, <1>5, <1>6 DEF FindConnection, ConnectionNotInMap, LockConnection, ReceiveEnd,
     SendResponse, Rearm, RemoveFromEpoll, EraseConnection, Handling, TypeOK, PcStates
<1>9. ASSUME NEW t \in Threads, ReceiveFails(t) \/ SendFails(t) \/ SignalInSend(t)
      PROVE  /\ socket'[f] = socket[f] /\ interest'[f] = "disarmed"
             /\ \A u \in Threads : ~Handling(u, f)'
  BY <1>0, <1>1, <1>5, <1>9 DEF ReceiveFails, SendFails, SignalInSend, Handling, TypeOK, PcStates
<1>7. ASSUME NEW t \in Threads, ReceiveData(t) \/ DispatchRequest(t)
      PROVE  /\ socket'[f] = socket[f] /\ interest'[f] = "disarmed"
             /\ \A u \in Threads : ~Handling(u, f)'
  BY <1>0, <1>5, <1>7 DEF ReceiveData, DispatchRequest, Abandon, Handling, TypeOK, PcStates
<1>8. QED
  BY <1>1, <1>2, <1>3, <1>4, <1>6, <1>7, <1>9 DEF Next, Ended, vars, Client, Connect, SendChunk, Close,
     Reset, Listen, SignalBeforeListen, Signal, StopWatching, MainReturns, ExitCompletes, ExitAgain,
     Serve, Run, server

\* A client is abandoned by the only thread that handles its socket.
LEMMA AbandonedForGoodNext == ServiceInv /\ Next => AbandonedForGood'
<1> SUFFICES ASSUME ServiceInv, Next, NEW c \in abandoned'
             PROVE  \E f \in Fds : /\ socket'[f] = c
                                   /\ interest'[f] = "disarmed"
                                   /\ \A t \in Threads : ~Handling(t, f)'
  BY DEF AbandonedForGood
<1> USE DEF ServiceInv
<1>0. TypeOK
  BY DEF SocketInv
<1>1. CASE c \in abandoned
  <2>1. PICK f \in Fds : /\ socket[f] = c /\ interest[f] = "disarmed"
                         /\ \A t \in Threads : ~Handling(t, f)
    BY <1>1 DEF AbandonedForGood
  <2>2. socket[f] \in Clients
    BY <1>0, <1>1, <2>1 DEF TypeOK
  <2>3. QED
    BY <2>1, <2>2, AbandonedKept
<1>2. CASE c \notin abandoned
  <2>1. PICK t \in Threads : ConnectionNotInMap(t) \/ ReceiveData(t) \/ DispatchRequest(t)
    BY <1>2 DEF Next, Ended, vars, Client, Connect, SendChunk, Close, Reset, Listen,
       SignalBeforeListen, Signal, StopWatching, MainReturns, ExitCompletes, ExitAgain,
       SignalInEpollWait, SignalInSend, Serve, Run, TakeInterrupt,
       TakeListener, TakeSocket, Accept, AcceptFails, AddToEpoll, InsertConnection,
       FindConnection, LockConnection, ReceiveEnd, ReceiveFails, SendResponse, SendFails,
       Rearm, RemoveFromEpoll, EraseConnection, UnlockConnection, UnlockFreedNode, server
  <2>2. /\ pc[t] \in {"find", "recv", "dispatch"} /\ pc' = [pc EXCEPT ![t] = "wait"]
        /\ abandoned' = abandoned \cup {socket[incoming[t]]}
        /\ UNCHANGED <<socket, interest, incoming>>
    BY <1>2, <2>1 DEF ConnectionNotInMap, ReceiveData, DispatchRequest, Abandon
  <2>3. incoming[t] \in Fds /\ Handling(t, incoming[t]) /\ interest[incoming[t]] = "disarmed"
    BY <2>2 DEF SocketInv, UnlockHasNode, HandlerState, Held, Handling
  <2>4. \A u \in Threads : ~Handling(u, incoming[t])'
    BY <1>0, <2>2, <2>3 DEF SocketInv, HandlerExclusive, Handling, TypeOK
  <2>5. c = socket[incoming[t]]
    BY <1>2, <2>2
  <2>6. QED
    BY <2>2, <2>3, <2>4, <2>5
<1>3. QED
  BY <1>1, <1>2

\* A request is whole only in the hands of the thread that received it.
LEMMA RequestInHandNext == ServiceInv /\ Next => RequestInHand'
<1> SUFFICES ASSUME ServiceInv, Next
             PROVE  RequestInHand'
  OBVIOUS
<1> USE DEF ServiceInv
<1>0. TypeOK /\ IteratorValid /\ UnlockHasNode /\ HandlerExclusive /\ OpenDescriptors
  BY DEF SocketInv
<1>1. CASE UNCHANGED <<pc, incoming, conn, connections, message>>
  BY <1>1 DEF RequestInHand, Handling
<1>2. ASSUME NEW t \in Threads, SignalInEpollWait(t) \/ TakeInterrupt(t) \/ TakeListener(t)
                                \/ AcceptFails(t) \/ (\E f \in Fds : Accept(t, f))
                                \/ AddToEpoll(t) \/ UnlockConnection(t) \/ UnlockFreedNode(t)
      PROVE  RequestInHand'
  <2>1. UNCHANGED <<connections, message, conn>>
    BY <1>2 DEF SignalInEpollWait, TakeInterrupt, TakeListener, AcceptFails, Accept,
       AddToEpoll, UnlockConnection, UnlockFreedNode
  <2>2. \A u \in Threads, f \in Fds : Handling(u, f)' => Handling(u, f) /\ pc'[u] = pc[u]
    BY <1>0, <1>2 DEF SignalInEpollWait, TakeInterrupt, TakeListener, AcceptFails, Accept,
       AddToEpoll, UnlockConnection, UnlockFreedNode, Handling, TypeOK
  <2>3. QED
    BY <2>1, <2>2 DEF RequestInHand
<1>3. ASSUME NEW t \in Threads, NEW f \in Fds, TakeSocket(t, f)
      PROVE  RequestInHand'
  BY <1>0, <1>3 DEF TakeSocket, RequestInHand, Handling, TypeOK, SocketInv, NoReplay
<1>4. ASSUME NEW t \in Threads, NEW n \in Nodes, InsertConnection(t, n)
      PROVE  RequestInHand'
  <2> SUFFICES ASSUME NEW u \in Threads, NEW f \in Fds, Handling(u, f)'
               PROVE  /\ pc'[u] \in {"dispatch", "send"} => message'[conn'[u]] = "ready"
                      /\ pc'[u] \notin {"dispatch", "send", "exit"} /\ connections'[f] # NoNode =>
                            message'[connections'[f]] # "ready"
    BY DEF RequestInHand
  <2>1. u # t /\ Handling(u, f) /\ pc'[u] = pc[u] /\ conn'[u] = conn[u] /\ incoming[u] = f
    BY <1>0, <1>4 DEF InsertConnection, Handling, TypeOK
  <2>2. message'[n] = "empty" /\ \A m \in Nodes \ {n} : message'[m] = message[m]
    BY <1>0, <1>4 DEF InsertConnection, TypeOK
  <2>3. CASE pc[u] \in {"dispatch", "send"}
    <3>1. conn[u] = connections[f] /\ conn[u] \in Nodes /\ conn[u] # n
      BY <1>0, <1>4, <2>1, <2>3 DEF InsertConnection, IteratorValid, Allocated, TypeOK
    <3>2. QED
      BY <2>1, <2>2, <2>3, <3>1 DEF RequestInHand
  <2>4. CASE pc[u] \notin {"dispatch", "send", "exit"}
    <3>1. connections[f] # NoNode => message[connections[f]] # "ready"
      BY <2>1, <2>4 DEF RequestInHand
    <3>2. connections'[f] \in {connections[f], n} /\ connections[f] \in Nodes \cup {NoNode}
      BY <1>0, <1>4 DEF InsertConnection, TypeOK
    <3>3. QED
      BY <1>0, <2>1, <2>2, <2>4, <3>1, <3>2
  <2>5. QED
    BY <2>1, <2>3, <2>4
<1>5. ASSUME NEW t \in Threads, FindConnection(t) \/ ConnectionNotInMap(t) \/ LockConnection(t)
                                \/ ReceiveEnd(t) \/ DispatchRequest(t) \/ RemoveFromEpoll(t)
                                \/ Rearm(t)
      PROVE  RequestInHand'
  <2>1. /\ pc[t] # "wait" /\ UNCHANGED <<incoming, connections, message>>
        /\ pc[t] # "find" => conn' = conn
        /\ conn' = [conn EXCEPT ![t] = conn'[t]]
        /\ pc' = [pc EXCEPT ![t] = pc'[t]]
        /\ pc'[t] \in {"lock", "recv", "del", "erase"} =>
                pc[t] \in {"find", "lock", "recv", "del"}
        /\ pc'[t] \in {"send"} => pc[t] = "dispatch"
        /\ pc'[t] \in {"wait", "lock", "recv", "del", "send", "erase", "unlock"}
    BY <1>0, <1>5 DEF FindConnection, ConnectionNotInMap, LockConnection, ReceiveEnd,
       DispatchRequest, Abandon, RemoveFromEpoll, Rearm, TypeOK
  <2>2. \A u \in Threads \ {t} : pc'[u] = pc[u] /\ conn'[u] = conn[u]
    BY <1>0, <2>1 DEF TypeOK
  <2> SUFFICES ASSUME NEW u \in Threads, NEW f \in Fds, Handling(u, f)'
               PROVE  /\ pc'[u] \in {"dispatch", "send"} => message[conn'[u]] = "ready"
                      /\ pc'[u] \notin {"dispatch", "send", "exit"} /\ connections[f] # NoNode =>
                            message[connections[f]] # "ready"
    BY <2>1 DEF RequestInHand
  <2>3. CASE u # t
    BY <2>1, <2>2, <2>3 DEF RequestInHand, Handling
  <2>4. CASE u = t
    <3>1. Handling(t, f)
      BY <1>5, <2>1, <2>4 DEF Handling, FindConnection, ConnectionNotInMap, LockConnection,
         ReceiveEnd, DispatchRequest, RemoveFromEpoll, Rearm
    <3>2. QED
      BY <2>1, <2>4, <3>1 DEF RequestInHand, Handling
  <2>5. QED
    BY <2>3, <2>4
<1>6. ASSUME NEW t \in Threads, Handling(t, incoming[t]), incoming[t] \in Fds,
             conn[t] \in Nodes, connections[incoming[t]] = conn[t],
             NEW p \in {"wait", "dispatch", "rearm"}, NEW m \in {"empty", "partial", "ready"},
             pc' = [pc EXCEPT ![t] = p], message' = [message EXCEPT ![conn[t]] = m],
             p \in {"dispatch", "rearm"} => (p = "dispatch" <=> m = "ready"),
             UNCHANGED <<incoming, conn, connections>>
      PROVE  RequestInHand'
  <2> SUFFICES ASSUME NEW u \in Threads, NEW f \in Fds, Handling(u, f)'
               PROVE  /\ pc'[u] \in {"dispatch", "send"} => message'[conn[u]] = "ready"
                      /\ pc'[u] \notin {"dispatch", "send", "exit"} /\ connections[f] # NoNode =>
                            message'[connections[f]] # "ready"
    BY <1>6 DEF RequestInHand
  <2>1. message'[conn[t]] = m /\ \A k \in Nodes \ {conn[t]} : message'[k] = message[k]
    BY <1>0, <1>6 DEF TypeOK
  <2>2. CASE u = t
    BY <1>0, <1>6, <2>1, <2>2 DEF Handling, TypeOK
  <2>3. CASE u # t
    <3>1. Handling(u, f) /\ pc'[u] = pc[u] /\ f # incoming[t]
      BY <1>0, <1>6, <2>3 DEF Handling, HandlerExclusive, TypeOK
    <3>2. connections[f] # conn[t] \/ connections[f] = NoNode
      BY <1>0, <1>6, <3>1 DEF OpenDescriptors
    <3>3. CASE pc[u] \in {"dispatch", "send"}
      <4>1. conn[u] = connections[f] /\ conn[u] \in Nodes /\ conn[u] # conn[t]
        BY <1>0, <3>1, <3>2, <3>3 DEF IteratorValid, Handling, TypeOK
      <4>2. QED
        BY <2>1, <3>1, <3>3, <4>1 DEF RequestInHand
    <3>4. CASE pc[u] \notin {"dispatch", "send", "exit"}
      <4>1. connections[f] # NoNode => message[connections[f]] # "ready"
        BY <3>1, <3>4 DEF RequestInHand
      <4>2. connections[f] # NoNode => connections[f] \in Nodes \ {conn[t]}
        BY <1>0, <1>6, <3>2 DEF TypeOK
      <4>3. QED
        BY <2>1, <3>1, <3>4, <4>1, <4>2
    <3>5. QED
      BY <3>1, <3>3, <3>4
  <2>4. QED
    BY <2>2, <2>3
<1>7. ASSUME NEW t \in Threads, pc[t] \in {"recv", "send", "erase"}
      PROVE  /\ Handling(t, incoming[t]) /\ incoming[t] \in Fds
             /\ conn[t] \in Nodes /\ connections[incoming[t]] = conn[t]
             /\ socket[incoming[t]] \in Clients
  BY <1>0, <1>7 DEF Handling, IteratorValid, UnlockHasNode, TypeOK, SocketInv, HandlerState, Held
<1>8. ASSUME NEW t \in Threads, ReceiveData(t)
      PROVE  RequestInHand'
  <2>1. Parse(message[conn[t]], inbox[socket[incoming[t]]]) \in {"ready", "partial", "throw"}
    BY <1>0, <1>7, <1>8, ParseType DEF ReceiveData, TypeOK
  <2>2. QED
    BY <1>6, <1>7, <1>8, <2>1 DEF ReceiveData, Abandon
<1>9. ASSUME NEW t \in Threads, SendResponse(t)
      PROVE  RequestInHand'
  BY <1>6, <1>7, <1>9 DEF SendResponse
<1>10. ASSUME NEW t \in Threads, EraseConnection(t)
       PROVE  RequestInHand'
  <2>1. \A u \in Threads, f \in Fds : Handling(u, f)' => u # t /\ Handling(u, f) /\ f # incoming[t]
    BY <1>0, <1>7, <1>10 DEF EraseConnection, Handling, HandlerExclusive, TypeOK
  <2>2. \A f \in Fds \ {incoming[t]} : connections'[f] = connections[f]
    BY <1>0, <1>10 DEF EraseConnection, TypeOK
  <2>3. \A u \in Threads \ {t} : pc'[u] = pc[u]
    BY <1>0, <1>10 DEF EraseConnection, TypeOK
  <2>4. message' = message /\ conn' = conn
    BY <1>10 DEF EraseConnection
  <2>5. QED
    BY <2>1, <2>2, <2>3, <2>4 DEF RequestInHand
<1>12. ASSUME NEW t \in Threads, ReceiveFails(t) \/ SendFails(t) \/ SignalInSend(t)
       PROVE  RequestInHand'
  <2>1. UNCHANGED <<incoming, conn, connections, message>>
    BY <1>12 DEF ReceiveFails, SendFails, SignalInSend
  <2>2. \A u \in Threads, f \in Fds : Handling(u, f)' =>
            Handling(u, f) /\ pc'[u] \in {pc[u], "exit"}
    BY <1>0, <1>12 DEF ReceiveFails, SendFails, SignalInSend, Handling, TypeOK
  <2>3. QED
    BY <2>1, <2>2 DEF RequestInHand
<1>11. QED
  BY <1>1, <1>2, <1>3, <1>4, <1>5, <1>8, <1>9, <1>10, <1>12 DEF Next, Ended, vars, Client, Connect,
     SendChunk, Close, Reset, Listen, SignalBeforeListen, Signal, StopWatching, MainReturns,
     ExitCompletes, ExitAgain, Serve, Run, server

LEMMA ServiceInvNext == ServiceInv /\ [Next]_vars => ServiceInv'
<1>1. ServiceInv /\ Next => ServiceInv'
  BY SocketInvNext, AbandonedForGoodNext, RequestInHandNext DEF ServiceInv
<1>2. ServiceInv /\ UNCHANGED vars => ServiceInv'
  BY SocketInvNext DEF vars, ServiceInv, AbandonedForGood, RequestInHand, Handling
<1>3. QED
  BY <1>1, <1>2
-----------------------------------------------------------------------------
(***************************************************************************)
(* Each step, as its clients see it.                                       *)
(***************************************************************************)

\* A step that changes nothing of client d or of its descriptor.
Untouched(d) ==
    /\ d \in abandoned' <=> d \in abandoned
    /\ peer'[d] = "idle" <=> peer[d] = "idle"
    /\ (\E i \in DOMAIN backlog' : backlog'[i] = d) <=> (\E i \in DOMAIN backlog : backlog[i] = d)
    /\ \A f \in Fds : socket'[f] = d <=> socket[f] = d
    /\ \A f \in Fds : socket[f] = d =>
            /\ \A t \in Threads : Handling(t, f)' <=> Handling(t, f)
            /\ \A t \in Threads : Registering(t, f)' <=> Registering(t, f)
            /\ ReadyAt(f)' <=> ReadyAt(f)

LEMMA UntouchedSame ==
    ASSUME View, View', NEW d \in Clients, Untouched(d)
    PROVE  Same(d)
<1>1. CASE d \in abandoned
  <2>1. StatusOf(d) = "stranded" /\ StatusOf(d)' = "stranded"
    BY <1>1 DEF Untouched, View, Stranded
  <2>2. ServersOf(d)' = ServersOf(d) /\ (Unanswered(d)' <=> Unanswered(d))
    <3>1. CASE \E f \in Fds : socket[f] = d
      <4>1. PICK f \in Fds : socket[f] = d
        BY <3>1
      <4>2. socket'[f] = d
        BY <4>1 DEF Untouched
      <4>3. /\ ServersOf(d) = {t \in Threads : Handling(t, f)}
            /\ Unanswered(d) <=> ReadyAt(f)
            /\ ServersOf(d)' = {t \in Threads : Handling(t, f)'}
            /\ Unanswered(d)' <=> ReadyAt(f)'
        BY <4>1, <4>2 DEF View, Connected
      <4>4. QED
        BY <4>1, <4>3 DEF Untouched
    <3>2. CASE \A f \in Fds : socket[f] # d
      BY <3>2 DEF Untouched, View, NotConnected
    <3>3. QED
      BY <3>1, <3>2
  <2>3. Unanswered(d) \in BOOLEAN /\ Unanswered(d)' \in BOOLEAN
    BY DEF Unanswered
  <2>4. QED
    BY <2>1, <2>2, <2>3 DEF Same
<1>2. CASE d \notin abandoned
  <2>1. d \notin abandoned'
    BY <1>2 DEF Untouched
  <2>2. Unanswered(d) \in BOOLEAN /\ Unanswered(d)' \in BOOLEAN
    BY DEF Unanswered
  <2>3. CASE \E f \in Fds : socket[f] = d
    <3>1. PICK f \in Fds : socket[f] = d
      BY <2>3
    <3>2. socket'[f] = d
      BY <3>1 DEF Untouched
    <3>3. ServersOf(d) = {t \in Threads : Handling(t, f)}
          /\ ServersOf(d)' = {t \in Threads : Handling(t, f)'}
      BY <3>1, <3>2 DEF View, Connected
    <3>4. ServersOf(d)' = ServersOf(d)
      BY <3>1, <3>3 DEF Untouched
    <3>5. Unanswered(d)' = Unanswered(d)
      BY <2>2, <3>1, <3>2 DEF Untouched, View, Connected
    <3>6. StatusOf(d)' = StatusOf(d)
      BY <1>2, <2>1, <3>1, <3>2 DEF Untouched, View, Connected
    <3>7. QED
      BY <3>4, <3>5, <3>6 DEF Same
  <2>4. CASE \A f \in Fds : socket[f] # d
    BY <1>2, <2>1, <2>2, <2>4 DEF Same, Untouched, View, NotConnected
  <2>5. QED
    BY <2>3, <2>4
<1>3. QED
  BY <1>1, <1>2

\* Steps that no client sees.
LEMMA InvisibleToAll ==
    ASSUME View, View', \A d \in Clients : Untouched(d), process = "running"
    PROVE  [Service!Next]_(Service!state)
<1>1. \A d \in Clients : Same(d)
  BY UntouchedSame
<1>2. CASE process' = process
  BY <1>1, <1>2, InvisibleStep
<1>3. CASE process' # process
  BY <1>1, <1>3, StopStep
<1>4. QED
  BY <1>2, <1>3

\* What a thread that handles an event has: a connected client of its own,
\* which is not abandoned.
LEMMA HandlerHas ==
    ASSUME ServiceInv, NEW t \in Threads, Handling(t, incoming[t]), pc[t] # "exit"
    PROVE  /\ incoming[t] \in Fds
           /\ socket[incoming[t]] \in Clients
           /\ socket[incoming[t]] \notin abandoned
           /\ ServersOf(socket[incoming[t]]) = {t}
           /\ StatusOf(socket[incoming[t]]) = "open"
           /\ Unanswered(socket[incoming[t]]) <=> ReadyAt(incoming[t])
           /\ pc[t] # "find" => conn[t] \in Nodes /\ connections[incoming[t]] = conn[t]
           /\ ReadyAt(incoming[t]) <=> pc[t] \in {"dispatch", "send"}
<1> DEFINE f == incoming[t]
           c == socket[f]
<1> USE DEF ServiceInv
<1>0. TypeOK /\ View
  BY ViewOfState DEF SocketInv
<1>1. f \in Fds /\ c \in Clients /\ Held(t, f)
  BY <1>0 DEF Handling, SocketInv, UnlockHasNode, HandlerState, Held, TypeOK
<1>2. c \notin abandoned
  BY <1>1 DEF AbandonedForGood, SocketInv, ClientsInOnePlace, Held
<1>3. {u \in Threads : Handling(u, f)} = {t}
  BY <1>1 DEF SocketInv, HandlerExclusive
<1>4. ServersOf(c) = {t} /\ (Unanswered(c) <=> ReadyAt(f))
  BY <1>0, <1>1, <1>3 DEF View, Connected
<1>5. StatusOf(c) = "open"
  <2>1. ~\E u \in Threads : Registering(u, f)
    BY <1>1 DEF Registering, SocketInv, Accepting, IteratorValid, Held, Handling
  <2>2. StatusOf(c) = IF \E u \in Threads : Registering(u, f) THEN "queued" ELSE "open"
    BY <1>0, <1>1, <1>2 DEF View, Connected
  <2>3. QED
    BY <2>1, <2>2
<1>6. pc[t] # "find" => conn[t] \in Nodes /\ connections[f] = conn[t]
  BY <1>0 DEF SocketInv, IteratorValid, Handling, TypeOK
<1>7. ReadyAt(f) <=> pc[t] \in {"dispatch", "send"}
  BY <1>1, <1>6 DEF RequestInHand, ReadyAt
<1>8. QED
  BY <1>1, <1>2, <1>4, <1>5, <1>6, <1>7

\* A thread that handles an event leaves the other clients alone.
LEMMA OthersUntouched ==
    ASSUME ServiceInv, NEW t \in Threads, Handling(t, incoming[t]), pc[t] # "exit",
           NEW p \in PcStates \ {"add"}, pc' = [pc EXCEPT ![t] = p],
           UNCHANGED <<incoming, backlog, peer>>,
           socket'[incoming[t]] \in {socket[incoming[t]], NoClient},
           \A g \in Fds \ {incoming[t]} :
                /\ socket'[g] = socket[g]
                /\ connections'[g] = connections[g]
                /\ connections[g] # NoNode => message'[connections[g]] = message[connections[g]],
           abandoned' \in {abandoned, abandoned \cup {socket[incoming[t]]}}
    PROVE  \A d \in Clients \ {socket[incoming[t]]} : Untouched(d)
<1> SUFFICES ASSUME NEW d \in Clients, d # socket[incoming[t]]
             PROVE  Untouched(d)
  OBVIOUS
<1>1. pc \in [Threads -> PcStates] /\ incoming[t] \in Fds
  BY HandlerHas DEF ServiceInv, SocketInv, TypeOK
<1>2. d \in abandoned' <=> d \in abandoned
  OBVIOUS
<1>3. \A f \in Fds : socket'[f] = d <=> socket[f] = d
  OBVIOUS
<1>4. ASSUME NEW f \in Fds, socket[f] = d
      PROVE  /\ \A u \in Threads : Handling(u, f)' <=> Handling(u, f)
             /\ \A u \in Threads : Registering(u, f)' <=> Registering(u, f)
             /\ ReadyAt(f)' <=> ReadyAt(f)
  BY <1>1, <1>4 DEF Handling, Registering, ReadyAt
<1>5. QED
  BY <1>2, <1>3, <1>4 DEF Untouched

\* find(), lock(), recv() of the end of file, an answer that is about to be
\* sent and EPOLL_CTL_DEL are invisible.
LEMMA HandlerMoves ==
    ASSUME ServiceInv, ServiceInv', NEW t \in Threads, process = "running",
           \/ FindConnection(t) \/ LockConnection(t) \/ ReceiveEnd(t) \/ RemoveFromEpoll(t)
           \/ DispatchRequest(t) /\ pc' = [pc EXCEPT ![t] = "send"] /\ abandoned' = abandoned
    PROVE  [Service!Next]_(Service!state)
<1>1. View /\ View' /\ TypeOK
  BY ViewOfState, ViewAfter DEF ServiceInv, SocketInv
<1>2. /\ Handling(t, incoming[t])
      /\ UNCHANGED <<backlog, peer, socket, abandoned, incoming, connections, message>>
      /\ pc' = [pc EXCEPT ![t] = pc'[t]]
      /\ pc'[t] \in {"lock", "recv", "del", "erase", "send"}
  BY <1>1 DEF Handling, FindConnection, LockConnection, ReceiveEnd, RemoveFromEpoll,
     DispatchRequest, environment, TypeOK
<1>3. /\ \A u \in Threads, f \in Fds : Handling(u, f)' <=> Handling(u, f)
      /\ \A u \in Threads, f \in Fds : Registering(u, f)' <=> Registering(u, f)
  BY <1>1, <1>2 DEF Handling, Registering, TypeOK
<1>4. \A d \in Clients : Untouched(d)
  BY <1>2, <1>3 DEF Untouched, ReadyAt
<1>5. QED
  BY <1>1, <1>4, InvisibleToAll

\* An exception strands the client.
LEMMA HandlerThrows ==
    ASSUME ServiceInv, ServiceInv', NEW t \in Threads, process = "running",
           process' = process,
           NEW f \in Fds, f = incoming[t], NEW c \in Clients, c = socket[f],
           Handling(t, f), pc[t] # "exit",
           UNCHANGED <<backlog, peer, socket, incoming, connections>>,
           pc' = [pc EXCEPT ![t] = "wait"],
           abandoned' = abandoned \cup {c},
           \A g \in Fds \ {f} :
                connections[g] # NoNode => message'[connections[g]] = message[connections[g]],
           ReadyAt(f)' <=> ReadyAt(f)
    PROVE  [Service!Next]_(Service!state)
<1>1. View /\ View' /\ TypeOK
  BY ViewOfState, ViewAfter DEF ServiceInv, SocketInv
<1>2. /\ socket'[f] = c /\ ServersOf(c) = {t} /\ (Unanswered(c) <=> ReadyAt(f))
  BY HandlerHas
<1>3. \A d \in Clients \ {c} : Same(d)
  BY <1>1, OthersUntouched, UntouchedSame DEF PcStates
<1>4. StatusOf(c)' = "stranded"
  BY <1>1 DEF View, Stranded
<1>5. ServersOf(c)' = {}
  <2>1. ServersOf(c)' = {u \in Threads : Handling(u, f)'}
    BY <1>1, <1>2 DEF View, Connected
  <2>2. \A u \in Threads : ~Handling(u, f)'
    BY <1>1, <1>2 DEF ServiceInv, SocketInv, HandlerExclusive, Handling, TypeOK
  <2>3. QED
    BY <2>1, <2>2
<1>6. Unanswered(c)' = Unanswered(c)
  <2>1. Unanswered(c)' <=> ReadyAt(f)'
    BY <1>1, <1>2 DEF View, Connected
  <2>2. Unanswered(c) \in BOOLEAN /\ Unanswered(c)' \in BOOLEAN
    BY DEF Unanswered
  <2>3. QED
    BY <1>2, <2>1, <2>2
<1>7. Service!Next
  BY <1>2, <1>3, <1>4, <1>5, <1>6, StrandStep
<1>8. QED
  BY <1>7

LEMMA ThrowingSteps ==
    ASSUME ServiceInv, ServiceInv', NEW t \in Threads, process = "running",
           ConnectionNotInMap(t) \/ ReceiveData(t) \/ DispatchRequest(t),
           pc' = [pc EXCEPT ![t] = "wait"],
           abandoned' = abandoned \cup {socket[incoming[t]]}
    PROVE  [Service!Next]_(Service!state)
<1>1. TypeOK /\ OpenDescriptors /\ Handling(t, incoming[t]) /\ pc[t] # "exit"
  BY DEF ServiceInv, SocketInv, Handling, ConnectionNotInMap, ReceiveData, DispatchRequest
<1>2. PICK f \in Fds : f = incoming[t]
  BY <1>1, HandlerHas
<1>3. PICK c \in Clients : c = socket[f]
  BY <1>1, <1>2, HandlerHas
<1>4. UNCHANGED <<backlog, peer, socket, incoming, connections>> /\ process' = process
  BY DEF ConnectionNotInMap, ReceiveData, DispatchRequest, environment, control
<1>5. /\ \A g \in Fds \ {f} :
            connections[g] # NoNode => message'[connections[g]] = message[connections[g]]
      /\ ReadyAt(f)' <=> ReadyAt(f)
  <2>1. CASE ConnectionNotInMap(t) \/ DispatchRequest(t)
    BY <2>1 DEF ConnectionNotInMap, DispatchRequest, ReadyAt
  <2>2. CASE ReceiveData(t)
    <3>1. /\ pc[t] = "recv" /\ conn[t] \in Nodes /\ connections[f] = conn[t]
          /\ ~ReadyAt(f)
      BY <1>1, <1>2, <2>2, HandlerHas DEF ReceiveData
    <3>2. message' = [message EXCEPT ![conn[t]] = "partial"]
      BY <1>1, <2>2, <3>1 DEF ReceiveData, TypeOK, PcStates
    <3>3. message'[conn[t]] = "partial"
          /\ \A n \in Nodes \ {conn[t]} : message'[n] = message[n]
      BY <1>1, <3>1, <3>2 DEF TypeOK
    <3>4. \A g \in Fds \ {f} : connections[g] # NoNode => connections[g] \in Nodes \ {conn[t]}
      BY <1>1, <3>1 DEF OpenDescriptors, TypeOK
    <3>5. QED
      BY <1>4, <3>1, <3>3, <3>4 DEF ReadyAt
  <2>3. QED
    BY <2>1, <2>2
<1>6. QED
  BY <1>1, <1>2, <1>3, <1>4, <1>5, HandlerThrows

\* A request becomes whole, or is answered.
LEMMA RequestSteps ==
    ASSUME ServiceInv, ServiceInv', NEW t \in Threads, process = "running",
           process' = process,
           Handling(t, incoming[t]), pc[t] \notin {"find", "exit"},
           NEW p \in {"dispatch", "rearm"}, pc' = [pc EXCEPT ![t] = p],
           NEW m \in {"empty", "partial", "ready"}, message' = [message EXCEPT ![conn[t]] = m],
           UNCHANGED <<backlog, peer, socket, incoming, connections, abandoned>>
    PROVE  [Service!Next]_(Service!state)
<1>1. View /\ View' /\ TypeOK /\ OpenDescriptors
  BY ViewOfState, ViewAfter DEF ServiceInv, SocketInv
<1>2. PICK f \in Fds : f = incoming[t]
  BY HandlerHas
<1>3. PICK c \in Clients : c = socket[f]
  BY <1>2, HandlerHas
<1>4. Handling(t, incoming[t])'
  BY <1>1 DEF Handling, TypeOK
<1>5. /\ ServersOf(c) = {t} /\ StatusOf(c) = "open" /\ (Unanswered(c) <=> ReadyAt(f))
  BY <1>2, <1>3, HandlerHas
<1>6. ServersOf(c)' = {t} /\ StatusOf(c)' = "open" /\ (Unanswered(c)' <=> ReadyAt(f)')
  <2>1. incoming'[t] = f /\ socket'[f] = c
    BY <1>2, <1>3
  <2>2. /\ ServersOf(c)' = {u \in Threads : Handling(u, f)'}
        /\ Unanswered(c)' <=> ReadyAt(f)'
        /\ c \notin abandoned' => StatusOf(c)' =
                IF \E u \in Threads : Registering(u, f)' THEN "queued" ELSE "open"
    BY <1>1, <2>1 DEF View, Connected
  <2>3. {u \in Threads : Handling(u, f)'} = {u \in Threads : Handling(u, f)}
    BY <1>1, <1>2 DEF Handling, TypeOK
  <2>4. {u \in Threads : Handling(u, f)} = {t}
    BY <1>1, <1>3, <1>5 DEF View, Connected
  <2>5. ~\E u \in Threads : Registering(u, f)
    BY <1>1, <1>3, <1>5, <1>2, HandlerHas DEF View, Connected
  <2>6. ~\E u \in Threads : Registering(u, f)'
    BY <1>1, <2>5 DEF Registering, TypeOK
  <2>7. c \notin abandoned'
    BY <1>2, <1>3, HandlerHas
  <2>8. QED
    BY <2>2, <2>3, <2>4, <2>6, <2>7
<1>7. \A g \in Fds \ {f} :
            connections[g] # NoNode => message'[connections[g]] = message[connections[g]]
  <2>1. conn[t] \in Nodes /\ connections[f] = conn[t]
    BY <1>2, HandlerHas
  <2>2. \A g \in Fds \ {f} : connections[g] # NoNode => connections[g] \in Nodes \ {conn[t]}
    BY <1>1, <2>1 DEF OpenDescriptors, TypeOK
  <2>3. QED
    BY <1>1, <2>1, <2>2 DEF TypeOK
<1>8. \A d \in Clients \ {c} : Same(d)
  BY <1>1, <1>2, <1>3, <1>7, OthersUntouched, UntouchedSame DEF PcStates
<1>9. Unanswered(c) \in BOOLEAN /\ Unanswered(c)' \in BOOLEAN
  BY DEF Unanswered
<1>10. CASE ReadyAt(f)' <=> ReadyAt(f)
  <2>1. Same(c)
    BY <1>5, <1>6, <1>9, <1>10 DEF Same
  <2>2. QED
    BY <1>8, <2>1, InvisibleStep
<1>11. CASE ~(ReadyAt(f)' <=> ReadyAt(f))
  <2>1. Unanswered(c)' = ~Unanswered(c)
    BY <1>5, <1>6, <1>9, <1>11
  <2>2. Service!Next
    BY <1>5, <1>6, <1>8, <2>1, RequestStep
  <2>3. QED
    BY <2>2
<1>12. QED
  BY <1>10, <1>11

LEMMA ReceiveAndAnswer ==
    ASSUME ServiceInv, ServiceInv', NEW t \in Threads, process = "running",
           ReceiveData(t) \/ SendResponse(t) \/ DispatchRequest(t)
    PROVE  [Service!Next]_(Service!state)
<1>1. TypeOK /\ Handling(t, incoming[t]) /\ pc[t] \notin {"find", "exit"}
  BY DEF ServiceInv, SocketInv, Handling, ReceiveData, SendResponse, DispatchRequest
<1>2. CASE SendResponse(t)
  BY <1>1, <1>2, RequestSteps DEF SendResponse, environment, control
<1>3. CASE DispatchRequest(t)
  BY <1>3, HandlerMoves, ThrowingSteps DEF DispatchRequest, Abandon
<1>4. CASE ReceiveData(t)
  <2>1. socket[incoming[t]] \in Clients /\ conn[t] \in Nodes
    BY <1>1, <1>4, HandlerHas DEF ReceiveData
  <2>2. Parse(message[conn[t]], inbox[socket[incoming[t]]]) \in {"ready", "partial", "throw"}
    BY <1>1, <2>1, ParseType DEF TypeOK
  <2>3. CASE Abandon(t)
    BY <1>4, <2>3, ThrowingSteps DEF Abandon
  <2>4. CASE ~Abandon(t)
    BY <1>1, <1>4, <2>2, <2>4, RequestSteps DEF ReceiveData, control
  <2>5. QED
    BY <2>3, <2>4
<1>5. QED
  BY <1>2, <1>3, <1>4

\* The thread lets go of the connection.
LEMMA LetGo ==
    ASSUME ServiceInv, ServiceInv', NEW t \in Threads, process = "running",
           Rearm(t) \/ EraseConnection(t)
    PROVE  [Service!Next]_(Service!state)
<1>1. View /\ View' /\ TypeOK /\ Handling(t, incoming[t]) /\ pc[t] # "exit"
  BY ViewOfState, ViewAfter DEF ServiceInv, SocketInv, Rearm, EraseConnection, Handling
<1>2. PICK f \in Fds : f = incoming[t]
  BY <1>1, HandlerHas
<1>3. PICK c \in Clients : c = socket[f]
  BY <1>1, <1>2, HandlerHas
<1>4. /\ ServersOf(c) = {t} /\ StatusOf(c) = "open" /\ (Unanswered(c) <=> ReadyAt(f))
      /\ ~ReadyAt(f) /\ c \notin abandoned
  BY <1>1, <1>2, <1>3, HandlerHas DEF Rearm, EraseConnection
<1>5. /\ UNCHANGED <<backlog, peer, incoming, message, abandoned>> /\ process' = process
      /\ pc' = [pc EXCEPT ![t] = "unlock"]
      /\ socket'[f] \in {socket[f], NoClient}
      /\ \A g \in Fds \ {f} : socket'[g] = socket[g] /\ connections'[g] = connections[g]
  BY <1>1, <1>2 DEF Rearm, EraseConnection, environment, control, TypeOK
<1>6. \A d \in Clients \ {c} : Same(d)
  BY <1>1, <1>2, <1>3, <1>5, OthersUntouched, UntouchedSame DEF PcStates
<1>7. Unanswered(c) = FALSE
  BY <1>4 DEF Unanswered
<1>8. ServersOf(c)' = {} /\ Unanswered(c)' = FALSE /\ StatusOf(c)' \in {"open", "closed"}
  <2>1. CASE Rearm(t)
    <3>1. socket'[f] = c /\ connections' = connections /\ message' = message
      BY <1>3, <2>1 DEF Rearm
    <3>2. /\ ServersOf(c)' = {u \in Threads : Handling(u, f)'}
          /\ Unanswered(c)' <=> ReadyAt(f)'
          /\ c \notin abandoned' => StatusOf(c)' =
                  IF \E u \in Threads : Registering(u, f)' THEN "queued" ELSE "open"
      BY <1>1, <3>1 DEF View, Connected
    <3>3. \A u \in Threads : ~Handling(u, f)'
      BY <1>1, <1>2, <1>5 DEF ServiceInv, SocketInv, HandlerExclusive, Handling, TypeOK
    <3>4. ~\E u \in Threads : Registering(u, f)'
      <4>1. ~\E u \in Threads : Registering(u, f)
        BY <1>1, <1>3, <1>4 DEF View, Connected
      <4>2. QED
        BY <1>1, <1>5, <4>1 DEF Registering, TypeOK
    <3>5. ~ReadyAt(f)'
      BY <1>4, <3>1 DEF ReadyAt
    <3>6. Unanswered(c)' \in BOOLEAN
      BY DEF Unanswered
    <3>7. QED
      BY <1>4, <1>5, <3>2, <3>3, <3>4, <3>5, <3>6
  <2>2. CASE EraseConnection(t)
    <3>1. \A g \in Fds : socket'[g] # c
      BY <1>1, <1>2, <1>3, <2>2 DEF EraseConnection, ServiceInv, SocketInv, ClientsInOnePlace, TypeOK
    <3>2. peer'[c] # "idle" /\ ~\E i \in DOMAIN backlog' : backlog'[i] = c
      BY <1>3, <1>5 DEF ServiceInv, SocketInv, ClientsInOnePlace
    <3>3. Unanswered(c)' \in BOOLEAN
      BY DEF Unanswered
    <3>4. QED
      BY <1>1, <1>4, <1>5, <3>1, <3>2, <3>3 DEF View, NotConnected
  <2>3. QED
    BY <2>1, <2>2
<1>9. Service!Next
  BY <1>4, <1>5, <1>6, <1>7, <1>8, ReleaseStep
<1>10. QED
  BY <1>9

\* Taking an event.
LEMMA TakeEvent ==
    ASSUME ServiceInv, ServiceInv', NEW t \in Threads, NEW f \in Fds, process = "running",
           TakeSocket(t, f)
    PROVE  [Service!Next]_(Service!state)
<1>1. View /\ View' /\ TypeOK /\ socket[f] \in Clients
  BY ViewOfState, ViewAfter DEF ServiceInv, SocketInv, TakeSocket, Readable
<1>2. PICK c \in Clients : c = socket[f]
  BY <1>1
<1>3. /\ UNCHANGED <<backlog, peer, socket, connections, message, abandoned>>
      /\ process' = process /\ pc[t] = "wait"
      /\ pc' = [pc EXCEPT ![t] = "find"] /\ incoming' = [incoming EXCEPT ![t] = f]
  BY DEF TakeSocket, environment, control
<1>4. c \notin abandoned
  BY <1>2 DEF ServiceInv, AbandonedForGood, SocketInv, ClientsInOnePlace, TakeSocket
<1>5. \A u \in Threads : ~Handling(u, f) /\ ~Registering(u, f)
  BY DEF ServiceInv, SocketInv, HandlerState, Held, Accepting, TakeSocket, Registering, Handling
<1>6. ~ReadyAt(f) /\ ~ReadyAt(f)'
  BY <1>3 DEF ServiceInv, SocketInv, NoReplay, TakeSocket, ReadyAt
<1>7. ServersOf(c) = {} /\ StatusOf(c) = "open" /\ ~Unanswered(c)
  BY <1>1, <1>2, <1>4, <1>5, <1>6 DEF View, Connected
<1>8. ServersOf(c)' = {t} /\ StatusOf(c)' = "open" /\ ~Unanswered(c)'
  <2>1. socket'[f] = c /\ c \notin abandoned'
    BY <1>2, <1>3, <1>4
  <2>2. /\ ServersOf(c)' = {u \in Threads : Handling(u, f)'}
        /\ Unanswered(c)' <=> ReadyAt(f)'
        /\ StatusOf(c)' = IF \E u \in Threads : Registering(u, f)' THEN "queued" ELSE "open"
    BY <1>1, <2>1 DEF View, Connected
  <2>3. \A u \in Threads : ~Registering(u, f)' /\ (Handling(u, f)' <=> u = t)
    BY <1>1, <1>3, <1>5 DEF Registering, Handling, TypeOK
  <2>4. QED
    BY <1>6, <2>2, <2>3
<1>9. \A d \in Clients \ {c} : Same(d)
  <2>1. ASSUME NEW d \in Clients \ {c}
        PROVE  Untouched(d)
    <3>1. ASSUME NEW g \in Fds \ {f}, NEW u \in Threads
          PROVE  (Handling(u, g)' <=> Handling(u, g)) /\ (Registering(u, g)' <=> Registering(u, g))
      BY <1>1, <1>3, <3>1 DEF Registering, Handling, TypeOK
    <3>2. QED
      BY <1>2, <1>3, <2>1, <3>1 DEF Untouched, ReadyAt
  <2>2. QED
    BY <1>1, <2>1, UntouchedSame
<1>10. Unanswered(c)' = Unanswered(c)
  BY <1>7, <1>8 DEF Unanswered
<1>11. Service!Next
  BY <1>3, <1>7, <1>8, <1>9, <1>10, TakeStep
<1>12. QED
  BY <1>11

\* The handshake.
LEMMA Handshake ==
    ASSUME ServiceInv, ServiceInv', NEW c \in Clients, process = "running", Connect(c)
    PROVE  [Service!Next]_(Service!state)
<1>1. View /\ View' /\ TypeOK
  BY ViewOfState, ViewAfter DEF ServiceInv, SocketInv
<1>2. /\ UNCHANGED <<server, control>> /\ peer[c] = "idle"
      /\ peer' = [peer EXCEPT ![c] = "open"] /\ backlog' = Append(backlog, c)
  BY DEF Connect
<1>3. \A f \in Fds : socket[f] # c
  BY <1>1, <1>2 DEF ServiceInv, SocketInv, ClientsInOnePlace
<1>4. c \notin abandoned
  BY <1>3 DEF ServiceInv, AbandonedForGood
<1>5. /\ \E i \in DOMAIN backlog' : backlog'[i] = c
      /\ \A d \in Clients \ {c} : (\E i \in DOMAIN backlog' : backlog'[i] = d)
                                  <=> (\E i \in DOMAIN backlog : backlog[i] = d)
  <2>1. /\ Len(backlog) \in Nat /\ DOMAIN backlog = 1..Len(backlog)
        /\ DOMAIN backlog' = 1..(Len(backlog) + 1)
        /\ \A i \in DOMAIN backlog' : backlog'[i] = IF i = Len(backlog) + 1 THEN c ELSE backlog[i]
    BY <1>1, <1>2 DEF TypeOK
  <2> DEFINE n == Len(backlog) + 1
  <2>2. n \in DOMAIN backlog' /\ backlog'[n] = c
    BY <2>1
  <2>3. \A i \in DOMAIN backlog : i \in DOMAIN backlog' /\ backlog'[i] = backlog[i]
    BY <2>1
  <2>4. \A i \in DOMAIN backlog' : i # n => i \in DOMAIN backlog
    BY <2>1
  <2> HIDE DEF n
  <2>5. QED
    BY <2>2, <2>3, <2>4
<1>6. peer'[c] # "idle" /\ \A d \in Clients \ {c} : peer'[d] = peer[d]
  BY <1>1, <1>2 DEF TypeOK
<1>7. StatusOf(c) = "away" /\ ServersOf(c) = {} /\ Unanswered(c) = FALSE
  BY <1>1, <1>2, <1>3, <1>4 DEF View, NotConnected, Unanswered
<1>8. StatusOf(c)' = "queued" /\ ServersOf(c)' = {} /\ Unanswered(c)' = FALSE
  <2>1. (\A f \in Fds : socket'[f] # c) /\ c \notin abandoned'
    BY <1>2, <1>3, <1>4 DEF server
  <2>2. Unanswered(c)' \in BOOLEAN
    BY DEF Unanswered
  <2>3. QED
    BY <1>1, <1>5, <1>6, <2>1, <2>2 DEF View, NotConnected
<1>9. \A d \in Clients \ {c} : Same(d)
  <2>1. \A d \in Clients \ {c} : Untouched(d)
    BY <1>2, <1>5, <1>6 DEF Untouched, server, Handling, Registering, ReadyAt
  <2>2. QED
    BY <1>1, <2>1, UntouchedSame
<1>10. process' = process
  BY <1>2 DEF control
<1>11. Service!Next
  BY <1>7, <1>8, <1>9, <1>10, QueueStep
<1>12. QED
  BY <1>11

\* accept(): the client leaves the queue for a descriptor that is not yet
\* served.
LEMMA AcceptInvisible ==
    ASSUME ServiceInv, ServiceInv', NEW t \in Threads, NEW f \in Fds, process = "running",
           Accept(t, f)
    PROVE  [Service!Next]_(Service!state)
<1>1. View /\ View' /\ TypeOK
  BY ViewOfState, ViewAfter DEF ServiceInv, SocketInv
<1>2. backlog # <<>> /\ backlog \in Seq(Clients) /\ Head(backlog) = backlog[1]
      /\ backlog[1] \in Clients /\ 1 \in DOMAIN backlog
  BY <1>1 DEF Accept, TypeOK
<1>3. PICK c \in Clients : c = backlog[1]
  BY <1>2
<1>4. /\ UNCHANGED <<peer, connections, message, abandoned>> /\ process' = process
      /\ pc[t] = "accept" /\ pc' = [pc EXCEPT ![t] = "add"]
      /\ incoming' = [incoming EXCEPT ![t] = f]
      /\ socket[f] = NoClient /\ socket' = [socket EXCEPT ![f] = c]
      /\ backlog' = Tail(backlog)
  BY <1>2, <1>3 DEF Accept, control
<1>5. (\A g \in Fds : socket[g] # c) /\ peer[c] # "idle"
  BY <1>2, <1>3 DEF ServiceInv, SocketInv, ClientsInOnePlace
<1>6. c \notin abandoned
  BY <1>5 DEF ServiceInv, AbandonedForGood
<1>7. /\ connections[f] = NoNode
      /\ \A u \in Threads : ~Handling(u, f)
  BY <1>4 DEF ServiceInv, SocketInv, AddressMatchesSocket, HandlerState, Held
<1>8. StatusOf(c) = "queued" /\ ServersOf(c) = {} /\ Unanswered(c) = FALSE
  <2>1. \E i \in DOMAIN backlog : backlog[i] = c
    BY <1>2, <1>3
  <2>2. QED
    BY <1>1, <1>5, <1>6, <2>1 DEF View, NotConnected, Unanswered
<1>9. StatusOf(c)' = "queued" /\ ServersOf(c)' = {} /\ Unanswered(c)' = FALSE
  <2>1. socket'[f] = c /\ c \notin abandoned'
    BY <1>1, <1>4, <1>6 DEF TypeOK
  <2>2. /\ ServersOf(c)' = {u \in Threads : Handling(u, f)'}
        /\ Unanswered(c)' <=> ReadyAt(f)'
        /\ StatusOf(c)' = IF \E u \in Threads : Registering(u, f)' THEN "queued" ELSE "open"
    BY <1>1, <2>1 DEF View, Connected
  <2>3. Registering(t, f)' /\ \A u \in Threads : ~Handling(u, f)'
    BY <1>1, <1>4, <1>7 DEF Registering, Handling, TypeOK
  <2>4. ~ReadyAt(f)' /\ Unanswered(c)' \in BOOLEAN
    BY <1>4, <1>7 DEF ReadyAt, Unanswered
  <2>5. QED
    BY <2>2, <2>3, <2>4
<1>10. \A d \in Clients \ {c} : Untouched(d)
  <2> SUFFICES ASSUME NEW d \in Clients \ {c}
               PROVE  Untouched(d)
    OBVIOUS
  <2>1. (\E i \in DOMAIN backlog' : backlog'[i] = d) <=> (\E i \in DOMAIN backlog : backlog[i] = d)
    <3>1. /\ Len(backlog) \in Nat /\ DOMAIN backlog = 1..Len(backlog)
          /\ DOMAIN backlog' = 1..(Len(backlog) - 1)
          /\ \A i \in DOMAIN backlog' : i + 1 \in DOMAIN backlog /\ backlog'[i] = backlog[i + 1]
      BY <1>2, <1>4
    <3>2. \A i \in DOMAIN backlog : i # 1 =>
              i - 1 \in DOMAIN backlog' /\ backlog'[i - 1] = backlog[i]
      BY <3>1
    <3>3. QED
      BY <1>3, <3>1, <3>2
  <2>2. \A g \in Fds : socket'[g] = d <=> socket[g] = d
    BY <1>1, <1>4 DEF TypeOK
  <2>3. ASSUME NEW g \in Fds, socket[g] = d, NEW u \in Threads
        PROVE  (Handling(u, g)' <=> Handling(u, g)) /\ (Registering(u, g)' <=> Registering(u, g))
    BY <1>1, <1>4, <2>3 DEF Registering, Handling, TypeOK
  <2>4. QED
    BY <1>4, <2>1, <2>2, <2>3 DEF Untouched, ReadyAt
<1>11. \A d \in Clients : Same(d)
  BY <1>1, <1>8, <1>9, <1>10, UntouchedSame DEF Same
<1>12. QED
  BY <1>4, <1>11, InvisibleStep

\* Adding the descriptor to epoll admits the client.
LEMMA Admission ==
    ASSUME ServiceInv, ServiceInv', NEW t \in Threads, process = "running", AddToEpoll(t)
    PROVE  [Service!Next]_(Service!state)
<1>1. View /\ View' /\ TypeOK
  BY ViewOfState, ViewAfter DEF ServiceInv, SocketInv
<1>2. /\ incoming[t] \in Fds /\ socket[incoming[t]] \in Clients
      /\ connections[incoming[t]] = NoNode /\ interest[incoming[t]] = "none"
      /\ \A u \in Threads : Registering(u, incoming[t]) <=> u = t
  BY <1>1 DEF ServiceInv, SocketInv, Accepting, TypeOK, AddToEpoll, Registering
<1>3. PICK f \in Fds : f = incoming[t]
  BY <1>2
<1>4. PICK c \in Clients : c = socket[f]
  BY <1>2, <1>3
<1>5. /\ UNCHANGED <<backlog, peer, socket, incoming, connections, message, abandoned>>
      /\ process' = process
      /\ pc[t] = "add" /\ pc' = [pc EXCEPT ![t] = "insert"]
  BY DEF AddToEpoll, environment, control
<1>6. c \notin abandoned
  BY <1>2, <1>3, <1>4 DEF ServiceInv, AbandonedForGood, SocketInv, ClientsInOnePlace
<1>7. ~ReadyAt(f) /\ ~ReadyAt(f)'
  BY <1>2, <1>3, <1>5 DEF ReadyAt
<1>8. StatusOf(c) = "queued" /\ ServersOf(c) = {u \in Threads : Handling(u, f)} /\ ~Unanswered(c)
  BY <1>1, <1>2, <1>3, <1>4, <1>6, <1>7 DEF View, Connected
<1>9. StatusOf(c)' = "open" /\ ServersOf(c)' = ServersOf(c) /\ ~Unanswered(c)'
  <2>1. socket'[f] = c /\ c \notin abandoned'
    BY <1>4, <1>5, <1>6
  <2>2. /\ ServersOf(c)' = {u \in Threads : Handling(u, f)'}
        /\ Unanswered(c)' <=> ReadyAt(f)'
        /\ StatusOf(c)' = IF \E u \in Threads : Registering(u, f)' THEN "queued" ELSE "open"
    BY <1>1, <2>1 DEF View, Connected
  <2>3. \A u \in Threads : ~Registering(u, f)' /\ (Handling(u, f)' <=> Handling(u, f))
    BY <1>1, <1>2, <1>3, <1>5 DEF Registering, Handling, TypeOK
  <2>4. QED
    BY <1>7, <1>8, <2>2, <2>3
<1>10. \A d \in Clients \ {c} : Same(d)
  <2>1. ASSUME NEW d \in Clients \ {c}
        PROVE  Untouched(d)
    <3>1. ASSUME NEW g \in Fds \ {f}, NEW u \in Threads
          PROVE  (Handling(u, g)' <=> Handling(u, g)) /\ (Registering(u, g)' <=> Registering(u, g))
      BY <1>1, <1>3, <1>5, <3>1 DEF Registering, Handling, TypeOK
    <3>2. QED
      BY <1>4, <1>5, <2>1, <3>1 DEF Untouched, ReadyAt
  <2>2. QED
    BY <1>1, <2>1, UntouchedSame
<1>11. Unanswered(c)' = Unanswered(c)
  BY <1>8, <1>9 DEF Unanswered
<1>12. Service!Next
  BY <1>5, <1>8, <1>9, <1>10, <1>11, AdmitStep
<1>13. QED
  BY <1>12

\* The insertion into the map.
LEMMA InsertionInvisible ==
    ASSUME ServiceInv, ServiceInv', NEW t \in Threads, NEW n \in Nodes, process = "running",
           InsertConnection(t, n)
    PROVE  [Service!Next]_(Service!state)
<1>1. View /\ View' /\ TypeOK
  BY ViewOfState, ViewAfter DEF ServiceInv, SocketInv
<1>2. /\ incoming[t] \in Fds /\ connections[incoming[t]] = NoNode
  BY DEF ServiceInv, SocketInv, Accepting, InsertConnection
<1>3. /\ UNCHANGED <<backlog, peer, socket, incoming, abandoned>> /\ process' = process
      /\ pc[t] = "insert" /\ pc' = [pc EXCEPT ![t] = "wait"]
  BY DEF InsertConnection, environment, control
<1>4. /\ \A u \in Threads, f \in Fds : Handling(u, f)' <=> Handling(u, f)
      /\ \A u \in Threads, f \in Fds : Registering(u, f)' <=> Registering(u, f)
  BY <1>1, <1>3 DEF Handling, Registering, TypeOK
<1>5. ASSUME NEW f \in Fds
      PROVE  ReadyAt(f)' <=> ReadyAt(f)
  <2>1. message'[n] = "empty" /\ \A k \in Nodes \ {n} : message'[k] = message[k]
    BY <1>1 DEF InsertConnection, TypeOK
  <2>2. connections[f] # n /\ connections[f] \in Nodes \cup {NoNode}
    BY <1>1 DEF InsertConnection, Allocated, TypeOK
  <2>3. connections'[f] = IF f = incoming[t] THEN n ELSE connections[f]
    BY <1>1 DEF InsertConnection, TypeOK
  <2>4. QED
    BY <1>2, <2>1, <2>2, <2>3 DEF ReadyAt
<1>6. \A d \in Clients : Untouched(d)
  BY <1>3, <1>4, <1>5 DEF Untouched
<1>7. QED
  BY <1>1, <1>6, InvisibleToAll

\* The steps that touch no connection.
LEMMA QuietSteps ==
    ASSUME ServiceInv, ServiceInv', process = "running",
           \/ Listen \/ SignalBeforeListen \/ Signal \/ StopWatching
           \/ MainReturns \/ ExitCompletes \/ ExitAgain
           \/ \E c \in Clients : (\E k \in Chunks : SendChunk(c, k)) \/ Close(c) \/ Reset(c)
           \/ \E t \in Threads : \/ SignalInEpollWait(t) \/ SignalInSend(t) \/ TakeInterrupt(t)
                                 \/ TakeListener(t) \/ AcceptFails(t) \/ ReceiveFails(t) \/ SendFails(t)
                                 \/ UnlockConnection(t) \/ UnlockFreedNode(t)
    PROVE  [Service!Next]_(Service!state)
<1>1. View /\ View' /\ TypeOK
  BY ViewOfState, ViewAfter DEF ServiceInv, SocketInv
<1>2. UNCHANGED <<backlog, socket, incoming, connections, message, abandoned>>
  BY DEF Listen, SignalBeforeListen, Signal, StopWatching, MainReturns, ExitCompletes, ExitAgain, SendChunk, Close, Reset,
     SignalInEpollWait, SignalInSend, TakeInterrupt, TakeListener, AcceptFails, ReceiveFails,
     SendFails,
     UnlockConnection, UnlockFreedNode, environment, server
<1>3. \A c \in Clients : peer'[c] = "idle" <=> peer[c] = "idle"
  BY <1>1 DEF Listen, SignalBeforeListen, Signal, StopWatching, MainReturns, ExitCompletes, ExitAgain, SendChunk, Close, Reset,
     SignalInEpollWait, SignalInSend, TakeInterrupt, TakeListener, AcceptFails, ReceiveFails,
     SendFails,
     UnlockConnection, UnlockFreedNode, environment, server, TypeOK
<1>4. /\ \A u \in Threads, f \in Fds : Handling(u, f)' <=> Handling(u, f)
      /\ \A u \in Threads, f \in Fds : Registering(u, f)' <=> Registering(u, f)
  BY <1>1 DEF Listen, SignalBeforeListen, Signal, StopWatching, MainReturns, ExitCompletes, ExitAgain, SendChunk, Close, Reset,
     SignalInEpollWait, SignalInSend, TakeInterrupt, TakeListener, AcceptFails, ReceiveFails,
     SendFails,
     UnlockConnection, UnlockFreedNode, environment, server, TypeOK, Handling, Registering
<1>5. \A d \in Clients : Untouched(d)
  BY <1>2, <1>3, <1>4 DEF Untouched, ReadyAt
<1>6. QED
  BY <1>1, <1>5, InvisibleToAll

\* Every step of the event loop.
LEMMA StepImplemented ==
    ServiceInv /\ ServiceInv' /\ [Next]_vars => [Service!Next]_(Service!state)
<1> SUFFICES ASSUME ServiceInv, ServiceInv', [Next]_vars
             PROVE  [Service!Next]_(Service!state)
  OBVIOUS
<1>1. CASE UNCHANGED vars
  <2>1. \A d \in Clients : Same(d)
    BY <1>1 DEF vars, Same, StatusOf, ServersOf, Unanswered, SocketsOf, Handling
  <2>2. QED
    BY <1>1, <2>1, InvisibleStep DEF vars
<1>2. ASSUME process = "running", NEW c \in Clients, Client(c)
      PROVE  [Service!Next]_(Service!state)
  BY <1>2, Handshake, QuietSteps DEF Client
<1>3. ASSUME process = "running", NEW t \in Threads, Serve(t)
      PROVE  [Service!Next]_(Service!state)
  <2>1. CASE ConnectionNotInMap(t)
    BY <1>3, <2>1, ThrowingSteps DEF ConnectionNotInMap
  <2>2. CASE ~ConnectionNotInMap(t)
    BY <1>3, <2>2, QuietSteps, TakeEvent, AcceptInvisible, Admission, InsertionInvisible,
       HandlerMoves, ReceiveAndAnswer, LetGo DEF Serve, Run
  <2>3. QED
    BY <2>1, <2>2
<1>4. QED
  BY <1>1, <1>2, <1>3, QuietSteps DEF Next, Ended

\* The event loop implements the connection service: whatever the threads,
\* the clients and the kernel do, each client sees its connection admitted
\* once, served by one thread at a time, its requests answered once, and
\* never let go of with a request unanswered, except by an exception.
THEOREM ImplementsService == Spec => ServiceImplemented
<1>1. Init => Service!Init
  <2> SUFFICES ASSUME Init PROVE Service!Init
    OBVIOUS
  <2>1. \A c \in Clients : SocketsOf(c) = {}
    BY DEF Init, SocketsOf
  <2>2. \A c \in Clients : StatusOf(c) = "away" /\ ServersOf(c) = {} /\ Unanswered(c) = FALSE
    BY <2>1 DEF Init, StatusOf, ServersOf, Unanswered
  <2>3. QED
    BY <2>2 DEF Init, Service!Init
<1>2. QED
  BY <1>1, ServiceInvInit, ServiceInvNext, StepImplemented, PTL
     DEF Spec, ServiceImplemented, Service!Spec
=============================================================================
