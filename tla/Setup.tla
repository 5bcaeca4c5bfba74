------------------------------- MODULE Setup -------------------------------
(***************************************************************************)
(* SETUP: handle_setup() tries the values of the Transport header one by   *)
(* one, RTPTransport takes a port from the pool in UDP.cpp and binds its   *)
(* sockets, and Session::emplace_track() puts the Track into a vector.     *)
(* What matters is who owns a port.  The state is that of the request each *)
(* client has under way; one thread handles it (HandlerExclusive of the    *)
(* event loop).  Dispatch says how such a request begins and is answered.  *)
(*                                                                         *)
(* The members of UDP::Socket have no initial value: a Track is put into   *)
(* memory that is zero or has been another Track's, whose RTCP socket      *)
(* leaves its port there (the RTP socket's destructor clears its own).  In *)
(* a session one SETUP is at work at a time.  The README says what is left *)
(* out by that.                                                            *)
(***************************************************************************)
EXTENDS Transport, Media, Functions

CONSTANTS
    Clients,    \* RTSP connections
    Sessions,   \* Session objects
    EvenPorts,  \* the ports InitPorts puts into even_ports, in order
    Sdp,        \* the SDP of each presentation in Media::by_basename
    MaxTracks,  \* bound: tracks of all sessions together
    NoSession

ASSUME PortsAssumption ==
    EvenPorts \in Seq({p \in PortNumbers : p > 0 /\ p % 2 = 0}) /\ IsInjective(EvenPorts)

ASSUME SessionAssumption == NoSession \notin Sessions

VARIABLES
    even_ports, \* the pool
    tracks,     \* Session::tracks
    pc,         \* where each client's request is
    session,    \* the session it is about
    url,        \* the parts of its URL behind the host
    values,     \* transport values it has not tried yet
    port,       \* rtp_socket's port in the Track under construction
    rtcp,       \* rtcp_socket's, once the Track's sockets are bound
    leftover,   \* ports of RTCP sockets in memory that was a Track's
    answer,     \* the response: status and transport
    lost,       \* ports that left the pool without an owner (history)
    doubled,    \* ports given back while a copy of their socket stays (history)
    dry         \* clients whose last Track found the pool empty (history)

history == <<lost, doubled, dry>>

setup == <<even_ports, tracks, pc, session, url, values, port, rtcp, leftover, answer,
           history>>

EvenPortSet == Range(EvenPorts)

\* Mutant of GiveBack: odd ports go to the pool, too.
GiveBackAny(pool, p) == IF p # 0 THEN Append(pool, p) ELSE pool

\* A socket's destructor and bind() give an even port back to the pool.
GiveBack(pool, p) == IF p # 0 /\ p % 2 = 0 THEN Append(pool, p) ELSE pool

\* The destructors of several sockets, one after the other.
GiveBackAll(pool, ports) ==
    LET pools[i \in 0..Len(ports)] ==
            IF i = 0 THEN pool ELSE GiveBack(pools[i - 1], ports[i])
    IN  pools[Len(ports)]

\* emplace_back() on a full vector: the new elements are implicit copies of
\* the old ones' Socket objects, with their descriptors and ports; then the
\* old ones' destructors close the descriptors and give the ports back.
Full(s) == \E doublings \in 0..Len(tracks[s]) : Len(tracks[s]) = 2^doublings
PortsOf(s) == [i \in DOMAIN tracks[s] |-> tracks[s][i].port]
RtcpPortsOf(s) == {tracks[s][i].rtcp : i \in DOMAIN tracks[s]} \ {0}

\* The RTCP socket is wanted when the client named two ports.
WantsRtcp(value) == ClientPorts(value)[2] # 0

\* Mutant of RtcpPorts: a socket that seems to have a port is not bound again.
RtcpPortsOnce(c) ==
    IF WantsRtcp(Head(values[c])) THEN {port[c] + 1} \cup leftover ELSE {0} \cup leftover

\* What get_port() of the RTCP socket says once the sockets are bound: the
\* neighbour of the RTP port, or what the memory held.
RtcpPorts(c) ==
    IF WantsRtcp(Head(values[c])) THEN {port[c] + 1} ELSE {0} \cup leftover

Trying(c) == pc[c] = "try" /\ values[c] # <<>>

\* The exception of an invalid transport value; the next one is tried.
RejectValue(c) ==
    /\ Trying(c)
    /\ ~Accepted(Head(values[c]))
    /\ values' = [values EXCEPT ![c] = Tail(@)]
    /\ UNCHANGED <<even_ports, tracks, pc, session, url, port, rtcp, leftover, answer, history>>

\* No value is left: the first exception is thrown again, and serve() leaves
\* the client without an answer and its socket disarmed.
FailSetup(c) ==
    /\ pc[c] = "try"
    /\ values[c] = <<>>
    /\ pc' = [pc EXCEPT ![c] = "stranded"]
    /\ UNCHANGED <<even_ports, tracks, session, url, values, port, rtcp, leftover, answer, history>>

\* Mutant of TakePort: the port is read under the lock and popped later.
PeekPort(c) ==
    /\ Trying(c)
    /\ Accepted(Head(values[c]))
    /\ port' = [port EXCEPT ![c] = IF even_ports = <<>> THEN 0 ELSE Head(even_ports)]
    /\ pc' = [pc EXCEPT ![c] = "rtp"]
    /\ UNCHANGED <<even_ports, tracks, session, url, values, rtcp, leftover, answer, history>>

\* get_even_port(): 0 when the pool is empty.
TakePort(c) ==
    /\ Trying(c)
    /\ Accepted(Head(values[c]))
    /\ port' = [port EXCEPT ![c] = IF even_ports = <<>> THEN 0 ELSE Head(even_ports)]
    /\ even_ports' = IF even_ports = <<>> THEN <<>> ELSE Tail(even_ports)
    /\ dry' = IF even_ports = <<>> THEN dry \cup {c} ELSE dry \ {c}
    /\ pc' = [pc EXCEPT ![c] = "rtp"]
    /\ UNCHANGED <<tracks, session, url, values, rtcp, leftover, answer, lost, doubled>>

\* A Track whose constructor throws is destroyed member by member, and the
\* next transport value is tried.  An odd port stays in the memory.
Abandon(c, pool) ==
    /\ even_ports' = pool
    /\ port' = [port EXCEPT ![c] = 0]
    /\ rtcp' = [rtcp EXCEPT ![c] = 0]
    /\ leftover' = leftover \cup ({rtcp[c]} \ {0})
    /\ values' = [values EXCEPT ![c] = Tail(@)]
    /\ pc' = [pc EXCEPT ![c] = "try"]

\* Socket::bind() of the RTP socket; the socket knows its port only after
\* ::bind() has succeeded.
BindRtp(c) ==
    /\ pc[c] = "rtp"
    /\ \/ /\ pc' = [pc EXCEPT ![c] = "rtcp"]
          /\ UNCHANGED <<even_ports, values, port, rtcp, leftover, history>>
       \/ /\ Abandon(c, even_ports)
          /\ lost' = IF port[c] = 0 THEN lost ELSE lost \cup {port[c]}
          /\ UNCHANGED <<doubled, dry>>
    /\ UNCHANGED <<tracks, session, url, answer>>

\* Mutant of BindRtcp: the failing constructor keeps the RTP port.
BindRtcpOrLeak(c) ==
    /\ pc[c] = "rtcp"
    /\ \/ /\ \E p \in RtcpPorts(c) : rtcp' = [rtcp EXCEPT ![c] = p]
          /\ pc' = [pc EXCEPT ![c] = "track"]
          /\ UNCHANGED <<even_ports, values, port, leftover>>
       \/ /\ WantsRtcp(Head(values[c]))
          /\ Abandon(c, even_ports)
    /\ UNCHANGED <<tracks, session, url, answer, history>>

\* Socket::bind() of the RTCP socket, when the client named two ports.
BindRtcp(c) ==
    /\ pc[c] = "rtcp"
    /\ \/ /\ \E p \in RtcpPorts(c) : rtcp' = [rtcp EXCEPT ![c] = p]
          /\ pc' = [pc EXCEPT ![c] = "track"]
          /\ UNCHANGED <<even_ports, values, port, leftover>>
       \/ /\ WantsRtcp(Head(values[c]))
          /\ Abandon(c, GiveBack(even_ports, port[c]))
    /\ UNCHANGED <<tracks, session, url, answer, history>>

\* What the Track's constructor throws after the sockets are bound.
LeaveTrack(c) ==
    /\ pc[c] = "track"
    /\ Abandon(c, GiveBack(GiveBack(even_ports, rtcp[c]), port[c]))
    /\ UNCHANGED <<tracks, session, url, answer, history>>

FailConnect(c) == LeaveTrack(c)

UnknownPresentation(c) == LeaveTrack(c) /\ url[c][1] \notin DOMAIN Sdp

\* The file cannot be opened, or has no such stream.
FailLoad(c) == LeaveTrack(c) /\ url[c][1] \in DOMAIN Sdp

\* Mutant of EmplaceTrack: the loop goes on after it has made a track.
EmplaceTrackAndGoOn(c) ==
    /\ pc[c] = "track"
    /\ url[c][1] \in DOMAIN Sdp
    /\ tracks' = [tracks EXCEPT ![session[c]] =
                    Append(@, [port |-> port[c], rtcp |-> rtcp[c], medium |-> "video"])]
    /\ Abandon(c, even_ports)
    /\ UNCHANGED <<session, url, answer, history>>

\* The Track is in the vector, which may have had to grow for it; the answer
\* names its ports.
EmplaceTrack(c) ==
    LET s == session[c]
        value == Head(values[c])
    IN  /\ pc[c] = "track"
        /\ url[c][1] \in DOMAIN Sdp
        /\ \E medium \in StreamTypes(Sdp[url[c][1]], url[c][2]) :
               tracks' = [tracks EXCEPT ![s] =
                    Append(@, [port |-> port[c], rtcp |-> rtcp[c], medium |-> medium])]
        /\ even_ports' = IF Full(s) THEN GiveBackAll(even_ports, PortsOf(s))
                                    ELSE even_ports
        /\ doubled' = IF Full(s) THEN doubled \cup (Range(PortsOf(s)) \ {0})
                                 ELSE doubled
        /\ leftover' = IF Full(s) THEN leftover \cup RtcpPortsOf(s) ELSE leftover
        /\ answer' = [answer EXCEPT ![c] =
                        [status |-> 200,
                         transport |-> <<ClientPorts(value), <<port[c], rtcp[c]>>>>]]
        /\ port' = [port EXCEPT ![c] = 0]
        /\ rtcp' = [rtcp EXCEPT ![c] = 0]
        /\ values' = [values EXCEPT ![c] = <<>>]
        /\ pc' = [pc EXCEPT ![c] = "answer"]
        /\ UNCHANGED <<session, url, lost, dry>>

SetUp(c) ==
    \/ RejectValue(c)
    \/ FailSetup(c)
    \/ TakePort(c)
    \/ BindRtp(c)
    \/ BindRtcp(c)
    \/ FailConnect(c)
    \/ UnknownPresentation(c)
    \/ FailLoad(c)
    \/ EmplaceTrack(c)

SettingUp(c) == pc[c] \in {"try", "rtp", "rtcp", "track"}
-----------------------------------------------------------------------------
SetupInit ==
    /\ even_ports = EvenPorts
    /\ tracks = [s \in Sessions |-> <<>>]
    /\ pc = [c \in Clients |-> "idle"]
    /\ session = [c \in Clients |-> NoSession]
    /\ url = [c \in Clients |-> <<>>]
    /\ values = [c \in Clients |-> <<>>]
    /\ port = [c \in Clients |-> 0]
    /\ rtcp = [c \in Clients |-> 0]
    /\ answer = [c \in Clients |-> [status |-> 0, transport |-> <<>>]]
    /\ leftover = {}
    /\ lost = {}
    /\ doubled = {}
    /\ dry = {}

\* The ports RTCP sockets are bound to (1 when the pool was empty).
OddPorts == {p + 1 : p \in EvenPortSet \cup {0}}

Tracks == [port : EvenPortSet \cup {0}, rtcp : OddPorts \cup {0}, medium : {"video", "audio"}]

Answers == [status : {0, 200, 404}, transport : Seq(PortNumbers \X PortNumbers)]

SetupTypeOK ==
    /\ even_ports \in Seq(EvenPortSet)
    /\ tracks \in [Sessions -> Seq(Tracks)]
    /\ pc \in [Clients -> {"idle", "lookup", "operate", "try", "rtp", "rtcp", "track",
                           "answer", "stranded"}]
    /\ session \in [Clients -> Sessions \cup {NoSession}]
    /\ url \in [Clients -> Seq(STRING)]
    /\ values \in [Clients -> Seq(TransportValues)]
    /\ port \in [Clients -> EvenPortSet \cup {0}]
    /\ rtcp \in [Clients -> OddPorts \cup {0}]
    /\ leftover \subseteq OddPorts
    /\ answer \in [Clients -> Answers]
    /\ lost \subseteq EvenPortSet
    /\ doubled \subseteq EvenPortSet
    /\ dry \subseteq Clients

\* The places that have port p: positions of the pool, tracks, and requests
\* that are about to bind it or have done so.
PoolPlaces(p) == {<<"pool", i>> : i \in {j \in DOMAIN even_ports : even_ports[j] = p}}

TrackPlaces(p) ==
    UNION {{<<"track", s, i>> : i \in {j \in DOMAIN tracks[s] : tracks[s][j].port = p}} :
             s \in Sessions}

RequestPlaces(p) == {<<"request", c>> : c \in {d \in Clients : port[d] = p}}

Owners(p) == PoolPlaces(p) \cup TrackPlaces(p) \cup RequestPlaces(p)

\* A port is never in two places, neither two tracks nor the pool and a track,
\* whatever constructors fail in between: only the growth of a session's
\* vector of tracks gives a port away that is still in use.
PortExclusive ==
    \A p \in EvenPortSet \ doubled : \A x, y \in Owners(p) : x = y

\* No failing SETUP makes a port disappear, except when ::bind() refuses it.
NoPortForgotten == \A p \in EvenPortSet \ lost : Owners(p) # {}

\* A client that names a pair of ports is answered with pairs as RTP wants
\* them, for its own side (moved down to an even port and its neighbour) and
\* for the server's (a port of the pool and its neighbour), whatever values
\* were tried before and whatever they left in memory; one that names a single
\* port has it moved, too, and is told a port of the pool.  Excepted are
\* clients that found the pool empty: they are told 0, and 0-1 for a pair.
\* What is told as a second server port where none was asked for is whatever
\* the memory held, and nothing is claimed of it.
PairsAnnounced ==
    \A c \in Clients : pc[c] = "answer" /\ answer[c].transport # <<>> =>
        LET client == answer[c].transport[1]
            server == answer[c].transport[2]
        IN  /\ client[1] % 2 = 0 /\ client[2] \in {0, client[1] + 1}
            /\ c \notin dry =>
                  /\ server[1] \in EvenPortSet
                  /\ client[2] # 0 => server[2] = server[1] + 1

\* A description of a defect, not a promise: with the SDP of the repository's
\* presentation, whose first a=fmtp line is longer than getline()'s buffer,
\* every track opens the video stream, also that of the sound's control id.
OnlyVideoStreamed ==
    \A s \in Sessions : \A i \in DOMAIN tracks[s] : tracks[s][i].medium = "video"
=============================================================================
