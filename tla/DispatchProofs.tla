--------------------------- MODULE DispatchProofs ---------------------------
(***************************************************************************)
(* Proofs about SETUP and the other requests, for any numbers of clients   *)
(* and sessions, any pool of ports, any URLs and Transport headers.        *)
(***************************************************************************)
EXTENDS Dispatch, Induction, TLAPS
-----------------------------------------------------------------------------
(***************************************************************************)
(* What else holds of a SETUP under way, for the proofs.                   *)
(***************************************************************************)

\* From the look-up of its session on, a SETUP works on an existing one.
SessionKnown ==
    \A c \in Clients : pc[c] = "operate" \/ SettingUp(c) => session[c] \in Sessions

\* The Track under construction is that of the first value left.
Constructing(c) == pc[c] \in {"rtp", "rtcp", "track"}

ValueInHand ==
    \A c \in Clients : Constructing(c) => values[c] # <<>> /\ Accepted(Head(values[c]))

\* Only a Track under construction has a port.  It has one unless the pool was
\* empty, and its RTCP socket has the neighbour as soon as it is bound.
PortInHand ==
    \A c \in Clients :
        /\ ~Constructing(c) => port[c] = 0
        /\ Constructing(c) /\ c \notin dry => port[c] # 0
        /\ pc[c] = "track" /\ WantsRtcp(Head(values[c])) => rtcp[c] = port[c] + 1

\* Two positions of the pool, two tracks, or two requests with the port p.
PoolOnce(p) ==
    \A i, j \in DOMAIN even_ports : even_ports[i] = p /\ even_ports[j] = p => i = j

TrackOnce(p) ==
    \A s, t \in Sessions : \A i \in DOMAIN tracks[s], j \in DOMAIN tracks[t] :
        tracks[s][i].port = p /\ tracks[t][j].port = p => s = t /\ i = j

RequestOnce(p) ==
    \A c, d \in Clients : port[c] = p /\ port[d] = p => c = d

\* A port of one kind of place is not in a place of another kind.
Pooled(p) == \E i \in DOMAIN even_ports : even_ports[i] = p
Tracked(p) == \E s \in Sessions : \E i \in DOMAIN tracks[s] : tracks[s][i].port = p
Requested(p) == \E c \in Clients : port[c] = p

KindsApart(p) ==
    /\ ~(Pooled(p) /\ Tracked(p))
    /\ ~(Pooled(p) /\ Requested(p))
    /\ ~(Tracked(p) /\ Requested(p))

OwnedOnce ==
    \A p \in EvenPortSet \ doubled :
        PoolOnce(p) /\ TrackOnce(p) /\ RequestOnce(p) /\ KindsApart(p)

OwnedSomewhere ==
    \A p \in EvenPortSet \ lost : Pooled(p) \/ Tracked(p) \/ Requested(p)

SetupInv ==
    SessionKnown /\ ValueInHand /\ PortInHand /\ OwnedOnce /\ OwnedSomewhere /\ PairsAnnounced
-----------------------------------------------------------------------------
(***************************************************************************)
(* The inductive invariant.                                                *)
(***************************************************************************)

\* The other methods do not end up in SETUP's part of the handler.
SetupMethod == \A c \in Clients : SettingUp(c) => method[c] = "SETUP"

\* Only a TEARDOWN that was answered counts as told, and it has been carried
\* out by then.
ToldTorn ==
    /\ \A s \in told : registered[s] = "torn"
    /\ \A c \in Clients : pc[c] = "answer" /\ method[c] = "TEARDOWN" =>
           session[c] \in Sessions /\ registered[session[c]] = "torn"

\* A late request gets no further than the look-up of its session.
LateRefused ==
    \A c \in Clients : late[c] =>
        /\ session[c] \in told
        /\ pc[c] \in {"lookup", "answer", "stranded"}
        /\ pc[c] = "answer" => answer[c].status = 404

\* An answer with a Transport header names a session, and until it is sent the
\* track it announces is what the session has.
TrackAnnounced ==
    /\ \A c \in Clients : pc[c] = "answer" /\ answer[c].transport # <<>> =>
           session[c] \in Sessions
    /\ \A s \in Sessions \ named : tracks[s] # <<>> =>
           \E c \in Clients : /\ pc[c] = "answer" /\ session[c] = s
                              /\ answer[c].transport # <<>>

DispatchInv ==
    TypeOK /\ SetupInv /\ SetupMethod /\ ToldTorn /\ LateRefused /\ TrackAnnounced
-----------------------------------------------------------------------------
(***************************************************************************)
(* Port numbers, for every transport value.                                *)
(***************************************************************************)

\* The pool of UDP.cpp and the odd neighbours of its ports.
ServerPortNumbers == 5004..5035

\* Membership in PortNumbers, as the arithmetic below needs it.
LEMMA OfPortNumber ==
    ASSUME NEW n \in PortNumbers
    PROVE  n \in Int /\ n >= 0 /\ n <= 65535
  BY DEF PortNumbers

LEMMA InPortNumbers ==
    ASSUME NEW n \in Int, n >= 0, n <= 65535
    PROVE  n \in PortNumbers
<1>1. \A last \in Int : n <= last => n \in 0..last
  OBVIOUS
<1>2. PICK last : last = 65535
  OBVIOUS
<1>3. last \in Int /\ n <= last
  BY <1>2
<1>4. n \in 0..last
  BY <1>1, <1>3
<1>5. PortNumbers = 0..last
  BY <1>2 DEF PortNumbers
<1>6. QED  BY <1>4, <1>5

\* The even number at or below a port is a port.
LEMMA EvenBelow ==
    ASSUME NEW n \in Int, n >= 0, n <= 65535
    PROVE  /\ n - (n % 2) \in Int
           /\ n - (n % 2) >= 0
           /\ n - (n % 2) <= 65535
           /\ (n - (n % 2)) % 2 = 0
  OBVIOUS

\* An accepted value never makes the server announce client ports that are
\* not a pair for RTP and RTCP, nor any number that is not a port.
THEOREM ClientPairAligned ==
    \A value \in TransportValues : Accepted(value) =>
        /\ ClientPorts(value)[1] \in PortNumbers
        /\ ClientPorts(value)[2] \in PortNumbers
        /\ ClientPorts(value)[1] % 2 = 0
        /\ \/ ClientPorts(value)[2] = 0
           \/ ClientPorts(value)[2] = ClientPorts(value)[1] + 1
<1> SUFFICES ASSUME NEW value \in TransportValues, Accepted(value)
             PROVE  /\ ClientPorts(value)[1] \in PortNumbers
                    /\ ClientPorts(value)[2] \in PortNumbers
                    /\ ClientPorts(value)[1] % 2 = 0
                    /\ \/ ClientPorts(value)[2] = 0
                       \/ ClientPorts(value)[2] = ClientPorts(value)[1] + 1
  OBVIOUS
<1>1. value.ports \in Seq(PortNumbers) /\ Len(value.ports) \in Nat
  <2>1. value \in [proper : BOOLEAN, ports : Seq(PortNumbers)]
    BY DEF TransportValues
  <2>2. value.ports \in Seq(PortNumbers)
    BY <2>1
  <2>3. QED  BY <2>2
<1>2. CASE value.ports = <<>>
  <2>1. Len(value.ports) # 2
    BY <1>2
  <2>2. ClientPorts(value) = <<0 - (0 % 2), 0>>
    BY <1>2, <2>1 DEF ClientPorts
  <2>3. ClientPorts(value)[1] = 0 /\ ClientPorts(value)[2] = 0
    BY <2>2
  <2>4. QED  BY <2>3, InPortNumbers
<1>3. CASE value.ports # <<>>
  <2>1. PICK n : n = value.ports[1]
    OBVIOUS
  <2>2. n \in PortNumbers
    BY <1>1, <1>3, <2>1
  <2>3. n \in Int /\ n >= 0 /\ n <= 65535
    BY <2>2, OfPortNumber
  <2>4. ClientPorts(value)[1] = n - (n % 2)
    BY <1>3, <2>1 DEF ClientPorts
  <2>5. ClientPorts(value)[1] \in PortNumbers /\ ClientPorts(value)[1] % 2 = 0
    BY <2>3, <2>4, EvenBelow, InPortNumbers
  <2>6. CASE Len(value.ports) = 2
    <3>1. value.ports[2] \in PortNumbers /\ value.ports[2] = n + 1
      BY <1>1, <2>1, <2>6 DEF Accepted
    <3>2. ClientPorts(value)[2] = (n + 1) - (n % 2)
      <4>1. ClientPorts(value)[2] = value.ports[2] - (value.ports[1] % 2)
        BY <1>3, <2>6 DEF ClientPorts
      <4>2. QED  BY <2>1, <3>1, <4>1, Zenon
    <3>3. n + 1 <= 65535
      BY <3>1, OfPortNumber
    <3>4. /\ (n + 1) - (n % 2) \in Int
          /\ (n + 1) - (n % 2) >= 0
          /\ (n + 1) - (n % 2) <= 65535
          /\ (n + 1) - (n % 2) = (n - (n % 2)) + 1
      BY <2>3, <3>3
    <3>5. ClientPorts(value)[2] \in PortNumbers
      BY <3>2, <3>4, InPortNumbers
    <3>6. QED  BY <2>4, <2>5, <3>2, <3>4, <3>5
  <2>7. CASE Len(value.ports) # 2
    <3>1. ClientPorts(value)[2] = 0
      BY <2>7 DEF ClientPorts
    <3>2. QED  BY <2>5, <3>1, InPortNumbers
  <2>8. QED  BY <2>6, <2>7
<1>4. QED  BY <1>2, <1>3

\* The answer to SETUP names one of these ports as server_port, but the kernel
\* binds the socket to another one, which is not even one of them.
THEOREM NeverBoundAsAnnounced ==
    \A announced \in ServerPortNumbers :
        NetworkPort(announced) \in PortNumbers /\ NetworkPort(announced) \notin ServerPortNumbers
<1> SUFFICES ASSUME NEW announced \in ServerPortNumbers
             PROVE  /\ NetworkPort(announced) \in PortNumbers
                    /\ NetworkPort(announced) \notin ServerPortNumbers
  OBVIOUS
<1>1. announced \div 256 = 19 /\ announced % 256 = announced - 19 * 256
  BY DEF ServerPortNumbers
<1>2. NetworkPort(announced) = (announced - 19 * 256) * 256 + 19
  BY <1>1 DEF NetworkPort
<1>3. announced \in Int /\ announced >= 5004 /\ announced <= 5035
  BY DEF ServerPortNumbers
<1>4. /\ (announced - 19 * 256) * 256 + 19 \in Int
      /\ (announced - 19 * 256) * 256 + 19 > 5035
      /\ (announced - 19 * 256) * 256 + 19 <= 65535
  BY <1>3
<1>5. NetworkPort(announced) \in PortNumbers
  BY <1>2, <1>4, InPortNumbers
<1>6. NetworkPort(announced) \notin ServerPortNumbers
  BY <1>2, <1>4 DEF ServerPortNumbers
<1>7. QED  BY <1>5, <1>6

(***************************************************************************)
(* The pool.                                                               *)
(***************************************************************************)

\* Ports of the pool are even, and their neighbours are ports, too.
LEMMA PoolPort ==
    ASSUME NEW p \in EvenPortSet
    PROVE  p \in Int /\ p > 0 /\ p <= 65534 /\ p % 2 = 0 /\ p \in PortNumbers
<1>1. p \in {q \in PortNumbers : q > 0 /\ q % 2 = 0}
  BY PortsAssumption DEF EvenPortSet, Range
<1>2. p \in Int /\ p >= 0 /\ p <= 65535 /\ p > 0 /\ p % 2 = 0
  BY <1>1, OfPortNumber
<1>3. p <= 65534
  BY <1>2
<1>4. QED  BY <1>1, <1>2, <1>3

\* Giving one port back.
LEMMA GiveBackOne ==
    ASSUME NEW pool \in Seq(EvenPortSet), NEW p \in EvenPortSet \cup {0}
    PROVE  /\ p = 0 => GiveBack(pool, p) = pool
           /\ p # 0 => GiveBack(pool, p) = Append(pool, p)
           /\ GiveBack(pool, p) \in Seq(EvenPortSet)
  BY PoolPort DEF GiveBack

\* The recursion of GiveBackAll defines its function.
LEMMA PoolsDefined ==
    ASSUME NEW pool, NEW ports \in Seq(EvenPortSet \cup {0})
    PROVE  \E pools :
             /\ pools = [i \in 0..Len(ports) |->
                           IF i = 0 THEN pool ELSE GiveBack(pools[i - 1], ports[i])]
             /\ GiveBackAll(pool, ports) = pools[Len(ports)]
<1> DEFINE Defines(f, n) ==
        f = [i \in 0..n |-> IF i = 0 THEN pool ELSE GiveBack(f[i - 1], ports[i])]
           Reached == {n \in Nat : \E f : Defines(f, n)}
<1>1. 0 \in Reached
  <2>1. Defines([i \in 0..0 |-> pool], 0)
    OBVIOUS
  <2>2. QED  BY <2>1
<1>2. ASSUME NEW n \in Nat, n \in Reached
      PROVE  n + 1 \in Reached
  <2>1. PICK f : Defines(f, n)
    BY <1>2
  <2>2. PICK g : g = [i \in 0..(n + 1) |->
                        IF i = n + 1 THEN GiveBack(f[n], ports[n + 1]) ELSE f[i]]
    OBVIOUS
  <2> HIDE DEF Defines
  <2>3. \A i \in 0..n : g[i] = f[i]
    BY <2>2
  <2>4. \A i \in 0..n : f[i] = IF i = 0 THEN pool ELSE GiveBack(f[i - 1], ports[i])
    BY <2>1 DEF Defines
  <2>5. ASSUME NEW i \in 0..(n + 1)
        PROVE  g[i] = IF i = 0 THEN pool ELSE GiveBack(g[i - 1], ports[i])
    <3>1. CASE i = n + 1
      BY <2>2, <2>3, <3>1
    <3>2. CASE i \in 0..n /\ i = 0
      BY <2>3, <2>4, <3>2
    <3>3. CASE i \in 0..n /\ i # 0
      <4>1. i - 1 \in 0..n
        BY <3>3
      <4>2. QED  BY <2>3, <2>4, <3>3, <4>1
    <3>4. QED  BY <3>1, <3>2, <3>3
  <2>6. Defines(g, n + 1)
    BY <2>2, <2>5 DEF Defines
  <2>7. QED  BY <2>6
<1>3. Len(ports) \in Reached
  <2>1. Nat \subseteq Reached
    <3> HIDE DEF Reached
    <3>1. QED  BY <1>1, <1>2, AllNumbers
  <2>2. QED  BY <2>1
<1>4. PICK f : Defines(f, Len(ports))
  BY <1>3
<1>5. PICK pools : pools = CHOOSE g : Defines(g, Len(ports))
  OBVIOUS
<1>6. Defines(pools, Len(ports))
  <2> HIDE DEF Defines
  <2>1. QED  BY <1>4, <1>5
<1>7. GiveBackAll(pool, ports) = pools[Len(ports)]
  BY <1>5 DEF GiveBackAll
<1>8. QED  BY <1>6, <1>7

\* What the destructors of several sockets give back is behind the old pool.
LEMMA GiveBackAllExtends ==
    ASSUME NEW pool \in Seq(EvenPortSet), NEW ports \in Seq(EvenPortSet \cup {0})
    PROVE  /\ GiveBackAll(pool, ports) \in Seq(EvenPortSet)
           /\ Len(pool) <= Len(GiveBackAll(pool, ports))
           /\ \A i \in 1..Len(pool) : GiveBackAll(pool, ports)[i] = pool[i]
           /\ \A i \in DOMAIN GiveBackAll(pool, ports) :
                  i > Len(pool) => GiveBackAll(pool, ports)[i] \in Range(ports) \ {0}
<1> DEFINE Extends(longer) ==
        /\ longer \in Seq(EvenPortSet)
        /\ Len(pool) <= Len(longer)
        /\ \A i \in 1..Len(pool) : longer[i] = pool[i]
        /\ \A i \in DOMAIN longer : i > Len(pool) => longer[i] \in Range(ports) \ {0}
<1>1. PICK pools :
        /\ pools = [i \in 0..Len(ports) |->
                      IF i = 0 THEN pool ELSE GiveBack(pools[i - 1], ports[i])]
        /\ GiveBackAll(pool, ports) = pools[Len(ports)]
  BY PoolsDefined
<1>2. /\ pools[0] = pool
      /\ \A i \in 1..Len(ports) : pools[i] = GiveBack(pools[i - 1], ports[i])
  <2>1. Len(ports) \in Nat
    OBVIOUS
  <2>2. QED  BY <1>1, <2>1
<1> DEFINE Done == {n \in Nat : n <= Len(ports) => Extends(pools[n])}
<1>3. 0 \in Done
  <2>1. \A i \in DOMAIN pool : ~(i > Len(pool))
    OBVIOUS
  <2>2. QED  BY <1>2, <2>1
<1>4. ASSUME NEW n \in Nat, n \in Done
      PROVE  n + 1 \in Done
  <2> SUFFICES ASSUME n + 1 <= Len(ports)
               PROVE  Extends(pools[n + 1])
    OBVIOUS
  <2>1. Extends(pools[n]) /\ pools[n + 1] = GiveBack(pools[n], ports[n + 1])
    BY <1>2, <1>4
  <2>2. PICK p : p = ports[n + 1]
    OBVIOUS
  <2>3. PICK old : old = pools[n]
    OBVIOUS
  <2>4. p \in EvenPortSet \cup {0} /\ p \in Range(ports)
    BY <2>2 DEF Range
  <2>5. CASE p = 0
    BY <2>1, <2>2, <2>4, <2>5, GiveBackOne
  <2>6. CASE p # 0
    <3>1. pools[n + 1] = Append(old, p) /\ Extends(old)
      BY <2>1, <2>2, <2>3, <2>4, <2>6, GiveBackOne
    <3>2. /\ Append(old, p) \in Seq(EvenPortSet)
          /\ Len(pool) <= Len(Append(old, p))
      BY <2>4, <2>6, <3>1
    <3>3. \A i \in 1..Len(pool) : Append(old, p)[i] = pool[i]
      BY <3>1
    <3>4. ASSUME NEW i \in DOMAIN Append(old, p), i > Len(pool)
          PROVE  Append(old, p)[i] \in Range(ports) \ {0}
      <4>1. CASE i = Len(old) + 1
        BY <2>4, <2>6, <3>1, <4>1
      <4>2. CASE i \in DOMAIN old
        BY <3>1, <3>4, <4>2
      <4>3. QED  BY <3>1, <4>1, <4>2
    <3>5. QED  BY <3>1, <3>2, <3>3, <3>4
  <2>7. QED  BY <2>5, <2>6
<1>5. Extends(GiveBackAll(pool, ports))
  <2>1. Nat \subseteq Done
    <3> HIDE DEF Done
    <3>1. QED  BY <1>3, <1>4, AllNumbers
  <2>2. Len(ports) \in Done
    BY <2>1
  <2>3. QED  BY <1>1, <2>2
<1>6. QED  BY <1>5

\* Ports of RTCP sockets: they are odd, so that the pool does not take them.
LEMMA RtcpPort ==
    ASSUME NEW q \in OddPorts
    PROVE  q \in PortNumbers /\ q # 0 /\ q % 2 = 1
<1>1. PICK p \in EvenPortSet \cup {0} : q = p + 1
  BY DEF OddPorts
<1>2. p \in Int /\ p >= 0 /\ p <= 65534 /\ p % 2 = 0
  BY PoolPort
<1>3. q \in Int /\ q > 0 /\ q <= 65535 /\ q % 2 = 1
  BY <1>1, <1>2
<1>4. QED  BY <1>3, InPortNumbers

LEMMA RtcpNotPooled ==
    ASSUME NEW pool, NEW q \in OddPorts \cup {0}
    PROVE  GiveBack(pool, q) = pool
  BY RtcpPort DEF GiveBack

\* What get_port() says of the sockets of a Track.
LEMMA BoundPorts ==
    ASSUME TypeOK, NEW c \in Clients, NEW q \in RtcpPorts(c)
    PROVE  /\ q \in OddPorts \cup {0}
           /\ WantsRtcp(Head(values[c])) => q = port[c] + 1
<1>1. port[c] \in EvenPortSet \cup {0} /\ leftover \subseteq OddPorts
  BY DEF TypeOK, SetupTypeOK
<1>2. port[c] + 1 \in OddPorts
  BY <1>1 DEF OddPorts
<1>3. QED  BY <1>1, <1>2 DEF RtcpPorts

\* The pair that SETUP announces for the server.
LEMMA ServerPair ==
    ASSUME NEW p \in EvenPortSet \cup {0}, NEW q \in OddPorts \cup {0}
    PROVE  <<p, q>> \in PortNumbers \X PortNumbers
  BY PoolPort, RtcpPort, InPortNumbers

\* ... and for the client.
LEMMA ClientPair ==
    ASSUME NEW value \in TransportValues, Accepted(value)
    PROVE  /\ ClientPorts(value) \in PortNumbers \X PortNumbers
           /\ ClientPorts(value)[1] % 2 = 0
           /\ ClientPorts(value)[2] \in {0, ClientPorts(value)[1] + 1}
<1>1. \E a, b : ClientPorts(value) = <<a, b>>
  BY DEF ClientPorts
<1>2. QED  BY <1>1, ClientPairAligned

\* The ports of a session's tracks.
LEMMA SessionPorts ==
    ASSUME TypeOK, NEW s \in Sessions
    PROVE  /\ PortsOf(s) \in Seq(EvenPortSet \cup {0})
           /\ DOMAIN PortsOf(s) = DOMAIN tracks[s]
           /\ \A i \in DOMAIN tracks[s] : PortsOf(s)[i] = tracks[s][i].port
<1>1. tracks[s] \in Seq(Tracks)
  BY DEF TypeOK, SetupTypeOK
<1>2. \A i \in DOMAIN tracks[s] : tracks[s][i].port \in EvenPortSet \cup {0}
  <2>1. \A i \in DOMAIN tracks[s] : tracks[s][i] \in Tracks
    BY <1>1
  <2>2. QED  BY <2>1 DEF Tracks
<1>3. DOMAIN tracks[s] = 1..Len(tracks[s]) /\ Len(tracks[s]) \in Nat
  BY <1>1
<1>4. PortsOf(s) = [i \in 1..Len(tracks[s]) |-> tracks[s][i].port]
  BY <1>3 DEF PortsOf
<1>5. QED  BY <1>2, <1>3, <1>4

(***************************************************************************)
(* Types.                                                                  *)
(***************************************************************************)

LEMMA TypeInit == Init => TypeOK
<1>1. EvenPorts \in Seq(EvenPortSet)
  <2>1. EvenPorts \in Seq({p \in PortNumbers : p > 0 /\ p % 2 = 0})
    BY PortsAssumption
  <2>2. QED  BY <2>1 DEF EvenPortSet, Range
<1>2. 0 \in PortNumbers
  BY InPortNumbers
<1>3. [status |-> 0, transport |-> <<>>] \in Answers
  BY DEF Answers
<1>4. QED  BY <1>1, <1>2, <1>3 DEF Init, SetupInit, TypeOK, SetupTypeOK

\* A response without a Transport header, and an exception.
LEMMA TypeOfRespond ==
    ASSUME TypeOK, NEW c \in Clients, NEW status \in {0, 200, 404, 459},
           SetStatus(c, status) \/ Throw(c) \/ Respond(c, 0)
    PROVE  /\ answer' \in [Clients -> Answers]
           /\ pc' \in [Clients -> {"idle", "lookup", "operate", "try", "rtp", "rtcp",
                                   "track", "answer", "stranded"}]
<1>1. /\ answer \in [Clients -> Answers]
      /\ pc \in [Clients -> {"idle", "lookup", "operate", "try", "rtp", "rtcp",
                             "track", "answer", "stranded"}]
  BY DEF TypeOK, SetupTypeOK
<1>2. \A st \in {0, 200, 404} : [status |-> st, transport |-> <<>>] \in Answers
  BY DEF Answers
<1>3. CASE \E st \in {0, 200, 404} : Respond(c, st)
  BY <1>1, <1>2, <1>3 DEF Respond
<1>4. CASE Throw(c)
  BY <1>1, <1>4 DEF Throw
<1>5. QED  BY <1>3, <1>4 DEF SetStatus, KnownStatuses

\* The requests that come in.
LEMMA TypeRequest ==
    ASSUME TypeOK, NEW c \in Clients,
           NEW m \in {"DESCRIBE", "OPTIONS", "SETUP", "PLAY", "PAUSE", "TEARDOWN", "other"},
           NEW s, Request(c, m, s)
    PROVE  /\ even_ports' \in Seq(EvenPortSet)
           /\ tracks' \in [Sessions -> Seq(Tracks)]
           /\ session' \in [Clients -> Sessions \cup {NoSession}]
           /\ port' \in [Clients -> EvenPortSet \cup {0}]
           /\ rtcp' \in [Clients -> OddPorts \cup {0}]
           /\ leftover' \subseteq OddPorts
           /\ lost' \subseteq EvenPortSet
           /\ doubled' \subseteq EvenPortSet
           /\ dry' \subseteq Clients
           /\ method' \in [Clients -> {"DESCRIBE", "OPTIONS", "SETUP", "PLAY", "PAUSE",
                                       "TEARDOWN", "other", "none"}]
           /\ registered' \in [Sessions -> {"none", "active", "torn"}]
           /\ late' \in [Clients -> BOOLEAN]
           /\ told' \subseteq Sessions
           /\ named' \subseteq Sessions
<1>1. s \in Sessions \cup {NoSession}
  BY DEF Request, TypeOK
<1>2. QED  BY <1>1 DEF Request, TypeOK, SetupTypeOK, history, ends

LEMMA TypeHandle ==
    ASSUME TypeOK, NEW c \in Clients, Handle(c)
    PROVE  TypeOK'
<1> USE DEF TypeOK, SetupTypeOK
<1>1. CASE HandleOptions(c)
  BY <1>1, TypeRequest, TypeOfRespond DEF HandleOptions
<1>2. CASE InvalidMethod(c)
  BY <1>2, TypeRequest, TypeOfRespond DEF InvalidMethod
<1>3. CASE \E u \in Urls : HandleDescribe(c, u)
  BY <1>3, TypeRequest, TypeOfRespond DEF HandleDescribe
<1>4. CASE \E u \in Urls, s \in Sessions \cup {NoSession}, header \in Transports :
             HandleSetup(c, u, s, header)
  <2>1. PICK u \in Urls, s \in Sessions \cup {NoSession}, header \in Transports :
               HandleSetup(c, u, s, header)
    BY <1>4
  <2>2. u \in Seq(STRING) /\ header \in Seq(TransportValues)
    BY UrlsAssumption, TransportsAssumption
  <2>3. Request(c, "SETUP", s)
    BY <2>1 DEF HandleSetup
  <2>4. url' \in [Clients -> Seq(STRING)] /\ values' \in [Clients -> Seq(TransportValues)]
    <3>1. url \in [Clients -> Seq(STRING)] /\ values \in [Clients -> Seq(TransportValues)]
      OBVIOUS
    <3>2. \/ url' = [url EXCEPT ![c] = u] /\ values' = [values EXCEPT ![c] = header]
          \/ UNCHANGED <<url, values>>
      BY <2>1, Zenon DEF HandleSetup
    <3>3. QED  BY <2>2, <3>1, <3>2
  <2>5. /\ answer' \in [Clients -> Answers]
        /\ pc' \in [Clients -> {"idle", "lookup", "operate", "try", "rtp", "rtcp",
                                "track", "answer", "stranded"}]
    <3>1. CASE SetStatus(c, 459) \/ SetStatus(c, 404)
      BY <3>1, TypeOfRespond
    <3>2. CASE pc' = [pc EXCEPT ![c] = "lookup"] /\ UNCHANGED answer
      BY <3>2
    <3>3. QED  BY <2>1, <3>1, <3>2 DEF HandleSetup
  <2>6. QED  BY <2>3, <2>4, <2>5, TypeRequest
<1>5. CASE \E m \in {"PLAY", "PAUSE", "TEARDOWN"}, s \in Sessions \cup {NoSession} :
             HandleSession(c, m, s)
  <2>1. PICK m \in {"PLAY", "PAUSE", "TEARDOWN"}, s \in Sessions \cup {NoSession} :
               HandleSession(c, m, s)
    BY <1>5
  <2>2. QED  BY <2>1, TypeRequest DEF HandleSession
<1>6. QED  BY <1>1, <1>2, <1>3, <1>4, <1>5 DEF Handle

\* The states of a SETUP under way.
LEMMA TypeSetUp ==
    ASSUME TypeOK, SetupInv, NEW c \in Clients, SetUp(c),
           UNCHANGED <<requests, registered, ends>>
    PROVE  TypeOK'
<1> USE DEF TypeOK, SetupTypeOK, requests, ends, history
<1>1. CASE RejectValue(c)
  BY <1>1 DEF RejectValue, Trying
<1>2. CASE FailSetup(c)
  BY <1>2 DEF FailSetup
<1>3. CASE TakePort(c)
  <2>1. even_ports # <<>> => Head(even_ports) \in EvenPortSet /\ Tail(even_ports) \in Seq(EvenPortSet)
    OBVIOUS
  <2>2. QED  BY <1>3, <2>1 DEF TakePort, Trying
<1>4. ASSUME NEW pool \in Seq(EvenPortSet), Constructing(c), Abandon(c, pool),
             UNCHANGED <<tracks, session, url, answer, doubled, dry>>,
             lost' \subseteq EvenPortSet
      PROVE  TypeOK'
  <2>1. values[c] # <<>>
    BY <1>4 DEF SetupInv, ValueInHand
  <2>2. Tail(values[c]) \in Seq(TransportValues)
    BY <2>1
  <2>3. {rtcp[c]} \ {0} \subseteq OddPorts
    OBVIOUS
  <2>4. QED  BY <1>4, <2>2, <2>3 DEF Abandon
<1>5. CASE BindRtp(c)
  <2>1. CASE Abandon(c, even_ports)
    <3>1. lost' \subseteq EvenPortSet
      BY <1>5 DEF BindRtp
    <3>2. QED  BY <1>4, <1>5, <2>1, <3>1 DEF BindRtp, Constructing
  <2>2. CASE pc' = [pc EXCEPT ![c] = "rtcp"] /\ UNCHANGED <<even_ports, values, port, rtcp, leftover, history>>
    BY <1>5, <2>2 DEF BindRtp
  <2>3. QED  BY <1>5, <2>1, <2>2 DEF BindRtp
<1>6. CASE BindRtcp(c)
  <2>1. port[c] \in EvenPortSet \cup {0}
    OBVIOUS
  <2>2. CASE Abandon(c, GiveBack(even_ports, port[c]))
    <3>1. GiveBack(even_ports, port[c]) \in Seq(EvenPortSet)
      BY <2>1, GiveBackOne
    <3>2. QED  BY <1>4, <1>6, <2>2, <3>1 DEF BindRtcp, Constructing
  <2>3. CASE /\ \E p \in RtcpPorts(c) : rtcp' = [rtcp EXCEPT ![c] = p]
             /\ pc' = [pc EXCEPT ![c] = "track"]
             /\ UNCHANGED <<even_ports, values, port, leftover>>
    <3>1. RtcpPorts(c) \subseteq OddPorts \cup {0}
      BY BoundPorts
    <3>2. QED  BY <1>6, <2>3, <3>1 DEF BindRtcp
  <2>4. QED  BY <1>6, <2>2, <2>3 DEF BindRtcp
<1>7. CASE LeaveTrack(c)
  <2>1. port[c] \in EvenPortSet \cup {0}
    OBVIOUS
  <2>2. GiveBack(even_ports, rtcp[c]) = even_ports
    BY RtcpNotPooled
  <2>3. GiveBack(even_ports, port[c]) \in Seq(EvenPortSet)
    BY <2>1, GiveBackOne
  <2>4. QED  BY <1>4, <1>7, <2>2, <2>3 DEF LeaveTrack, Constructing
<1>8. CASE EmplaceTrack(c)
  <2>1. PICK s : s = session[c]
    OBVIOUS
  <2>2. PICK value : value = Head(values[c])
    OBVIOUS
  <2>3. s \in Sessions /\ values[c] # <<>> /\ Accepted(value) /\ value \in TransportValues
    BY <1>8, <2>1, <2>2 DEF EmplaceTrack, SetupInv, SessionKnown, ValueInHand, SettingUp,
                            Constructing
  <2>4. PICK medium \in {"video", "audio"} :
          tracks' = [tracks EXCEPT ![s] =
                       Append(@, [port |-> port[c], rtcp |-> rtcp[c], medium |-> medium])]
    BY <1>8, <2>1 DEF EmplaceTrack, StreamTypes, Mapped
  <2>5. tracks' \in [Sessions -> Seq(Tracks)]
    <3>1. PICK track : track = [port |-> port[c], rtcp |-> rtcp[c], medium |-> medium]
      OBVIOUS
    <3>2. track \in Tracks
      BY <3>1 DEF Tracks
    <3>3. tracks[s] \in Seq(Tracks)
      BY <2>3
    <3>4. Append(tracks[s], track) \in Seq(Tracks)
      BY <3>2, <3>3
    <3>5. QED  BY <2>3, <2>4, <3>1, <3>4
  <2>6. PortsOf(s) \in Seq(EvenPortSet \cup {0})
    BY <2>3, SessionPorts
  <2>7. even_ports' \in Seq(EvenPortSet)
    BY <1>8, <2>1, <2>6, GiveBackAllExtends DEF EmplaceTrack
  <2>8. doubled' \subseteq EvenPortSet
    <3>1. Range(PortsOf(s)) \subseteq EvenPortSet \cup {0}
      BY <2>6 DEF Range
    <3>2. QED  BY <1>8, <2>1, <3>1 DEF EmplaceTrack
  <2>9. answer' \in [Clients -> Answers]
    <3>1. ClientPorts(value) \in PortNumbers \X PortNumbers
      BY <2>3, ClientPair
    <3>2. <<port[c], rtcp[c]>> \in PortNumbers \X PortNumbers
      BY ServerPair
    <3>3. <<ClientPorts(value), <<port[c], rtcp[c]>>>> \in Seq(PortNumbers \X PortNumbers)
      BY <3>1, <3>2
    <3>4. [status |-> 200, transport |-> <<ClientPorts(value), <<port[c], rtcp[c]>>>>]
            \in Answers
      BY <3>3 DEF Answers
    <3>5. QED  BY <1>8, <2>1, <2>2, <3>4 DEF EmplaceTrack
  <2>10. leftover' \subseteq OddPorts
    <3>1. \A i \in DOMAIN tracks[s] : tracks[s][i].rtcp \in OddPorts \cup {0}
      <4>1. tracks[s] \in Seq(Tracks)
        BY <2>3
      <4>2. \A i \in DOMAIN tracks[s] : tracks[s][i] \in Tracks
        BY <4>1
      <4>3. QED  BY <4>2 DEF Tracks
    <3>2. RtcpPortsOf(s) \subseteq OddPorts
      BY <3>1 DEF RtcpPortsOf
    <3>3. QED  BY <1>8, <2>1, <3>2 DEF EmplaceTrack
  <2>11. /\ pc' = [pc EXCEPT ![c] = "answer"]
         /\ port' = [port EXCEPT ![c] = 0]
         /\ rtcp' = [rtcp EXCEPT ![c] = 0]
         /\ values' = [values EXCEPT ![c] = <<>>]
         /\ UNCHANGED <<session, url, lost, dry>>
    BY <1>8 DEF EmplaceTrack
  <2>12. QED  BY <2>5, <2>7, <2>8, <2>9, <2>10, <2>11
<1>9. QED
  BY <1>1, <1>2, <1>3, <1>5, <1>6, <1>7, <1>8
  DEF SetUp, FailConnect, UnknownPresentation, FailLoad

LEMMA TypeContinue ==
    ASSUME TypeOK, SetupInv, TrackAnnounced, ToldTorn, NEW c \in Clients,
           Continue(c) \/ Reconnect(c)
    PROVE  TypeOK'
<1> USE DEF TypeOK, SetupTypeOK, requests, ends, history
<1>1. CASE \E s \in Sessions : CreateSession(c, s)
  BY <1>1 DEF CreateSession
<1>2. CASE FindSession(c)
  BY <1>2 DEF FindSession, AfterLookup
<1>3. CASE InvalidSession(c)
  BY <1>3, TypeOfRespond DEF InvalidSession
<1>4. CASE PlayOrPause(c)
  BY <1>4, TypeOfRespond DEF PlayOrPause
<1>5. CASE Teardown(c)
  BY <1>5, TypeOfRespond DEF Teardown
<1>6. CASE SetUp(c) /\ UNCHANGED <<requests, registered, ends>>
  BY <1>6, TypeSetUp
<1>7. CASE Send(c)
  <2>1. method[c] = "TEARDOWN" => session[c] \in Sessions
    BY <1>7 DEF Send, ToldTorn
  <2>2. answer[c].transport # <<>> => session[c] \in Sessions
    BY <1>7 DEF Send, TrackAnnounced
  <2>3. told' \subseteq Sessions /\ named' \subseteq Sessions
    BY <1>7, <2>1, <2>2 DEF Send
  <2>4. [status |-> 0, transport |-> <<>>] \in Answers
    BY DEF Answers
  <2>5. QED  BY <1>7, <2>3, <2>4 DEF Send
<1>8. CASE Reconnect(c)
  BY <1>8 DEF Reconnect
<1>9. QED  BY <1>1, <1>2, <1>3, <1>4, <1>5, <1>6, <1>7, <1>8 DEF Continue

(***************************************************************************)
(* What a step does to the client that takes it and to the others.         *)
(***************************************************************************)

Step(c) == Handle(c) \/ Continue(c) \/ Reconnect(c)

OthersKeep(c) ==
    \A d \in Clients \ {c} :
        /\ pc'[d] = pc[d] /\ session'[d] = session[d] /\ values'[d] = values[d]
        /\ port'[d] = port[d] /\ rtcp'[d] = rtcp[d] /\ answer'[d] = answer[d]
        /\ method'[d] = method[d] /\ late'[d] = late[d]
        /\ d \in dry' <=> d \in dry

LEMMA OthersKeepSetUp ==
    ASSUME TypeOK, NEW c \in Clients, SetUp(c), UNCHANGED <<requests, registered, ends>>
    PROVE  OthersKeep(c)
<1> USE DEF TypeOK, SetupTypeOK, OthersKeep, requests, history
<1>1. CASE RejectValue(c)
  BY <1>1 DEF RejectValue
<1>2. CASE FailSetup(c)
  BY <1>2 DEF FailSetup
<1>3. CASE TakePort(c)
  BY <1>3 DEF TakePort
<1>4. CASE BindRtp(c)
  BY <1>4 DEF BindRtp, Abandon
<1>5. CASE BindRtcp(c)
  BY <1>5 DEF BindRtcp, Abandon
<1>6. CASE LeaveTrack(c)
  BY <1>6 DEF LeaveTrack, Abandon
<1>7. CASE EmplaceTrack(c)
  BY <1>7 DEF EmplaceTrack
<1>8. QED
  BY <1>1, <1>2, <1>3, <1>4, <1>5, <1>6, <1>7
  DEF SetUp, FailConnect, UnknownPresentation, FailLoad

LEMMA OthersKeepStep ==
    ASSUME TypeOK, NEW c \in Clients, Step(c)
    PROVE  OthersKeep(c)
<1> USE DEF TypeOK, SetupTypeOK, OthersKeep, requests, history
<1>1. CASE HandleOptions(c)
  BY <1>1 DEF HandleOptions, Request, SetStatus, Respond, Throw
<1>2. CASE InvalidMethod(c)
  BY <1>2 DEF InvalidMethod, Request, Throw
<1>3. CASE \E u \in Urls : HandleDescribe(c, u)
  BY <1>3 DEF HandleDescribe, Request, SetStatus, Respond, Throw
<1>4. CASE \E u \in Urls, s \in Sessions \cup {NoSession}, header \in Transports :
             HandleSetup(c, u, s, header)
  BY <1>4 DEF HandleSetup, Request, SetStatus, Respond, Throw
<1>5. CASE \E m \in {"PLAY", "PAUSE", "TEARDOWN"}, s \in Sessions \cup {NoSession} :
             HandleSession(c, m, s)
  BY <1>5 DEF HandleSession, Request
<1>6. CASE \E s \in Sessions : CreateSession(c, s)
  BY <1>6 DEF CreateSession
<1>7. CASE FindSession(c)
  BY <1>7 DEF FindSession
<1>8. CASE InvalidSession(c)
  BY <1>8 DEF InvalidSession, Throw
<1>9. CASE PlayOrPause(c)
  BY <1>9 DEF PlayOrPause, SetStatus, Respond, Throw
<1>10. CASE Teardown(c)
  BY <1>10 DEF Teardown, Respond
<1>11. CASE SetUp(c) /\ UNCHANGED <<requests, registered, ends>>
  BY <1>11, OthersKeepSetUp
<1>12. CASE Send(c)
  BY <1>12 DEF Send
<1>13. CASE Reconnect(c)
  BY <1>13 DEF Reconnect
<1>14. QED
  BY <1>1, <1>2, <1>3, <1>4, <1>5, <1>6, <1>7, <1>8, <1>9, <1>10, <1>11, <1>12, <1>13
  DEF Step, Handle, Continue

\* The client's own state: SessionKnown, ValueInHand, PortInHand and
\* PairsAnnounced for one client.
Announced(c) ==
    pc[c] = "answer" /\ answer[c].transport # <<>> =>
        LET client == answer[c].transport[1]
            server == answer[c].transport[2]
        IN  /\ client[1] % 2 = 0 /\ client[2] \in {0, client[1] + 1}
            /\ c \notin dry =>
                  /\ server[1] \in EvenPortSet
                  /\ client[2] # 0 => server[2] = server[1] + 1

ClientInv(c) ==
    /\ pc[c] = "operate" \/ SettingUp(c) => session[c] \in Sessions
    /\ Constructing(c) => values[c] # <<>> /\ Accepted(Head(values[c]))
    /\ ~Constructing(c) => port[c] = 0
    /\ Constructing(c) /\ c \notin dry => port[c] # 0
    /\ pc[c] = "track" /\ WantsRtcp(Head(values[c])) => rtcp[c] = port[c] + 1
    /\ Announced(c)

LEMMA ClientInvs ==
    SessionKnown /\ ValueInHand /\ PortInHand /\ PairsAnnounced
      <=> \A c \in Clients : ClientInv(c)
  BY DEF ClientInv, SessionKnown, ValueInHand, PortInHand, PairsAnnounced, Announced

LEMMA ClientInvsNext ==
    (SessionKnown /\ ValueInHand /\ PortInHand /\ PairsAnnounced
      <=> \A c \in Clients : ClientInv(c))'
  BY ClientInvs, PTL

LEMMA ClientSetUp ==
    ASSUME TypeOK, NEW c \in Clients, ClientInv(c), SetUp(c)
    PROVE  ClientInv(c)'
<1>1. /\ pc \in [Clients -> {"idle", "lookup", "operate", "try", "rtp", "rtcp", "track",
                             "answer", "stranded"}]
      /\ values \in [Clients -> Seq(TransportValues)]
      /\ session \in [Clients -> Sessions \cup {NoSession}]
      /\ port \in [Clients -> EvenPortSet \cup {0}]
      /\ rtcp \in [Clients -> OddPorts \cup {0}]
      /\ answer \in [Clients -> Answers]
  BY DEF TypeOK, SetupTypeOK
<1> USE DEF ClientInv, Announced, SettingUp, Constructing, history
<1>2. CASE RejectValue(c)
  BY <1>1, <1>2 DEF RejectValue, Trying
<1>3. CASE FailSetup(c)
  BY <1>1, <1>3 DEF FailSetup
<1>4. CASE TakePort(c)
  <2>1. even_ports # <<>> => Head(even_ports) \in EvenPortSet
    BY DEF TypeOK, SetupTypeOK
  <2>2. 0 \notin EvenPortSet
    BY PoolPort
  <2>3. QED  BY <1>1, <1>4, <2>1, <2>2 DEF TakePort, Trying
<1>5. CASE BindRtp(c)
  BY <1>1, <1>5 DEF BindRtp, Abandon
<1>6. CASE BindRtcp(c)
  <2>1. CASE Abandon(c, GiveBack(even_ports, port[c]))
    BY <1>1, <1>6, <2>1 DEF BindRtcp, Abandon
  <2>2. CASE /\ \E p \in RtcpPorts(c) : rtcp' = [rtcp EXCEPT ![c] = p]
             /\ pc' = [pc EXCEPT ![c] = "track"]
             /\ UNCHANGED <<even_ports, values, port, leftover>>
    <3>1. WantsRtcp(Head(values[c])) => rtcp'[c] = port[c] + 1
      BY <1>1, <2>2, BoundPorts
    <3>2. QED  BY <1>1, <1>6, <2>2, <3>1 DEF BindRtcp
  <2>3. QED  BY <1>6, <2>1, <2>2 DEF BindRtcp
<1>7. CASE LeaveTrack(c)
  BY <1>1, <1>7 DEF LeaveTrack, Abandon
<1>8. CASE EmplaceTrack(c)
  <2>1. PICK value : value = Head(values[c])
    OBVIOUS
  <2>2. PICK client, server :
          client = ClientPorts(value) /\ server = <<port[c], rtcp[c]>>
    OBVIOUS
  <2>3. client[1] % 2 = 0 /\ client[2] \in {0, client[1] + 1}
    <3>1. value \in TransportValues /\ Accepted(value)
      BY <1>1, <1>8, <2>1 DEF EmplaceTrack
    <3>2. QED  BY <2>2, <3>1, ClientPair
  <2>4. c \notin dry => /\ server[1] \in EvenPortSet
                        /\ client[2] # 0 => server[2] = server[1] + 1
    BY <1>1, <1>8, <2>1, <2>2 DEF EmplaceTrack, WantsRtcp
  <2>5. answer'[c].transport = <<client, server>>
    BY <1>1, <1>8, <2>1, <2>2 DEF EmplaceTrack
  <2>6. Announced(c)'
    <3>1. dry' = dry /\ EvenPortSet' = EvenPortSet
      BY <1>8 DEF EmplaceTrack, EvenPortSet
    <3>2. answer'[c].transport[1] = client /\ answer'[c].transport[2] = server
      BY <2>5
    <3>3. QED  BY <2>3, <2>4, <3>1, <3>2
  <2>7. QED  BY <1>1, <1>8, <2>6 DEF EmplaceTrack
<1>9. QED
  BY <1>2, <1>3, <1>4, <1>5, <1>6, <1>7, <1>8
  DEF SetUp, FailConnect, UnknownPresentation, FailLoad

\* A handler that returns or throws.
LEMMA ClientDone ==
    ASSUME TypeOK, NEW c \in Clients, ClientInv(c), ~Constructing(c), NEW status,
           SetStatus(c, status) \/ Respond(c, status) \/ Throw(c),
           UNCHANGED <<port, rtcp>>
    PROVE  ClientInv(c)'
<1>1. pc \in [Clients -> {"idle", "lookup", "operate", "try", "rtp", "rtcp", "track",
                         "answer", "stranded"}]
      /\ answer \in [Clients -> Answers]
  BY DEF TypeOK, SetupTypeOK
<1>2. pc'[c] = "answer" => answer'[c].transport = <<>>
  BY <1>1 DEF SetStatus, Respond, Throw
<1>3. pc'[c] \in {"answer", "stranded"}
  BY <1>1 DEF SetStatus, Respond, Throw
<1>4. Announced(c)'
  BY <1>2 DEF Announced
<1>5. QED  BY <1>3, <1>4 DEF ClientInv, SettingUp, Constructing

LEMMA ClientStep ==
    ASSUME TypeOK, NEW c \in Clients, ClientInv(c), Step(c)
    PROVE  ClientInv(c)'
<1>1. /\ pc \in [Clients -> {"idle", "lookup", "operate", "try", "rtp", "rtcp", "track",
                             "answer", "stranded"}]
      /\ session \in [Clients -> Sessions \cup {NoSession}]
      /\ answer \in [Clients -> Answers]
  BY DEF TypeOK, SetupTypeOK
<1>2. CASE HandleOptions(c) \/ InvalidMethod(c)
  BY <1>2, ClientDone DEF HandleOptions, InvalidMethod, Request, Constructing
<1>3. CASE \E u \in Urls : HandleDescribe(c, u)
  BY <1>3, ClientDone DEF HandleDescribe, Request, Constructing
<1>4. CASE \E u \in Urls, s \in Sessions \cup {NoSession}, header \in Transports :
             HandleSetup(c, u, s, header)
  <2>1. ~Constructing(c) /\ pc[c] = "idle" /\ UNCHANGED <<port, rtcp>>
    BY <1>4 DEF HandleSetup, Request, Constructing
  <2>2. CASE SetStatus(c, 459) \/ SetStatus(c, 404)
    BY <2>1, <2>2, ClientDone
  <2>3. CASE pc' = [pc EXCEPT ![c] = "lookup"] /\ UNCHANGED answer
    BY <1>1, <2>1, <2>3 DEF ClientInv, Announced, SettingUp, Constructing
  <2>4. QED  BY <1>4, <2>2, <2>3 DEF HandleSetup
<1>5. CASE \E m \in {"PLAY", "PAUSE", "TEARDOWN"}, s \in Sessions \cup {NoSession} :
             HandleSession(c, m, s)
  BY <1>1, <1>5
  DEF HandleSession, Request, ClientInv, Announced, SettingUp, Constructing
<1>6. CASE \E s \in Sessions : CreateSession(c, s)
  BY <1>1, <1>6 DEF CreateSession, ClientInv, Announced, SettingUp, Constructing
<1>7. CASE FindSession(c)
  BY <1>1, <1>7
  DEF FindSession, AfterLookup, ClientInv, Announced, SettingUp, Constructing
<1>8. CASE InvalidSession(c) \/ PlayOrPause(c) \/ Teardown(c)
  <2>1. /\ ~Constructing(c) /\ UNCHANGED <<port, rtcp>>
        /\ \E status : SetStatus(c, status) \/ Respond(c, status) \/ Throw(c)
    BY <1>8 DEF InvalidSession, PlayOrPause, Teardown, Constructing
  <2>2. QED  BY <2>1, ClientDone
<1>9. CASE SetUp(c) /\ UNCHANGED <<requests, registered, ends>>
  BY <1>9, ClientSetUp
<1>10. CASE Send(c)
  BY <1>1, <1>10 DEF Send, ClientInv, Announced, SettingUp, Constructing
<1>11. CASE Reconnect(c)
  BY <1>1, <1>11 DEF Reconnect, ClientInv, Announced, SettingUp, Constructing
<1>12. QED
  BY <1>2, <1>3, <1>4, <1>5, <1>6, <1>7, <1>8, <1>9, <1>10, <1>11
  DEF Step, Handle, Continue

(***************************************************************************)
(* Sessions: what was told and what is late.                               *)
(***************************************************************************)

LEMMA SetUpStep ==
    ASSUME TypeOK, NEW c \in Clients, SetUp(c)
    PROVE  /\ SettingUp(c)
           /\ pc'[c] = "answer" => EmplaceTrack(c)
           /\ session' = session
  BY DEF TypeOK, SetupTypeOK, SetUp, SettingUp, RejectValue, FailSetup, TakePort, BindRtp,
         BindRtcp, FailConnect, UnknownPresentation, FailLoad, LeaveTrack, EmplaceTrack,
         Trying, Abandon

\* A session that is torn down stays so, and is told of by the response to
\* TEARDOWN only.
LEMMA SessionStep ==
    ASSUME TypeOK, NEW c \in Clients, Step(c)
    PROVE  /\ \A s \in Sessions : registered[s] = "torn" => registered'[s] = "torn"
           /\ \/ told' = told
              \/ Send(c) /\ told' = told \cup {session[c]} /\ method[c] = "TEARDOWN"
<1>1. registered \in [Sessions -> {"none", "active", "torn"}]
  BY DEF TypeOK
<1>2. CASE Handle(c)
  BY <1>1, <1>2 DEF Handle, HandleOptions, InvalidMethod, HandleDescribe, HandleSetup,
                    HandleSession, Request, ends
<1>3. CASE Continue(c) /\ ~Send(c)
  BY <1>1, <1>3 DEF Continue, CreateSession, FindSession, InvalidSession, PlayOrPause,
                    Teardown, ends
<1>4. CASE Send(c)
  BY <1>1, <1>4 DEF Send
<1>5. CASE Reconnect(c)
  BY <1>1, <1>5 DEF Reconnect, ends
<1>6. QED  BY <1>2, <1>3, <1>4, <1>5 DEF Step

\* The client's own request.
ClientLate(c) ==
    late[c] =>
        /\ session[c] \in told
        /\ pc[c] \in {"lookup", "answer", "stranded"}
        /\ pc[c] = "answer" => answer[c].status = 404

ClientTorn(c) ==
    pc[c] = "answer" /\ method[c] = "TEARDOWN" =>
        session[c] \in Sessions /\ registered[session[c]] = "torn"

LEMMA ClientLateStep ==
    ASSUME TypeOK, NEW c \in Clients, SessionKnown, ToldTorn, ClientLate(c), Step(c)
    PROVE  ClientLate(c)'
<1>1. /\ pc \in [Clients -> {"idle", "lookup", "operate", "try", "rtp", "rtcp", "track",
                             "answer", "stranded"}]
      /\ session \in [Clients -> Sessions \cup {NoSession}]
      /\ answer \in [Clients -> Answers]
      /\ late \in [Clients -> BOOLEAN]
      /\ told \subseteq Sessions
      /\ NoSession \notin told
  BY SessionAssumption DEF TypeOK, SetupTypeOK
<1>2. \A m, s : Request(c, m, s) =>
        /\ late'[c] = (s \in told) /\ session'[c] = s /\ told' = told
  BY <1>1 DEF Request, ends
<1>3. CASE HandleOptions(c) \/ InvalidMethod(c)
  BY <1>1, <1>2, <1>3 DEF HandleOptions, InvalidMethod, ClientLate
<1>4. CASE \E u \in Urls : HandleDescribe(c, u)
  BY <1>1, <1>2, <1>4 DEF HandleDescribe, ClientLate
<1>5. CASE \E u \in Urls, s \in Sessions \cup {NoSession}, header \in Transports :
             HandleSetup(c, u, s, header)
  <2>1. session'[c] \in told' \/ ~late'[c]
    BY <1>1, <1>2, <1>5 DEF HandleSetup
  <2>2. CASE SetStatus(c, 459)
    BY <1>1, <2>1, <2>2 DEF SetStatus, KnownStatuses, Throw, ClientLate
  <2>3. CASE SetStatus(c, 404)
    BY <1>1, <2>1, <2>3 DEF SetStatus, KnownStatuses, Respond, ClientLate
  <2>4. CASE pc' = [pc EXCEPT ![c] = "lookup"]
    BY <1>1, <2>1, <2>4 DEF ClientLate
  <2>5. QED  BY <1>5, <2>2, <2>3, <2>4 DEF HandleSetup
<1>6. CASE \E m \in {"PLAY", "PAUSE", "TEARDOWN"}, s \in Sessions \cup {NoSession} :
             HandleSession(c, m, s)
  <2>1. late'[c] => session'[c] \in told'
    BY <1>1, <1>2, <1>6 DEF HandleSession
  <2>2. pc'[c] = "lookup"
    BY <1>1, <1>6 DEF HandleSession
  <2>3. QED  BY <2>1, <2>2 DEF ClientLate
<1>7. CASE \E s \in Sessions : CreateSession(c, s)
  <2>1. ~late[c]
    BY <1>1, <1>7 DEF CreateSession, ClientLate
  <2>2. QED  BY <1>7, <2>1 DEF CreateSession, requests, ClientLate
<1>8. CASE FindSession(c)
  <2>1. ~late[c]
    BY <1>1, <1>8 DEF FindSession, ToldTorn, ClientLate
  <2>2. QED  BY <1>8, <2>1 DEF FindSession, requests, ClientLate
<1>9. CASE InvalidSession(c)
  BY <1>1, <1>9 DEF InvalidSession, Throw, requests, ends, ClientLate
<1>10. CASE PlayOrPause(c) \/ Teardown(c)
  BY <1>10 DEF PlayOrPause, Teardown, requests, ClientLate
<1>11. CASE SetUp(c) /\ UNCHANGED <<requests, registered, ends>>
  BY <1>11, SetUpStep DEF SettingUp, requests, ClientLate
<1>12. CASE Send(c) \/ Reconnect(c)
  BY <1>1, <1>12 DEF Send, Reconnect, ClientLate
<1>13. QED
  BY <1>3, <1>4, <1>5, <1>6, <1>7, <1>8, <1>9, <1>10, <1>11, <1>12
  DEF Step, Handle, Continue

LEMMA ClientTornStep ==
    ASSUME TypeOK, NEW c \in Clients, SessionKnown, SetupMethod, ClientTorn(c), Step(c)
    PROVE  ClientTorn(c)'
<1>1. /\ pc \in [Clients -> {"idle", "lookup", "operate", "try", "rtp", "rtcp", "track",
                             "answer", "stranded"}]
      /\ session \in [Clients -> Sessions \cup {NoSession}]
      /\ registered \in [Sessions -> {"none", "active", "torn"}]
      /\ method \in [Clients -> {"DESCRIBE", "OPTIONS", "SETUP", "PLAY", "PAUSE",
                                 "TEARDOWN", "other", "none"}]
  BY DEF TypeOK, SetupTypeOK
<1>2. CASE Handle(c)
  BY <1>1, <1>2 DEF Handle, HandleOptions, InvalidMethod, HandleDescribe, HandleSetup,
                    HandleSession, Request, ClientTorn
<1>3. CASE (\E s \in Sessions : CreateSession(c, s)) \/ FindSession(c)
  BY <1>1, <1>3 DEF CreateSession, FindSession, AfterLookup, ClientTorn
<1>4. CASE InvalidSession(c)
  BY <1>1, <1>4 DEF InvalidSession, Throw, ClientTorn
<1>5. CASE PlayOrPause(c)
  BY <1>1, <1>5 DEF PlayOrPause, requests, ClientTorn
<1>6. CASE Teardown(c)
  BY <1>1, <1>6 DEF Teardown, SessionKnown, ClientTorn
<1>7. CASE SetUp(c) /\ UNCHANGED <<requests, registered, ends>>
  BY <1>7, SetUpStep DEF SetupMethod, requests, ClientTorn
<1>8. CASE Send(c) \/ Reconnect(c)
  BY <1>1, <1>8 DEF Send, Reconnect, ClientTorn
<1>9. QED
  BY <1>2, <1>3, <1>4, <1>5, <1>6, <1>7, <1>8 DEF Step, Continue

LEMMA SetupMethodStep ==
    ASSUME TypeOK, NEW c \in Clients, SettingUp(c) => method[c] = "SETUP", Step(c)
    PROVE  (SettingUp(c) => method[c] = "SETUP")'
<1>1. /\ pc \in [Clients -> {"idle", "lookup", "operate", "try", "rtp", "rtcp", "track",
                             "answer", "stranded"}]
      /\ method \in [Clients -> {"DESCRIBE", "OPTIONS", "SETUP", "PLAY", "PAUSE",
                                 "TEARDOWN", "other", "none"}]
  BY DEF TypeOK, SetupTypeOK
<1>2. CASE Handle(c)
  BY <1>1, <1>2 DEF Handle, HandleOptions, InvalidMethod, HandleDescribe, HandleSetup,
                    HandleSession, Request, SetStatus, Respond, Throw, SettingUp
<1>3. CASE (\E s \in Sessions : CreateSession(c, s)) \/ FindSession(c)
  BY <1>1, <1>3 DEF CreateSession, FindSession, AfterLookup, requests, SettingUp
<1>4. CASE InvalidSession(c) \/ PlayOrPause(c) \/ Teardown(c)
  BY <1>1, <1>4 DEF InvalidSession, PlayOrPause, Teardown, SetStatus, Respond, Throw,
                    SettingUp
<1>5. CASE SetUp(c) /\ UNCHANGED <<requests, registered, ends>>
  BY <1>5, SetUpStep DEF requests
<1>6. CASE Send(c) \/ Reconnect(c)
  BY <1>1, <1>6 DEF Send, Reconnect, SettingUp
<1>7. QED
  BY <1>2, <1>3, <1>4, <1>5, <1>6 DEF Step, Continue

LEMMA SessionsNext ==
    ASSUME DispatchInv, NEW c \in Clients, Step(c)
    PROVE  SetupMethod' /\ ToldTorn' /\ LateRefused'
<1>1. TypeOK /\ SessionKnown /\ SetupMethod /\ ToldTorn /\ LateRefused
  BY DEF DispatchInv, SetupInv
<1>2. \A d \in Clients \ {c} :
        /\ pc'[d] = pc[d] /\ session'[d] = session[d] /\ answer'[d] = answer[d]
        /\ method'[d] = method[d] /\ late'[d] = late[d]
  BY <1>1, OthersKeepStep DEF OthersKeep
<1>3. \A s \in Sessions : registered[s] = "torn" => registered'[s] = "torn"
  BY <1>1, SessionStep
<1>4. told \subseteq told'
  BY <1>1, SessionStep
<1>5. ASSUME NEW d \in Clients
      PROVE  /\ (SettingUp(d) => method[d] = "SETUP")'
             /\ ClientTorn(d)'
             /\ ClientLate(d)'
  <2>1. (SettingUp(d) => method[d] = "SETUP") /\ ClientTorn(d) /\ ClientLate(d)
    BY <1>1 DEF SetupMethod, ToldTorn, LateRefused, ClientTorn, ClientLate
  <2>2. CASE d = c
    BY <1>1, <2>1, <2>2, SetupMethodStep, ClientTornStep, ClientLateStep
  <2>3. CASE d # c
    <3>1. (SettingUp(d) => method[d] = "SETUP")'
      BY <1>2, <2>1, <2>3 DEF SettingUp
    <3>2. ClientTorn(d)'
      BY <1>2, <1>3, <2>1, <2>3 DEF ClientTorn
    <3>3. ClientLate(d)'
      BY <1>2, <1>4, <2>1, <2>3 DEF ClientLate
    <3>4. QED  BY <3>1, <3>2, <3>3
  <2>4. QED  BY <2>2, <2>3
<1>6. ASSUME NEW s \in told'
      PROVE  registered'[s] = "torn"
  <2>1. CASE s \in told
    <3>1. s \in Sessions /\ registered[s] = "torn"
      BY <1>1, <2>1 DEF ToldTorn, TypeOK
    <3>2. QED  BY <1>3, <3>1
  <2>2. CASE s \notin told
    <3>1. Send(c) /\ s = session[c] /\ method[c] = "TEARDOWN"
      BY <1>1, <2>2, SessionStep
    <3>2. s \in Sessions /\ registered[s] = "torn"
      BY <1>1, <3>1 DEF Send, ToldTorn
    <3>3. QED  BY <1>3, <3>2
  <2>3. QED  BY <2>1, <2>2
<1>7. SetupMethod'
  BY <1>5 DEF SetupMethod
<1>8. ToldTorn'
  BY <1>5, <1>6 DEF ToldTorn, ClientTorn
<1>9. LateRefused'
  BY <1>5 DEF LateRefused, ClientLate
<1>10. QED  BY <1>7, <1>8, <1>9

(***************************************************************************)
(* Sessions: tracks and names.                                             *)
(***************************************************************************)

\* Only emplace_track() changes the tracks, and an answer can only be sent.
LEMMA TracksStep ==
    ASSUME TypeOK, NEW c \in Clients, Step(c)
    PROVE  /\ tracks' = tracks \/ (SetUp(c) /\ EmplaceTrack(c) /\ UNCHANGED ends)
           /\ pc[c] = "answer" => Send(c)
           /\ named \subseteq named'
<1>1. CASE Handle(c)
  BY <1>1 DEF Handle, HandleOptions, InvalidMethod, HandleDescribe, HandleSetup,
              HandleSession, Request, ends
<1>2. CASE SetUp(c) /\ UNCHANGED <<requests, registered, ends>>
  <2>1. SettingUp(c)
    BY <1>2, SetUpStep
  <2>2. tracks' = tracks \/ EmplaceTrack(c)
    BY <1>2 DEF SetUp, RejectValue, FailSetup, TakePort, BindRtp, BindRtcp, FailConnect,
                UnknownPresentation, FailLoad, LeaveTrack
  <2>3. QED  BY <1>2, <2>1, <2>2 DEF SettingUp, ends
<1>3. CASE \/ (\E s \in Sessions : CreateSession(c, s)) \/ FindSession(c)
           \/ InvalidSession(c) \/ PlayOrPause(c) \/ Teardown(c) \/ Send(c)
  BY <1>3 DEF CreateSession, FindSession, InvalidSession, PlayOrPause, Teardown, Send, ends
<1>4. CASE Reconnect(c)
  BY <1>4 DEF Reconnect, ends
<1>5. QED  BY <1>1, <1>2, <1>3, <1>4 DEF Step, Continue

ClientNamed(c) ==
    pc[c] = "answer" /\ answer[c].transport # <<>> => session[c] \in Sessions

LEMMA ClientNamedStep ==
    ASSUME TypeOK, SessionKnown, NEW c \in Clients, Step(c)
    PROVE  ClientNamed(c)'
<1>1. /\ pc \in [Clients -> {"idle", "lookup", "operate", "try", "rtp", "rtcp", "track",
                             "answer", "stranded"}]
      /\ answer \in [Clients -> Answers]
  BY DEF TypeOK, SetupTypeOK
<1>2. CASE Handle(c)
  BY <1>1, <1>2 DEF Handle, HandleOptions, InvalidMethod, HandleDescribe, HandleSetup,
                    HandleSession, SetStatus, Respond, Throw, ClientNamed
<1>3. CASE (\E s \in Sessions : CreateSession(c, s)) \/ FindSession(c)
  BY <1>1, <1>3 DEF CreateSession, FindSession, AfterLookup, ClientNamed
<1>4. CASE InvalidSession(c) \/ PlayOrPause(c) \/ Teardown(c)
  BY <1>1, <1>4 DEF InvalidSession, PlayOrPause, Teardown, SetStatus, Respond, Throw,
                    ClientNamed
<1>5. CASE SetUp(c) /\ UNCHANGED <<requests, registered, ends>>
  BY <1>5, SetUpStep DEF SessionKnown, ClientNamed
<1>6. CASE Send(c) \/ Reconnect(c)
  BY <1>1, <1>6 DEF Send, Reconnect, ClientNamed
<1>7. QED
  BY <1>2, <1>3, <1>4, <1>5, <1>6 DEF Step, Continue

LEMMA TrackAnnouncedNext ==
    ASSUME DispatchInv, NEW c \in Clients, Step(c)
    PROVE  TrackAnnounced'
<1>1. TypeOK /\ SessionKnown /\ TrackAnnounced
  BY DEF DispatchInv, SetupInv
<1>2. \A d \in Clients \ {c} :
        pc'[d] = pc[d] /\ session'[d] = session[d] /\ answer'[d] = answer[d]
  BY <1>1, OthersKeepStep DEF OthersKeep
<1>3. ASSUME NEW d \in Clients
      PROVE  ClientNamed(d)'
  <2>1. CASE d = c
    BY <1>1, <2>1, ClientNamedStep
  <2>2. CASE d # c
    BY <1>1, <1>2, <2>2 DEF TrackAnnounced, ClientNamed
  <2>3. QED  BY <2>1, <2>2
<1>4. ASSUME NEW s \in Sessions \ named', tracks'[s] # <<>>
      PROVE  \E d \in Clients : /\ pc'[d] = "answer" /\ session'[d] = s
                                /\ answer'[d].transport # <<>>
  <2>1. s \notin named
    BY <1>1, <1>4, TracksStep
  <2>2. CASE tracks[s] # <<>>
    <3>1. PICK d \in Clients : /\ pc[d] = "answer" /\ session[d] = s
                               /\ answer[d].transport # <<>>
      BY <1>1, <1>4, <2>1, <2>2 DEF TrackAnnounced
    <3>2. CASE d = c
      <4>1. Send(c)
        BY <1>1, <3>1, <3>2, TracksStep
      <4>2. s \in named'
        BY <3>1, <3>2, <4>1 DEF Send
      <4>3. QED  BY <1>4, <4>2
    <3>3. CASE d # c
      BY <1>2, <3>1, <3>3
    <3>4. QED  BY <3>2, <3>3
  <2>3. CASE tracks[s] = <<>>
    <3>1. SetUp(c) /\ EmplaceTrack(c)
      BY <1>1, <1>4, <2>3, TracksStep
    <3>2. session[c] = s
      BY <1>1, <1>4, <2>3, <3>1 DEF EmplaceTrack, TypeOK, SetupTypeOK
    <3>3. pc'[c] = "answer" /\ session'[c] = s /\ answer'[c].transport # <<>>
      BY <1>1, <3>1, <3>2 DEF EmplaceTrack, TypeOK, SetupTypeOK
    <3>4. QED  BY <3>3
  <2>4. QED  BY <2>2, <2>3
<1>5. QED  BY <1>3, <1>4 DEF TrackAnnounced, ClientNamed

(***************************************************************************)
(* Who owns a port: a step leaves the ports where they are, or one of them *)
(* is taken from the pool, given back, lost by ::bind(), or goes to a      *)
(* track, whose vector may give others back while it grows.                *)
(***************************************************************************)

PortsStay == UNCHANGED <<even_ports, tracks, port, lost, doubled>>

PortTaken(c) ==
    /\ even_ports # <<>> /\ port[c] = 0
    /\ even_ports' = Tail(even_ports)
    /\ port' = [port EXCEPT ![c] = Head(even_ports)]
    /\ UNCHANGED <<tracks, lost, doubled>>

PortReturned(c) ==
    /\ even_ports' = IF port[c] = 0 THEN even_ports ELSE Append(even_ports, port[c])
    /\ port' = [port EXCEPT ![c] = 0]
    /\ UNCHANGED <<tracks, lost, doubled>>

PortLost(c) ==
    /\ port' = [port EXCEPT ![c] = 0]
    /\ lost' = IF port[c] = 0 THEN lost ELSE lost \cup {port[c]}
    /\ UNCHANGED <<even_ports, tracks, doubled>>

TrackAdded(c, s) ==
    \E medium : tracks' = [tracks EXCEPT ![s] =
        Append(@, [port |-> port[c], rtcp |-> rtcp[c], medium |-> medium])]

PortToTrack(c, s) ==
    /\ even_ports' \in Seq(EvenPortSet)
    /\ Len(even_ports) <= Len(even_ports')
    /\ \A i \in 1..Len(even_ports) : even_ports'[i] = even_ports[i]
    /\ \A i \in DOMAIN even_ports' : i > Len(even_ports) => even_ports'[i] \in doubled'
    /\ doubled \subseteq doubled'
    /\ TrackAdded(c, s)
    /\ port' = [port EXCEPT ![c] = 0]
    /\ UNCHANGED lost

LEMMA PortMoves ==
    ASSUME TypeOK, NEW c \in Clients, ClientInv(c), SetUp(c)
    PROVE  \/ PortsStay \/ PortTaken(c) \/ PortReturned(c) \/ PortLost(c)
           \/ \E s \in Sessions : PortToTrack(c, s)
<1>1. /\ port \in [Clients -> EvenPortSet \cup {0}]
      /\ even_ports \in Seq(EvenPortSet)
  BY DEF TypeOK, SetupTypeOK
<1>2. port[c] \in EvenPortSet \cup {0}
  BY <1>1
<1>3. GiveBack(even_ports, port[c])
        = IF port[c] = 0 THEN even_ports ELSE Append(even_ports, port[c])
  BY <1>1, <1>2, GiveBackOne
<1>4. CASE RejectValue(c) \/ FailSetup(c)
  BY <1>4 DEF RejectValue, FailSetup, PortsStay, history
<1>5. CASE TakePort(c)
  <2>1. port[c] = 0
    BY <1>5 DEF TakePort, Trying, ClientInv, Constructing
  <2>2. CASE even_ports = <<>>
    BY <1>1, <1>5, <2>1, <2>2 DEF TakePort, PortsStay, history
  <2>3. CASE even_ports # <<>>
    BY <1>5, <2>1, <2>3 DEF TakePort, PortTaken, history
  <2>4. QED  BY <2>2, <2>3
<1>6. CASE BindRtp(c)
  BY <1>6 DEF BindRtp, Abandon, PortsStay, PortLost, history
<1>7. CASE BindRtcp(c)
  BY <1>3, <1>7 DEF BindRtcp, Abandon, PortsStay, PortReturned, history
<1>8. CASE LeaveTrack(c)
  <2>1. GiveBack(even_ports, rtcp[c]) = even_ports
    BY RtcpNotPooled DEF TypeOK, SetupTypeOK
  <2>2. QED  BY <1>3, <1>8, <2>1 DEF LeaveTrack, Abandon, PortReturned, history
<1>9. CASE EmplaceTrack(c)
  <2>1. PICK s : s = session[c]
    OBVIOUS
  <2>2. s \in Sessions
    BY <1>9, <2>1 DEF EmplaceTrack, ClientInv, SettingUp
  <2>3. PortsOf(s) \in Seq(EvenPortSet \cup {0})
    BY <2>2, SessionPorts
  <2>4. /\ TrackAdded(c, s)
        /\ port' = [port EXCEPT ![c] = 0]
        /\ UNCHANGED lost
    BY <1>9, <2>1 DEF EmplaceTrack, TrackAdded
  <2>5. CASE Full(s)
    <3>1. /\ even_ports' = GiveBackAll(even_ports, PortsOf(s))
          /\ doubled' = doubled \cup (Range(PortsOf(s)) \ {0})
      BY <1>9, <2>1, <2>5 DEF EmplaceTrack
    <3>2. /\ even_ports' \in Seq(EvenPortSet)
          /\ Len(even_ports) <= Len(even_ports')
          /\ \A i \in 1..Len(even_ports) : even_ports'[i] = even_ports[i]
          /\ \A i \in DOMAIN even_ports' :
                 i > Len(even_ports) => even_ports'[i] \in Range(PortsOf(s)) \ {0}
      BY <1>1, <2>3, <3>1, GiveBackAllExtends
    <3>3. PortToTrack(c, s)
      BY <2>4, <3>1, <3>2 DEF PortToTrack
    <3>4. QED  BY <2>2, <3>3
  <2>6. CASE ~Full(s)
    <3>1. even_ports' = even_ports /\ doubled' = doubled
      BY <1>9, <2>1, <2>6 DEF EmplaceTrack
    <3>2. /\ even_ports' \in Seq(EvenPortSet)
          /\ Len(even_ports) <= Len(even_ports')
          /\ \A i \in 1..Len(even_ports) : even_ports'[i] = even_ports[i]
          /\ \A i \in DOMAIN even_ports' : ~(i > Len(even_ports))
      BY <1>1, <3>1
    <3>3. PortToTrack(c, s)
      BY <2>4, <3>1, <3>2 DEF PortToTrack
    <3>4. QED  BY <2>2, <3>3
  <2>7. QED  BY <2>5, <2>6
<1>10. QED
  BY <1>4, <1>5, <1>6, <1>7, <1>8, <1>9
  DEF SetUp, FailConnect, UnknownPresentation, FailLoad

LEMMA PortsMove ==
    ASSUME TypeOK, NEW c \in Clients, ClientInv(c), Step(c)
    PROVE  \/ PortsStay \/ PortTaken(c) \/ PortReturned(c) \/ PortLost(c)
           \/ \E s \in Sessions : PortToTrack(c, s)
<1>1. CASE SetUp(c)
  BY <1>1, PortMoves
<1>2. CASE Handle(c)
  BY <1>2 DEF Handle, HandleOptions, InvalidMethod, HandleDescribe, HandleSetup,
              HandleSession, Request, PortsStay, history
<1>3. CASE \/ (\E s \in Sessions : CreateSession(c, s)) \/ FindSession(c)
           \/ InvalidSession(c) \/ PlayOrPause(c) \/ Teardown(c) \/ Send(c) \/ Reconnect(c)
  BY <1>3 DEF CreateSession, FindSession, InvalidSession, PlayOrPause, Teardown, Send,
              Reconnect, PortsStay, history
<1>4. QED  BY <1>1, <1>2, <1>3 DEF Step, Continue

\* The positions, tracks and requests that have p.
OwnedBy(p) == PoolOnce(p) /\ TrackOnce(p) /\ RequestOnce(p) /\ KindsApart(p)
Somewhere(p) == Pooled(p) \/ Tracked(p) \/ Requested(p)

LEMMA PortTakenKeeps ==
    ASSUME TypeOK, NEW c \in Clients, NEW p \in EvenPortSet, PortTaken(c)
    PROVE  (OwnedBy(p) => OwnedBy(p)') /\ (Somewhere(p) => Somewhere(p)')
<1>1. /\ port \in [Clients -> EvenPortSet \cup {0}]
      /\ even_ports \in Seq(EvenPortSet) /\ even_ports # <<>>
      /\ port[c] = 0 /\ p # 0
  BY PoolPort DEF TypeOK, SetupTypeOK, PortTaken
<1>2. /\ \A i \in DOMAIN even_ports' : i + 1 \in DOMAIN even_ports /\ i + 1 # 1
      /\ \A i \in DOMAIN even_ports' : even_ports'[i] = even_ports[i + 1]
      /\ \A i \in DOMAIN even_ports : i # 1 =>
             i - 1 \in DOMAIN even_ports' /\ even_ports'[i - 1] = even_ports[i]
      /\ 1 \in DOMAIN even_ports
      /\ \A i, j \in DOMAIN even_ports' : i + 1 = j + 1 => i = j
  BY <1>1 DEF PortTaken
<1>3. /\ port'[c] = even_ports[1]
      /\ \A d \in Clients \ {c} : port'[d] = port[d]
      /\ tracks' = tracks
  BY <1>1 DEF PortTaken
<1>4. Pooled(p) => Pooled(p)' \/ Requested(p)'
  BY <1>2, <1>3 DEF Pooled, Requested
<1>5. Somewhere(p) => Somewhere(p)'
  BY <1>1, <1>3, <1>4 DEF Somewhere, Tracked, Requested
<1>6. ASSUME OwnedBy(p)
      PROVE  OwnedBy(p)'
  <2>1. PoolOnce(p)'
    BY <1>2, <1>6 DEF OwnedBy, PoolOnce
  <2>2. TrackOnce(p)'
    BY <1>3, <1>6 DEF OwnedBy, TrackOnce
  <2>3. RequestOnce(p)'
    BY <1>1, <1>2, <1>3, <1>6 DEF OwnedBy, RequestOnce, KindsApart, Pooled, Requested
  <2>4. KindsApart(p)'
    <3>1. Pooled(p)' => Pooled(p)
      BY <1>2 DEF Pooled
    <3>2. Tracked(p)' => Tracked(p)
      BY <1>3 DEF Tracked
    <3>3. Requested(p)' => Requested(p) \/ even_ports[1] = p
      BY <1>3 DEF Requested
    <3>4. even_ports[1] = p => Pooled(p) /\ ~Pooled(p)'
      BY <1>2, <1>6 DEF OwnedBy, PoolOnce, Pooled
    <3>5. QED  BY <1>6, <3>1, <3>2, <3>3, <3>4 DEF OwnedBy, KindsApart
  <2>5. QED  BY <2>1, <2>2, <2>3, <2>4 DEF OwnedBy
<1>7. QED  BY <1>5, <1>6

LEMMA PortReturnedKeeps ==
    ASSUME TypeOK, NEW c \in Clients, NEW p \in EvenPortSet, PortReturned(c)
    PROVE  (OwnedBy(p) => OwnedBy(p)') /\ (Somewhere(p) => Somewhere(p)')
<1>1. /\ port \in [Clients -> EvenPortSet \cup {0}]
      /\ even_ports \in Seq(EvenPortSet)
      /\ p # 0
  BY PoolPort DEF TypeOK, SetupTypeOK
<1>2. /\ port'[c] = 0
      /\ \A d \in Clients \ {c} : port'[d] = port[d]
      /\ tracks' = tracks
  BY <1>1 DEF PortReturned
<1>3. /\ \A i \in DOMAIN even_ports : i \in DOMAIN even_ports' /\ even_ports'[i] = even_ports[i]
      /\ \A i \in DOMAIN even_ports' :
           i \in DOMAIN even_ports \/ (i = Len(even_ports) + 1 /\ even_ports'[i] = port[c])
      /\ port[c] # 0 => Len(even_ports) + 1 \in DOMAIN even_ports'
                        /\ even_ports'[Len(even_ports) + 1] = port[c]
  <2>1. CASE port[c] = 0
    BY <1>1, <2>1 DEF PortReturned
  <2>2. CASE port[c] # 0
    BY <1>1, <2>2 DEF PortReturned
  <2>3. QED  BY <2>1, <2>2
<1>4. Somewhere(p) => Somewhere(p)'
  <2>1. Pooled(p) => Pooled(p)'
    BY <1>3 DEF Pooled
  <2>2. Tracked(p) => Tracked(p)'
    BY <1>2 DEF Tracked
  <2>3. Requested(p) => Requested(p)' \/ Pooled(p)'
    BY <1>1, <1>2, <1>3 DEF Requested, Pooled
  <2>4. QED  BY <2>1, <2>2, <2>3 DEF Somewhere
<1>5. ASSUME OwnedBy(p)
      PROVE  OwnedBy(p)'
  <2>1. PoolOnce(p)'
    BY <1>3, <1>5 DEF OwnedBy, PoolOnce, KindsApart, Pooled, Requested
  <2>2. TrackOnce(p)'
    BY <1>2, <1>5 DEF OwnedBy, TrackOnce
  <2>3. RequestOnce(p)'
    BY <1>1, <1>2, <1>5 DEF OwnedBy, RequestOnce
  <2>4. KindsApart(p)'
    <3>1. Pooled(p)' => Pooled(p) \/ port[c] = p
      BY <1>3 DEF Pooled
    <3>2. Tracked(p)' => Tracked(p)
      BY <1>2 DEF Tracked
    <3>3. Requested(p)' => Requested(p)
      BY <1>1, <1>2 DEF Requested
    <3>4. port[c] = p => Requested(p) /\ ~Requested(p)'
      BY <1>1, <1>2, <1>5 DEF OwnedBy, RequestOnce, Requested
    <3>5. QED  BY <1>5, <3>1, <3>2, <3>3, <3>4 DEF OwnedBy, KindsApart
  <2>5. QED  BY <2>1, <2>2, <2>3, <2>4 DEF OwnedBy
<1>6. QED  BY <1>4, <1>5

LEMMA PortLostKeeps ==
    ASSUME TypeOK, NEW c \in Clients, NEW p \in EvenPortSet, PortLost(c)
    PROVE  /\ OwnedBy(p) => OwnedBy(p)'
           /\ p \notin lost' /\ Somewhere(p) => Somewhere(p)'
<1>1. /\ port \in [Clients -> EvenPortSet \cup {0}]
      /\ p # 0
  BY PoolPort DEF TypeOK, SetupTypeOK
<1>2. /\ port'[c] = 0
      /\ \A d \in Clients \ {c} : port'[d] = port[d]
      /\ tracks' = tracks /\ even_ports' = even_ports
  BY <1>1 DEF PortLost
<1>3. (Pooled(p)' <=> Pooled(p)) /\ (Tracked(p)' <=> Tracked(p))
  BY <1>2 DEF Pooled, Tracked
<1>4. Requested(p)' => Requested(p)
  BY <1>1, <1>2 DEF Requested
<1>5. p \notin lost' /\ Requested(p) => Requested(p)'
  BY <1>1, <1>2 DEF Requested, PortLost
<1>6. OwnedBy(p) => OwnedBy(p)'
  <2>1. PoolOnce(p) => PoolOnce(p)'
    BY <1>2 DEF PoolOnce
  <2>2. TrackOnce(p) => TrackOnce(p)'
    BY <1>2 DEF TrackOnce
  <2>3. RequestOnce(p) => RequestOnce(p)'
    BY <1>1, <1>2 DEF RequestOnce
  <2>4. KindsApart(p) => KindsApart(p)'
    BY <1>3, <1>4 DEF KindsApart
  <2>5. QED  BY <2>1, <2>2, <2>3, <2>4 DEF OwnedBy
<1>7. QED  BY <1>3, <1>5, <1>6 DEF Somewhere

LEMMA PortToTrackKeeps ==
    ASSUME TypeOK, NEW c \in Clients, NEW s \in Sessions, NEW p \in EvenPortSet,
           PortToTrack(c, s)
    PROVE  /\ p \notin doubled' /\ OwnedBy(p) => OwnedBy(p)'
           /\ Somewhere(p) => Somewhere(p)'
<1>1. /\ port \in [Clients -> EvenPortSet \cup {0}]
      /\ even_ports \in Seq(EvenPortSet)
      /\ tracks \in [Sessions -> Seq(Tracks)]
      /\ p # 0
  BY PoolPort DEF TypeOK, SetupTypeOK
<1>2. /\ port'[c] = 0
      /\ \A d \in Clients \ {c} : port'[d] = port[d]
  BY <1>1 DEF PortToTrack
<1>3. /\ \A i \in DOMAIN even_ports : i \in DOMAIN even_ports' /\ even_ports'[i] = even_ports[i]
      /\ \A i \in DOMAIN even_ports' : i \in DOMAIN even_ports \/ even_ports'[i] \in doubled'
  <2>1. /\ DOMAIN even_ports' = 1..Len(even_ports') /\ Len(even_ports') \in Nat
        /\ DOMAIN even_ports = 1..Len(even_ports) /\ Len(even_ports) \in Nat
        /\ Len(even_ports) <= Len(even_ports')
    BY <1>1 DEF PortToTrack
  <2>2. \A i \in DOMAIN even_ports' : i \in DOMAIN even_ports \/ i > Len(even_ports)
    BY <2>1
  <2>3. \A i \in DOMAIN even_ports : i \in DOMAIN even_ports'
    BY <2>1
  <2>4. QED  BY <2>1, <2>2, <2>3 DEF PortToTrack
<1>4. PICK last : last = Len(tracks[s]) + 1
  OBVIOUS
<1>5. /\ \A t \in Sessions : \A i \in DOMAIN tracks[t] :
           i \in DOMAIN tracks'[t] /\ tracks'[t][i] = tracks[t][i]
      /\ \A t \in Sessions : \A i \in DOMAIN tracks'[t] :
           i \in DOMAIN tracks[t] \/ (t = s /\ i = last)
      /\ last \in DOMAIN tracks'[s] /\ tracks'[s][last].port = port[c]
      /\ last \notin DOMAIN tracks[s]
  <2>1. PICK medium : tracks' = [tracks EXCEPT ![s] =
                        Append(@, [port |-> port[c], rtcp |-> rtcp[c], medium |-> medium])]
    BY DEF PortToTrack, TrackAdded
  <2>2. PICK track : track = [port |-> port[c], rtcp |-> rtcp[c], medium |-> medium]
    OBVIOUS
  <2>3. PICK old : old = tracks[s]
    OBVIOUS
  <2>4. old \in Seq(Tracks) /\ last = Len(old) + 1
    BY <1>1, <1>4, <2>3
  <2>5. /\ tracks'[s] = Append(old, track)
        /\ \A t \in Sessions \ {s} : tracks'[t] = tracks[t]
    BY <1>1, <2>1, <2>2, <2>3
  <2>6. /\ DOMAIN Append(old, track) = 1..last /\ Append(old, track)[last] = track
        /\ DOMAIN old = 1..(last - 1) /\ last \in 1..last /\ last \notin 1..(last - 1)
        /\ \A i \in DOMAIN old : i \in 1..last /\ Append(old, track)[i] = old[i]
        /\ \A i \in 1..last : i \in 1..(last - 1) \/ i = last
    <3>1. Len(old) \in Nat /\ DOMAIN old = 1..Len(old)
      BY <2>4
    <3>2. /\ DOMAIN old = 1..(last - 1) /\ last \in 1..last /\ last \notin 1..(last - 1)
          /\ \A i \in 1..last : i \in 1..(last - 1) \/ i = last
          /\ \A i \in DOMAIN old : i \in 1..last
      BY <2>4, <3>1
    <3>3. DOMAIN Append(old, track) = 1..last /\ Append(old, track)[last] = track
      BY <2>4, <3>1
    <3>4. \A i \in DOMAIN old : Append(old, track)[i] = old[i]
      BY <2>4, <3>1
    <3>5. QED  BY <3>2, <3>3, <3>4
  <2>7. last \in DOMAIN tracks'[s] /\ tracks'[s][last].port = port[c]
    BY <2>2, <2>5, <2>6
  <2>8. ASSUME NEW t \in Sessions
        PROVE  /\ \A i \in DOMAIN tracks[t] :
                     i \in DOMAIN tracks'[t] /\ tracks'[t][i] = tracks[t][i]
               /\ \A i \in DOMAIN tracks'[t] :
                     i \in DOMAIN tracks[t] \/ (t = s /\ i = last)
    <3>1. CASE t = s
      BY <2>3, <2>5, <2>6, <3>1
    <3>2. CASE t # s
      BY <2>5, <3>2
    <3>3. QED  BY <3>1, <3>2
  <2>9. last \notin DOMAIN tracks[s]
    BY <2>3, <2>6
  <2>10. QED  BY <2>7, <2>8, <2>9
<1>6. Somewhere(p) => Somewhere(p)'
  <2>1. Pooled(p) => Pooled(p)'
    BY <1>3 DEF Pooled
  <2>2. Tracked(p) => Tracked(p)'
    BY <1>5 DEF Tracked
  <2>3. Requested(p) => Requested(p)' \/ Tracked(p)'
    BY <1>2, <1>5 DEF Requested, Tracked
  <2>4. QED  BY <2>1, <2>2, <2>3 DEF Somewhere
<1>7. ASSUME p \notin doubled', OwnedBy(p)
      PROVE  OwnedBy(p)'
  <2>1. PoolOnce(p)'
    BY <1>3, <1>7 DEF OwnedBy, PoolOnce
  <2>2. TrackOnce(p)'
    <3> SUFFICES ASSUME NEW t \in Sessions, NEW u \in Sessions,
                        NEW i \in DOMAIN tracks'[t], NEW j \in DOMAIN tracks'[u],
                        tracks'[t][i].port = p, tracks'[u][j].port = p
                 PROVE  t = u /\ i = j
      BY DEF TrackOnce
    <3>1. CASE i \in DOMAIN tracks[t] /\ j \in DOMAIN tracks[u]
      BY <1>5, <1>7, <3>1 DEF OwnedBy, TrackOnce
    <3>2. CASE i \in DOMAIN tracks[t] /\ u = s /\ j = last
      <4>1. Tracked(p) /\ Requested(p)
        BY <1>5, <3>2 DEF Tracked, Requested
      <4>2. QED  BY <1>7, <4>1 DEF OwnedBy, KindsApart
    <3>3. CASE j \in DOMAIN tracks[u] /\ t = s /\ i = last
      <4>1. Tracked(p) /\ Requested(p)
        BY <1>5, <3>3 DEF Tracked, Requested
      <4>2. QED  BY <1>7, <4>1 DEF OwnedBy, KindsApart
    <3>4. CASE t = s /\ i = last /\ u = s /\ j = last
      BY <3>4
    <3>5. QED  BY <1>5, <3>1, <3>2, <3>3, <3>4
  <2>3. RequestOnce(p)'
    BY <1>1, <1>2, <1>7 DEF OwnedBy, RequestOnce
  <2>4. KindsApart(p)'
    <3>1. Pooled(p)' => Pooled(p)
      BY <1>3, <1>7 DEF Pooled
    <3>2. Tracked(p)' => Tracked(p) \/ port[c] = p
      BY <1>5 DEF Tracked
    <3>3. Requested(p)' => Requested(p)
      BY <1>1, <1>2 DEF Requested
    <3>4. port[c] = p => Requested(p) /\ ~Requested(p)'
      BY <1>1, <1>2, <1>7 DEF OwnedBy, RequestOnce, Requested
    <3>5. QED  BY <1>7, <3>1, <3>2, <3>3, <3>4 DEF OwnedBy, KindsApart
  <2>5. QED  BY <2>1, <2>2, <2>3, <2>4 DEF OwnedBy
<1>8. QED  BY <1>6, <1>7

LEMMA OwnersNext ==
    ASSUME DispatchInv, NEW c \in Clients, ClientInv(c), Step(c)
    PROVE  OwnedOnce' /\ OwnedSomewhere'
<1>1. /\ TypeOK
      /\ \A p \in EvenPortSet \ doubled : OwnedBy(p)
      /\ \A p \in EvenPortSet \ lost : Somewhere(p)
  BY DEF DispatchInv, SetupInv, OwnedOnce, OwnedSomewhere, OwnedBy, Somewhere
<1>2. ASSUME NEW p \in EvenPortSet
      PROVE  /\ p \notin doubled' => OwnedBy(p)'
             /\ p \notin lost' => Somewhere(p)'
  <2>1. CASE PortsStay
    BY <1>1, <2>1 DEF PortsStay, OwnedBy, PoolOnce, TrackOnce, RequestOnce, KindsApart,
                      Somewhere, Pooled, Tracked, Requested
  <2>2. CASE PortTaken(c)
    <3>1. doubled' = doubled /\ lost' = lost
      BY <2>2 DEF PortTaken
    <3>2. QED  BY <1>1, <2>2, <3>1, PortTakenKeeps
  <2>3. CASE PortReturned(c)
    <3>1. doubled' = doubled /\ lost' = lost
      BY <2>3 DEF PortReturned
    <3>2. QED  BY <1>1, <2>3, <3>1, PortReturnedKeeps
  <2>4. CASE PortLost(c)
    <3>1. doubled' = doubled /\ lost \subseteq lost'
      BY <2>4 DEF PortLost
    <3>2. QED  BY <1>1, <2>4, <3>1, PortLostKeeps
  <2>5. CASE \E s \in Sessions : PortToTrack(c, s)
    <3>1. PICK s \in Sessions : PortToTrack(c, s)
      BY <2>5
    <3>2. doubled \subseteq doubled' /\ lost' = lost
      BY <3>1 DEF PortToTrack
    <3>3. QED  BY <1>1, <3>1, <3>2, PortToTrackKeeps
  <2>6. QED  BY <1>1, <2>1, <2>2, <2>3, <2>4, <2>5, PortsMove
<1>3. EvenPortSet' = EvenPortSet
  BY DEF EvenPortSet
<1>4. QED  BY <1>2, <1>3 DEF OwnedOnce, OwnedSomewhere, OwnedBy, Somewhere

(***************************************************************************)
(* The invariant.                                                          *)
(***************************************************************************)

LEMMA InvInit == Init => DispatchInv
<1> SUFFICES ASSUME Init
             PROVE  DispatchInv
  OBVIOUS
<1>1. TypeOK
  BY TypeInit
<1>2. OwnedOnce
  <2>1. /\ \A p \in EvenPortSet : p # 0
        /\ \A i, j \in DOMAIN EvenPorts : EvenPorts[i] = EvenPorts[j] => i = j
    BY PoolPort, PortsAssumption DEF IsInjective
  <2>2. QED  BY <2>1 DEF Init, SetupInit, OwnedOnce, PoolOnce, TrackOnce, RequestOnce,
                         KindsApart, Pooled, Tracked, Requested
<1>3. OwnedSomewhere
  BY DEF Init, SetupInit, OwnedSomewhere, Pooled, EvenPortSet, Range
<1>4. SessionKnown /\ ValueInHand /\ PortInHand /\ PairsAnnounced
  BY DEF Init, SetupInit, SessionKnown, ValueInHand, PortInHand, PairsAnnounced, SettingUp,
         Constructing
<1>5. SetupMethod /\ ToldTorn /\ LateRefused /\ TrackAnnounced
  BY DEF Init, SetupInit, SetupMethod, ToldTorn, LateRefused, TrackAnnounced, SettingUp
<1>6. QED  BY <1>1, <1>2, <1>3, <1>4, <1>5 DEF DispatchInv, SetupInv

LEMMA ClientsNext ==
    ASSUME DispatchInv, NEW c \in Clients, Step(c)
    PROVE  SessionKnown' /\ ValueInHand' /\ PortInHand' /\ PairsAnnounced'
<1>1. TypeOK /\ \A d \in Clients : ClientInv(d)
  BY ClientInvs DEF DispatchInv, SetupInv
<1>2. ASSUME NEW d \in Clients
      PROVE  ClientInv(d)'
  <2>1. CASE d = c
    BY <1>1, <2>1, ClientStep
  <2>2. CASE d # c
    <3>1. /\ pc'[d] = pc[d] /\ session'[d] = session[d] /\ values'[d] = values[d]
          /\ port'[d] = port[d] /\ rtcp'[d] = rtcp[d] /\ answer'[d] = answer[d]
          /\ d \in dry' <=> d \in dry
      BY <1>1, <2>2, OthersKeepStep DEF OthersKeep
    <3>2. ClientInv(d)
      BY <1>1
    <3>3. EvenPortSet' = EvenPortSet
      BY DEF EvenPortSet
    <3>4. QED  BY <3>1, <3>2, <3>3 DEF ClientInv, Announced, SettingUp, Constructing, WantsRtcp
  <2>3. QED  BY <2>1, <2>2
<1>3. QED  BY <1>2, ClientInvsNext

LEMMA InvNext == DispatchInv /\ [Next]_vars => DispatchInv'
<1> SUFFICES ASSUME DispatchInv, [Next]_vars
             PROVE  DispatchInv'
  OBVIOUS
<1>1. ASSUME NEW c \in Clients, Step(c)
      PROVE  DispatchInv'
  <2>1. TypeOK'
    BY <1>1, TypeHandle, TypeContinue DEF Step, DispatchInv
  <2>2. SessionKnown' /\ ValueInHand' /\ PortInHand' /\ PairsAnnounced'
    BY <1>1, ClientsNext
  <2>3. OwnedOnce' /\ OwnedSomewhere'
    <3>1. ClientInv(c)
      BY ClientInvs DEF DispatchInv, SetupInv
    <3>2. QED  BY <1>1, <3>1, OwnersNext
  <2>4. SetupMethod' /\ ToldTorn' /\ LateRefused'
    BY <1>1, SessionsNext
  <2>5. TrackAnnounced'
    BY <1>1, TrackAnnouncedNext
  <2>6. QED  BY <2>1, <2>2, <2>3, <2>4, <2>5 DEF DispatchInv, SetupInv
<1>2. CASE UNCHANGED vars
  <2> USE <1>2 DEF DispatchInv, vars, setup, requests, ends, history
  <2>1. TypeOK'
    BY DEF TypeOK, SetupTypeOK
  <2>2. SessionKnown' /\ ValueInHand' /\ PortInHand' /\ PairsAnnounced'
    BY DEF SetupInv, SessionKnown, ValueInHand, PortInHand, PairsAnnounced, SettingUp,
           Constructing
  <2>3. OwnedOnce' /\ OwnedSomewhere'
    BY DEF SetupInv, OwnedOnce, OwnedSomewhere, PoolOnce, TrackOnce, RequestOnce,
           KindsApart, Pooled, Tracked, Requested
  <2>4. SetupMethod' /\ ToldTorn' /\ LateRefused' /\ TrackAnnounced'
    BY DEF SetupMethod, ToldTorn, LateRefused, TrackAnnounced, SettingUp
  <2>5. QED  BY <2>1, <2>2, <2>3, <2>4 DEF SetupInv
<1>3. QED  BY <1>1, <1>2 DEF Next, Step

\* The inductive invariant holds for any numbers of clients and sessions, any
\* pool, any catalogue, any URLs and Transport headers.
THEOREM DispatchInvariant == Spec => []DispatchInv
<1>1. QED  BY InvInit, InvNext, PTL DEF Spec

\* Type correctness.
THEOREM DispatchTypes == Spec => []TypeOK
<1>1. DispatchInv => TypeOK
  BY DEF DispatchInv
<1>2. QED  BY <1>1, DispatchInvariant, PTL

\* No port is in two places, neither two tracks nor the pool and a track nor
\* two requests, but for those that the growth of a vector gave away.
THEOREM PortsExclusive == Spec => []PortExclusive
<1>1. DispatchInv => PortExclusive
  <2> SUFFICES ASSUME DispatchInv, NEW p \in EvenPortSet \ doubled,
                      NEW x \in Owners(p), NEW y \in Owners(p)
               PROVE  x = y
    BY DEF PortExclusive
  <2>1. PoolOnce(p) /\ TrackOnce(p) /\ RequestOnce(p) /\ KindsApart(p)
    BY DEF DispatchInv, SetupInv, OwnedOnce
  <2> DEFINE InPool(z) == \E i \in DOMAIN even_ports : z = <<"pool", i>> /\ even_ports[i] = p
             InTracks(z) == \E s \in Sessions : \E i \in DOMAIN tracks[s] :
                              z = <<"track", s, i>> /\ tracks[s][i].port = p
             InRequests(z) == \E c \in Clients : z = <<"request", c>> /\ port[c] = p
  <2>2. ASSUME NEW z \in Owners(p)
        PROVE  InPool(z) \/ InTracks(z) \/ InRequests(z)
    <3>1. CASE z \in PoolPlaces(p)
      <4>1. PICK i \in {j \in DOMAIN even_ports : even_ports[j] = p} : z = <<"pool", i>>
        BY <3>1 DEF PoolPlaces
      <4>2. QED  BY <4>1
    <3>2. CASE z \in TrackPlaces(p)
      <4>1. PICK s \in Sessions :
              z \in {<<"track", s, i>> : i \in {j \in DOMAIN tracks[s] : tracks[s][j].port = p}}
        BY <3>2 DEF TrackPlaces
      <4>2. PICK i \in {j \in DOMAIN tracks[s] : tracks[s][j].port = p} : z = <<"track", s, i>>
        BY <4>1
      <4>3. QED  BY <4>2
    <3>3. CASE z \in RequestPlaces(p)
      <4>1. PICK c \in {d \in Clients : port[d] = p} : z = <<"request", c>>
        BY <3>3 DEF RequestPlaces
      <4>2. QED  BY <4>1
    <3>4. QED  BY <2>2, <3>1, <3>2, <3>3 DEF Owners
  <2>3. /\ InPool(x) \/ InTracks(x) \/ InRequests(x)
        /\ InPool(y) \/ InTracks(y) \/ InRequests(y)
    BY <2>2
  <2>4. /\ (InPool(x) \/ InPool(y)) => Pooled(p)
        /\ (InTracks(x) \/ InTracks(y)) => Tracked(p)
        /\ (InRequests(x) \/ InRequests(y)) => Requested(p)
    BY DEF Pooled, Tracked, Requested
  <2>5. CASE InPool(x) /\ InPool(y)
    BY <2>1, <2>5 DEF PoolOnce
  <2>6. CASE InTracks(x) /\ InTracks(y)
    BY <2>1, <2>6 DEF TrackOnce
  <2>7. CASE InRequests(x) /\ InRequests(y)
    BY <2>1, <2>7 DEF RequestOnce
  <2> HIDE DEF InPool, InTracks, InRequests
  <2>8. QED  BY <2>1, <2>3, <2>4, <2>5, <2>6, <2>7 DEF KindsApart
<1>2. QED  BY <1>1, DispatchInvariant, PTL

\* However a SETUP fails, its port is somewhere afterwards, unless ::bind()
\* has refused it.
THEOREM PortsRemembered == Spec => []NoPortForgotten
<1>1. DispatchInv => NoPortForgotten
  <2> SUFFICES ASSUME DispatchInv, NEW p \in EvenPortSet \ lost
               PROVE  Owners(p) # {}
    BY DEF NoPortForgotten
  <2>1. Pooled(p) \/ Tracked(p) \/ Requested(p)
    BY DEF DispatchInv, SetupInv, OwnedSomewhere
  <2>2. CASE Pooled(p)
    <3>1. PICK i \in DOMAIN even_ports : even_ports[i] = p
      BY <2>2 DEF Pooled
    <3>2. <<"pool", i>> \in PoolPlaces(p)
      BY <3>1 DEF PoolPlaces
    <3>3. QED  BY <3>2 DEF Owners
  <2>3. CASE Tracked(p)
    <3>1. PICK s \in Sessions : \E i \in DOMAIN tracks[s] : tracks[s][i].port = p
      BY <2>3 DEF Tracked
    <3>2. PICK i \in DOMAIN tracks[s] : tracks[s][i].port = p
      BY <3>1
    <3>3. PICK places :
            places = {<<"track", s, j>> : j \in {k \in DOMAIN tracks[s] : tracks[s][k].port = p}}
      OBVIOUS
    <3>4. <<"track", s, i>> \in places /\ places \subseteq TrackPlaces(p)
      <4>1. <<"track", s, i>> \in places
        BY <3>2, <3>3
      <4>2. places \subseteq TrackPlaces(p)
        BY <3>3 DEF TrackPlaces
      <4>3. QED  BY <4>1, <4>2
    <3>5. QED  BY <3>4 DEF Owners
  <2>4. CASE Requested(p)
    <3>1. PICK c \in Clients : port[c] = p
      BY <2>4 DEF Requested
    <3>2. <<"request", c>> \in RequestPlaces(p)
      BY <3>1 DEF RequestPlaces
    <3>3. QED  BY <3>2 DEF Owners
  <2>5. QED  BY <2>1, <2>2, <2>3, <2>4
<1>2. QED  BY <1>1, DispatchInvariant, PTL

\* Whoever names a pair of ports is answered with one for either side, whatever
\* the values tried before left in memory; unless the pool was empty when its
\* Track took a port, the server's is a port of the pool and its neighbour.
THEOREM PairsForRtp == Spec => []PairsAnnounced
<1>1. DispatchInv => PairsAnnounced
  BY DEF DispatchInv, SetupInv
<1>2. QED  BY <1>1, DispatchInvariant, PTL

\* After the answer to its TEARDOWN nothing is done for a session any more.
THEOREM TornDownUnserved == Spec => []NoServiceAfterTeardown
<1>1. DispatchInv => NoServiceAfterTeardown
  BY DEF DispatchInv, LateRefused, NoServiceAfterTeardown, SettingUp
<1>2. QED  BY <1>1, DispatchInvariant, PTL

\* A session that no client was told of has no track.
THEOREM TracksNamed == Spec => []NoTrackUnnamed
<1>1. DispatchInv => NoTrackUnnamed
  BY DEF DispatchInv, TrackAnnounced, NoTrackUnnamed
<1>2. QED  BY <1>1, DispatchInvariant, PTL

\* A defect, and how far it goes: in every catalogue whose presentations have a
\* line that does not fit getline()'s buffer above their first control id, every
\* track opens the video stream, although Media.cpp means to map control ids to
\* the media that the SDP names.
THEOREM SoundNeverStreamed ==
    ASSUME \A name \in DOMAIN Sdp : \A i \in DOMAIN Sdp[name] :
               Sdp[name][i].kind = "control" => \E j \in 1..i : ~Sdp[name][j].fits
    PROVE  Spec => []OnlyVideoStreamed
<1>1. ASSUME NEW name \in DOMAIN Sdp, NEW control_id
      PROVE  StreamTypes(Sdp[name], control_id) = {"video"}
  <2>1. Mapped(Sdp[name], control_id) = {}
    BY <1>1 DEF Mapped, ReadLines
  <2>2. QED  BY <2>1 DEF StreamTypes
<1>2. Init => OnlyVideoStreamed
  BY DEF Init, SetupInit, OnlyVideoStreamed
<1>3. TypeOK /\ OnlyVideoStreamed /\ [Next]_vars => OnlyVideoStreamed'
  <2> SUFFICES ASSUME TypeOK, OnlyVideoStreamed, [Next]_vars
               PROVE  OnlyVideoStreamed'
    OBVIOUS
  <2>1. CASE tracks' = tracks
    BY <2>1 DEF OnlyVideoStreamed
  <2>2. CASE \E c \in Clients : EmplaceTrack(c)
    <3>1. PICK c \in Clients : EmplaceTrack(c)
      BY <2>2
    <3>2. PICK s : s = session[c]
      OBVIOUS
    <3>3. PICK track : /\ tracks' = [tracks EXCEPT ![s] = Append(@, track)]
                       /\ track.medium = "video"
      <4>1. PICK medium \in StreamTypes(Sdp[url[c][1]], url[c][2]) :
              tracks' = [tracks EXCEPT ![s] =
                           Append(@, [port |-> port[c], rtcp |-> rtcp[c], medium |-> medium])]
        BY <3>1, <3>2 DEF EmplaceTrack
      <4>2. url[c][1] \in DOMAIN Sdp
        BY <3>1 DEF EmplaceTrack
      <4>3. medium = "video"
        BY <1>1, <4>2
      <4>4. [port |-> port[c], rtcp |-> rtcp[c], medium |-> medium].medium = "video"
        BY <4>3
      <4>5. QED  BY <4>1, <4>4
    <3>4. tracks \in [Sessions -> Seq(Tracks)]
      BY DEF TypeOK, SetupTypeOK
    <3>5. ASSUME NEW t \in Sessions, NEW i \in DOMAIN tracks'[t]
          PROVE  tracks'[t][i].medium = "video"
      <4>1. CASE tracks'[t] = tracks[t]
        BY <4>1 DEF OnlyVideoStreamed
      <4>2. CASE t = s /\ tracks'[t] = Append(tracks[t], track)
        <5>1. PICK old : old = tracks[t]
          OBVIOUS
        <5>2. old \in Seq(Tracks) /\ i \in DOMAIN Append(old, track)
          BY <3>4, <4>2, <5>1
        <5>3. i \in DOMAIN old \/ i = Len(old) + 1
          BY <5>2
        <5>4. \/ i \in DOMAIN old /\ Append(old, track)[i] = old[i]
              \/ Append(old, track)[i] = track
          BY <5>2, <5>3
        <5>5. QED  BY <3>3, <4>2, <5>1, <5>4 DEF OnlyVideoStreamed
      <4>3. QED  BY <3>3, <3>4, <4>1, <4>2
    <3>6. QED  BY <3>5 DEF OnlyVideoStreamed
  <2>3. tracks' = tracks \/ \E c \in Clients : EmplaceTrack(c)
    BY TracksStep DEF Next, Step, vars, setup
  <2>4. QED  BY <2>1, <2>2, <2>3
<1>4. QED  BY <1>2, <1>3, DispatchTypes, PTL DEF Spec

=============================================================================
