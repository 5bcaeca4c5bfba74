----------------------------- MODULE Transport -----------------------------
(***************************************************************************)
(* Port numbers in RTPTransport and UDP::Socket: what a value of the       *)
(* Transport header asks for, what the answer says, and what bind() is     *)
(* given.                                                                  *)
(*                                                                         *)
(* A transport value is a record: "proper" if its specifier and its other  *)
(* parameters are accepted, and "ports", the numbers of its client_port    *)
(* parameter (none, one, or two; the parameter is not repeated).           *)
(***************************************************************************)
EXTENDS Integers, Sequences

PortNumbers == 0..65535

TransportValues ==
    {v \in [proper : BOOLEAN, ports : Seq(PortNumbers)] : Len(v.ports) <= 2}

\* The constructor throws before it binds unless both ports are neighbours.
Accepted(value) ==
    value.proper /\ (Len(value.ports) = 2 => value.ports[2] = value.ports[1] + 1)

\* Mutant of ClientPorts: an odd pair's second port is not moved.
ClientPortsHalfMoved(value) ==
    LET first == IF value.ports = <<>> THEN 0 ELSE value.ports[1]
    IN  <<first - (first % 2), IF Len(value.ports) = 2 THEN value.ports[2] ELSE 0>>

\* client_ports: 0 stands for none; an odd first port is moved to the even
\* one below it, and the second with it.
ClientPorts(value) ==
    LET first == IF value.ports = <<>> THEN 0 ELSE value.ports[1]
        odd == first % 2
    IN  <<first - odd, IF Len(value.ports) = 2 THEN value.ports[2] - odd ELSE 0>>

\* The port that ::bind() understands: sin6_port is in network byte order,
\* and Socket::bind() stores the number as it is (on a little-endian host).
NetworkPort(port) == (port % 256) * 256 + port \div 256
=============================================================================
