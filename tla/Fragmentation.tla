--------------------------- MODULE Fragmentation ---------------------------
(***************************************************************************)
(* How Track::send_frames() cuts one media frame into RTP packets, and     *)
(* what class RTPPacket puts into each of them.  Offsets and sizes are     *)
(* exact; a byte is abstracted to where it comes from: byte i of the frame *)
(* (positive), the RTP header (0) or the fragmentation headers (-1).       *)
(***************************************************************************)
EXTENDS Integers, Sequences

CONSTANTS
    MaxSize,        \* RTPPacket::max_size
    HeaderSize,     \* sizeof(RTPPacket::header)
    SeqModulus,     \* 2^16, the width of Track::sequence_number
    MaxFrame        \* bound: the largest frame

ASSUME MaxSizeAssumption == MaxSize \in Nat \ {0}
ASSUME HeaderAssumption == HeaderSize \in Nat
ASSUME SeqAssumption == SeqModulus \in Nat \ {0}
ASSUME FrameAssumption == MaxFrame \in Nat

VARIABLES
    pc,                 \* "idle", "packet" inside the loop, "failed" after an exception
    size,               \* frame.size
    bytes_to_send, offset,
    sequence_number,    \* Track::sequence_number
    packets             \* the packets sent for this frame

vars == <<pc, size, bytes_to_send, offset, sequence_number, packets>>

(***************************************************************************)
(* RTPPacket::RTPPacket()                                                  *)
(***************************************************************************)

\* remaining is an int: when negative, size_t(remaining) exceeds max_size.
Remaining(bytes, off) == bytes - off
Exceeds(remaining) == remaining < 0 \/ remaining > MaxSize

Fragmented(bytes, off) == Exceeds(Remaining(bytes, off)) \/ off # 0

\* Mutant of SER: the S bit of every fragment that is not the last.
StartOfLongRest(bytes, off) ==
    IF ~Fragmented(bytes, off) THEN "whole"
    ELSE IF bytes > MaxSize THEN "S" ELSE "none"

\* The S and E bits of the FU header; a packet that is no fragment has none.
SER(bytes, off) ==
    CASE ~Fragmented(bytes, off)                -> "whole"
      [] Fragmented(bytes, off) /\ off = 0      -> "S"
      [] off # 0 /\ ~Exceeds(Remaining(bytes, off)) -> "E"
      [] OTHER                                  -> "none"

\* Mutant of Copied: a frame that would fill the packet to its last two
\* bytes counts as fragmented.
CopiedWithFUHeader(bytes, off) ==
    IF off # 0 \/ Exceeds(Remaining(bytes, off) + 2) THEN MaxSize ELSE bytes

\* Bytes copied from the start of the frame, whatever the offset; the same
\* number of bytes is sent.
Copied(bytes, off) == IF Fragmented(bytes, off) THEN MaxSize ELSE bytes

\* The buffer as sent: the header is written at its start, and the payload
\* is copied to its start as well.
Buffer(bytes, off) ==
    LET allocated == HeaderSize + (IF Fragmented(bytes, off) THEN MaxSize + 2 ELSE bytes)
        withHeader == [i \in 1..allocated |-> IF i <= HeaderSize THEN 0 ELSE -1]
        withPayload == [i \in 1..allocated |->
                            IF i <= Copied(bytes, off) THEN i ELSE withHeader[i]]
    IN  [i \in 1..Copied(bytes, off) |-> withPayload[i]]

Packet(bytes, off, number) ==
    [sequence_number |-> number, SER |-> SER(bytes, off),
     length |-> Copied(bytes, off), bytes |-> Buffer(bytes, off)]

(***************************************************************************)
(* Track::send_frames(), the loop over the packets of one frame            *)
(***************************************************************************)

\* read_frame() returns a frame of n bytes; at the end of the file n is 0.
BeginFrame(n) ==
    /\ pc # "packet"
    /\ pc' = "packet"
    /\ size' = n
    /\ bytes_to_send' = n
    /\ offset' = 0
    /\ packets' = <<>>
    /\ UNCHANGED sequence_number

number == (sequence_number + 1) % SeqModulus

\* Mutant of SendPacket: the loop ends on equality only.
SendUntilExact ==
    LET packet == Packet(bytes_to_send, offset, sequence_number)
    IN  /\ pc = "packet"
        /\ sequence_number' = number
        /\ packets' = Append(packets, packet)
        /\ IF packet.length = bytes_to_send
             THEN pc' = "idle" /\ UNCHANGED <<bytes_to_send, offset>>
             ELSE /\ bytes_to_send' = bytes_to_send - packet.length
                  /\ offset' = offset + packet.length
                  /\ UNCHANGED pc
        /\ UNCHANGED size

\* Mutant of SendPacket: a packet that was filled exactly has a successor.
SendOneMore ==
    LET packet == Packet(bytes_to_send, offset, sequence_number)
    IN  /\ pc = "packet"
        /\ sequence_number' = number
        /\ packets' = Append(packets, packet)
        /\ IF packet.length > bytes_to_send \/ bytes_to_send < MaxSize
             THEN pc' = "idle" /\ UNCHANGED <<bytes_to_send, offset>>
             ELSE /\ bytes_to_send' = bytes_to_send - packet.length
                  /\ offset' = offset + packet.length
                  /\ UNCHANGED pc
        /\ UNCHANGED size

\* Mutant of SendPacket: bytes_to_send is not reduced.
SendWithoutProgress ==
    LET packet == Packet(bytes_to_send, offset, sequence_number)
    IN  /\ pc = "packet"
        /\ sequence_number' = number
        /\ packets' = Append(packets, packet)
        /\ IF packet.length >= bytes_to_send
             THEN pc' = "idle" /\ UNCHANGED <<bytes_to_send, offset>>
             ELSE /\ offset' = offset + packet.length
                  /\ UNCHANGED <<bytes_to_send, pc>>
        /\ UNCHANGED size

\* One iteration: a packet is built and sent; it may be the last one.
SendPacket ==
    LET packet == Packet(bytes_to_send, offset, sequence_number)
    IN  /\ pc = "packet"
        /\ sequence_number' = number
        /\ packets' = Append(packets, packet)
        /\ \/ /\ packet.length >= bytes_to_send
              /\ pc' = "idle"
              /\ UNCHANGED <<bytes_to_send, offset>>
           \/ /\ packet.length < bytes_to_send
              /\ bytes_to_send' = bytes_to_send - packet.length
              /\ offset' = offset + packet.length
              /\ UNCHANGED pc
        /\ UNCHANGED size

\* transport.send() throws: the packet's number is used up and the exception
\* gives up the rest of the frame.
SendThrows ==
    /\ pc = "packet"
    /\ pc' = "failed"
    /\ sequence_number' = number
    /\ UNCHANGED <<size, bytes_to_send, offset, packets>>
-----------------------------------------------------------------------------
Init ==
    /\ pc = "idle"
    /\ size = 0
    /\ bytes_to_send = 0
    /\ offset = 0
    /\ sequence_number = 0
    /\ packets = <<>>

Next == (\E n \in 0..MaxFrame : BeginFrame(n)) \/ SendPacket \/ SendThrows

Spec == Init /\ [][Next]_vars
-----------------------------------------------------------------------------
TypeOK ==
    /\ pc \in {"idle", "packet", "failed"}
    /\ size \in 0..MaxFrame
    /\ bytes_to_send \in 0..MaxFrame
    /\ offset \in 0..MaxFrame
    /\ sequence_number \in 0..(SeqModulus - 1)
    /\ packets \in Seq([sequence_number : 0..(SeqModulus - 1),
                        SER : {"whole", "S", "E", "none"},
                        length : Nat, bytes : Seq(Int)])

\* No packet copies bytes from behind the end of the frame, although every
\* fragment, the last one too, copies max_size bytes.
ReadsInsideFrame == \A i \in DOMAIN packets : packets[i].length <= size

\* A frame that was sent took as many packets as its bytes need, and at least
\* one: the loop's two counters, one going up and one going down, agree.
PacketCount ==
    pc = "idle" /\ packets # <<>> =>
        /\ Len(packets) * MaxSize >= size
        /\ Len(packets) = 1 \/ (Len(packets) - 1) * MaxSize < size

\* The first half of the comment on the FU header: S marks the first fragment
\* of a frame that needs several, and no other packet.
StartMarked ==
    \A i \in DOMAIN packets : packets[i].SER = "S" <=> i = 1 /\ size > MaxSize

\* The loop over the packets of a frame ends: every iteration that does not
\* end it leaves fewer bytes to send, and never none or less than none.
FrameProgress ==
    [][pc = "packet" /\ pc' = "packet" =>
            bytes_to_send' < bytes_to_send /\ bytes_to_send' > 0]_vars

\* The second half of the comment: E marks the last fragment, and no other.
EndMarked ==
    pc = "idle" /\ size > MaxSize =>
        \A i \in DOMAIN packets : packets[i].SER = "E" <=> i = Len(packets)

\* The diagram above the constructor: a packet starts with the RTP header.
HeaderFirst ==
    \A i \in DOMAIN packets :
        packets[i].length >= HeaderSize =>
            \A k \in 1..HeaderSize : packets[i].bytes[k] = 0
=============================================================================
