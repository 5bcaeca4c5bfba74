------------------------ MODULE FragmentationProofs ------------------------
(***************************************************************************)
(* Proofs about Fragmentation for every packet size, header size, sequence *)
(* number width and frame size.                                            *)
(***************************************************************************)
EXTENDS Fragmentation, TLAPS
-----------------------------------------------------------------------------
\* The inductive invariant: how the counters of the loop relate.
LoopInv ==
    /\ TypeOK
    /\ pc = "packet" => /\ offset = Len(packets) * MaxSize
                        /\ offset + bytes_to_send = size
                        /\ offset = 0 \/ bytes_to_send > 0
    /\ ReadsInsideFrame
    /\ StartMarked
    /\ PacketCount
-----------------------------------------------------------------------------
USE MaxSizeAssumption, HeaderAssumption, SeqAssumption, FrameAssumption

PacketType == [sequence_number : 0..(SeqModulus - 1),
               SER : {"whole", "S", "E", "none"},
               length : Nat, bytes : Seq(Int)]

\* What the constructor of RTPPacket builds is a packet.
LEMMA PacketIsTyped ==
    ASSUME NEW bytes \in Nat, NEW off \in Nat, NEW num \in 0..(SeqModulus - 1)
    PROVE  Packet(bytes, off, num) \in PacketType
<1>1. Copied(bytes, off) \in Nat
  BY DEF Copied
<1>2. SER(bytes, off) \in {"whole", "S", "E", "none"}
  BY DEF SER
<1>3. Buffer(bytes, off) \in Seq(Int)
  <2> DEFINE n == Copied(bytes, off)
             allocated == HeaderSize + (IF Fragmented(bytes, off) THEN MaxSize + 2 ELSE bytes)
             withHeader == [i \in 1..allocated |-> IF i <= HeaderSize THEN 0 ELSE -1]
             withPayload == [i \in 1..allocated |-> IF i <= n THEN i ELSE withHeader[i]]
  <2>1. n \in Nat /\ n <= allocated
    BY DEF Copied
  <2>2. Buffer(bytes, off) = [i \in 1..n |-> withPayload[i]]
    BY DEF Buffer
  <2>3. n \in Nat /\ allocated \in Int
    BY DEF Copied
  <2> HIDE DEF n, allocated
  <2>4. \A i \in 1..n : withPayload[i] = i
    BY <2>1, <2>3
  <2> HIDE DEF withPayload
  <2>5. QED
    BY <2>2, <2>3, <2>4
<1>4. QED
  BY <1>1, <1>2, <1>3 DEF Packet, PacketType

\* No packet is empty unless its frame is, and a fragment is always full.
LEMMA CopiedBounds ==
    ASSUME NEW bytes \in Nat, NEW off \in Nat
    PROVE  /\ Copied(bytes, off) \in Nat
           /\ off # 0 => Copied(bytes, off) = MaxSize
           /\ off = 0 /\ bytes <= MaxSize => Copied(bytes, off) = bytes
           /\ off = 0 /\ bytes > MaxSize => Copied(bytes, off) = MaxSize
BY DEF Copied, Fragmented, Exceeds, Remaining

\* The S bit is set exactly on a fragment that starts its frame.
LEMMA StartBit ==
    ASSUME NEW bytes \in Nat, NEW off \in Nat
    PROVE  SER(bytes, off) = "S" <=> off = 0 /\ bytes > MaxSize
BY DEF SER, Fragmented, Exceeds, Remaining

\* The loop invariant holds between frames at the start ...
LEMMA LoopInvInit == Init => LoopInv
BY DEF Init, LoopInv, TypeOK, ReadsInsideFrame, StartMarked, PacketCount

\* ... and every step keeps it.
LEMMA LoopInvNext == LoopInv /\ [Next]_vars => LoopInv'
<1> SUFFICES ASSUME LoopInv, [Next]_vars PROVE LoopInv'
  OBVIOUS
<1> USE DEF LoopInv
<1>1. ASSUME NEW n \in 0..MaxFrame, BeginFrame(n)
      PROVE  LoopInv'
  BY <1>1 DEF BeginFrame, TypeOK, ReadsInsideFrame, StartMarked, PacketCount
<1>2. CASE SendPacket
  <2> DEFINE packet == Packet(bytes_to_send, offset, sequence_number)
             count == Len(packets)
  <2>1. /\ bytes_to_send \in Nat /\ offset \in Nat /\ size \in Nat /\ count \in Nat
        /\ sequence_number \in 0..(SeqModulus - 1)
        /\ packets \in Seq(PacketType)
    BY DEF TypeOK, PacketType
  <2>2. /\ pc = "packet" /\ size' = size
        /\ sequence_number' = (sequence_number + 1) % SeqModulus
        /\ packets' = Append(packets, packet)
        /\ offset = count * MaxSize /\ offset + bytes_to_send = size
        /\ offset = 0 \/ bytes_to_send > 0
    BY <1>2 DEF SendPacket, number
  <2>3. packet \in PacketType
    BY <2>1, PacketIsTyped
  <2>4. /\ packet.length = Copied(bytes_to_send, offset)
        /\ packet.SER = SER(bytes_to_send, offset)
    BY DEF Packet
  <2>5. /\ packets' \in Seq(PacketType)
        /\ Len(packets') = count + 1
        /\ packets'[count + 1] = packet
        /\ \A i \in 1..count : packets'[i] = packets[i]
        /\ DOMAIN packets' = 1..(count + 1) /\ DOMAIN packets = 1..count
    BY <2>1, <2>2, <2>3
  <2>6. offset = 0 <=> count = 0
    <3>1. CASE count = 0
      BY <2>2, <3>1
    <3>2. CASE count > 0
      <4>1. count * MaxSize > 0
        BY <2>1, <3>2
      <4>2. QED
        BY <2>1, <2>2, <3>2, <4>1
    <3>3. QED
      BY <2>1, <3>1, <3>2
  <2>7. (count + 1) * MaxSize = count * MaxSize + MaxSize
    BY <2>1
  <2>8. offset # 0 => size >= MaxSize
    <3>1. count >= 1 => count * MaxSize >= MaxSize
      BY <2>1
    <3>2. QED
      BY <2>1, <2>2, <2>6, <3>1
  <2>9. /\ packet.length \in Nat
        /\ offset # 0 => packet.length = MaxSize
        /\ offset = 0 /\ bytes_to_send <= MaxSize => packet.length = bytes_to_send
        /\ offset = 0 /\ bytes_to_send > MaxSize => packet.length = MaxSize
    BY <2>1, <2>4, CopiedBounds
  <2>10. packet.length <= size
    BY <2>1, <2>2, <2>8, <2>9
  <2>11. packet.SER = "S" <=> count = 0 /\ size > MaxSize
    BY <2>1, <2>2, <2>4, <2>6, StartBit
  <2>12. ReadsInsideFrame'
    BY <2>2, <2>5, <2>10 DEF ReadsInsideFrame
  <2>13. StartMarked'
    BY <2>1, <2>2, <2>5, <2>11 DEF StartMarked
  <2>14. CASE packet.length >= bytes_to_send
    <3>1. pc' = "idle" /\ bytes_to_send' = bytes_to_send /\ offset' = offset
      BY <1>2, <2>1, <2>9, <2>14 DEF SendPacket
    <3>2. TypeOK'
      BY <2>1, <2>2, <2>5, <3>1 DEF TypeOK, PacketType
    <3>3. bytes_to_send <= MaxSize
      BY <2>1, <2>9, <2>14
    <3>4. Len(packets') * MaxSize >= size
      BY <2>1, <2>2, <2>5, <2>7, <3>3
    <3>5. count = 0 \/ count * MaxSize < size
      BY <2>1, <2>2, <2>6
    <3>6. PacketCount'
      BY <2>1, <2>2, <2>5, <3>4, <3>5 DEF PacketCount
    <3>7. QED
      BY <2>12, <2>13, <3>1, <3>2, <3>6
  <2>15. CASE packet.length < bytes_to_send
    <3>1. /\ pc' = "packet"
          /\ bytes_to_send' = bytes_to_send - packet.length
          /\ offset' = offset + packet.length
      BY <1>2, <2>1, <2>2, <2>9, <2>15 DEF SendPacket
    <3>2. packet.length = MaxSize
      BY <2>1, <2>9, <2>15
    <3>3. TypeOK'
      <4>1. /\ bytes_to_send' = bytes_to_send - MaxSize
            /\ offset' = offset + MaxSize
            /\ MaxSize < bytes_to_send
            /\ offset + bytes_to_send = size
            /\ size \in 0..MaxFrame /\ offset \in Nat /\ bytes_to_send \in Nat
        BY <2>1, <2>2, <2>15, <3>1, <3>2 DEF TypeOK
      <4>2. bytes_to_send' \in 0..MaxFrame /\ offset' \in 0..MaxFrame
        BY <4>1
      <4>3. sequence_number' \in 0..(SeqModulus - 1) /\ size' \in 0..MaxFrame
        BY <2>1, <2>2 DEF TypeOK
      <4>4. QED
        BY <2>5, <3>1, <4>2, <4>3 DEF TypeOK, PacketType
    <3>4. offset' = Len(packets') * MaxSize
      BY <2>1, <2>2, <2>5, <2>7, <3>1, <3>2
    <3>5. offset' + bytes_to_send' = size' /\ bytes_to_send' > 0
      BY <2>1, <2>2, <2>9, <2>15, <3>1
    <3>6. PacketCount'
      BY <3>1 DEF PacketCount
    <3>7. QED
      BY <2>12, <2>13, <3>3, <3>4, <3>5, <3>6
  <2>16. QED
    BY <2>1, <2>9, <2>14, <2>15
<1>3. CASE SendThrows
  BY <1>3 DEF SendThrows, number, TypeOK, ReadsInsideFrame, StartMarked, PacketCount
<1>4. CASE UNCHANGED vars
  BY <1>4 DEF vars, TypeOK, ReadsInsideFrame, StartMarked, PacketCount
<1>5. QED
  BY <1>1, <1>2, <1>3, <1>4 DEF Next

\* The loop invariant, and with it the type of every variable.
THEOREM LoopInvariant == Spec => []LoopInv
BY LoopInvInit, LoopInvNext, PTL DEF Spec

\* Type correctness.
THEOREM FragmentationTypes == Spec => []TypeOK
<1>1. LoopInv => TypeOK
  BY DEF LoopInv
<1>2. QED
  BY <1>1, LoopInvariant, PTL

\* No fragment reads behind the end of its frame.
THEOREM ReadsInside == Spec => []ReadsInsideFrame
<1>1. LoopInv => ReadsInsideFrame
  BY DEF LoopInv
<1>2. QED
  BY <1>1, LoopInvariant, PTL

\* A frame takes the number of packets its size asks for.
THEOREM PacketCountExact == Spec => []PacketCount
<1>1. LoopInv => PacketCount
  BY DEF LoopInv
<1>2. QED
  BY <1>1, LoopInvariant, PTL

\* The S bit marks first fragments and nothing else.
THEOREM StartBitMarksFirst == Spec => []StartMarked
<1>1. LoopInv => StartMarked
  BY DEF LoopInv
<1>2. QED
  BY <1>1, LoopInvariant, PTL

\* Every iteration leaves fewer bytes to send: the loop ends for every frame.
THEOREM LoopEnds == Spec => FrameProgress
<1> DEFINE Progress == pc = "packet" /\ pc' = "packet" =>
                           bytes_to_send' < bytes_to_send /\ bytes_to_send' > 0
<1>1. LoopInv /\ [Next]_vars => [Progress]_vars
  <2> SUFFICES ASSUME LoopInv, Next, pc = "packet", pc' = "packet"
               PROVE  bytes_to_send' < bytes_to_send /\ bytes_to_send' > 0
    OBVIOUS
  <2>1. SendPacket
    BY DEF Next, BeginFrame, SendThrows
  <2>2. /\ bytes_to_send \in Nat /\ offset \in Nat
        /\ Copied(bytes_to_send, offset) < bytes_to_send
        /\ bytes_to_send' = bytes_to_send - Copied(bytes_to_send, offset)
    BY <2>1 DEF SendPacket, LoopInv, TypeOK, Packet
  <2>3. Copied(bytes_to_send, offset) = MaxSize
    BY <2>2, CopiedBounds
  <2>4. QED
    BY <2>2, <2>3
<1>2. QED
  BY <1>1, LoopInvariant, PTL DEF Spec, FrameProgress
=============================================================================
