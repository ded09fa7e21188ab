--------------------------- MODULE LoopbackLemmas ---------------------------
(***************************************************************************)
(* What the operators the transfers share compute.  Packets, for every     *)
(* block size and byte base: the 16-bit block counter, the round trip of a *)
(* block number through its two bytes, how the blocks tile a file.         *)
(* Sockets, for any number of ports and any buffer size: types are         *)
(* preserved, and a queue only ever holds what it held before or what was  *)
(* just sent to its port.                                                  *)
(***************************************************************************)
EXTENDS Sessions, TLAPS

\* The file's first n blocks (all of it when it is shorter).
Blocks(file, n) ==
    SubSeq(file, 1, IF n * BlockSize <= Len(file) THEN n * BlockSize ELSE Len(file))

\* The counter has room for more than one byte.
LEMMA U16Type == U16 \in Nat /\ U16 > ByteMod /\ U16 > 7
  BY PacketAssumption DEF U16

\* expectedBlockNumber++ and expectedBlockNumber-1 stay in 16 bits and undo
\* each other; below the wrap they are + 1 and - 1.
LEMMA Counter16 ==
  ASSUME NEW b \in UInt16
  PROVE  /\ Inc16(b) \in UInt16 /\ Dec16(b) \in UInt16
         /\ Dec16(Inc16(b)) = b
         /\ b # 0 => Dec16(b) = b - 1
  BY U16Type DEF UInt16, Inc16, Dec16

\* A block number survives the two big-endian bytes of createDataPacket and
\* createACKPacket and the reader's ntohs.
LEMMA WireRoundTrip ==
  ASSUME NEW b \in UInt16, NEW op, NEW payload
  PROVE  /\ NtohsBlock(Wire(op, b, payload)) = b
         /\ Wire(op, b, payload).op = op
         /\ Wire(op, b, payload).data = payload
         /\ Wire(op, b, payload).hi \in 0 .. (ByteMod - 1)
         /\ Wire(op, b, payload).lo \in 0 .. (ByteMod - 1)
  BY PacketAssumption, U16Type DEF UInt16, U16, Wire, NtohsBlock

\* A non-empty block extends the blocks before it by exactly the next piece
\* of the file, and it is short exactly when it reaches the end.
LEMMA BlockTiling ==
  ASSUME NEW S, NEW file \in Seq(S), NEW b \in Nat, b > 0,
         readDataBlock(file, b) # <<>>
  PROVE  /\ readDataBlock(file, b) \in Seq(S)
         /\ (b - 1) * BlockSize < Len(file)
         /\ b - 1 <= Len(file)
         /\ Blocks(file, b - 1) \o readDataBlock(file, b) = Blocks(file, b)
         /\ Len(readDataBlock(file, b)) < BlockSize <=> Len(file) < b * BlockSize
         /\ Len(file) < b * BlockSize => Blocks(file, b) = file
  <1> DEFINE lo == (b - 1) * BlockSize
             hi == IF b * BlockSize <= Len(file) THEN b * BlockSize ELSE Len(file)
  <1>1. b * BlockSize = lo + BlockSize /\ lo \in Nat /\ b * BlockSize \in Nat
    BY PacketAssumption
  <1>2. lo < Len(file) /\ readDataBlock(file, b) = SubSeq(file, lo + 1, hi)
    <2>1. ~(b = 0 \/ (b - 1) * BlockSize >= Len(file))
      BY DEF readDataBlock
    <2>2. readDataBlock(file, b) = SubSeq(file, (b - 1) * BlockSize + 1,
              IF b * BlockSize <= Len(file) THEN b * BlockSize ELSE Len(file))
      BY <2>1 DEF readDataBlock
    <2>3. lo < Len(file)
      BY <2>1, <1>1
    <2> QED
      BY <2>2, <2>3
  <1>3. lo >= b - 1
    <2>1. \A x, y \in Nat : y > 0 => x * y >= x
      OBVIOUS
    <2> QED
      BY <2>1, PacketAssumption
  <1>4. hi \in Nat /\ lo < hi /\ hi <= Len(file) /\ Len(file) \in Nat
    BY <1>1, <1>2, PacketAssumption DEF hi
  <1> HIDE DEF lo, hi
  <1>5. Len(SubSeq(file, lo + 1, hi)) = hi - lo /\ SubSeq(file, lo + 1, hi) \in Seq(S)
    BY <1>1, <1>4
  <1>6. Blocks(file, b - 1) = SubSeq(file, 1, lo)
    BY <1>2, <1>1 DEF Blocks, lo
  <1>7. Blocks(file, b) = SubSeq(file, 1, hi)
    BY DEF Blocks, hi
  <1>8. SubSeq(file, 1, lo) \o SubSeq(file, lo + 1, hi) = SubSeq(file, 1, hi)
    BY <1>1, <1>4
  <1>9. Len(file) < b * BlockSize => hi = Len(file)
    BY <1>1 DEF hi
  <1>10. hi - lo < BlockSize <=> Len(file) < b * BlockSize
    BY <1>1, <1>4, PacketAssumption DEF hi
  <1>11. SubSeq(file, 1, Len(file)) = file
    OBVIOUS
  <1>12. (b - 1) * BlockSize < Len(file) /\ b - 1 <= Len(file)
    BY <1>1, <1>2, <1>3, <1>4 DEF lo
  <1>13. Blocks(file, b - 1) \o readDataBlock(file, b) = Blocks(file, b)
    BY <1>2, <1>6, <1>7, <1>8
  <1>14. Len(readDataBlock(file, b)) < BlockSize <=> Len(file) < b * BlockSize
    BY <1>2, <1>5, <1>10
  <1>15. Len(file) < b * BlockSize => Blocks(file, b) = file
    BY <1>7, <1>9, <1>11
  <1> QED
    BY <1>2, <1>5, <1>12, <1>13, <1>14, <1>15

\* The blocks of a file are a prefix of it.
LEMMA BlocksPrefix ==
  ASSUME NEW S, NEW file \in Seq(S), NEW n \in Nat
  PROVE  /\ Blocks(file, n) \in Seq(S)
         /\ Len(Blocks(file, n)) <= Len(file)
         /\ Blocks(file, n) = SubSeq(file, 1, Len(Blocks(file, n)))
         /\ n = 0 => Blocks(file, n) = <<>>
  BY PacketAssumption DEF Blocks

---------------------------------------------------------------------------
\* The datagrams in a queue, whatever their order.
InQueue(q) == {q[i] : i \in 1 .. Len(q)}

LEMMA QueueContents ==
  ASSUME NEW S, NEW q \in Seq(S)
  PROVE  /\ InQueue(q) \subseteq S
         /\ \A d \in S : InQueue(Append(q, d)) = InQueue(q) \cup {d}
         /\ q # <<>> => Head(q) \in InQueue(q) /\ Tail(q) \in Seq(S)
                        /\ InQueue(Tail(q)) \subseteq InQueue(q)
         /\ InQueue(<<>>) = {}
  <1>1. InQueue(q) \subseteq S
    BY DEF InQueue
  <1>2. ASSUME NEW d \in S PROVE InQueue(Append(q, d)) = InQueue(q) \cup {d}
    <2>1. /\ Len(Append(q, d)) = Len(q) + 1
          /\ \A i \in 1 .. Len(q) : Append(q, d)[i] = q[i]
          /\ Append(q, d)[Len(q) + 1] = d
          /\ Len(q) \in Nat
      OBVIOUS
    <2> QED
      BY <2>1 DEF InQueue
  <1>3. ASSUME q # <<>>
        PROVE  Head(q) \in InQueue(q) /\ Tail(q) \in Seq(S)
               /\ InQueue(Tail(q)) \subseteq InQueue(q)
    <2>1. /\ Tail(q) \in Seq(S) /\ Len(Tail(q)) = Len(q) - 1 /\ Len(q) \in Nat /\ Len(q) > 0
          /\ \A i \in 1 .. Len(Tail(q)) : Tail(q)[i] = q[i + 1]
          /\ Head(q) = q[1]
      BY <1>3
    <2> QED
      BY <2>1 DEF InQueue
  <1>4. InQueue(<<>>) = {}
    BY DEF InQueue
  <1> QED
    BY <1>1, <1>2, <1>3, <1>4

\* The ports the sockets are bound to are ports of the model, and different.
LEMMA PortFacts ==
  /\ Open \subseteq Ports
  /\ ServerPort \in Ports /\ ClientPort \in Ports /\ ServerPort # ClientPort
  /\ 0 \notin Ports
  /\ \A t \in Threads : /\ ThreadPort(t) \in Ports /\ ThreadPort(t) \in ThreadPorts
                        /\ ThreadPort(t) # ClientPort /\ ThreadPort(t) # ServerPort
                        /\ ThreadPort(t) # 0
                        /\ \A u \in Threads : ThreadPort(t) = ThreadPort(u) => t = u
  BY LoopbackAssumption
  DEF Open, Ports, ServerPort, ClientPort, ThreadPorts, ThreadPort, Threads

\* sendto appends the datagram to its destination's queue or does nothing.
LEMMA SendtoFacts ==
  ASSUME NEW q \in [Ports -> Seq(Datagrams)], NEW open \in SUBSET Ports,
         NEW src \in Ports \cup {0}, NEW dst, NEW pkt \in Packets
  PROVE  /\ sendto(q, open, src, dst, pkt) \in [Ports -> Seq(Datagrams)]
         /\ \A p \in Ports : InQueue(sendto(q, open, src, dst, pkt)[p])
                               \subseteq InQueue(q[p]) \cup {[src |-> src, pkt |-> pkt]}
  <1> DEFINE d == [src |-> src, pkt |-> pkt]
  <1>1. d \in Datagrams
    BY DEF Datagrams
  <1>2. CASE dst \in open /\ Len(q[dst]) < SockBuf
    <2>1. dst \in Ports /\ q[dst] \in Seq(Datagrams) /\ Append(q[dst], d) \in Seq(Datagrams)
      BY <1>1, <1>2
    <2>2. sendto(q, open, src, dst, pkt) = [q EXCEPT ![dst] = Append(q[dst], d)]
      BY <1>2 DEF sendto
    <2>3. InQueue(Append(q[dst], d)) = InQueue(q[dst]) \cup {d}
      BY <1>1, <2>1, QueueContents
    <2> HIDE DEF d
    <2>4. \A p \in Ports : [q EXCEPT ![dst] = Append(q[dst], d)][p]
                             = IF p = dst THEN Append(q[dst], d) ELSE q[p]
      BY <2>1
    <2>5. [q EXCEPT ![dst] = Append(q[dst], d)] \in [Ports -> Seq(Datagrams)]
      BY <2>1
    <2> QED
      BY <2>2, <2>3, <2>4, <2>5 DEF d
  <1>3. CASE ~(dst \in open /\ Len(q[dst]) < SockBuf)
    BY <1>3 DEF sendto
  <1> QED
    BY <1>2, <1>3

LEMMA SendtoElsewhere ==
  ASSUME NEW q \in [Ports -> Seq(Datagrams)], NEW open \in SUBSET Ports,
         NEW src \in Ports \cup {0}, NEW dst, NEW pkt \in Packets,
         NEW p \in Ports, p # dst
  PROVE  sendto(q, open, src, dst, pkt)[p] = q[p]
  BY DEF sendto

\* recvfrom takes one datagram off one queue.
LEMMA RecvfromFacts ==
  ASSUME inbox \in [Ports -> Seq(Datagrams)], NEW port \in Ports, inbox[port] # <<>>
  PROVE  /\ recvfrom(port) \in [Ports -> Seq(Datagrams)]
         /\ Received(port) \in Datagrams
         /\ Received(port) \in InQueue(inbox[port])
         /\ \A p \in Ports : p # port => recvfrom(port)[p] = inbox[p]
         /\ \A p \in Ports : InQueue(recvfrom(port)[p]) \subseteq InQueue(inbox[p])
  <1>1. inbox[port] \in Seq(Datagrams)
    OBVIOUS
  <1>2. /\ Head(inbox[port]) \in InQueue(inbox[port])
        /\ InQueue(inbox[port]) \subseteq Datagrams
        /\ Tail(inbox[port]) \in Seq(Datagrams)
        /\ InQueue(Tail(inbox[port])) \subseteq InQueue(inbox[port])
    BY <1>1, QueueContents
  <1> QED
    BY <1>1, <1>2 DEF recvfrom, Received

\* close empties one queue.
LEMMA CloseFacts ==
  ASSUME NEW q \in [Ports -> Seq(Datagrams)], NEW port \in Ports
  PROVE  /\ closeSocket(q, port) \in [Ports -> Seq(Datagrams)]
         /\ \A p \in Ports : p # port => closeSocket(q, port)[p] = q[p]
         /\ \A p \in Ports : InQueue(closeSocket(q, port)[p]) \subseteq InQueue(q[p])
         /\ InQueue(closeSocket(q, port)[port]) = {}
  BY QueueContents DEF closeSocket

\* The constructors build packets.
LEMMA PacketTypes ==
  /\ \A f \in Names : createRRQPacket(f) \in Packets
                      /\ createRequestPacket(RRQ, f, "ocet") \in Packets
  /\ \A b \in UInt16 : createACKPacket(b) \in Packets
  /\ \A b \in UInt16, s \in Seq(Byte) : createDataPacket(b, s) \in Packets
  /\ \A c \in 0 .. 7 : createErrorPacket(c) \in Packets /\ createErrorPacket(c).op = ERROR
  <1>1. \A c \in 0 .. 7 : c \in UInt16
    BY U16Type DEF UInt16
  <1>2. 0 \in UInt16
    BY <1>1
  <1>3. \A f \in Names : createRRQPacket(f) \in Packets
                         /\ createRequestPacket(RRQ, f, "ocet") \in Packets
    BY <1>2, WireRoundTrip DEF createRRQPacket, createRequestPacket, Packets, Wire, Octet
  <1>4. \A b \in UInt16 : createACKPacket(b) \in Packets
    BY WireRoundTrip DEF createACKPacket, Packets, Wire
  <1>5. \A b \in UInt16, s \in Seq(Byte) : createDataPacket(b, s) \in Packets
    BY WireRoundTrip DEF createDataPacket, Packets, Wire
  <1>6. \A c \in 0 .. 7 : createErrorPacket(c) \in Packets /\ createErrorPacket(c).op = ERROR
    BY <1>1, WireRoundTrip DEF createErrorPacket, Packets, Wire
  <1> QED
    BY <1>3, <1>4, <1>5, <1>6
=============================================================================
