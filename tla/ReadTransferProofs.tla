------------------------- MODULE ReadTransferProofs -------------------------
(***************************************************************************)
(* Theorems about ReadTransfer, for every set of files, block size, number *)
(* of requests, buffer size, retry limit and amount of loss.               *)
(*                                                                         *)
(* The inductive invariant says, besides the types, where every datagram   *)
(* waiting at the client's port comes from: a block is a block of the file *)
(* its sender serves, under its own number (ClientQueue); and that the     *)
(* local file is made of the blocks before the expected one of the file    *)
(* the pinned thread serves (ClientState).                                 *)
(*                                                                         *)
(* The last part is about block numbers instead of contents (InStep): that *)
(* neither side runs ahead of the other.                                   *)
(***************************************************************************)
EXTENDS ReadTransfer, LoopbackLemmas

---------------------------------------------------------------------------
(* The inductive invariant.                                                *)

\* Ids not yet handed out have no thread; a thread serves a name it was
\* given, and has a try left before it waits.
ThreadState ==
    \A t \in Threads :
        /\ t >= nextId => tpc[t] = "free"
        /\ tpc[t] # "free" => tfile[t] \in Names
        /\ tpc[t] \in {"acqGet", "acqErase", "acqInsert", "send", "wait"} => tretry[t] > 0

\* A DATA packet carries the block of the thread's file that it numbers.
CarriesBlock(t, p) ==
    /\ p.op = DATA
    /\ NtohsBlock(p) \in 1 .. (U16 - 1)
    /\ p.data = readDataBlock(fileBytes(tfile[t]), NtohsBlock(p))
    /\ p.data # <<>>

\* What may wait at the client's port: an ERROR of the listener, an ERROR or
\* a block of a thread.
ClientDatagram(d) ==
    \/ d.src = ServerPort /\ d.pkt.op = ERROR
    \/ \E t \in Threads :
          /\ t < nextId
          /\ d.src = ThreadPort(t)
          /\ d.pkt.op = ERROR \/ CarriesBlock(t, d.pkt)

ClientQueue == \A d \in InQueue(inbox[ClientPort]) : ClientDatagram(d)

\* The client's local file against the file of the thread it is pinned to.
CopiedFrom(bytes) ==
    /\ cpc = "run" => out = Blocks(bytes, Dec16(expected))
    /\ Len(out) <= Len(bytes)
    /\ out = SubSeq(bytes, 1, Len(out))
    /\ cpc = "ok" => out = bytes

ClientState ==
    /\ cpc = "run" => cretry > 0 /\ cport # ServerPort
    /\ cpc = "run" /\ cport = 0 => expected = 1
    /\ cport # ClientPort
    /\ cport \in {0, ServerPort} => out = <<>> /\ cpc # "ok"
    /\ \A t \in Threads : cport = ThreadPort(t) =>
          t < nextId /\ CopiedFrom(fileBytes(tfile[t]))

IInv == TypeOK /\ ThreadState /\ ClientQueue /\ ClientState

---------------------------------------------------------------------------
(* Lemmas about what steps leave alone.                                    *)

\* What every process may rely on: threads that exist keep their file.
KeepsFiles ==
    /\ disk' = disk
    /\ nextId' \in Nat /\ nextId' >= nextId
    /\ \A t \in Threads : t < nextId => tfile'[t] = tfile[t]

LEMMA FileBytesType ==
  ASSUME TypeOK, NEW f
  PROVE  fileBytes(f) \in Seq(Byte)
  BY SessionsAssumption DEF TypeOK, fileBytes

LEMMA DatagramStable ==
  ASSUME TypeOK, KeepsFiles, NEW d, ClientDatagram(d)
  PROVE  ClientDatagram(d)'
  <1>1. CASE d.src = ServerPort /\ d.pkt.op = ERROR
    BY <1>1 DEF ClientDatagram
  <1>2. ASSUME NEW t \in Threads, t < nextId, d.src = ThreadPort(t),
               d.pkt.op = ERROR \/ CarriesBlock(t, d.pkt)
        PROVE  ClientDatagram(d)'
    <2>1. t < nextId' /\ fileBytes(tfile[t])' = fileBytes(tfile[t])
      BY <1>2 DEF KeepsFiles, fileBytes, TypeOK, Threads
    <2> QED
      BY <1>2, <2>1 DEF ClientDatagram, CarriesBlock
  <1> QED
    BY <1>1, <1>2 DEF ClientDatagram

\* The queue at the client's port stays good when all that is new is good.
LEMMA QueueStable ==
  ASSUME TypeOK, ClientQueue, KeepsFiles,
         \A d \in InQueue(inbox'[ClientPort]) :
            d \in InQueue(inbox[ClientPort]) \/ ClientDatagram(d)
  PROVE  ClientQueue'
  BY DatagramStable DEF ClientQueue

LEMMA ClientStable ==
  ASSUME TypeOK, ClientState, KeepsFiles, UNCHANGED clientVars
  PROVE  ClientState'
  <1>1. ASSUME NEW t \in Threads, t < nextId
        PROVE  fileBytes(tfile[t])' = fileBytes(tfile[t]) /\ t < nextId'
    BY <1>1 DEF KeepsFiles, fileBytes, TypeOK, Threads
  <1> QED
    BY <1>1 DEF ClientState, CopiedFrom, clientVars

\* What the client knows of the datagram at the head of its queue.
LEMMA HeadAtClient ==
  ASSUME IInv, ClientReceives
  PROVE  /\ ClientSource \in Ports /\ ClientSource # ClientPort /\ ClientSource # 0
         /\ ClientPacket \in Packets /\ ClientPacket.op \in {DATA, ERROR}
         /\ ClientPacket.op = DATA =>
              \E t \in Threads : t < nextId /\ ClientSource = ThreadPort(t)
                                 /\ CarriesBlock(t, ClientPacket)
         /\ recvfrom(ClientPort) \in [Ports -> Seq(Datagrams)]
         /\ InQueue(recvfrom(ClientPort)[ClientPort]) \subseteq InQueue(inbox[ClientPort])
  <1> DEFINE d == Received(ClientPort)
  <1>1. /\ d \in Datagrams /\ d \in InQueue(inbox[ClientPort])
        /\ recvfrom(ClientPort) \in [Ports -> Seq(Datagrams)]
        /\ InQueue(recvfrom(ClientPort)[ClientPort]) \subseteq InQueue(inbox[ClientPort])
    BY RecvfromFacts, PortFacts DEF IInv, TypeOK, ClientReceives
  <1>2. ClientDatagram(d)
    BY <1>1 DEF IInv, ClientQueue
  <1>3. d.src \in Ports \cup {0} /\ d.pkt \in Packets
    BY <1>1 DEF Datagrams
  <1> HIDE DEF d
  <1>4. d.src \in Ports /\ d.src # ClientPort /\ d.src # 0
    BY <1>2, PortFacts DEF ClientDatagram
  <1>5. d.pkt.op \in {DATA, ERROR}
    BY <1>2 DEF ClientDatagram, CarriesBlock
  <1>6. d.pkt.op = DATA =>
           \E t \in Threads : t < nextId /\ d.src = ThreadPort(t) /\ CarriesBlock(t, d.pkt)
    BY <1>2 DEF ClientDatagram, DATA, ERROR
  <1> QED
    BY <1>1, <1>3, <1>4, <1>5, <1>6 DEF d, ClientSource, ClientPacket

---------------------------------------------------------------------------
(* The steps of the client.                                                *)

\* A client step that sends one packet elsewhere than to itself.
LEMMA ClientSendFacts ==
  ASSUME NEW q \in [Ports -> Seq(Datagrams)], NEW dst, dst # ClientPort,
         NEW pkt \in Packets
  PROVE  /\ clientSend(q, dst, pkt) \in [Ports -> Seq(Datagrams)]
         /\ clientSend(q, dst, pkt)[ClientPort] = q[ClientPort]
  <1>1. Open \in SUBSET Ports /\ ClientPort \in Ports \cup {0} /\ ClientPort \in Ports
    BY PortFacts
  <1>2. sendto(q, Open, ClientPort, dst, pkt) \in [Ports -> Seq(Datagrams)]
    BY <1>1, SendtoFacts
  <1>3. sendto(q, Open, ClientPort, dst, pkt)[ClientPort] = q[ClientPort]
    BY <1>1, SendtoElsewhere
  <1> QED
    BY <1>2, <1>3 DEF clientSend

LEMMA UnknownTidStep ==
  ASSUME IInv, UnknownTid
  PROVE  IInv'
  <1>1. createErrorPacket(UNKNOWN_TID) \in Packets
    BY PacketTypes DEF UNKNOWN_TID
  <1>2. /\ inbox' \in [Ports -> Seq(Datagrams)]
        /\ InQueue(inbox'[ClientPort]) \subseteq InQueue(inbox[ClientPort])
    BY <1>1, HeadAtClient, ClientSendFacts DEF UnknownTid
  <1>3. KeepsFiles
    BY DEF IInv, TypeOK, KeepsFiles, UnknownTid, threadVars, serverVars
  <1>4. TypeOK'
    BY <1>2, SessionsAssumption DEF IInv, TypeOK, UnknownTid, threadVars, serverVars
  <1>5. ThreadState'
    BY DEF IInv, ThreadState, UnknownTid, threadVars, serverVars
  <1>6. ClientQueue'
    BY <1>2, <1>3, QueueStable DEF IInv
  <1>7. ClientState'
    BY SessionsAssumption
    DEF IInv, ClientState, CopiedFrom, UnknownTid, threadVars, serverVars, fileBytes
  <1> QED
    BY <1>4, <1>5, <1>6, <1>7 DEF IInv

LEMMA ErrorReceivedStep ==
  ASSUME IInv, ErrorReceived
  PROVE  IInv'
  <1>1. /\ inbox' \in [Ports -> Seq(Datagrams)]
        /\ InQueue(inbox'[ClientPort]) \subseteq InQueue(inbox[ClientPort])
    BY HeadAtClient, CloseFacts, PortFacts DEF ErrorReceived, ClientReturns
  <1>2. KeepsFiles
    BY DEF IInv, TypeOK, KeepsFiles, ErrorReceived, threadVars, serverVars
  <1>3. TypeOK'
    <2>1. cport' \in Ports \cup {0} /\ cretry' \in 0 .. MaxRetry /\ cpc' = "fail"
      BY HeadAtClient, SessionsAssumption DEF ErrorReceived, ClientReturns, PinServer
    <2> QED
      BY <1>1, <2>1 DEF IInv, TypeOK, ErrorReceived, threadVars, serverVars
  <1>4. ThreadState'
    BY DEF IInv, ThreadState, ErrorReceived, threadVars, serverVars
  <1>5. ClientQueue'
    BY <1>1, <1>2, QueueStable DEF IInv
  <1>6. ClientState'
    <2>1. cpc' = "fail" /\ cport' = ClientSource /\ cport' # ClientPort /\ out' = out
          /\ cpc = "run" /\ cport \in {0, cport'}
      BY HeadAtClient DEF ErrorReceived, ClientReturns, PinServer, ClientReceives, FromServer
    <2>2. cport' = ServerPort => out = <<>>
      BY <2>1 DEF IInv, ClientState
    <2>3. cport' # 0
      BY <2>1, HeadAtClient DEF ErrorReceived
    <2>4. ASSUME NEW t \in Threads, cport' = ThreadPort(t)
          PROVE  t < nextId' /\ CopiedFrom(fileBytes(tfile[t]))'
      <3>1. t < nextId
        <4>1. ClientDatagram(Received(ClientPort))
          BY RecvfromFacts, PortFacts
          DEF IInv, TypeOK, ErrorReceived, ClientReceives, ClientQueue
        <4> QED
          BY <4>1, <2>1, <2>4, PortFacts DEF ClientDatagram, ClientSource
      <3>2. fileBytes(tfile[t])' = fileBytes(tfile[t]) /\ nextId' = nextId
        BY DEF fileBytes, ErrorReceived, threadVars, serverVars
      <3>3. fileBytes(tfile[t]) \in Seq(Byte)
        BY FileBytesType DEF IInv
      <3>4. CASE cport = 0
        <4>1. out = <<>>
          BY <3>4 DEF IInv, ClientState
        <4> QED
          BY <4>1, <2>1, <3>1, <3>2, <3>3 DEF CopiedFrom
      <3>5. CASE cport # 0
        BY <3>1, <3>2, <3>5, <2>1, <2>4 DEF IInv, ClientState, CopiedFrom
      <3> QED
        BY <3>4, <3>5
    <2> QED
      BY <2>1, <2>2, <2>3, <2>4 DEF ClientState
  <1> QED
    BY <1>3, <1>4, <1>5, <1>6 DEF IInv

\* A DATA packet from a thread: the client pins that thread, and its file so
\* far is the blocks of the thread's file before the expected one.
LEMMA DataFacts ==
  ASSUME IInv, DataReceived
  PROVE  \E t \in Threads :
            /\ t < nextId
            /\ cport' = ThreadPort(t) /\ ClientSource = ThreadPort(t)
            /\ CarriesBlock(t, ClientPacket)
            /\ fileBytes(tfile[t]) \in Seq(Byte)
            /\ out = Blocks(fileBytes(tfile[t]), Dec16(expected))
            /\ Len(out) <= Len(fileBytes(tfile[t]))
            /\ out = SubSeq(fileBytes(tfile[t]), 1, Len(out))
  <1>1. PICK t \in Threads : t < nextId /\ ClientSource = ThreadPort(t)
                             /\ CarriesBlock(t, ClientPacket)
    BY HeadAtClient DEF DataReceived
  <1>2. cport' = ThreadPort(t) /\ cpc = "run" /\ cport \in {0, ThreadPort(t)}
    BY <1>1 DEF DataReceived, PinServer, FromServer, ClientReceives
  <1>3. fileBytes(tfile[t]) \in Seq(Byte)
    BY FileBytesType DEF IInv
  <1>4. CASE cport = 0
    <2>1. out = <<>> /\ expected = 1
      BY <1>2, <1>4 DEF IInv, ClientState
    <2>2. 1 \in UInt16 /\ Dec16(1) = 0
      BY U16Type, Counter16 DEF UInt16
    <2>3. Blocks(fileBytes(tfile[t]), 0) = <<>>
      BY <1>3, BlocksPrefix
    <2> QED
      BY <1>1, <1>2, <1>3, <2>1, <2>2, <2>3
  <1>5. CASE cport = ThreadPort(t)
    BY <1>1, <1>2, <1>3, <1>5 DEF IInv, ClientState, CopiedFrom
  <1> QED
    BY <1>2, <1>4, <1>5

\* From one thread's file to the whole of ClientState.
LEMMA ClientStatePinned ==
  ASSUME NEW t \in Threads, (t < nextId)', cport' = ThreadPort(t),
         CopiedFrom(fileBytes(tfile[t]))', (cpc = "run" => cretry > 0)'
  PROVE  ClientState'
  <1>1. cport' \notin {0, ServerPort, ClientPort}
    BY PortFacts
  <1>2. \A u \in Threads : cport' = ThreadPort(u) => u = t
    BY PortFacts
  <1> QED
    BY <1>1, <1>2 DEF ClientState

LEMMA BlockMismatchStep ==
  ASSUME IInv, BlockMismatch
  PROVE  IInv'
  <1>1. createACKPacket(Dec16(expected)) \in Packets
    BY PacketTypes, Counter16 DEF IInv, TypeOK
  <1>2. /\ inbox' \in [Ports -> Seq(Datagrams)]
        /\ InQueue(inbox'[ClientPort]) \subseteq InQueue(inbox[ClientPort])
    BY <1>1, HeadAtClient, ClientSendFacts DEF BlockMismatch, DataReceived
  <1>3. KeepsFiles
    BY DEF IInv, TypeOK, KeepsFiles, BlockMismatch, threadVars, serverVars
  <1>4. TypeOK'
    <2>1. cport' \in Ports \cup {0} /\ cretry' \in 0 .. MaxRetry
      BY HeadAtClient, SessionsAssumption DEF BlockMismatch, DataReceived, PinServer
    <2> QED
      BY <1>2, <2>1 DEF IInv, TypeOK, BlockMismatch, threadVars, serverVars
  <1>5. ThreadState'
    BY DEF IInv, ThreadState, BlockMismatch, threadVars, serverVars
  <1>6. ClientQueue'
    BY <1>2, <1>3, QueueStable DEF IInv
  <1>7. ClientState'
    <2>1. PICK t \in Threads :
            /\ t < nextId
            /\ cport' = ThreadPort(t)
            /\ out = Blocks(fileBytes(tfile[t]), Dec16(expected))
            /\ Len(out) <= Len(fileBytes(tfile[t]))
            /\ out = SubSeq(fileBytes(tfile[t]), 1, Len(out))
      BY DataFacts DEF BlockMismatch
    <2>2. /\ cpc' = cpc /\ cpc = "run" /\ out' = out /\ expected' = expected
          /\ nextId' = nextId /\ fileBytes(tfile[t])' = fileBytes(tfile[t])
          /\ cretry' = MaxRetry
      BY DEF BlockMismatch, DataReceived, ClientReceives, PinServer,
             threadVars, serverVars, fileBytes
    <2>3. CopiedFrom(fileBytes(tfile[t]))'
      BY <2>1, <2>2 DEF CopiedFrom
    <2> QED
      BY <2>1, <2>2, <2>3, ClientStatePinned, SessionsAssumption
  <1> QED
    BY <1>4, <1>5, <1>6, <1>7 DEF IInv

LEMMA BlockStoredStep ==
  ASSUME IInv, BlockStored
  PROVE  IInv'
  <1> DEFINE b == expected
             acked == clientSend(recvfrom(ClientPort), ackTo, createACKPacket(expected))
  <1>1. createACKPacket(expected) \in Packets /\ ackTo # ClientPort /\ b \in UInt16
    BY PacketTypes, SessionsAssumption, PortFacts DEF IInv, TypeOK
  <1>2. /\ acked \in [Ports -> Seq(Datagrams)]
        /\ InQueue(acked[ClientPort]) \subseteq InQueue(inbox[ClientPort])
    BY <1>1, HeadAtClient, ClientSendFacts DEF BlockStored, DataReceived
  <1>3. /\ closeSocket(acked, ClientPort) \in [Ports -> Seq(Datagrams)]
        /\ InQueue(closeSocket(acked, ClientPort)[ClientPort]) \subseteq InQueue(inbox[ClientPort])
    BY <1>2, CloseFacts, PortFacts
  <1>4. inbox' = acked \/ inbox' = closeSocket(acked, ClientPort)
    BY DEF BlockStored, ClientReturns
  <1>5. /\ inbox' \in [Ports -> Seq(Datagrams)]
        /\ InQueue(inbox'[ClientPort]) \subseteq InQueue(inbox[ClientPort])
    BY <1>2, <1>3, <1>4
  <1>6. KeepsFiles
    BY DEF IInv, TypeOK, KeepsFiles, BlockStored, threadVars, serverVars
  <1>7. PICK t \in Threads :
            /\ t < nextId
            /\ cport' = ThreadPort(t)
            /\ CarriesBlock(t, ClientPacket)
            /\ fileBytes(tfile[t]) \in Seq(Byte)
            /\ out = Blocks(fileBytes(tfile[t]), Dec16(expected))
    BY DataFacts DEF BlockStored
  <1> DEFINE bytes == fileBytes(tfile[t])
  <1>8. b \in 1 .. (U16 - 1) /\ ClientPacket.data = readDataBlock(bytes, b)
        /\ ClientPacket.data # <<>> /\ ClientPacket.data \in Seq(Byte)
    <2>1. b \in 1 .. (U16 - 1) /\ ClientPacket.data = readDataBlock(bytes, b)
          /\ ClientPacket.data # <<>>
      BY <1>7 DEF BlockStored, ExpectedBlock, CarriesBlock
    <2>2. b \in Nat /\ b > 0
      BY <2>1, U16Type
    <2> QED
      BY <2>1, <2>2, <1>7, BlockTiling
  <1>9. b \in Nat /\ b > 0 /\ Dec16(b) = b - 1 /\ Dec16(Inc16(b)) = b /\ Inc16(b) \in UInt16
    BY <1>1, <1>8, Counter16, U16Type
  <1>10. out' = Blocks(bytes, b)
    <2>1. out' = Blocks(bytes, b - 1) \o readDataBlock(bytes, b)
      BY <1>7, <1>8, <1>9 DEF BlockStored
    <2> QED
      BY <2>1, <1>7, <1>8, <1>9, BlockTiling
  <1>11. /\ out' \in Seq(Byte) /\ Len(out') <= Len(bytes)
         /\ out' = SubSeq(bytes, 1, Len(out'))
    BY <1>7, <1>9, <1>10, BlocksPrefix
  <1>12. /\ cpc' \in {"run", "ok"} /\ (cpc' = "ok" => out' = bytes)
         /\ expected' = Inc16(b) /\ cretry' = MaxRetry
    <2>1. CASE Len(ClientPacket.data) < BlockSize
      <3>1. cpc' = "ok" /\ Len(bytes) < b * BlockSize
        BY <2>1, <1>7, <1>8, <1>9, BlockTiling DEF BlockStored, ClientReturns
      <3>2. Blocks(bytes, b) = bytes
        BY <3>1, <1>7, <1>8, <1>9, BlockTiling
      <3> QED
        BY <3>1, <3>2, <1>10 DEF BlockStored, DataReceived, PinServer
    <2>2. CASE ~(Len(ClientPacket.data) < BlockSize)
      BY <2>2 DEF BlockStored, DataReceived, ClientReceives, PinServer
    <2> QED
      BY <2>1, <2>2
  <1>13. TypeOK'
    <2>1. cport' \in Ports \cup {0}
      BY <1>7, PortFacts
    <2> HIDE DEF acked, bytes
    <2>2. expected' \in UInt16 /\ out' \in Seq(Byte) /\ cretry' \in 0 .. MaxRetry
          /\ cpc' \in {"idle", "run", "ok", "fail"}
      BY <1>9, <1>11, <1>12, SessionsAssumption
    <2> QED
      BY <2>1, <2>2, <1>5
      DEF IInv, TypeOK, BlockStored, threadVars, serverVars
  <1>14. ThreadState'
    BY DEF IInv, ThreadState, BlockStored, threadVars, serverVars
  <1>15. ClientQueue'
    BY <1>5, <1>6, QueueStable DEF IInv
  <1>16. ClientState'
    <2>1. nextId' = nextId /\ fileBytes(tfile[t])' = bytes
      BY DEF BlockStored, threadVars, serverVars, fileBytes
    <2> HIDE DEF bytes, b
    <2>2. CopiedFrom(fileBytes(tfile[t]))'
      BY <2>1, <1>9, <1>10, <1>11, <1>12 DEF CopiedFrom
    <2> QED
      BY <2>1, <2>2, <1>7, <1>12, ClientStatePinned, SessionsAssumption
  <1> QED
    BY <1>13, <1>14, <1>15, <1>16 DEF IInv

LEMMA StoreFailsStep ==
  ASSUME IInv, StoreFails
  PROVE  IInv'
  <1> DEFINE told == clientSend(recvfrom(ClientPort), ClientSource,
                                createErrorPacket(DISK_FULL))
  <1>1. createErrorPacket(DISK_FULL) \in Packets
    BY PacketTypes DEF DISK_FULL
  <1>2. /\ told \in [Ports -> Seq(Datagrams)]
        /\ InQueue(told[ClientPort]) \subseteq InQueue(inbox[ClientPort])
    BY <1>1, HeadAtClient, ClientSendFacts DEF StoreFails, DataReceived
  <1>3. /\ inbox' \in [Ports -> Seq(Datagrams)]
        /\ InQueue(inbox'[ClientPort]) \subseteq InQueue(inbox[ClientPort])
    BY <1>2, CloseFacts, PortFacts DEF StoreFails, ClientReturns
  <1>4. KeepsFiles
    BY DEF IInv, TypeOK, KeepsFiles, StoreFails, threadVars, serverVars
  <1>5. TypeOK'
    <2>1. cport' \in Ports \cup {0} /\ cretry' \in 0 .. MaxRetry /\ cpc' = "fail"
      BY HeadAtClient, SessionsAssumption
      DEF StoreFails, DataReceived, ClientReturns, PinServer
    <2> QED
      BY <1>3, <2>1 DEF IInv, TypeOK, StoreFails, threadVars, serverVars
  <1>6. ThreadState'
    BY DEF IInv, ThreadState, StoreFails, threadVars, serverVars
  <1>7. ClientQueue'
    BY <1>3, <1>4, QueueStable DEF IInv
  <1>8. ClientState'
    <2>1. PICK t \in Threads :
            /\ t < nextId
            /\ cport' = ThreadPort(t)
            /\ Len(out) <= Len(fileBytes(tfile[t]))
            /\ out = SubSeq(fileBytes(tfile[t]), 1, Len(out))
      BY DataFacts DEF StoreFails
    <2>2. /\ cpc' = "fail" /\ out' = out
          /\ nextId' = nextId /\ fileBytes(tfile[t])' = fileBytes(tfile[t])
      BY DEF StoreFails, ClientReturns, threadVars, serverVars, fileBytes
    <2>3. CopiedFrom(fileBytes(tfile[t]))'
      BY <2>1, <2>2 DEF CopiedFrom
    <2> QED
      BY <2>1, <2>2, <2>3, ClientStatePinned
  <1> QED
    BY <1>5, <1>6, <1>7, <1>8 DEF IInv

LEMMA ClientTimeoutStep ==
  ASSUME IInv, ClientTimeout
  PROVE  IInv'
  <1>1. /\ inbox' \in [Ports -> Seq(Datagrams)]
        /\ InQueue(inbox'[ClientPort]) \subseteq InQueue(inbox[ClientPort])
    <2>1. inbox \in [Ports -> Seq(Datagrams)] /\ ClientPort \in Ports
      BY PortFacts DEF IInv, TypeOK
    <2>2. inbox' = inbox \/ inbox' = closeSocket(inbox, ClientPort)
      BY DEF ClientTimeout, ClientReturns
    <2>3. /\ closeSocket(inbox, ClientPort) \in [Ports -> Seq(Datagrams)]
          /\ InQueue(closeSocket(inbox, ClientPort)[ClientPort]) = {}
      BY <2>1, CloseFacts
    <2> QED
      BY <2>1, <2>2, <2>3
  <1>2. KeepsFiles
    BY DEF IInv, TypeOK, KeepsFiles, ClientTimeout, threadVars, serverVars
  <1>3. cretry \in 1 .. MaxRetry /\ cretry' \in 0 .. MaxRetry
        /\ (cpc' = "run" => cretry' > 0) /\ cpc' \in {"run", "fail"}
    BY SessionsAssumption
    DEF IInv, TypeOK, ClientState, ClientTimeout, retryAfterTimeout, outOfTries, ClientReturns
  <1>4. TypeOK'
    BY <1>1, <1>3 DEF IInv, TypeOK, ClientTimeout, threadVars, serverVars
  <1>5. ThreadState'
    BY DEF IInv, ThreadState, ClientTimeout, threadVars, serverVars
  <1>6. ClientQueue'
    BY <1>1, <1>2, QueueStable DEF IInv
  <1>7. ClientState'
    <2>1. /\ cpc = "run" /\ UNCHANGED <<cport, out, expected, nextId>>
          /\ \A t \in Threads : fileBytes(tfile[t])' = fileBytes(tfile[t])
      BY DEF ClientTimeout, threadVars, serverVars, fileBytes
    <2> QED
      BY <2>1, <1>3 DEF IInv, ClientState, CopiedFrom
  <1> QED
    BY <1>4, <1>5, <1>6, <1>7 DEF IInv

\* A new client starts with an empty file, not pinned to anyone.
LEMMA StartReadStep ==
  ASSUME IInv, NEW f \in Names, StartRead(f)
  PROVE  IInv'
  <1>1. PICK opened \in BOOLEAN : StartClient(f, createRRQPacket(f), opened)
    BY DEF StartRead
  <1> DEFINE sent == sendto(inbox, Open, ClientPort, ServerPort, createRRQPacket(f))
  <1>2. createRRQPacket(f) \in Packets /\ createErrorPacket(DISK_FULL) \in Packets
    BY PacketTypes DEF DISK_FULL
  <1>3. sent \in [Ports -> Seq(Datagrams)] /\ sent[ClientPort] = inbox[ClientPort]
    BY <1>2, ClientSendFacts, PortFacts DEF IInv, TypeOK, clientSend
  <1>4. ackTo' # ClientPort /\ ackTo' \in GarbagePorts
    BY <1>1, SessionsAssumption DEF StartClient
  <1>5. /\ inbox' \in [Ports -> Seq(Datagrams)]
        /\ inbox'[ClientPort] = inbox[ClientPort]
    <2>1. clientSend(sent, ackTo', createErrorPacket(DISK_FULL)) \in [Ports -> Seq(Datagrams)]
          /\ clientSend(sent, ackTo', createErrorPacket(DISK_FULL))[ClientPort] = sent[ClientPort]
      BY <1>2, <1>3, <1>4, ClientSendFacts
    <2> QED
      BY <2>1, <1>1, <1>3 DEF StartClient, clientSend
  <1>6. KeepsFiles
    BY DEF IInv, TypeOK, KeepsFiles, StartRead, threadVars, serverVars
  <1>7. /\ cpc' \in {"run", "fail"} /\ cport' = 0 /\ out' = <<>> /\ expected' = 1
        /\ cretry' = MaxRetry /\ cfile' = f /\ requests' \in 0 .. MaxRequests
    BY <1>1, LoopbackAssumption DEF StartRead, StartClient, IInv, TypeOK
  <1>8. TypeOK'
    <2>1. 1 \in UInt16
      BY U16Type DEF UInt16
    <2> QED
      BY <1>4, <1>5, <1>7, <2>1, SessionsAssumption
      DEF IInv, TypeOK, StartRead, threadVars, serverVars
  <1>9. ThreadState'
    BY DEF IInv, ThreadState, StartRead, threadVars, serverVars
  <1>10. ClientQueue'
    BY <1>5, <1>6, QueueStable DEF IInv
  <1>11. ClientState'
    BY <1>7, PortFacts, SessionsAssumption DEF ClientState, ServerPort, ClientPort
  <1> QED
    BY <1>8, <1>9, <1>10, <1>11 DEF IInv

---------------------------------------------------------------------------
(* The steps of the threads.                                               *)

\* What a thread step leaves alone.
ThreadFrame == UNCHANGED <<clientVars, tfile, disk, nextId, lost, requests>>

LEMMA ThreadFrameFacts ==
  ASSUME IInv, ThreadFrame
  PROVE  KeepsFiles /\ ClientState'
  <1>1. KeepsFiles
    BY DEF IInv, TypeOK, KeepsFiles, ThreadFrame
  <1> QED
    BY <1>1, ClientStable DEF IInv, ThreadFrame

\* A thread that exists has an id handed out and a name of its own.
LEMMA BusyThread ==
  ASSUME IInv, NEW t \in Threads, tpc[t] # "free"
  PROVE  t < nextId /\ tfile[t] \in Names
  BY LoopbackAssumption DEF IInv, ThreadState, TypeOK, Threads

\* Whatever a thread sends to the client, and whatever it takes or drops from
\* its own queue before or after, the client's queue stays good.
LEMMA ThreadSendFacts ==
  ASSUME IInv, NEW t \in Threads, t < nextId,
         NEW q \in [Ports -> Seq(Datagrams)],
         InQueue(q[ClientPort]) \subseteq InQueue(inbox[ClientPort]),
         NEW pkt \in Packets, pkt.op = ERROR \/ CarriesBlock(t, pkt)
  PROVE  /\ threadSend(q, t, pkt) \in [Ports -> Seq(Datagrams)]
         /\ \A d \in InQueue(threadSend(q, t, pkt)[ClientPort]) :
               d \in InQueue(inbox[ClientPort]) \/ ClientDatagram(d)
  <1> DEFINE d0 == [src |-> ThreadPort(t), pkt |-> pkt]
  <1>1. Open \in SUBSET Ports /\ ThreadPort(t) \in Ports \cup {0} /\ ClientPort \in Ports
    BY PortFacts
  <1>2. /\ threadSend(q, t, pkt) \in [Ports -> Seq(Datagrams)]
        /\ InQueue(threadSend(q, t, pkt)[ClientPort]) \subseteq InQueue(q[ClientPort]) \cup {d0}
    BY <1>1, SendtoFacts DEF threadSend
  <1>3. ClientDatagram(d0)
    BY DEF ClientDatagram
  <1> QED
    BY <1>2, <1>3

LEMMA BindStep ==
  ASSUME IInv, NEW t \in Threads, Bind(t)
  PROVE  IInv'
  <1>1. ThreadFrame /\ inbox' = inbox /\ tpc[t] = "bind" /\ Goto(t, "start")
    BY DEF Bind, ThreadFrame, ThreadAt, clientVars, serverVars, netVars
  <1>2. KeepsFiles /\ ClientState'
    BY <1>1, ThreadFrameFacts
  <1>3. TypeOK'
    BY <1>1 DEF IInv, TypeOK, Bind, Goto, clientVars, serverVars, netVars
  <1>4. ThreadState'
    BY <1>1 DEF IInv, TypeOK, ThreadState, Bind, Goto, ThreadFrame
  <1>5. ClientQueue'
    BY <1>1, <1>2, QueueStable DEF IInv
  <1> QED
    BY <1>2, <1>3, <1>4, <1>5 DEF IInv

LEMMA ReadLookupStep ==
  ASSUME IInv, NEW t \in Threads, ReadLookup(t)
  PROVE  IInv'
  <1>1. ThreadFrame /\ inbox' = inbox /\ tpc[t] = "start" /\ Goto(t, "acqGet")
    BY DEF ReadLookup, ThreadFrame, ThreadAt, clientVars, serverVars, netVars
  <1>2. KeepsFiles /\ ClientState'
    BY <1>1, ThreadFrameFacts
  <1>3. TypeOK'
    <2>1. 1 \in UInt16
      BY U16Type DEF UInt16
    <2> QED
      BY <1>1, <2>1, SessionsAssumption
      DEF IInv, TypeOK, ReadLookup, Goto, clientVars, serverVars, netVars
  <1>4. ThreadState'
    BY <1>1, SessionsAssumption DEF IInv, TypeOK, ThreadState, ReadLookup, Goto, ThreadFrame
  <1>5. ClientQueue'
    BY <1>1, <1>2, QueueStable DEF IInv
  <1> QED
    BY <1>2, <1>3, <1>4, <1>5 DEF IInv

LEMMA ReadNotFoundStep ==
  ASSUME IInv, NEW t \in Threads, ReadNotFound(t)
  PROVE  IInv'
  <1> DEFINE told == threadSend(inbox, t, createErrorPacket(FILE_NOT_FOUND))
  <1>1. ThreadFrame /\ tpc[t] = "start" /\ Goto(t, "done")
        /\ inbox' = closeSocket(told, ThreadPort(t))
    BY DEF ReadNotFound, ThreadReturns, ThreadFrame, ThreadAt, clientVars, serverVars
  <1>2. KeepsFiles /\ ClientState'
    BY <1>1, ThreadFrameFacts
  <1>3. t < nextId
    BY <1>1, BusyThread
  <1>4. /\ told \in [Ports -> Seq(Datagrams)]
        /\ \A d \in InQueue(told[ClientPort]) :
              d \in InQueue(inbox[ClientPort]) \/ ClientDatagram(d)
    <2>1. /\ createErrorPacket(FILE_NOT_FOUND) \in Packets
          /\ createErrorPacket(FILE_NOT_FOUND).op = ERROR
      BY PacketTypes DEF FILE_NOT_FOUND
    <2>2. inbox \in [Ports -> Seq(Datagrams)]
      BY DEF IInv, TypeOK
    <2> QED
      BY <1>3, <2>1, <2>2, ThreadSendFacts
  <1>5. /\ inbox' \in [Ports -> Seq(Datagrams)]
        /\ InQueue(inbox'[ClientPort]) \subseteq InQueue(told[ClientPort])
    BY <1>1, <1>4, CloseFacts, PortFacts
  <1>6. TypeOK'
    BY <1>1, <1>5 DEF IInv, TypeOK, ReadNotFound, Goto, clientVars, serverVars
  <1>7. ThreadState'
    BY <1>1 DEF IInv, TypeOK, ThreadState, ReadNotFound, Goto, ThreadFrame
  <1>8. ClientQueue'
    BY <1>2, <1>4, <1>5, QueueStable DEF IInv
  <1> QED
    BY <1>2, <1>6, <1>7, <1>8 DEF IInv

\* The steps on the files map: the entry moves, nothing else does.
LEMMA MapGetStep ==
  ASSUME IInv, NEW t \in Threads, NEW delta \in Int,
         MapGet(t, "acqGet", "acqErase", delta) \/ MapGet(t, "relGet", "relErase", delta)
  PROVE  IInv'
  <1> DEFINE m == mapInsert(files, tfile[t], 0)
  <1>1. /\ ThreadFrame /\ inbox' = inbox /\ UNCHANGED <<block, tretry, up>>
        /\ files' = m
        /\ treaders' = [treaders EXCEPT ![t] = m[tfile[t]] + delta]
        /\ \/ tpc[t] = "acqGet" /\ Goto(t, "acqErase")
           \/ tpc[t] = "relGet" /\ Goto(t, "relErase")
    BY DEF MapGet, ThreadFrame, ThreadAt, netVars
  <1>2. KeepsFiles /\ ClientState'
    BY <1>1, ThreadFrameFacts
  <1>3. tfile[t] \in Names
    BY <1>1 DEF IInv, ThreadState
  <1>4. DOMAIN m \subseteq Names /\ m \in [DOMAIN m -> Int] /\ m[tfile[t]] \in Int
    BY <1>3 DEF IInv, TypeOK, mapInsert
  <1>5. TypeOK'
    <2> HIDE DEF m
    <2>1. treaders' \in [Threads -> Int]
      BY <1>1, <1>4 DEF IInv, TypeOK
    <2>2. tpc' \in [Threads -> {"free", "bind", "start", "acqGet", "acqErase", "acqInsert",
                               "send", "wait", "relGet", "relErase", "relInsert", "done"}]
      BY <1>1 DEF IInv, TypeOK, Goto
    <2> QED
      BY <1>1, <1>4, <2>1, <2>2 DEF IInv, TypeOK, ThreadFrame, Goto, clientVars
  <1>6. ThreadState'
    BY <1>1 DEF IInv, TypeOK, ThreadState, Goto, ThreadFrame
  <1>7. ClientQueue'
    BY <1>1, <1>2, QueueStable DEF IInv
  <1> QED
    BY <1>2, <1>5, <1>6, <1>7 DEF IInv

LEMMA MapEraseStep ==
  ASSUME IInv, NEW t \in Threads,
         MapErase(t, "acqErase", "acqInsert") \/ MapErase(t, "relErase", "relInsert")
  PROVE  IInv'
  <1>1. /\ ThreadFrame /\ inbox' = inbox /\ UNCHANGED <<block, tretry, treaders, up>>
        /\ files' = mapErase(files, tfile[t])
        /\ \/ tpc[t] = "acqErase" /\ Goto(t, "acqInsert")
           \/ tpc[t] = "relErase" /\ Goto(t, "relInsert")
    BY DEF MapErase, ThreadFrame, ThreadAt, netVars
  <1>2. KeepsFiles /\ ClientState'
    BY <1>1, ThreadFrameFacts
  <1>3. DOMAIN files' \subseteq Names /\ files' \in [DOMAIN files' -> Int]
    BY <1>1 DEF IInv, TypeOK, mapErase
  <1>4. TypeOK'
    BY <1>1, <1>3 DEF IInv, TypeOK, ThreadFrame, Goto, clientVars
  <1>5. ThreadState'
    BY <1>1 DEF IInv, TypeOK, ThreadState, Goto, ThreadFrame
  <1>6. ClientQueue'
    BY <1>1, <1>2, QueueStable DEF IInv
  <1> QED
    BY <1>2, <1>4, <1>5, <1>6 DEF IInv

\* The abort empties the server's queues; the client keeps what it has.
LEMMA MapEraseAbortsStep ==
  ASSUME IInv, NEW t \in Threads, NEW from, MapEraseAborts(t, from)
  PROVE  IInv'
  <1>1. ThreadFrame /\ UNCHANGED <<threadVars, files>> /\ up' = FALSE
    BY DEF MapEraseAborts, ThreadFrame, threadVars
  <1>2. KeepsFiles /\ ClientState'
    BY <1>1, ThreadFrameFacts
  <1>3. inbox' \in [Ports -> Seq(Datagrams)] /\ inbox'[ClientPort] = inbox[ClientPort]
    BY PortFacts DEF MapEraseAborts, IInv, TypeOK
  <1>4. TypeOK'
    BY <1>1, <1>3 DEF IInv, TypeOK, ThreadFrame, clientVars, threadVars
  <1>5. ThreadState'
    BY <1>1 DEF IInv, ThreadState, ThreadFrame, threadVars
  <1>6. ClientQueue'
    BY <1>2, <1>3, QueueStable DEF IInv
  <1> QED
    BY <1>2, <1>4, <1>5, <1>6 DEF IInv

LEMMA MapInsertStep ==
  ASSUME IInv, NEW t \in Threads,
         \/ MapInsert(t, "acqInsert") /\ Goto(t, "send") /\ UNCHANGED inbox
         \/ MapInsert(t, "relInsert") /\ ThreadReturns(t, inbox)
  PROVE  IInv'
  <1>1. /\ ThreadFrame /\ UNCHANGED <<block, tretry, treaders, up>>
        /\ files' = mapInsert(files, tfile[t], treaders[t])
        /\ \/ tpc[t] = "acqInsert" /\ Goto(t, "send") /\ inbox' = inbox
           \/ tpc[t] = "relInsert" /\ Goto(t, "done")
              /\ inbox' = closeSocket(inbox, ThreadPort(t))
    BY DEF MapInsert, ThreadReturns, ThreadFrame, ThreadAt
  <1>2. KeepsFiles /\ ClientState'
    BY <1>1, ThreadFrameFacts
  <1>3. tfile[t] \in Names
    BY <1>1 DEF IInv, ThreadState
  <1>4. DOMAIN files' \subseteq Names /\ files' \in [DOMAIN files' -> Int]
    BY <1>1, <1>3 DEF IInv, TypeOK, mapInsert
  <1>5. /\ inbox' \in [Ports -> Seq(Datagrams)]
        /\ InQueue(inbox'[ClientPort]) \subseteq InQueue(inbox[ClientPort])
    <2>1. inbox \in [Ports -> Seq(Datagrams)] /\ ThreadPort(t) \in Ports /\ ClientPort \in Ports
      BY PortFacts DEF IInv, TypeOK
    <2>2. /\ closeSocket(inbox, ThreadPort(t)) \in [Ports -> Seq(Datagrams)]
          /\ InQueue(closeSocket(inbox, ThreadPort(t))[ClientPort])
                \subseteq InQueue(inbox[ClientPort])
      BY <2>1, CloseFacts
    <2> QED
      BY <2>1, <2>2, <1>1
  <1>6. TypeOK'
    BY <1>1, <1>4, <1>5 DEF IInv, TypeOK, ThreadFrame, Goto, clientVars
  <1>7. ThreadState'
    BY <1>1 DEF IInv, TypeOK, ThreadState, Goto, ThreadFrame
  <1>8. ClientQueue'
    BY <1>2, <1>5, QueueStable DEF IInv
  <1> QED
    BY <1>2, <1>6, <1>7, <1>8 DEF IInv

LEMMA SendBlockStep ==
  ASSUME IInv, NEW t \in Threads, SendBlock(t)
  PROVE  IInv'
  <1> DEFINE pkt == createDataPacket(block[t], CurrentBlock(t))
  <1>1. /\ ThreadFrame /\ UNCHANGED <<block, tretry, treaders, files, up>>
        /\ tpc[t] = "send"
    BY DEF SendBlock, ThreadFrame, ThreadAt, clientVars, serverVars
  <1>2. KeepsFiles /\ ClientState'
    BY <1>1, ThreadFrameFacts
  <1>3. t < nextId
    BY <1>1, BusyThread
  <1>4. inbox \in [Ports -> Seq(Datagrams)] /\ block[t] \in UInt16
    BY DEF IInv, TypeOK
  <1>5. /\ Goto(t, "relGet") \/ Goto(t, "wait")
        /\ inbox' \in [Ports -> Seq(Datagrams)]
        /\ \A d \in InQueue(inbox'[ClientPort]) :
              d \in InQueue(inbox[ClientPort]) \/ ClientDatagram(d)
    <2>1. CASE CurrentBlock(t) = <<>>
      BY <2>1, <1>4 DEF SendBlock
    <2>2. CASE CurrentBlock(t) # <<>>
      <3>1. block[t] \in 1 .. (U16 - 1) /\ block[t] \in Nat /\ block[t] > 0
        BY <2>2, <1>4, U16Type DEF CurrentBlock, readDataBlock, UInt16
      <3>2. CurrentBlock(t) \in Seq(Byte)
        BY <2>2, <3>1, FileBytesType, BlockTiling DEF CurrentBlock, IInv
      <3>3. pkt \in Packets
        BY <3>2, <1>4, PacketTypes
      <3>4. CarriesBlock(t, pkt)
        BY <3>1, <2>2, <1>4, WireRoundTrip DEF CarriesBlock, createDataPacket, CurrentBlock
      <3> HIDE DEF pkt
      <3>5. /\ threadSend(inbox, t, pkt) \in [Ports -> Seq(Datagrams)]
            /\ \A d \in InQueue(threadSend(inbox, t, pkt)[ClientPort]) :
                  d \in InQueue(inbox[ClientPort]) \/ ClientDatagram(d)
        BY <1>3, <1>4, <3>3, <3>4, ThreadSendFacts
      <3>6. inbox' = threadSend(inbox, t, pkt) /\ Goto(t, "wait")
        BY <2>2 DEF SendBlock, pkt
      <3> QED
        BY <3>5, <3>6
    <2> QED
      BY <2>1, <2>2
  <1>6. TypeOK'
    BY <1>1, <1>5 DEF IInv, TypeOK, ThreadFrame, Goto, clientVars
  <1>7. ThreadState'
    BY <1>1, <1>5 DEF IInv, TypeOK, ThreadState, Goto, ThreadFrame
  <1>8. ClientQueue'
    BY <1>2, <1>5, QueueStable DEF IInv
  <1> QED
    BY <1>2, <1>6, <1>7, <1>8 DEF IInv

\* A thread takes a datagram off its own queue.
LEMMA ThreadTakes ==
  ASSUME IInv, NEW t \in Threads, inbox[ThreadPort(t)] # <<>>
  PROVE  /\ recvfrom(ThreadPort(t)) \in [Ports -> Seq(Datagrams)]
         /\ InQueue(recvfrom(ThreadPort(t))[ClientPort]) \subseteq InQueue(inbox[ClientPort])
  BY RecvfromFacts, PortFacts DEF IInv, TypeOK

LEMMA AckAcceptedStep ==
  ASSUME IInv, NEW t \in Threads, AckAccepted(t)
  PROVE  IInv'
  <1>1. /\ ThreadFrame /\ UNCHANGED <<treaders, files, up>>
        /\ tpc[t] = "wait" /\ inbox[ThreadPort(t)] # <<>>
        /\ inbox' = recvfrom(ThreadPort(t))
        /\ tretry' = [tretry EXCEPT ![t] = MaxRetry]
        /\ Goto(t, "relGet") \/ Goto(t, "send")
        /\ block' = block \/ block' = [block EXCEPT ![t] = Inc16(block[t])]
    BY DEF AckAccepted, ThreadReceives, ThreadFrame, ThreadAt, clientVars, serverVars
  <1>2. KeepsFiles /\ ClientState'
    BY <1>1, ThreadFrameFacts
  <1>3. /\ inbox' \in [Ports -> Seq(Datagrams)]
        /\ InQueue(inbox'[ClientPort]) \subseteq InQueue(inbox[ClientPort])
    BY <1>1, ThreadTakes
  <1>4. TypeOK'
    <2>1. block' \in [Threads -> UInt16]
      BY <1>1, Counter16 DEF IInv, TypeOK
    <2>2. tretry' \in [Threads -> 0 .. MaxRetry]
      BY <1>1, SessionsAssumption DEF IInv, TypeOK
    <2>3. tpc' \in [Threads -> {"free", "bind", "start", "acqGet", "acqErase", "acqInsert",
                               "send", "wait", "relGet", "relErase", "relInsert", "done"}]
      BY <1>1 DEF IInv, TypeOK, Goto
    <2> QED
      BY <1>1, <1>3, <2>1, <2>2, <2>3 DEF IInv, TypeOK, ThreadFrame, clientVars
  <1>5. ThreadState'
    BY <1>1, SessionsAssumption DEF IInv, TypeOK, ThreadState, Goto, ThreadFrame
  <1>6. ClientQueue'
    BY <1>2, <1>3, QueueStable DEF IInv
  <1> QED
    BY <1>2, <1>4, <1>5, <1>6 DEF IInv

LEMMA AckRejectedStep ==
  ASSUME IInv, NEW t \in Threads, AckRejected(t)
  PROVE  IInv'
  <1> DEFINE q == recvfrom(ThreadPort(t))
             told == threadSend(q, t, createErrorPacket(ACCESS_VIOLATION))
  <1>1. /\ ThreadFrame /\ UNCHANGED <<treaders, files, up, block>>
        /\ tpc[t] = "wait" /\ inbox[ThreadPort(t)] # <<>>
        /\ inbox' = told
        /\ tretry' = [tretry EXCEPT ![t] = MaxRetry]
        /\ Goto(t, "send")
    BY DEF AckRejected, ThreadReceives, ThreadFrame, ThreadAt, clientVars, serverVars
  <1>2. KeepsFiles /\ ClientState'
    BY <1>1, ThreadFrameFacts
  <1>3. /\ inbox' \in [Ports -> Seq(Datagrams)]
        /\ \A d \in InQueue(inbox'[ClientPort]) :
              d \in InQueue(inbox[ClientPort]) \/ ClientDatagram(d)
    <2>1. t < nextId
      BY <1>1, BusyThread
    <2>2. /\ q \in [Ports -> Seq(Datagrams)]
          /\ InQueue(q[ClientPort]) \subseteq InQueue(inbox[ClientPort])
      BY <1>1, ThreadTakes
    <2>3. /\ createErrorPacket(ACCESS_VIOLATION) \in Packets
          /\ createErrorPacket(ACCESS_VIOLATION).op = ERROR
      BY PacketTypes DEF ACCESS_VIOLATION
    <2> HIDE DEF q
    <2> QED
      BY <1>1, <2>1, <2>2, <2>3, ThreadSendFacts
  <1>4. TypeOK'
    <2>1. tretry' \in [Threads -> 0 .. MaxRetry]
      BY <1>1, SessionsAssumption DEF IInv, TypeOK
    <2> HIDE DEF told
    <2> QED
      BY <1>1, <1>3, <2>1 DEF IInv, TypeOK, ThreadFrame, Goto, clientVars
  <1>5. ThreadState'
    BY <1>1, SessionsAssumption DEF IInv, TypeOK, ThreadState, Goto, ThreadFrame
  <1>6. ClientQueue'
    BY <1>2, <1>3, QueueStable DEF IInv
  <1> QED
    BY <1>2, <1>4, <1>5, <1>6 DEF IInv

LEMMA AckTimeoutStep ==
  ASSUME IInv, NEW t \in Threads, AckTimeout(t)
  PROVE  IInv'
  <1>1. /\ ThreadFrame /\ UNCHANGED <<treaders, files, up, block, inbox>>
        /\ tpc[t] = "wait"
        /\ tretry' = [tretry EXCEPT ![t] = tretry[t] - 1]
        /\ \/ tretry[t] = 1 /\ Goto(t, "relGet")
           \/ tretry[t] # 1 /\ Goto(t, "send")
    <2>1. tretry \in [Threads -> 0 .. MaxRetry] /\ MaxRetry \in Nat
      BY SessionsAssumption DEF IInv, TypeOK
    <2>2. tretry' = [tretry EXCEPT ![t] = tretry[t] - 1]
      BY DEF AckTimeout, ThreadTimeout, retryAfterTimeout
    <2>3. outOfTries(tretry'[t]) <=> tretry[t] = 1
      BY <2>1, <2>2 DEF outOfTries
    <2> QED
      BY <2>2, <2>3
      DEF AckTimeout, ThreadTimeout, ThreadFrame, ThreadAt, clientVars, serverVars, netVars
  <1>2. KeepsFiles /\ ClientState'
    BY <1>1, ThreadFrameFacts
  <1>3. tretry[t] \in 1 .. MaxRetry
    BY <1>1, SessionsAssumption DEF IInv, TypeOK, ThreadState
  <1>4. TypeOK'
    <2>1. tretry' \in [Threads -> 0 .. MaxRetry]
      BY <1>1, <1>3, SessionsAssumption DEF IInv, TypeOK
    <2> QED
      BY <1>1, <2>1 DEF IInv, TypeOK, ThreadFrame, Goto, clientVars
  <1>5. ThreadState'
    BY <1>1, <1>3, SessionsAssumption DEF IInv, TypeOK, ThreadState, Goto, ThreadFrame
  <1>6. ClientQueue'
    BY <1>1, <1>2, QueueStable DEF IInv
  <1> QED
    BY <1>2, <1>4, <1>5, <1>6 DEF IInv

LEMMA ReadThreadStepInv ==
  ASSUME IInv, NEW t \in Threads, ReadThreadStep(t)
  PROVE  IInv'
  BY BindStep, ReadLookupStep, ReadNotFoundStep, MapGetStep, MapEraseStep, MapEraseAbortsStep,
     MapInsertStep, SendBlockStep, AckAcceptedStep, AckRejectedStep, AckTimeoutStep
  DEF ReadThreadStep, CountReader, DropReader

---------------------------------------------------------------------------
(* The steps of the listener, of the user and of the network.              *)

\* The datagram at the head of the listener's queue, and what is left.
LEMMA HeadAtListener ==
  ASSUME IInv, ListenerReceives
  PROVE  /\ ListenerPacket \in Packets
         /\ Received(ServerPort).src \in Ports \cup {0}
         /\ recvfrom(ServerPort) \in [Ports -> Seq(Datagrams)]
         /\ InQueue(recvfrom(ServerPort)[ClientPort]) \subseteq InQueue(inbox[ClientPort])
  <1>1. /\ recvfrom(ServerPort) \in [Ports -> Seq(Datagrams)]
        /\ Received(ServerPort) \in Datagrams
        /\ InQueue(recvfrom(ServerPort)[ClientPort]) \subseteq InQueue(inbox[ClientPort])
    BY RecvfromFacts, PortFacts DEF IInv, TypeOK, ListenerReceives
  <1> QED
    BY <1>1 DEF Datagrams, ListenerPacket

LEMMA ListenStep ==
  ASSUME IInv, Listen
  PROVE  IInv'
  <1>1. /\ inbox' \in [Ports -> Seq(Datagrams)]
        /\ InQueue(inbox'[ClientPort]) \subseteq InQueue(inbox[ClientPort])
    BY HeadAtListener DEF Listen
  <1>2. ListenerPacket.data[1] \in Names
    <2>1. ListenerPacket \in Packets /\ ListenerPacket.op \in {RRQ, WRQ, DELETE}
      BY HeadAtListener DEF Listen
    <2>2. ListenerPacket.data \in Names \X {Octet, "ocet"}
      BY <2>1 DEF Packets, RRQ, WRQ, DELETE, DATA, ACK, ERROR
    <2> QED
      BY <2>2
  <1>3. KeepsFiles
    BY LoopbackAssumption DEF IInv, TypeOK, KeepsFiles, Listen, Threads
  <1>4. TypeOK'
    <2>1. tfile' \in [Threads -> Names \cup {NoName}]
      BY <1>2 DEF IInv, TypeOK, Listen
    <2>2. tpc' \in [Threads -> {"free", "bind", "start", "acqGet", "acqErase", "acqInsert",
                               "send", "wait", "relGet", "relErase", "relInsert", "done"}]
      BY DEF IInv, TypeOK, Listen
    <2>3. nextId' \in Nat
      BY DEF IInv, TypeOK, Listen
    <2> QED
      BY <1>1, <2>1, <2>2, <2>3 DEF IInv, TypeOK, Listen, clientVars
  <1>5. ThreadState'
    <2> SUFFICES ASSUME NEW t \in Threads
                 PROVE  /\ t >= nextId' => tpc'[t] = "free"
                        /\ tpc'[t] # "free" => tfile'[t] \in Names
                        /\ tpc'[t] \in {"acqGet", "acqErase", "acqInsert", "send", "wait"}
                              => tretry'[t] > 0
      BY DEF ThreadState
    <2>1. nextId \in Nat /\ nextId' = nextId + 1 /\ t \in Int
      BY LoopbackAssumption DEF IInv, TypeOK, Listen, Threads
    <2>2. CASE t = nextId
      BY <2>1, <2>2, <1>2 DEF IInv, TypeOK, Listen
    <2>3. CASE t # nextId
      BY <2>1, <2>3 DEF IInv, TypeOK, ThreadState, Listen
    <2> QED
      BY <2>2, <2>3
  <1>6. ClientQueue'
    BY <1>1, <1>3, QueueStable DEF IInv
  <1>7. ClientState'
    BY <1>3, ClientStable DEF IInv, Listen
  <1> QED
    BY <1>4, <1>5, <1>6, <1>7 DEF IInv

\* Both rejections answer with ERROR 4 from port 69.
LEMMA ListenerRejectsFacts ==
  ASSUME IInv, ListenerReceives, ListenerRejects
  PROVE  /\ inbox' \in [Ports -> Seq(Datagrams)]
         /\ \A d \in InQueue(inbox'[ClientPort]) :
               d \in InQueue(inbox[ClientPort]) \/ ClientDatagram(d)
  <1> DEFINE pkt == createErrorPacket(ILLEGAL_TFTP_OPERATION)
             q == recvfrom(ServerPort)
             d0 == [src |-> ServerPort, pkt |-> pkt]
  <1>1. pkt \in Packets /\ pkt.op = ERROR
    BY PacketTypes DEF ILLEGAL_TFTP_OPERATION
  <1>2. q \in [Ports -> Seq(Datagrams)]
        /\ InQueue(q[ClientPort]) \subseteq InQueue(inbox[ClientPort])
    BY HeadAtListener
  <1>3. Open \in SUBSET Ports /\ ServerPort \in Ports \cup {0} /\ ClientPort \in Ports
    BY PortFacts
  <1>4. inbox' = sendto(q, Open, ServerPort, Received(ServerPort).src, pkt)
    BY DEF ListenerRejects
  <1> HIDE DEF q, pkt
  <1>5. /\ inbox' \in [Ports -> Seq(Datagrams)]
        /\ InQueue(inbox'[ClientPort]) \subseteq InQueue(q[ClientPort]) \cup {d0}
    BY <1>1, <1>2, <1>3, <1>4, SendtoFacts
  <1>6. ClientDatagram(d0)
    BY <1>1 DEF ClientDatagram
  <1> QED
    BY <1>2, <1>5, <1>6

LEMMA ListenRejectsStep ==
  ASSUME IInv, ListenBadMode \/ ListenBadOpcode
  PROVE  IInv'
  <1>1. /\ ListenerReceives /\ ListenerRejects
        /\ UNCHANGED <<clientVars, threadVars, files, disk, up, lost, requests>>
        /\ nextId' \in {nextId, nextId + 1}
    BY DEF ListenBadMode, ListenBadOpcode, serverVars
  <1>2. /\ inbox' \in [Ports -> Seq(Datagrams)]
        /\ \A d \in InQueue(inbox'[ClientPort]) :
              d \in InQueue(inbox[ClientPort]) \/ ClientDatagram(d)
    BY <1>1, ListenerRejectsFacts
  <1>3. nextId \in Nat /\ nextId' \in Nat /\ nextId' >= nextId
    BY <1>1 DEF IInv, TypeOK
  <1>4. KeepsFiles
    BY <1>1, <1>3 DEF KeepsFiles, threadVars
  <1>5. TypeOK'
    BY <1>1, <1>2, <1>3 DEF IInv, TypeOK, clientVars, threadVars
  <1>6. ThreadState'
    BY <1>1, <1>3, LoopbackAssumption DEF IInv, TypeOK, ThreadState, threadVars, Threads
  <1>7. ClientQueue'
    BY <1>2, <1>4, QueueStable DEF IInv
  <1>8. ClientState'
    BY <1>1, <1>4, ClientStable DEF IInv
  <1> QED
    BY <1>5, <1>6, <1>7, <1>8 DEF IInv

LEMMA DebugRequestStep ==
  ASSUME IInv, NEW f \in Names, DebugRequest(f)
  PROVE  IInv'
  <1> DEFINE pkt == createRequestPacket(RRQ, f, "ocet")
  <1>1. pkt \in Packets
    BY PacketTypes
  <1>2. /\ Open \in SUBSET Ports /\ 0 \in Ports \cup {0}
        /\ ServerPort # ClientPort /\ ClientPort \in Ports
        /\ inbox \in [Ports -> Seq(Datagrams)]
    BY PortFacts DEF IInv, TypeOK
  <1>3. inbox' = sendto(inbox, Open, 0, ServerPort, pkt)
    BY DEF DebugRequest
  <1> HIDE DEF pkt
  <1>4. inbox' \in [Ports -> Seq(Datagrams)]
    BY <1>1, <1>2, <1>3, SendtoFacts
  <1>5. inbox'[ClientPort] = inbox[ClientPort]
    BY <1>1, <1>2, <1>3, SendtoElsewhere
  <1>6. KeepsFiles
    BY DEF DebugRequest, IInv, TypeOK, KeepsFiles, threadVars, serverVars
  <1>7. TypeOK'
    <2>1. requests' \in 0 .. MaxRequests
      BY LoopbackAssumption DEF DebugRequest, IInv, TypeOK
    <2> QED
      BY <1>4, <2>1 DEF DebugRequest, IInv, TypeOK, clientVars, threadVars, serverVars
  <1>8. ThreadState'
    BY DEF DebugRequest, IInv, ThreadState, threadVars, serverVars
  <1>9. ClientQueue'
    BY <1>5, <1>6, QueueStable DEF IInv
  <1>10. ClientState'
    BY <1>6, ClientStable DEF IInv, DebugRequest
  <1> QED
    BY <1>7, <1>8, <1>9, <1>10 DEF IInv

LEMMA LoseStep ==
  ASSUME IInv, Lose
  PROVE  IInv'
  <1>1. PICK p \in Ports : inbox[p] # <<>> /\ inbox' = recvfrom(p)
    BY DEF Lose, NetLose
  <1>2. /\ inbox' \in [Ports -> Seq(Datagrams)]
        /\ InQueue(inbox'[ClientPort]) \subseteq InQueue(inbox[ClientPort])
    <2>1. inbox \in [Ports -> Seq(Datagrams)] /\ ClientPort \in Ports
      BY PortFacts DEF IInv, TypeOK
    <2> QED
      BY <1>1, <2>1, RecvfromFacts
  <1>3. KeepsFiles
    BY DEF Lose, IInv, TypeOK, KeepsFiles, threadVars, serverVars
  <1>4. TypeOK'
    <2>1. lost' \in Nat
      BY DEF Lose, NetLose, IInv, TypeOK
    <2> QED
      BY <1>2, <2>1 DEF Lose, IInv, TypeOK, clientVars, threadVars, serverVars
  <1>5. ThreadState'
    BY DEF Lose, IInv, ThreadState, threadVars, serverVars
  <1>6. ClientQueue'
    BY <1>2, <1>3, QueueStable DEF IInv
  <1>7. ClientState'
    BY <1>3, ClientStable DEF IInv, Lose
  <1> QED
    BY <1>4, <1>5, <1>6, <1>7 DEF IInv

---------------------------------------------------------------------------
(* The invariant and what follows from it.                                 *)

LEMMA InitInv == Init => IInv
  <1> SUFFICES ASSUME Init PROVE IInv
    OBVIOUS
  <1>1. TypeOK
    <2>1. 0 \in UInt16 /\ 0 \in 0 .. MaxRequests /\ MaxRetry \in 0 .. MaxRetry
      BY U16Type, LoopbackAssumption, SessionsAssumption DEF UInt16
    <2>2. inbox \in [Ports -> Seq(Datagrams)]
      BY DEF Init, InitWith, NetInit
    <2>3. DOMAIN files \subseteq Names /\ files \in [DOMAIN files -> Int]
      BY SessionsAssumption DEF Init, InitWith, initializeFileMap
    <2> QED
      BY <2>1, <2>2, <2>3 DEF Init, InitWith, NetInit, TypeOK
  <1>2. ThreadState
    BY DEF Init, InitWith, ThreadState
  <1>3. ClientQueue
    BY QueueContents, PortFacts DEF Init, InitWith, NetInit, ClientQueue, InQueue
  <1>4. ClientState
    BY PortFacts DEF Init, InitWith, ClientState, ClientPort
  <1> QED
    BY <1>1, <1>2, <1>3, <1>4 DEF IInv

LEMMA NextInv == IInv /\ [Next]_vars => IInv'
  <1> SUFFICES ASSUME IInv, [Next]_vars PROVE IInv'
    OBVIOUS
  <1>1. CASE \E f \in Names : StartRead(f) \/ DebugRequest(f)
    BY <1>1, StartReadStep, DebugRequestStep
  <1>2. CASE ReadClientStep
    BY <1>2, UnknownTidStep, ErrorReceivedStep, BlockMismatchStep, BlockStoredStep,
       StoreFailsStep, ClientTimeoutStep
    DEF ReadClientStep
  <1>3. CASE ListenerStep
    BY <1>3, ListenStep, ListenRejectsStep DEF ListenerStep
  <1>4. CASE \E t \in Threads : ReadThreadStep(t)
    BY <1>4, ReadThreadStepInv
  <1>5. CASE Lose
    BY <1>5, LoseStep
  <1>6. CASE UNCHANGED vars
    BY <1>6
    DEF IInv, TypeOK, ThreadState, ClientQueue, ClientDatagram, CarriesBlock, ClientState,
        CopiedFrom, fileBytes, vars, clientVars, threadVars, serverVars, netVars
  <1> QED
    BY <1>1, <1>2, <1>3, <1>4, <1>5, <1>6 DEF Next

THEOREM Invariant == Spec => []IInv
  BY InitInv, NextInv, PTL DEF Spec

\* The state of client, threads, map and queues keeps its types in every
\* behaviour: no counter leaves its range, no packet is malformed.
THEOREM TypeCorrect == Spec => []TypeOK
  <1>1. IInv => TypeOK
    BY DEF IInv
  <1> QED
    BY <1>1, Invariant, PTL

\* handleRRQRequest never mixes, repeats, skips or invents blocks: what it
\* writes is a prefix of the file of the one thread it is pinned to, and it
\* returns true only with the whole of it.
LEMMA PinnedCopyHolds == IInv => PinnedCopy
  <1> SUFFICES ASSUME IInv PROVE PinnedCopy
    OBVIOUS
  <1>1. CASE cport \in ThreadPorts
    <2>1. PICK t \in Threads : cport = ThreadPort(t)
      BY <1>1 DEF ThreadPorts
    <2>2. servedFile = tfile[t]
      BY <1>1, <2>1, LoopbackAssumption DEF servedFile, ThreadPort, Threads
    <2> QED
      BY <2>1, <2>2 DEF IInv, ClientState, CopiedFrom, PinnedCopy
  <1>2. CASE cport \notin ThreadPorts
    <2>1. out = <<>> /\ cpc # "ok"
      BY <1>2 DEF IInv, TypeOK, ClientState, Ports
    <2>2. fileBytes(servedFile) \in Seq(Byte)
      BY FileBytesType DEF IInv
    <2> QED
      BY <2>1, <2>2 DEF PinnedCopy
  <1> QED
    BY <1>1, <1>2

THEOREM ReadsPinnedCopy == Spec => []PinnedCopy
  BY Invariant, PinnedCopyHolds, PTL

---------------------------------------------------------------------------
(* The reader counts never lose a file.                                    *)

Inserting == {"acqInsert", "relInsert"}

\* A step that touches neither the map nor a thread about to insert.
LEMMA MapQuiet ==
  ASSUME NeverForgotten, files' = files,
         \A u \in Threads : tpc[u] \in Inserting => tpc'[u] = tpc[u] /\ tfile'[u] = tfile[u]
  PROVE  NeverForgotten'
  BY DEF NeverForgotten, Inserting

LEMMA MapThreadStep ==
  ASSUME IInv, NeverForgotten, NEW t \in Threads, ReadThreadStep(t)
  PROVE  NeverForgotten'
  <1>1. tpc = [u \in Threads |-> tpc[u]]
    BY DEF IInv, TypeOK
  <1>0. tfile' = tfile
    <2>1. CASE \/ Bind(t) \/ ReadLookup(t) \/ ReadNotFound(t) \/ SendBlock(t)
               \/ AckAccepted(t) \/ AckRejected(t) \/ AckTimeout(t)
      BY <2>1
      DEF Bind, ReadLookup, ReadNotFound, SendBlock, AckAccepted, AckRejected,
          AckTimeout, ThreadTimeout
    <2>2. CASE CountReader(t)
      BY <2>2 DEF CountReader, MapGet, MapErase, MapEraseAborts, MapInsert, threadVars
    <2>3. CASE DropReader(t)
      BY <2>3 DEF DropReader, MapGet, MapErase, MapEraseAborts, MapInsert, threadVars
    <2> QED
      BY <2>1, <2>2, <2>3 DEF ReadThreadStep
  <1>2. CASE \/ Bind(t) \/ ReadLookup(t) \/ ReadNotFound(t) \/ SendBlock(t)
             \/ AckAccepted(t) \/ AckRejected(t) \/ AckTimeout(t)
    <2>1. files' = files /\ tpc[t] \in {"bind", "start", "send", "wait"}
          /\ \A u \in Threads : u # t => tpc'[u] = tpc[u]
      BY <1>1, <1>2
      DEF Bind, ReadLookup, ReadNotFound, SendBlock, AckAccepted, AckRejected,
          AckTimeout, ThreadTimeout,
          ThreadReceives, ThreadReturns, ThreadAt, Goto, serverVars
    <2> QED
      BY <1>0, <2>1, MapQuiet DEF Inserting
  <1>3. ASSUME NEW from, MapEraseAborts(t, from)
        PROVE  NeverForgotten'
    BY <1>3, MapQuiet DEF MapEraseAborts, threadVars
  <1>4. ASSUME NEW delta,
               MapGet(t, "acqGet", "acqErase", delta) \/ MapGet(t, "relGet", "relErase", delta)
        PROVE  NeverForgotten'
    <2>1. /\ DOMAIN files \subseteq DOMAIN files'
          /\ tpc[t] \in {"acqGet", "relGet"}
          /\ \A u \in Threads : u # t => tpc'[u] = tpc[u]
      BY <1>1, <1>4 DEF MapGet, mapInsert, ThreadAt, Goto
    <2> QED
      BY <1>0, <2>1 DEF NeverForgotten
  <1>5. CASE MapErase(t, "acqErase", "acqInsert") \/ MapErase(t, "relErase", "relInsert")
    <2>1. /\ DOMAIN files' = DOMAIN files \ {tfile[t]}
          /\ tpc[t] \in {"acqErase", "relErase"} /\ tpc'[t] \in Inserting
          /\ \A u \in Threads : u # t => tpc'[u] = tpc[u]
      BY <1>1, <1>5 DEF MapErase, mapErase, ThreadAt, Goto, Inserting
    <2> QED
      BY <1>0, <2>1 DEF NeverForgotten, Inserting
  <1>6. CASE \/ MapInsert(t, "acqInsert") /\ Goto(t, "send") /\ UNCHANGED inbox
             \/ MapInsert(t, "relInsert") /\ ThreadReturns(t, inbox)
    <2>1. /\ DOMAIN files' = DOMAIN files \cup {tfile[t]}
          /\ \A u \in Threads : u # t => tpc'[u] = tpc[u]
      BY <1>1, <1>6 DEF MapInsert, mapInsert, ThreadReturns, Goto
    <2> QED
      BY <1>0, <2>1 DEF NeverForgotten
  <1> QED
    BY <1>2, <1>3, <1>4, <1>5, <1>6 DEF ReadThreadStep, CountReader, DropReader

LEMMA MapNext ==
  ASSUME IInv, NeverForgotten, [Next]_vars
  PROVE  NeverForgotten'
  <1>1. CASE \E f \in Names : StartRead(f) \/ DebugRequest(f)
    BY <1>1, MapQuiet DEF StartRead, DebugRequest, threadVars, serverVars
  <1>2. CASE ReadClientStep
    BY <1>2, MapQuiet
    DEF ReadClientStep, UnknownTid, ErrorReceived, BlockMismatch, BlockStored, StoreFails,
        ClientTimeout, threadVars, serverVars
  <1>3. CASE Listen
    <2>1. \A u \in Threads : tpc[u] \in Inserting => u # nextId
      <3>1. nextId >= nextId
        BY DEF IInv, TypeOK
      <3> QED
        BY <3>1 DEF IInv, ThreadState, Inserting
    <2>2. /\ files' = files
          /\ \A u \in Threads : u # nextId => tpc'[u] = tpc[u] /\ tfile'[u] = tfile[u]
      BY <1>3 DEF Listen, IInv, TypeOK
    <2> QED
      BY <2>1, <2>2, MapQuiet
  <1>4. CASE ListenBadMode \/ ListenBadOpcode
    BY <1>4, MapQuiet DEF ListenBadMode, ListenBadOpcode, threadVars, serverVars
  <1>5. CASE \E t \in Threads : ReadThreadStep(t)
    BY <1>5, MapThreadStep
  <1>6. CASE Lose
    BY <1>6, MapQuiet DEF Lose, threadVars, serverVars
  <1>7. CASE UNCHANGED vars
    BY <1>7, MapQuiet DEF vars, threadVars, serverVars
  <1> QED
    BY <1>1, <1>2, <1>3, <1>4, <1>5, <1>6, <1>7 DEF Next, ListenerStep

\* Even when threads race on the map, the reader count's get, erase and
\* insert never make the server forget a file it has: what is missing from
\* the map is about to be inserted again.
THEOREM FilesNeverForgotten == Spec => []NeverForgotten
  <1>1. Init => NeverForgotten
    BY DEF Init, InitWith, initializeFileMap, NeverForgotten
  <1>2. IInv /\ NeverForgotten /\ [Next]_vars => NeverForgotten'
    BY MapNext
  <1> QED
    BY <1>1, <1>2, Invariant, PTL DEF Spec

---------------------------------------------------------------------------
(* The transfer implements FileCopy.                                       *)

LEMMA ServedByPinned ==
  ASSUME NEW t \in Threads
  PROVE  /\ cport = ThreadPort(t) => servedFile = tfile[t]
         /\ (cport = ThreadPort(t) => servedFile = tfile[t])'
  <1>1. t \in Int /\ ThreadPort(t) \in ThreadPorts /\ ThreadPort(t) - 9800 = t
    BY LoopbackAssumption DEF ThreadPort, ThreadPorts, Threads
  <1> QED
    BY <1>1 DEF servedFile

LEMMA ServedStable ==
  ASSUME IInv, KeepsFiles, cport' = cport
  PROVE  servedFile' = servedFile
  <1>1. CASE cport \in ThreadPorts
    <2>1. PICK t \in Threads : cport = ThreadPort(t)
      BY <1>1 DEF ThreadPorts
    <2>2. t < nextId /\ tfile'[t] = tfile[t]
      BY <2>1 DEF IInv, ClientState, KeepsFiles
    <2> QED
      BY <2>1, <2>2, ServedByPinned
  <1>2. CASE cport \notin ThreadPorts
    BY <1>2 DEF servedFile
  <1> QED
    BY <1>1, <1>2

LEMMA ServedType ==
  ASSUME IInv
  PROVE  /\ servedFile \in Names \cup {""}
         /\ cport = 0 => servedFile = ""
  <1>1. CASE cport \in ThreadPorts
    <2>1. PICK t \in Threads : cport = ThreadPort(t)
      BY <1>1 DEF ThreadPorts
    <2> QED
      BY <2>1, ServedByPinned, PortFacts DEF IInv, TypeOK, NoName
  <1>2. CASE cport \notin ThreadPorts
    BY <1>2 DEF servedFile, NoName
  <1> QED
    BY <1>1, <1>2, PortFacts DEF Ports

\* A client step that keeps or sets the pinned port keeps the source.
LEMMA SourceKept ==
  ASSUME IInv, IInv', cport = 0 \/ cport' = cport, KeepsFiles
  PROVE  Copy!KeepSource
  <1>1. servedFile' \in Names \cup {""}
    <2>1. CASE cport' \in ThreadPorts
      <3>1. PICK t \in Threads : cport' = ThreadPort(t)
        BY <2>1 DEF ThreadPorts
      <3> QED
        BY <3>1, ServedByPinned DEF IInv, TypeOK, NoName
    <2>2. CASE cport' \notin ThreadPorts
      BY <2>2 DEF servedFile, NoName
    <2> QED
      BY <2>1, <2>2
  <1>2. servedFile # "" => servedFile' = servedFile
    BY ServedType, ServedStable
  <1> QED
    BY <1>1, <1>2 DEF Copy!KeepSource

LEMMA StoreCopies ==
  ASSUME IInv, IInv', BlockStored
  PROVE  Copy!Store
  <1>1. PICK t \in Threads :
            /\ t < nextId
            /\ cport' = ThreadPort(t) /\ ClientSource = ThreadPort(t)
            /\ CarriesBlock(t, ClientPacket)
            /\ fileBytes(tfile[t]) \in Seq(Byte)
            /\ out = Blocks(fileBytes(tfile[t]), Dec16(expected))
    BY DataFacts DEF BlockStored
  <1> DEFINE bytes == fileBytes(tfile[t])
             b == expected
  <1>2. /\ b \in 1 .. (U16 - 1) /\ ClientPacket.data = readDataBlock(bytes, b)
        /\ ClientPacket.data # <<>>
    BY <1>1 DEF BlockStored, ExpectedBlock, CarriesBlock
  <1>3. b \in Nat /\ b > 0 /\ b \in UInt16 /\ Dec16(b) = b - 1
    <2>1. b \in UInt16
      BY DEF IInv, TypeOK
    <2>2. b \in Nat /\ b > 0
      BY <1>2, U16Type
    <2> HIDE DEF b
    <2> QED
      BY <2>1, <2>2, Counter16
  <1>4. /\ (b - 1) * BlockSize < Len(bytes)
        /\ b - 1 \in 0 .. Len(bytes)
        /\ Blocks(bytes, b - 1) \o readDataBlock(bytes, b) = Blocks(bytes, b)
        /\ Len(readDataBlock(bytes, b)) < BlockSize <=> Len(bytes) < b * BlockSize
    <2>1. bytes \in Seq(Byte)
      BY <1>1
    <2>2. readDataBlock(bytes, b) # <<>>
      BY <1>2
    <2> HIDE DEF bytes, b
    <2>3. /\ (b - 1) * BlockSize < Len(bytes)
          /\ b - 1 <= Len(bytes)
          /\ Blocks(bytes, b - 1) \o readDataBlock(bytes, b) = Blocks(bytes, b)
          /\ Len(readDataBlock(bytes, b)) < BlockSize <=> Len(bytes) < b * BlockSize
      BY <2>1, <2>2, <1>3, BlockTiling
    <2>4. b - 1 \in 0 .. Len(bytes)
      BY <2>1, <2>3, <1>3
    <2> QED
      BY <2>3, <2>4
  <1>5. tfile[t] \in DOMAIN Database /\ Database[tfile[t]] = bytes
    <2>1. bytes # <<>>
      BY <1>4, <1>3, PacketAssumption
    <2> QED
      BY <2>1 DEF fileBytes, IInv, TypeOK
  <1>6. servedFile' = tfile[t] /\ cpc = "run"
    BY <1>1, ServedByPinned
    DEF BlockStored, DataReceived, ClientReceives, threadVars
  <1>7. Copy!KeepSource
    <2>1. cport = 0 \/ cport' = cport
      BY DEF BlockStored, DataReceived, FromServer, PinServer
    <2>2. KeepsFiles
      BY DEF IInv, TypeOK, KeepsFiles, BlockStored, threadVars, serverVars
    <2> QED
      BY <2>1, <2>2, SourceKept
  <1>8. out = Blocks(bytes, b - 1) /\ out' = Blocks(bytes, b)
        /\ cpc' = IF Len(bytes) < b * BlockSize THEN "ok" ELSE "run"
    BY <1>1, <1>2, <1>3, <1>4, <1>6 DEF BlockStored, ClientReturns
  <1> HIDE DEF bytes, b
  <1>9. \A n \in Nat : Copy!FirstBlocks(bytes, n) = Blocks(bytes, n)
    BY DEF Copy!FirstBlocks, Blocks
  <1>10. (b - 1) + 1 = b /\ b - 1 \in Nat
    BY <1>3
  <1>11. \E n \in 0 .. Len(bytes) :
            /\ n * BlockSize < Len(bytes)
            /\ out  = Copy!FirstBlocks(bytes, n)
            /\ out' = Copy!FirstBlocks(bytes, n + 1)
            /\ cpc' = IF Len(bytes) < (n + 1) * BlockSize THEN "ok" ELSE "run"
    <2>1. b - 1 \in 0 .. Len(bytes) /\ (b - 1) * BlockSize < Len(bytes)
      BY <1>4
    <2>2. out = Copy!FirstBlocks(bytes, b - 1) /\ out' = Copy!FirstBlocks(bytes, b)
      BY <1>3, <1>8, <1>9, <1>10
    <2>3. /\ out' = Copy!FirstBlocks(bytes, (b - 1) + 1)
          /\ cpc' = IF Len(bytes) < ((b - 1) + 1) * BlockSize THEN "ok" ELSE "run"
      BY <2>2, <1>8, <1>10
    <2> QED
      BY <2>1, <2>2, <2>3
  <1> QED
    BY <1>5, <1>6, <1>7, <1>11 DEF Copy!Store

LEMMA CopyNext ==
  ASSUME IInv, IInv', [Next]_vars
  PROVE  [Copy!Next]_(Copy!vars)
  <1>1. ASSUME KeepsFiles, UNCHANGED clientVars
        PROVE  UNCHANGED Copy!vars
    BY <1>1, ServedStable DEF Copy!vars, clientVars
  <1>2. ASSUME NEW f \in Names, StartRead(f)
        PROVE  Copy!Begin
    <2>1. PICK opened \in BOOLEAN : StartClient(f, createRRQPacket(f), opened)
      BY <1>2 DEF StartRead
    <2>2. servedFile' = ""
      <3>1. 0 \notin ThreadPorts
        BY LoopbackAssumption DEF ThreadPorts, ThreadPort, Threads
      <3>2. cport' = 0
        BY <2>1 DEF StartClient
      <3> QED
        BY <3>1, <3>2 DEF servedFile, NoName
    <2> QED
      BY <2>1, <2>2 DEF StartClient, Copy!Begin
  <1>3. ASSUME NEW f \in Names, DebugRequest(f)
        PROVE  UNCHANGED Copy!vars
    BY <1>1, <1>3 DEF DebugRequest, KeepsFiles, IInv, TypeOK, threadVars, serverVars
  <1>4. CASE UnknownTid
    <2>1. KeepsFiles /\ UNCHANGED <<cport, cpc, out>>
      BY <1>4 DEF UnknownTid, KeepsFiles, IInv, TypeOK, threadVars, serverVars
    <2> QED
      BY <2>1, ServedStable DEF Copy!vars
  <1>5. CASE ErrorReceived
    <2>1. KeepsFiles /\ (cport = 0 \/ cport' = cport) /\ cpc = "run" /\ cpc' = "fail" /\ out' = out
      BY <1>5
      DEF ErrorReceived, ClientReturns, ClientReceives, FromServer, PinServer,
          KeepsFiles, IInv, TypeOK, threadVars, serverVars
    <2> QED
      BY <2>1, SourceKept DEF Copy!Fail, Copy!Next
  <1>6. CASE BlockMismatch
    <2>1. KeepsFiles /\ (cport = 0 \/ cport' = cport) /\ cpc = "run" /\ UNCHANGED <<cpc, out>>
      BY <1>6
      DEF BlockMismatch, DataReceived, ClientReceives, FromServer, PinServer,
          KeepsFiles, IInv, TypeOK, threadVars, serverVars
    <2> QED
      BY <2>1, SourceKept DEF Copy!Hear, Copy!Next
  <1>7. CASE BlockStored
    BY <1>7, StoreCopies DEF Copy!Next
  <1>8. CASE StoreFails
    <2>1. KeepsFiles /\ (cport = 0 \/ cport' = cport) /\ cpc = "run" /\ cpc' = "fail" /\ out' = out
      BY <1>8
      DEF StoreFails, DataReceived, ClientReturns, ClientReceives, FromServer, PinServer,
          KeepsFiles, IInv, TypeOK, threadVars, serverVars
    <2> QED
      BY <2>1, SourceKept DEF Copy!Fail, Copy!Next
  <1>9. CASE ClientTimeout
    <2>1. KeepsFiles /\ cport' = cport /\ cpc = "run" /\ cpc' \in {"run", "fail"} /\ out' = out
      BY <1>9
      DEF ClientTimeout, ClientReturns, KeepsFiles, IInv, TypeOK, threadVars, serverVars
    <2>2. CASE cpc' = "run"
      BY <2>1, <2>2, ServedStable DEF Copy!vars
    <2>3. CASE cpc' = "fail"
      BY <2>1, <2>3, SourceKept DEF Copy!Fail, Copy!Next
    <2> QED
      BY <2>1, <2>2, <2>3
  <1>10. CASE ListenerStep
    <2>1. CASE Listen
      BY <1>1, <2>1, LoopbackAssumption DEF Listen, KeepsFiles, IInv, TypeOK, Threads
    <2>2. CASE ListenBadMode \/ ListenBadOpcode
      BY <1>1, <2>2
      DEF ListenBadMode, ListenBadOpcode, KeepsFiles, IInv, TypeOK, threadVars, serverVars
    <2> QED
      BY <1>10, <2>1, <2>2 DEF ListenerStep
  <1>11. CASE \E t \in Threads : ReadThreadStep(t)
    <2>1. KeepsFiles /\ UNCHANGED clientVars
      BY <1>11
      DEF ReadThreadStep, Bind, ReadLookup, ReadNotFound, CountReader, DropReader, SendBlock,
          AckAccepted, AckRejected, AckTimeout, ThreadTimeout,
          MapGet, MapErase, MapEraseAborts, MapInsert,
          KeepsFiles, IInv, TypeOK, threadVars, serverVars
    <2> QED
      BY <1>1, <2>1
  <1>12. CASE Lose
    BY <1>1, <1>12 DEF Lose, KeepsFiles, IInv, TypeOK, threadVars, serverVars
  <1>13. CASE UNCHANGED vars
    BY <1>1, <1>13 DEF vars, KeepsFiles, IInv, TypeOK, threadVars, serverVars
  <1> QED
    BY <1>2, <1>3, <1>4, <1>5, <1>6, <1>7, <1>8, <1>9, <1>10, <1>11, <1>12, <1>13
    DEF Next, ReadClientStep, Copy!Next

\* Reading implements copying one file: every step of the client, of the
\* threads, of the listener and of the network is a step of FileCopy or leaves
\* the copy alone.
THEOREM ReadImplementsCopy == Spec => CopySpec
  <1>1. Init => Copy!Init
    <2> SUFFICES ASSUME Init PROVE Copy!Init
      OBVIOUS
    <2>1. servedFile = ""
      <3>1. 0 \notin ThreadPorts
        BY LoopbackAssumption DEF ThreadPorts, ThreadPort, Threads
      <3> QED
        BY <3>1 DEF Init, InitWith, servedFile, NoName
    <2> QED
      BY <2>1 DEF Init, InitWith, Copy!Init
  <1>2. IInv /\ IInv' /\ [Next]_vars => [Copy!Next]_(Copy!vars)
    BY CopyNext
  <1> QED
    BY <1>1, <1>2, Invariant, PTL DEF Spec, CopySpec, Copy!Spec


---------------------------------------------------------------------------
(* Stop and wait.  While the first client runs, nothing but its own        *)
(* transfer is on the network: no datagram and no thread is older.         *)

half == ByteMod \div 2

\* Before the first request nothing has been sent and no thread exists.
Fresh ==
    requests = 0 =>
        /\ cpc # "run"
        /\ \A t \in Threads : tpc[t] = "free" /\ block[t] = 0
        /\ \A p \in Ports : inbox[p] = <<>>

Alone == requests = 1 /\ cpc = "run"

\* A thread is never further than the client's expected block, an ACK numbers
\* a stored block, a block under way is not beyond its thread's block, and the
\* client is at most one block further than the thread it is pinned to.
InStep ==
    Alone =>
        /\ expected \in 1 .. half + 1
        /\ \A t \in Threads :
              /\ block[t] \in 0 .. half /\ block[t] <= expected
              /\ tpc[t] \in {"free", "bind", "start"} => block[t] = 0
              /\ \A d \in InQueue(inbox[ThreadPort(t)]) :
                    d.pkt.op = ACK => NtohsBlock(d.pkt) < expected
              /\ \A d \in InQueue(inbox[ClientPort]) :
                    d.src = ThreadPort(t) /\ d.pkt.op = DATA => NtohsBlock(d.pkt) <= block[t]
              /\ cport = ThreadPort(t) => expected <= block[t] + 1

\* The signed decoding reads nothing as a number up to half but that number,
\* and never half itself.
LEMMA CharBlockBelowHalf ==
  ASSUME NEW p \in Packets, CharBlock(p) <= half
  PROVE  /\ CharBlock(p) = NtohsBlock(p) /\ CharBlock(p) < half
         /\ half \in Nat /\ half > 3 /\ half + 2 < U16
  <1>1. p.hi \in 0 .. (ByteMod - 1) /\ p.lo \in 0 .. (ByteMod - 1)
    BY DEF Packets
  <1>2. ByteMod \in Nat /\ ByteMod > 7 /\ half \in Nat /\ half > 3 /\ 2 * half <= ByteMod
    BY PacketAssumption DEF half
  <1>3. half + 2 < U16
    <2>1. ByteMod * ByteMod >= 8 * ByteMod
      BY <1>2
    <2> QED
      BY <1>2, <2>1 DEF U16
  <1>4. p.lo < half
    <2>1. SUFFICES ASSUME p.lo >= half PROVE FALSE
      BY <1>1, <1>2
    <2>2. CharBlock(p) = (ByteMod - 1) * ByteMod + p.lo
      BY <2>1 DEF CharBlock, half
    <2>3. (ByteMod - 1) * ByteMod >= 1 * ByteMod
      BY <1>2
    <2> QED
      BY <2>1, <2>2, <2>3, <1>1, <1>2
  <1>5. CharBlock(p) = p.hi * ByteMod + p.lo
    BY <1>1, <1>2, <1>4 DEF CharBlock, half
  <1>6. p.hi = 0
    <2>1. p.hi # 0 => p.hi * ByteMod >= ByteMod
      BY <1>1, <1>2
    <2>2. p.hi * ByteMod \in Nat
      BY <1>1, <1>2
    <2> QED
      BY <2>1, <2>2, <1>1, <1>2, <1>5
  <1> QED
    BY <1>1, <1>2, <1>3, <1>4, <1>5, <1>6 DEF NtohsBlock

\* Every datagram that is new in a queue is a request or an ERROR.
QuietQueues ==
    \A p \in Ports : \A d \in InQueue(inbox'[p]) :
        d \in InQueue(inbox[p]) \/ d.pkt.op \notin {DATA, ACK}

\* Sending, receiving and closing, where no block and no ACK is sent.
LEMMA QuietSend ==
  ASSUME IInv, NEW q \in [Ports -> Seq(Datagrams)],
         \A p \in Ports : InQueue(q[p]) \subseteq InQueue(inbox[p]),
         NEW open \in SUBSET Ports, NEW src \in Ports \cup {0}, NEW dst,
         NEW pkt \in Packets, pkt.op \notin {DATA, ACK},
         \/ inbox' = q
         \/ inbox' = sendto(q, open, src, dst, pkt)
         \/ \E port \in Ports : inbox' = closeSocket(sendto(q, open, src, dst, pkt), port)
         \/ \E port \in Ports : inbox' = closeSocket(q, port)
  PROVE  QuietQueues
  <1>1. CASE inbox' = q
    BY <1>1 DEF QuietQueues
  <1>2. /\ sendto(q, open, src, dst, pkt) \in [Ports -> Seq(Datagrams)]
        /\ \A p \in Ports : InQueue(sendto(q, open, src, dst, pkt)[p])
                              \subseteq InQueue(q[p]) \cup {[src |-> src, pkt |-> pkt]}
    BY SendtoFacts
  <1>3. CASE inbox' = sendto(q, open, src, dst, pkt)
    BY <1>2, <1>3 DEF QuietQueues
  <1>4. ASSUME NEW port \in Ports, inbox' = closeSocket(sendto(q, open, src, dst, pkt), port)
        PROVE  QuietQueues
    <2>1. \A p \in Ports : InQueue(inbox'[p]) \subseteq InQueue(sendto(q, open, src, dst, pkt)[p])
      BY <1>2, <1>4, CloseFacts
    <2>2. ASSUME NEW p \in Ports, NEW d \in InQueue(inbox'[p])
          PROVE  d \in InQueue(inbox[p]) \/ d.pkt = pkt
      <3>1. d \in InQueue(sendto(q, open, src, dst, pkt)[p])
        BY <2>1, <2>2
      <3> QED
        BY <3>1, <1>2
    <2> QED
      BY <2>2 DEF QuietQueues
  <1>5. ASSUME NEW port \in Ports, inbox' = closeSocket(q, port)
        PROVE  QuietQueues
    <2>1. \A p \in Ports : InQueue(inbox'[p]) \subseteq InQueue(q[p])
      BY <1>5, CloseFacts
    <2> QED
      BY <2>1 DEF QuietQueues
  <1> QED
    BY <1>1, <1>3, <1>4, <1>5

\* Steps that send no block and no ACK and leave the numbers alone.
LEMMA QuietStep ==
  ASSUME IInv, InStep, requests' = requests, QuietQueues,
         cpc' = "run" => cpc = "run" /\ expected' = expected /\ cport' = cport,
         block' = block,
         \A t \in Threads : tpc'[t] \in {"free", "bind", "start"}
                               => tpc[t] \in {"free", "bind", "start"}
  PROVE  InStep'
  <1>1. SUFFICES ASSUME Alone' PROVE InStep'
    BY DEF InStep
  <1>2. Alone /\ expected' = expected /\ cport' = cport /\ block' = block
    BY <1>1 DEF Alone
  <1>3. expected \in 1 .. half + 1
    BY <1>2 DEF InStep
  <1>4. ASSUME NEW t \in Threads
        PROVE  /\ block[t] \in 0 .. half /\ block[t] <= expected
               /\ tpc'[t] \in {"free", "bind", "start"} => block[t] = 0
               /\ \A d \in InQueue(inbox'[ThreadPort(t)]) :
                     d.pkt.op = ACK => NtohsBlock(d.pkt) < expected
               /\ \A d \in InQueue(inbox'[ClientPort]) :
                     d.src = ThreadPort(t) /\ d.pkt.op = DATA => NtohsBlock(d.pkt) <= block[t]
               /\ cport = ThreadPort(t) => expected <= block[t] + 1
    BY <1>2, PortFacts DEF InStep, QuietQueues
  <1> QED
    BY <1>2, <1>3, <1>4 DEF InStep

\* The first client finds everything as it was.
LEMMA StartInStep ==
  ASSUME IInv, Fresh, NEW f \in Names, StartRead(f)
  PROVE  InStep'
  <1>1. SUFFICES ASSUME Alone' PROVE InStep'
    BY DEF InStep
  <1>2. requests = 0
    BY <1>1 DEF Alone, StartRead, StartClient, IInv, TypeOK
  <1>3. /\ \A t \in Threads : tpc[t] = "free" /\ block[t] = 0
        /\ \A p \in Ports : inbox[p] = <<>>
    BY <1>2 DEF Fresh
  <1>4. PICK opened \in BOOLEAN : StartClient(f, createRRQPacket(f), opened)
    BY DEF StartRead
  <1>5. opened /\ inbox' = sendto(inbox, Open, ClientPort, ServerPort, createRRQPacket(f))
    BY <1>1, <1>4 DEF Alone, StartClient
  <1>6. \A t \in Threads : inbox'[ThreadPort(t)] = <<>>
    <2>1. createRRQPacket(f) \in Packets /\ inbox \in [Ports -> Seq(Datagrams)]
      BY PacketTypes DEF IInv, TypeOK
    <2> QED
      BY <1>3, <1>5, <2>1, SendtoElsewhere, PortFacts
  <1>7. inbox'[ClientPort] = <<>>
    <2>1. createRRQPacket(f) \in Packets /\ inbox \in [Ports -> Seq(Datagrams)]
      BY PacketTypes DEF IInv, TypeOK
    <2> QED
      BY <1>3, <1>5, <2>1, SendtoElsewhere, PortFacts
  <1>8. expected' = 1 /\ cport' = 0 /\ block' = block /\ tpc' = tpc
    BY <1>4 DEF StartRead, StartClient, threadVars
  <1>9. half \in Nat /\ half > 3
    BY PacketAssumption DEF half
  <1>10. InQueue(<<>>) = {}
    BY DEF InQueue
  <1> QED
    BY <1>3, <1>6, <1>7, <1>8, <1>9, <1>10, PortFacts DEF InStep

\* The head of the client's queue comes from a thread and is not beyond it.
LEMMA DataInStep ==
  ASSUME IInv, InStep, Alone, DataReceived
  PROVE  \E t \in Threads :
            /\ cport' = ThreadPort(t) /\ ClientSource = ThreadPort(t)
            /\ NtohsBlock(ClientPacket) <= block[t]
            /\ cport = 0 \/ cport = ThreadPort(t)
            /\ expected <= block[t] + 1
  <1>1. PICK t \in Threads : cport' = ThreadPort(t) /\ ClientSource = ThreadPort(t)
                             /\ CarriesBlock(t, ClientPacket)
    BY DataFacts
  <1>2. ClientPacket.op = DATA
    BY DEF DataReceived
  <1>3. Received(ClientPort) \in InQueue(inbox[ClientPort])
    BY RecvfromFacts, PortFacts DEF IInv, TypeOK, DataReceived, ClientReceives
  <1>4. NtohsBlock(ClientPacket) <= block[t]
    BY <1>1, <1>2, <1>3 DEF InStep, ClientPacket, ClientSource
  <1>5. cport = 0 \/ cport = ThreadPort(t)
    BY <1>1 DEF DataReceived, FromServer
  <1>6. expected <= block[t] + 1
    <2>1. CASE cport = 0
      <3>1. expected = 1 /\ block[t] \in 0 .. half
        BY <2>1 DEF IInv, ClientState, InStep, Alone
      <3> QED
        BY <3>1, PacketAssumption DEF half
    <2>2. CASE cport = ThreadPort(t)
      BY <2>2 DEF InStep
    <2> QED
      BY <1>5, <2>1, <2>2
  <1> QED
    BY <1>1, <1>4, <1>5, <1>6

\* What the client's ACK adds to the queues.
LEMMA AckSent ==
  ASSUME IInv, ClientReceives, NEW b \in UInt16, NEW dst, dst # ClientPort
  PROVE  LET q == clientSend(recvfrom(ClientPort), dst, createACKPacket(b)) IN
         /\ q \in [Ports -> Seq(Datagrams)]
         /\ \A t \in Threads : \A d \in InQueue(q[ThreadPort(t)]) :
               d \in InQueue(inbox[ThreadPort(t)]) \/ NtohsBlock(d.pkt) = b
         /\ InQueue(q[ClientPort]) \subseteq InQueue(inbox[ClientPort])
  <1> DEFINE q == clientSend(recvfrom(ClientPort), dst, createACKPacket(b))
             pkt == createACKPacket(b)
  <1>1. pkt \in Packets /\ NtohsBlock(pkt) = b
    BY PacketTypes, WireRoundTrip DEF createACKPacket
  <1>2. /\ recvfrom(ClientPort) \in [Ports -> Seq(Datagrams)]
        /\ \A p \in Ports : InQueue(recvfrom(ClientPort)[p]) \subseteq InQueue(inbox[p])
    BY RecvfromFacts, PortFacts DEF IInv, TypeOK, ClientReceives
  <1>3. Open \in SUBSET Ports /\ ClientPort \in Ports /\ ClientPort \in Ports \cup {0}
    BY PortFacts
  <1> HIDE DEF pkt
  <1>4. q = sendto(recvfrom(ClientPort), Open, ClientPort, dst, pkt)
    BY DEF clientSend, pkt
  <1> HIDE DEF q
  <1>5. /\ q \in [Ports -> Seq(Datagrams)]
        /\ \A p \in Ports : InQueue(q[p]) \subseteq
              InQueue(recvfrom(ClientPort)[p]) \cup {[src |-> ClientPort, pkt |-> pkt]}
    BY <1>1, <1>2, <1>3, <1>4, SendtoFacts
  <1>6. q[ClientPort] = recvfrom(ClientPort)[ClientPort]
    BY <1>1, <1>2, <1>3, <1>4, SendtoElsewhere
  <1>7. ASSUME NEW t \in Threads, NEW d \in InQueue(q[ThreadPort(t)])
        PROVE  d \in InQueue(inbox[ThreadPort(t)]) \/ NtohsBlock(d.pkt) = b
    <2>1. ThreadPort(t) \in Ports
      BY PortFacts
    <2> QED
      BY <1>1, <1>2, <1>5, <2>1, <1>7
  <1> QED
    BY <1>2, <1>3, <1>5, <1>6, <1>7 DEF q

LEMMA MismatchInStep ==
  ASSUME IInv, InStep, BlockMismatch
  PROVE  InStep'
  <1>1. SUFFICES ASSUME Alone' PROVE InStep'
    BY DEF InStep
  <1>2. Alone /\ expected' = expected /\ UNCHANGED <<block, tpc>>
    BY <1>1 DEF Alone, BlockMismatch, threadVars
  <1>3. PICK t \in Threads : cport' = ThreadPort(t) /\ ClientSource = ThreadPort(t)
                             /\ expected <= block[t] + 1
    BY <1>2, DataInStep DEF BlockMismatch
  <1>4. expected \in 1 .. half + 1 /\ expected \in UInt16 /\ expected # 0
    BY <1>2, PacketAssumption DEF InStep, IInv, TypeOK, half
  <1>5. Dec16(expected) = expected - 1 /\ Dec16(expected) \in UInt16
        /\ Dec16(expected) < expected
    BY <1>4, Counter16, PacketAssumption DEF half
  <1>6. inbox' = clientSend(recvfrom(ClientPort), ClientSource, createACKPacket(Dec16(expected)))
        /\ ClientReceives /\ ClientSource # ClientPort
    BY <1>3, PortFacts DEF BlockMismatch, DataReceived
  <1>7. /\ \A u \in Threads : \A d \in InQueue(inbox'[ThreadPort(u)]) :
              d \in InQueue(inbox[ThreadPort(u)]) \/ NtohsBlock(d.pkt) = Dec16(expected)
        /\ InQueue(inbox'[ClientPort]) \subseteq InQueue(inbox[ClientPort])
    BY <1>5, <1>6, AckSent
  <1>8. ASSUME NEW u \in Threads
        PROVE  /\ block[u] \in 0 .. half /\ block[u] <= expected
               /\ tpc[u] \in {"free", "bind", "start"} => block[u] = 0
               /\ \A d \in InQueue(inbox'[ThreadPort(u)]) :
                     d.pkt.op = ACK => NtohsBlock(d.pkt) < expected
               /\ \A d \in InQueue(inbox'[ClientPort]) :
                     d.src = ThreadPort(u) /\ d.pkt.op = DATA => NtohsBlock(d.pkt) <= block[u]
               /\ cport' = ThreadPort(u) => expected <= block[u] + 1
    BY <1>2, <1>3, <1>5, <1>7, PortFacts DEF InStep
  <1> QED
    BY <1>2, <1>4, <1>8 DEF InStep

LEMMA StoredInStep ==
  ASSUME IInv, InStep, BlockStored
  PROVE  InStep'
  <1>1. SUFFICES ASSUME Alone' PROVE InStep'
    BY DEF InStep
  <1>2. Alone /\ expected' = Inc16(expected) /\ UNCHANGED <<block, tpc>>
    BY <1>1 DEF Alone, BlockStored, DataReceived, ClientReceives, threadVars
  <1>3. PICK t \in Threads : cport' = ThreadPort(t) /\ expected <= block[t]
    <2>1. NtohsBlock(ClientPacket) = expected
      BY DEF BlockStored, ExpectedBlock
    <2> QED
      BY <1>2, <2>1, DataInStep DEF BlockStored
  <1>4. half \in Nat /\ half > 3 /\ half + 2 < U16 /\ U16 \in Nat
    <2>1. ByteMod \in Nat /\ ByteMod > 7 /\ half \in Nat /\ half > 3 /\ 2 * half <= ByteMod
      BY PacketAssumption DEF half
    <2>2. ByteMod * ByteMod >= 8 * ByteMod
      BY <2>1
    <2> QED
      BY <2>1, <2>2 DEF U16
  <1>5. expected \in 1 .. half /\ expected \in UInt16
    BY <1>2, <1>3, <1>4 DEF InStep, IInv, TypeOK
  <1>6. expected' = expected + 1
    BY <1>2, <1>4, <1>5 DEF Inc16
  <1>7. ackTo # ClientPort
    BY SessionsAssumption, PortFacts DEF IInv, TypeOK
  <1>8. inbox' = clientSend(recvfrom(ClientPort), ackTo, createACKPacket(expected))
        /\ ClientReceives
    BY <1>1 DEF BlockStored, DataReceived, ClientReturns, Alone
  <1>9. /\ \A u \in Threads : \A d \in InQueue(inbox'[ThreadPort(u)]) :
              d \in InQueue(inbox[ThreadPort(u)]) \/ NtohsBlock(d.pkt) = expected
        /\ InQueue(inbox'[ClientPort]) \subseteq InQueue(inbox[ClientPort])
    BY <1>5, <1>7, <1>8, AckSent
  <1>10. ASSUME NEW u \in Threads
         PROVE  /\ block[u] \in 0 .. half /\ block[u] <= expected'
                /\ tpc[u] \in {"free", "bind", "start"} => block[u] = 0
                /\ \A d \in InQueue(inbox'[ClientPort]) :
                      d.src = ThreadPort(u) /\ d.pkt.op = DATA => NtohsBlock(d.pkt) <= block[u]
                /\ cport' = ThreadPort(u) => expected' <= block[u] + 1
    <2>1. block[u] \in 0 .. half /\ block[u] <= expected
      BY <1>2 DEF InStep
    <2>2. block[u] <= expected'
      BY <2>1, <1>4, <1>5, <1>6
    <2>3. cport' = ThreadPort(u) => expected' <= block[u] + 1
      <3>1. cport' = ThreadPort(u) => u = t
        BY <1>3, PortFacts
      <3>2. t = u => expected + 1 <= block[u] + 1
        BY <2>1, <1>3, <1>4, <1>5
      <3> QED
        BY <3>1, <3>2, <1>6
    <2> QED
      BY <1>2, <1>9, <2>1, <2>2, <2>3 DEF InStep
  <1>11. ASSUME NEW u \in Threads, NEW d \in InQueue(inbox'[ThreadPort(u)]), d.pkt.op = ACK
         PROVE  NtohsBlock(d.pkt) < expected'
    <2>1. CASE d \in InQueue(inbox[ThreadPort(u)])
      <3>1. NtohsBlock(d.pkt) < expected
        BY <1>2, <1>11, <2>1 DEF InStep
      <3>2. d.pkt \in Packets
        <4>1. inbox[ThreadPort(u)] \in Seq(Datagrams)
          BY PortFacts DEF IInv, TypeOK
        <4>2. d \in Datagrams
          BY <2>1, <4>1, QueueContents
        <4> QED
          BY <4>2 DEF Datagrams
      <3>3. NtohsBlock(d.pkt) \in Int
        <4>1. d.pkt.hi \in Int /\ d.pkt.lo \in Int
          BY <3>2, PacketAssumption DEF Packets
        <4> QED
          BY <4>1, PacketAssumption DEF NtohsBlock
      <3> QED
        BY <3>1, <3>3, <1>5, <1>6
    <2>2. CASE NtohsBlock(d.pkt) = expected
      BY <2>2, <1>5, <1>6
    <2> QED
      BY <1>9, <1>11, <2>1, <2>2
  <1> QED
    BY <1>2, <1>4, <1>5, <1>6, <1>10, <1>11 DEF InStep

LEMMA LookupInStep ==
  ASSUME IInv, InStep, NEW t \in Threads, ReadLookup(t)
  PROVE  InStep'
  <1>1. SUFFICES ASSUME Alone' PROVE InStep'
    BY DEF InStep
  <1>2. /\ Alone /\ UNCHANGED <<expected, cport, inbox>> /\ tpc[t] = "start"
        /\ block' = [block EXCEPT ![t] = 1] /\ tpc' = [tpc EXCEPT ![t] = "acqGet"]
    BY <1>1 DEF Alone, ReadLookup, ThreadAt, Goto, clientVars, netVars
  <1>3. half \in Nat /\ half > 3 /\ block \in [Threads -> UInt16] /\ expected \in 1 .. half + 1
    BY <1>2, PacketAssumption DEF half, IInv, TypeOK, InStep
  <1>4. block[t] = 0
    BY <1>2 DEF InStep
  <1>5. block'[t] = 1 /\ tpc'[t] = "acqGet"
        /\ \A u \in Threads : u # t => block'[u] = block[u] /\ tpc'[u] = tpc[u]
    BY <1>2, <1>3 DEF IInv, TypeOK
  <1>6. ASSUME NEW u \in Threads
        PROVE  /\ block'[u] \in 0 .. half /\ block'[u] <= expected
               /\ tpc'[u] \in {"free", "bind", "start"} => block'[u] = 0
               /\ cport = ThreadPort(u) => expected <= block'[u] + 1
    <2>1. CASE u = t
      <3>1. cport = ThreadPort(t) => expected <= 0 + 1
        BY <1>2, <1>4 DEF InStep
      <3> QED
        BY <2>1, <3>1, <1>3, <1>5
    <2>2. CASE u # t
      BY <2>2, <1>2, <1>5 DEF InStep
    <2> QED
      BY <2>1, <2>2
  <1>7. ASSUME NEW u \in Threads, NEW d \in InQueue(inbox[ClientPort]),
               d.src = ThreadPort(u), d.pkt.op = DATA
        PROVE  NtohsBlock(d.pkt) <= block'[u]
    <2>1. NtohsBlock(d.pkt) <= block[u]
      BY <1>2, <1>7 DEF InStep
    <2>2. CarriesBlock(u, d.pkt)
      <3>1. ClientDatagram(d)
        BY <1>7 DEF IInv, ClientQueue
      <3> QED
        BY <3>1, <1>7, PortFacts DEF ClientDatagram, DATA, ERROR
    <2>3. u # t
      <3>1. SUFFICES ASSUME u = t PROVE FALSE
        OBVIOUS
      <3>2. NtohsBlock(d.pkt) \in 1 .. (U16 - 1)
        BY <2>2 DEF CarriesBlock
      <3> QED
        BY <3>1, <3>2, <2>1, <1>4
    <2> QED
      BY <2>1, <2>3, <1>5
  <1>8. \A u \in Threads : \A d \in InQueue(inbox[ThreadPort(u)]) :
           d.pkt.op = ACK => NtohsBlock(d.pkt) < expected
    BY <1>2 DEF InStep
  <1> QED
    BY <1>2, <1>3, <1>6, <1>7, <1>8 DEF InStep

LEMMA SendInStep ==
  ASSUME IInv, InStep, NEW t \in Threads, SendBlock(t)
  PROVE  InStep'
  <1> DEFINE pkt == createDataPacket(block[t], CurrentBlock(t))
  <1>1. /\ UNCHANGED <<clientVars, block, requests>> /\ tpc[t] = "send"
        /\ (Goto(t, "relGet") \/ Goto(t, "wait"))
        /\ (inbox' = inbox \/ (CurrentBlock(t) # <<>> /\ inbox' = threadSend(inbox, t, pkt)))
    BY DEF SendBlock, ThreadAt
  <1>2. SUFFICES ASSUME Alone' PROVE InStep'
    BY DEF InStep
  <1>3. Alone /\ expected' = expected /\ cport' = cport /\ block' = block
    BY <1>1, <1>2 DEF Alone, clientVars
  <1>4. block \in [Threads -> UInt16] /\ expected \in 1 .. half + 1 /\ inbox \in [Ports -> Seq(Datagrams)]
    BY <1>3 DEF IInv, TypeOK, InStep
  <1>5. \A u \in Threads : tpc'[u] \in {"free", "bind", "start"} => tpc[u] \in {"free", "bind", "start"}
    BY <1>1 DEF Goto, IInv, TypeOK
  <1>6. /\ \A u \in Threads : inbox'[ThreadPort(u)] = inbox[ThreadPort(u)]
        /\ \A d \in InQueue(inbox'[ClientPort]) :
              \/ d \in InQueue(inbox[ClientPort])
              \/ (d.src = ThreadPort(t) /\ NtohsBlock(d.pkt) = block[t])
    <2>1. CASE inbox' = inbox
      BY <2>1
    <2>2. CASE CurrentBlock(t) # <<>> /\ inbox' = threadSend(inbox, t, pkt)
      <3>1. CurrentBlock(t) \in Seq(Byte)
        <4>1. block[t] \in Nat
          BY <1>4, U16Type DEF UInt16
        <4>2. block[t] > 0
          BY <2>2, <4>1 DEF CurrentBlock, readDataBlock
        <4> QED
          BY <2>2, <4>1, <4>2, FileBytesType, BlockTiling DEF CurrentBlock, IInv
      <3>2. pkt \in Packets /\ NtohsBlock(pkt) = block[t]
        <4>1. block[t] \in UInt16
          BY <1>4
        <4> QED
          BY <3>1, <4>1, PacketTypes, WireRoundTrip DEF createDataPacket
      <3> HIDE DEF pkt
      <3>3. Open \in SUBSET Ports /\ ThreadPort(t) \in Ports \cup {0} /\ ClientPort \in Ports
        BY PortFacts
      <3>4. InQueue(inbox'[ClientPort])
              \subseteq InQueue(inbox[ClientPort]) \cup {[src |-> ThreadPort(t), pkt |-> pkt]}
        BY <2>2, <3>2, <3>3, <1>4, SendtoFacts DEF threadSend
      <3>5. \A u \in Threads : inbox'[ThreadPort(u)] = inbox[ThreadPort(u)]
        <4>1. ASSUME NEW u \in Threads
              PROVE  sendto(inbox, Open, ThreadPort(t), ClientPort, pkt)[ThreadPort(u)]
                       = inbox[ThreadPort(u)]
          <5>1. ThreadPort(u) \in Ports /\ ThreadPort(u) # ClientPort
            BY PortFacts
          <5> QED
            BY <1>4, <5>1 DEF sendto
        <4> QED
          BY <2>2, <4>1 DEF threadSend
      <3> QED
        BY <3>2, <3>4, <3>5
    <2> QED
      BY <1>1, <2>1, <2>2
  <1>7. ASSUME NEW u \in Threads, NEW d \in InQueue(inbox'[ClientPort]),
               d.src = ThreadPort(u), d.pkt.op = DATA
        PROVE  NtohsBlock(d.pkt) <= block[u]
    <2>1. CASE d \in InQueue(inbox[ClientPort])
      BY <2>1, <1>3, <1>7 DEF InStep
    <2>2. CASE d.src = ThreadPort(t) /\ NtohsBlock(d.pkt) = block[t]
      <3>1. u = t
        BY <2>2, <1>7, PortFacts
      <3>2. block[t] \in Int
        BY <1>3 DEF InStep
      <3> QED
        BY <2>2, <3>1, <3>2
    <2> QED
      BY <1>6, <1>7, <2>1, <2>2
  <1>8. ASSUME NEW u \in Threads
        PROVE  /\ block[u] \in 0 .. half /\ block[u] <= expected
               /\ tpc'[u] \in {"free", "bind", "start"} => block[u] = 0
               /\ \A d \in InQueue(inbox'[ThreadPort(u)]) :
                     d.pkt.op = ACK => NtohsBlock(d.pkt) < expected
               /\ cport = ThreadPort(u) => expected <= block[u] + 1
    BY <1>3, <1>5, <1>6 DEF InStep
  <1> QED
    BY <1>3, <1>4, <1>7, <1>8 DEF InStep

\* The ACK that lets a thread go on numbers a block the client has stored.
LEMMA AckInStep ==
  ASSUME IInv, InStep, NEW t \in Threads, AckAccepted(t)
  PROVE  InStep'
  <1>1. /\ UNCHANGED <<clientVars, requests>> /\ inbox[ThreadPort(t)] # <<>>
        /\ (Goto(t, "relGet") \/ Goto(t, "send"))
        /\ inbox' = recvfrom(ThreadPort(t))
        /\ block' = block \/ block' = [block EXCEPT ![t] = Inc16(block[t])]
        /\ AckOf(t).op = ACK /\ CharBlock(AckOf(t)) = block[t]
    BY DEF AckAccepted, ThreadReceives, GoodAck
  <1>2. SUFFICES ASSUME Alone' PROVE InStep'
    BY DEF InStep
  <1>3. Alone /\ expected' = expected /\ cport' = cport
    BY <1>1, <1>2 DEF Alone, clientVars
  <1>4. /\ Received(ThreadPort(t)) \in InQueue(inbox[ThreadPort(t)])
        /\ Received(ThreadPort(t)) \in Datagrams
        /\ \A p \in Ports : InQueue(inbox'[p]) \subseteq InQueue(inbox[p])
    BY <1>1, RecvfromFacts, PortFacts DEF IInv, TypeOK
  <1>5. AckOf(t) \in Packets /\ NtohsBlock(AckOf(t)) < expected
    BY <1>1, <1>3, <1>4 DEF AckOf, Datagrams, InStep
  <1>6. block \in [Threads -> UInt16] /\ expected \in 1 .. half + 1 /\ block[t] \in 0 .. half
    BY <1>3 DEF IInv, TypeOK, InStep
  <1>7. block[t] < half /\ block[t] < expected /\ half \in Nat /\ half + 2 < U16 /\ U16 \in Nat
    <2>1. half \in Int
      BY PacketAssumption DEF half
    <2>2. CharBlock(AckOf(t)) <= half
      BY <1>1, <1>6, <2>1
    <2> QED
      BY <1>1, <1>5, <2>2, CharBlockBelowHalf, U16Type
  <1>8. Inc16(block[t]) = block[t] + 1
    BY <1>6, <1>7 DEF Inc16
  <1>9. \A u \in Threads : tpc'[u] \in {"free", "bind", "start"} => tpc[u] \in {"free", "bind", "start"}
                           /\ u # t
    BY <1>1 DEF Goto, IInv, TypeOK
  <1>10. ASSUME NEW u \in Threads
         PROVE  /\ block'[u] \in Int /\ block[u] \in Int /\ block[u] <= block'[u]
                /\ block'[u] \in 0 .. half /\ block'[u] <= expected
                /\ tpc'[u] \in {"free", "bind", "start"} => block'[u] = 0
    <2>1. block[u] \in 0 .. half /\ block[u] <= expected
          /\ (tpc[u] \in {"free", "bind", "start"} => block[u] = 0)
      BY <1>3 DEF InStep
    <2>2. CASE u = t /\ block' # block
      <3>1. block'[t] = block[t] + 1
        BY <2>2, <1>1, <1>6, <1>8
      <3> QED
        BY <2>2, <3>1, <1>6, <1>7, <1>9
    <2>3. CASE u # t \/ block' = block
      <3>1. block'[u] = block[u]
        BY <2>3, <1>1, <1>6
      <3> QED
        BY <3>1, <2>1, <1>9
    <2> QED
      BY <2>2, <2>3
  <1>11. ASSUME NEW u \in Threads
         PROVE  /\ \A d \in InQueue(inbox'[ThreadPort(u)]) :
                     d.pkt.op = ACK => NtohsBlock(d.pkt) < expected
                /\ cport = ThreadPort(u) => expected <= block'[u] + 1
    <2>1. ThreadPort(u) \in Ports
      BY PortFacts
    <2>2. cport = ThreadPort(u) => expected <= block[u] + 1
      BY <1>3 DEF InStep
    <2>3. cport = ThreadPort(u) => expected <= block'[u] + 1
      BY <2>2, <1>6, <1>7, <1>10
    <2> QED
      BY <2>1, <2>3, <1>3, <1>4 DEF InStep
  <1>12. ASSUME NEW u \in Threads, NEW d \in InQueue(inbox'[ClientPort]),
                d.src = ThreadPort(u), d.pkt.op = DATA
         PROVE  NtohsBlock(d.pkt) <= block'[u]
    <2>1. d \in InQueue(inbox[ClientPort])
      BY <1>4, <1>12, PortFacts
    <2>2. NtohsBlock(d.pkt) <= block[u]
      BY <2>1, <1>3, <1>12 DEF InStep
    <2>3. NtohsBlock(d.pkt) \in Int
      <3>1. inbox[ClientPort] \in Seq(Datagrams)
        BY PortFacts DEF IInv, TypeOK
      <3>2. d.pkt \in Packets
        <4>1. d \in Datagrams
          BY <2>1, <3>1, QueueContents
        <4> QED
          BY <4>1 DEF Datagrams
      <3>3. d.pkt.hi \in Int /\ d.pkt.lo \in Int
        BY <3>2, PacketAssumption DEF Packets
      <3> QED
        BY <3>3, PacketAssumption DEF NtohsBlock
    <2> QED
      BY <2>2, <2>3, <1>10
  <1> QED
    BY <1>3, <1>6, <1>10, <1>11, <1>12 DEF InStep

---------------------------------------------------------------------------
(* The steps that send no block and no ACK.                                *)

LEMMA ErrorQuiet ==
  \A c \in 0 .. 7 : createErrorPacket(c) \in Packets
                    /\ createErrorPacket(c).op \notin {DATA, ACK}
  <1>1. \A c \in 0 .. 7 : createErrorPacket(c) \in Packets /\ createErrorPacket(c).op = ERROR
    BY PacketTypes
  <1> QED
    BY <1>1 DEF ERROR, DATA, ACK

\* The queues as they are, and after one recvfrom.
LEMMA InboxQuiet ==
  ASSUME IInv
  PROVE  /\ inbox \in [Ports -> Seq(Datagrams)]
         /\ \A p \in Ports : InQueue(inbox[p]) \subseteq InQueue(inbox[p])
         /\ \A port \in Ports : inbox[port] # <<>> =>
               /\ recvfrom(port) \in [Ports -> Seq(Datagrams)]
               /\ \A p \in Ports : InQueue(recvfrom(port)[p]) \subseteq InQueue(inbox[p])
  BY RecvfromFacts DEF IInv, TypeOK

LEMMA ClientQuiet ==
  ASSUME IInv, InStep, UnknownTid \/ ErrorReceived \/ StoreFails \/ ClientTimeout
  PROVE  InStep'
  <1> DEFINE q == recvfrom(ClientPort)
  <1>1. ClientReceives =>
           /\ q \in [Ports -> Seq(Datagrams)]
           /\ \A p \in Ports : InQueue(q[p]) \subseteq InQueue(inbox[p])
    BY InboxQuiet, PortFacts DEF ClientReceives
  <1>2. /\ Open \in SUBSET Ports /\ ClientPort \in Ports /\ ClientPort \in Ports \cup {0}
        /\ createErrorPacket(UNKNOWN_TID) \in Packets
        /\ createErrorPacket(UNKNOWN_TID).op \notin {DATA, ACK}
        /\ createErrorPacket(DISK_FULL) \in Packets
        /\ createErrorPacket(DISK_FULL).op \notin {DATA, ACK}
    BY PortFacts, ErrorQuiet DEF UNKNOWN_TID, DISK_FULL
  <1> HIDE DEF q
  <1>3. CASE UnknownTid
    <2>1. ClientReceives /\ inbox' = sendto(q, Open, ClientPort, ClientSource,
                                            createErrorPacket(UNKNOWN_TID))
      BY <1>3 DEF UnknownTid, clientSend, q
    <2>2. QuietQueues
      BY <1>1, <1>2, <2>1, QuietSend
    <2> QED
      BY <1>3, <2>2, QuietStep DEF UnknownTid, threadVars
  <1>4. CASE ErrorReceived
    <2>1. ClientReceives /\ inbox' = closeSocket(q, ClientPort) /\ cpc' = "fail"
      BY <1>4 DEF ErrorReceived, ClientReturns, q
    <2>2. QuietQueues
      BY <1>1, <1>2, <2>1, QuietSend
    <2> QED
      BY <1>4, <2>1, <2>2, QuietStep DEF ErrorReceived, threadVars
  <1>5. CASE StoreFails
    <2>1. /\ ClientReceives /\ cpc' = "fail"
          /\ inbox' = closeSocket(sendto(q, Open, ClientPort, ClientSource,
                                         createErrorPacket(DISK_FULL)), ClientPort)
      BY <1>5 DEF StoreFails, DataReceived, ClientReturns, clientSend, q
    <2>2. QuietQueues
      BY <1>1, <1>2, <2>1, QuietSend
    <2> QED
      BY <1>5, <2>1, <2>2, QuietStep DEF StoreFails, threadVars
  <1>6. CASE ClientTimeout
    <2>1. inbox' = inbox \/ (inbox' = closeSocket(inbox, ClientPort) /\ cpc' = "fail")
      BY <1>6 DEF ClientTimeout, ClientReturns
    <2>2. QuietQueues
      BY <1>2, <2>1, InboxQuiet, QuietSend
    <2>3. cpc' = "run" => cpc = "run"
      BY <1>6 DEF ClientTimeout
    <2> QED
      BY <1>6, <2>2, <2>3, QuietStep DEF ClientTimeout, threadVars
  <1> QED
    BY <1>3, <1>4, <1>5, <1>6

LEMMA ListenerQuiet ==
  ASSUME IInv, InStep, ListenerStep
  PROVE  InStep'
  <1> DEFINE q == recvfrom(ServerPort)  src == Received(ServerPort).src
  <1>1. /\ q \in [Ports -> Seq(Datagrams)]
        /\ \A p \in Ports : InQueue(q[p]) \subseteq InQueue(inbox[p])
    BY InboxQuiet, PortFacts
    DEF ListenerStep, Listen, ListenBadMode, ListenBadOpcode, ListenerReceives
  <1>2. /\ Open \in SUBSET Ports /\ ServerPort \in Ports \cup {0}
        /\ createErrorPacket(ILLEGAL_TFTP_OPERATION) \in Packets
        /\ createErrorPacket(ILLEGAL_TFTP_OPERATION).op \notin {DATA, ACK}
    BY PortFacts, ErrorQuiet DEF ILLEGAL_TFTP_OPERATION
  <1>3. inbox' = q \/ inbox' = sendto(q, Open, ServerPort, src,
                                      createErrorPacket(ILLEGAL_TFTP_OPERATION))
    BY DEF ListenerStep, Listen, ListenBadMode, ListenBadOpcode, ListenerRejects
  <1>4. QuietQueues
    <2> HIDE DEF q, src
    <2> QED
      BY <1>1, <1>2, <1>3, QuietSend
  <1>5. \A t \in Threads : tpc'[t] \in {"free", "bind", "start"}
                              => tpc[t] \in {"free", "bind", "start"}
    <2>1. ASSUME Listen, NEW t \in Threads, tpc'[t] \in {"free", "bind", "start"}
          PROVE  tpc[t] \in {"free", "bind", "start"}
      <3>1. t = nextId => tpc[t] = "free"
        BY DEF IInv, ThreadState, TypeOK, Threads
      <3>2. t # nextId => tpc'[t] = tpc[t]
        BY <2>1 DEF Listen, IInv, TypeOK
      <3> QED
        BY <2>1, <3>1, <3>2
    <2>2. CASE ~Listen
      BY <2>2 DEF ListenerStep, ListenBadMode, ListenBadOpcode, threadVars
    <2> QED
      BY <2>1, <2>2
  <1>6. requests' = requests /\ UNCHANGED <<clientVars, block>>
    BY DEF ListenerStep, Listen, ListenBadMode, ListenBadOpcode, threadVars
  <1> QED
    BY <1>4, <1>5, <1>6, QuietStep DEF clientVars

\* The steps of a thread that leave its block alone.
LEMMA ThreadQuiet ==
  ASSUME IInv, InStep, NEW t \in Threads,
         \/ Bind(t) \/ ReadNotFound(t) \/ CountReader(t)
         \/ AckRejected(t) \/ AckTimeout(t) \/ DropReader(t)
  PROVE  InStep'
  <1>1. requests' = requests /\ UNCHANGED <<clientVars, block>>
    BY DEF Bind, ReadNotFound, CountReader, DropReader, AckRejected, AckTimeout,
           ThreadTimeout, MapGet, MapErase, MapEraseAborts, MapInsert, threadVars
  <1>2. \A u \in Threads : tpc'[u] \in {"free", "bind", "start"}
                              => tpc[u] \in {"free", "bind", "start"}
    <2>1. \/ tpc' = tpc
          \/ tpc[t] \in {"bind", "start"} /\ \E l \in {"start", "done"} : Goto(t, l)
          \/ \E l \in {"acqErase", "acqInsert", "send", "relGet", "relErase", "relInsert",
                       "done"} : Goto(t, l)
      BY DEF Bind, ReadNotFound, CountReader, DropReader, AckRejected, AckTimeout, ThreadAt,
             ThreadTimeout, MapGet, MapErase, MapEraseAborts, MapInsert, ThreadReturns, threadVars
    <2> QED
      BY <2>1 DEF Goto, IInv, TypeOK
  <1> DEFINE port == ThreadPort(t)  q == recvfrom(port)
  <1>3. Open \in SUBSET Ports /\ port \in Ports /\ port \in Ports \cup {0}
    BY PortFacts
  <1>4. /\ createErrorPacket(FILE_NOT_FOUND) \in Packets
        /\ createErrorPacket(FILE_NOT_FOUND).op \notin {DATA, ACK}
        /\ createErrorPacket(ACCESS_VIOLATION) \in Packets
        /\ createErrorPacket(ACCESS_VIOLATION).op \notin {DATA, ACK}
    BY ErrorQuiet DEF FILE_NOT_FOUND, ACCESS_VIOLATION
  <1>5. QuietQueues
    <2>1. CASE inbox' = inbox
      BY <2>1 DEF QuietQueues
    <2>2. CASE ReadNotFound(t)
      <3>1. inbox' = closeSocket(sendto(inbox, Open, port, ClientPort,
                                        createErrorPacket(FILE_NOT_FOUND)), port)
        BY <2>2 DEF ReadNotFound, ThreadReturns, threadSend
      <3> HIDE DEF port
      <3> QED
        BY <1>3, <1>4, <3>1, InboxQuiet, QuietSend
    <2>3. CASE AckRejected(t)
      <3>1. inbox' = sendto(q, Open, port, ClientPort, createErrorPacket(ACCESS_VIOLATION))
            /\ inbox[port] # <<>>
        BY <2>3 DEF AckRejected, ThreadReceives, threadSend
      <3>2. /\ q \in [Ports -> Seq(Datagrams)]
            /\ \A p \in Ports : InQueue(q[p]) \subseteq InQueue(inbox[p])
        BY <1>3, <3>1, InboxQuiet
      <3> HIDE DEF port, q
      <3> QED
        BY <1>3, <1>4, <3>1, <3>2, QuietSend
    <2>4. CASE inbox' = closeSocket(inbox, port)
      <3> HIDE DEF port
      <3> QED
        BY <1>3, <1>4, <2>4, InboxQuiet, QuietSend
    <2>5. CASE up' = FALSE /\ inbox' = [p \in Ports |-> IF p = ClientPort THEN inbox[p] ELSE <<>>]
      BY <2>5 DEF QuietQueues, InQueue
    <2> QED
      BY <2>1, <2>2, <2>3, <2>4, <2>5
      DEF Bind, CountReader, DropReader, AckTimeout, ThreadTimeout, MapGet, MapErase,
          MapEraseAborts, MapInsert, ThreadReturns, netVars
  <1> QED
    BY <1>1, <1>2, <1>5, QuietStep DEF clientVars

LEMMA LoseQuiet ==
  ASSUME IInv, InStep, Lose
  PROVE  InStep'
  <1>1. PICK port \in Ports : inbox[port] # <<>> /\ inbox' = recvfrom(port)
    BY DEF Lose, NetLose
  <1>2. QuietQueues
    BY <1>1, InboxQuiet DEF QuietQueues
  <1> QED
    BY <1>2, QuietStep DEF Lose, clientVars, threadVars

---------------------------------------------------------------------------
(* Before the first request, and all together.                             *)

LEMMA FreshNext ==
  ASSUME IInv, Fresh, [Next]_vars
  PROVE  Fresh'
  <1>1. SUFFICES ASSUME requests' = 0 PROVE Fresh'
    BY DEF Fresh
  <1>2. requests \in Nat
    BY LoopbackAssumption DEF IInv, TypeOK
  <1>3. ~ \E f \in Names : StartRead(f) \/ DebugRequest(f)
    <2>1. ~ \E f \in Names : StartRead(f)
      <3>1. ASSUME NEW f \in Names, StartRead(f) PROVE requests' = requests + 1
        BY <3>1 DEF StartRead, StartClient
      <3> QED
        BY <1>1, <1>2, <3>1
    <2>2. ~ \E f \in Names : DebugRequest(f)
      BY <1>1, <1>2 DEF DebugRequest
    <2> QED
      BY <2>1, <2>2
  <1>4. requests = 0
    BY <1>1, <1>3
    DEF Next, ReadClientStep, UnknownTid, ErrorReceived, BlockMismatch, BlockStored, StoreFails,
        ClientTimeout, ListenerStep, Listen, ListenBadMode, ListenBadOpcode, ReadThreadStep,
        Bind, ReadLookup, ReadNotFound, CountReader, DropReader, SendBlock, AckAccepted,
        AckRejected, AckTimeout, ThreadTimeout, MapGet, MapErase, MapEraseAborts, MapInsert,
        Lose, vars
  <1>5. /\ cpc # "run"
        /\ \A t \in Threads : tpc[t] = "free" /\ block[t] = 0
        /\ \A p \in Ports : inbox[p] = <<>>
    BY <1>4 DEF Fresh
  <1>6. ~ ReadClientStep
    BY <1>5 DEF ReadClientStep, UnknownTid, ErrorReceived, BlockMismatch, BlockStored,
                StoreFails, ClientTimeout, ClientReceives, DataReceived
  <1>7. ~ ListenerStep
    BY <1>5, PortFacts DEF ListenerStep, Listen, ListenBadMode, ListenBadOpcode, ListenerReceives
  <1>8. ~ \E t \in Threads : ReadThreadStep(t)
    BY <1>5 DEF ReadThreadStep, Bind, ReadLookup, ReadNotFound, CountReader, DropReader,
                SendBlock, AckAccepted, AckRejected, AckTimeout, ThreadTimeout, MapGet, MapErase,
                MapEraseAborts, MapInsert, ThreadAt, ThreadReceives
  <1>9. ~ Lose
    BY <1>5 DEF Lose, NetLose
  <1> QED
    BY <1>3, <1>6, <1>7, <1>8, <1>9, <1>5
    DEF Next, Fresh, vars, clientVars, threadVars, netVars

LEMMA InStepNext ==
  ASSUME IInv, Fresh, InStep, [Next]_vars
  PROVE  InStep'
  <1>1. CASE \E f \in Names : StartRead(f)
    BY <1>1, StartInStep
  <1>2. CASE \E f \in Names : DebugRequest(f)
    <2>1. requests \in Nat /\ requests' = requests + 1 /\ cpc' = cpc
      BY <1>2, LoopbackAssumption DEF DebugRequest, IInv, TypeOK, clientVars
    <2>2. ~ Alone'
      BY <2>1 DEF Fresh, Alone
    <2> QED
      BY <2>2 DEF InStep
  <1>3. CASE ReadClientStep
    BY <1>3, ClientQuiet, MismatchInStep, StoredInStep DEF ReadClientStep
  <1>4. CASE ListenerStep
    BY <1>4, ListenerQuiet
  <1>5. CASE \E t \in Threads : ReadThreadStep(t)
    BY <1>5, ThreadQuiet, LookupInStep, SendInStep, AckInStep DEF ReadThreadStep
  <1>6. CASE Lose
    BY <1>6, LoseQuiet
  <1>7. CASE UNCHANGED vars
    BY <1>7 DEF vars, clientVars, threadVars, netVars, InStep, Alone
  <1> QED
    BY <1>1, <1>2, <1>3, <1>4, <1>5, <1>6, <1>7 DEF Next

LEMMA LockStepHolds == IInv /\ InStep => LockStep
  <1> SUFFICES ASSUME IInv, InStep, NEW t \in Threads,
                      requests = 1, cpc = "run", cport = ThreadPort(t)
               PROVE  block[t] \in {Dec16(expected), expected}
    BY DEF LockStep
  <1>1. /\ expected \in 1 .. half + 1 /\ block[t] \in 0 .. half
        /\ block[t] <= expected /\ expected <= block[t] + 1
    BY DEF InStep, Alone
  <1>2. expected \in UInt16 /\ expected # 0 /\ half \in Nat
    BY <1>1, PacketAssumption DEF IInv, TypeOK, half
  <1>3. Dec16(expected) = expected - 1
    BY <1>2, Counter16
  <1>4. \A b, e \in Int : b <= e /\ e <= b + 1 => b = e - 1 \/ b = e
    OBVIOUS
  <1> QED
    BY <1>1, <1>2, <1>3, <1>4

\* While the only client runs, the thread it is pinned to is at the block
\* the client stored last or at the next one: handleReadRequest never sends a
\* block before handleRRQRequest stored the one before, although it takes
\* ACKs from anybody and reads their number with a sign.
THEOREM ReadsInLockStep == Spec => []LockStep
  <1>1. Init => Fresh /\ InStep
    BY DEF Init, InitWith, NetInit, Fresh, InStep, Alone
  <1>2. IInv /\ Fresh /\ InStep /\ [Next]_vars => Fresh' /\ InStep'
    BY FreshNext, InStepNext
  <1>3. Spec => [](Fresh /\ InStep)
    BY <1>1, <1>2, Invariant, PTL DEF Spec
  <1> QED
    BY <1>3, LockStepHolds, Invariant, PTL
=============================================================================
