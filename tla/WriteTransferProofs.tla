--------------------------- MODULE WriteTransferProofs ---------------------------
(***************************************************************************)
(* Theorems about WriteTransfer, for every set of local files and of files *)
(* the server has, every block size, number of requests, buffer size and   *)
(* retry limit.                                                            *)
(*                                                                         *)
(* A thread accepts blocks from whomever; that it never mixes two files    *)
(* rests on what is under way: between a thread and all the clients there  *)
(* is at most one acknowledgment or block at a time (OneUnderWay), so that *)
(* a client which is pinned to a thread either starts its file or goes on  *)
(* with it (Partner).                                                      *)
(*                                                                         *)
(* That a name in the map stands for a whole file on the disk rests on     *)
(* what each thread does to its file: it opens it once (OpenedOnce), and   *)
(* when no other thread opened it, the disk holds what it flushed and in   *)
(* the end all it accepted (OnDisk); only a thread that accepted all of a  *)
(* file registers its name (Registered).  While there has been one client  *)
(* only, every name and block is that client's (OneClient).  A single      *)
(* write that nothing disturbs goes through a few stages, in each of which *)
(* just one process can move (Stages): so a client that reports success    *)
(* has its last block under way to a thread that will accept it.           *)
(***************************************************************************)
EXTENDS WriteTransfer, LoopbackLemmas

---------------------------------------------------------------------------
(* The inductive invariant.                                                *)

\* Ids not yet handed out have no thread; a thread serves a name it was
\* given, and has a try left while it waits.
ThreadState ==
    /\ nextId \in Nat
    /\ \A t \in Threads :
        /\ t >= nextId => tpc[t] = "free"
        /\ tpc[t] # "free" => tfile[t] \in Names
        /\ tpc[t] = "wait" => tretry[t] > 0

\* A running client has its local file; it is pinned from the first block on.
ClientState ==
    cpc = "run" =>
        /\ cfile \in DOMAIN Local
        /\ cretry > 0
        /\ cport = 0 <=> expected = 0

\* With writing threads alone (no reader takes an entry out of the map, nobody
\* deletes) the name a thread may open is none the server started with, and
\* the files under those names stay as they are.
OldFiles == \A f \in DOMAIN Database : f \in DOMAIN disk /\ disk[f] = Database[f]
NewNames ==
    /\ DOMAIN Database \subseteq DOMAIN files
    /\ \A t \in Threads :
          tpc[t] \in {"open", "wait", "insert", "close"} => tfile[t] \notin DOMAIN Database

Opened(t) == tpc[t] \notin {"free", "bind", "start", "open"}

\* A stream holds the blocks before the one its thread waits for.
Streams ==
    \A t \in Threads :
        /\ ~Opened(t) => stream[t] = <<>>
        /\ block[t] = 1 => stream[t] = <<>>
        /\ stream[t] # <<>> =>
             \E f \in DOMAIN Local :
                /\ stream[t] = Blocks(Local[f], Dec16(block[t]))
                /\ tpc[t] = "insert" => stream[t] = Local[f]

\* A DATA packet for thread t is the next block of the file it has so far.
NextOf(t, f, p) ==
    /\ NtohsBlock(p) = block[t] /\ block[t] \in 1 .. (U16 - 1)
    /\ p.data = readDataBlock(Local[f], block[t]) /\ p.data # <<>>
    /\ stream[t] = Blocks(Local[f], Dec16(block[t]))

Tokens == {d \in Datagrams : d.pkt.op \in {ACK, DATA}}
AcksOf(t) == {d \in Datagrams : d.pkt.op = ACK /\ d.src = ThreadPort(t)}
Once(q, M) == \A i, j \in 1 .. Len(q) : q[i] \in M /\ q[j] \in M => i = j

\* Of the talk between a thread and the clients one piece is under way at a
\* time: an acknowledgment of the thread or a block for it.
OneUnderWay(t) ==
    /\ Once(inbox[ClientPort], AcksOf(t))
    /\ Once(inbox[ThreadPort(t)], Tokens)
    /\ \/ \A d \in InQueue(inbox[ClientPort]) : d \notin AcksOf(t)
       \/ \A d \in InQueue(inbox[ThreadPort(t)]) : d \notin Tokens

\* What it is: the acknowledgment of the last block written, or the next.
ClientQueue ==
    \A d \in InQueue(inbox[ClientPort]) :
        /\ d.pkt.op # DATA
        /\ d.pkt.op = ACK => \E t \in Threads :
              d.src = ThreadPort(t) /\ Opened(t) /\ NtohsBlock(d.pkt) = Dec16(block[t])

ThreadQueue(t) ==
    \A d \in InQueue(inbox[ThreadPort(t)]) :
        /\ d.pkt.op # ACK
        /\ d.pkt.op = DATA => Opened(t) /\ \E f \in DOMAIN Local : NextOf(t, f, d.pkt)

\* The client that is pinned to t: a block under way is the last one it sent,
\* and when t has written that, t's stream is the client's file up to it.
Partner(t) ==
    cpc = "run" /\ cport = ThreadPort(t) =>
        /\ \A d \in InQueue(inbox[ThreadPort(t)]) :
              d.pkt.op = DATA => block[t] = expected /\ NextOf(t, cfile, d.pkt)
        /\ block[t] = Inc16(expected) => stream[t] = Blocks(Local[cfile], expected)

Talk == ClientQueue /\ \A t \in Threads : OneUnderWay(t) /\ ThreadQueue(t) /\ Partner(t)

IInv == TypeOK /\ ThreadState /\ ClientState /\ NewNames /\ OldFiles /\ Streams /\ Talk

---------------------------------------------------------------------------
(* Queues: what a step may do to one without touching the talk.            *)

Tame(q, r) ==
    /\ \A d \in InQueue(r) : d \in InQueue(q) \/ d \notin Tokens
    /\ \A M \in SUBSET Tokens : Once(q, M) => Once(r, M)

Quiet(q, r) == \A p \in Ports : Tame(q[p], r[p])

\* Receiving takes the first datagram off a queue.
LEMMA TameTail ==
  ASSUME NEW q \in Seq(Datagrams), q # <<>>
  PROVE  Tame(q, Tail(q))
  <1>1. /\ Len(q) \in Nat /\ Len(q) > 0 /\ Len(Tail(q)) = Len(q) - 1
        /\ \A i \in 1 .. Len(Tail(q)) : Tail(q)[i] = q[i + 1]
    OBVIOUS
  <1>2. \A d \in InQueue(Tail(q)) : d \in InQueue(q)
    BY QueueContents
  <1>3. ASSUME NEW M \in SUBSET Tokens, Once(q, M)
        PROVE  Once(Tail(q), M)
    <2> SUFFICES ASSUME NEW i \in 1 .. Len(Tail(q)), NEW j \in 1 .. Len(Tail(q)),
                        Tail(q)[i] \in M, Tail(q)[j] \in M
                 PROVE  i = j
      BY DEF Once
    <2>1. i + 1 \in 1 .. Len(q) /\ j + 1 \in 1 .. Len(q) /\ q[i + 1] \in M /\ q[j + 1] \in M
      BY <1>1
    <2>2. i + 1 = j + 1
      BY <2>1, <1>3 DEF Once
    <2> QED
      BY <2>2, <1>1
  <1> QED
    BY <1>2, <1>3 DEF Tame

\* Closing a socket empties its queue.
LEMMA TameEmpty ==
  ASSUME NEW q
  PROVE  Tame(q, <<>>)
  BY DEF Tame, Once, InQueue

\* A request or an ERROR comes in.
LEMMA TameAppend ==
  ASSUME NEW q \in Seq(Datagrams), NEW d \in Datagrams, d \notin Tokens
  PROVE  Tame(q, Append(q, d))
  <1>1. /\ Len(q) \in Nat /\ Len(Append(q, d)) = Len(q) + 1
        /\ \A i \in 1 .. Len(q) : Append(q, d)[i] = q[i]
        /\ Append(q, d)[Len(q) + 1] = d
    OBVIOUS
  <1>2. \A e \in InQueue(Append(q, d)) : e \in InQueue(q) \/ e \notin Tokens
    BY QueueContents
  <1>3. ASSUME NEW M \in SUBSET Tokens, Once(q, M)
        PROVE  Once(Append(q, d), M)
    BY <1>1, <1>3 DEF Once
  <1> QED
    BY <1>2, <1>3 DEF Tame

\* A queue that stays the same is a tame change of itself.
LEMMA TameSelf ==
  ASSUME NEW q
  PROVE  Tame(q, q)
  BY DEF Tame

\* Two quiet changes in a row are a quiet one.
LEMMA QuietTrans ==
  ASSUME NEW q, NEW r, NEW s, Quiet(q, r), Quiet(r, s)
  PROVE  Quiet(q, s)
  BY DEF Quiet, Tame

\* Sending anything but an ACK or a block is quiet.
LEMMA QuietSend ==
  ASSUME NEW q \in [Ports -> Seq(Datagrams)], NEW open \in SUBSET Ports,
         NEW src \in Ports \cup {0}, NEW dst, NEW pkt \in Packets,
         pkt.op \notin {ACK, DATA}
  PROVE  /\ sendto(q, open, src, dst, pkt) \in [Ports -> Seq(Datagrams)]
         /\ Quiet(q, sendto(q, open, src, dst, pkt))
  <1> DEFINE d == [src |-> src, pkt |-> pkt]
  <1>1. d \in Datagrams /\ d.pkt = pkt
    BY DEF Datagrams
  <1>2. d \notin Tokens
    BY <1>1 DEF Tokens
  <1>3. sendto(q, open, src, dst, pkt) \in [Ports -> Seq(Datagrams)]
    BY SendtoFacts
  <1> HIDE DEF d
  <1>4. ASSUME NEW p \in Ports
        PROVE  \/ sendto(q, open, src, dst, pkt)[p] = q[p]
               \/ sendto(q, open, src, dst, pkt)[p] = Append(q[p], d)
    BY DEF sendto, d
  <1>5. ASSUME NEW p \in Ports
        PROVE  Tame(q[p], sendto(q, open, src, dst, pkt)[p])
    BY <1>1, <1>2, <1>4, TameAppend, TameSelf
  <1> QED
    BY <1>3, <1>5 DEF Quiet

\* Taking a datagram off a socket is quiet.
LEMMA QuietRecv ==
  ASSUME inbox \in [Ports -> Seq(Datagrams)], NEW port \in Ports, inbox[port] # <<>>
  PROVE  Quiet(inbox, recvfrom(port))
  <1>1. ASSUME NEW p \in Ports
        PROVE  recvfrom(port)[p] = IF p = port THEN Tail(inbox[p]) ELSE inbox[p]
    BY DEF recvfrom
  <1>2. ASSUME NEW p \in Ports
        PROVE  Tame(inbox[p], recvfrom(port)[p])
    BY <1>1, TameTail, TameSelf
  <1> QED
    BY <1>2 DEF Quiet

\* Closing a socket is quiet.
LEMMA QuietClose ==
  ASSUME NEW q \in [Ports -> Seq(Datagrams)], NEW port \in Ports
  PROVE  Quiet(q, closeSocket(q, port))
  <1>1. ASSUME NEW p \in Ports
        PROVE  closeSocket(q, port)[p] = IF p = port THEN <<>> ELSE q[p]
    BY DEF closeSocket
  <1>2. ASSUME NEW p \in Ports
        PROVE  Tame(q[p], closeSocket(q, port)[p])
    BY <1>1, TameEmpty, TameSelf
  <1> QED
    BY <1>2 DEF Quiet

\* The talk goes on as it was when nothing but its datagrams disappear, and
\* the client, if it is still the same, is where it was.
LEMMA TalkKept ==
  ASSUME inbox \in [Ports -> Seq(Datagrams)], Talk, inbox' \in [Ports -> Seq(Datagrams)],
         Quiet(inbox, inbox'),
         UNCHANGED <<block, stream>>,
         \A t \in Threads : Opened(t) => Opened(t)',
         cpc' = "run" => \/ cport' = 0
                         \/ cpc = "run" /\ UNCHANGED <<cport, expected, cfile>>
  PROVE  Talk'
  <1>1. ASSUME NEW p \in Ports
        PROVE  Tame(inbox[p], inbox'[p])
    BY <1>1 DEF Quiet
  <1>2. ASSUME NEW p \in Ports, NEW d \in InQueue(inbox'[p])
        PROVE  /\ d \in Datagrams
               /\ d \in InQueue(inbox[p]) \/ d.pkt.op \notin {ACK, DATA}
    BY <1>1, <1>2, QueueContents DEF Tame, Tokens
  <1>3. ClientPort \in Ports /\ \A t \in Threads : ThreadPort(t) \in Ports /\ ThreadPort(t) # 0
    BY PortFacts
  <1>4. ClientQueue'
    BY <1>2, <1>3 DEF Talk, ClientQueue
  <1>5. ASSUME NEW t \in Threads
        PROVE  OneUnderWay(t)'
    <2>1. AcksOf(t) \in SUBSET Tokens /\ Tokens \in SUBSET Tokens
      BY DEF AcksOf, Tokens
    <2>2. OneUnderWay(t)
      BY DEF Talk
    <2>3. Once(inbox'[ClientPort], AcksOf(t)) /\ Once(inbox'[ThreadPort(t)], Tokens)
      BY <2>1, <2>2, <1>1, <1>3 DEF OneUnderWay, Tame
    <2>4. \/ \A d \in InQueue(inbox'[ClientPort]) : d \notin AcksOf(t)
          \/ \A d \in InQueue(inbox'[ThreadPort(t)]) : d \notin Tokens
      BY <2>1, <2>2, <1>1, <1>3 DEF OneUnderWay, Tame
    <2> QED
      BY <2>3, <2>4 DEF OneUnderWay
  <1>6. ASSUME NEW t \in Threads
        PROVE  ThreadQueue(t)'
    BY <1>2, <1>3 DEF Talk, ThreadQueue, NextOf
  <1>7. ASSUME NEW t \in Threads
        PROVE  Partner(t)'
    BY <1>2, <1>3 DEF Talk, Partner, NextOf
  <1> QED
    BY <1>4, <1>5, <1>6, <1>7 DEF Talk

---------------------------------------------------------------------------
(* The steps of the client.                                                *)

\* createWRQPacket builds a request.
LEMMA WRQPackets ==
  \A f \in Names : createWRQPacket(f) \in Packets /\ createWRQPacket(f).op = WRQ
  <1>1. 0 \in UInt16
    BY U16Type DEF UInt16
  <1> QED
    BY <1>1, WireRoundTrip DEF createWRQPacket, createRequestPacket, Packets, Wire, Octet

\* createErrorPacket builds packets that are not part of the talk.
LEMMA QuietErrors ==
  \A c \in 0 .. 7 : createErrorPacket(c) \in Packets
                    /\ createErrorPacket(c).op \notin {ACK, DATA}
  BY PacketTypes DEF ERROR, ACK, DATA

\* The parts of the invariant that do not look at the client or the queues.
LEMMA ServerKept ==
  ASSUME IInv, UNCHANGED <<threadVars, serverVars, streams>>
  PROVE  ThreadState' /\ NewNames' /\ OldFiles' /\ Streams'
  BY DEF IInv, ThreadState, NewNames, OldFiles, Streams, Opened,
         threadVars, serverVars, streams

\* What is left of TypeOK and the talk when only the client moves.
LEMMA ClientQuiet ==
  ASSUME IInv, UNCHANGED <<threadVars, serverVars, streams>>, lost' \in 0 .. MaxLoss,
         inbox' \in [Ports -> Seq(Datagrams)], Quiet(inbox, inbox'),
         cpc' \in {"idle", "run", "ok", "fail"}, cfile' \in DOMAIN ServerName \cup {NoName},
         cport' \in Ports \cup {0}, expected' \in UInt16, cretry' \in 0 .. MaxRetry,
         ClientState',
         cpc' = "run" => \/ cport' = 0
                         \/ cpc = "run" /\ UNCHANGED <<cport, expected, cfile>>
  PROVE  IInv'
  <1>1. TypeOK'
    BY DEF IInv, TypeOK, threadVars, serverVars, streams
  <1>2. Talk'
    BY TalkKept DEF IInv, TypeOK, Opened, threadVars, serverVars, streams
  <1> QED
    BY <1>1, <1>2, ServerKept DEF IInv

\* A new client sends its request: no part of the talk, and it is not pinned.
LEMMA StartWriteStep ==
  ASSUME IInv, NEW f \in DOMAIN ServerName, StartWrite(f)
  PROVE  IInv'
  <1> DEFINE sent == sendto(inbox, Open, ClientPort, ServerPort, createWRQPacket(ServerName[f]))
  <1>1. createWRQPacket(ServerName[f]) \in Packets
        /\ createWRQPacket(ServerName[f]).op \notin {ACK, DATA}
    BY WRQPackets, WriteAssumption DEF WRQ, ACK, DATA
  <1>2. inbox \in [Ports -> Seq(Datagrams)] /\ Open \in SUBSET Ports /\ ClientPort \in Ports \cup {0}
    BY PortFacts DEF IInv, TypeOK
  <1>3. sent \in [Ports -> Seq(Datagrams)] /\ Quiet(inbox, sent)
    BY <1>1, <1>2, QuietSend
  <1> HIDE DEF sent
  <1>4. inbox' \in [Ports -> Seq(Datagrams)] /\ Quiet(inbox, inbox')
    <2>1. CASE f \in DOMAIN Local
      BY <2>1, <1>3 DEF StartWrite, StartClient, sent
    <2>2. CASE f \notin DOMAIN Local
      <3>1. inbox' = sendto(sent, Open, ClientPort, ackTo', createErrorPacket(DISK_FULL))
        BY <2>2 DEF StartWrite, StartClient, sent
      <3>2. createErrorPacket(DISK_FULL) \in Packets
            /\ createErrorPacket(DISK_FULL).op \notin {ACK, DATA}
        BY QuietErrors DEF DISK_FULL
      <3>3. inbox' \in [Ports -> Seq(Datagrams)] /\ Quiet(sent, inbox')
        BY <3>1, <3>2, <1>2, <1>3, QuietSend
      <3> QED
        BY <3>3, <1>3, QuietTrans
    <2> QED
      BY <2>1, <2>2
  <1>5. /\ cfile' = f /\ cport' = 0 /\ expected' = 0 /\ cretry' = MaxRetry
        /\ cpc' = (IF f \in DOMAIN Local THEN "run" ELSE "fail")
        /\ UNCHANGED <<threadVars, serverVars, streams>> /\ lost' = lost
    BY DEF StartWrite, StartClient
  <1>6. 0 \in UInt16 /\ MaxRetry \in 0 .. MaxRetry /\ MaxRetry > 0
    BY U16Type, SessionsAssumption DEF UInt16
  <1>7. ClientState'
    BY <1>5, <1>6 DEF ClientState
  <1>8. lost' \in 0 .. MaxLoss
    BY <1>5 DEF IInv, TypeOK
  <1>9. /\ cfile' \in DOMAIN ServerName \cup {NoName} /\ cport' \in Ports \cup {0}
        /\ expected' \in UInt16 /\ cretry' \in 0 .. MaxRetry /\ cpc' \in {"idle", "run", "ok", "fail"}
    BY <1>5, <1>6
  <1> QED
    BY <1>4, <1>5, <1>7, <1>8, <1>9, ClientQuiet

\* What the client knows of the datagram at the head of its queue.
LEMMA HeadAtClient ==
  ASSUME IInv, ClientReceives
  PROVE  /\ ClientSource \in Ports \cup {0} /\ ClientPacket \in Packets
         /\ Received(ClientPort) \in InQueue(inbox[ClientPort])
         /\ inbox \in [Ports -> Seq(Datagrams)] /\ ClientPort \in Ports
         /\ recvfrom(ClientPort) \in [Ports -> Seq(Datagrams)]
         /\ Quiet(inbox, recvfrom(ClientPort))
         /\ ClientPacket.op = ACK => \E t \in Threads :
              /\ ClientSource = ThreadPort(t) /\ Opened(t)
              /\ NtohsBlock(ClientPacket) = Dec16(block[t])
  <1>1. inbox \in [Ports -> Seq(Datagrams)] /\ ClientPort \in Ports /\ inbox[ClientPort] # <<>>
    BY PortFacts DEF IInv, TypeOK, ClientReceives
  <1>2. /\ Received(ClientPort) \in Datagrams
        /\ Received(ClientPort) \in InQueue(inbox[ClientPort])
        /\ recvfrom(ClientPort) \in [Ports -> Seq(Datagrams)]
    BY <1>1, RecvfromFacts
  <1>3. Quiet(inbox, recvfrom(ClientPort))
    BY <1>1, QuietRecv
  <1>4. ClientPacket \in Packets /\ ClientSource \in Ports \cup {0}
    BY <1>2 DEF ClientPacket, ClientSource, Datagrams
  <1>5. ClientPacket.op = ACK => \E t \in Threads :
              /\ ClientSource = ThreadPort(t) /\ Opened(t)
              /\ NtohsBlock(ClientPacket) = Dec16(block[t])
    BY <1>2 DEF IInv, Talk, ClientQueue, ClientPacket, ClientSource
  <1> QED
    BY <1>1, <1>2, <1>3, <1>4, <1>5

\* The client takes a datagram and answers with an ERROR.
LEMMA ClientSendsError ==
  ASSUME IInv, ClientReceives, NEW c \in 0 .. 7
  PROVE  LET q == clientSend(recvfrom(ClientPort), ClientSource, createErrorPacket(c)) IN
         q \in [Ports -> Seq(Datagrams)] /\ Quiet(inbox, q)
  <1>1. Open \in SUBSET Ports /\ ClientPort \in Ports \cup {0}
    BY PortFacts
  <1> DEFINE q == clientSend(recvfrom(ClientPort), ClientSource, createErrorPacket(c))
  <1>2. q \in [Ports -> Seq(Datagrams)] /\ Quiet(recvfrom(ClientPort), q)
    BY <1>1, HeadAtClient, QuietErrors, QuietSend DEF clientSend
  <1> HIDE DEF q
  <1>3. Quiet(inbox, q)
    BY <1>2, HeadAtClient, QuietTrans
  <1> QED
    BY <1>2, <1>3 DEF q

\* The client closes its socket.
LEMMA ClientCloses ==
  ASSUME NEW q \in [Ports -> Seq(Datagrams)], Quiet(inbox, q)
  PROVE  /\ closeSocket(q, ClientPort) \in [Ports -> Seq(Datagrams)]
         /\ Quiet(inbox, closeSocket(q, ClientPort))
  BY CloseFacts, QuietClose, QuietTrans, PortFacts

\* The client answers a datagram from another port with ERROR 5.
LEMMA UnknownTidStep ==
  ASSUME IInv, UnknownTid, UNCHANGED streams
  PROVE  IInv'
  <1>1. inbox' \in [Ports -> Seq(Datagrams)] /\ Quiet(inbox, inbox')
    BY ClientSendsError DEF UnknownTid, UNKNOWN_TID
  <1>2. /\ UNCHANGED <<cpc, cfile, cport, expected, lost, threadVars, serverVars>>
        /\ cretry' = MaxRetry /\ cpc = "run"
    BY DEF UnknownTid, ClientReceives
  <1>3. ClientState' /\ cretry' \in 0 .. MaxRetry
    BY <1>2, SessionsAssumption DEF IInv, ClientState
  <1> QED
    BY <1>1, <1>2, <1>3, ClientQuiet DEF IInv, TypeOK

\* An ERROR ends the client.
LEMMA ErrorReceivedStep ==
  ASSUME IInv, ErrorReceived, UNCHANGED streams
  PROVE  IInv'
  <1>1. inbox' \in [Ports -> Seq(Datagrams)] /\ Quiet(inbox, inbox')
    BY HeadAtClient, ClientCloses DEF ErrorReceived, ClientReturns
  <1>2. /\ UNCHANGED <<cfile, expected, lost, threadVars, serverVars>>
        /\ cretry' = MaxRetry /\ cpc' = "fail" /\ cport' = ClientSource
    BY DEF ErrorReceived, PinServer, ClientReturns
  <1>3. ClientState' /\ cretry' \in 0 .. MaxRetry /\ cport' \in Ports \cup {0}
    BY <1>2, HeadAtClient, SessionsAssumption DEF ErrorReceived, ClientState
  <1> QED
    BY <1>1, <1>2, <1>3, ClientQuiet DEF IInv, TypeOK

\* A timeout uses up a try, the last one ends the client.
LEMMA ClientTimeoutStep ==
  ASSUME IInv, ClientTimeout, UNCHANGED streams
  PROVE  IInv'
  <1>0. inbox \in [Ports -> Seq(Datagrams)] /\ Quiet(inbox, inbox)
    BY TameSelf DEF IInv, TypeOK, Quiet
  <1>1. inbox' \in [Ports -> Seq(Datagrams)] /\ Quiet(inbox, inbox')
    BY <1>0, ClientCloses DEF ClientTimeout, ClientReturns
  <1>2. UNCHANGED <<cfile, cport, expected, lost, threadVars, serverVars>> /\ cpc = "run"
    BY DEF ClientTimeout
  <1>3. cretry' \in 0 .. MaxRetry /\ cretry' = cretry - 1
        /\ cpc' = IF cretry' = 0 THEN "fail" ELSE "run"
    BY <1>2, SessionsAssumption
    DEF ClientTimeout, ClientReturns, retryAfterTimeout, outOfTries, IInv, TypeOK, ClientState
  <1>4. cpc' = "run" => cretry' > 0
    <2>1. cretry' \in Nat /\ (cpc' = "run" => cretry' # 0)
      BY <1>3, SessionsAssumption
    <2> QED
      BY <2>1
  <1>5. ClientState'
    BY <1>2, <1>4 DEF IInv, ClientState
  <1> QED
    BY <1>1, <1>2, <1>3, <1>5, ClientQuiet DEF IInv, TypeOK

\* Another ACK than the expected one ends the client or is ignored.
LEMMA AckUnexpectedStep ==
  ASSUME IInv, AckUnexpected
  PROVE  IInv'
  <1>1. ClientReceives /\ FromServer /\ ClientPacket.op = ACK /\ cpc = "run"
        /\ cport' = ClientSource /\ cretry' = MaxRetry
    BY DEF AckUnexpected, AckReceived, PinServer, ClientReceives
  <1>2. UNCHANGED <<cfile, expected, lost, threadVars, serverVars, streams>>
    BY DEF AckUnexpected
  <1>3. ClientSource # 0 /\ ClientSource \in Ports \cup {0}
    BY <1>1, HeadAtClient, PortFacts
  <1>4. CASE expected = 0
    <2>1. inbox' \in [Ports -> Seq(Datagrams)] /\ Quiet(inbox, inbox') /\ cpc' = "fail"
      BY <1>1, <1>4, ClientSendsError, ClientCloses
      DEF AckUnexpected, ClientReturns, ILLEGAL_TFTP_OPERATION
    <2>2. ClientState' /\ cretry' \in 0 .. MaxRetry
      BY <2>1, <1>1, SessionsAssumption DEF ClientState
    <2> QED
      BY <2>1, <2>2, <1>1, <1>2, <1>3, ClientQuiet DEF IInv, TypeOK
  <1>5. CASE expected # 0
    <2>1. inbox' \in [Ports -> Seq(Datagrams)] /\ Quiet(inbox, inbox') /\ cpc' = cpc
      BY <1>1, <1>5, HeadAtClient DEF AckUnexpected
    <2>2. cport' = cport
      BY <1>1, <1>5 DEF IInv, ClientState, FromServer
    <2>3. ClientState' /\ cretry' \in 0 .. MaxRetry
      BY <2>1, <2>2, <1>1, <1>2, SessionsAssumption DEF IInv, ClientState
    <2> QED
      BY <2>1, <2>2, <2>3, <1>1, <1>2, ClientQuiet DEF IInv, TypeOK
  <1> QED
    BY <1>4, <1>5

\* Taking the only datagram of a kind leaves none.
LEMMA TailClears ==
  ASSUME NEW q \in Seq(Datagrams), q # <<>>, NEW M, Once(q, M), Head(q) \in M
  PROVE  \A d \in InQueue(Tail(q)) : d \notin M
  <1>1. /\ Len(q) \in Nat /\ Len(q) > 0 /\ Len(Tail(q)) = Len(q) - 1 /\ Head(q) = q[1]
        /\ \A i \in 1 .. Len(Tail(q)) : Tail(q)[i] = q[i + 1]
    OBVIOUS
  <1>2. ASSUME NEW i \in 1 .. Len(Tail(q)), Tail(q)[i] \in M
        PROVE  FALSE
    <2>1. i + 1 \in 1 .. Len(q) /\ 1 \in 1 .. Len(q) /\ q[i + 1] \in M /\ q[1] \in M
      BY <1>1, <1>2
    <2>2. i + 1 = 1
      BY <2>1, <1>2 DEF Once
    <2> QED
      BY <2>2
  <1> QED
    BY <1>2 DEF InQueue

\* One datagram more of a kind of which there was none.
LEMMA AppendOnce ==
  ASSUME NEW q \in Seq(Datagrams), NEW e \in Datagrams, NEW M,
         \A d \in InQueue(q) : d \notin M
  PROVE  /\ Once(Append(q, e), M)
         /\ \A d \in InQueue(Append(q, e)) : d \in InQueue(q) \/ d = e
  <1>1. /\ Len(q) \in Nat /\ Len(Append(q, e)) = Len(q) + 1
        /\ \A i \in 1 .. Len(q) : Append(q, e)[i] = q[i] /\ q[i] \in InQueue(q)
    BY DEF InQueue
  <1>2. Once(Append(q, e), M)
    BY <1>1 DEF Once
  <1> QED
    BY <1>2, QueueContents

\* The next block number is another one, and only block 0 is followed by block 1.
LEMMA NextNumber ==
  ASSUME NEW b \in UInt16
  PROVE  Inc16(Dec16(b)) = b /\ Inc16(b) # b /\ Inc16(0) = 1 /\ 0 \in UInt16 /\ 1 \in UInt16
         /\ (b # 0 => b \in 1 .. (U16 - 1) /\ Inc16(b) # 1)
  <1>1. U16 \in Nat /\ U16 > 7 /\ b \in 0 .. (U16 - 1)
    BY U16Type DEF UInt16
  <1>2. CASE b = 0
    BY <1>1, <1>2 DEF Inc16, Dec16, UInt16
  <1>3. CASE b = U16 - 1
    BY <1>1, <1>3 DEF Inc16, Dec16, UInt16
  <1>4. CASE b # 0 /\ b # U16 - 1
    <2>1. b + 1 \in 0 .. (U16 - 1) /\ b - 1 \in 0 .. (U16 - 1) /\ b + U16 - 1 = U16 + (b - 1)
      BY <1>1, <1>4
    <2>2. Inc16(b) = b + 1 /\ Inc16(0) = 1
      BY <1>1, <2>1 DEF Inc16
    <2>3. Dec16(b) = b - 1
      BY <1>4, Counter16
    <2> QED
      BY <1>1, <1>4, <2>1, <2>2, <2>3 DEF Inc16, UInt16
  <1> QED
    BY <1>2, <1>3, <1>4

\* The expected ACK is the one of the last block its thread has written, and
\* that thread's stream is the client's file so far.
LEMMA AckExpected ==
  ASSUME IInv, AckReceived, NtohsBlock(ClientPacket) = expected
  PROVE  \E t \in Threads :
            /\ ClientSource = ThreadPort(t) /\ Opened(t) /\ block[t] = Inc16(expected)
            /\ stream[t] = Blocks(Local[cfile], expected)
            /\ Received(ClientPort) \in AcksOf(t)
  <1>1. ClientReceives /\ FromServer /\ ClientPacket.op = ACK /\ cpc = "run"
    BY DEF AckReceived, ClientReceives
  <1>2. PICK t \in Threads : /\ ClientSource = ThreadPort(t) /\ Opened(t)
                             /\ expected = Dec16(block[t])
    BY <1>1, HeadAtClient
  <1>3. block[t] \in UInt16 /\ expected \in UInt16 /\ cfile \in DOMAIN Local
        /\ Local[cfile] \in Seq(Byte)
    BY <1>1, WriteAssumption DEF IInv, TypeOK, ClientState
  <1>4. block[t] = Inc16(expected)
    BY <1>2, <1>3, NextNumber
  <1>5. stream[t] = Blocks(Local[cfile], expected)
    <2>1. CASE expected = 0
      <3>1. block[t] = 1
        BY <1>3, <1>4, <2>1, NextNumber
      <3>2. Blocks(Local[cfile], 0) = <<>>
        BY <1>3, BlocksPrefix
      <3> QED
        BY <3>1, <3>2, <2>1 DEF IInv, Streams
    <2>2. CASE expected # 0
      BY <1>1, <1>2, <1>4, <2>2 DEF IInv, ClientState, FromServer, Talk, Partner
    <2> QED
      BY <2>1, <2>2
  <1>6. Received(ClientPort) \in AcksOf(t)
    <2>1. Received(ClientPort) \in Datagrams
      BY <1>1, RecvfromFacts, PortFacts DEF ClientReceives, IInv, TypeOK
    <2> QED
      BY <2>1, <1>1, <1>2 DEF AcksOf, ClientPacket, ClientSource
  <1> QED
    BY <1>2, <1>4, <1>5, <1>6

\* The next block is under way to the thread whose ACK the client took.
LEMMA BlockSentTalk ==
  ASSUME IInv, AckReceived, NEW t \in Threads,
         ClientSource = ThreadPort(t), Opened(t), block[t] = Inc16(expected),
         stream[t] = Blocks(Local[cfile], expected), Received(ClientPort) \in AcksOf(t),
         NEW e \in Datagrams, e.pkt.op = DATA, NextOf(t, cfile, e.pkt),
         UNCHANGED <<block, stream, tpc, cfile>>, expected' = Inc16(expected),
         inbox' \in [Ports -> Seq(Datagrams)],
         \A p \in Ports \ {ThreadPort(t), ClientPort} : inbox'[p] = inbox[p],
         inbox'[ThreadPort(t)] \in {inbox[ThreadPort(t)], Append(inbox[ThreadPort(t)], e)},
         inbox'[ClientPort] \in {Tail(inbox[ClientPort]), <<>>}
  PROVE  Talk'
  <1> DEFINE q == inbox[ClientPort]
             r == inbox[ThreadPort(t)]
  <1>1. /\ inbox \in [Ports -> Seq(Datagrams)] /\ ClientPort \in Ports /\ q # <<>>
        /\ q \in Seq(Datagrams) /\ r \in Seq(Datagrams) /\ ThreadPort(t) \in Ports
        /\ ThreadPort(t) # ClientPort /\ Head(q) \in AcksOf(t) /\ Head(q) \in InQueue(q)
    BY PortFacts, QueueContents DEF IInv, TypeOK, AckReceived, ClientReceives, Received
  <1>2. /\ OneUnderWay(t)
        /\ \A d \in InQueue(r) : d \notin Tokens
    BY <1>1 DEF IInv, Talk, OneUnderWay
  <1>3. \A d \in InQueue(inbox'[ClientPort]) : d \in InQueue(q) /\ d \notin AcksOf(t)
    BY <1>1, <1>2, TailClears, QueueContents DEF OneUnderWay
  <1>4. Tame(q, inbox'[ClientPort])
    BY <1>1, TameTail, TameEmpty
  <1>5. /\ Once(inbox'[ThreadPort(t)], Tokens)
        /\ \A d \in InQueue(inbox'[ThreadPort(t)]) : d \in InQueue(r) \/ d = e
    <2>1. CASE inbox'[ThreadPort(t)] = r
      BY <2>1, <1>2 DEF OneUnderWay
    <2>2. CASE inbox'[ThreadPort(t)] = Append(r, e)
      <3>1. /\ Once(Append(r, e), Tokens)
            /\ \A d \in InQueue(Append(r, e)) : d \in InQueue(r) \/ d = e
        BY <1>1, <1>2, AppendOnce
      <3> QED
        BY <2>2, <3>1
    <2> QED
      BY <2>1, <2>2
  <1>6. ASSUME NEW u \in Threads, u # t
        PROVE  inbox'[ThreadPort(u)] = inbox[ThreadPort(u)]
    BY <1>6, PortFacts
  <1>7. AcksOf(t) \in SUBSET Tokens /\ \A u \in Threads : AcksOf(u) \in SUBSET Tokens
    BY DEF AcksOf, Tokens
  <1> HIDE DEF q, r
  <1>8. ClientQueue'
    BY <1>3 DEF IInv, Talk, ClientQueue, Opened, q
  <1>9. ASSUME NEW u \in Threads
        PROVE  OneUnderWay(u)'
    <2>1. Once(inbox'[ClientPort], AcksOf(u))
      BY <1>4, <1>7 DEF IInv, Talk, OneUnderWay, Tame, q
    <2>2. CASE u = t
      BY <2>1, <2>2, <1>3, <1>5 DEF OneUnderWay
    <2>3. CASE u # t
      BY <2>1, <2>3, <1>3, <1>6 DEF IInv, Talk, OneUnderWay, q
    <2> QED
      BY <2>2, <2>3
  <1>10. e.pkt.op = DATA /\ NextOf(t, cfile, e.pkt)' /\ cfile \in DOMAIN Local /\ cpc = "run"
         /\ e.pkt.op # ACK
    BY DEF NextOf, IInv, ClientState, AckReceived, ClientReceives, DATA, ACK
  <1>11. ASSUME NEW u \in Threads
         PROVE  ThreadQueue(u)'
    <2>1. CASE u = t
      <3> SUFFICES ASSUME NEW d \in InQueue(inbox'[ThreadPort(t)])
                   PROVE  d.pkt.op # ACK /\
                          (d.pkt.op = DATA => Opened(t)' /\ \E f \in DOMAIN Local : NextOf(t, f, d.pkt)')
        BY <2>1 DEF ThreadQueue
      <3>1. CASE d = e
        BY <3>1, <1>10 DEF Opened
      <3>2. CASE d \in InQueue(r)
        BY <3>2 DEF IInv, Talk, ThreadQueue, NextOf, Opened, r
      <3> QED
        BY <3>1, <3>2, <1>5
    <2>2. CASE u # t
      BY <2>2, <1>6 DEF IInv, Talk, ThreadQueue, NextOf, Opened
    <2> QED
      BY <2>1, <2>2
  <1>12. ASSUME NEW u \in Threads
         PROVE  Partner(u)'
    <2> SUFFICES ASSUME cport' = ThreadPort(u)
                 PROVE  Partner(u)'
      BY DEF Partner
    <2>1. u = t
      BY PortFacts DEF AckReceived, PinServer
    <2>2. \A d \in InQueue(inbox'[ThreadPort(t)]) : d.pkt.op = DATA => d = e
      BY <1>1, <1>2, <1>5, QueueContents DEF Tokens, r
    <2>3. block[t] = expected' /\ expected' # Inc16(expected')
      BY NextNumber, Counter16 DEF IInv, TypeOK
    <2> QED
      BY <2>1, <2>2, <2>3, <1>10 DEF Partner
  <1> QED
    BY <1>8, <1>9, <1>11, <1>12 DEF Talk

\* The expected ACK makes the client send the next block to its partner.
LEMMA AckAdvancesStep ==
  ASSUME IInv, AckAdvances
  PROVE  IInv'
  <1> DEFINE next == readDataBlock(Local[cfile], expected')
             e == [src |-> ClientPort, pkt |-> createDataPacket(expected', next)]
             sent == clientSend(recvfrom(ClientPort), ClientSource,
                                createDataPacket(expected', next))
  <1>1. /\ AckReceived /\ NtohsBlock(ClientPacket) = expected /\ ClientReceives /\ cpc = "run"
        /\ expected' = Inc16(expected) /\ cport' = ClientSource /\ cretry' = MaxRetry
        /\ UNCHANGED <<cfile, lost, threadVars, serverVars, streams>>
    BY DEF AckAdvances, AckReceived, PinServer, ClientReceives
  <1>2. PICK t \in Threads :
            /\ ClientSource = ThreadPort(t) /\ Opened(t) /\ block[t] = Inc16(expected)
            /\ stream[t] = Blocks(Local[cfile], expected)
            /\ Received(ClientPort) \in AcksOf(t)
    BY <1>1, AckExpected
  <1>3. /\ expected \in UInt16 /\ expected' \in UInt16 /\ cfile \in DOMAIN Local
        /\ Local[cfile] \in Seq(Byte) /\ cretry' \in 0 .. MaxRetry /\ cretry' > 0
        /\ Dec16(expected') = expected
    BY <1>1, Counter16, WriteAssumption, SessionsAssumption DEF IInv, TypeOK, ClientState
  <1>4. cport' \in Ports \cup {0} /\ cport' # 0
    BY <1>1, <1>2, PortFacts
  <1>5. CASE next = <<>>
    <2>1. inbox' = closeSocket(recvfrom(ClientPort), ClientPort) /\ cpc' = "fail"
      BY <1>5 DEF AckAdvances, ClientReturns
    <2>2. inbox' \in [Ports -> Seq(Datagrams)] /\ Quiet(inbox, inbox')
      BY <2>1, <1>1, HeadAtClient, ClientCloses
    <2>3. ClientState'
      BY <2>1 DEF ClientState
    <2> QED
      BY <2>1, <2>2, <2>3, <1>1, <1>3, <1>4, ClientQuiet DEF IInv, TypeOK
  <1>6. CASE next # <<>>
    <2>1. expected' \in 1 .. (U16 - 1) /\ expected' \in Nat /\ expected' > 0
      <3>1. expected' # 0
        BY <1>6 DEF readDataBlock
      <3> QED
        BY <3>1, <1>3, U16Type DEF UInt16
    <2>2. next \in Seq(Byte)
      BY <2>1, <1>3, <1>6, BlockTiling
    <2> HIDE DEF next
    <2>3. /\ createDataPacket(expected', next) \in Packets
          /\ createDataPacket(expected', next).op = DATA
          /\ createDataPacket(expected', next).data = next
          /\ NtohsBlock(createDataPacket(expected', next)) = expected'
      BY <2>2, <1>3, PacketTypes, WireRoundTrip DEF createDataPacket
    <2>4. /\ e \in Datagrams /\ e.pkt.op = DATA /\ NextOf(t, cfile, e.pkt)
          /\ e.pkt \in Packets
      <3>1. e.pkt = createDataPacket(expected', next) /\ e \in Datagrams
        BY <2>3, PortFacts DEF Datagrams
      <3>2. block[t] = expected' /\ stream[t] = Blocks(Local[cfile], Dec16(block[t]))
        BY <1>1, <1>2, <1>3
      <3>3. next = readDataBlock(Local[cfile], block[t])
        BY <3>2 DEF next
      <3> QED
        BY <3>1, <3>2, <3>3, <2>1, <2>3, <1>6 DEF NextOf
    <2>5. \/ inbox' = sent /\ cpc' = "run"
          \/ inbox' = closeSocket(sent, ClientPort) /\ cpc' = "ok"
      BY <1>1, <1>6 DEF AckAdvances, ClientReturns, next
    <2> DEFINE w == recvfrom(ClientPort)
    <2>6. /\ w \in [Ports -> Seq(Datagrams)] /\ Open \in SUBSET Ports /\ ClientPort \in Ports
          /\ ThreadPort(t) \in Ports /\ ThreadPort(t) # ClientPort
          /\ inbox \in [Ports -> Seq(Datagrams)]
          /\ w[ClientPort] = Tail(inbox[ClientPort])
          /\ \A p \in Ports \ {ClientPort} : w[p] = inbox[p]
      BY <1>1, HeadAtClient, PortFacts DEF recvfrom
    <2> HIDE DEF w
    <2>7. /\ sent \in [Ports -> Seq(Datagrams)]
          /\ \A p \in Ports \ {ThreadPort(t)} : sent[p] = w[p]
          /\ sent[ThreadPort(t)] \in {w[ThreadPort(t)], Append(w[ThreadPort(t)], e)}
      <3>1. sent = sendto(w, Open, ClientPort, ThreadPort(t), createDataPacket(expected', next))
        BY <1>2 DEF clientSend, w
      <3>2. sent \in [Ports -> Seq(Datagrams)]
        <4>1. ClientPort \in Ports \cup {0}
          BY <2>6
        <4> HIDE DEF sent
        <4> QED
          BY <4>1, <3>1, <2>3, <2>6, SendtoFacts
      <3> HIDE DEF sent
      <3>3. \/ sent = w
            \/ sent = [w EXCEPT ![ThreadPort(t)] = Append(@, e)]
        BY <3>1 DEF sendto
      <3> QED
        BY <3>2, <3>3, <2>6
    <2> HIDE DEF sent, e
    <2>8. /\ inbox' \in [Ports -> Seq(Datagrams)]
          /\ \A p \in Ports \ {ThreadPort(t), ClientPort} : inbox'[p] = inbox[p]
          /\ inbox'[ThreadPort(t)] \in {inbox[ThreadPort(t)], Append(inbox[ThreadPort(t)], e)}
          /\ inbox'[ClientPort] \in {Tail(inbox[ClientPort]), <<>>}
      <3>1. CASE inbox' = sent
        BY <3>1, <2>6, <2>7
      <3>2. CASE inbox' = closeSocket(sent, ClientPort)
        BY <3>2, <2>6, <2>7, CloseFacts DEF closeSocket
      <3> QED
        BY <3>1, <3>2, <2>5
    <2>9. UNCHANGED <<block, stream, tpc, cfile>>
      BY <1>1 DEF threadVars, streams
    <2>10. Talk'
      BY <1>1, <1>2, <2>4, <2>8, <2>9, BlockSentTalk
    <2>11. ClientState' /\ cpc' \in {"idle", "run", "ok", "fail"}
      BY <1>1, <1>3, <1>4, <2>1, <2>5 DEF ClientState
    <2>12. TypeOK'
      BY <1>1, <1>3, <1>4, <2>8, <2>11 DEF IInv, TypeOK, threadVars, serverVars, streams
    <2> QED
      BY <1>1, <2>10, <2>11, <2>12, ServerKept DEF IInv
  <1> QED
    BY <1>5, <1>6

---------------------------------------------------------------------------
(* The steps of the listener and of the network.                           *)

\* A step that leaves the client alone.
LEMMA ClientKept ==
  ASSUME IInv, UNCHANGED clientVars
  PROVE  ClientState'
  BY DEF IInv, ClientState, clientVars

\* The listener starts a thread, for which nothing is under way yet.
LEMMA ListenStep ==
  ASSUME IInv, Listen, UNCHANGED streams
  PROVE  IInv'
  <1>1. /\ inbox \in [Ports -> Seq(Datagrams)] /\ ServerPort \in Ports /\ inbox[ServerPort] # <<>>
        /\ inbox' = recvfrom(ServerPort)
    BY PortFacts DEF IInv, TypeOK, Listen, ListenerReceives
  <1>2. /\ inbox' \in [Ports -> Seq(Datagrams)] /\ Quiet(inbox, inbox')
        /\ Received(ServerPort) \in Datagrams
    BY <1>1, RecvfromFacts, QuietRecv
  <1>3. ListenerPacket \in Packets /\ ListenerPacket.op \in {RRQ, WRQ, DELETE}
    BY <1>2 DEF Listen, ListenerPacket, Datagrams
  <1>4. ListenerPacket.data[1] \in Names
    BY <1>3 DEF Packets, RRQ, WRQ, DELETE, DATA, ACK, ERROR
  <1>5. /\ nextId' = nextId + 1 /\ nextId \in Nat
        /\ tpc' = [tpc EXCEPT ![nextId] = "bind"]
        /\ tfile' = [tfile EXCEPT ![nextId] = ListenerPacket.data[1]]
        /\ UNCHANGED <<clientVars, block, tretry, treaders, files, disk, up, lost, requests, streams>>
    BY DEF Listen, IInv, ThreadState
  <1>6. /\ tpc \in [Threads -> {"free", "bind", "start", "open", "wait", "insert", "close", "done"}]
        /\ tfile \in [Threads -> Names \cup {NoName}]
        /\ nextId \in Threads => tpc[nextId] = "free"
        /\ \A t \in Threads : t \in Nat
    BY <1>5 DEF IInv, TypeOK, ThreadState, Threads
  <1>7. \A t \in Threads : /\ t # nextId => tpc'[t] = tpc[t] /\ tfile'[t] = tfile[t]
                           /\ t = nextId => tpc'[t] = "bind" /\ tfile'[t] = ListenerPacket.data[1]
    BY <1>5, <1>6
  <1>8. TypeOK'
    BY <1>2, <1>4, <1>5 DEF IInv, TypeOK, clientVars, streams
  <1>9. ThreadState'
    BY <1>4, <1>5, <1>6, <1>7 DEF IInv, ThreadState
  <1>10. NewNames' /\ OldFiles'
    BY <1>5, <1>7 DEF IInv, NewNames, OldFiles
  <1>11. \A t \in Threads : (Opened(t) => Opened(t)') /\ (~Opened(t)' => ~Opened(t))
    BY <1>6, <1>7 DEF Opened
  <1>12. Streams'
    BY <1>5, <1>7, <1>11 DEF IInv, Streams, streams
  <1>13. Talk'
    BY <1>1, <1>2, <1>5, <1>11, TalkKept DEF IInv, clientVars, streams
  <1> QED
    BY <1>5, <1>8, <1>9, <1>10, <1>12, <1>13, ClientKept DEF IInv

\* Steps that only change queues, quietly.
LEMMA QueuesQuiet ==
  ASSUME IInv, UNCHANGED <<clientVars, threadVars, serverVars, streams>>,
         lost' \in 0 .. MaxLoss, inbox' \in [Ports -> Seq(Datagrams)], Quiet(inbox, inbox')
  PROVE  IInv'
  <1>1. ClientState'
    BY ClientKept
  <1> QED
    BY <1>1, ClientQuiet DEF IInv, TypeOK, clientVars

\* The listener answers what is no request with an ERROR.
LEMMA ListenBadOpcodeStep ==
  ASSUME IInv, ListenBadOpcode, UNCHANGED streams
  PROVE  IInv'
  <1> DEFINE w == recvfrom(ServerPort)
  <1>1. /\ inbox \in [Ports -> Seq(Datagrams)] /\ ServerPort \in Ports /\ inbox[ServerPort] # <<>>
        /\ Open \in SUBSET Ports
    BY PortFacts DEF IInv, TypeOK, ListenBadOpcode, ListenerReceives
  <1>2. w \in [Ports -> Seq(Datagrams)] /\ Quiet(inbox, w)
    BY <1>1, RecvfromFacts, QuietRecv
  <1>3. inbox' = sendto(w, Open, ServerPort, Received(ServerPort).src,
                        createErrorPacket(ILLEGAL_TFTP_OPERATION))
    BY DEF ListenBadOpcode, ListenerRejects
  <1>4. createErrorPacket(ILLEGAL_TFTP_OPERATION) \in Packets
        /\ createErrorPacket(ILLEGAL_TFTP_OPERATION).op \notin {ACK, DATA}
    BY QuietErrors DEF ILLEGAL_TFTP_OPERATION
  <1> HIDE DEF w
  <1>5. inbox' \in [Ports -> Seq(Datagrams)] /\ Quiet(w, inbox')
    BY <1>1, <1>2, <1>3, <1>4, QuietSend
  <1>6. Quiet(inbox, inbox')
    BY <1>2, <1>5, QuietTrans
  <1> QED
    BY <1>5, <1>6, QueuesQuiet DEF ListenBadOpcode, IInv, TypeOK

\* The network loses a datagram.
LEMMA LoseStep ==
  ASSUME IInv, Lose, UNCHANGED streams
  PROVE  IInv'
  <1>1. PICK p \in Ports : inbox[p] # <<>> /\ inbox' = recvfrom(p)
    BY DEF Lose, NetLose
  <1>2. inbox' \in [Ports -> Seq(Datagrams)] /\ Quiet(inbox, inbox')
    BY <1>1, RecvfromFacts, QuietRecv DEF IInv, TypeOK
  <1>3. lost' \in 0 .. MaxLoss
    BY LoopbackAssumption DEF Lose, NetLose, IInv, TypeOK
  <1> QED
    BY <1>2, <1>3, QueuesQuiet DEF Lose

---------------------------------------------------------------------------
(* The steps of the threads that say nothing in the talk.                  *)

\* Thread t goes on at label l without accepting a block.
LEMMA ThreadQuiet ==
  ASSUME IInv, NEW t \in Threads, tpc[t] # "free",
         NEW l \in {"start", "open", "wait", "close", "done"},
         tpc' = [tpc EXCEPT ![t] = l],
         Opened(t) => l \notin {"start", "open"},
         l \in {"open", "wait", "close"} => tfile[t] \notin DOMAIN Database,
         UNCHANGED <<clientVars, tfile, block, stream, nextId>>,
         tretry' \in [Threads -> 0 .. MaxRetry],
         \A u \in Threads \ {t} : tretry'[u] = tretry[u],
         l = "wait" => tretry'[t] > 0,
         lost' \in 0 .. MaxLoss, inbox' \in [Ports -> Seq(Datagrams)], Quiet(inbox, inbox'),
         flushed' \in [Threads -> Nat], \A u \in Threads : flushed'[u] <= Len(stream[u]),
         DOMAIN files \subseteq DOMAIN files', DOMAIN files' \subseteq Names,
         \A f \in DOMAIN files' : files'[f] = 0,
         DOMAIN disk' = DOMAIN disk,
         \A f \in DOMAIN disk : disk'[f] \in Seq(Byte \cup {Hole}),
         \A f \in DOMAIN Database : disk'[f] = disk[f]
  PROVE  IInv'
  <1>1. tpc \in [Threads -> {"free", "bind", "start", "open", "wait", "insert", "close", "done"}]
    BY DEF IInv, TypeOK
  <1>2. tpc'[t] = l /\ \A u \in Threads \ {t} : tpc'[u] = tpc[u]
    BY <1>1
  <1>3. TypeOK'
    BY <1>1 DEF IInv, TypeOK, clientVars
  <1>4. ThreadState'
    BY <1>2 DEF IInv, ThreadState
  <1>5. NewNames'
    BY <1>2 DEF IInv, NewNames
  <1>6. OldFiles'
    BY DEF IInv, OldFiles
  <1>7. \A u \in Threads : Opened(u) => Opened(u)'
    BY <1>2 DEF Opened
  <1>8. Streams'
    BY <1>2, <1>7 DEF IInv, Streams
  <1>9. Talk'
    BY <1>7, TalkKept DEF IInv, TypeOK, clientVars
  <1> QED
    BY <1>3, <1>4, <1>5, <1>6, <1>8, <1>9, ClientKept DEF IInv

\* The same when neither the map nor the directory changes.
LEMMA ThreadQuieter ==
  ASSUME IInv, NEW t \in Threads, tpc[t] # "free",
         NEW l \in {"start", "open", "wait", "close", "done"},
         tpc' = [tpc EXCEPT ![t] = l],
         Opened(t) => l \notin {"start", "open"},
         l \in {"open", "wait", "close"} => tfile[t] \notin DOMAIN Database,
         UNCHANGED <<clientVars, tfile, block, serverVars, streams>>,
         tretry' \in [Threads -> 0 .. MaxRetry],
         \A u \in Threads \ {t} : tretry'[u] = tretry[u],
         l = "wait" => tretry'[t] > 0,
         lost' \in 0 .. MaxLoss, inbox' \in [Ports -> Seq(Datagrams)], Quiet(inbox, inbox')
  PROVE  IInv'
  <1>1. UNCHANGED <<stream, nextId, files, disk, flushed>>
    BY DEF serverVars, streams
  <1>2. /\ flushed' \in [Threads -> Nat] /\ \A u \in Threads : flushed'[u] <= Len(stream[u])
        /\ DOMAIN files \subseteq DOMAIN files' /\ DOMAIN files' \subseteq Names
        /\ \A f \in DOMAIN files' : files'[f] = 0
        /\ DOMAIN disk' = DOMAIN disk
        /\ \A f \in DOMAIN disk : disk'[f] \in Seq(Byte \cup {Hole})
        /\ \A f \in DOMAIN Database : disk'[f] = disk[f]
    BY <1>1 DEF IInv, TypeOK
  <1> QED
    BY <1>1, <1>2, ThreadQuiet

\* A thread sends an ERROR.
LEMMA ThreadSendsError ==
  ASSUME NEW q \in [Ports -> Seq(Datagrams)], NEW t \in Threads, NEW c \in 0 .. 7
  PROVE  /\ threadSend(q, t, createErrorPacket(c)) \in [Ports -> Seq(Datagrams)]
         /\ Quiet(q, threadSend(q, t, createErrorPacket(c)))
  <1>1. Open \in SUBSET Ports /\ ThreadPort(t) \in Ports \cup {0}
    BY PortFacts
  <1> QED
    BY <1>1, QuietErrors, QuietSend DEF threadSend

\* A thread closes its socket.
LEMMA ThreadCloses ==
  ASSUME NEW q \in [Ports -> Seq(Datagrams)], Quiet(inbox, q), NEW t \in Threads
  PROVE  /\ closeSocket(q, ThreadPort(t)) \in [Ports -> Seq(Datagrams)]
         /\ Quiet(inbox, closeSocket(q, ThreadPort(t)))
  BY CloseFacts, QuietClose, QuietTrans, PortFacts

\* It does both and returns.
LEMMA ThreadGivesUp ==
  ASSUME inbox \in [Ports -> Seq(Datagrams)], NEW t \in Threads, NEW c \in 0 .. 7,
         inbox' = closeSocket(threadSend(inbox, t, createErrorPacket(c)), ThreadPort(t))
  PROVE  inbox' \in [Ports -> Seq(Datagrams)] /\ Quiet(inbox, inbox')
  <1> DEFINE q == threadSend(inbox, t, createErrorPacket(c))
  <1>1. q \in [Ports -> Seq(Datagrams)] /\ Quiet(inbox, q)
    BY ThreadSendsError
  <1> HIDE DEF q
  <1>2. /\ closeSocket(q, ThreadPort(t)) \in [Ports -> Seq(Datagrams)]
        /\ Quiet(inbox, closeSocket(q, ThreadPort(t)))
    BY <1>1, ThreadCloses
  <1> QED
    BY <1>2 DEF q

\* What every step of a thread may rely on.
LEMMA ThreadFacts ==
  ASSUME IInv
  PROVE  /\ inbox \in [Ports -> Seq(Datagrams)] /\ Quiet(inbox, inbox)
         /\ lost \in 0 .. MaxLoss
         /\ tretry \in [Threads -> 0 .. MaxRetry]
         /\ tpc \in [Threads -> {"free", "bind", "start", "open", "wait", "insert", "close", "done"}]
         /\ MaxRetry \in 0 .. MaxRetry /\ MaxRetry > 0
  BY TameSelf, SessionsAssumption DEF IInv, TypeOK, Quiet

\* The thread binds its port.
LEMMA BindStep ==
  ASSUME IInv, NEW t \in Threads, Bind(t), UNCHANGED streams
  PROVE  IInv'
  <1>1. /\ tpc[t] = "bind" /\ tpc' = [tpc EXCEPT ![t] = "start"]
        /\ UNCHANGED <<clientVars, tfile, block, tretry, serverVars, inbox, lost>>
    BY DEF Bind, ThreadAt, Goto, netVars
  <1>2. ~Opened(t)
    BY <1>1 DEF Opened
  <1> QED
    BY <1>1, <1>2, ThreadFacts, ThreadQuieter

\* The thread refuses a name in the map.
LEMMA WriteExistsStep ==
  ASSUME IInv, NEW t \in Threads, WriteExists(t)
  PROVE  IInv'
  <1>1. /\ tpc[t] = "start" /\ tpc' = [tpc EXCEPT ![t] = "done"]
        /\ inbox' = closeSocket(threadSend(inbox, t, createErrorPacket(FILE_ALREADY_EXISTS)),
                                ThreadPort(t))
        /\ UNCHANGED <<clientVars, tfile, block, tretry, serverVars, lost, streams>>
    BY DEF WriteExists, ThreadAt, ThreadReturns, Goto
  <1>2. inbox' \in [Ports -> Seq(Datagrams)] /\ Quiet(inbox, inbox')
    BY <1>1, ThreadFacts, ThreadGivesUp DEF FILE_ALREADY_EXISTS
  <1> QED
    BY <1>1, <1>2, ThreadFacts, ThreadQuieter

\* The thread goes on with a name that is not in the map, so new to the server.
LEMMA WriteAllowedStep ==
  ASSUME IInv, NEW t \in Threads, WriteAllowed(t)
  PROVE  IInv'
  <1>1. /\ tpc[t] = "start" /\ tpc' = [tpc EXCEPT ![t] = "open"]
        /\ UNCHANGED <<clientVars, tfile, block, tretry, serverVars, inbox, lost, streams>>
    BY DEF WriteAllowed, ThreadAt, Goto, netVars
  <1>2. ~Opened(t)
    BY <1>1 DEF Opened
  <1>3. tfile[t] \notin DOMAIN Database
    BY DEF WriteAllowed, fileExists, IInv, NewNames
  <1> QED
    BY <1>1, <1>2, <1>3, ThreadFacts, ThreadQuieter

\* The open fails.
LEMMA OpenFailsStep ==
  ASSUME IInv, NEW t \in Threads, OpenFails(t)
  PROVE  IInv'
  <1>1. /\ tpc[t] = "open" /\ tpc' = [tpc EXCEPT ![t] = "done"]
        /\ inbox' = closeSocket(threadSend(inbox, t, createErrorPacket(DISK_FULL)), ThreadPort(t))
        /\ UNCHANGED <<clientVars, tfile, block, tretry, serverVars, lost, streams>>
    BY DEF OpenFails, ThreadAt, ThreadReturns, Goto
  <1>2. inbox' \in [Ports -> Seq(Datagrams)] /\ Quiet(inbox, inbox')
    BY <1>1, ThreadFacts, ThreadGivesUp DEF DISK_FULL
  <1> QED
    BY <1>1, <1>2, ThreadFacts, ThreadQuieter

\* What a waiting thread knows of the datagram at the head of its queue.
LEMMA HeadAtThread ==
  ASSUME IInv, NEW t \in Threads, DataArrives(t)
  PROVE  /\ tpc[t] = "wait" /\ tfile[t] \notin DOMAIN Database /\ Opened(t)
         /\ ThreadPort(t) \in Ports /\ inbox[ThreadPort(t)] \in Seq(Datagrams)
         /\ inbox[ThreadPort(t)] # <<>>
         /\ Received(ThreadPort(t)) \in Datagrams
         /\ Received(ThreadPort(t)) \in InQueue(inbox[ThreadPort(t)])
         /\ recvfrom(ThreadPort(t)) \in [Ports -> Seq(Datagrams)]
         /\ Quiet(inbox, recvfrom(ThreadPort(t)))
  <1>1. /\ tpc[t] = "wait" /\ inbox[ThreadPort(t)] # <<>>
        /\ ThreadPort(t) \in Ports /\ inbox \in [Ports -> Seq(Datagrams)]
    BY PortFacts DEF DataArrives, ThreadAt, IInv, TypeOK
  <1>2. tfile[t] \notin DOMAIN Database /\ Opened(t)
    BY <1>1 DEF IInv, NewNames, Opened
  <1> QED
    BY <1>1, <1>2, RecvfromFacts, QuietRecv

\* The thread takes a datagram and answers with an ERROR.
LEMMA ThreadRejects ==
  ASSUME IInv, NEW t \in Threads, DataArrives(t), NEW c \in 0 .. 7
  PROVE  LET q == threadSend(recvfrom(ThreadPort(t)), t, createErrorPacket(c)) IN
         q \in [Ports -> Seq(Datagrams)] /\ Quiet(inbox, q)
  BY HeadAtThread, ThreadSendsError, QuietTrans

\* A write fails.
LEMMA WriteFailsStep ==
  ASSUME IInv, NEW t \in Threads, WriteFails(t)
  PROVE  IInv'
  <1>1. /\ DataArrives(t) /\ tpc' = [tpc EXCEPT ![t] = "close"]
        /\ inbox' = threadSend(recvfrom(ThreadPort(t)), t, createErrorPacket(DISK_FULL))
        /\ tretry' = [tretry EXCEPT ![t] = MaxRetry]
        /\ UNCHANGED <<clientVars, tfile, block, serverVars, lost, streams>>
    BY DEF WriteFails, Goto
  <1>2. inbox' \in [Ports -> Seq(Datagrams)] /\ Quiet(inbox, inbox')
    BY <1>1, ThreadRejects DEF DISK_FULL
  <1>3. /\ tretry' \in [Threads -> 0 .. MaxRetry]
        /\ \A u \in Threads \ {t} : tretry'[u] = tretry[u]
    BY <1>1, ThreadFacts
  <1>4. tpc[t] = "wait" /\ tfile[t] \notin DOMAIN Database
    BY <1>1, HeadAtThread
  <1> QED
    BY <1>1, <1>2, <1>3, <1>4, ThreadFacts, ThreadQuieter

\* The thread answers an unexpected packet with an ERROR.
LEMMA DataRejectedStep ==
  ASSUME IInv, NEW t \in Threads, DataRejected(t)
  PROVE  IInv'
  <1>1. PICK c \in 0 .. 7 :
            /\ DataArrives(t) /\ tpc' = tpc
            /\ inbox' = threadSend(recvfrom(ThreadPort(t)), t, createErrorPacket(c))
            /\ tretry' = [tretry EXCEPT ![t] = MaxRetry]
            /\ UNCHANGED <<clientVars, tfile, block, serverVars, lost, streams>>
    <2> DEFINE c == IF DataOf(t).op = DATA THEN NOT_DEFINED ELSE ILLEGAL_TFTP_OPERATION
    <2>1. c \in 0 .. 7
      BY DEF NOT_DEFINED, ILLEGAL_TFTP_OPERATION
    <2> QED
      BY <2>1 DEF DataRejected
  <1>2. inbox' \in [Ports -> Seq(Datagrams)] /\ Quiet(inbox, inbox')
    BY <1>1, ThreadRejects
  <1>3. /\ tretry' \in [Threads -> 0 .. MaxRetry] /\ tretry'[t] > 0
        /\ \A u \in Threads \ {t} : tretry'[u] = tretry[u]
    BY <1>1, ThreadFacts
  <1>4. tpc[t] = "wait" /\ tfile[t] \notin DOMAIN Database
    BY <1>1, HeadAtThread
  <1>5. tpc' = [tpc EXCEPT ![t] = "wait"]
    BY <1>1, <1>4, ThreadFacts
  <1> QED
    BY <1>1, <1>2, <1>3, <1>4, <1>5, ThreadFacts, ThreadQuieter

\* A timeout of the thread uses up a try, the last one ends the wait.
LEMMA DataTimeoutStep ==
  ASSUME IInv, NEW t \in Threads, DataTimeout(t)
  PROVE  IInv'
  <1> DEFINE l == IF outOfTries(tretry'[t]) THEN "close" ELSE "wait"
  <1>1. /\ tpc[t] = "wait" /\ tpc' = [tpc EXCEPT ![t] = l]
        /\ tretry' = [tretry EXCEPT ![t] = tretry[t] - 1]
        /\ UNCHANGED <<clientVars, tfile, block, serverVars, inbox, lost, streams>>
    BY DEF DataTimeout, ThreadTimeout, ThreadAt, Goto, retryAfterTimeout, netVars
  <1>2. tretry[t] \in 0 .. MaxRetry /\ tretry[t] > 0
    BY <1>1, ThreadFacts DEF IInv, ThreadState
  <1>3. /\ tretry' \in [Threads -> 0 .. MaxRetry] /\ tretry'[t] = tretry[t] - 1
        /\ \A u \in Threads \ {t} : tretry'[u] = tretry[u]
    BY <1>1, <1>2, ThreadFacts, SessionsAssumption
  <1>4. l = "wait" => tretry'[t] > 0
    BY <1>2, <1>3, SessionsAssumption DEF outOfTries
  <1>5. tfile[t] \notin DOMAIN Database /\ l \in {"wait", "close"}
    BY <1>1 DEF IInv, NewNames
  <1> HIDE DEF l
  <1> QED
    BY <1>1, <1>3, <1>4, <1>5, ThreadFacts, ThreadQuieter

\* The thread puts the name into the map.
LEMMA RegisterFileStep ==
  ASSUME IInv, NEW t \in Threads, RegisterFile(t)
  PROVE  IInv'
  <1>1. /\ tpc[t] = "insert" /\ tpc' = [tpc EXCEPT ![t] = "close"]
        /\ files' = mapInsert(files, tfile[t], 0)
        /\ UNCHANGED <<clientVars, tfile, block, tretry, disk, nextId, inbox, lost, stream, flushed>>
    BY DEF RegisterFile, ThreadAt, Goto, netVars, streams
  <1>2. tfile[t] \notin DOMAIN Database /\ tfile[t] \in Names
    BY <1>1 DEF IInv, NewNames, ThreadState
  <1>3. /\ DOMAIN files \subseteq Names /\ \A f \in DOMAIN files : files[f] = 0
    BY DEF IInv, TypeOK
  <1>4. /\ DOMAIN files \subseteq DOMAIN files' /\ DOMAIN files' \subseteq Names
        /\ \A f \in DOMAIN files' : files'[f] = 0
    BY <1>1, <1>2, <1>3 DEF mapInsert
  <1>5. /\ flushed' \in [Threads -> Nat] /\ \A u \in Threads : flushed'[u] <= Len(stream[u])
        /\ DOMAIN disk' = DOMAIN disk
        /\ \A f \in DOMAIN disk : disk'[f] \in Seq(Byte \cup {Hole})
    BY <1>1 DEF IInv, TypeOK
  <1> QED
    BY <1>1, <1>2, <1>4, <1>5, ThreadFacts, ThreadQuiet

---------------------------------------------------------------------------
(* The steps of the threads that acknowledge.                              *)

\* A datagram of another kind does not count.
LEMMA AppendOther ==
  ASSUME NEW q \in Seq(Datagrams), NEW e \in Datagrams, NEW M, e \notin M, Once(q, M)
  PROVE  Once(Append(q, e), M)
  <1>1. /\ Len(q) \in Nat /\ Len(Append(q, e)) = Len(q) + 1
        /\ \A i \in 1 .. Len(q) : Append(q, e)[i] = q[i]
        /\ Append(q, e)[Len(q) + 1] = e
    OBVIOUS
  <1> QED
    BY <1>1 DEF Once

\* Thread t, with no block waiting for it, acknowledges what it has.
LEMMA AckSentTalk ==
  ASSUME IInv, NEW t \in Threads, NEW e \in Datagrams,
         e.src = ThreadPort(t), e.pkt.op = ACK, NtohsBlock(e.pkt) = Dec16(block'[t]),
         UNCHANGED clientVars, Opened(t)',
         \A u \in Threads \ {t} : block'[u] = block[u] /\ stream'[u] = stream[u]
                                  /\ tpc'[u] = tpc[u],
         \A d \in InQueue(inbox[ClientPort]) : d \notin AcksOf(t),
         inbox' \in [Ports -> Seq(Datagrams)],
         \A d \in InQueue(inbox'[ThreadPort(t)]) : d \notin Tokens,
         \A p \in Ports \ {ThreadPort(t), ClientPort} : inbox'[p] = inbox[p],
         inbox'[ClientPort] \in {inbox[ClientPort], Append(inbox[ClientPort], e)},
         cpc = "run" /\ cport = ThreadPort(t) /\ block'[t] = Inc16(expected) =>
             stream'[t] = Blocks(Local[cfile], expected)
  PROVE  Talk'
  <1> DEFINE q == inbox[ClientPort]
  <1>1. /\ q \in Seq(Datagrams) /\ ClientPort \in Ports /\ ThreadPort(t) \in Ports
        /\ inbox'[ThreadPort(t)] \in Seq(Datagrams)
    BY PortFacts DEF IInv, TypeOK
  <1>2. InQueue(q) \subseteq Datagrams /\ InQueue(Append(q, e)) = InQueue(q) \cup {e}
        /\ InQueue(inbox'[ThreadPort(t)]) \subseteq Datagrams
    BY <1>1, QueueContents
  <1>3. ASSUME NEW d \in InQueue(inbox'[ThreadPort(t)])
        PROVE  d.pkt.op # ACK /\ d.pkt.op # DATA
    BY <1>2, <1>3 DEF Tokens
  <1>4. ASSUME NEW u \in Threads, u # t
        PROVE  /\ inbox'[ThreadPort(u)] = inbox[ThreadPort(u)] /\ e \notin AcksOf(u)
               /\ block'[u] = block[u] /\ stream'[u] = stream[u] /\ tpc'[u] = tpc[u]
    BY <1>4, PortFacts DEF AcksOf
  <1>5. e \in AcksOf(t)
    BY DEF AcksOf
  <1>6. Once(inbox'[ClientPort], AcksOf(t))
    <2>1. Once(q, AcksOf(t))
      BY DEF IInv, Talk, OneUnderWay
    <2>2. Once(Append(q, e), AcksOf(t))
      BY <1>1, AppendOnce
    <2> QED
      BY <2>1, <2>2
  <1> HIDE DEF q
  <1>7. \A d \in InQueue(inbox'[ClientPort]) : d \in InQueue(q) \/ d = e
    BY <1>2 DEF q
  <1>8. ClientQueue'
    <2> SUFFICES ASSUME NEW d \in InQueue(inbox'[ClientPort])
                 PROVE  /\ d.pkt.op # DATA
                        /\ d.pkt.op = ACK => \E u \in Threads :
                              d.src = ThreadPort(u) /\ Opened(u)' /\ NtohsBlock(d.pkt) = Dec16(block'[u])
      BY DEF ClientQueue
    <2>1. CASE d = e
      BY <2>1 DEF ACK, DATA
    <2>2. CASE d \in InQueue(q)
      <3>1. d.pkt.op # DATA
        BY <2>2 DEF IInv, Talk, ClientQueue, q
      <3>2. ASSUME d.pkt.op = ACK
            PROVE  \E u \in Threads :
                     d.src = ThreadPort(u) /\ Opened(u)' /\ NtohsBlock(d.pkt) = Dec16(block'[u])
        <4>1. PICK u \in Threads :
                 d.src = ThreadPort(u) /\ Opened(u) /\ NtohsBlock(d.pkt) = Dec16(block[u])
          BY <2>2, <3>2 DEF IInv, Talk, ClientQueue, q
        <4>2. u # t
          BY <2>2, <3>2, <4>1, <1>2 DEF AcksOf, q
        <4> QED
          BY <4>1, <4>2, <1>4 DEF Opened
      <3> QED
        BY <3>1, <3>2
    <2> QED
      BY <2>1, <2>2, <1>7
  <1>9. ASSUME NEW u \in Threads
        PROVE  OneUnderWay(u)'
    <2>1. CASE u = t
      <3>1. Once(inbox'[ThreadPort(t)], Tokens)
        BY <1>1 DEF Once, InQueue
      <3> QED
        BY <2>1, <3>1, <1>6 DEF OneUnderWay
    <2>2. CASE u # t
      <3>1. OneUnderWay(u) /\ Once(q, AcksOf(u))
        BY DEF IInv, Talk, OneUnderWay, q
      <3>2. Once(inbox'[ClientPort], AcksOf(u))
        BY <2>2, <3>1, <1>1, <1>4, AppendOther DEF q
      <3>3. \/ \A d \in InQueue(inbox'[ClientPort]) : d \notin AcksOf(u)
            \/ \A d \in InQueue(inbox'[ThreadPort(u)]) : d \notin Tokens
        BY <2>2, <3>1, <1>4, <1>7 DEF OneUnderWay, q
      <3> QED
        BY <2>2, <3>1, <3>2, <3>3, <1>4 DEF OneUnderWay
    <2> QED
      BY <2>1, <2>2
  <1>10. ASSUME NEW u \in Threads
         PROVE  ThreadQueue(u)'
    <2>1. CASE u = t
      BY <2>1, <1>3 DEF ThreadQueue
    <2>2. CASE u # t
      BY <2>2, <1>4 DEF IInv, Talk, ThreadQueue, NextOf, Opened
    <2> QED
      BY <2>1, <2>2
  <1>11. ASSUME NEW u \in Threads
         PROVE  Partner(u)'
    <2>1. CASE u = t
      BY <2>1, <1>3 DEF Partner, clientVars
    <2>2. CASE u # t
      BY <2>2, <1>4 DEF IInv, Talk, Partner, NextOf, clientVars
    <2> QED
      BY <2>1, <2>2
  <1> QED
    BY <1>8, <1>9, <1>10, <1>11 DEF Talk

\* The queues after thread t sent an ACK.
LEMMA AckSent ==
  ASSUME NEW q \in [Ports -> Seq(Datagrams)], NEW t \in Threads, NEW b \in UInt16
  PROVE  LET r == threadSend(q, t, createACKPacket(b)) IN
         \E e \in Datagrams :
           /\ e.src = ThreadPort(t) /\ e.pkt.op = ACK /\ NtohsBlock(e.pkt) = b
           /\ r \in [Ports -> Seq(Datagrams)]
           /\ \A p \in Ports \ {ClientPort} : r[p] = q[p]
           /\ r[ClientPort] \in {q[ClientPort], Append(q[ClientPort], e)}
  <1> DEFINE e == [src |-> ThreadPort(t), pkt |-> createACKPacket(b)]
             r == threadSend(q, t, createACKPacket(b))
  <1>1. /\ createACKPacket(b) \in Packets /\ createACKPacket(b).op = ACK
        /\ NtohsBlock(createACKPacket(b)) = b
    BY PacketTypes, WireRoundTrip DEF createACKPacket
  <1>2. ThreadPort(t) \in Ports /\ ClientPort \in Ports /\ Open \in SUBSET Ports
    BY PortFacts
  <1>3. e \in Datagrams /\ e.src = ThreadPort(t) /\ e.pkt.op = ACK /\ NtohsBlock(e.pkt) = b
    BY <1>1, <1>2 DEF Datagrams
  <1>4. r = sendto(q, Open, ThreadPort(t), ClientPort, createACKPacket(b))
    BY DEF threadSend
  <1>5. r \in [Ports -> Seq(Datagrams)]
    BY <1>1, <1>2, <1>4, SendtoFacts
  <1>6. r = q \/ r = [q EXCEPT ![ClientPort] = Append(@, e)]
    BY <1>4 DEF sendto
  <1> HIDE DEF e, r
  <1>7. /\ \A p \in Ports \ {ClientPort} : r[p] = q[p]
        /\ r[ClientPort] \in {q[ClientPort], Append(q[ClientPort], e)}
    BY <1>2, <1>6
  <1> QED
    BY <1>3, <1>5, <1>7 DEF r

\* The thread opens its file and sends ACK 0: the first piece of its talk.
LEMMA OpenFileStep ==
  ASSUME IInv, NEW t \in Threads, OpenFile(t)
  PROVE  IInv'
  <1>1. /\ tpc[t] = "open" /\ tpc' = [tpc EXCEPT ![t] = "wait"]
        /\ stream' = [stream EXCEPT ![t] = <<>>] /\ flushed' = [flushed EXCEPT ![t] = 0]
        /\ block' = [block EXCEPT ![t] = 1] /\ tretry' = [tretry EXCEPT ![t] = MaxRetry]
        /\ inbox' = threadSend(inbox, t, createACKPacket(0))
        /\ disk' = [f \in DOMAIN disk \cup {tfile[t]} |->
                      IF f = tfile[t] THEN <<>> ELSE disk[f]]
        /\ UNCHANGED <<clientVars, tfile, files, nextId, lost>>
    BY DEF OpenFile, ThreadAt, Goto
  <1>2. /\ tfile[t] \in Names /\ tfile[t] \notin DOMAIN Database /\ stream[t] = <<>> /\ ~Opened(t)
    BY <1>1 DEF IInv, ThreadState, NewNames, Streams, Opened
  <1>3. stream' = stream
    BY <1>1, <1>2 DEF IInv, TypeOK
  <1>4. 0 \in UInt16 /\ 1 \in UInt16 /\ Dec16(1) = 0
    <2>1. 0 \in UInt16 /\ 1 \in UInt16
      BY U16Type DEF UInt16
    <2> QED
      BY <2>1, Counter16
  <1>5. /\ tpc'[t] = "wait" /\ block'[t] = 1 /\ tretry'[t] = MaxRetry /\ flushed'[t] = 0
        /\ \A u \in Threads \ {t} : tpc'[u] = tpc[u] /\ block'[u] = block[u]
              /\ tretry'[u] = tretry[u] /\ flushed'[u] = flushed[u]
    BY <1>1 DEF IInv, TypeOK
  <1>6. PICK e \in Datagrams :
           /\ e.src = ThreadPort(t) /\ e.pkt.op = ACK /\ NtohsBlock(e.pkt) = 0
           /\ inbox' \in [Ports -> Seq(Datagrams)]
           /\ \A p \in Ports \ {ClientPort} : inbox'[p] = inbox[p]
           /\ inbox'[ClientPort] \in {inbox[ClientPort], Append(inbox[ClientPort], e)}
    <2>1. inbox \in [Ports -> Seq(Datagrams)]
      BY ThreadFacts
    <2> HIDE DEF IInv
    <2> QED
      BY <1>1, <1>4, <2>1, AckSent
  <1>7. /\ DOMAIN disk' = DOMAIN disk \cup {tfile[t]}
        /\ \A f \in DOMAIN disk' : disk'[f] = IF f = tfile[t] THEN <<>> ELSE disk[f]
    BY <1>1
  <1>8. TypeOK'
    <2>1. /\ DOMAIN disk' \subseteq Names
          /\ \A f \in DOMAIN disk' : disk'[f] \in Seq(Byte \cup {Hole})
      BY <1>2, <1>7 DEF IInv, TypeOK
    <2>2. flushed' \in [Threads -> Nat]
      BY <1>1 DEF IInv, TypeOK
    <2>3. \A u \in Threads : flushed'[u] <= Len(stream'[u])
      <3>1. flushed'[t] = 0 /\ Len(stream'[t]) = 0
        BY <1>2, <1>3, <1>5
      <3>2. \A u \in Threads : flushed[u] <= Len(stream[u])
        BY DEF IInv, TypeOK
      <3> QED
        BY <3>1, <3>2, <1>3, <1>5
    <2> QED
      BY <2>1, <2>2, <2>3, <1>1, <1>3, <1>4, <1>6, ThreadFacts DEF IInv, TypeOK, clientVars
  <1>9. ThreadState' /\ NewNames'
    BY <1>1, <1>2, <1>5, ThreadFacts DEF IInv, ThreadState, NewNames
  <1>10. OldFiles'
    BY <1>2, <1>7 DEF IInv, OldFiles
  <1>11. Streams'
    BY <1>2, <1>3, <1>5 DEF IInv, Streams, Opened
  <1>12. Talk'
    <2>1. \A d \in InQueue(inbox[ClientPort]) : d \notin AcksOf(t)
      BY <1>2, PortFacts DEF IInv, Talk, ClientQueue, AcksOf
    <2>2. \A d \in InQueue(inbox'[ThreadPort(t)]) : d \notin Tokens
      BY <1>2, <1>6, PortFacts DEF IInv, Talk, ThreadQueue, Tokens
    <2>3. cpc = "run" /\ cport = ThreadPort(t) /\ block'[t] = Inc16(expected) =>
             stream'[t] = Blocks(Local[cfile], expected)
      BY <1>5, NextNumber, PortFacts DEF IInv, TypeOK, ClientState
    <2>4. Opened(t)' /\ NtohsBlock(e.pkt) = Dec16(block'[t])
      BY <1>4, <1>5, <1>6 DEF Opened
    <2> QED
      BY <2>1, <2>2, <2>3, <2>4, <1>1, <1>3, <1>5, <1>6, AckSentTalk
  <1> QED
    BY <1>1, <1>8, <1>9, <1>10, <1>11, <1>12, ClientKept DEF IInv

\* writeAt writes bytes, and holes where nothing was written.
LEMMA WriteAtType ==
  ASSUME NEW S, NEW old \in Seq(S \cup {Hole}), NEW off \in Nat, NEW bytes \in Seq(S)
  PROVE  writeAt(old, off, bytes) \in Seq(S \cup {Hole})
  <1> DEFINE last == IF Len(old) > off + Len(bytes) THEN Len(old) ELSE off + Len(bytes)
             w(i) == IF i > off /\ i <= off + Len(bytes) THEN bytes[i - off]
                     ELSE IF i <= Len(old) THEN old[i] ELSE Hole
  <1>1. Len(old) \in Nat /\ Len(bytes) \in Nat /\ last \in Nat
    OBVIOUS
  <1>2. writeAt(old, off, bytes) = [i \in 1 .. last |-> w(i)]
    BY DEF writeAt
  <1>3. ASSUME NEW i \in 1 .. last
        PROVE  w(i) \in S \cup {Hole}
    <2>1. CASE i > off /\ i <= off + Len(bytes)
      <3>1. i - off \in 1 .. Len(bytes)
        BY <1>1, <2>1
      <3> QED
        BY <2>1, <3>1
    <2>2. CASE ~(i > off /\ i <= off + Len(bytes))
      BY <1>1, <2>2
    <2> QED
      BY <2>1, <2>2
  <1> HIDE DEF last, w
  <1> QED
    BY <1>1, <1>2, <1>3

\* Flushing thread t's stream touches no file the server started with.
LEMMA FlushFacts ==
  ASSUME IInv, NEW t \in Threads, NEW bytes \in Seq(Byte), flushed[t] <= Len(bytes),
         tfile[t] \notin DOMAIN Database
  PROVE  /\ DOMAIN Flush(t, bytes) = DOMAIN disk
         /\ \A f \in DOMAIN disk : Flush(t, bytes)[f] \in Seq(Byte \cup {Hole})
         /\ \A f \in DOMAIN Database : Flush(t, bytes)[f] = disk[f]
  <1> DEFINE rest == SubSeq(bytes, flushed[t] + 1, Len(bytes))
  <1>1. /\ \A f \in DOMAIN disk : disk[f] \in Seq(Byte \cup {Hole})
        /\ DOMAIN Database \subseteq DOMAIN disk /\ flushed[t] \in Nat
    BY DEF IInv, TypeOK, OldFiles
  <1>2. CASE rest = <<>>
    BY <1>1, <1>2 DEF Flush
  <1>3. CASE rest # <<>>
    <2>1. Flush(t, bytes) = [disk EXCEPT ![tfile[t]] = writeAt(@, flushed[t], rest)]
      BY <1>3 DEF Flush
    <2>2. rest \in Seq(Byte)
      BY <1>1
    <2> HIDE DEF rest
    <2>3. tfile[t] \in DOMAIN disk =>
            writeAt(disk[tfile[t]], flushed[t], rest) \in Seq(Byte \cup {Hole})
      BY <1>1, <2>2, WriteAtType
    <2>4. /\ DOMAIN Flush(t, bytes) = DOMAIN disk
          /\ \A f \in DOMAIN disk : Flush(t, bytes)[f] =
               IF f = tfile[t] THEN writeAt(disk[f], flushed[t], rest) ELSE disk[f]
      BY <2>1
    <2> QED
      BY <2>3, <2>4, <1>1
  <1> QED
    BY <1>2, <1>3

\* The block that comes next makes the stream the file up to that block.
LEMMA Accepted ==
  ASSUME IInv, NEW t \in Threads, NEW f \in DOMAIN Local, NEW p, NextOf(t, f, p)
  PROVE  /\ p.data \in Seq(Byte)
         /\ stream[t] \o p.data = Blocks(Local[f], block[t])
         /\ isShort(p.data) => stream[t] \o p.data = Local[f]
  <1>1. /\ block[t] \in UInt16 /\ block[t] # 0 /\ block[t] \in Nat /\ block[t] > 0
        /\ Local[f] \in Seq(Byte)
    BY WriteAssumption, U16Type DEF NextOf, IInv, TypeOK, UInt16
  <1>2. Dec16(block[t]) = block[t] - 1
    BY <1>1, Counter16
  <1>3. /\ p.data = readDataBlock(Local[f], block[t]) /\ p.data # <<>>
        /\ stream[t] = Blocks(Local[f], block[t] - 1)
    BY <1>2 DEF NextOf
  <1>4. /\ readDataBlock(Local[f], block[t]) \in Seq(Byte)
        /\ Blocks(Local[f], block[t] - 1) \o readDataBlock(Local[f], block[t])
             = Blocks(Local[f], block[t])
        /\ Len(readDataBlock(Local[f], block[t])) < BlockSize
             <=> Len(Local[f]) < block[t] * BlockSize
        /\ Len(Local[f]) < block[t] * BlockSize => Blocks(Local[f], block[t]) = Local[f]
    BY <1>1, <1>3, BlockTiling
  <1> QED
    BY <1>3, <1>4 DEF isShort

\* The thread accepts the block under way, the only one, and acknowledges it.
LEMMA BlockWrittenStep ==
  ASSUME IInv, NEW t \in Threads, BlockWritten(t)
  PROVE  IInv'
  <1> DEFINE p == DataOf(t)
             bytes == stream[t] \o p.data
             l == IF isShort(p.data) THEN "insert" ELSE "wait"
  <1>1. /\ DataArrives(t) /\ p.op = DATA /\ NtohsBlock(p) = block[t]
        /\ tpc' = [tpc EXCEPT ![t] = l] /\ tretry' = [tretry EXCEPT ![t] = MaxRetry]
        /\ stream' = [stream EXCEPT ![t] = bytes]
        /\ \/ disk' = Flush(t, bytes) /\ flushed' = [flushed EXCEPT ![t] = Len(bytes)]
           \/ UNCHANGED <<disk, flushed>>
        /\ block' = [block EXCEPT ![t] = Inc16(block[t])]
        /\ inbox' = threadSend(recvfrom(ThreadPort(t)), t, createACKPacket(block[t]))
        /\ UNCHANGED <<clientVars, tfile, files, nextId, lost>>
    BY DEF BlockWritten, IsNextBlock, Goto
  <1>2. /\ Received(ThreadPort(t)) \in InQueue(inbox[ThreadPort(t)])
        /\ Received(ThreadPort(t)) \in Datagrams /\ p = Received(ThreadPort(t)).pkt
        /\ tpc[t] = "wait" /\ Opened(t) /\ tfile[t] \notin DOMAIN Database
        /\ inbox \in [Ports -> Seq(Datagrams)] /\ inbox[ThreadPort(t)] \in Seq(Datagrams)
        /\ inbox[ThreadPort(t)] # <<>> /\ ThreadPort(t) \in Ports
        /\ recvfrom(ThreadPort(t)) \in [Ports -> Seq(Datagrams)]
    BY <1>1, HeadAtThread, ThreadFacts DEF DataOf
  <1>3. PICK f \in DOMAIN Local : NextOf(t, f, p)
    BY <1>1, <1>2 DEF IInv, Talk, ThreadQueue
  <1> HIDE DEF p
  <1>4. /\ p.data \in Seq(Byte) /\ bytes = Blocks(Local[f], block[t])
        /\ isShort(p.data) => bytes = Local[f]
    BY <1>3, Accepted
  <1>5. /\ stream[t] \in Seq(Byte) /\ bytes \in Seq(Byte) /\ Len(stream[t]) <= Len(bytes)
        /\ Len(bytes) \in Nat /\ flushed[t] <= Len(bytes)
    <2>1. stream[t] \in Seq(Byte) /\ flushed[t] \in Nat /\ flushed[t] <= Len(stream[t])
      BY DEF IInv, TypeOK
    <2>2. p.data \in Seq(Byte)
      BY <1>4
    <2>3. bytes = stream[t] \o p.data
      OBVIOUS
    <2> HIDE DEF bytes
    <2>4. bytes \in Seq(Byte) /\ Len(bytes) = Len(stream[t]) + Len(p.data)
      BY <2>1, <2>2, <2>3
    <2>5. \A s \in Seq(Byte) : Len(s) \in Nat
      OBVIOUS
    <2>6. Len(bytes) \in Nat /\ Len(stream[t]) \in Nat /\ Len(p.data) \in Nat
      BY <2>1, <2>2, <2>4, <2>5
    <2>7. \A a, b, c \in Nat : c <= a => a <= a + b /\ c <= a + b
      OBVIOUS
    <2> QED
      BY <2>1, <2>4, <2>6, <2>7
  <1>6. block[t] \in UInt16 /\ block[t] # 0
    BY <1>3 DEF NextOf, IInv, TypeOK
  <1>7. /\ Inc16(block[t]) \in UInt16 /\ Dec16(Inc16(block[t])) = block[t] /\ Inc16(block[t]) # 1
    BY <1>6, Counter16, NextNumber
  <1> HIDE DEF bytes
  <1>8. l \in {"wait", "insert"} /\ (l = "insert" => isShort(p.data))
    OBVIOUS
  <1> HIDE DEF l
  <1>9. /\ tpc'[t] = l /\ block'[t] = Inc16(block[t]) /\ stream'[t] = bytes /\ tretry'[t] = MaxRetry
        /\ \A u \in Threads \ {t} : tpc'[u] = tpc[u] /\ block'[u] = block[u]
              /\ stream'[u] = stream[u] /\ tretry'[u] = tretry[u]
    BY <1>1 DEF IInv, TypeOK
  <1>10. /\ flushed' \in [Threads -> Nat] /\ \A u \in Threads : flushed'[u] <= Len(stream'[u])
         /\ DOMAIN disk' = DOMAIN disk
         /\ \A x \in DOMAIN disk : disk'[x] \in Seq(Byte \cup {Hole})
         /\ \A x \in DOMAIN Database : disk'[x] = disk[x]
    <2>1. /\ flushed \in [Threads -> Nat] /\ \A u \in Threads : flushed[u] <= Len(stream[u])
          /\ \A x \in DOMAIN disk : disk[x] \in Seq(Byte \cup {Hole})
      BY DEF IInv, TypeOK
    <2>2. CASE disk' = Flush(t, bytes) /\ flushed' = [flushed EXCEPT ![t] = Len(bytes)]
      <3>1. /\ flushed' \in [Threads -> Nat] /\ flushed'[t] = Len(bytes)
            /\ \A u \in Threads \ {t} : flushed'[u] = flushed[u]
        BY <1>5, <2>1, <2>2
      <3>2. \A u \in Threads : flushed'[u] <= Len(stream'[u])
        BY <3>1, <1>5, <1>9, <2>1
      <3> QED
        BY <3>1, <3>2, <2>2, <1>2, <1>5, FlushFacts
    <2>3. CASE UNCHANGED <<disk, flushed>>
      BY <2>1, <2>3, <1>5, <1>9
    <2> QED
      BY <1>1, <2>2, <2>3
  <1> DEFINE w == recvfrom(ThreadPort(t))
  <1>11. w \in [Ports -> Seq(Datagrams)] /\ inbox' = threadSend(w, t, createACKPacket(block[t]))
    BY <1>1, <1>2
  <1>12. \A x \in Ports : w[x] = IF x = ThreadPort(t) THEN Tail(inbox[x]) ELSE inbox[x]
    BY <1>2 DEF recvfrom
  <1> HIDE DEF w
  <1>13. PICK e \in Datagrams :
           /\ e.src = ThreadPort(t) /\ e.pkt.op = ACK /\ NtohsBlock(e.pkt) = block[t]
           /\ inbox' \in [Ports -> Seq(Datagrams)]
           /\ \A x \in Ports \ {ClientPort} : inbox'[x] = w[x]
           /\ inbox'[ClientPort] \in {w[ClientPort], Append(w[ClientPort], e)}
    BY <1>6, <1>11, AckSent
  <1>14. TypeOK'
    <2>1. /\ tpc' \in [Threads -> {"free", "bind", "start", "open", "wait", "insert", "close", "done"}]
          /\ block' \in [Threads -> UInt16] /\ stream' \in [Threads -> Seq(Byte)]
          /\ tretry' \in [Threads -> 0 .. MaxRetry]
      BY <1>1, <1>5, <1>7, <1>8, ThreadFacts DEF IInv, TypeOK
    <2> QED
      BY <2>1, <1>1, <1>10, <1>13 DEF IInv, TypeOK, clientVars
  <1>15. ThreadState' /\ NewNames' /\ OldFiles'
    BY <1>1, <1>2, <1>8, <1>9, <1>10, ThreadFacts
    DEF IInv, ThreadState, NewNames, OldFiles
  <1>16. Opened(t)' /\ \A u \in Threads \ {t} : Opened(u)' <=> Opened(u)
    BY <1>8, <1>9 DEF Opened
  <1>17. Streams'
    BY <1>4, <1>7, <1>8, <1>9, <1>16 DEF IInv, Streams
  <1>18. Talk'
    <2>1. \A d \in InQueue(inbox[ClientPort]) : d \notin AcksOf(t)
      BY <1>1, <1>2 DEF IInv, Talk, OneUnderWay, Tokens, p
    <2>2. \A d \in InQueue(inbox'[ThreadPort(t)]) : d \notin Tokens
      <3>1. Head(inbox[ThreadPort(t)]) \in Tokens
        BY <1>1, <1>2 DEF Tokens, Received
      <3>2. Once(inbox[ThreadPort(t)], Tokens)
        BY DEF IInv, Talk, OneUnderWay
      <3>3. inbox'[ThreadPort(t)] = Tail(inbox[ThreadPort(t)])
        BY <1>2, <1>12, <1>13, PortFacts
      <3> QED
        BY <3>1, <3>2, <3>3, <1>2, TailClears
    <2>3. cpc = "run" /\ cport = ThreadPort(t) /\ block'[t] = Inc16(expected) =>
             stream'[t] = Blocks(Local[cfile], expected)
      <3> SUFFICES ASSUME cpc = "run", cport = ThreadPort(t)
                   PROVE  stream'[t] = Blocks(Local[cfile], expected)
        OBVIOUS
      <3>1. block[t] = expected /\ NextOf(t, cfile, p) /\ cfile \in DOMAIN Local
        BY <1>1, <1>2 DEF IInv, Talk, Partner, ClientState
      <3> QED
        BY <3>1, <1>9, Accepted DEF bytes
    <2>4. /\ \A x \in Ports \ {ThreadPort(t), ClientPort} : inbox'[x] = inbox[x]
          /\ inbox'[ClientPort] \in {inbox[ClientPort], Append(inbox[ClientPort], e)}
      BY <1>12, <1>13, PortFacts
    <2>5. NtohsBlock(e.pkt) = Dec16(block'[t])
      BY <1>7, <1>9, <1>13
    <2> QED
      BY <2>1, <2>2, <2>3, <2>4, <2>5, <1>1, <1>9, <1>13, <1>16, AckSentTalk
  <1> QED
    BY <1>1, <1>14, <1>15, <1>17, <1>18, ClientKept DEF IInv

\* The thread closes its file, which flushes it.
LEMMA CloseFileStep ==
  ASSUME IInv, NEW t \in Threads, CloseFile(t)
  PROVE  IInv'
  <1>1. /\ tpc[t] = "close" /\ tpc' = [tpc EXCEPT ![t] = "done"]
        /\ disk' = Flush(t, stream[t]) \/ disk' = disk
        /\ inbox' = closeSocket(inbox, ThreadPort(t))
        /\ UNCHANGED <<clientVars, tfile, block, tretry, files, nextId, lost, stream, flushed>>
    BY DEF CloseFile, ThreadAt, ThreadReturns, Goto, streams
  <1>2. tfile[t] \notin DOMAIN Database
    BY <1>1 DEF IInv, NewNames
  <1>3. inbox' \in [Ports -> Seq(Datagrams)] /\ Quiet(inbox, inbox')
    BY <1>1, ThreadFacts, ThreadCloses
  <1>4. /\ flushed \in [Threads -> Nat] /\ \A u \in Threads : flushed[u] <= Len(stream[u])
        /\ stream[t] \in Seq(Byte)
        /\ \A f \in DOMAIN disk : disk[f] \in Seq(Byte \cup {Hole})
        /\ DOMAIN files \subseteq Names /\ \A f \in DOMAIN files : files[f] = 0
    BY DEF IInv, TypeOK
  <1>5. /\ DOMAIN disk' = DOMAIN disk
        /\ \A f \in DOMAIN disk : disk'[f] \in Seq(Byte \cup {Hole})
        /\ \A f \in DOMAIN Database : disk'[f] = disk[f]
    BY <1>1, <1>2, <1>4, FlushFacts
  <1> QED
    BY <1>1, <1>2, <1>3, <1>4, <1>5, ThreadFacts, ThreadQuiet

---------------------------------------------------------------------------
(* The invariant, and the theorems.                                        *)

\* It holds before the first client.
LEMMA InitInv == WInit => IInv
  <1> SUFFICES ASSUME WInit PROVE IInv
    OBVIOUS
  <1> USE DEF WInit, Init, InitWith, NetInit
  <1>1. 0 \in UInt16 /\ MaxRetry \in 0 .. MaxRetry /\ MaxLoss \in Nat
    BY U16Type, SessionsAssumption, LoopbackAssumption DEF UInt16
  <1>2. files = [f \in DOMAIN Database |-> 0] /\ disk = Database
    BY DEF initializeFileMap
  <1>3. \A f \in DOMAIN disk : disk[f] \in Seq(Byte \cup {Hole})
    BY <1>2, SessionsAssumption
  <1>4. TypeOK
    BY <1>1, <1>2, <1>3, SessionsAssumption DEF TypeOK
  <1>5. ThreadState /\ ClientState /\ NewNames /\ OldFiles
    BY <1>2 DEF ThreadState, ClientState, NewNames, OldFiles
  <1>6. Streams
    BY DEF Streams
  <1>7. Talk
    <2>1. \A p \in Ports : inbox[p] = <<>> /\ InQueue(inbox[p]) = {}
      BY DEF InQueue
    <2> QED
      BY <2>1, PortFacts DEF Talk, ClientQueue, ThreadQueue, OneUnderWay, Once, Partner
  <1> QED
    BY <1>4, <1>5, <1>6, <1>7 DEF IInv

\* Every step of a thread keeps it.
LEMMA ThreadStepInv ==
  ASSUME IInv, NEW t \in Threads, WriteThreadStep(t)
  PROVE  IInv'
  BY BindStep, WriteExistsStep, WriteAllowedStep, OpenFileStep, OpenFailsStep, BlockWrittenStep,
     WriteFailsStep, DataRejectedStep, DataTimeoutStep, RegisterFileStep, CloseFileStep
  DEF WriteThreadStep

\* And every other step, and stuttering.
LEMMA NextInv == IInv /\ [Next]_allVars => IInv'
  <1> SUFFICES ASSUME IInv, [Next]_allVars PROVE IInv'
    OBVIOUS
  <1>1. CASE \E f \in DOMAIN ServerName : StartWrite(f)
    BY <1>1, StartWriteStep
  <1>2. CASE WriteClientStep
    BY <1>2, UnknownTidStep, ErrorReceivedStep, ClientTimeoutStep, AckUnexpectedStep,
       AckAdvancesStep DEF WriteClientStep
  <1>3. CASE ListenerStep
    BY <1>3, ListenStep, ListenBadOpcodeStep DEF ListenerStep
  <1>4. CASE \E t \in Threads : WriteThreadStep(t)
    BY <1>4, ThreadStepInv
  <1>5. CASE Lose /\ UNCHANGED streams
    BY <1>5, LoseStep
  <1>6. CASE UNCHANGED allVars
    <2>1. UNCHANGED <<clientVars, threadVars, serverVars, streams, inbox, lost>>
      BY <1>6 DEF allVars, vars, netVars
    <2> QED
      BY <2>1, ThreadFacts, QueuesQuiet
  <1> QED
    BY <1>1, <1>2, <1>3, <1>4, <1>5, <1>6 DEF Next

\* Every reachable state satisfies the invariant.
LEMMA Invariant == Spec => []IInv
  BY InitInv, NextInv, PTL DEF Spec

\* Every variable has its type, every queued datagram is a packet the code
\* builds, and no stream has flushed more than it accepted.
THEOREM WriteTypeCorrect == Spec => []TypeOK
  <1>1. IInv => TypeOK
    BY DEF IInv
  <1> QED
    BY <1>1, Invariant, PTL

\* A write thread never mixes the blocks of two clients' files, though
\* handleWriteRequest never looks at who sent a block.
THEOREM NoMixedFiles == Spec => []OneSource
  <1>1. ASSUME IInv
        PROVE  OneSource
    <2> SUFFICES ASSUME NEW t \in Threads, stream[t] # <<>>
                 PROVE  \E f \in DOMAIN Local :
                           /\ Len(stream[t]) <= Len(Local[f])
                           /\ stream[t] = SubSeq(Local[f], 1, Len(stream[t]))
                           /\ tpc[t] = "insert" => stream[t] = Local[f]
      BY DEF OneSource
    <2>1. PICK f \in DOMAIN Local : /\ stream[t] = Blocks(Local[f], Dec16(block[t]))
                                    /\ tpc[t] = "insert" => stream[t] = Local[f]
      BY <1>1 DEF IInv, Streams
    <2>2. Local[f] \in Seq(Byte) /\ Dec16(block[t]) \in Nat
      <3>1. block[t] \in UInt16
        BY <1>1 DEF IInv, TypeOK
      <3> QED
        BY <3>1, Counter16, WriteAssumption, U16Type DEF UInt16
    <2> QED
      BY <2>1, <2>2, BlocksPrefix
  <1> QED
    BY <1>1, Invariant, PTL

---------------------------------------------------------------------------
(* What a thread leaves on the disk.                                       *)

HasOpened(t) == block[t] # 0 \/ stream[t] # <<>>

\* A thread has opened its file when it waits for blocks, and not before;
\* while it waits for the first, its stream is empty; it registers a file of
\* which it has accepted something.
OpenedOnce ==
    \A t \in Threads :
        /\ tpc[t] \in {"wait", "insert", "close"} => HasOpened(t)
        /\ tpc[t] \in {"free", "bind", "start", "open"} => ~HasOpened(t)
        /\ HasOpened(t) => tfile[t] \in DOMAIN disk
        /\ tpc[t] = "wait" /\ stream[t] = <<>> => block[t] = 1
        /\ tpc[t] = "insert" => stream[t] # <<>>

Sole(t) == \A u \in Threads : HasOpened(u) /\ tfile[u] = tfile[t] => u = t

\* The only thread that opened a file finds on the disk what it has flushed,
\* and leaves there all it accepted.
OnDisk ==
    \A t \in Threads :
        ~ServerDiskFails /\ HasOpened(t) /\ Sole(t) =>
            /\ tpc[t] \in {"wait", "insert", "close"} =>
                  disk[tfile[t]] = SubSeq(stream[t], 1, flushed[t])
            /\ tpc[t] = "done" => disk[tfile[t]] = stream[t]

\* A new name in the map was put there by a thread that had all of a file.
Registered ==
    \A f \in DOMAIN files \ DOMAIN Database :
        \E t \in Threads :
            /\ tfile[t] = f /\ HasOpened(t) /\ tpc[t] \in {"close", "done"}
            /\ \E g \in DOMAIN Local :
                  /\ stream[t] = Local[g]
                  /\ requests = 1 => g = cfile /\ f = ServerName[g]

\* Before the first request nothing has been sent and no thread exists; the
\* server that only writes never aborts.
Fresh ==
    /\ up /\ requests \in Nat
    /\ requests = 0 =>
          /\ cpc \notin {"run", "ok"} /\ nextId = 1
          /\ \A t \in Threads : tpc[t] = "free"
          /\ \A p \in Ports : inbox[p] = <<>>

\* After the first, every name and every block is that client's.
OneClient ==
    requests = 1 =>
        /\ \A d \in InQueue(inbox[ServerPort]) :
              d.pkt.op \in {RRQ, WRQ, DELETE} => d.pkt.data[1] = ServerName[cfile]
        /\ \A t \in Threads :
              /\ tpc[t] # "free" => tfile[t] = ServerName[cfile]
              /\ \A d \in InQueue(inbox[ThreadPort(t)]) :
                    d.pkt.op = DATA =>
                        /\ cfile \in DOMAIN Local
                        /\ d.pkt.data = readDataBlock(Local[cfile], NtohsBlock(d.pkt))
              /\ stream[t] # <<>> =>
                    /\ cfile \in DOMAIN Local
                    /\ stream[t] = Blocks(Local[cfile], Dec16(block[t]))
                    /\ tpc[t] = "insert" => stream[t] = Local[cfile]

DiskInv == OpenedOnce /\ OnDisk /\ Registered

\* Between requests the first client's name is the only one.
SameClient ==
    requests' = 1 => \/ requests = 1 /\ cfile' = cfile
                     \/ \A t \in Threads : tpc[t] = "free"

\* A thread moves on without touching its file.
Calm ==
    \A t \in Threads :
        \/ tpc'[t] = tpc[t] /\ tfile'[t] = tfile[t]
        \/ /\ tpc[t] \in {"free", "bind", "start", "open"}
           /\ tpc'[t] \in {"bind", "start", "open", "done"}
           /\ tpc[t] # "free" => tfile'[t] = tfile[t]
        \/ tpc[t] = "wait" /\ tpc'[t] = "close" /\ tfile'[t] = tfile[t]

\* Steps that move a thread on without touching its file keep what is known of it.
LEMMA DiskQuiet ==
  ASSUME IInv, DiskInv, UNCHANGED <<disk, files, block, streams>>, Calm, SameClient
  PROVE  DiskInv'
  <1>1. UNCHANGED <<stream, flushed>>
    BY DEF streams
  <1>2. \A t \in Threads : HasOpened(t)' <=> HasOpened(t)
    BY <1>1 DEF HasOpened
  <1>3. \A t \in Threads : HasOpened(t) => tpc[t] \notin {"free", "bind", "start", "open"}
    BY DEF DiskInv, OpenedOnce
  <1>4. \A t \in Threads : HasOpened(t) =>
           /\ tfile'[t] = tfile[t]
           /\ tpc'[t] = tpc[t] \/ (tpc[t] = "wait" /\ tpc'[t] = "close")
    BY <1>3 DEF Calm
  <1>5. OpenedOnce'
    <2> SUFFICES ASSUME NEW t \in Threads
                 PROVE  /\ tpc'[t] \in {"wait", "insert", "close"} => HasOpened(t)
                        /\ tpc'[t] \in {"free", "bind", "start", "open"} => ~HasOpened(t)
                        /\ HasOpened(t) => tfile'[t] \in DOMAIN disk
                        /\ tpc'[t] = "wait" /\ stream[t] = <<>> => block[t] = 1
                        /\ tpc'[t] = "insert" => stream[t] # <<>>
      BY <1>1, <1>2 DEF OpenedOnce
    <2>1. CASE HasOpened(t)
      BY <2>1, <1>3, <1>4 DEF DiskInv, OpenedOnce
    <2>2. CASE ~HasOpened(t)
      BY <2>2 DEF Calm, DiskInv, OpenedOnce
    <2> QED
      BY <2>1, <2>2
  <1>6. \A t \in Threads : HasOpened(t) => (Sole(t)' <=> Sole(t))
    BY <1>2, <1>4 DEF Sole
  <1>7. OnDisk'
    BY <1>1, <1>2, <1>4, <1>6 DEF DiskInv, OnDisk
  <1>8. Registered'
    <2> SUFFICES ASSUME NEW f \in DOMAIN files \ DOMAIN Database
                 PROVE  \E t \in Threads :
                          /\ tfile'[t] = f /\ HasOpened(t) /\ tpc'[t] \in {"close", "done"}
                          /\ \E g \in DOMAIN Local :
                                /\ stream[t] = Local[g]
                                /\ requests' = 1 => g = cfile' /\ f = ServerName[g]
      BY <1>1, <1>2 DEF Registered
    <2>1. PICK t \in Threads :
             /\ tfile[t] = f /\ HasOpened(t) /\ tpc[t] \in {"close", "done"}
             /\ \E g \in DOMAIN Local :
                   /\ stream[t] = Local[g]
                   /\ requests = 1 => g = cfile /\ f = ServerName[g]
      BY DEF DiskInv, Registered
    <2>2. tfile'[t] = f /\ tpc'[t] \in {"close", "done"}
      BY <2>1, <1>4
    <2>3. requests' = 1 => requests = 1 /\ cfile' = cfile
      BY <2>1 DEF SameClient
    <2> QED
      BY <2>1, <2>2, <2>3
  <1> QED
    BY <1>5, <1>7, <1>8 DEF DiskInv

---------------------------------------------------------------------------
(* The steps that write.                                                   *)

\* The rest of the bytes written after the first ones completes them.
LEMMA WriteRest ==
  ASSUME NEW b \in Seq(Byte), NEW k \in 0 .. Len(b)
  PROVE  writeAt(SubSeq(b, 1, k), k, SubSeq(b, k + 1, Len(b))) = b
  <1> DEFINE old == SubSeq(b, 1, k)
             rest == SubSeq(b, k + 1, Len(b))
             n == Len(b)
  <1>1. n \in Nat /\ k \in Nat /\ k <= n
    OBVIOUS
  <1>2. /\ Len(old) = k /\ \A i \in 1 .. k : old[i] = b[i]
        /\ Len(rest) = n - k /\ \A i \in 1 .. (n - k) : rest[i] = b[k + i]
    BY <1>1
  <1>3. b = [i \in 1 .. n |-> b[i]]
    OBVIOUS
  <1>4. ~ (Len(old) > k + Len(rest)) /\ k + Len(rest) = n
    BY <1>1, <1>2
  <1>5. \A i \in 1 .. n : (IF i > k /\ i <= k + Len(rest) THEN rest[i - k]
                           ELSE IF i <= Len(old) THEN old[i] ELSE Hole) = b[i]
    BY <1>1, <1>2, <1>4
  <1> HIDE DEF old, rest, n
  <1>6. writeAt(old, k, rest) = [i \in 1 .. n |-> b[i]]
    BY <1>4, <1>5 DEF writeAt
  <1> QED
    BY <1>3, <1>6 DEF old, rest

\* Flushing a thread's stream brings its file up to date and no other one.
LEMMA FlushCompletes ==
  ASSUME IInv, NEW t \in Threads, NEW bytes \in Seq(Byte), flushed[t] <= Len(bytes),
         tfile[t] \in DOMAIN disk
  PROVE  /\ \A f \in DOMAIN disk : f # tfile[t] => Flush(t, bytes)[f] = disk[f]
         /\ disk[tfile[t]] = SubSeq(bytes, 1, flushed[t]) => Flush(t, bytes)[tfile[t]] = bytes
         /\ DOMAIN Flush(t, bytes) = DOMAIN disk
  <1> DEFINE k == flushed[t]
             rest == SubSeq(bytes, k + 1, Len(bytes))
  <1>1. k \in Nat /\ Len(bytes) \in Nat /\ k \in 0 .. Len(bytes)
    BY DEF IInv, TypeOK
  <1>2. CASE rest = <<>>
    <2>1. k = Len(bytes)
      <3>1. Len(rest) = Len(bytes) - k
        BY <1>1
      <3> HIDE DEF rest, k
      <3>2. Len(rest) = 0
        BY <1>2
      <3>3. \A m, n \in Nat : m - n = 0 => n = m
        OBVIOUS
      <3> QED
        BY <1>1, <3>1, <3>2, <3>3
    <2>2. SubSeq(bytes, 1, k) = bytes
      BY <1>1, <2>1
    <2> QED
      BY <1>2, <2>2 DEF Flush
  <1>3. CASE rest # <<>>
    <2>1. Flush(t, bytes) = [disk EXCEPT ![tfile[t]] = writeAt(@, k, rest)]
      BY <1>3 DEF Flush
    <2>2. writeAt(SubSeq(bytes, 1, k), k, rest) = bytes
      BY <1>1, WriteRest
    <2> HIDE DEF k, rest
    <2>3. /\ \A f \in DOMAIN disk : f # tfile[t] => Flush(t, bytes)[f] = disk[f]
          /\ Flush(t, bytes)[tfile[t]] = writeAt(disk[tfile[t]], k, rest)
          /\ DOMAIN Flush(t, bytes) = DOMAIN disk
      BY <2>1
    <2> QED
      BY <2>2, <2>3 DEF k
  <1> QED
    BY <1>2, <1>3

\* Opening empties the file, and whoever opened it before is no longer alone.
LEMMA OpenFileDisk ==
  ASSUME IInv, DiskInv, NEW t \in Threads, OpenFile(t)
  PROVE  DiskInv'
  <1>1. /\ tpc[t] = "open" /\ tpc' = [tpc EXCEPT ![t] = "wait"]
        /\ stream' = [stream EXCEPT ![t] = <<>>] /\ flushed' = [flushed EXCEPT ![t] = 0]
        /\ block' = [block EXCEPT ![t] = 1]
        /\ disk' = [f \in DOMAIN disk \cup {tfile[t]} |->
                      IF f = tfile[t] THEN <<>> ELSE disk[f]]
        /\ UNCHANGED <<tfile, files, requests, cfile>>
    BY DEF OpenFile, ThreadAt, Goto, clientVars
  <1>2. ~HasOpened(t)
    BY <1>1 DEF DiskInv, OpenedOnce
  <1>3. /\ tpc'[t] = "wait" /\ block'[t] = 1 /\ stream'[t] = <<>> /\ flushed'[t] = 0
        /\ \A u \in Threads \ {t} : tpc'[u] = tpc[u] /\ block'[u] = block[u]
              /\ stream'[u] = stream[u] /\ flushed'[u] = flushed[u]
    BY <1>1 DEF IInv, TypeOK
  <1>4. HasOpened(t)' /\ \A u \in Threads \ {t} : HasOpened(u)' <=> HasOpened(u)
    BY <1>3 DEF HasOpened
  <1>5. /\ DOMAIN disk' = DOMAIN disk \cup {tfile[t]} /\ disk'[tfile[t]] = <<>>
        /\ \A f \in DOMAIN disk : f # tfile[t] => disk'[f] = disk[f]
    BY <1>1
  <1>6. OpenedOnce'
    BY <1>1, <1>3, <1>4, <1>5 DEF DiskInv, OpenedOnce
  <1>7. OnDisk'
    <2> SUFFICES ASSUME NEW u \in Threads, ~ServerDiskFails, HasOpened(u)', Sole(u)'
                 PROVE  /\ tpc'[u] \in {"wait", "insert", "close"} =>
                              disk'[tfile[u]] = SubSeq(stream'[u], 1, flushed'[u])
                        /\ tpc'[u] = "done" => disk'[tfile[u]] = stream'[u]
      BY <1>1 DEF OnDisk
    <2>1. CASE u = t
      <3>1. SubSeq(<<>>, 1, 0) = <<>>
        OBVIOUS
      <3> QED
        BY <2>1, <3>1, <1>3, <1>5
    <2>2. CASE u # t
      <3>1. tfile[t] # tfile[u]
        BY <2>2, <1>1, <1>4 DEF Sole
      <3>2. HasOpened(u) /\ Sole(u)
        BY <2>2, <1>1, <1>2, <1>4 DEF Sole
      <3>3. tfile[u] \in DOMAIN disk
        BY <3>2 DEF DiskInv, OpenedOnce
      <3> QED
        BY <2>2, <3>1, <3>2, <3>3, <1>3, <1>5 DEF DiskInv, OnDisk
    <2> QED
      BY <2>1, <2>2
  <1>8. Registered'
    BY <1>1, <1>3, <1>4 DEF DiskInv, Registered
  <1> QED
    BY <1>6, <1>7, <1>8 DEF DiskInv

\* A step of an open thread in which only its own file may change.
LEMMA WritingDisk ==
  ASSUME IInv, DiskInv, NEW t \in Threads, HasOpened(t), HasOpened(t)',
         \A u \in Threads \ {t} : /\ tpc'[u] = tpc[u] /\ block'[u] = block[u]
                                  /\ stream'[u] = stream[u] /\ flushed'[u] = flushed[u],
         UNCHANGED <<tfile, files, requests, cfile>>,
         DOMAIN disk' = DOMAIN disk,
         \A f \in DOMAIN disk : f # tfile[t] => disk'[f] = disk[f],
         NEW l \in {"wait", "insert", "done"}, tpc'[t] = l,
         tpc[t] = "wait" \/ (tpc[t] = "close" /\ l = "done" /\ stream'[t] = stream[t]),
         l \in {"wait", "insert"} => stream'[t] # <<>>,
         ~ServerDiskFails /\ Sole(t) =>
            IF l = "done" THEN disk'[tfile[t]] = stream'[t]
                          ELSE disk'[tfile[t]] = SubSeq(stream'[t], 1, flushed'[t])
  PROVE  DiskInv'
  <1>1. \A u \in Threads : HasOpened(u)' <=> HasOpened(u)
    BY DEF HasOpened
  <1>2. \A u \in Threads : Sole(u)' <=> Sole(u)
    BY <1>1 DEF Sole
  <1>3. OpenedOnce'
    BY <1>1 DEF DiskInv, OpenedOnce
  <1>4. OnDisk'
    <2> SUFFICES ASSUME NEW u \in Threads, ~ServerDiskFails, HasOpened(u), Sole(u)
                 PROVE  /\ tpc'[u] \in {"wait", "insert", "close"} =>
                              disk'[tfile[u]] = SubSeq(stream'[u], 1, flushed'[u])
                        /\ tpc'[u] = "done" => disk'[tfile[u]] = stream'[u]
      BY <1>1, <1>2 DEF OnDisk
    <2>1. CASE u = t
      BY <2>1
    <2>2. CASE u # t
      <3>1. tfile[t] # tfile[u]
        BY <2>2 DEF Sole
      <3>2. tfile[u] \in DOMAIN disk
        BY DEF DiskInv, OpenedOnce
      <3> QED
        BY <2>2, <3>1, <3>2 DEF DiskInv, OnDisk
    <2> QED
      BY <2>1, <2>2
  <1>5. Registered'
    <2> SUFFICES ASSUME NEW f \in DOMAIN files \ DOMAIN Database
                 PROVE  \E u \in Threads :
                          /\ tfile[u] = f /\ HasOpened(u)' /\ tpc'[u] \in {"close", "done"}
                          /\ \E g \in DOMAIN Local :
                                /\ stream'[u] = Local[g]
                                /\ requests = 1 => g = cfile /\ f = ServerName[g]
      BY DEF Registered
    <2>1. PICK u \in Threads :
             /\ tfile[u] = f /\ HasOpened(u) /\ tpc[u] \in {"close", "done"}
             /\ \E g \in DOMAIN Local :
                   /\ stream[u] = Local[g]
                   /\ requests = 1 => g = cfile /\ f = ServerName[g]
      BY DEF DiskInv, Registered
    <2>2. tpc'[u] \in {"close", "done"} /\ stream'[u] = stream[u]
      BY <2>1
    <2> QED
      BY <2>1, <2>2, <1>1
  <1> QED
    BY <1>3, <1>4, <1>5 DEF DiskInv

\* The next block is written.
LEMMA BlockWrittenDisk ==
  ASSUME IInv, DiskInv, NEW t \in Threads, BlockWritten(t)
  PROVE  DiskInv'
  <1> DEFINE p == DataOf(t)
             bytes == stream[t] \o p.data
             l == IF isShort(p.data) THEN "insert" ELSE "wait"
  <1>1. /\ DataArrives(t) /\ p.op = DATA
        /\ tpc' = [tpc EXCEPT ![t] = l] /\ stream' = [stream EXCEPT ![t] = bytes]
        /\ \/ disk' = Flush(t, bytes) /\ flushed' = [flushed EXCEPT ![t] = Len(bytes)]
           \/ UNCHANGED <<disk, flushed>>
        /\ block' = [block EXCEPT ![t] = Inc16(block[t])]
        /\ UNCHANGED <<tfile, files, requests, cfile>>
    BY DEF BlockWritten, IsNextBlock, Goto, clientVars
  <1>2. tpc[t] = "wait" /\ p = Received(ThreadPort(t)).pkt
        /\ Received(ThreadPort(t)) \in InQueue(inbox[ThreadPort(t)])
    BY <1>1, HeadAtThread DEF DataOf
  <1>3. PICK f \in DOMAIN Local : NextOf(t, f, p)
    BY <1>1, <1>2 DEF IInv, Talk, ThreadQueue
  <1> HIDE DEF p
  <1>4. p.data \in Seq(Byte) /\ p.data # <<>>
    BY <1>3, Accepted DEF NextOf
  <1>5. /\ stream[t] \in Seq(Byte) /\ flushed[t] \in Nat /\ flushed[t] <= Len(stream[t])
        /\ HasOpened(t) /\ tfile[t] \in DOMAIN disk
    BY <1>2 DEF IInv, TypeOK, DiskInv, OpenedOnce
  <1>6. /\ bytes \in Seq(Byte) /\ bytes # <<>> /\ Len(stream[t]) <= Len(bytes)
        /\ SubSeq(bytes, 1, flushed[t]) = SubSeq(stream[t], 1, flushed[t])
        /\ SubSeq(bytes, 1, Len(bytes)) = bytes
    <2>1. \A s, d \in Seq(Byte) : d # <<>> =>
             /\ s \o d \in Seq(Byte) /\ Len(s \o d) = Len(s) + Len(d)
             /\ Len(s) \in Nat /\ Len(d) \in Nat /\ Len(d) > 0
      OBVIOUS
    <2>2. \A s, d \in Seq(Byte), k \in Nat : k <= Len(s) =>
             SubSeq(s \o d, 1, k) = SubSeq(s, 1, k)
      OBVIOUS
    <2>3. \A b \in Seq(Byte) : SubSeq(b, 1, Len(b)) = b
      OBVIOUS
    <2>4. bytes = stream[t] \o p.data
      OBVIOUS
    <2> HIDE DEF bytes
    <2>5. /\ bytes \in Seq(Byte) /\ Len(bytes) = Len(stream[t]) + Len(p.data)
          /\ Len(stream[t]) \in Nat /\ Len(p.data) \in Nat /\ Len(p.data) > 0
      BY <2>1, <2>4, <1>4, <1>5
    <2>6. SubSeq(bytes, 1, flushed[t]) = SubSeq(stream[t], 1, flushed[t])
      BY <2>2, <2>4, <1>4, <1>5
    <2>7. \A m, n \in Nat : n > 0 => m <= m + n /\ m + n # 0
      OBVIOUS
    <2>8. Len(bytes) # 0 /\ Len(stream[t]) <= Len(bytes)
      BY <2>5, <2>7
    <2>9. bytes # <<>>
      BY <2>8
    <2> QED
      BY <2>3, <2>5, <2>6, <2>8, <2>9
  <1> HIDE DEF bytes
  <1>7. flushed[t] <= Len(bytes)
    <2>1. Len(bytes) \in Nat /\ Len(stream[t]) \in Nat
      BY <1>5, <1>6
    <2> QED
      BY <2>1, <1>5, <1>6
  <1>8. l \in {"wait", "insert", "done"} /\ l # "done"
    OBVIOUS
  <1> HIDE DEF l
  <1>9. /\ tpc'[t] = l /\ stream'[t] = bytes
        /\ \A u \in Threads \ {t} : tpc'[u] = tpc[u] /\ block'[u] = block[u]
              /\ stream'[u] = stream[u] /\ flushed'[u] = flushed[u]
    BY <1>1 DEF IInv, TypeOK
  <1>10. HasOpened(t)'
    BY <1>6, <1>9 DEF HasOpened
  <1>11. /\ DOMAIN disk' = DOMAIN disk
         /\ \A f1 \in DOMAIN disk : f1 # tfile[t] => disk'[f1] = disk[f1]
    BY <1>1, <1>5, <1>6, <1>7, FlushCompletes
  <1>12. ~ServerDiskFails /\ Sole(t) => disk'[tfile[t]] = SubSeq(stream'[t], 1, flushed'[t])
    <2> SUFFICES ASSUME ~ServerDiskFails, Sole(t)
                 PROVE  disk'[tfile[t]] = SubSeq(bytes, 1, flushed'[t])
      BY <1>9
    <2>1. disk[tfile[t]] = SubSeq(bytes, 1, flushed[t])
      BY <1>2, <1>5, <1>6 DEF DiskInv, OnDisk
    <2>2. CASE disk' = Flush(t, bytes) /\ flushed' = [flushed EXCEPT ![t] = Len(bytes)]
      <3>1. flushed'[t] = Len(bytes)
        BY <2>2 DEF IInv, TypeOK
      <3> QED
        BY <2>1, <2>2, <3>1, <1>5, <1>6, <1>7, FlushCompletes
    <2>3. CASE UNCHANGED <<disk, flushed>>
      BY <2>1, <2>3
    <2> QED
      BY <1>1, <2>2, <2>3
  <1> QED
    BY <1>1, <1>2, <1>5, <1>6, <1>8, <1>9, <1>10, <1>11, <1>12, WritingDisk

\* Closing brings the whole stream to the disk.
LEMMA CloseFileDisk ==
  ASSUME IInv, DiskInv, NEW t \in Threads, CloseFile(t)
  PROVE  DiskInv'
  <1>1. /\ tpc[t] = "close" /\ tpc' = [tpc EXCEPT ![t] = "done"]
        /\ disk' = Flush(t, stream[t]) \/ (ServerDiskFails /\ disk' = disk)
        /\ UNCHANGED <<tfile, block, files, requests, cfile, stream, flushed>>
    BY DEF CloseFile, ThreadAt, ThreadReturns, Goto, streams, clientVars
  <1>2. /\ stream[t] \in Seq(Byte) /\ flushed[t] <= Len(stream[t])
        /\ HasOpened(t) /\ tfile[t] \in DOMAIN disk
    BY <1>1 DEF IInv, TypeOK, DiskInv, OpenedOnce
  <1>3. tpc'[t] = "done" /\ \A u \in Threads \ {t} : tpc'[u] = tpc[u]
    BY <1>1 DEF IInv, TypeOK
  <1>4. HasOpened(t)'
    BY <1>1, <1>2 DEF HasOpened
  <1>5. /\ DOMAIN disk' = DOMAIN disk
        /\ \A f \in DOMAIN disk : f # tfile[t] => disk'[f] = disk[f]
    BY <1>1, <1>2, FlushCompletes
  <1>6. ~ServerDiskFails /\ Sole(t) => disk'[tfile[t]] = stream'[t]
    <2>1. Sole(t) /\ ~ServerDiskFails => disk[tfile[t]] = SubSeq(stream[t], 1, flushed[t])
      BY <1>1, <1>2 DEF DiskInv, OnDisk
    <2> QED
      BY <2>1, <1>1, <1>2, FlushCompletes
  <1> QED
    BY <1>1, <1>2, <1>3, <1>4, <1>5, <1>6, WritingDisk

\* A name enters the map behind the file.
LEMMA RegisterFileDisk ==
  ASSUME IInv, DiskInv, OneClient, NEW t \in Threads, RegisterFile(t)
  PROVE  DiskInv'
  <1>1. /\ tpc[t] = "insert" /\ tpc' = [tpc EXCEPT ![t] = "close"]
        /\ files' = mapInsert(files, tfile[t], 0)
        /\ UNCHANGED <<tfile, block, disk, requests, cfile, stream, flushed>>
    BY DEF RegisterFile, ThreadAt, Goto, streams, clientVars
  <1>2. tpc'[t] = "close" /\ \A u \in Threads \ {t} : tpc'[u] = tpc[u]
    BY <1>1 DEF IInv, TypeOK
  <1>3. \A u \in Threads : (HasOpened(u)' <=> HasOpened(u)) /\ (Sole(u)' <=> Sole(u))
    BY <1>1 DEF HasOpened, Sole
  <1>4. OpenedOnce'
    BY <1>1, <1>2, <1>3 DEF DiskInv, OpenedOnce
  <1>5. OnDisk'
    BY <1>1, <1>2, <1>3 DEF DiskInv, OnDisk
  <1>6. HasOpened(t) /\ stream[t] # <<>>
    BY <1>1 DEF DiskInv, OpenedOnce
  <1>7. \E g \in DOMAIN Local :
           stream[t] = Local[g] /\ (requests = 1 => g = cfile /\ tfile[t] = ServerName[g])
    <2>1. CASE requests = 1
      BY <2>1, <1>1, <1>6 DEF OneClient
    <2>2. CASE requests # 1
      BY <2>2, <1>1, <1>6 DEF IInv, Streams
    <2> QED
      BY <2>1, <2>2
  <1>8. DOMAIN files' = DOMAIN files \cup {tfile[t]}
    BY <1>1 DEF mapInsert
  <1>9. Registered'
    <2> SUFFICES ASSUME NEW f \in DOMAIN files' \ DOMAIN Database
                 PROVE  \E u \in Threads :
                          /\ tfile[u] = f /\ HasOpened(u) /\ tpc'[u] \in {"close", "done"}
                          /\ \E g \in DOMAIN Local :
                                /\ stream[u] = Local[g]
                                /\ requests = 1 => g = cfile /\ f = ServerName[g]
      BY <1>1, <1>3 DEF Registered
    <2>1. CASE f = tfile[t]
      BY <2>1, <1>2, <1>6, <1>7
    <2>2. CASE f # tfile[t]
      <3>1. PICK u \in Threads :
             /\ tfile[u] = f /\ HasOpened(u) /\ tpc[u] \in {"close", "done"}
             /\ \E g \in DOMAIN Local :
                   /\ stream[u] = Local[g]
                   /\ requests = 1 => g = cfile /\ f = ServerName[g]
        BY <2>2, <1>8 DEF DiskInv, Registered
      <3>2. u # t
        BY <3>1, <1>1
      <3> QED
        BY <3>1, <3>2, <1>2
    <2> QED
      BY <2>1, <2>2
  <1> QED
    BY <1>4, <1>5, <1>9 DEF DiskInv

---------------------------------------------------------------------------
(* One client: the names and blocks under way are its own.                 *)

\* No request and no block comes in but at the client's port.
Silent ==
    \A p \in Ports \ {ClientPort} : \A d \in InQueue(inbox'[p]) :
        d \in InQueue(inbox[p]) \/ d.pkt.op \in {ACK, ERROR}

\* Steps that send no request and no block keep what is known of the first client.
LEMMA OneClientQuiet ==
  ASSUME IInv, OneClient, Silent, requests' = requests, cfile' = cfile,
         UNCHANGED <<block, stream>>,
         \A t \in Threads : /\ tpc'[t] # "free" => tpc[t] # "free" /\ tfile'[t] = tfile[t]
                            /\ tpc'[t] = "insert" => tpc[t] = "insert"
  PROVE  OneClient'
  <1> SUFFICES ASSUME requests = 1 PROVE OneClient'
    BY DEF OneClient
  <1>1. /\ ServerPort \in Ports \ {ClientPort}
        /\ \A t \in Threads : ThreadPort(t) \in Ports \ {ClientPort}
    BY PortFacts
  <1>2. \A d \in InQueue(inbox'[ServerPort]) :
           d.pkt.op \in {RRQ, WRQ, DELETE} => d.pkt.data[1] = ServerName[cfile]
    BY <1>1 DEF Silent, OneClient, ACK, ERROR, RRQ, WRQ, DELETE
  <1>3. ASSUME NEW t \in Threads, NEW d \in InQueue(inbox'[ThreadPort(t)]), d.pkt.op = DATA
        PROVE  /\ cfile \in DOMAIN Local
               /\ d.pkt.data = readDataBlock(Local[cfile], NtohsBlock(d.pkt))
    <2>1. d \in InQueue(inbox[ThreadPort(t)])
      BY <1>1, <1>3 DEF Silent, ACK, ERROR, DATA
    <2> QED
      BY <2>1, <1>3 DEF OneClient
  <1>4. ASSUME NEW t \in Threads
        PROVE  /\ tpc'[t] # "free" => tfile'[t] = ServerName[cfile]
               /\ stream[t] # <<>> =>
                    /\ cfile \in DOMAIN Local
                    /\ stream[t] = Blocks(Local[cfile], Dec16(block[t]))
                    /\ tpc'[t] = "insert" => stream[t] = Local[cfile]
    BY DEF OneClient
  <1> QED
    BY <1>2, <1>3, <1>4 DEF OneClient

\* Sending, receiving and closing, where no request and no block is sent.
LEMMA SilentSend ==
  ASSUME IInv, NEW q \in [Ports -> Seq(Datagrams)],
         \A p \in Ports : InQueue(q[p]) \subseteq InQueue(inbox[p]),
         NEW open \in SUBSET Ports, NEW src \in Ports \cup {0}, NEW dst,
         NEW pkt \in Packets, pkt.op \in {ACK, ERROR},
         \/ inbox' = q
         \/ inbox' = sendto(q, open, src, dst, pkt)
         \/ \E port \in Ports : inbox' = closeSocket(sendto(q, open, src, dst, pkt), port)
         \/ \E port \in Ports : inbox' = closeSocket(q, port)
  PROVE  Silent
  <1>1. CASE inbox' = q
    BY <1>1 DEF Silent
  <1>2. /\ sendto(q, open, src, dst, pkt) \in [Ports -> Seq(Datagrams)]
        /\ \A p \in Ports : InQueue(sendto(q, open, src, dst, pkt)[p])
                              \subseteq InQueue(q[p]) \cup {[src |-> src, pkt |-> pkt]}
    BY SendtoFacts
  <1>3. CASE inbox' = sendto(q, open, src, dst, pkt)
    BY <1>2, <1>3 DEF Silent
  <1>4. ASSUME NEW port \in Ports, inbox' = closeSocket(sendto(q, open, src, dst, pkt), port)
        PROVE  Silent
    <2>1. \A p \in Ports : InQueue(inbox'[p]) \subseteq InQueue(sendto(q, open, src, dst, pkt)[p])
      BY <1>2, <1>4, CloseFacts
    <2>2. ASSUME NEW p \in Ports, NEW d \in InQueue(inbox'[p])
          PROVE  d \in InQueue(inbox[p]) \/ d.pkt = pkt
      <3>1. d \in InQueue(sendto(q, open, src, dst, pkt)[p])
        BY <2>1, <2>2
      <3> QED
        BY <3>1, <1>2
    <2> QED
      BY <2>2 DEF Silent
  <1>5. ASSUME NEW port \in Ports, inbox' = closeSocket(q, port)
        PROVE  Silent
    <2>1. \A p \in Ports : InQueue(inbox'[p]) \subseteq InQueue(q[p])
      BY <1>5, CloseFacts
    <2> QED
      BY <2>1 DEF Silent
  <1> QED
    BY <1>1, <1>3, <1>4, <1>5

\* The queues as they are, and after one recvfrom.
LEMMA InboxKept ==
  ASSUME IInv
  PROVE  /\ inbox \in [Ports -> Seq(Datagrams)]
         /\ \A p \in Ports : InQueue(inbox[p]) \subseteq InQueue(inbox[p])
         /\ \A port \in Ports : inbox[port] # <<>> =>
               /\ recvfrom(port) \in [Ports -> Seq(Datagrams)]
               /\ \A p \in Ports : InQueue(recvfrom(port)[p]) \subseteq InQueue(inbox[p])
  BY RecvfromFacts DEF IInv, TypeOK

\* createACKPacket and createErrorPacket build what they say.
LEMMA AckAndErrorPackets ==
  /\ \A b \in UInt16 : createACKPacket(b) \in Packets /\ createACKPacket(b).op \in {ACK, ERROR}
  /\ \A c \in 0 .. 7 : createErrorPacket(c) \in Packets /\ createErrorPacket(c).op \in {ACK, ERROR}
  <1>1. \A b \in UInt16 : createACKPacket(b) \in Packets /\ createACKPacket(b).op = ACK
    BY PacketTypes, WireRoundTrip DEF createACKPacket
  <1>2. \A c \in 0 .. 7 : createErrorPacket(c) \in Packets /\ createErrorPacket(c).op = ERROR
    BY PacketTypes
  <1> QED
    BY <1>1, <1>2

OriginInv == DiskInv /\ OneClient

\* The client's steps but the two that matter.
LEMMA ClientOrigin ==
  ASSUME IInv, OriginInv,
         \/ UNCHANGED streams /\ (UnknownTid \/ ErrorReceived \/ ClientTimeout)
         \/ AckUnexpected
  PROVE  OriginInv'
  <1> DEFINE q == recvfrom(ClientPort)
  <1>1. ClientReceives => /\ q \in [Ports -> Seq(Datagrams)]
                          /\ \A p \in Ports : InQueue(q[p]) \subseteq InQueue(inbox[p])
    BY InboxKept, PortFacts DEF ClientReceives
  <1>2. /\ Open \in SUBSET Ports /\ ClientPort \in Ports /\ ClientPort \in Ports \cup {0}
        /\ createErrorPacket(UNKNOWN_TID) \in Packets
        /\ createErrorPacket(UNKNOWN_TID).op \in {ACK, ERROR}
        /\ createErrorPacket(ILLEGAL_TFTP_OPERATION) \in Packets
        /\ createErrorPacket(ILLEGAL_TFTP_OPERATION).op \in {ACK, ERROR}
    BY PortFacts, AckAndErrorPackets DEF UNKNOWN_TID, ILLEGAL_TFTP_OPERATION
  <1> HIDE DEF q
  <1>3. Silent
    <2>1. CASE UnknownTid
      <3>1. ClientReceives /\ inbox' = sendto(q, Open, ClientPort, ClientSource,
                                              createErrorPacket(UNKNOWN_TID))
        BY <2>1 DEF UnknownTid, clientSend, q
      <3> QED
        BY <1>1, <1>2, <3>1, SilentSend
    <2>2. CASE ErrorReceived
      <3>1. ClientReceives /\ inbox' = closeSocket(q, ClientPort)
        BY <2>2 DEF ErrorReceived, ClientReturns, q
      <3> QED
        BY <1>1, <1>2, <3>1, SilentSend
    <2>3. CASE ClientTimeout
      <3>1. inbox' = inbox \/ inbox' = closeSocket(inbox, ClientPort)
        BY <2>3 DEF ClientTimeout, ClientReturns
      <3> QED
        BY <1>2, <3>1, InboxKept, SilentSend
    <2>4. CASE AckUnexpected
      <3>1. /\ ClientReceives
            /\ \/ inbox' = closeSocket(sendto(q, Open, ClientPort, ClientSource,
                                              createErrorPacket(ILLEGAL_TFTP_OPERATION)), ClientPort)
               \/ inbox' = q
        BY <2>4 DEF AckUnexpected, AckReceived, ClientReturns, clientSend, q
      <3> QED
        BY <1>1, <1>2, <3>1, SilentSend
    <2> QED
      BY <2>1, <2>2, <2>3, <2>4
  <1>4. UNCHANGED <<cfile, threadVars, serverVars, requests, streams>>
    BY DEF UnknownTid, ErrorReceived, ClientTimeout, AckUnexpected
  <1>5. OneClient'
    BY <1>3, <1>4, OneClientQuiet DEF OriginInv, threadVars, streams
  <1>6. DiskInv'
    BY <1>4, DiskQuiet DEF OriginInv, threadVars, serverVars, Calm, SameClient
  <1> QED
    BY <1>5, <1>6 DEF OriginInv

\* The listener refuses a packet that is not a request.
LEMMA BadOpcodeOrigin ==
  ASSUME IInv, OriginInv, ListenBadOpcode, UNCHANGED streams
  PROVE  OriginInv'
  <1> DEFINE q == recvfrom(ServerPort)
             src == Received(ServerPort).src
  <1>1. /\ q \in [Ports -> Seq(Datagrams)]
        /\ \A p \in Ports : InQueue(q[p]) \subseteq InQueue(inbox[p])
    BY InboxKept, PortFacts DEF ListenBadOpcode, ListenerReceives
  <1>2. /\ Open \in SUBSET Ports /\ ServerPort \in Ports \cup {0}
        /\ createErrorPacket(ILLEGAL_TFTP_OPERATION) \in Packets
        /\ createErrorPacket(ILLEGAL_TFTP_OPERATION).op \in {ACK, ERROR}
    BY PortFacts, AckAndErrorPackets DEF ILLEGAL_TFTP_OPERATION
  <1>3. inbox' = sendto(q, Open, ServerPort, src, createErrorPacket(ILLEGAL_TFTP_OPERATION))
    BY DEF ListenBadOpcode, ListenerRejects
  <1>4. Silent
    <2> HIDE DEF q, src
    <2> QED
      BY <1>1, <1>2, <1>3, SilentSend
  <1>5. UNCHANGED <<cfile, threadVars, serverVars, requests, streams>>
    BY DEF ListenBadOpcode, clientVars
  <1>6. OneClient'
    BY <1>4, <1>5, OneClientQuiet DEF OriginInv, threadVars, streams
  <1>7. DiskInv'
    BY <1>5, DiskQuiet DEF OriginInv, threadVars, serverVars, Calm, SameClient
  <1> QED
    BY <1>6, <1>7 DEF OriginInv

\* The thread the listener starts is given the name of the request.
LEMMA ListenOrigin ==
  ASSUME IInv, OriginInv, Listen, UNCHANGED streams
  PROVE  OriginInv'
  <1>1. /\ inbox[ServerPort] # <<>> /\ inbox' = recvfrom(ServerPort)
        /\ ListenerPacket.op \in {RRQ, WRQ, DELETE}
        /\ tpc' = [tpc EXCEPT ![nextId] = "bind"]
        /\ tfile' = [tfile EXCEPT ![nextId] = ListenerPacket.data[1]]
        /\ UNCHANGED <<cfile, block, stream, flushed, files, disk, requests>>
    BY DEF Listen, ListenerReceives, streams, clientVars
  <1>2. \A t \in Threads :
           \/ t # nextId /\ tpc'[t] = tpc[t] /\ tfile'[t] = tfile[t]
           \/ t = nextId /\ tpc[t] = "free" /\ tpc'[t] = "bind"
              /\ tfile'[t] = ListenerPacket.data[1]
    <2>1. \A t \in Threads : t = nextId => tpc[t] = "free"
      BY DEF IInv, ThreadState, Threads
    <2> QED
      BY <2>1, <1>1 DEF IInv, TypeOK
  <1>3. DiskInv'
    BY <1>1, <1>2, DiskQuiet DEF OriginInv, Calm, SameClient, streams
  <1>4. /\ Received(ServerPort) \in InQueue(inbox[ServerPort])
        /\ \A p \in Ports : InQueue(inbox'[p]) \subseteq InQueue(inbox[p])
    BY <1>1, PortFacts, RecvfromFacts DEF IInv, TypeOK
  <1>5. OneClient'
    <2> SUFFICES ASSUME requests = 1 PROVE OneClient'
      BY <1>1 DEF OneClient
    <2>1. ListenerPacket.data[1] = ServerName[cfile]
      BY <1>1, <1>4 DEF OriginInv, OneClient, ListenerPacket
    <2>2. \A t \in Threads : tpc'[t] # "free" => tfile'[t] = ServerName[cfile]
      BY <2>1, <1>2 DEF OriginInv, OneClient
    <2>3. \A t \in Threads : tpc'[t] = "insert" => tpc[t] = "insert"
      BY <1>2
    <2>4. ServerPort \in Ports /\ \A t \in Threads : ThreadPort(t) \in Ports
      BY PortFacts
    <2> QED
      BY <2>2, <2>3, <2>4, <1>1, <1>4 DEF OriginInv, OneClient
  <1> QED
    BY <1>3, <1>5 DEF OriginInv

\* A thread that opens, writes or closes nothing.
LEMMA IdleThreadOrigin ==
  ASSUME IInv, OriginInv, NEW t \in Threads,
         \/ Bind(t) /\ UNCHANGED streams
         \/ WriteExists(t) \/ WriteAllowed(t) \/ OpenFails(t) \/ WriteFails(t)
         \/ DataRejected(t) \/ DataTimeout(t)
  PROVE  OriginInv'
  <1> DEFINE port == ThreadPort(t)
             q == recvfrom(port)
  <1>1. /\ UNCHANGED <<cfile, tfile, block, files, disk, requests, stream, flushed>>
        /\ \/ /\ tpc[t] \in {"bind", "start", "open"}
              /\ \E l \in {"start", "open", "done"} : Goto(t, l)
           \/ tpc[t] = "wait" /\ Goto(t, "close")
           \/ tpc' = tpc
           \/ tpc[t] = "wait" /\ Goto(t, "wait")
    <2>1. CASE DataTimeout(t)
      BY <2>1 DEF DataTimeout, ThreadTimeout, ThreadAt, clientVars, serverVars, streams
    <2>2. CASE ~DataTimeout(t)
      BY <2>2 DEF Bind, WriteExists, WriteAllowed, OpenFails, WriteFails, DataRejected, DataArrives,
                  ThreadAt, ThreadReturns, clientVars, serverVars, streams
    <2> QED
      BY <2>1, <2>2
  <1>2. \A u \in Threads :
           \/ tpc'[u] = tpc[u]
           \/ tpc[u] \in {"bind", "start", "open"} /\ tpc'[u] \in {"start", "open", "done"}
           \/ tpc[u] = "wait" /\ tpc'[u] = "close"
    BY <1>1 DEF Goto, IInv, TypeOK
  <1>3. DiskInv'
    BY <1>1, <1>2, DiskQuiet DEF OriginInv, Calm, SameClient, streams
  <1>4. /\ Open \in SUBSET Ports /\ port \in Ports /\ port \in Ports \cup {0}
        /\ \A c \in 0 .. 7 : createErrorPacket(c) \in Packets
                             /\ createErrorPacket(c).op \in {ACK, ERROR}
    BY PortFacts, AckAndErrorPackets
  <1>5. Silent
    <2>1. CASE Bind(t) \/ WriteAllowed(t) \/ DataTimeout(t)
      <3>1. inbox' = inbox
        BY <2>1 DEF Bind, WriteAllowed, DataTimeout, ThreadTimeout, netVars
      <3> QED
        BY <3>1 DEF Silent
    <2>2. CASE WriteExists(t) \/ OpenFails(t)
      <3>1. PICK c \in 0 .. 7 :
               inbox' = closeSocket(sendto(inbox, Open, port, ClientPort, createErrorPacket(c)), port)
        BY <2>2 DEF WriteExists, OpenFails, ThreadReturns, threadSend, FILE_ALREADY_EXISTS, DISK_FULL
      <3> HIDE DEF port
      <3> QED
        BY <1>4, <3>1, InboxKept, SilentSend
    <2>3. CASE WriteFails(t) \/ DataRejected(t)
      <3>1. PICK c \in 0 .. 7 :
               inbox' = sendto(q, Open, port, ClientPort, createErrorPacket(c))
        BY <2>3 DEF WriteFails, DataRejected, threadSend, DISK_FULL, NOT_DEFINED,
                    ILLEGAL_TFTP_OPERATION
      <3>2. inbox[port] # <<>>
        BY <2>3 DEF WriteFails, DataRejected, DataArrives
      <3>3. /\ q \in [Ports -> Seq(Datagrams)]
            /\ \A p \in Ports : InQueue(q[p]) \subseteq InQueue(inbox[p])
        BY <1>4, <3>2, InboxKept
      <3> HIDE DEF port, q
      <3> QED
        BY <1>4, <3>1, <3>3, SilentSend
    <2> QED
      BY <2>1, <2>2, <2>3
  <1>6. OneClient'
    BY <1>1, <1>2, <1>5, OneClientQuiet DEF OriginInv
  <1> QED
    BY <1>3, <1>6 DEF OriginInv

\* Opening, registering and closing.
LEMMA OpenRegisterCloseOrigin ==
  ASSUME IInv, OriginInv, NEW t \in Threads, OpenFile(t) \/ RegisterFile(t) \/ CloseFile(t)
  PROVE  OriginInv'
  <1>1. DiskInv'
    BY OpenFileDisk, RegisterFileDisk, CloseFileDisk DEF OriginInv
  <1> DEFINE port == ThreadPort(t)
  <1>2. /\ Open \in SUBSET Ports /\ port \in Ports /\ port \in Ports \cup {0}
        /\ createACKPacket(0) \in Packets /\ createACKPacket(0).op \in {ACK, ERROR}
    <2>1. 0 \in UInt16
      BY U16Type DEF UInt16
    <2> QED
      BY <2>1, PortFacts, AckAndErrorPackets
  <1>3. Silent
    <2>1. \/ inbox' = inbox
          \/ inbox' = closeSocket(inbox, port)
          \/ inbox' = sendto(inbox, Open, port, ClientPort, createACKPacket(0))
      BY DEF OpenFile, RegisterFile, CloseFile, ThreadReturns, threadSend, netVars
    <2> HIDE DEF port
    <2> QED
      BY <1>2, <2>1, InboxKept, SilentSend
  <1>4. UNCHANGED <<cfile, tfile, requests>>
    BY DEF OpenFile, RegisterFile, CloseFile, clientVars
  <1>5. \A u \in Threads : /\ tpc'[u] # "free" => tpc[u] # "free"
                           /\ tpc'[u] = "insert" => tpc[u] = "insert"
    BY DEF OpenFile, RegisterFile, CloseFile, ThreadAt, ThreadReturns, Goto, IInv, TypeOK
  <1>6. CASE UNCHANGED <<block, stream>>
    <2>1. OneClient'
      BY <1>3, <1>4, <1>5, <1>6, OneClientQuiet DEF OriginInv
    <2> QED
      BY <1>1, <2>1 DEF OriginInv
  <1>7. CASE OpenFile(t)
    <2>1. tpc[t] = "open" /\ block' = [block EXCEPT ![t] = 1] /\ stream' = [stream EXCEPT ![t] = <<>>]
      BY <1>7 DEF OpenFile, ThreadAt
    <2>2. stream[t] = <<>>
      BY <2>1 DEF IInv, Streams, Opened
    <2>3. /\ stream' = stream /\ \A u \in Threads : stream[u] # <<>> => block'[u] = block[u]
      BY <2>1, <2>2 DEF IInv, TypeOK
    <2>4. OneClient'
      <3> SUFFICES ASSUME requests = 1 PROVE OneClient'
        BY <1>4 DEF OneClient
      <3>1. /\ ServerPort \in Ports \ {ClientPort}
            /\ \A u \in Threads : ThreadPort(u) \in Ports \ {ClientPort}
        BY PortFacts
      <3>2. \A d \in InQueue(inbox'[ServerPort]) :
               d.pkt.op \in {RRQ, WRQ, DELETE} => d.pkt.data[1] = ServerName[cfile]
        BY <1>3, <3>1 DEF OriginInv, Silent, OneClient, ACK, ERROR, RRQ, WRQ, DELETE
      <3>3. ASSUME NEW u \in Threads, NEW d \in InQueue(inbox'[ThreadPort(u)]), d.pkt.op = DATA
            PROVE  /\ cfile \in DOMAIN Local
                   /\ d.pkt.data = readDataBlock(Local[cfile], NtohsBlock(d.pkt))
        <4>1. d \in InQueue(inbox[ThreadPort(u)])
          BY <1>3, <3>1, <3>3 DEF Silent, ACK, ERROR, DATA
        <4> QED
          BY <4>1, <3>3 DEF OriginInv, OneClient
      <3>4. ASSUME NEW u \in Threads
            PROVE  /\ tpc'[u] # "free" => tfile[u] = ServerName[cfile]
                   /\ stream[u] # <<>> =>
                        /\ cfile \in DOMAIN Local
                        /\ stream[u] = Blocks(Local[cfile], Dec16(block'[u]))
                        /\ tpc'[u] = "insert" => stream[u] = Local[cfile]
        BY <1>5, <2>3 DEF OriginInv, OneClient
      <3> QED
        BY <1>4, <2>3, <3>2, <3>3, <3>4 DEF OneClient
    <2> QED
      BY <1>1, <2>4 DEF OriginInv
  <1> QED
    BY <1>6, <1>7 DEF RegisterFile, CloseFile, streams

\* The block written is the next one of the first client's file.
LEMMA BlockWrittenOrigin ==
  ASSUME IInv, OriginInv, NEW t \in Threads, BlockWritten(t)
  PROVE  OriginInv'
  <1>1. DiskInv'
    BY BlockWrittenDisk DEF OriginInv
  <1> SUFFICES ASSUME requests = 1 PROVE OneClient'
    BY <1>1 DEF OriginInv, OneClient, BlockWritten
  <1> DEFINE p == DataOf(t)
             bytes == stream[t] \o p.data
             l == IF isShort(p.data) THEN "insert" ELSE "wait"
             port == ThreadPort(t)
             q == recvfrom(port)
  <1>2. /\ DataArrives(t) /\ p.op = DATA /\ NtohsBlock(p) = block[t]
        /\ tpc' = [tpc EXCEPT ![t] = l] /\ stream' = [stream EXCEPT ![t] = bytes]
        /\ block' = [block EXCEPT ![t] = Inc16(block[t])]
        /\ inbox' = sendto(q, Open, port, ClientPort, createACKPacket(block[t]))
        /\ UNCHANGED <<tfile, requests, cfile>>
    BY DEF BlockWritten, IsNextBlock, Goto, threadSend, clientVars
  <1>3. tpc[t] = "wait" /\ p = Received(port).pkt /\ Received(port) \in InQueue(inbox[port])
        /\ inbox[port] # <<>>
    BY <1>2, HeadAtThread DEF DataOf
  <1>4. PICK f \in DOMAIN Local : NextOf(t, f, p)
    BY <1>2, <1>3 DEF IInv, Talk, ThreadQueue
  <1>5. cfile \in DOMAIN Local /\ p.data = readDataBlock(Local[cfile], block[t])
    BY <1>2, <1>3 DEF OriginInv, OneClient
  <1> HIDE DEF p
  <1>6. block[t] \in UInt16 /\ 1 \in UInt16 /\ Local[cfile] \in Seq(Byte)
    BY <1>5, U16Type, WriteAssumption DEF IInv, TypeOK, UInt16
  <1>7. stream[t] = Blocks(Local[cfile], Dec16(block[t]))
    <2>1. CASE stream[t] = <<>>
      <3>1. block[t] = 1
        BY <2>1, <1>3 DEF OriginInv, DiskInv, OpenedOnce
      <3>2. Dec16(block[t]) = 0
        BY <3>1, <1>6, Counter16
      <3>3. Blocks(Local[cfile], 0) = <<>>
        BY <1>6, BlocksPrefix
      <3> QED
        BY <2>1, <3>2, <3>3
    <2>2. CASE stream[t] # <<>>
      BY <2>2 DEF OriginInv, OneClient
    <2> QED
      BY <2>1, <2>2
  <1>8. NextOf(t, cfile, p)
    BY <1>4, <1>5, <1>7 DEF NextOf
  <1>9. bytes = Blocks(Local[cfile], block[t]) /\ (isShort(p.data) => bytes = Local[cfile])
    BY <1>5, <1>8, Accepted
  <1>10. Dec16(Inc16(block[t])) = block[t]
    BY <1>6, Counter16
  <1>11. l \in {"insert", "wait"} /\ (l = "insert" => isShort(p.data))
    OBVIOUS
  <1> HIDE DEF bytes, l
  <1>12. /\ tpc'[t] = l /\ block'[t] = Inc16(block[t]) /\ stream'[t] = bytes
         /\ \A u \in Threads \ {t} : tpc'[u] = tpc[u] /\ block'[u] = block[u] /\ stream'[u] = stream[u]
    BY <1>2 DEF IInv, TypeOK
  <1>13. Silent
    <2>1. /\ Open \in SUBSET Ports /\ port \in Ports /\ port \in Ports \cup {0}
          /\ createACKPacket(block[t]) \in Packets /\ createACKPacket(block[t]).op \in {ACK, ERROR}
      BY <1>6, PortFacts, AckAndErrorPackets
    <2>2. /\ q \in [Ports -> Seq(Datagrams)]
          /\ \A x \in Ports : InQueue(q[x]) \subseteq InQueue(inbox[x])
      BY <1>3, <2>1, InboxKept
    <2> HIDE DEF port, q
    <2> QED
      BY <1>2, <2>1, <2>2, SilentSend
  <1>14. /\ ServerPort \in Ports \ {ClientPort}
         /\ \A u \in Threads : ThreadPort(u) \in Ports \ {ClientPort}
    BY PortFacts
  <1>15. \A d \in InQueue(inbox'[ServerPort]) :
            d.pkt.op \in {RRQ, WRQ, DELETE} => d.pkt.data[1] = ServerName[cfile]
    BY <1>13, <1>14 DEF OriginInv, Silent, OneClient, ACK, ERROR, RRQ, WRQ, DELETE
  <1>16. ASSUME NEW u \in Threads, NEW d \in InQueue(inbox'[ThreadPort(u)]), d.pkt.op = DATA
         PROVE  d.pkt.data = readDataBlock(Local[cfile], NtohsBlock(d.pkt))
    <2>1. d \in InQueue(inbox[ThreadPort(u)])
      BY <1>13, <1>14, <1>16 DEF Silent, ACK, ERROR, DATA
    <2> QED
      BY <2>1, <1>16 DEF OriginInv, OneClient
  <1>17. ASSUME NEW u \in Threads
         PROVE  /\ tpc'[u] # "free" => tfile[u] = ServerName[cfile]
                /\ stream'[u] # <<>> =>
                     /\ stream'[u] = Blocks(Local[cfile], Dec16(block'[u]))
                     /\ tpc'[u] = "insert" => stream'[u] = Local[cfile]
    <2>1. CASE u = t
      BY <2>1, <1>3, <1>9, <1>10, <1>11, <1>12 DEF OriginInv, OneClient
    <2>2. CASE u # t
      BY <2>2, <1>12 DEF OriginInv, OneClient
    <2> QED
      BY <2>1, <2>2
  <1> QED
    BY <1>2, <1>5, <1>15, <1>16, <1>17 DEF OneClient

\* A datagram is lost, or nothing happens.
LEMMA LoseOrigin ==
  ASSUME IInv, OriginInv, \/ Lose /\ UNCHANGED streams
                          \/ UNCHANGED allVars
  PROVE  OriginInv'
  <1>1. UNCHANGED <<cfile, threadVars, serverVars, requests, streams>>
    BY DEF Lose, allVars, vars, clientVars
  <1>2. Silent
    <2>1. inbox' = inbox \/ \E p \in Ports : inbox[p] # <<>> /\ inbox' = recvfrom(p)
      BY DEF Lose, NetLose, allVars, vars, netVars
    <2> QED
      BY <2>1, InboxKept DEF Silent
  <1>3. OneClient'
    BY <1>1, <1>2, OneClientQuiet DEF OriginInv, threadVars, streams
  <1>4. DiskInv'
    BY <1>1, DiskQuiet DEF OriginInv, threadVars, serverVars, Calm, SameClient
  <1> QED
    BY <1>3, <1>4 DEF OriginInv

\* The first client's request; with a second one, nothing is claimed.
LEMMA StartWriteOrigin ==
  ASSUME IInv, Fresh, OriginInv, NEW f \in DOMAIN ServerName, StartWrite(f)
  PROVE  OriginInv'
  <1>1. /\ requests' = requests + 1 /\ requests \in Nat /\ cfile' = f
        /\ UNCHANGED <<threadVars, serverVars, streams>>
    BY DEF StartWrite, StartClient, Fresh
  <1>2. requests' = 1 => /\ requests = 0 /\ \A t \in Threads : tpc[t] = "free"
                         /\ \A p \in Ports : inbox[p] = <<>>
    BY <1>1 DEF Fresh
  <1>3. DiskInv'
    BY <1>1, <1>2, DiskQuiet DEF OriginInv, threadVars, serverVars, Calm, SameClient
  <1> SUFFICES ASSUME requests' = 1 PROVE OneClient'
    BY <1>3 DEF OriginInv, OneClient
  <1> DEFINE req == [src |-> ClientPort, pkt |-> createWRQPacket(ServerName[f])]
             err == [src |-> ClientPort, pkt |-> createErrorPacket(DISK_FULL)]
             sent == sendto(inbox, Open, ClientPort, ServerPort, createWRQPacket(ServerName[f]))
  <1>4. /\ inbox \in [Ports -> Seq(Datagrams)] /\ Open \in SUBSET Ports
        /\ ClientPort \in Ports \cup {0}
        /\ createWRQPacket(ServerName[f]) \in Packets /\ createErrorPacket(DISK_FULL) \in Packets
        /\ createErrorPacket(DISK_FULL).op = ERROR /\ createWRQPacket(ServerName[f]).op = WRQ
        /\ createWRQPacket(ServerName[f]).data[1] = ServerName[f]
    <2>1. ServerName[f] \in Names /\ DISK_FULL \in 0 .. 7
      BY WriteAssumption DEF DISK_FULL
    <2>2. createWRQPacket(ServerName[f]).data[1] = ServerName[f]
      BY DEF createWRQPacket, createRequestPacket, Wire
    <2> QED
      BY <2>1, <2>2, PortFacts, WRQPackets, PacketTypes DEF IInv, TypeOK
  <1>5. /\ sent \in [Ports -> Seq(Datagrams)]
        /\ \A p \in Ports : InQueue(sent[p]) \subseteq InQueue(inbox[p]) \cup {req}
    BY <1>4, SendtoFacts
  <1>6. \/ inbox' = sent
        \/ inbox' = sendto(sent, Open, ClientPort, ackTo', createErrorPacket(DISK_FULL))
    BY DEF StartWrite, StartClient
  <1> HIDE DEF sent
  <1>7. \A p \in Ports : InQueue(inbox'[p]) \subseteq InQueue(sent[p]) \cup {err}
    BY <1>4, <1>5, <1>6, SendtoFacts
  <1>8. \A p \in Ports : InQueue(inbox[p]) = {}
    BY <1>2 DEF InQueue
  <1> HIDE DEF req, err
  <1>9. ASSUME NEW p \in Ports, NEW d \in InQueue(inbox'[p])
        PROVE  d = req \/ d = err
    BY <1>5, <1>7, <1>8, <1>9
  <1>10. /\ req.pkt.op = WRQ /\ req.pkt.data[1] = ServerName[f] /\ err.pkt.op = ERROR
    BY <1>4 DEF req, err
  <1>11. ServerPort \in Ports /\ \A t \in Threads : ThreadPort(t) \in Ports
    BY PortFacts
  <1>12. \A t \in Threads : tpc'[t] = "free" /\ stream'[t] = <<>>
    BY <1>1, <1>2 DEF OriginInv, DiskInv, OpenedOnce, HasOpened, threadVars, streams
  <1>13. \A d \in InQueue(inbox'[ServerPort]) :
            d.pkt.op \in {RRQ, WRQ, DELETE} => d.pkt.data[1] = ServerName[cfile']
    BY <1>1, <1>9, <1>10, <1>11 DEF RRQ, WRQ, DELETE, ERROR
  <1>14. \A t \in Threads : \A d \in InQueue(inbox'[ThreadPort(t)]) : d.pkt.op # DATA
    BY <1>9, <1>10, <1>11 DEF WRQ, DATA, ERROR
  <1> QED
    BY <1>12, <1>13, <1>14 DEF OneClient

\* The client's next block is one of its file.
LEMMA AckAdvancesOrigin ==
  ASSUME IInv, OriginInv, AckAdvances
  PROVE  OriginInv'
  <1> DEFINE next == readDataBlock(Local[cfile], expected')
             e == [src |-> ClientPort, pkt |-> createDataPacket(expected', next)]
             w == recvfrom(ClientPort)
             sent == sendto(w, Open, ClientPort, ClientSource, createDataPacket(expected', next))
  <1>1. /\ ClientReceives /\ cpc = "run" /\ expected' = Inc16(expected)
        /\ UNCHANGED <<cfile, threadVars, serverVars, streams, requests>>
    BY DEF AckAdvances, AckReceived, ClientReceives
  <1>2. DiskInv'
    BY <1>1, DiskQuiet DEF OriginInv, threadVars, serverVars, Calm, SameClient
  <1> SUFFICES ASSUME requests = 1 PROVE OneClient'
    BY <1>1, <1>2 DEF OriginInv, OneClient
  <1>3. /\ expected' \in UInt16 /\ expected' \in Nat
        /\ cfile \in DOMAIN Local /\ Local[cfile] \in Seq(Byte)
    BY <1>1, Counter16, WriteAssumption DEF IInv, TypeOK, ClientState, UInt16
  <1>4. /\ w \in [Ports -> Seq(Datagrams)] /\ ClientPort \in Ports \cup {0}
        /\ Open \in SUBSET Ports /\ ClientPort \in Ports
        /\ \A p \in Ports : InQueue(w[p]) \subseteq InQueue(inbox[p])
    BY <1>1, PortFacts, InboxKept DEF ClientReceives
  <1>5. ASSUME NEW p \in Ports, NEW d \in InQueue(inbox'[p])
        PROVE  \/ d \in InQueue(inbox[p])
               \/ d.pkt.op = DATA /\ d.pkt.data = readDataBlock(Local[cfile], NtohsBlock(d.pkt))
    <2>1. CASE next = <<>>
      <3>1. inbox' = closeSocket(w, ClientPort)
        BY <2>1 DEF AckAdvances, ClientReturns
      <3> HIDE DEF w
      <3> QED
        BY <3>1, <1>4, <1>5, CloseFacts
    <2>2. CASE next # <<>>
      <3>1. inbox' = sent \/ inbox' = closeSocket(sent, ClientPort)
        BY <2>2 DEF AckAdvances, ClientReturns, clientSend
      <3>2. next \in Seq(Byte)
        <4>1. expected' > 0
          BY <2>2, <1>3 DEF readDataBlock
        <4> QED
          BY <4>1, <2>2, <1>3, BlockTiling
      <3>3. /\ createDataPacket(expected', next) \in Packets /\ e.pkt.op = DATA
            /\ e.pkt.data = next /\ NtohsBlock(e.pkt) = expected'
        BY <3>2, <1>3, PacketTypes, WireRoundTrip DEF createDataPacket
      <3>4. e.pkt.data = readDataBlock(Local[cfile], NtohsBlock(e.pkt))
        BY <3>3
      <3> HIDE DEF w, next
      <3>5. /\ sent \in [Ports -> Seq(Datagrams)]
            /\ \A x \in Ports : InQueue(sent[x]) \subseteq InQueue(w[x]) \cup {e}
        BY <3>3, <1>4, SendtoFacts
      <3> HIDE DEF sent, e
      <3>6. InQueue(inbox'[p]) \subseteq InQueue(sent[p])
        BY <3>1, <3>5, <1>4, CloseFacts
      <3> QED
        BY <3>3, <3>4, <3>5, <3>6, <1>4, <1>5
    <2> QED
      BY <2>1, <2>2
  <1>6. ServerPort \in Ports /\ \A t \in Threads : ThreadPort(t) \in Ports
    BY PortFacts
  <1>7. \A d \in InQueue(inbox'[ServerPort]) :
           d.pkt.op \in {RRQ, WRQ, DELETE} => d.pkt.data[1] = ServerName[cfile]
    BY <1>5, <1>6 DEF OriginInv, OneClient, RRQ, WRQ, DELETE, DATA
  <1>8. ASSUME NEW t \in Threads, NEW d \in InQueue(inbox'[ThreadPort(t)]), d.pkt.op = DATA
        PROVE  d.pkt.data = readDataBlock(Local[cfile], NtohsBlock(d.pkt))
    BY <1>5, <1>6, <1>8 DEF OriginInv, OneClient
  <1>9. \A t \in Threads :
           /\ tpc'[t] # "free" => tfile'[t] = ServerName[cfile]
           /\ stream'[t] # <<>> =>
                /\ stream'[t] = Blocks(Local[cfile], Dec16(block'[t]))
                /\ tpc'[t] = "insert" => stream'[t] = Local[cfile]
    BY <1>1 DEF OriginInv, OneClient, threadVars, streams
  <1> QED
    BY <1>1, <1>3, <1>7, <1>8, <1>9 DEF OneClient

---------------------------------------------------------------------------
(* Before the first request.                                               *)

\* Without a request nothing moves.
LEMMA FreshNext ==
  ASSUME IInv, Fresh, [Next]_allVars
  PROVE  Fresh'
  <1>1. CASE \E f \in DOMAIN ServerName : StartWrite(f)
    <2>1. up' /\ requests \in Nat /\ requests' = requests + 1
      BY <1>1 DEF Fresh, StartWrite, StartClient, serverVars
    <2> QED
      BY <2>1 DEF Fresh
  <1>2. CASE ~ \E f \in DOMAIN ServerName : StartWrite(f)
    <2>1. requests' = requests /\ up' = up
      BY <1>2
      DEF Next, WriteClientStep, UnknownTid, ErrorReceived, AckUnexpected, AckAdvances,
          ClientTimeout, ListenerStep, Listen, ListenBadOpcode, WriteThreadStep, Bind, WriteExists,
          WriteAllowed, OpenFile, OpenFails, BlockWritten, WriteFails, DataRejected, DataTimeout,
          ThreadTimeout, RegisterFile, CloseFile, Lose, allVars, vars, serverVars
    <2> SUFFICES ASSUME requests = 0 PROVE Fresh'
      BY <2>1 DEF Fresh
    <2>2. /\ cpc \notin {"run", "ok"}
          /\ \A t \in Threads : tpc[t] = "free"
          /\ \A p \in Ports : inbox[p] = <<>>
          /\ up /\ nextId = 1
      BY DEF Fresh
    <2>3. ~ WriteClientStep
      BY <2>2 DEF WriteClientStep, UnknownTid, ErrorReceived, AckUnexpected, AckAdvances,
                  ClientTimeout, ClientReceives, AckReceived
    <2>4. ~ ListenerStep
      BY <2>2, PortFacts DEF ListenerStep, Listen, ListenBadOpcode, ListenerReceives
    <2>5. ~ \E t \in Threads : WriteThreadStep(t)
      BY <2>2 DEF WriteThreadStep, Bind, WriteExists, WriteAllowed, OpenFile, OpenFails,
                  BlockWritten, WriteFails, DataRejected, DataTimeout, ThreadTimeout, RegisterFile,
                  CloseFile, ThreadAt, DataArrives
    <2>6. ~ Lose
      BY <2>2 DEF Lose, NetLose
    <2> QED
      BY <1>2, <2>2, <2>3, <2>4, <2>5, <2>6
      DEF Next, Fresh, allVars, vars, clientVars, threadVars, serverVars, netVars
  <1> QED
    BY <1>1, <1>2

\* Every step keeps the two invariants.
LEMMA OriginNext ==
  ASSUME IInv, Fresh, OriginInv, [Next]_allVars
  PROVE  OriginInv'
  <1>1. CASE \E f \in DOMAIN ServerName : StartWrite(f)
    BY <1>1, StartWriteOrigin
  <1>2. CASE WriteClientStep
    BY <1>2, ClientOrigin, AckAdvancesOrigin DEF WriteClientStep
  <1>3. CASE ListenerStep
    BY <1>3, ListenOrigin, BadOpcodeOrigin DEF ListenerStep
  <1>4. ASSUME NEW t \in Threads, WriteThreadStep(t)
        PROVE  OriginInv'
    BY <1>4, IdleThreadOrigin, OpenRegisterCloseOrigin, BlockWrittenOrigin DEF WriteThreadStep
  <1>5. CASE Lose /\ UNCHANGED streams
    BY <1>5, LoseOrigin
  <1>6. CASE UNCHANGED allVars
    BY <1>6, LoseOrigin
  <1> QED
    BY <1>1, <1>2, <1>3, <1>4, <1>5, <1>6 DEF Next

\* They hold before the first client.
LEMMA OriginInit == WInit => Fresh /\ OriginInv
  <1> SUFFICES ASSUME WInit PROVE Fresh /\ OriginInv
    OBVIOUS
  <1> USE DEF WInit, Init, InitWith, NetInit
  <1>1. Fresh
    BY DEF Fresh
  <1>2. \A t \in Threads : ~HasOpened(t)
    BY DEF HasOpened
  <1>3. DiskInv
    BY <1>2 DEF DiskInv, OpenedOnce, OnDisk, Registered, initializeFileMap
  <1>4. OneClient
    BY DEF OneClient
  <1> QED
    BY <1>1, <1>3, <1>4 DEF OriginInv

\* And so in every reachable state.
LEMMA OriginHolds == Spec => [](Fresh /\ OriginInv)
  <1>1. IInv /\ (Fresh /\ OriginInv) /\ [Next]_allVars => (Fresh /\ OriginInv)'
    BY FreshNext, OriginNext
  <1> QED
    BY <1>1, OriginInit, Invariant, PTL DEF Spec

\* What a registered name stands for: unless two threads opened its file or
\* the disk failed, a whole local file is on the disk when its thread is done.
THEOREM RegisteredAreWhole == Spec => []RegisteredOnDisk
  <1>1. ASSUME OriginInv
        PROVE  RegisteredOnDisk
    <2> SUFFICES ASSUME NEW f \in DOMAIN files \ DOMAIN Database, ~ServerDiskFails,
                        \A t, u \in Writers(f) : t = u,
                        \A t \in Writers(f) : tpc[t] = "done"
                 PROVE  \E g \in DOMAIN Local :
                           disk[f] = Local[g] /\ (requests = 1 => g = cfile /\ f = ServerName[g])
      BY DEF RegisteredOnDisk
    <2>1. PICK t \in Threads :
             /\ tfile[t] = f /\ HasOpened(t)
             /\ \E g \in DOMAIN Local :
                   /\ stream[t] = Local[g]
                   /\ requests = 1 => g = cfile /\ f = ServerName[g]
      BY <1>1 DEF OriginInv, DiskInv, Registered
    <2>2. \A u \in Threads : u \in Writers(f) <=> (tfile[u] = f /\ HasOpened(u))
      BY DEF Writers, HasOpened
    <2>3. Sole(t) /\ tpc[t] = "done"
      BY <2>1, <2>2 DEF Sole
    <2>4. disk[f] = stream[t]
      BY <2>1, <2>3, <1>1 DEF OriginInv, DiskInv, OnDisk
    <2> QED
      BY <2>1, <2>4
  <1> QED
    BY <1>1, OriginHolds, PTL

---------------------------------------------------------------------------
(* A single write that nothing disturbs.                                   *)

Quick == Prompt /\ ~ServerDiskFails /\ lost = 0 /\ requests = 1 /\ cpc \in {"run", "ok"}

Holds(q, op) == Len(q) = 1 /\ q[1].pkt.op = op

\* Its stages: the request is under way; the thread is about to open its file
\* or to refuse; one ACK or block is under way; the last block is; it has
\* been written.
Requested ==
    /\ nextId = 1 /\ cpc = "run" /\ expected = 0
    /\ Holds(inbox[ServerPort], WRQ) /\ \A p \in Ports \ {ServerPort} : inbox[p] = <<>>
    /\ \A t \in Threads : tpc[t] = "free"

Served ==
    /\ nextId = 2 /\ inbox[ServerPort] = <<>> /\ cport \in {0, ThreadPort(1)}
    /\ \A t \in Threads \ {1} : tpc[t] = "free"
    /\ cpc = "ok" => tfile[1] \notin DOMAIN Database

Admitted ==
    /\ tpc[1] \in {"bind", "start", "open"} /\ cpc = "run" /\ expected = 0
    /\ inbox[ClientPort] = <<>> /\ inbox[ThreadPort(1)] = <<>>

Refused ==
    tpc[1] = "done" /\ cpc = "run" /\ expected = 0 /\ Holds(inbox[ClientPort], ERROR)

AckUnderWay ==
    LET q == inbox[ClientPort] IN
    /\ tpc[1] = "wait" /\ cpc = "run" /\ inbox[ThreadPort(1)] = <<>>
    /\ Holds(q, ACK) /\ NtohsBlock(q[1].pkt) = expected /\ q[1].src = ThreadPort(1)
    /\ block[1] = Inc16(expected)

BlockUnderWay ==
    LET q == inbox[ThreadPort(1)] IN
    /\ tpc[1] = "wait" /\ Holds(q, DATA) /\ NtohsBlock(q[1].pkt) = expected
    /\ block[1] = expected
    /\ IF isShort(q[1].pkt.data) THEN cpc = "ok"
                                 ELSE cpc = "run" /\ inbox[ClientPort] = <<>>

Written ==
    /\ cpc = "ok" /\ tpc[1] \in {"insert", "close", "done"}
    /\ tpc[1] # "insert" => tfile[1] \in DOMAIN files

Stages ==
    Quick => \/ Requested
             \/ Served /\ (Admitted \/ Refused \/ AckUnderWay \/ BlockUnderWay \/ Written)

\* A queue of one datagram, and how it comes to be.
LEMMA OneDatagram ==
  ASSUME NEW q \in Seq(Datagrams)
  PROVE  /\ Len(q) = 1 => q # <<>> /\ Tail(q) = <<>> /\ Head(q) = q[1]
         /\ \A d \in Datagrams : q = <<>> => Len(Append(q, d)) = 1 /\ Append(q, d)[1] = d
  <1>1. ASSUME Len(q) = 1
        PROVE  q # <<>> /\ Tail(q) = <<>> /\ Head(q) = q[1]
    <2>1. q # <<>>
      BY <1>1
    <2>2. Tail(q) \in Seq(Datagrams) /\ Len(Tail(q)) = 0
      BY <1>1, <2>1
    <2>3. \A r \in Seq(Datagrams) : Len(r) = 0 => r = <<>>
      OBVIOUS
    <2>4. Head(q) = q[1]
      BY <2>1
    <2>5. Tail(q) = <<>>
      BY <2>2, <2>3
    <2> QED
      BY <2>1, <2>4, <2>5
  <1>2. ASSUME NEW d \in Datagrams, q = <<>>
        PROVE  Len(Append(q, d)) = 1 /\ Append(q, d)[1] = d
    BY <1>2
  <1> QED
    BY <1>1, <1>2

\* A datagram sent to an empty queue of an open socket is there alone.
LEMMA SentAlone ==
  ASSUME NEW q \in [Ports -> Seq(Datagrams)], NEW open \in SUBSET Ports,
         NEW src \in Ports \cup {0}, NEW dst \in open, NEW pkt \in Packets, q[dst] = <<>>
  PROVE  /\ Len(sendto(q, open, src, dst, pkt)[dst]) = 1
         /\ sendto(q, open, src, dst, pkt)[dst][1] = [src |-> src, pkt |-> pkt]
         /\ \A p \in Ports : p # dst => sendto(q, open, src, dst, pkt)[p] = q[p]
  <1> DEFINE d == [src |-> src, pkt |-> pkt]
  <1>1. d \in Datagrams /\ dst \in Ports
    BY DEF Datagrams
  <1>2. Len(q[dst]) < SockBuf
    BY LoopbackAssumption
  <1>3. sendto(q, open, src, dst, pkt) = [q EXCEPT ![dst] = Append(q[dst], d)]
    BY <1>2 DEF sendto
  <1> HIDE DEF d
  <1>4. /\ sendto(q, open, src, dst, pkt)[dst] = Append(q[dst], d)
        /\ \A p \in Ports : p # dst => sendto(q, open, src, dst, pkt)[p] = q[p]
    BY <1>1, <1>3
  <1> QED
    BY <1>1, <1>4, OneDatagram DEF d

\* An undisturbed write was undisturbed before.
LEMMA QuickBefore ==
  ASSUME IInv, Fresh, [Next]_allVars, Quick', ~ \E f \in DOMAIN ServerName : StartWrite(f)
  PROVE  Quick /\ ~Lose
  <1>1. lost \in 0 .. MaxLoss /\ MaxLoss \in Nat
    BY LoopbackAssumption DEF IInv, TypeOK
  <1>2. ~Lose
    BY <1>1 DEF Lose, NetLose, Quick
  <1>3. lost' = lost /\ requests' = requests /\ (cpc' \in {"run", "ok"} => cpc \in {"run", "ok"})
    BY <1>2
    DEF Next, WriteClientStep, UnknownTid, ErrorReceived, AckUnexpected, AckAdvances, AckReceived,
        ClientReceives, ClientTimeout, ListenerStep, Listen, ListenBadOpcode, WriteThreadStep, Bind,
        WriteExists, WriteAllowed, OpenFile, OpenFails, BlockWritten, WriteFails, DataRejected,
        DataTimeout, ThreadTimeout, RegisterFile, CloseFile, allVars, vars, clientVars, netVars
  <1> QED
    BY <1>2, <1>3 DEF Quick

\* The first request goes out.
LEMMA RequestGoesOut ==
  ASSUME IInv, Fresh, NEW f \in DOMAIN ServerName, StartWrite(f), Quick'
  PROVE  Requested'
  <1>1. /\ requests' = requests + 1 /\ requests' = 1 /\ requests \in Nat
        /\ cpc' = (IF f \in DOMAIN Local THEN "run" ELSE "fail") /\ expected' = 0
        /\ UNCHANGED <<threadVars, serverVars>>
    BY DEF StartWrite, StartClient, Quick, Fresh
  <1>2. /\ nextId = 1 /\ \A t \in Threads : tpc[t] = "free"
        /\ \A p \in Ports : inbox[p] = <<>>
    BY <1>1 DEF Fresh
  <1>3. f \in DOMAIN Local /\ cpc' = "run"
    BY <1>1 DEF Quick
  <1>4. inbox' = sendto(inbox, Open, ClientPort, ServerPort, createWRQPacket(ServerName[f]))
    BY <1>3 DEF StartWrite, StartClient
  <1>5. /\ ServerPort \in Open /\ Open \in SUBSET Ports /\ ClientPort \in Ports \cup {0}
        /\ inbox \in [Ports -> Seq(Datagrams)] /\ ServerPort \in Ports
        /\ createWRQPacket(ServerName[f]) \in Packets
        /\ createWRQPacket(ServerName[f]).op = WRQ
    <2>1. ServerPort \in Open
      BY DEF Open, Fresh
    <2>2. ServerName[f] \in Names
      BY WriteAssumption
    <2> QED
      BY <2>1, <2>2, PortFacts, WRQPackets DEF IInv, TypeOK
  <1>6. /\ Len(inbox'[ServerPort]) = 1
        /\ inbox'[ServerPort][1].pkt = createWRQPacket(ServerName[f])
        /\ \A p \in Ports : p # ServerPort => inbox'[p] = inbox[p]
    <2> DEFINE sent == sendto(inbox, Open, ClientPort, ServerPort, createWRQPacket(ServerName[f]))
    <2>1. inbox[ServerPort] = <<>>
      BY <1>2, <1>5
    <2>2. /\ Len(sent[ServerPort]) = 1
          /\ sent[ServerPort][1] = [src |-> ClientPort, pkt |-> createWRQPacket(ServerName[f])]
          /\ \A p \in Ports : p # ServerPort => sent[p] = inbox[p]
      BY <2>1, <1>5, SentAlone
    <2> QED
      BY <2>2, <1>4
  <1> QED
    BY <1>1, <1>2, <1>3, <1>5, <1>6 DEF Requested, Holds, threadVars, serverVars

\* The listener answers it with a thread, before the client can time out.
LEMMA RequestServed ==
  ASSUME IInv, Fresh, Quick, Requested, WriteClientStep \/ ListenerStep
  PROVE  Served' /\ Admitted'
  <1>1. /\ ClientPort \in Ports \ {ServerPort} /\ ServerPort \in Ports
        /\ 1 \in Threads /\ ThreadPort(1) \in Ports \ {ServerPort}
    BY PortFacts, LoopbackAssumption DEF Threads
  <1>2. /\ inbox[ClientPort] = <<>> /\ inbox[ServerPort] \in Seq(Datagrams)
        /\ inbox[ThreadPort(1)] = <<>> /\ Len(inbox[ServerPort]) = 1
        /\ inbox[ServerPort][1].pkt.op = WRQ
    BY <1>1 DEF Requested, Holds, IInv, TypeOK
  <1>3. /\ inbox[ServerPort] # <<>> /\ Tail(inbox[ServerPort]) = <<>>
        /\ ListenerPacket.op = WRQ
    BY <1>2, OneDatagram DEF ListenerPacket, Received
  <1>4. ~WriteClientStep
    BY <1>2, <1>3 DEF WriteClientStep, UnknownTid, ErrorReceived, AckUnexpected, AckAdvances,
       AckReceived, ClientReceives, ClientTimeout, ClientMayTimeOut, ServerHadItsTurn, Quick, Fresh
  <1>5. Listen
    BY <1>3, <1>4 DEF ListenerStep, ListenBadOpcode, WRQ, RRQ, DELETE, LS
  <1>6. /\ inbox'[ServerPort] = <<>> /\ inbox'[ClientPort] = <<>> /\ inbox'[ThreadPort(1)] = <<>>
    <2>1. inbox' = [inbox EXCEPT ![ServerPort] = Tail(inbox[ServerPort])]
      BY <1>5 DEF Listen, recvfrom
    <2> QED
      BY <2>1, <1>1, <1>2, <1>3 DEF IInv, TypeOK
  <1>7. /\ nextId' = 2 /\ tpc'[1] = "bind" /\ \A t \in Threads \ {1} : tpc'[t] = "free"
        /\ UNCHANGED clientVars
    BY <1>1, <1>5 DEF Listen, Requested, IInv, TypeOK
  <1>8. cport = 0
    BY DEF Requested, IInv, ClientState
  <1> QED
    BY <1>6, <1>7, <1>8 DEF Served, Admitted, Requested, clientVars

\* In the last three stages only thread 1 and the client are not done.
LEMMA OnlyThreadOne ==
  ASSUME Served
  PROVE  ~ListenerStep /\ \A t \in Threads : WriteThreadStep(t) => t = 1
  <1>1. ~ListenerStep
    BY DEF Served, ListenerStep, Listen, ListenBadOpcode, ListenerReceives
  <1>2. ASSUME NEW t \in Threads, t # 1 PROVE ~WriteThreadStep(t)
    <2>1. tpc[t] = "free"
      BY <1>2 DEF Served
    <2> QED
      BY <2>1 DEF WriteThreadStep, Bind, WriteExists, WriteAllowed, OpenFile, OpenFails,
                  BlockWritten, WriteFails, DataRejected, DataTimeout, ThreadTimeout, RegisterFile,
                  CloseFile, ThreadAt, DataArrives
  <1> QED
    BY <1>1, <1>2

\* The client takes the ACK under way and sends the next block, or fails.
LEMMA ClientInTurn ==
  ASSUME IInv, Fresh, Quick, Served, WriteClientStep, Quick',
         Admitted \/ Refused \/ AckUnderWay \/ BlockUnderWay \/ Written
  PROVE  Served' /\ BlockUnderWay'
  <1>1. /\ inbox \in [Ports -> Seq(Datagrams)] /\ ClientPort \in Ports /\ 1 \in Threads
        /\ ThreadPort(1) \in Ports /\ ThreadPort(1) # ClientPort /\ ThreadPort(1) # ServerPort
        /\ ServerPort \in Ports /\ ServerPort # ClientPort
        /\ inbox[ClientPort] \in Seq(Datagrams) /\ inbox[ThreadPort(1)] \in Seq(Datagrams)
        /\ ClientPort \in Ports \cup {0} /\ Open \in SUBSET Ports
    BY PortFacts, LoopbackAssumption DEF Threads, IInv, TypeOK
  <1>3. cpc = "run" /\ ~Written
    BY DEF WriteClientStep, UnknownTid, ErrorReceived, AckUnexpected, AckAdvances,
           AckReceived, ClientReceives, ClientTimeout, Written
  <1>4. ~Refused
    <2> SUFFICES ASSUME Refused PROVE FALSE
      OBVIOUS
    <2>1. inbox[ClientPort] # <<>> /\ ClientPacket.op = ERROR
      BY <1>1, OneDatagram DEF Refused, Holds, ClientPacket, Received
    <2>2. cport = 0 /\ FromServer
      BY <1>3 DEF Refused, IInv, ClientState, FromServer
    <2>3. ErrorReceived
      BY <2>1, <2>2 DEF WriteClientStep, UnknownTid, AckUnexpected, AckAdvances, AckReceived,
                        ClientTimeout, ClientMayTimeOut, ERROR, ACK
    <2> QED
      BY <2>3 DEF ErrorReceived, ClientReturns, Quick
  <1>5. AckUnderWay
    <2> SUFFICES ASSUME ~AckUnderWay PROVE FALSE
      OBVIOUS
    <2>1. Admitted \/ BlockUnderWay
      BY <1>3, <1>4
    <2>2. inbox[ClientPort] = <<>> /\ ~ServerHadItsTurn
      <3>1. CASE Admitted
        BY <3>1, <1>1 DEF Admitted, ServerHadItsTurn, Live, Fresh
      <3>2. CASE BlockUnderWay
        BY <3>2, <1>1, <1>3, OneDatagram DEF BlockUnderWay, Holds, ServerHadItsTurn, Live, Fresh
      <3> QED
        BY <2>1, <3>1, <3>2
    <2> QED
      BY <2>2 DEF WriteClientStep, UnknownTid, ErrorReceived, AckUnexpected, AckAdvances,
                  AckReceived, ClientReceives, ClientTimeout, ClientMayTimeOut, Quick
  <1>6. /\ inbox[ClientPort] # <<>> /\ Tail(inbox[ClientPort]) = <<>>
        /\ ClientPacket.op = ACK /\ NtohsBlock(ClientPacket) = expected
        /\ ClientSource = ThreadPort(1)
    BY <1>1, <1>5, OneDatagram DEF AckUnderWay, Holds, ClientPacket, ClientSource, Received
  <1>7. AckAdvances
    BY <1>6 DEF Served, FromServer, WriteClientStep, UnknownTid, ErrorReceived, AckUnexpected,
                ClientTimeout, ClientMayTimeOut, ACK, ERROR
  <1> DEFINE next == readDataBlock(Local[cfile], expected')
             w == recvfrom(ClientPort)
             pkt == createDataPacket(expected', next)
             sent == sendto(w, Open, ClientPort, ThreadPort(1), pkt)
  <1>8. /\ expected' = Inc16(expected) /\ cport' = ThreadPort(1)
        /\ UNCHANGED <<cfile, threadVars, serverVars>>
        /\ next # <<>>
        /\ IF isShort(next) THEN cpc' = "ok" /\ inbox' = closeSocket(sent, ClientPort)
                            ELSE cpc' = "run" /\ inbox' = sent
    <2>1. /\ expected' = Inc16(expected) /\ cport' = ThreadPort(1)
          /\ UNCHANGED <<cfile, threadVars, serverVars>>
      BY <1>6, <1>7 DEF AckAdvances, AckReceived, PinServer
    <2>2. next # <<>>
      BY <1>7 DEF AckAdvances, ClientReturns, Quick
    <2>3. IF isShort(next) THEN cpc' = "ok" /\ inbox' = closeSocket(sent, ClientPort)
                           ELSE cpc' = "run" /\ inbox' = sent
      BY <1>3, <1>6, <1>7, <2>2 DEF AckAdvances, ClientReturns, clientSend
    <2> QED
      BY <2>1, <2>2, <2>3
  <1>9. /\ expected' \in UInt16 /\ expected' \in Nat
        /\ cfile \in DOMAIN Local /\ Local[cfile] \in Seq(Byte)
    BY <1>3, <1>8, Counter16, WriteAssumption DEF IInv, TypeOK, ClientState, UInt16
  <1>10. next \in Seq(Byte)
    <2>1. expected' > 0
      BY <1>8, <1>9 DEF readDataBlock
    <2> QED
      BY <2>1, <1>8, <1>9, BlockTiling
  <1> HIDE DEF next
  <1>11. pkt \in Packets /\ pkt.op = DATA /\ pkt.data = next /\ NtohsBlock(pkt) = expected'
    BY <1>9, <1>10, PacketTypes, WireRoundTrip DEF createDataPacket
  <1> HIDE DEF pkt
  <1>12. /\ w \in [Ports -> Seq(Datagrams)] /\ w[ClientPort] = <<>>
         /\ \A p \in Ports : p # ClientPort => w[p] = inbox[p]
    BY <1>1, <1>6, RecvfromFacts DEF recvfrom
  <1>13. inbox[ThreadPort(1)] = <<>> /\ tpc[1] = "wait" /\ block[1] = expected'
    BY <1>5, <1>8 DEF AckUnderWay
  <1>14. ThreadPort(1) \in Open
    BY <1>1, <1>13 DEF Open, Live, Fresh
  <1> HIDE DEF w
  <1>15. /\ Len(sent[ThreadPort(1)]) = 1
         /\ sent[ThreadPort(1)][1] = [src |-> ClientPort, pkt |-> pkt]
         /\ \A p \in Ports : p # ThreadPort(1) => sent[p] = w[p]
    <2>1. w[ThreadPort(1)] = <<>>
      BY <1>1, <1>12, <1>13
    <2>2. w \in [Ports -> Seq(Datagrams)] /\ pkt \in Packets
      BY <1>11, <1>12
    <2>3. ClientPort \in Ports \cup {0} /\ Open \in SUBSET Ports
      BY <1>1
    <2> QED
      BY <2>1, <2>2, <2>3, <1>14, SentAlone
  <1>16. sent \in [Ports -> Seq(Datagrams)]
    BY <1>1, <1>11, <1>12, SendtoFacts
  <1> HIDE DEF sent
  <1>17. /\ inbox'[ThreadPort(1)] = sent[ThreadPort(1)] /\ inbox'[ServerPort] = <<>>
         /\ inbox'[ClientPort] = <<>>
    <2>1. /\ sent[ServerPort] = <<>> /\ sent[ClientPort] = <<>>
      BY <1>1, <1>12, <1>15 DEF Served
    <2> QED
      BY <2>1, <1>1, <1>8, <1>16, CloseFacts DEF closeSocket
  <1>18. /\ Len(inbox'[ThreadPort(1)]) = 1 /\ inbox'[ThreadPort(1)][1].pkt = pkt
    BY <1>15, <1>17
  <1>19. tfile[1] \notin DOMAIN Database
    BY <1>1, <1>13 DEF IInv, NewNames
  <1>20. Served'
    BY <1>8, <1>17, <1>19 DEF Served, threadVars, serverVars
  <1>21. BlockUnderWay'
    BY <1>8, <1>11, <1>13, <1>17, <1>18 DEF BlockUnderWay, Holds, threadVars
  <1> QED
    BY <1>20, <1>21

\* Thread 1 opens its file or refuses, writes the block under way, and
\* registers and closes the file after the last.
LEMMA ThreadInTurn ==
  ASSUME IInv, Fresh, Quick, Served, WriteThreadStep(1), Quick',
         Admitted \/ Refused \/ AckUnderWay \/ BlockUnderWay \/ Written
  PROVE  Served' /\ (Admitted \/ Refused \/ AckUnderWay \/ Written)'
  <1> DEFINE port == ThreadPort(1)
  <1>1. /\ inbox \in [Ports -> Seq(Datagrams)] /\ ClientPort \in Ports /\ 1 \in Threads
        /\ port \in Ports /\ port # ClientPort /\ port # ServerPort
        /\ ServerPort \in Ports /\ ServerPort # ClientPort
        /\ inbox[ClientPort] \in Seq(Datagrams) /\ inbox[port] \in Seq(Datagrams)
        /\ port \in Ports \cup {0} /\ Open \in SUBSET Ports
        /\ 0 \in UInt16 /\ DOMAIN tpc = Threads /\ tpc = [u \in Threads |-> tpc[u]]
        /\ block \in [Threads -> UInt16]
    <2>1. 1 \in Threads /\ 0 \in UInt16
      BY LoopbackAssumption, U16Type DEF Threads, UInt16
    <2>2. /\ port \in Ports /\ port # ClientPort /\ port # ServerPort
      BY <2>1, PortFacts
    <2>3. /\ inbox \in [Ports -> Seq(Datagrams)] /\ block \in [Threads -> UInt16]
          /\ DOMAIN tpc = Threads /\ tpc = [u \in Threads |-> tpc[u]]
      BY DEF IInv, TypeOK
    <2> HIDE DEF port
    <2> QED
      BY <2>1, <2>2, <2>3, PortFacts
  <1>2. UNCHANGED <<cpc, cport, expected, tfile, nextId>>
    BY DEF WriteThreadStep, Bind, WriteExists, WriteAllowed, OpenFile, OpenFails, BlockWritten,
           WriteFails, DataRejected, DataTimeout, ThreadTimeout, RegisterFile, CloseFile,
           clientVars, serverVars
  <1>3. \A u \in Threads \ {1} : tpc'[u] = tpc[u]
    BY <1>1 DEF WriteThreadStep, Bind, WriteExists, WriteAllowed, OpenFile, OpenFails, BlockWritten,
           WriteFails, DataRejected, DataTimeout, ThreadTimeout, RegisterFile, CloseFile,
           ThreadReturns, Goto
  <1>4. inbox'[ServerPort] = <<>> => Served'
    BY <1>2, <1>3 DEF Served
  <1>5. cpc = "run" => ClientPort \in Open
    BY DEF Open
  <1>6. CASE Admitted
    <2>1. tpc[1] \in {"bind", "start", "open"} /\ ~ServerDiskFails
      BY <1>6 DEF Admitted, Quick
    <2>2. Bind(1) \/ WriteExists(1) \/ WriteAllowed(1) \/ OpenFile(1)
      BY <2>1 DEF WriteThreadStep, OpenFails, BlockWritten, WriteFails, DataRejected, DataTimeout,
                  ThreadTimeout, RegisterFile, CloseFile, ThreadAt, DataArrives
    <2>3. CASE Bind(1) \/ WriteAllowed(1)
      <3>1. inbox' = inbox /\ tpc'[1] \in {"start", "open"}
        BY <2>3, <1>1 DEF Bind, WriteAllowed, Goto, netVars
      <3> QED
        BY <3>1, <1>2, <1>4, <1>6 DEF Served, Admitted
    <2>4. CASE WriteExists(1)
      <3> DEFINE pkt == createErrorPacket(FILE_ALREADY_EXISTS)
                 sent == sendto(inbox, Open, port, ClientPort, pkt)
      <3>1. tpc'[1] = "done" /\ inbox' = closeSocket(sent, port)
        BY <2>4, <1>1 DEF WriteExists, ThreadReturns, Goto, threadSend
      <3>2. pkt \in Packets /\ pkt.op = ERROR
        BY PacketTypes DEF FILE_ALREADY_EXISTS
      <3> HIDE DEF pkt, port
      <3>3. /\ Len(sent[ClientPort]) = 1 /\ sent[ClientPort][1] = [src |-> port, pkt |-> pkt]
            /\ \A p \in Ports : p # ClientPort => sent[p] = inbox[p]
            /\ sent \in [Ports -> Seq(Datagrams)]
        <4>1. inbox[ClientPort] = <<>> /\ cpc = "run"
          BY <1>6 DEF Admitted
        <4>2. inbox \in [Ports -> Seq(Datagrams)] /\ port \in Ports \cup {0}
              /\ Open \in SUBSET Ports /\ ClientPort \in Open
          BY <4>1, <1>1, <1>5
        <4>3. sent \in [Ports -> Seq(Datagrams)]
          BY <4>2, <3>2, SendtoFacts
        <4>4. /\ Len(sent[ClientPort]) = 1 /\ sent[ClientPort][1] = [src |-> port, pkt |-> pkt]
              /\ \A p \in Ports : p # ClientPort => sent[p] = inbox[p]
          BY <4>1, <4>2, <3>2, SentAlone
        <4> HIDE DEF sent
        <4> QED
          BY <4>3, <4>4
      <3> HIDE DEF sent
      <3>4. inbox'[ClientPort] = sent[ClientPort] /\ inbox'[ServerPort] = sent[ServerPort]
        <4>1. /\ port \in Ports /\ ClientPort \in Ports /\ ServerPort \in Ports
              /\ ClientPort # port /\ ServerPort # port
          BY <1>1
        <4> QED
          BY <4>1, <3>1, <3>3 DEF closeSocket
      <3>5. Served'
        BY <3>3, <3>4, <1>1, <1>4 DEF Served
      <3>6. Refused'
        BY <3>1, <3>2, <3>3, <3>4, <1>2, <1>6 DEF Refused, Holds, Admitted
      <3> QED
        BY <3>5, <3>6
    <2>5. CASE OpenFile(1)
      <3> DEFINE pkt == createACKPacket(0)
                 sent == sendto(inbox, Open, port, ClientPort, pkt)
      <3>1. tpc'[1] = "wait" /\ inbox' = sent /\ block'[1] = 1
        BY <2>5, <1>1 DEF OpenFile, Goto, threadSend
      <3>2. pkt \in Packets /\ pkt.op = ACK /\ NtohsBlock(pkt) = 0
        BY <1>1, PacketTypes, WireRoundTrip DEF createACKPacket
      <3> HIDE DEF pkt, port
      <3>3. /\ Len(sent[ClientPort]) = 1 /\ sent[ClientPort][1] = [src |-> port, pkt |-> pkt]
            /\ \A p \in Ports : p # ClientPort => sent[p] = inbox[p]
        <4>1. inbox[ClientPort] = <<>> /\ cpc = "run"
          BY <1>6 DEF Admitted
        <4> QED
          BY <4>1, <3>2, <1>1, <1>5, SentAlone
      <3> HIDE DEF sent
      <3>4. Served'
        BY <3>1, <3>3, <1>1, <1>4 DEF Served
      <3>5. cpc = "run" /\ expected = 0 /\ inbox[port] = <<>>
        BY <1>6 DEF Admitted, port
      <3>6. Inc16(0) = 1
        BY <1>1, NextNumber
      <3>7. AckUnderWay'
        BY <3>1, <3>2, <3>3, <3>5, <3>6, <1>1, <1>2 DEF AckUnderWay, Holds, port
      <3> QED
        BY <3>4, <3>7
    <2> QED
      BY <2>2, <2>3, <2>4, <2>5
  <1>7. CASE Refused
    BY <1>7 DEF Refused, WriteThreadStep, Bind, WriteExists, WriteAllowed, OpenFile, OpenFails,
                BlockWritten, WriteFails, DataRejected, DataTimeout, ThreadTimeout, RegisterFile,
                CloseFile, ThreadAt, DataArrives
  <1>8. CASE AckUnderWay
    <2>1. tpc[1] = "wait" /\ inbox[port] = <<>> /\ ~ClientHadItsTurn(1)
      <3>1. 1 \in 1 .. Len(inbox[ClientPort]) /\ inbox[ClientPort][1].src = port
        BY <1>8 DEF AckUnderWay, Holds
      <3> QED
        BY <3>1, <1>8 DEF AckUnderWay, ClientHadItsTurn
    <2> QED
      BY <2>1 DEF WriteThreadStep, Bind, WriteExists, WriteAllowed, OpenFile, OpenFails,
                  BlockWritten, WriteFails, DataRejected, DataTimeout, ThreadTimeout, RegisterFile,
                  CloseFile, ThreadAt, DataArrives, ThreadMayTimeOut, Quick
  <1>9. CASE BlockUnderWay
    <2>1. /\ inbox[port] # <<>> /\ tpc[1] = "wait" /\ ~ServerDiskFails
          /\ DataOf(1) = inbox[port][1].pkt /\ DataOf(1).op = DATA
          /\ NtohsBlock(DataOf(1)) = block[1] /\ block[1] = expected
      BY <1>1, <1>9, OneDatagram DEF BlockUnderWay, Holds, DataOf, Received, Quick
    <2>2. BlockWritten(1)
      BY <2>1 DEF WriteThreadStep, Bind, WriteExists, WriteAllowed, OpenFile, OpenFails, WriteFails,
                  DataRejected, DataTimeout, ThreadTimeout, ThreadMayTimeOut, RegisterFile,
                  CloseFile, ThreadAt, IsNextBlock
    <2> DEFINE pkt == createACKPacket(block[1])
               w == recvfrom(port)
               sent == sendto(w, Open, port, ClientPort, pkt)
    <2>3. /\ tpc'[1] = (IF isShort(DataOf(1).data) THEN "insert" ELSE "wait")
          /\ inbox' = sent /\ block'[1] = Inc16(block[1])
      BY <2>2, <1>1 DEF BlockWritten, Goto, threadSend
    <2>4. pkt \in Packets /\ pkt.op = ACK /\ NtohsBlock(pkt) = block[1]
      BY <1>1, PacketTypes, WireRoundTrip DEF createACKPacket
    <2>5. /\ w \in [Ports -> Seq(Datagrams)] /\ w[port] = Tail(inbox[port])
          /\ \A p \in Ports : p # port => w[p] = inbox[p]
      BY <2>1, <1>1, RecvfromFacts DEF recvfrom
    <2>6. w[port] = <<>>
      BY <2>5, <1>1, <1>9, OneDatagram DEF BlockUnderWay, Holds
    <2> HIDE DEF pkt, w, port
    <2>7. \A p \in Ports : p # ClientPort => sent[p] = w[p]
      BY <2>4, <2>5, <1>1 DEF sendto
    <2>8. Served'
      BY <2>3, <2>5, <2>7, <1>1, <1>4 DEF Served
    <2>9. CASE isShort(DataOf(1).data)
      <3>1. Written'
        BY <2>1, <2>3, <2>9, <1>2, <1>9 DEF BlockUnderWay, Written, port
      <3> QED
        BY <2>8, <3>1
    <2>10. CASE ~isShort(DataOf(1).data)
      <3>1. cpc = "run" /\ inbox[ClientPort] = <<>>
        BY <2>1, <2>10, <1>9 DEF BlockUnderWay, port
      <3>2. /\ Len(sent[ClientPort]) = 1 /\ sent[ClientPort][1] = [src |-> port, pkt |-> pkt]
        <4>1. w[ClientPort] = <<>>
          BY <3>1, <2>5, <1>1
        <4>2. port \in Ports \cup {0} /\ Open \in SUBSET Ports /\ ClientPort \in Open
          BY <3>1, <1>1, <1>5
        <4> QED
          BY <4>1, <4>2, <2>4, <2>5, SentAlone
      <3> HIDE DEF sent
      <3>3. AckUnderWay'
        BY <3>1, <3>2, <2>1, <2>3, <2>4, <2>6, <2>7, <2>10, <1>1, <1>2 DEF AckUnderWay, Holds, port
      <3> QED
        BY <2>8, <3>3
    <2> QED
      BY <2>9, <2>10
  <1>10. CASE Written
    <2>1. tpc[1] \in {"insert", "close", "done"} /\ cpc = "ok"
      BY <1>10 DEF Written
    <2>2. RegisterFile(1) \/ CloseFile(1)
      BY <2>1 DEF WriteThreadStep, Bind, WriteExists, WriteAllowed, OpenFile, OpenFails,
                  BlockWritten, WriteFails, DataRejected, DataTimeout, ThreadTimeout, ThreadAt,
                  DataArrives
    <2>3. inbox'[ServerPort] = inbox[ServerPort]
      BY <2>2, <1>1, CloseFacts DEF RegisterFile, CloseFile, ThreadReturns, netVars
    <2>4. Served'
      BY <2>3, <1>4 DEF Served
    <2>5. Written'
      <3>1. CASE RegisterFile(1)
        <4>1. tpc'[1] = "close" /\ files' = mapInsert(files, tfile[1], 0)
          BY <3>1, <1>1 DEF RegisterFile, Goto
        <4>2. tfile[1] \in DOMAIN files'
          BY <4>1 DEF mapInsert
        <4> QED
          BY <4>1, <4>2, <2>1, <1>2 DEF Written
      <3>2. CASE CloseFile(1)
        <4>1. tpc[1] = "close" /\ tpc'[1] = "done" /\ files' = files
          BY <3>2, <1>1 DEF CloseFile, ThreadAt, ThreadReturns, Goto
        <4> QED
          BY <4>1, <2>1, <1>2, <1>10 DEF Written
      <3> QED
        BY <2>2, <3>1, <3>2
    <2> QED
      BY <2>4, <2>5
  <1> QED
    BY <1>6, <1>7, <1>8, <1>9, <1>10

\* Every step leads from one stage to the next.
LEMMA StagesNext ==
  ASSUME IInv, Fresh, Stages, [Next]_allVars
  PROVE  Stages'
  <1> SUFFICES ASSUME Quick'
               PROVE  \/ Requested'
                      \/ Served' /\ (Admitted \/ Refused \/ AckUnderWay \/ BlockUnderWay \/ Written)'
    BY DEF Stages
  <1>1. CASE \E f \in DOMAIN ServerName : StartWrite(f)
    BY <1>1, RequestGoesOut
  <1>2. CASE ~ \E f \in DOMAIN ServerName : StartWrite(f)
    <2>1. Quick /\ ~Lose
      BY <1>2, QuickBefore
    <2>2. \/ WriteClientStep \/ ListenerStep
          \/ \E t \in Threads : WriteThreadStep(t)
          \/ UNCHANGED allVars
      BY <1>2, <2>1 DEF Next
    <2>3. CASE UNCHANGED allVars
      BY <2>1, <2>3 DEF Stages, Requested, Served, Admitted, Refused, AckUnderWay, BlockUnderWay,
         Written, Holds, allVars, vars, clientVars, threadVars, serverVars, netVars
    <2>4. CASE Requested
      <3>1. ~ \E t \in Threads : WriteThreadStep(t)
        BY <2>4 DEF Requested, WriteThreadStep, Bind, WriteExists, WriteAllowed, OpenFile,
                    OpenFails, BlockWritten, WriteFails, DataRejected, DataTimeout, ThreadTimeout,
                    RegisterFile, CloseFile, ThreadAt, DataArrives
      <3> QED
        BY <3>1, <2>1, <2>2, <2>3, <2>4, RequestServed
    <2>5. CASE ~Requested
      <3>1. Served /\ (Admitted \/ Refused \/ AckUnderWay \/ BlockUnderWay \/ Written)
        BY <2>1, <2>5 DEF Stages
      <3> QED
        BY <3>1, <2>1, <2>2, <2>3, OnlyThreadOne, ClientInTurn, ThreadInTurn
    <2> QED
      BY <2>4, <2>5
  <1> QED
    BY <1>1, <1>2

\* After the stages the file is there.
LEMMA StoredAtTheEnd ==
  ASSUME IInv, OriginInv, Stages
  PROVE  OkMeansStored
  <1> SUFFICES ASSUME Prompt, ~ServerDiskFails, lost = 0, requests = 1, cpc = "ok",
                      \A t \in Threads : tpc[t] \in {"free", "done"}
               PROVE  /\ ServerName[cfile] \in DOMAIN files
                      /\ disk[ServerName[cfile]] = Local[cfile]
    BY DEF OkMeansStored
  <1>1. 1 \in Threads
    BY LoopbackAssumption DEF Threads
  <1>2. Served /\ Written
    BY <1>1 DEF Stages, Quick, Requested, Admitted, Refused, AckUnderWay, BlockUnderWay
  <1>3. /\ tpc[1] = "done" /\ tfile[1] \in DOMAIN files \ DOMAIN Database
        /\ \A t \in Threads \ {1} : tpc[t] = "free"
    BY <1>1, <1>2 DEF Served, Written
  <1>4. tfile[1] = ServerName[cfile]
    BY <1>1, <1>3 DEF OriginInv, OneClient
  <1>5. \A t \in Threads : HasOpened(t) => t = 1
    BY <1>3 DEF OriginInv, DiskInv, OpenedOnce
  <1>6. HasOpened(1) /\ stream[1] = Local[cfile]
    BY <1>3, <1>5 DEF OriginInv, DiskInv, Registered
  <1>7. disk[tfile[1]] = stream[1]
    BY <1>1, <1>3, <1>5, <1>6 DEF OriginInv, DiskInv, OnDisk, Sole
  <1> QED
    BY <1>3, <1>4, <1>6, <1>7

\* A client that reports success has its file on the server's disk and in the
\* map, on a network that loses nothing and is faster than the timeouts: the
\* last block, whose ACK handleWRQRequest does not wait for, is accepted.
THEOREM SuccessMeansStored == Spec => []OkMeansStored
  <1>1. WInit => Stages
    BY DEF WInit, Init, InitWith, Stages, Quick
  <1>2. IInv /\ Fresh /\ Stages /\ [Next]_allVars => Stages'
    BY StagesNext
  <1>3. IInv /\ OriginInv /\ Stages => OkMeansStored
    BY StoredAtTheEnd
  <1> QED
    BY <1>1, <1>2, <1>3, OriginHolds, Invariant, PTL DEF Spec
=============================================================================
