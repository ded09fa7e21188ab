----------------------------- MODULE CommandsProofs -----------------------------
(***************************************************************************)
(* Theorems about Commands, for every set of names and finite directory,   *)
(* every block size, number of requests, buffer size and retry limit.      *)
(* TInv holds the types. With it, two invariants are inductive: LInv, what *)
(* is under way of a single listing and what its client has of it; DInv,   *)
(* which DELETEs are confirmed or about to be, and which files and entries *)
(* are gone.                                                               *)
(***************************************************************************)
EXTENDS Commands, LoopbackLemmas, FiniteSetTheorems

---------------------------------------------------------------------------
(* The queues.                                                             *)

Lines == Names \X {0, 1}

\* What travels between these clients and the server.
CommandPackets ==
    LET Byte2 == 0 .. (ByteMod - 1) IN
    [op : {DELETE}, hi : Byte2, lo : Byte2, data : Names \X {Octet}]
    \cup [op : {DATA}, hi : Byte2, lo : Byte2, data : Seq(Lines)]
    \cup [op : {LS, ACK, ERROR}, hi : Byte2, lo : Byte2, data : {<<>>}]

CommandDatagrams == [src : Ports, pkt : CommandPackets]

Fits(q) == q \in [Ports -> Seq(CommandDatagrams)]

\* The queues r hold nothing that q does not.
Keeps(q, r) ==
    /\ Fits(r)
    /\ \A p \in Ports : InQueue(r[p]) \subseteq InQueue(q[p]) /\ Len(r[p]) <= Len(q[p])

\* The queues r hold nothing that q does not, but for datagram d at port dst.
Adds(q, r, dst, d) ==
    /\ Fits(r)
    /\ \A p \in Ports \ {dst} : InQueue(r[p]) \subseteq InQueue(q[p]) /\ Len(r[p]) <= Len(q[p])
    /\ dst \in Ports => /\ InQueue(r[dst]) \subseteq InQueue(q[dst]) \cup {d}
                        /\ Len(r[dst]) <= Len(q[dst]) + 1

LEMMA PacketForms ==
  ASSUME NEW p \in CommandPackets
  PROVE  /\ p.op \in {DELETE, DATA, LS, ACK, ERROR}
         /\ p.op = DELETE => p.data \in Names \X {Octet}
         /\ p.op = DATA => p.data \in Seq(Lines)
         /\ NtohsBlock(p) \in UInt16
  <1>1. /\ p.op \in {DELETE, DATA, LS, ACK, ERROR}
        /\ p.op = DELETE => p.data \in Names \X {Octet}
        /\ p.op = DATA => p.data \in Seq(Lines)
    BY DEF CommandPackets, DELETE, DATA, LS, ACK, ERROR
  <1>2. p.hi \in 0 .. (ByteMod - 1) /\ p.lo \in 0 .. (ByteMod - 1)
    BY DEF CommandPackets
  <1>3. NtohsBlock(p) \in UInt16
    <2>1. PICK h \in 0 .. (ByteMod - 1) : h = p.hi
      BY <1>2
    <2>2. PICK l \in 0 .. (ByteMod - 1) : l = p.lo
      BY <1>2
    <2>3. h * ByteMod <= (ByteMod - 1) * ByteMod /\ h * ByteMod \in Nat
      BY PacketAssumption
    <2>4. (ByteMod - 1) * ByteMod = ByteMod * ByteMod - ByteMod
      BY PacketAssumption
    <2>5. h * ByteMod + l \in 0 .. (ByteMod * ByteMod - 1)
      BY <2>3, <2>4, PacketAssumption
    <2> QED
      BY <2>1, <2>2, <2>5 DEF NtohsBlock, UInt16, U16
  <1> QED
    BY <1>1, <1>3

\* What the handlers build.
LEMMA CommandPacketTypes ==
  /\ \A f \in Names : /\ createDeletePacket(f) \in CommandPackets
                      /\ createDeletePacket(f).op = DELETE
                      /\ createDeletePacket(f).data = <<f, Octet>>
  /\ createLSPacket \in CommandPackets /\ createLSPacket.op = LS
  /\ \A b \in UInt16 : /\ createACKPacket(b) \in CommandPackets
                       /\ createACKPacket(b).op = ACK
  /\ \A b \in UInt16, s \in Seq(Lines) :
        /\ createDataPacket(b, s) \in CommandPackets
        /\ createDataPacket(b, s).op = DATA
        /\ createDataPacket(b, s).data = s
        /\ NtohsBlock(createDataPacket(b, s)) = b
  /\ \A c \in 0 .. 7 : /\ createErrorPacket(c) \in CommandPackets
                       /\ createErrorPacket(c).op = ERROR
  <1>1. \A c \in 0 .. 7 : c \in UInt16
    BY U16Type DEF UInt16
  <1>2. 0 \in UInt16
    BY <1>1
  <1>3. \A f \in Names : /\ createDeletePacket(f) \in CommandPackets
                         /\ createDeletePacket(f).op = DELETE
                         /\ createDeletePacket(f).data = <<f, Octet>>
    BY <1>2, WireRoundTrip
    DEF createDeletePacket, createRequestPacket, CommandPackets, Wire
  <1>4. createLSPacket \in CommandPackets /\ createLSPacket.op = LS
    BY <1>2, WireRoundTrip DEF createLSPacket, CommandPackets, Wire
  <1>5. \A b \in UInt16 : createACKPacket(b) \in CommandPackets /\ createACKPacket(b).op = ACK
    BY WireRoundTrip DEF createACKPacket, CommandPackets, Wire
  <1>6. \A b \in UInt16, s \in Seq(Lines) :
          /\ createDataPacket(b, s) \in CommandPackets
          /\ createDataPacket(b, s).op = DATA
          /\ createDataPacket(b, s).data = s
          /\ NtohsBlock(createDataPacket(b, s)) = b
    <2>1. ASSUME NEW b \in UInt16, NEW s \in Seq(Lines)
          PROVE  createDataPacket(b, s) \in CommandPackets
      BY <2>1, WireRoundTrip DEF createDataPacket, CommandPackets, Wire
    <2> QED
      BY <2>1, WireRoundTrip DEF createDataPacket
  <1>7. \A c \in 0 .. 7 : createErrorPacket(c) \in CommandPackets /\ createErrorPacket(c).op = ERROR
    BY <1>1, WireRoundTrip DEF createErrorPacket, CommandPackets, Wire
  <1> QED
    BY <1>3, <1>4, <1>5, <1>6, <1>7

\* sendto appends the datagram to its destination's queue or does nothing.
LEMMA SendAdds ==
  ASSUME NEW q, Fits(q), NEW open \in SUBSET Ports, NEW src \in Ports, NEW dst,
         NEW pkt \in CommandPackets
  PROVE  Adds(q, sendto(q, open, src, dst, pkt), dst, [src |-> src, pkt |-> pkt])
  <1> DEFINE d == [src |-> src, pkt |-> pkt]
  <1>1. d \in CommandDatagrams
    BY DEF CommandDatagrams
  <1> HIDE DEF d
  <1>2. CASE dst \in open /\ Len(q[dst]) < SockBuf
    <2>1. dst \in Ports /\ q[dst] \in Seq(CommandDatagrams)
      BY <1>2 DEF Fits
    <2>2. /\ Append(q[dst], d) \in Seq(CommandDatagrams)
          /\ Len(Append(q[dst], d)) = Len(q[dst]) + 1
      BY <2>1, <1>1
    <2>3. InQueue(Append(q[dst], d)) = InQueue(q[dst]) \cup {d}
      BY <1>1, <2>1, QueueContents
    <2>4. sendto(q, open, src, dst, pkt) = [q EXCEPT ![dst] = Append(q[dst], d)]
      BY <1>2 DEF sendto, d
    <2>5. /\ \A p \in Ports \ {dst} : [q EXCEPT ![dst] = Append(q[dst], d)][p] = q[p]
          /\ [q EXCEPT ![dst] = Append(q[dst], d)][dst] = Append(q[dst], d)
          /\ Fits([q EXCEPT ![dst] = Append(q[dst], d)])
      BY <2>1, <2>2 DEF Fits
    <2>6. \A p \in Ports : Len(q[p]) \in Nat
      BY DEF Fits
    <2>7. Adds(q, [q EXCEPT ![dst] = Append(q[dst], d)], dst, d)
      BY <2>1, <2>2, <2>3, <2>5, <2>6 DEF Adds
    <2> QED
      BY <2>4, <2>7 DEF d
  <1>3. CASE ~(dst \in open /\ Len(q[dst]) < SockBuf)
    <2>1. sendto(q, open, src, dst, pkt) = q
      BY <1>3 DEF sendto
    <2>2. \A p \in Ports : Len(q[p]) \in Nat
      BY DEF Fits
    <2>3. Adds(q, q, dst, d)
      BY <2>2 DEF Adds
    <2> QED
      BY <2>1, <2>3 DEF d
  <1> QED
    BY <1>2, <1>3

\* recvfrom takes one datagram off one queue.
LEMMA RecvKeeps ==
  ASSUME Fits(inbox), NEW port \in Ports, inbox[port] # <<>>
  PROVE  /\ Keeps(inbox, recvfrom(port))
         /\ Received(port) \in CommandDatagrams
         /\ Received(port) \in InQueue(inbox[port])
         /\ Len(recvfrom(port)[port]) + 1 = Len(inbox[port])
  <1>1. inbox[port] \in Seq(CommandDatagrams) /\ \A p \in Ports : Len(inbox[p]) \in Nat
    BY DEF Fits
  <1>2. /\ Head(inbox[port]) \in InQueue(inbox[port])
        /\ InQueue(inbox[port]) \subseteq CommandDatagrams
        /\ Tail(inbox[port]) \in Seq(CommandDatagrams)
        /\ InQueue(Tail(inbox[port])) \subseteq InQueue(inbox[port])
    BY <1>1, QueueContents
  <1>3. Len(Tail(inbox[port])) + 1 = Len(inbox[port]) /\ Len(Tail(inbox[port])) \in Nat
    BY <1>1
  <1>4. /\ \A p \in Ports \ {port} : recvfrom(port)[p] = inbox[p]
        /\ recvfrom(port)[port] = Tail(inbox[port])
        /\ Fits(recvfrom(port))
    BY <1>2 DEF recvfrom, Fits
  <1>5. ASSUME NEW p \in Ports
        PROVE  /\ InQueue(recvfrom(port)[p]) \subseteq InQueue(inbox[p])
               /\ Len(recvfrom(port)[p]) <= Len(inbox[p])
    <2>1. CASE p = port
      BY <2>1, <1>1, <1>2, <1>3, <1>4
    <2>2. CASE p # port
      <3>1. recvfrom(port)[p] = inbox[p]
        BY <2>2, <1>4
      <3>2. Len(inbox[p]) <= Len(inbox[p])
        BY <1>1
      <3> QED
        BY <3>1, <3>2
    <2> QED
      BY <2>1, <2>2
  <1>6. Keeps(inbox, recvfrom(port))
    BY <1>4, <1>5 DEF Keeps
  <1> QED
    BY <1>2, <1>3, <1>4, <1>6 DEF Received

\* close empties one queue.
LEMMA CloseKeeps ==
  ASSUME NEW q, Fits(q), NEW port \in Ports
  PROVE  Keeps(q, closeSocket(q, port)) /\ closeSocket(q, port)[port] = <<>>
  <1>1. /\ \A p \in Ports \ {port} : closeSocket(q, port)[p] = q[p]
        /\ closeSocket(q, port)[port] = <<>>
        /\ Fits(closeSocket(q, port))
    BY DEF closeSocket, Fits
  <1>2. \A p \in Ports : Len(q[p]) \in Nat
    BY DEF Fits
  <1>3. InQueue(<<>>) = {} /\ Len(<<>>) = 0
    BY DEF InQueue
  <1>4. \A p \in Ports : /\ InQueue(closeSocket(q, port)[p]) \subseteq InQueue(q[p])
                         /\ Len(closeSocket(q, port)[p]) <= Len(q[p])
    BY <1>1, <1>2, <1>3
  <1> QED
    BY <1>1, <1>4 DEF Keeps

LEMMA KeepsSelf == ASSUME NEW q, Fits(q) PROVE Keeps(q, q)
  <1>1. \A p \in Ports : Len(q[p]) \in Nat
    BY DEF Fits
  <1> QED
    BY <1>1 DEF Keeps

\* Operations in a row.
LEMMA KeepsKeeps ==
  ASSUME NEW q, NEW r, NEW s, Fits(q), Keeps(q, r), Keeps(r, s)
  PROVE  Keeps(q, s)
  <1>1. \A p \in Ports : Len(q[p]) \in Nat /\ Len(r[p]) \in Nat /\ Len(s[p]) \in Nat
    BY DEF Fits, Keeps
  <1>2. ASSUME NEW p \in Ports
        PROVE  InQueue(s[p]) \subseteq InQueue(q[p]) /\ Len(s[p]) <= Len(q[p])
    BY <1>1 DEF Keeps
  <1> QED
    BY <1>2 DEF Keeps

LEMMA KeepsThenAdds ==
  ASSUME NEW q, NEW r, NEW s, NEW dst, NEW d, Fits(q), Keeps(q, r), Adds(r, s, dst, d)
  PROVE  Adds(q, s, dst, d)
  <1>1. \A p \in Ports : Len(q[p]) \in Nat /\ Len(r[p]) \in Nat /\ Len(s[p]) \in Nat
    BY DEF Fits, Keeps, Adds
  <1>2. ASSUME NEW p \in Ports \ {dst}
        PROVE  InQueue(s[p]) \subseteq InQueue(q[p]) /\ Len(s[p]) <= Len(q[p])
    <2>1. InQueue(s[p]) \subseteq InQueue(r[p]) /\ Len(s[p]) <= Len(r[p])
      BY Zenon DEF Keeps, Adds
    <2>2. InQueue(r[p]) \subseteq InQueue(q[p]) /\ Len(r[p]) <= Len(q[p])
      BY Zenon DEF Keeps, Adds
    <2> QED
      BY <2>1, <2>2, <1>1
  <1>3. ASSUME dst \in Ports
        PROVE  InQueue(s[dst]) \subseteq InQueue(q[dst]) \cup {d} /\ Len(s[dst]) <= Len(q[dst]) + 1
    BY <1>1, <1>3 DEF Keeps, Adds
  <1> QED
    BY <1>2, <1>3 DEF Adds

LEMMA AddsThenKeeps ==
  ASSUME NEW q, NEW r, NEW s, NEW dst, NEW d, Fits(q), Adds(q, r, dst, d), Keeps(r, s)
  PROVE  Adds(q, s, dst, d)
  <1>1. \A p \in Ports : Len(q[p]) \in Nat /\ Len(r[p]) \in Nat /\ Len(s[p]) \in Nat
    BY DEF Fits, Keeps, Adds
  <1>2. ASSUME NEW p \in Ports \ {dst}
        PROVE  InQueue(s[p]) \subseteq InQueue(q[p]) /\ Len(s[p]) <= Len(q[p])
    <2>1. InQueue(s[p]) \subseteq InQueue(r[p]) /\ Len(s[p]) <= Len(r[p])
      BY Zenon DEF Keeps, Adds
    <2>2. InQueue(r[p]) \subseteq InQueue(q[p]) /\ Len(r[p]) <= Len(q[p])
      BY Zenon DEF Keeps, Adds
    <2> QED
      BY <2>1, <2>2, <1>1
  <1>3. ASSUME dst \in Ports
        PROVE  InQueue(s[dst]) \subseteq InQueue(q[dst]) \cup {d} /\ Len(s[dst]) <= Len(q[dst]) + 1
    BY <1>1, <1>3 DEF Keeps, Adds
  <1> QED
    BY <1>2, <1>3, Zenon DEF Adds, Keeps

---------------------------------------------------------------------------
(* What each step does to the queues.                                      *)

\* The client's queue gets nothing but perhaps what is in S.
AtClient(S) ==
    /\ Fits(inbox')
    /\ InQueue(inbox'[ClientPort]) \subseteq InQueue(inbox[ClientPort]) \cup S

\* The listener's queue gets nothing.
ServerQuiet ==
    /\ InQueue(inbox'[ServerPort]) \subseteq InQueue(inbox[ServerPort])
    /\ Len(inbox'[ServerPort]) <= Len(inbox[ServerPort])

LEMMA KeepsQuiet ==
  ASSUME Keeps(inbox, inbox')
  PROVE  AtClient({}) /\ ServerQuiet
  BY PortFacts DEF Keeps, AtClient, ServerQuiet

LEMMA AddsQuiet ==
  ASSUME NEW dst, NEW d, Adds(inbox, inbox', dst, d)
  PROVE  /\ AtClient({d})
         /\ dst # ClientPort => AtClient({})
         /\ dst # ServerPort => ServerQuiet
  BY PortFacts DEF Adds, AtClient, ServerQuiet

\* The calls in the orders the handlers make them.
LEMMA Calls ==
  ASSUME Fits(inbox), NEW src \in Ports, NEW dst, NEW pkt \in CommandPackets,
         NEW in \in Ports, inbox[in] # <<>>, NEW own \in Ports
  PROVE  LET d == [src |-> src, pkt |-> pkt] IN
         /\ Keeps(inbox, closeSocket(recvfrom(in), own))
         /\ Adds(inbox, sendto(recvfrom(in), Open, src, dst, pkt), dst, d)
         /\ Adds(inbox, closeSocket(sendto(recvfrom(in), Open, src, dst, pkt), own), dst, d)
         /\ closeSocket(recvfrom(in), own)[own] = <<>>
         /\ closeSocket(sendto(recvfrom(in), Open, src, dst, pkt), own)[own] = <<>>
  <1> DEFINE d == [src |-> src, pkt |-> pkt]
             r == recvfrom(in)
             s == sendto(r, Open, src, dst, pkt)
             c == closeSocket(s, own)
             e == closeSocket(r, own)
  <1>1. Keeps(inbox, r)
    BY RecvKeeps
  <1> HIDE DEF r
  <1>2. Fits(r)
    BY <1>1 DEF Keeps
  <1>3. Adds(r, s, dst, d)
    BY <1>2, SendAdds, PortFacts
  <1> HIDE DEF s, d
  <1>4. Fits(s) /\ Adds(inbox, s, dst, d)
    BY <1>1, <1>3, KeepsThenAdds DEF Adds
  <1>5. Keeps(s, c) /\ c[own] = <<>> /\ Keeps(r, e) /\ e[own] = <<>>
    BY <1>2, <1>4, CloseKeeps
  <1> HIDE DEF c, e
  <1>6. Keeps(inbox, e)
    BY <1>1, <1>5, KeepsKeeps
  <1>7. Adds(inbox, c, dst, d)
    BY <1>4, <1>5, AddsThenKeeps
  <1> QED
    BY <1>4, <1>5, <1>6, <1>7 DEF c, d, e, r, s

LEMMA Answers ==
  ASSUME Fits(inbox), NEW t \in Threads, NEW pkt \in CommandPackets
  PROVE  LET d == [src |-> ThreadPort(t), pkt |-> pkt] IN
         /\ Adds(inbox, threadSend(inbox, t, pkt), ClientPort, d)
         /\ Adds(inbox, closeSocket(threadSend(inbox, t, pkt), ThreadPort(t)), ClientPort, d)
         /\ Keeps(inbox, closeSocket(inbox, ThreadPort(t)))
  <1> DEFINE d == [src |-> ThreadPort(t), pkt |-> pkt]
             s == threadSend(inbox, t, pkt)
             c == closeSocket(s, ThreadPort(t))
  <1>1. Adds(inbox, s, ClientPort, d)
    BY SendAdds, PortFacts DEF threadSend
  <1> HIDE DEF s, d
  <1>2. Fits(s)
    BY <1>1 DEF Adds
  <1>3. Keeps(s, c)
    BY <1>2, CloseKeeps, PortFacts
  <1> HIDE DEF c
  <1>4. Adds(inbox, c, ClientPort, d)
    BY <1>1, <1>3, AddsThenKeeps
  <1>5. Keeps(inbox, closeSocket(inbox, ThreadPort(t)))
    BY CloseKeeps, PortFacts
  <1> QED
    BY <1>1, <1>4, <1>5 DEF c, d, s

\* What the client receives comes from a thread, or is the listener's ERROR.
FromServerSide(d) == d.src \in ThreadPorts \/ (d.src = ServerPort /\ d.pkt.op = ERROR)
Sources == \A d \in InQueue(inbox[ClientPort]) : FromServerSide(d)

LEMMA ClientReceived ==
  ASSUME Fits(inbox), Sources, ClientReceives
  PROVE  /\ ClientPacket \in CommandPackets
         /\ ClientSource \in Ports \ {ClientPort}
         /\ ClientPacket.op # ERROR => ClientSource \in ThreadPorts
         /\ Received(ClientPort) \in InQueue(inbox[ClientPort])
         /\ inbox[ClientPort] # <<>>
  <1>1. /\ Received(ClientPort) \in CommandDatagrams
        /\ Received(ClientPort) \in InQueue(inbox[ClientPort])
        /\ inbox[ClientPort] # <<>>
    BY RecvKeeps, PortFacts DEF ClientReceives
  <1>2. FromServerSide(Received(ClientPort))
    BY <1>1 DEF Sources
  <1>3. \A p \in ThreadPorts : p \in Ports /\ p # ClientPort
    BY PortFacts DEF ThreadPorts
  <1>4. ClientPacket \in CommandPackets /\ ClientSource \in Ports
    BY <1>1 DEF CommandDatagrams, ClientPacket, ClientSource
  <1> QED
    BY <1>1, <1>2, <1>3, <1>4, PortFacts DEF FromServerSide, ClientPacket, ClientSource

---------------------------------------------------------------------------
(* Type correctness.                                                       *)

DeleteLabels == {"bind", "start", "find", "count", "exists", "remove", "erase", "ack", "done"}
ListLabels == {"bind", "start", "list", "send", "wait", "end", "done"}
Labels == {"free"} \cup DeleteLabels \cup ListLabels

ClientTypes ==
    /\ cpc \in {"idle", "run", "ok", "fail"} /\ cop \in {0, DELETE, LS}
    /\ cretry \in 0 .. MaxRetry /\ expected \in UInt16
    /\ out \in Seq(Lines)
    /\ requests \in 0 .. MaxRequests /\ deleted \in Nat
    /\ cpc = "run" => cretry > 0 /\ requests > 0
    \* A running DELETE has not been counted yet.
    /\ deleted + (IF cpc = "run" /\ cop = DELETE THEN 1 ELSE 0) <= requests

ThreadTypes ==
    /\ nextId \in Nat \ {0}
    /\ tpc \in [Threads -> Labels] /\ topcode \in [Threads -> {0, DELETE, LS}]
    /\ tfile \in [Threads -> Names \cup {NoName}]
    /\ block \in [Threads -> UInt16]
    /\ lines \in [Threads -> Seq(Lines)]
    /\ dataSize \in [Threads -> 0 .. BlockSize]
    /\ \A t \in Threads :
        /\ t >= nextId => tpc[t] = "free"
        /\ tpc[t] = "free" <=> topcode[t] = 0
        /\ topcode[t] = DELETE => tpc[t] \in DeleteLabels /\ tfile[t] \in Names
        /\ topcode[t] = LS => tpc[t] \in ListLabels

FileTypes ==
    /\ up \in BOOLEAN
    /\ \A f \in DOMAIN files : f \in Names /\ files[f] \in {0, 1}

\* From the moment a listing opens it, ls.txt holds lines of listings.
ListOpened(t) == topcode[t] = LS /\ tpc[t] \in {"list", "send", "wait", "end"}
ListTypes ==
    ListFile \in DOMAIN disk /\ (\E t \in Threads : ListOpened(t)) => disk[ListFile] \in Seq(Lines)

QueueTypes ==
    /\ Fits(inbox)
    /\ Sources
    /\ requests = 0 => nextId = 1 /\ \A p \in Ports : inbox[p] = <<>>

TInv == ClientTypes /\ ThreadTypes /\ FileTypes /\ ListTypes /\ QueueTypes

LEMMA Opcodes == /\ DELETE # LS /\ DELETE # 0 /\ LS # 0 /\ DELETE # ACK /\ DELETE # DATA
                 /\ DELETE # ERROR /\ LS # ACK /\ LS # DATA /\ LS # ERROR
                 /\ ACK # DATA /\ ACK # ERROR /\ DATA # ERROR
                 /\ RRQ \notin {DELETE, LS, ACK, DATA, ERROR}
                 /\ WRQ \notin {DELETE, LS, ACK, DATA, ERROR}
  BY DEF DELETE, LS, ACK, DATA, ERROR, RRQ, WRQ

LEMMA TInvTypeOK == ASSUME TInv PROVE TypeOK
  <1>1. /\ cpc \in {"idle", "run", "ok", "fail"} /\ cop \in {0, DELETE, LS}
        /\ cretry \in 0 .. MaxRetry /\ out \in Seq(Names \X {0, 1})
    BY DEF TInv, ClientTypes, Lines
  <1>2. deleted \in 0 .. MaxRequests
    BY LoopbackAssumption DEF TInv, ClientTypes
  <1>3. ASSUME NEW t \in Threads
        PROVE  /\ tpc[t] \in {"free", "bind", "start", "done"}
                   \cup IF topcode[t] = LS THEN {"list", "send", "wait", "end"}
                        ELSE {"find", "count", "exists", "remove", "erase", "ack"}
               /\ dataSize[t] \in 0 .. BlockSize
    <2>1. topcode[t] \in {0, DELETE, LS}
      BY DEF TInv, ThreadTypes
    <2>2. dataSize[t] \in 0 .. BlockSize
      BY DEF TInv, ThreadTypes
    <2>3. CASE topcode[t] = 0
      BY <2>3 DEF TInv, ThreadTypes
    <2>4. CASE topcode[t] = DELETE
      BY <2>4, Opcodes DEF TInv, ThreadTypes, DeleteLabels
    <2>5. CASE topcode[t] = LS
      BY <2>5 DEF TInv, ThreadTypes, ListLabels
    <2> QED
      BY <2>1, <2>2, <2>3, <2>4, <2>5
  <1>4. topcode \in [Threads -> {0, DELETE, LS}]
    BY DEF TInv, ThreadTypes
  <1>5. up \in BOOLEAN /\ \A f \in DOMAIN files : f \in Names /\ files[f] \in {0, 1}
    BY DEF TInv, FileTypes
  <1> QED
    BY <1>1, <1>2, <1>3, <1>4, <1>5 DEF TypeOK

LEMMA InitTypes == CommandInit => TInv
  <1> SUFFICES ASSUME CommandInit PROVE TInv
    OBVIOUS
  <1> USE DEF CommandInit, InitWith
  <1>1. ClientTypes
    BY SessionsAssumption, LoopbackAssumption, U16Type DEF ClientTypes, UInt16
  <1>2. ThreadTypes
    <2>1. 0 \in UInt16 /\ 0 \in 0 .. BlockSize /\ <<>> \in Seq(Lines)
      BY U16Type, PacketAssumption DEF UInt16
    <2> QED
      BY <2>1, Opcodes DEF ThreadTypes, Labels
  <1>3. FileTypes
    BY CommandsAssumption, SessionsAssumption DEF FileTypes, initializeFileMap
  <1>4. ListTypes
    BY DEF ListTypes, ListOpened
  <1>5. QueueTypes
    <2>1. Fits(inbox) /\ \A p \in Ports : inbox[p] = <<>>
      BY DEF NetInit, Fits
    <2>2. InQueue(<<>>) = {}
      BY DEF InQueue
    <2> QED
      BY <2>1, <2>2, PortFacts DEF QueueTypes, Sources
  <1> QED
    BY <1>1, <1>2, <1>3, <1>4, <1>5 DEF TInv

\* A thread at work, and a datagram under way, come from a request.
LEMMA Requested ==
  ASSUME TInv
  PROVE  /\ \A t \in Threads : tpc[t] # "free" => requests # 0
         /\ \A p \in Ports : inbox[p] # <<>> => requests # 0
         /\ requests \in Nat
  <1>1. ASSUME NEW t \in Threads, tpc[t] # "free" PROVE requests # 0
    <2>1. ~(t >= nextId) /\ t \in Nat /\ t >= 1 /\ nextId \in Nat
      BY <1>1, LoopbackAssumption DEF TInv, ThreadTypes, Threads
    <2>2. nextId # 1
      BY <2>1
    <2> QED
      BY <2>2 DEF TInv, QueueTypes
  <1> QED
    BY <1>1 DEF TInv, QueueTypes, ClientTypes

\* How the sources stay known.
LEMMA SourcesKept ==
  ASSUME TInv, NEW S, AtClient(S), \A d \in S : FromServerSide(d),
         requests' # 0
  PROVE  QueueTypes'
  <1>1. Sources'
    BY DEF TInv, QueueTypes, Sources, AtClient, FromServerSide
  <1>2. Fits(inbox)'
    BY DEF AtClient, Fits
  <1> QED
    BY <1>1, <1>2 DEF QueueTypes

---------------------------------------------------------------------------
(* The client's steps.                                                     *)

ServerSame == UNCHANGED <<threadVars, serverVars, topcode, lines, dataSize, startDir>>

LEMMA ServerTypesKept ==
  ASSUME TInv, ServerSame
  PROVE  ThreadTypes' /\ FileTypes' /\ ListTypes'
  <1>1. /\ nextId' = nextId /\ tpc' = tpc /\ topcode' = topcode /\ tfile' = tfile
        /\ block' = block /\ lines' = lines /\ dataSize' = dataSize
        /\ up' = up /\ files' = files /\ disk' = disk
    BY DEF ServerSame, threadVars, serverVars
  <1>2. ThreadTypes'
    BY <1>1 DEF TInv, ThreadTypes
  <1>3. FileTypes'
    BY <1>1 DEF TInv, FileTypes
  <1>4. ListTypes'
    BY <1>1 DEF TInv, ListTypes, ListOpened
  <1> QED
    BY <1>2, <1>3, <1>4

\* A request, and nothing else but ERRORs to the listener.
LEMMA StartQueues ==
  ASSUME TInv
  PROVE  /\ \A f \in Deletable : StartDelete(f) =>
               /\ AtClient({})
               /\ Adds(inbox, inbox', ServerPort,
                       [src |-> ClientPort, pkt |-> createDeletePacket(f)])
         /\ StartList => AtClient({})
         /\ StartListFails => AtClient({})
  <1>1. Fits(inbox)
    BY DEF TInv, QueueTypes
  <1>2. ServerPort # ClientPort /\ ClientPort \in Ports /\ Open \in SUBSET Ports
    BY PortFacts
  <1>3. ASSUME NEW f \in Deletable, StartDelete(f)
        PROVE  /\ AtClient({})
               /\ Adds(inbox, inbox', ServerPort,
                       [src |-> ClientPort, pkt |-> createDeletePacket(f)])
    <2>1. createDeletePacket(f) \in CommandPackets
      BY CommandsAssumption, CommandPacketTypes
    <2>2. inbox' = sendto(inbox, Open, ClientPort, ServerPort, createDeletePacket(f))
      BY <1>3 DEF StartDelete, StartClient
    <2>3. Adds(inbox, inbox', ServerPort, [src |-> ClientPort, pkt |-> createDeletePacket(f)])
      BY <1>1, <1>2, <2>1, <2>2, SendAdds
    <2> QED
      BY <2>3, <1>2, AddsQuiet
  <1>4. ASSUME StartList PROVE AtClient({})
    <2>1. inbox' = sendto(inbox, Open, ClientPort, ServerPort, createLSPacket)
      BY <1>4 DEF StartList, StartClient
    <2>2. Adds(inbox, inbox', ServerPort, [src |-> ClientPort, pkt |-> createLSPacket])
      BY <1>1, <1>2, <2>1, SendAdds, CommandPacketTypes
    <2> QED
      BY <2>2, <1>2, AddsQuiet
  <1>5. ASSUME StartListFails PROVE AtClient({})
    <2> DEFINE q == sendto(inbox, Open, ClientPort, ServerPort, createLSPacket)
    <2>1. inbox' = sendto(q, Open, ClientPort, ServerPort, createErrorPacket(DISK_FULL))
      BY <1>5 DEF StartListFails
    <2>2. Adds(inbox, q, ServerPort, [src |-> ClientPort, pkt |-> createLSPacket])
      BY <1>1, <1>2, SendAdds, CommandPacketTypes
    <2> HIDE DEF q
    <2>3. Fits(q)
      BY <2>2 DEF Adds
    <2>4. createErrorPacket(DISK_FULL) \in CommandPackets
      BY CommandPacketTypes DEF DISK_FULL
    <2>5. Adds(q, inbox', ServerPort, [src |-> ClientPort, pkt |-> createErrorPacket(DISK_FULL)])
      BY <1>2, <2>1, <2>3, <2>4, SendAdds
    <2>6. /\ InQueue(inbox'[ClientPort]) \subseteq InQueue(q[ClientPort])
          /\ InQueue(q[ClientPort]) \subseteq InQueue(inbox[ClientPort])
      BY <2>2, <2>5, <1>2 DEF Adds
    <2> QED
      BY <2>5, <2>6 DEF AtClient, Adds
  <1> QED
    BY <1>3, <1>4, <1>5

LEMMA StartTypes ==
  ASSUME TInv, CommandStart
  PROVE  TInv'
  <1>1. requests' = requests + 1 /\ requests < MaxRequests /\ AtClient({}) /\ ServerSame
    <2>1. ASSUME NEW f \in Deletable, StartDelete(f)
          PROVE  requests' = requests + 1 /\ requests < MaxRequests /\ AtClient({}) /\ ServerSame
      BY <2>1, StartQueues DEF StartDelete, StartClient, ServerSame
    <2>2. ASSUME StartList
          PROVE  requests' = requests + 1 /\ requests < MaxRequests /\ AtClient({}) /\ ServerSame
      BY <2>2, StartQueues DEF StartList, StartClient, ServerSame
    <2>3. ASSUME StartListFails
          PROVE  requests' = requests + 1 /\ requests < MaxRequests /\ AtClient({}) /\ ServerSame
      BY <2>3, StartQueues DEF StartListFails, ServerSame
    <2> QED
      BY <2>1, <2>2, <2>3 DEF CommandStart
  <1>2. requests \in Nat /\ requests' \in 0 .. MaxRequests /\ requests' > 0
    BY <1>1, Requested, LoopbackAssumption
  <1>3. ClientTypes'
    <2>1. MaxRetry \in Nat /\ MaxRetry > 0 /\ 1 \in UInt16 /\ <<>> \in Seq(Lines)
      BY SessionsAssumption, U16Type DEF UInt16
    <2>2. deleted \in Nat /\ deleted <= requests
      BY DEF TInv, ClientTypes
    <2>3. ASSUME NEW f \in Deletable, StartDelete(f) PROVE ClientTypes'
      BY <1>1, <1>2, <2>1, <2>2, <2>3 DEF StartDelete, StartClient, ClientTypes
    <2>4. ASSUME StartList PROVE ClientTypes'
      BY <1>1, <1>2, <2>1, <2>2, <2>4, Opcodes DEF StartList, StartClient, ClientTypes
    <2>5. ASSUME StartListFails PROVE ClientTypes'
      <3>1. /\ cpc' = "fail" /\ cop' = LS /\ cretry' = cretry /\ expected' = expected
            /\ out' = out /\ deleted' = deleted
        BY <2>5 DEF StartListFails
      <3> QED
        BY <3>1, <1>1, <1>2, <2>2, Opcodes DEF TInv, ClientTypes
    <2> QED
      BY <2>3, <2>4, <2>5 DEF CommandStart
  <1>4. QueueTypes'
    BY <1>1, <1>2, SourcesKept
  <1> QED
    BY <1>1, <1>3, <1>4, ServerTypesKept DEF TInv

\* The client only takes datagrams from its queue; what it sends after a DELETE
\* does not go to the listener.
LEMMA ClientQueues ==
  ASSUME TInv, CommandClientStep
  PROVE  /\ AtClient({})
         /\ cop = DELETE => ServerQuiet
         /\ requests' = requests /\ ServerSame /\ cop' = cop /\ cfile' = cfile
         /\ DeleteAnswered => inbox'[ClientPort] = <<>>
  <1>1. Fits(inbox) /\ Sources
    BY DEF TInv, QueueTypes
  <1>2. ServerPort # ClientPort /\ ClientPort \in Ports /\ ServerPort \in Ports
    BY PortFacts
  <1>3. /\ createErrorPacket(ILLEGAL_TFTP_OPERATION) \in CommandPackets
        /\ createErrorPacket(DISK_FULL) \in CommandPackets
    BY CommandPacketTypes DEF ILLEGAL_TFTP_OPERATION, DISK_FULL
  <1>4. ASSUME DeleteAnswered
        PROVE  AtClient({}) /\ ServerQuiet /\ inbox'[ClientPort] = <<>>
    <2>1. ClientReceives /\ ClientPacket.op \in {DELETE, DATA, LS, ACK, ERROR}
      BY <1>4, <1>1, ClientReceived, PacketForms DEF DeleteAnswered
    <2>2. CASE ClientPacket.op \in {ACK, ERROR}
      <3>1. inbox' = closeSocket(recvfrom(ClientPort), ClientPort)
        BY <1>4, <2>2 DEF DeleteAnswered, ClientReturns
      <3>2. Keeps(inbox, inbox') /\ inbox'[ClientPort] = <<>>
        BY <3>1, <2>1, <1>1, <1>2, <1>3, ClientReceived, Calls
      <3> QED
        BY <3>2, KeepsQuiet
    <2>3. CASE ClientPacket.op \notin {ACK, ERROR}
      <3>1. inbox' = closeSocket(sendto(recvfrom(ClientPort), Open, ClientPort, ClientSource,
                                        createErrorPacket(ILLEGAL_TFTP_OPERATION)), ClientPort)
        BY <1>4, <2>3 DEF DeleteAnswered, ClientReturns, clientSend
      <3>2. ClientSource \in ThreadPorts /\ inbox[ClientPort] # <<>>
        BY <2>1, <2>3, <1>1, ClientReceived
      <3>3. ClientSource # ClientPort /\ ClientSource # ServerPort
        BY <3>2, PortFacts DEF ThreadPorts
      <3>4. /\ Adds(inbox, inbox', ClientSource,
                    [src |-> ClientPort, pkt |-> createErrorPacket(ILLEGAL_TFTP_OPERATION)])
            /\ inbox'[ClientPort] = <<>>
        BY <3>1, <3>2, <1>1, <1>2, <1>3, Calls
      <3> QED
        BY <3>3, <3>4, AddsQuiet
    <2> QED
      BY <2>2, <2>3
  <1>5. ASSUME ListRefused PROVE AtClient({})
    <2>1. inbox' = closeSocket(sendto(recvfrom(ClientPort), Open, ClientPort, ClientSource,
                                      createErrorPacket(ILLEGAL_TFTP_OPERATION)), ClientPort)
      BY <1>5 DEF ListRefused, ClientReturns, clientSend
    <2>2. ClientSource # ClientPort /\ inbox[ClientPort] # <<>>
      BY <1>5, <1>1, ClientReceived DEF ListRefused
    <2>3. Adds(inbox, inbox', ClientSource,
               [src |-> ClientPort, pkt |-> createErrorPacket(ILLEGAL_TFTP_OPERATION)])
      BY <2>1, <2>2, <1>1, <1>2, <1>3, Calls
    <2> QED
      BY <2>2, <2>3, AddsQuiet
  <1>6. ASSUME ListIgnored PROVE AtClient({})
    <2>1. Keeps(inbox, inbox')
      BY <1>6, <1>1, <1>2, RecvKeeps DEF ListIgnored, ClientReceives
    <2> QED
      BY <2>1, KeepsQuiet
  <1>7. ASSUME ListStored PROVE AtClient({})
    <2> DEFINE s == sendto(recvfrom(ClientPort), Open, ClientPort, ClientSource,
                           createACKPacket(expected))
    <2>1. inbox' = s \/ inbox' = closeSocket(s, ClientPort)
      BY <1>7 DEF ListStored, ClientReturns, clientSend
    <2>2. ClientSource # ClientPort /\ inbox[ClientPort] # <<>>
      BY <1>7, <1>1, ClientReceived DEF ListStored
    <2>3. createACKPacket(expected) \in CommandPackets
      BY CommandPacketTypes DEF TInv, ClientTypes
    <2>4. Adds(inbox, inbox', ClientSource,
               [src |-> ClientPort, pkt |-> createACKPacket(expected)])
      BY <2>1, <2>2, <2>3, <1>1, <1>2, Calls
    <2> QED
      BY <2>2, <2>4, AddsQuiet
  <1>8. ASSUME ListStoreFails PROVE AtClient({})
    <2>1. inbox' = closeSocket(sendto(recvfrom(ClientPort), Open, ClientPort, ServerPort,
                                      createErrorPacket(DISK_FULL)), ClientPort)
      BY <1>8 DEF ListStoreFails, ClientReturns, clientSend
    <2>2. inbox[ClientPort] # <<>>
      BY <1>8, <1>1, ClientReceived DEF ListStoreFails
    <2>3. Adds(inbox, inbox', ServerPort,
               [src |-> ClientPort, pkt |-> createErrorPacket(DISK_FULL)])
      BY <2>1, <2>2, <1>1, <1>2, <1>3, Calls
    <2> QED
      BY <2>3, <1>2, AddsQuiet
  <1>9. ASSUME CommandTimeout PROVE AtClient({}) /\ ServerQuiet
    <2>1. inbox' = inbox \/ inbox' = closeSocket(inbox, ClientPort)
      BY <1>9 DEF CommandTimeout, ClientTimeout, ClientReturns
    <2>2. Keeps(inbox, inbox')
      BY <2>1, <1>1, <1>2, KeepsSelf, CloseKeeps
    <2> QED
      BY <2>2, KeepsQuiet
  <1>10. AtClient({})
    BY <1>4, <1>5, <1>6, <1>7, <1>8, <1>9 DEF CommandClientStep
  <1>11. cop = DELETE => ServerQuiet
    <2>1. cop = DELETE => DeleteAnswered \/ CommandTimeout
      BY Opcodes
      DEF CommandClientStep, ListRefused, ListIgnored, ListStored, ListStoreFails
    <2> QED
      BY <2>1, <1>4, <1>9
  <1>12. requests' = requests /\ ServerSame /\ cop' = cop /\ cfile' = cfile
    <2> DEFINE G == requests' = requests /\ ServerSame /\ cop' = cop /\ cfile' = cfile
    <2>1. DeleteAnswered => G
      BY DEF DeleteAnswered, ServerSame
    <2>2. ListRefused => G
      BY DEF ListRefused, ServerSame, cmdVars
    <2>3. ListIgnored => G
      BY DEF ListIgnored, ServerSame, cmdVars
    <2>4. ListStored => G
      BY DEF ListStored, ServerSame, cmdVars
    <2>5. ListStoreFails => G
      BY DEF ListStoreFails, ServerSame
    <2>6. CommandTimeout => G
      BY DEF CommandTimeout, ClientTimeout, ServerSame
    <2> QED
      BY <2>1, <2>2, <2>3, <2>4, <2>5, <2>6 DEF CommandClientStep
  <1> QED
    BY <1>4, <1>10, <1>11, <1>12

LEMMA ClientStepTypes ==
  ASSUME TInv, CommandClientStep
  PROVE  TInv'
  <1>1. AtClient({}) /\ requests' = requests /\ ServerSame /\ cop' = cop /\ Fits(inbox) /\ Sources
    BY ClientQueues DEF TInv, QueueTypes
  <1>2. cpc = "run" /\ requests > 0 /\ requests \in Nat /\ MaxRetry \in Nat /\ MaxRetry > 0
    BY SessionsAssumption, LoopbackAssumption
    DEF TInv, ClientTypes, CommandClientStep, DeleteAnswered, ListRefused, ListIgnored, ListStored,
        ListStoreFails, CommandTimeout, ClientTimeout, ClientReceives
  <1>3. ClientTypes'
    <2> USE DEF ClientTypes
    <2>0. ClientTypes
      BY DEF TInv
    <2>1. CASE DeleteAnswered
      <3>1. /\ cop = DELETE /\ cpc' \in {"ok", "fail"} /\ cretry' = MaxRetry
            /\ expected' = expected /\ out' = out /\ deleted' \in {deleted, deleted + 1}
        BY <2>1 DEF DeleteAnswered, ClientReturns
      <3>2. deleted \in Nat /\ deleted + 1 <= requests
        BY <3>1, <2>0, <1>2
      <3>3. cpc' # "run" /\ requests' = requests /\ cop' = cop
        BY <3>1, <1>1
      <3>4. deleted' \in Nat /\ deleted' <= requests
        BY <3>1, <3>2, <1>2
      <3>5. deleted' + (IF cpc' = "run" /\ cop' = DELETE THEN 1 ELSE 0) <= requests'
        BY <3>3, <3>4
      <3>6. cpc' \in {"idle", "run", "ok", "fail"} /\ cop' \in {0, DELETE, LS}
        BY <3>1, <3>3
      <3>7. cretry' \in 0 .. MaxRetry /\ expected' \in UInt16 /\ out' \in Seq(Lines)
        BY <3>1, <2>0, <1>2
      <3>8. requests' \in 0 .. MaxRequests
        BY <3>3, <2>0
      <3> QED
        BY <3>3, <3>4, <3>5, <3>6, <3>7, <3>8
    <2>2. CASE ListRefused
      <3>1. /\ cop = LS /\ cpc' = "fail" /\ cretry' = MaxRetry
            /\ expected' = expected /\ out' = out /\ deleted' = deleted
        BY <2>2 DEF ListRefused, ClientReturns, cmdVars
      <3> QED
        BY <3>1, <2>0, <1>1, <1>2, Opcodes
    <2>3. CASE ListIgnored
      <3>1. /\ cop = LS /\ cpc' = cpc /\ cretry' = MaxRetry
            /\ expected' = expected /\ out' = out /\ deleted' = deleted
        BY <2>3 DEF ListIgnored, cmdVars
      <3> QED
        BY <3>1, <2>0, <1>1, <1>2, Opcodes
    <2>4. CASE ListStored
      <3>1. /\ cop = LS /\ cpc' \in {"ok", "run"} /\ cretry' = MaxRetry
            /\ expected' = Inc16(expected) /\ out' = out \o ClientPacket.data
            /\ deleted' = deleted /\ ClientReceives /\ ClientPacket.op = DATA
        BY <2>4, <1>2 DEF ListStored, ClientReturns, cmdVars
      <3>2. ClientPacket.data \in Seq(Lines)
        BY <3>1, <1>1, ClientReceived, PacketForms
      <3>3. Inc16(expected) \in UInt16 /\ out \o ClientPacket.data \in Seq(Lines)
        BY <3>2, <2>0, Counter16
      <3> QED
        BY <3>1, <3>3, <2>0, <1>1, <1>2, Opcodes
    <2>5. CASE ListStoreFails
      <3>1. /\ cop = LS /\ cpc' = "fail" /\ cretry' = MaxRetry
            /\ expected' = expected /\ out' = out /\ deleted' = deleted
        BY <2>5 DEF ListStoreFails, ClientReturns
      <3> QED
        BY <3>1, <2>0, <1>1, <1>2, Opcodes
    <2>6. CASE CommandTimeout
      <3>1. /\ cretry' = cretry - 1 /\ expected' = expected /\ out' = out /\ deleted' = deleted
            /\ IF cretry' = 0 THEN cpc' = "fail" ELSE cpc' = cpc
        BY <2>6 DEF CommandTimeout, ClientTimeout, ClientReturns, outOfTries, retryAfterTimeout
      <3>2. cretry' \in 0 .. MaxRetry
        BY <3>1, <2>0, <1>2
      <3>3. CASE cretry' = 0
        BY <3>1, <3>2, <3>3, <2>0, <1>1, <1>2
      <3>4. CASE cretry' # 0
        <4>1. cpc' = cpc
          BY <3>1, <3>4
        <4>2. cretry' > 0
          BY <3>2, <3>4, <1>2
        <4> QED
          BY <3>1, <3>2, <4>1, <4>2, <2>0, <1>1, <1>2
      <3> QED
        BY <3>3, <3>4
    <2> QED
      BY <2>1, <2>2, <2>3, <2>4, <2>5, <2>6 DEF CommandClientStep
  <1>4. QueueTypes'
    BY <1>1, <1>2, SourcesKept
  <1> QED
    BY <1>1, <1>3, <1>4, ServerTypesKept DEF TInv

---------------------------------------------------------------------------
(* The lines of a listing.                                                 *)

\* The k-th smallest element of a finite set of numbers.
LEMMA RankReached ==
  ASSUME NEW H \in SUBSET Nat, IsFiniteSet(H), NEW k \in 1 .. Cardinality(H)
  PROVE  \E i \in H : Cardinality({j \in H : j <= i}) = k
  <1> DEFINE UpTo(i) == {j \in H : j <= i}
             C == Cardinality(H)
             f == [i \in H |-> Cardinality(UpTo(i))]
             T == (1 .. C) \ {k}
  <1>1. C \in Nat
    BY FS_CardinalityType
  <1>2. ASSUME NEW i \in H
        PROVE  /\ IsFiniteSet(UpTo(i)) /\ Cardinality(UpTo(i)) \in 1 .. C
    <2>1. UpTo(i) \in SUBSET H /\ i \in UpTo(i)
      OBVIOUS
    <2>2. IsFiniteSet(UpTo(i)) /\ Cardinality(UpTo(i)) <= C
      BY <2>1, FS_Subset
    <2>3. Cardinality(UpTo(i)) \in Nat /\ Cardinality(UpTo(i)) # 0
      BY <2>1, <2>2, FS_CardinalityType, FS_EmptySet
    <2> QED
      BY <1>1, <2>2, <2>3
  <1>3. ASSUME NEW i \in H, NEW j \in H, i < j
        PROVE  Cardinality(UpTo(i)) # Cardinality(UpTo(j))
    <2>0. i \in Nat /\ j \in Nat
      OBVIOUS
    <2>1. UpTo(i) \in SUBSET UpTo(j) /\ j \in UpTo(j) /\ j \notin UpTo(i)
      <3>1. ASSUME NEW x \in H, x <= i PROVE x <= j
        <4>1. x \in Nat
          OBVIOUS
        <4> QED
          BY <4>1, <2>0, <3>1, <1>3
      <3>2. j <= j /\ ~(j <= i)
        BY <2>0, <1>3
      <3> QED
        BY <3>1, <3>2
    <2>2. IsFiniteSet(UpTo(j))
      BY <1>2
    <2> HIDE DEF UpTo
    <2>3. Cardinality(UpTo(j)) = Cardinality(UpTo(i)) => UpTo(j) = UpTo(i)
      BY <2>1, <2>2, FS_Subset
    <2> QED
      BY <2>1, <2>3
  <1> SUFFICES ASSUME \A i \in H : Cardinality(UpTo(i)) # k PROVE FALSE
    OBVIOUS
  <1> HIDE DEF UpTo
  <1>4. f \in [H -> T]
    BY <1>2
  <1>5. IsFiniteSet(1 .. C) /\ Cardinality(1 .. C) = C
    BY <1>1, FS_Interval
  <1>6. IsFiniteSet(T) /\ Cardinality(T) = C - 1
    BY <1>5, FS_RemoveElement
  <1>7. Cardinality(T) < Cardinality(H)
    BY <1>1, <1>6
  <1>8. PICK x \in H, y \in H : x # y /\ f[x] = f[y]
    <2> HIDE DEF f, T
    <2> QED
      BY <1>4, <1>6, <1>7, FS_PigeonHole
  <1>9. Cardinality(UpTo(x)) = Cardinality(UpTo(y))
    BY <1>8
  <1>10. x < y \/ y < x
    BY <1>8
  <1> QED
    BY <1>3, <1>9, <1>10

LEMMA ListingTyped ==
  ASSUME FileTypes
  PROVE  listing \in Seq(Lines)
  <1> DEFINE held    == {i \in DOMAIN NameOrder : NameOrder[i] \in DOMAIN files}
             rank(i) == Cardinality({j \in held : j <= i})
             pos(k)  == CHOOSE i \in held : rank(i) = k
             name(k) == NameOrder[pos(k)]
             C       == Cardinality(held)
  <1>1. NameOrder \in Seq(Names) /\ DOMAIN NameOrder = 1 .. Len(NameOrder) /\ Len(NameOrder) \in Nat
    BY CommandsAssumption
  <1>2. held \in SUBSET (1 .. Len(NameOrder)) /\ held \in SUBSET Nat
    BY <1>1
  <1>3. IsFiniteSet(1 .. Len(NameOrder))
    BY <1>1, FS_Interval
  <1>4. IsFiniteSet(held) /\ C \in Nat
    BY <1>2, <1>3, FS_Subset, FS_CardinalityType
  <1>5. ASSUME NEW k \in 1 .. C
        PROVE  <<name(k), files[name(k)]>> \in Lines
    <2>1. \E i \in held : rank(i) = k
      <3> HIDE DEF held
      <3> QED
        BY <1>2, <1>4, <1>5, RankReached
    <2>2. pos(k) \in held
      BY <2>1
    <2>3. name(k) \in DOMAIN files
      BY <2>2
    <2> QED
      BY <2>3 DEF FileTypes, Lines
  <1>6. listing = [k \in 1 .. C |-> <<name(k), files[name(k)]>>]
    BY DEF listing
  <1> HIDE DEF C, name
  <1>7. [k \in 1 .. C |-> <<name(k), files[name(k)]>>] \in Seq(Lines)
    <2>1. [k \in 1 .. C |-> <<name(k), files[name(k)]>>] \in [1 .. C -> Lines]
      BY <1>5
    <2> QED
      BY <2>1, <1>4
  <1> QED
    BY <1>6, <1>7

\* A block has as many lines as fit.
LEMMA BlockTyped ==
  ASSUME NEW S, NEW file \in Seq(S), NEW b \in Nat
  PROVE  readDataBlock(file, b) \in Seq(S) /\ Len(readDataBlock(file, b)) \in 0 .. BlockSize
  <1>1. CASE b = 0 \/ (b - 1) * BlockSize >= Len(file)
    <2>1. readDataBlock(file, b) = <<>>
      BY <1>1 DEF readDataBlock
    <2>2. <<>> \in Seq(S) /\ Len(<<>>) = 0
      OBVIOUS
    <2> QED
      BY <2>1, <2>2, PacketAssumption
  <1>2. CASE ~(b = 0 \/ (b - 1) * BlockSize >= Len(file))
    <2> DEFINE lo == (b - 1) * BlockSize
               hi == IF b * BlockSize <= Len(file) THEN b * BlockSize ELSE Len(file)
    <2>1. readDataBlock(file, b) = SubSeq(file, lo + 1, hi)
      BY <1>2 DEF readDataBlock
    <2>2. b * BlockSize = lo + BlockSize /\ lo \in Nat /\ b * BlockSize \in Nat
      BY <1>2, PacketAssumption
    <2>3. lo < hi /\ hi <= Len(file) /\ hi \in Nat /\ hi - lo <= BlockSize
      BY <1>2, <2>2, PacketAssumption
    <2> HIDE DEF lo, hi
    <2>4. SubSeq(file, lo + 1, hi) \in Seq(S) /\ Len(SubSeq(file, lo + 1, hi)) = hi - lo
      BY <2>2, <2>3
    <2> QED
      BY <2>1, <2>2, <2>3, <2>4, PacketAssumption
  <1> QED
    BY <1>1, <1>2

---------------------------------------------------------------------------
(* The listener's steps, readers and losses.                               *)

\* A request that is in the listener's queue gets a thread.
Accepts(name) ==
    /\ Received(ServerPort) \in InQueue(inbox[ServerPort])
    /\ ListenerPacket.op \in {DELETE, LS}
    /\ ListenerPacket.op = DELETE => name \in Names /\ ListenerPacket.data = <<name, Octet>>
    /\ ListenerPacket.op = LS => name = NoName
    /\ nextId' = nextId + 1
    /\ tpc' = [tpc EXCEPT ![nextId] = "bind"]
    /\ tfile' = [tfile EXCEPT ![nextId] = name]
    /\ topcode' = [topcode EXCEPT ![nextId] = ListenerPacket.op]
    /\ Keeps(inbox, inbox') /\ Len(inbox'[ServerPort]) + 1 = Len(inbox[ServerPort])
    /\ UNCHANGED <<clientVars, block, files, disk, up, requests, cop, lines, dataSize,
                   deleted, startDir>>

\* Anything else gets an ERROR.
Declines ==
    /\ ListenerPacket.op \notin {DELETE, LS}
    /\ Received(ServerPort) \in InQueue(inbox[ServerPort])
    /\ \E d \in CommandDatagrams : FromServerSide(d) /\ d.pkt.op = ERROR /\ AtClient({d})
    /\ ServerSame
    /\ UNCHANGED <<clientVars, requests, cop, deleted>>

LEMMA ListenerSteps ==
  ASSUME TInv, CommandListenerStep
  PROVE  (\E name \in Names \cup {NoName} : Accepts(name)) \/ Declines
  <1>1. Fits(inbox) /\ ServerPort \in Ports /\ Open \in SUBSET Ports
    BY PortFacts DEF TInv, QueueTypes
  <1>2. inbox[ServerPort] # <<>>
    BY DEF CommandListenerStep, Listen, ListenLS, ListenBadOpcode, ListenerReceives
  <1>3. /\ Received(ServerPort) \in CommandDatagrams
        /\ Received(ServerPort) \in InQueue(inbox[ServerPort])
        /\ Keeps(inbox, recvfrom(ServerPort))
        /\ Len(recvfrom(ServerPort)[ServerPort]) + 1 = Len(inbox[ServerPort])
    BY <1>1, <1>2, RecvKeeps
  <1>4. ListenerPacket \in CommandPackets /\ Received(ServerPort).src \in Ports
    BY <1>3 DEF CommandDatagrams, ListenerPacket
  <1>5. /\ ListenerPacket.op \in {DELETE, DATA, LS, ACK, ERROR}
        /\ ListenerPacket.op = DELETE => ListenerPacket.data \in Names \X {Octet}
    BY <1>4, PacketForms
  <1>6. ASSUME Listen, topcode' = [topcode EXCEPT ![nextId] = ListenerPacket.op],
               UNCHANGED <<cop, lines, dataSize, deleted, disturbed, startDir>>
        PROVE  \E name \in Names : Accepts(name)
    <2>1. ListenerPacket.op = DELETE
      BY <1>5, <1>6, Opcodes DEF Listen
    <2>2. PICK name \in Names : ListenerPacket.data = <<name, Octet>>
      BY <2>1, <1>5
    <2>3. inbox' = recvfrom(ServerPort) /\ tfile' = [tfile EXCEPT ![nextId] = name]
      BY <2>2, <1>6 DEF Listen
    <2>4. Accepts(name)
      BY <1>3, <1>6, <2>1, <2>2, <2>3, Opcodes DEF Listen, Accepts
    <2> QED
      BY <2>4
  <1>7. ASSUME ListenLS, topcode' = [topcode EXCEPT ![nextId] = ListenerPacket.op],
               UNCHANGED <<cop, lines, dataSize, deleted, disturbed, startDir>>
        PROVE  Accepts(NoName)
    <2>1. ListenerPacket.op = LS /\ inbox' = recvfrom(ServerPort)
      BY <1>7 DEF ListenLS
    <2> QED
      BY <1>3, <1>7, <2>1, Opcodes DEF ListenLS, Accepts
  <1>8. ASSUME ListenBadOpcode, UNCHANGED cmdVars
        PROVE  Declines
    <2> DEFINE e == createErrorPacket(ILLEGAL_TFTP_OPERATION)
               src == Received(ServerPort).src
               d == [src |-> ServerPort, pkt |-> e]
    <2>1. e \in CommandPackets /\ e.op = ERROR
      BY CommandPacketTypes DEF ILLEGAL_TFTP_OPERATION
    <2>2. inbox' = sendto(recvfrom(ServerPort), Open, ServerPort, src, e)
      BY <1>8 DEF ListenBadOpcode, ListenerRejects
    <2> HIDE DEF e
    <2>3. Adds(inbox, inbox', src, d)
      BY <1>1, <1>2, <2>1, <2>2, Calls
    <2>4. d \in CommandDatagrams /\ FromServerSide(d) /\ d.pkt.op = ERROR
      BY <2>1, <1>1 DEF CommandDatagrams, FromServerSide
    <2> HIDE DEF d, src
    <2>5. AtClient({d})
      BY <2>3, AddsQuiet
    <2>6. ListenerPacket.op \notin {DELETE, LS}
      BY <1>8 DEF ListenBadOpcode
    <2>7. ServerSame /\ UNCHANGED <<clientVars, requests, cop, deleted>>
      BY <1>8 DEF ListenBadOpcode, ServerSame, cmdVars
    <2> QED
      BY <1>3, <2>4, <2>5, <2>6, <2>7 DEF Declines
  <1> QED
    BY <1>6, <1>7, <1>8 DEF CommandListenerStep

ClientSame == UNCHANGED <<clientVars, requests, cop, deleted>>

LEMMA ClientTypesKept ==
  ASSUME TInv, ClientSame
  PROVE  ClientTypes'
  <1>1. /\ cpc' = cpc /\ cretry' = cretry /\ expected' = expected /\ out' = out
        /\ requests' = requests /\ cop' = cop /\ deleted' = deleted
    BY DEF ClientSame, clientVars
  <1> QED
    BY <1>1 DEF TInv, ClientTypes

LEMMA ListenerStepTypes ==
  ASSUME TInv, CommandListenerStep
  PROVE  TInv'
  <1>1. requests # 0 /\ requests \in Nat
    <2>1. inbox[ServerPort] # <<>>
      BY DEF CommandListenerStep, Listen, ListenLS, ListenBadOpcode, ListenerReceives
    <2> QED
      BY <2>1, Requested, PortFacts
  <1>2. ASSUME NEW name \in Names \cup {NoName}, Accepts(name)
        PROVE  TInv'
    <2>1. ClientSame /\ ClientTypes'
      BY <1>2, ClientTypesKept DEF Accepts, ClientSame
    <2>2. /\ nextId' = nextId + 1 /\ nextId \in Nat /\ nextId # 0
          /\ block' = block /\ lines' = lines /\ dataSize' = dataSize
          /\ up' = up /\ files' = files /\ disk' = disk
          /\ ListenerPacket.op \in {DELETE, LS}
      BY <1>2 DEF Accepts, TInv, ThreadTypes
    <2>3. ASSUME NEW t \in Threads
          PROVE  IF t = nextId THEN /\ tpc'[t] = "bind" /\ tfile'[t] = name
                                    /\ topcode'[t] = ListenerPacket.op
                               ELSE tpc'[t] = tpc[t] /\ tfile'[t] = tfile[t] /\ topcode'[t] = topcode[t]
      BY <1>2 DEF Accepts, TInv, ThreadTypes
    <2>4. /\ tpc' \in [Threads -> Labels] /\ topcode' \in [Threads -> {0, DELETE, LS}]
          /\ tfile' \in [Threads -> Names \cup {NoName}]
      BY <1>2, <2>2 DEF Accepts, TInv, ThreadTypes, Labels, ListLabels
    <2>5. ASSUME NEW t \in Threads
          PROVE  /\ t >= nextId' => tpc'[t] = "free"
                 /\ tpc'[t] = "free" <=> topcode'[t] = 0
                 /\ topcode'[t] = DELETE => tpc'[t] \in DeleteLabels /\ tfile'[t] \in Names
                 /\ topcode'[t] = LS => tpc'[t] \in ListLabels
      <3>1. CASE t = nextId
        <4>1. ~(t >= nextId') /\ tpc'[t] = "bind" /\ topcode'[t] \in {DELETE, LS} /\ tfile'[t] = name
          BY <3>1, <2>2, <2>3
        <4>2. topcode'[t] = DELETE => name \in Names
          BY <3>1, <1>2, <2>3 DEF Accepts
        <4> QED
          BY <4>1, <4>2, Opcodes DEF DeleteLabels, ListLabels
      <3>2. CASE t # nextId
        <4>1. t >= nextId' => t >= nextId
          BY <2>2 DEF Threads
        <4>2. tpc'[t] = tpc[t] /\ tfile'[t] = tfile[t] /\ topcode'[t] = topcode[t]
          BY <3>2, <2>3
        <4> QED
          BY <4>1, <4>2 DEF TInv, ThreadTypes
      <3> QED
        BY <3>1, <3>2
    <2>6. ThreadTypes'
      <3>1. nextId' \in Nat \ {0}
        BY <2>2
      <3>2. /\ block' \in [Threads -> UInt16] /\ lines' \in [Threads -> Seq(Lines)]
            /\ dataSize' \in [Threads -> 0 .. BlockSize]
        BY <2>2 DEF TInv, ThreadTypes
      <3> QED
        BY <2>4, <2>5, <3>1, <3>2 DEF ThreadTypes
    <2>7. FileTypes'
      BY <2>2 DEF TInv, FileTypes
    <2>8. ListTypes'
      <3>1. \A t \in Threads : ListOpened(t)' => ListOpened(t)
        BY <2>3 DEF ListOpened
      <3> QED
        BY <2>2, <3>1 DEF TInv, ListTypes
    <2>9. QueueTypes'
      <3>1. AtClient({}) /\ requests' # 0
        BY <1>1, <1>2, KeepsQuiet DEF Accepts
      <3> QED
        BY <3>1, SourcesKept
    <2> QED
      BY <2>1, <2>6, <2>7, <2>8, <2>9 DEF TInv
  <1>3. ASSUME Declines
        PROVE  TInv'
    <2>1. ClientSame /\ requests' = requests /\ ServerSame
      BY <1>3 DEF Declines, ClientSame
    <2>2. PICK d \in CommandDatagrams : FromServerSide(d) /\ AtClient({d})
      BY <1>3 DEF Declines
    <2>3. QueueTypes'
      BY <2>1, <2>2, <1>1, SourcesKept
    <2> QED
      BY <2>1, <2>3, ServerTypesKept, ClientTypesKept DEF TInv
  <1> QED
    BY <1>2, <1>3, ListenerSteps

LEMMA ReaderTypes ==
  ASSUME TInv, ReaderChanges
  PROVE  TInv'
  <1>1. ClientSame /\ disk' = disk /\ inbox' = inbox /\ requests' = requests /\ up' = up
        /\ UNCHANGED <<threadVars, nextId, topcode, lines, dataSize, startDir>>
    BY DEF ReaderChanges, ClientSame, cmdVars, netVars
  <1>2. ClientTypes'
    BY <1>1, ClientTypesKept
  <1>3. FileTypes'
    <2>1. PICK f \in ReadNames \cap DOMAIN files :
             files' = [files EXCEPT ![f] = IF @ = 0 THEN 1 ELSE 0]
      BY DEF ReaderChanges
    <2>2. DOMAIN files' = DOMAIN files
      BY <2>1
    <2>3. \A g \in DOMAIN files : files'[g] = files[g] \/ files'[g] \in {0, 1}
      BY <2>1
    <2> QED
      BY <1>1, <2>2, <2>3 DEF TInv, FileTypes
  <1>4. ThreadTypes' /\ ListTypes'
    BY <1>1 DEF TInv, ThreadTypes, ListTypes, ListOpened, threadVars
  <1>5. QueueTypes'
    BY <1>1 DEF TInv, QueueTypes, Fits, Sources
  <1> QED
    BY <1>2, <1>3, <1>4, <1>5 DEF TInv

LEMMA LoseFacts ==
  ASSUME TInv, Lose, UNCHANGED cmdVars
  PROVE  ClientSame /\ ServerSame /\ Keeps(inbox, inbox') /\ requests' = requests /\ requests # 0
  <1>1. PICK p \in Ports : inbox[p] # <<>> /\ inbox' = recvfrom(p)
    BY DEF Lose, NetLose
  <1>2. Keeps(inbox, inbox')
    BY <1>1, RecvKeeps DEF TInv, QueueTypes
  <1>3. requests # 0
    BY <1>1, Requested
  <1> QED
    BY <1>2, <1>3 DEF Lose, ClientSame, ServerSame, cmdVars

LEMMA LoseTypes ==
  ASSUME TInv, Lose, UNCHANGED cmdVars
  PROVE  TInv'
  <1>1. ClientSame /\ ServerSame /\ AtClient({}) /\ requests' # 0
    BY LoseFacts, KeepsQuiet
  <1>2. QueueTypes'
    BY <1>1, SourcesKept
  <1> QED
    BY <1>1, <1>2, ServerTypesKept, ClientTypesKept DEF TInv

---------------------------------------------------------------------------
(* The steps of a thread.                                                  *)

Advances(t, a, b) == tpc[t] = a /\ tpc' = [tpc EXCEPT ![t] = b]

\* What no thread changes.
Frame == /\ ClientSame
         /\ UNCHANGED <<tfile, nextId, topcode, startDir>>

\* Nothing is in the client's queue that was not, but an answer of thread t.
Says(t, op) ==
    \E d \in CommandDatagrams : d.src = ThreadPort(t) /\ d.pkt.op = op /\ AtClient({d})

Enters(t) == Advances(t, "bind", "start") /\ UNCHANGED <<files, disk, inbox, up>>
Looks(t) ==
    /\ \/ Advances(t, "start", "find")
       \/ Advances(t, "find", "count")
       \/ Advances(t, "exists", "remove") /\ tfile[t] \in DOMAIN disk
    /\ UNCHANGED <<files, disk, inbox, up>>
Counts(t) ==
    /\ Advances(t, "count", "exists")
    /\ files' = mapInsert(files, tfile[t], 0)
    /\ UNCHANGED <<disk, inbox, up>>
Refuses(t) ==
    /\ \E a \in {"start", "find", "count", "exists", "remove"} : Advances(t, a, "done")
    /\ files' = files \/ (files' = mapInsert(files, tfile[t], 0) /\ tpc[t] = "count")
    /\ Says(t, ERROR) /\ ServerQuiet
    /\ UNCHANGED <<disk, up>>
Removes(t) ==
    /\ Advances(t, "remove", "erase")
    /\ disk' = [f \in DOMAIN disk \ {tfile[t]} |-> disk[f]]
    /\ UNCHANGED <<files, inbox, up>>
Erases(t) ==
    /\ Advances(t, "erase", "ack")
    /\ tfile[t] \in DOMAIN files
    /\ files' = [g \in DOMAIN files \ {tfile[t]} |-> files[g]]
    /\ UNCHANGED <<disk, inbox, up>>
Aborts(t) ==
    /\ tpc[t] = "erase" /\ tpc' = tpc
    /\ up' = FALSE
    /\ AtClient({}) /\ ServerQuiet
    /\ UNCHANGED <<files, disk>>
Confirms(t) ==
    /\ Advances(t, "ack", "done")
    /\ Says(t, ACK) /\ ServerQuiet
    /\ UNCHANGED <<files, disk, up>>

Deleting(t) ==
    \/ Looks(t) \/ Counts(t) \/ Refuses(t) \/ Removes(t) \/ Erases(t) \/ Aborts(t)
    \/ Confirms(t)

\* An answer followed by the handler's return.
LEMMA AnswerSays ==
  ASSUME TInv, NEW t \in Threads, NEW pkt \in CommandPackets, Answer(t, pkt)
  PROVE  Says(t, pkt.op) /\ ServerQuiet
  <1> DEFINE d == [src |-> ThreadPort(t), pkt |-> pkt]
  <1>1. inbox' = closeSocket(threadSend(inbox, t, pkt), ThreadPort(t))
    BY DEF Answer, ThreadReturns
  <1>2. Fits(inbox)
    BY DEF TInv, QueueTypes
  <1>3. Adds(inbox, inbox', ClientPort, d)
    BY <1>1, <1>2, Answers
  <1>4. d \in CommandDatagrams /\ d.src = ThreadPort(t) /\ d.pkt.op = pkt.op
    BY PortFacts DEF CommandDatagrams
  <1> HIDE DEF d
  <1>5. AtClient({d}) /\ ServerQuiet
    BY <1>3, AddsQuiet, PortFacts
  <1> QED
    BY <1>4, <1>5 DEF Says

LEMMA DeleteSteps ==
  ASSUME TInv, NEW t \in Threads, DeleteStep(t), UNCHANGED cmdVars
  PROVE  topcode[t] = DELETE /\ Frame /\ UNCHANGED <<block, lines, dataSize>> /\ Deleting(t)
  <1>1. /\ createErrorPacket(FILE_NOT_FOUND) \in CommandPackets
        /\ createErrorPacket(FILE_NOT_FOUND).op = ERROR
        /\ createErrorPacket(NOT_DEFINED) \in CommandPackets
        /\ createErrorPacket(NOT_DEFINED).op = ERROR
    BY CommandPacketTypes DEF FILE_NOT_FOUND, NOT_DEFINED
  <1>2. createACKPacket(ACK_OK) \in CommandPackets /\ createACKPacket(ACK_OK).op = ACK
    BY CommandPacketTypes, U16Type DEF ACK_OK, UInt16
  <1>3. topcode[t] = DELETE
    BY DEF DeleteStep, DeleteStart, CanFind, CanCount, CheckFile, RemoveFile, EraseEntry, SendOk,
           DeleteAt
  <1>4. UNCHANGED <<cop, deleted, topcode, lines, dataSize, startDir>>
    BY DEF cmdVars
  <1>5. CASE DeleteStart(t)
    <2>1. CASE fileExists(tfile[t])
      BY <1>3, <1>4, <1>5, <2>1
      DEF DeleteStart, DeleteAt, ThreadAt, Look, Goto, Frame, ClientSame, Deleting, Looks, Advances,
          serverVars, netVars
    <2>2. CASE ~fileExists(tfile[t])
      <3>1. Answer(t, createErrorPacket(FILE_NOT_FOUND)) /\ tpc[t] = "start"
        BY <1>5, <2>2 DEF DeleteStart, DeleteAt, ThreadAt
      <3>2. Says(t, ERROR) /\ ServerQuiet
        BY <3>1, <1>1, AnswerSays
      <3> QED
        BY <1>3, <1>4, <3>1, <3>2
        DEF Answer, ThreadReturns, Goto, Frame, ClientSame, Deleting, Refuses, Advances, serverVars
    <2> QED
      BY <2>1, <2>2
  <1>6. CASE CanFind(t)
    <2>1. CASE fileExists(tfile[t])
      BY <1>3, <1>4, <1>6, <2>1
      DEF CanFind, DeleteAt, ThreadAt, Look, Goto, Frame, ClientSame, Deleting, Looks, Advances,
          serverVars, netVars
    <2>2. CASE ~fileExists(tfile[t])
      <3>1. Answer(t, createErrorPacket(NOT_DEFINED)) /\ tpc[t] = "find"
        BY <1>6, <2>2 DEF CanFind, DeleteAt, ThreadAt
      <3>2. Says(t, ERROR) /\ ServerQuiet
        BY <3>1, <1>1, AnswerSays
      <3> QED
        BY <1>3, <1>4, <3>1, <3>2
        DEF Answer, ThreadReturns, Goto, Frame, ClientSame, Deleting, Refuses, Advances, serverVars
    <2> QED
      BY <2>1, <2>2
  <1>7. CASE CanCount(t)
    <2>1. CASE HasNoReaders(t)
      BY <1>3, <1>4, <1>7, <2>1
      DEF CanCount, DeleteAt, ThreadAt, Goto, Frame, ClientSame, Deleting, Counts, Advances
    <2>2. CASE ~HasNoReaders(t)
      <3> DEFINE e == createErrorPacket(NOT_DEFINED)
                 d == [src |-> ThreadPort(t), pkt |-> e]
      <3>1. /\ tpc[t] = "count" /\ tpc' = [tpc EXCEPT ![t] = "done"]
            /\ inbox' = closeSocket(threadSend(inbox, t, e), ThreadPort(t))
            /\ files' = mapInsert(files, tfile[t], 0)
            /\ UNCHANGED <<clientVars, tfile, block, disk, nextId, up, requests>>
        BY <1>7, <2>2 DEF CanCount, DeleteAt, ThreadAt, ThreadReturns, Goto
      <3>2. e \in CommandPackets /\ e.op = ERROR
        BY <1>1
      <3> HIDE DEF e
      <3>3. Adds(inbox, inbox', ClientPort, d)
        BY <3>1, <3>2, Answers DEF TInv, QueueTypes
      <3>4. d \in CommandDatagrams /\ d.src = ThreadPort(t) /\ d.pkt.op = ERROR
        BY <3>2, PortFacts DEF CommandDatagrams
      <3> HIDE DEF d
      <3>5. Says(t, ERROR) /\ ServerQuiet
        BY <3>3, <3>4, AddsQuiet, PortFacts DEF Says
      <3> QED
        BY <1>3, <1>4, <3>1, <3>5 DEF Frame, ClientSame, Deleting, Refuses, Advances
    <2> QED
      BY <2>1, <2>2
  <1>8. CASE CheckFile(t)
    <2>1. CASE tfile[t] \in DOMAIN disk
      BY <1>3, <1>4, <1>8, <2>1
      DEF CheckFile, DeleteAt, ThreadAt, Look, Goto, Frame, ClientSame, Deleting, Looks, Advances,
          serverVars, netVars
    <2>2. CASE tfile[t] \notin DOMAIN disk
      <3>1. Answer(t, createErrorPacket(FILE_NOT_FOUND)) /\ tpc[t] = "exists"
        BY <1>8, <2>2 DEF CheckFile, DeleteAt, ThreadAt
      <3>2. Says(t, ERROR) /\ ServerQuiet
        BY <3>1, <1>1, AnswerSays
      <3> QED
        BY <1>3, <1>4, <3>1, <3>2
        DEF Answer, ThreadReturns, Goto, Frame, ClientSame, Deleting, Refuses, Advances, serverVars
    <2> QED
      BY <2>1, <2>2
  <1>9. CASE RemoveFile(t)
    <2>1. CASE Answer(t, createErrorPacket(NOT_DEFINED))
      <3>1. tpc[t] = "remove"
        BY <1>9 DEF RemoveFile, DeleteAt, ThreadAt
      <3>2. Says(t, ERROR) /\ ServerQuiet
        BY <2>1, <1>1, AnswerSays
      <3> QED
        BY <1>3, <1>4, <2>1, <3>1, <3>2
        DEF Answer, ThreadReturns, Goto, Frame, ClientSame, Deleting, Refuses, Advances, serverVars
    <2>2. CASE ~Answer(t, createErrorPacket(NOT_DEFINED))
      BY <1>3, <1>4, <1>9, <2>2
      DEF RemoveFile, DeleteAt, ThreadAt, Goto, Frame, ClientSame, Deleting, Removes, Advances, netVars
    <2> QED
      BY <2>1, <2>2
  <1>10. CASE EraseEntry(t)
    <2>1. CASE MapErase(t, "erase", "ack")
      BY <1>3, <1>4, <2>1
      DEF MapErase, mapErase, fileExists, ThreadAt, Goto, Frame, ClientSame, Deleting, Erases,
          Advances, netVars
    <2>2. CASE MapEraseAborts(t, "erase")
      <3>1. Fits(inbox) /\ ClientPort \in Ports /\ ServerPort \in Ports /\ ServerPort # ClientPort
        BY PortFacts DEF TInv, QueueTypes
      <3>2. inbox' = [p \in Ports |-> IF p = ClientPort THEN inbox[p] ELSE <<>>]
        BY <2>2 DEF MapEraseAborts
      <3>3. inbox'[ClientPort] = inbox[ClientPort] /\ inbox'[ServerPort] = <<>> /\ Fits(inbox)'
        BY <3>1, <3>2 DEF Fits
      <3>4. InQueue(<<>>) = {} /\ Len(<<>>) = 0 /\ Len(inbox[ServerPort]) \in Nat
        BY <3>1 DEF InQueue, Fits
      <3>5. AtClient({}) /\ ServerQuiet
        BY <3>3, <3>4 DEF AtClient, ServerQuiet, Fits
      <3> QED
        BY <1>3, <1>4, <2>2, <3>5
        DEF MapEraseAborts, ThreadAt, Frame, ClientSame, Deleting, Aborts, threadVars
    <2> QED
      BY <1>10, <2>1, <2>2 DEF EraseEntry
  <1>11. CASE SendOk(t)
    <2>1. Answer(t, createACKPacket(ACK_OK)) /\ tpc[t] = "ack"
      BY <1>11 DEF SendOk, DeleteAt, ThreadAt
    <2>2. Says(t, ACK) /\ ServerQuiet
      BY <2>1, <1>2, AnswerSays
    <2> QED
      BY <1>3, <1>4, <2>1, <2>2
      DEF Answer, ThreadReturns, Goto, Frame, ClientSame, Deleting, Confirms, Advances, serverVars
  <1> QED
    BY <1>3, <1>5, <1>6, <1>7, <1>8, <1>9, <1>10, <1>11 DEF DeleteStep

Opens(t) ==
    /\ Advances(t, "start", "list")
    /\ disk' = withList(<<>>)
    /\ UNCHANGED <<inbox, block, lines, dataSize>>
Writes(t) ==
    /\ Advances(t, "list", "send")
    /\ lines' = [lines EXCEPT ![t] = listing]
    /\ disk' = IF ListFile \notin DOMAIN disk THEN disk
               ELSE withList(listing \o SubSeq(disk[ListFile], Len(listing) + 1,
                                               Len(disk[ListFile])))
    /\ block' = [block EXCEPT ![t] = 1]
    /\ UNCHANGED <<inbox, dataSize>>
Sends(t) ==
    /\ Advances(t, "send", "wait")
    /\ ListBlock(t) # <<>> /\ ListBlock(t) \in Seq(Lines)
    /\ dataSize' = [dataSize EXCEPT ![t] = Len(ListBlock(t))]
    /\ AtClient({[src |-> ThreadPort(t), pkt |-> createDataPacket(block[t], ListBlock(t))]})
    /\ UNCHANGED <<disk, block, lines>>
Rests(t) ==
    /\ \/ Advances(t, "wait", "send") \/ Advances(t, "wait", "end")
       \/ \E a \in {"start", "send", "wait", "end"} : Advances(t, a, "done")
    /\ AtClient({})
    /\ block' \in [Threads -> UInt16] /\ dataSize' \in [Threads -> 0 .. BlockSize]
    /\ UNCHANGED <<disk, lines>>

Listing(t) == Opens(t) \/ Writes(t) \/ Sends(t) \/ Rests(t)

LEMMA ListBlockTyped ==
  ASSUME TInv, NEW t \in Threads, topcode[t] = LS, tpc[t] = "send"
  PROVE  ListBlock(t) \in Seq(Lines) /\ Len(ListBlock(t)) \in 0 .. BlockSize
  <1>1. fileBytes(ListFile) \in Seq(Lines)
    <2>1. ListOpened(t)
      BY DEF ListOpened
    <2>2. ListFile \in DOMAIN disk => disk[ListFile] \in Seq(Lines)
      BY <2>1 DEF TInv, ListTypes
    <2>3. <<>> \in Seq(Lines)
      OBVIOUS
    <2> QED
      BY <2>2, <2>3 DEF fileBytes
  <1>2. block[t] \in Nat
    BY U16Type DEF TInv, ThreadTypes, UInt16
  <1> QED
    BY <1>1, <1>2, BlockTyped DEF ListBlock

LEMMA ListSteps ==
  ASSUME TInv, NEW t \in Threads, ListStep(t)
  PROVE  topcode[t] = LS /\ Frame /\ UNCHANGED <<files, up>> /\ Listing(t)
  <1>1. topcode[t] = LS
    BY DEF ListStep, ListOpen, ListWrite, ListSend, ListAccepted, ListRejected, ListTimeout,
           ListEnd, ListReceives, ListAt
  <1>2. Fits(inbox) /\ ThreadPort(t) \in Ports
    BY PortFacts DEF TInv, QueueTypes
  <1>3. /\ block \in [Threads -> UInt16] /\ dataSize \in [Threads -> 0 .. BlockSize]
    BY DEF TInv, ThreadTypes
  \* Where the thread only moves on, or returns.
  <1>4. Keeps(inbox, closeSocket(inbox, ThreadPort(t))) /\ Keeps(inbox, inbox)
    BY <1>2, CloseKeeps, KeepsSelf
  <1>5. inbox[ThreadPort(t)] # <<>> =>
          /\ Keeps(inbox, recvfrom(ThreadPort(t)))
          /\ Keeps(inbox, closeSocket(recvfrom(ThreadPort(t)), ThreadPort(t)))
    <2> SUFFICES ASSUME inbox[ThreadPort(t)] # <<>>
                 PROVE  /\ Keeps(inbox, recvfrom(ThreadPort(t)))
                        /\ Keeps(inbox, closeSocket(recvfrom(ThreadPort(t)), ThreadPort(t)))
      OBVIOUS
    <2>1. Keeps(inbox, recvfrom(ThreadPort(t)))
      BY <1>2, RecvKeeps
    <2>2. Fits(recvfrom(ThreadPort(t)))
      BY <2>1 DEF Keeps
    <2>3. Keeps(recvfrom(ThreadPort(t)), closeSocket(recvfrom(ThreadPort(t)), ThreadPort(t)))
      BY <1>2, <2>2, CloseKeeps
    <2> QED
      BY <1>2, <2>1, <2>3, KeepsKeeps
  <1>6. CASE ListOpen(t)
    <2>1. CASE disk' = withList(<<>>) /\ Goto(t, "list") /\ UNCHANGED inbox
      BY <1>1, <1>6, <2>1
      DEF ListOpen, ListAt, ThreadAt, Goto, Frame, ClientSame, Listing, Opens, Advances
    <2>2. CASE ThreadReturns(t, inbox) /\ UNCHANGED disk
      <3>1. inbox' = closeSocket(inbox, ThreadPort(t))
        BY <2>2 DEF ThreadReturns
      <3>2. AtClient({})
        BY <3>1, <1>4, KeepsQuiet
      <3> QED
        BY <1>1, <1>3, <1>6, <2>2, <3>2
        DEF ListOpen, ListAt, ThreadAt, ThreadReturns, Goto, Frame, ClientSame, Listing, Rests, Advances
    <2> QED
      BY <1>6, <2>1, <2>2 DEF ListOpen
  <1>7. CASE ListWrite(t)
    BY <1>1, <1>7
    DEF ListWrite, ListAt, ThreadAt, Goto, Frame, ClientSame, Listing, Writes, Advances, netVars
  <1>8. CASE ListSend(t)
    <2>1. tpc[t] = "send" /\ dataSize' = [dataSize EXCEPT ![t] = Len(ListBlock(t))]
      BY <1>8 DEF ListSend, ListAt, ThreadAt
    <2>2. ListBlock(t) \in Seq(Lines) /\ Len(ListBlock(t)) \in 0 .. BlockSize
      BY <1>1, <2>1, ListBlockTyped
    <2>3. dataSize' \in [Threads -> 0 .. BlockSize]
      BY <1>3, <2>1, <2>2
    <2>4. CASE ListBlock(t) = <<>>
      <3>1. inbox' = closeSocket(inbox, ThreadPort(t)) /\ tpc' = [tpc EXCEPT ![t] = "done"]
        BY <1>8, <2>4 DEF ListSend, ThreadReturns, Goto
      <3>2. AtClient({})
        BY <3>1, <1>4, KeepsQuiet
      <3> QED
        BY <1>1, <1>3, <1>8, <2>1, <2>3, <3>1, <3>2
        DEF ListSend, Frame, ClientSame, Listing, Rests, Advances, serverVars
    <2>5. CASE ListBlock(t) # <<>>
      <3> DEFINE pkt == createDataPacket(block[t], ListBlock(t))
      <3>1. inbox' = threadSend(inbox, t, pkt) /\ tpc' = [tpc EXCEPT ![t] = "wait"]
        BY <1>8, <2>5 DEF ListSend, Goto
      <3>2. pkt \in CommandPackets
        BY <1>3, <2>2, CommandPacketTypes
      <3> HIDE DEF pkt
      <3>3. Adds(inbox, inbox', ClientPort, [src |-> ThreadPort(t), pkt |-> pkt])
        BY <1>2, <3>1, <3>2, Answers
      <3>4. AtClient({[src |-> ThreadPort(t), pkt |-> pkt]})
        BY <3>3, AddsQuiet
      <3> QED
        BY <1>1, <1>8, <2>1, <2>2, <2>5, <3>1, <3>4
        DEF ListSend, Frame, ClientSame, Listing, Sends, Advances, serverVars, pkt
    <2> QED
      BY <2>4, <2>5
  <1>9. CASE ListAccepted(t)
    <2>1. /\ tpc[t] = "wait" /\ inbox[ThreadPort(t)] # <<>>
          /\ UNCHANGED <<clientVars, tfile, files, disk, nextId, up, requests, cop, topcode, lines,
                         dataSize, deleted, startDir>>
      BY <1>9 DEF ListAccepted, ListReceives, ListAt, ThreadAt, serverVars, cmdVars
    <2>2. \/ tpc' = [tpc EXCEPT ![t] = "done"] /\ block' = block
             /\ inbox' = closeSocket(recvfrom(ThreadPort(t)), ThreadPort(t))
          \/ tpc' = [tpc EXCEPT ![t] = "send"] /\ block' = [block EXCEPT ![t] = Inc16(@)]
             /\ inbox' = recvfrom(ThreadPort(t))
      BY <1>9 DEF ListAccepted, ThreadReturns, Goto
    <2>3. block' \in [Threads -> UInt16]
      <3>1. Inc16(block[t]) \in UInt16
        BY <1>3, Counter16
      <3> QED
        BY <1>3, <2>2, <3>1
    <2>4. AtClient({})
      BY <1>5, <2>1, <2>2, KeepsQuiet
    <2> QED
      BY <1>1, <1>3, <2>1, <2>2, <2>3, <2>4 DEF Frame, ClientSame, Listing, Rests, Advances
  <1>10. CASE ListRejected(t)
    <2>1. /\ tpc[t] = "wait" /\ inbox[ThreadPort(t)] # <<>> /\ tpc' = [tpc EXCEPT ![t] = "send"]
          /\ inbox' = recvfrom(ThreadPort(t))
          /\ UNCHANGED <<clientVars, tfile, block, files, disk, nextId, up, requests, cop, topcode,
                         lines, dataSize, deleted, startDir>>
      BY <1>10 DEF ListRejected, ListReceives, ListAt, ThreadAt, Goto, serverVars, cmdVars
    <2>2. AtClient({})
      BY <1>5, <2>1, KeepsQuiet
    <2> QED
      BY <1>1, <1>3, <2>1, <2>2 DEF Frame, ClientSame, Listing, Rests, Advances
  <1>11. CASE ListTimeout(t)
    <2>1. /\ tpc[t] = "wait" /\ inbox' = inbox
          /\ tpc' = [tpc EXCEPT ![t] = "end"] \/ tpc' = [tpc EXCEPT ![t] = "send"]
          /\ UNCHANGED <<clientVars, tfile, block, files, disk, nextId, up, requests, cop, topcode,
                         lines, dataSize, deleted, startDir>>
      BY <1>11 DEF ListTimeout, ThreadTimeout, ThreadAt, Goto, serverVars, netVars
    <2>2. AtClient({})
      BY <1>4, <2>1, KeepsQuiet
    <2> QED
      BY <1>1, <1>3, <2>1, <2>2 DEF Frame, ClientSame, Listing, Rests, Advances
  <1>12. CASE ListEnd(t)
    <2>1. /\ tpc[t] = "end" /\ tpc' = [tpc EXCEPT ![t] = "done"]
          /\ inbox' = closeSocket(inbox, ThreadPort(t))
          /\ UNCHANGED <<clientVars, tfile, block, files, disk, nextId, up, requests, cop, topcode,
                         lines, dataSize, deleted, startDir>>
      BY <1>12 DEF ListEnd, ListAt, ThreadAt, ThreadReturns, Goto, serverVars, cmdVars
    <2>2. AtClient({})
      BY <1>4, <2>1, KeepsQuiet
    <2> QED
      BY <1>1, <1>3, <2>1, <2>2 DEF Frame, ClientSame, Listing, Rests, Advances
  <1> QED
    BY <1>6, <1>7, <1>8, <1>9, <1>10, <1>11, <1>12 DEF ListStep

\* A thread enters the handler it was started for.
LEMMA BindSteps ==
  ASSUME TInv, NEW t \in Threads, Bind(t), UNCHANGED cmdVars
  PROVE  Frame /\ Enters(t) /\ UNCHANGED <<block, lines, dataSize>> /\ topcode[t] \in {DELETE, LS}
  <1>1. tpc[t] = "bind"
    BY DEF Bind, ThreadAt
  <1>2. topcode[t] \in {DELETE, LS}
    BY <1>1 DEF TInv, ThreadTypes
  <1> QED
    BY <1>1, <1>2
    DEF Bind, ThreadAt, Goto, Frame, ClientSame, Enters, Advances, cmdVars, serverVars, netVars

LEMMA ThreadMoves ==
  ASSUME TInv, NEW t \in Threads, NEW l, tpc[t] # "free", tpc' = [tpc EXCEPT ![t] = l],
         topcode[t] = DELETE => l \in DeleteLabels, topcode[t] = LS => l \in ListLabels,
         UNCHANGED <<tfile, nextId, topcode>>,
         block' \in [Threads -> UInt16], lines' \in [Threads -> Seq(Lines)],
         dataSize' \in [Threads -> 0 .. BlockSize]
  PROVE  ThreadTypes'
  <1>1. tpc \in [Threads -> Labels] /\ topcode[t] \in {DELETE, LS}
    BY DEF TInv, ThreadTypes
  <1>2. l \in Labels /\ l # "free"
    BY <1>1 DEF Labels, DeleteLabels, ListLabels
  <1>3. tpc' \in [Threads -> Labels] /\ tpc'[t] = l /\ \A u \in Threads : u # t => tpc'[u] = tpc[u]
    BY <1>1, <1>2
  <1>4. ASSUME NEW u \in Threads
        PROVE  /\ u >= nextId' => tpc'[u] = "free"
               /\ tpc'[u] = "free" <=> topcode'[u] = 0
               /\ topcode'[u] = DELETE => tpc'[u] \in DeleteLabels /\ tfile'[u] \in Names
               /\ topcode'[u] = LS => tpc'[u] \in ListLabels
    <2>1. CASE u = t
      <3>1. ~(u >= nextId) /\ topcode[u] # 0 /\ (topcode[u] = DELETE => tfile[u] \in Names)
        BY <2>1 DEF TInv, ThreadTypes
      <3> QED
        BY <2>1, <3>1, <1>2, <1>3
    <2>2. CASE u # t
      <3>1. tpc'[u] = tpc[u]
        BY <2>2, <1>3
      <3> QED
        BY <3>1 DEF TInv, ThreadTypes
    <2> QED
      BY <2>1, <2>2
  <1>5. /\ nextId' \in Nat \ {0} /\ topcode' \in [Threads -> {0, DELETE, LS}]
        /\ tfile' \in [Threads -> Names \cup {NoName}]
    BY DEF TInv, ThreadTypes
  <1> QED
    BY <1>3, <1>4, <1>5 DEF ThreadTypes

\* The map of reader counts.
LEMMA InsertTyped ==
  ASSUME FileTypes, NEW f \in Names
  PROVE  \A g \in DOMAIN mapInsert(files, f, 0) : g \in Names /\ mapInsert(files, f, 0)[g] \in {0, 1}
  BY DEF FileTypes, mapInsert

LEMMA DeletingTypes ==
  ASSUME TInv, NEW t \in Threads, topcode[t] = DELETE, Frame, UNCHANGED <<block, lines, dataSize>>,
         Deleting(t)
  PROVE  TInv'
  <1>1. tpc[t] \in DeleteLabels /\ tfile[t] \in Names /\ requests # 0 /\ tpc[t] # "free"
    BY Requested, Opcodes DEF TInv, ThreadTypes, DeleteLabels
  <1>2. ClientTypes' /\ requests' = requests
    BY ClientTypesKept DEF Frame, ClientSame
  <1>3. tpc' = tpc \/ \E l \in DeleteLabels : tpc' = [tpc EXCEPT ![t] = l]
    BY DEF Deleting, Looks, Counts, Refuses, Removes, Erases, Aborts, Confirms, Advances, DeleteLabels
  <1>4. UNCHANGED <<tfile, nextId, topcode>>
    BY DEF Frame
  <1>5. /\ block' \in [Threads -> UInt16] /\ lines' \in [Threads -> Seq(Lines)]
        /\ dataSize' \in [Threads -> 0 .. BlockSize]
    BY DEF TInv, ThreadTypes
  <1>6. ThreadTypes'
    <2>1. CASE tpc' = tpc
      BY <2>1, <1>4 DEF TInv, ThreadTypes
    <2>2. ASSUME NEW l \in DeleteLabels, tpc' = [tpc EXCEPT ![t] = l] PROVE ThreadTypes'
      BY <2>2, <1>1, <1>4, <1>5, Opcodes, ThreadMoves
    <2> QED
      BY <2>1, <2>2, <1>3
  <1>7. FileTypes'
    <2>1. up' \in BOOLEAN
      BY DEF TInv, FileTypes, Deleting, Looks, Counts, Refuses, Removes, Erases, Aborts, Confirms
    <2>2. \/ files' = files \/ files' = mapInsert(files, tfile[t], 0)
          \/ files' = [g \in DOMAIN files \ {tfile[t]} |-> files[g]]
      BY DEF Deleting, Looks, Counts, Refuses, Removes, Erases, Aborts, Confirms
    <2>3. CASE files' = mapInsert(files, tfile[t], 0)
      <3>1. \A g \in DOMAIN mapInsert(files, tfile[t], 0) :
               g \in Names /\ mapInsert(files, tfile[t], 0)[g] \in {0, 1}
        BY <1>1, InsertTyped DEF TInv
      <3> QED
        BY <2>1, <2>3, <3>1 DEF FileTypes
    <2>4. CASE files' # mapInsert(files, tfile[t], 0)
      BY <2>1, <2>2, <2>4 DEF TInv, FileTypes
    <2> QED
      BY <2>3, <2>4
  <1>8. ListTypes'
    <2>1. \A u \in Threads : ListOpened(u)' => ListOpened(u)
      <3> SUFFICES ASSUME NEW u \in Threads, ListOpened(u)' PROVE ListOpened(u)
        OBVIOUS
      <3>1. topcode[u] = LS
        BY <1>4 DEF ListOpened
      <3>2. u # t
        BY <3>1, Opcodes
      <3>3. tpc'[u] = tpc[u]
        <4>1. ASSUME NEW l \in DeleteLabels, tpc' = [tpc EXCEPT ![t] = l] PROVE tpc'[u] = tpc[u]
          BY <4>1, <3>2 DEF TInv, ThreadTypes
        <4> QED
          BY <4>1, <1>3
      <3> QED
        BY <3>1, <3>3 DEF ListOpened
    <2>2. ListFile \in DOMAIN disk' => ListFile \in DOMAIN disk /\ disk'[ListFile] = disk[ListFile]
      BY DEF Deleting, Looks, Counts, Refuses, Removes, Erases, Aborts, Confirms
    <2> QED
      BY <2>1, <2>2 DEF TInv, ListTypes
  <1>9. QueueTypes'
    <2>1. CASE inbox' = inbox
      BY <1>1, <1>2, <2>1 DEF TInv, QueueTypes, Fits, Sources
    <2>2. CASE Aborts(t)
      BY <2>2, <1>1, <1>2, SourcesKept DEF Aborts
    <2>3. ASSUME NEW op, Says(t, op) PROVE QueueTypes'
      <3>1. PICK d \in CommandDatagrams : d.src = ThreadPort(t) /\ AtClient({d})
        BY <2>3 DEF Says
      <3>2. FromServerSide(d)
        BY <3>1, PortFacts DEF FromServerSide
      <3> QED
        BY <3>1, <3>2, <1>1, <1>2, SourcesKept
    <2> QED
      BY <2>1, <2>2, <2>3 DEF Deleting, Looks, Counts, Refuses, Removes, Erases, Confirms
  <1> QED
    BY <1>2, <1>6, <1>7, <1>8, <1>9 DEF TInv

\* What a listing's thread leaves in ls.txt.
LEMMA WrittenTyped ==
  ASSUME TInv, NEW t \in Threads, topcode[t] = LS, tpc[t] = "list", ListFile \in DOMAIN disk
  PROVE  listing \o SubSeq(disk[ListFile], Len(listing) + 1, Len(disk[ListFile])) \in Seq(Lines)
  <1>1. listing \in Seq(Lines)
    BY ListingTyped DEF TInv
  <1>2. disk[ListFile] \in Seq(Lines)
    BY DEF TInv, ListTypes, ListOpened
  <1> HIDE DEF listing
  <1>3. SubSeq(disk[ListFile], Len(listing) + 1, Len(disk[ListFile])) \in Seq(Lines)
    BY <1>1, <1>2
  <1> QED
    BY <1>1, <1>3

LEMMA ListingTypes ==
  ASSUME TInv, NEW t \in Threads, topcode[t] = LS, Frame, UNCHANGED <<files, up>>, Listing(t)
  PROVE  TInv'
  <1>1. requests # 0 /\ tpc[t] # "free"
    BY Requested, Opcodes DEF TInv, ThreadTypes
  <1>2. ClientTypes' /\ requests' = requests
    BY ClientTypesKept DEF Frame, ClientSame
  <1>3. PICK l \in {"list", "send", "wait", "end", "done"} : tpc' = [tpc EXCEPT ![t] = l]
    BY DEF Listing, Opens, Writes, Sends, Rests, Advances
  <1>4. UNCHANGED <<tfile, nextId, topcode>>
    BY DEF Frame
  <1>5. /\ tpc \in [Threads -> Labels] /\ block \in [Threads -> UInt16]
        /\ lines \in [Threads -> Seq(Lines)] /\ dataSize \in [Threads -> 0 .. BlockSize]
    BY DEF TInv, ThreadTypes
  <1>6. /\ block' \in [Threads -> UInt16] /\ lines' \in [Threads -> Seq(Lines)]
        /\ dataSize' \in [Threads -> 0 .. BlockSize]
    <2>1. 1 \in UInt16 /\ listing \in Seq(Lines)
      BY U16Type, ListingTyped DEF UInt16, TInv
    <2>2. CASE Opens(t)
      BY <2>2, <1>5 DEF Opens
    <2>3. CASE Writes(t)
      BY <2>1, <2>3, <1>5 DEF Writes
    <2>4. CASE Sends(t)
      <3>1. Len(ListBlock(t)) \in 0 .. BlockSize
        BY <2>4, ListBlockTyped DEF Sends, Advances
      <3> QED
        BY <3>1, <2>4, <1>5 DEF Sends
    <2>5. CASE Rests(t)
      BY <2>5, <1>5 DEF Rests
    <2> QED
      BY <2>2, <2>3, <2>4, <2>5 DEF Listing
  <1>7. ThreadTypes'
    <2>1. l \in ListLabels
      BY DEF ListLabels
    <2> QED
      BY <2>1, <1>1, <1>3, <1>4, <1>6, Opcodes, ThreadMoves
  <1>8. FileTypes'
    BY DEF TInv, FileTypes
  <1>9. ListTypes'
    <2>1. ASSUME NEW u \in Threads, ListOpened(u)', tpc'[u] = tpc[u] \/ tpc[t] # "start" PROVE ListOpened(u)
      <3>1. CASE u = t
        <4>1. tpc'[t] # "start" /\ tpc'[t] \in {"list", "send", "wait", "end"}
          BY <2>1, <3>1 DEF ListOpened
        <4>2. tpc[t] \in {"list", "send", "wait", "end"}
          BY <2>1, <3>1, <4>1, <1>1 DEF Listing, Opens, Writes, Sends, Rests, Advances
        <4> QED
          BY <4>2, <3>1 DEF ListOpened
      <3>2. CASE u # t
        BY <3>2, <2>1, <1>3, <1>4, <1>5 DEF ListOpened
      <3> QED
        BY <3>1, <3>2
    <2>2. CASE Opens(t)
      <3>1. disk'[ListFile] = <<>>
        BY <2>2 DEF Opens, withList
      <3> QED
        BY <3>1 DEF ListTypes
    <2>3. CASE Writes(t)
      <3>1. CASE ListFile \in DOMAIN disk
        <4>1. disk'[ListFile] = listing \o SubSeq(disk[ListFile], Len(listing) + 1, Len(disk[ListFile]))
          BY <3>1, <2>3 DEF Writes, withList
        <4>2. disk'[ListFile] \in Seq(Lines)
          BY <4>1, <3>1, <2>3, WrittenTyped DEF Writes, Advances
        <4> QED
          BY <4>2 DEF ListTypes
      <3>2. CASE ListFile \notin DOMAIN disk
        BY <3>2, <2>3 DEF Writes, ListTypes
      <3> QED
        BY <3>1, <3>2
    <2>4. CASE Sends(t) \/ Rests(t)
      <3>1. \A u \in Threads : ListOpened(u)' => ListOpened(u)
        <4> SUFFICES ASSUME NEW u \in Threads, ListOpened(u)' PROVE ListOpened(u)
          OBVIOUS
        <4>1. CASE u = t /\ tpc[t] = "start"
          <5>1. tpc'[t] = "done"
            BY <4>1, <2>4, <1>5 DEF Sends, Rests, Advances
          <5> QED
            BY <4>1, <5>1 DEF ListOpened
        <4>2. CASE u # t
          BY <4>2, <2>1, <1>3, <1>5
        <4>3. CASE u = t /\ tpc[t] # "start"
          BY <4>3, <2>1
        <4> QED
          BY <4>1, <4>2, <4>3
      <3>2. disk' = disk
        BY <2>4 DEF Sends, Rests
      <3> QED
        BY <3>1, <3>2 DEF TInv, ListTypes
    <2> QED
      BY <2>2, <2>3, <2>4 DEF Listing
  <1>10. QueueTypes'
    <2>1. CASE inbox' = inbox
      BY <1>1, <1>2, <2>1 DEF TInv, QueueTypes, Fits, Sources
    <2>2. CASE Rests(t)
      BY <2>2, <1>1, <1>2, SourcesKept DEF Rests
    <2>3. CASE Sends(t)
      <3> DEFINE d == [src |-> ThreadPort(t), pkt |-> createDataPacket(block[t], ListBlock(t))]
      <3>1. FromServerSide(d)
        BY PortFacts DEF FromServerSide
      <3>2. AtClient({d})
        BY <2>3 DEF Sends
      <3> HIDE DEF d
      <3> QED
        BY <3>1, <3>2, <1>1, <1>2, SourcesKept
    <2> QED
      BY <2>1, <2>2, <2>3 DEF Listing, Opens, Writes
  <1> QED
    BY <1>2, <1>7, <1>8, <1>9, <1>10 DEF TInv

LEMMA EntersTypes ==
  ASSUME TInv, NEW t \in Threads, Bind(t), UNCHANGED cmdVars
  PROVE  TInv'
  <1>1. Frame /\ Enters(t) /\ UNCHANGED <<block, lines, dataSize>>
    BY BindSteps
  <1>2. requests # 0 /\ tpc[t] = "bind" /\ tpc' = [tpc EXCEPT ![t] = "start"]
    BY <1>1, Requested DEF Enters, Advances
  <1>3. ClientTypes' /\ requests' = requests
    BY <1>1, ClientTypesKept DEF Frame, ClientSame
  <1>4. ThreadTypes'
    <2>1. /\ block' \in [Threads -> UInt16] /\ lines' \in [Threads -> Seq(Lines)]
          /\ dataSize' \in [Threads -> 0 .. BlockSize]
      BY <1>1 DEF TInv, ThreadTypes
    <2>2. UNCHANGED <<tfile, nextId, topcode>>
      BY <1>1 DEF Frame
    <2>3. "start" \in DeleteLabels /\ "start" \in ListLabels
      BY DEF DeleteLabels, ListLabels
    <2> QED
      BY <2>1, <2>2, <2>3, <1>2, ThreadMoves
  <1>5. FileTypes' /\ ListTypes' /\ QueueTypes'
    <2>1. UNCHANGED <<files, disk, inbox, up, topcode>>
      BY <1>1 DEF Enters, Frame
    <2>2. \A u \in Threads : ListOpened(u)' => ListOpened(u)
      BY <1>2, <2>1 DEF ListOpened, TInv, ThreadTypes
    <2> QED
      BY <2>1, <2>2, <1>2, <1>3 DEF TInv, FileTypes, ListTypes, QueueTypes, Fits, Sources
  <1> QED
    BY <1>3, <1>4, <1>5 DEF TInv

LEMMA StepTypes == TInv /\ [Next]_<<vars, cmdVars>> => TInv'
  <1> SUFFICES ASSUME TInv, [Next]_<<vars, cmdVars>> PROVE TInv'
    OBVIOUS
  <1>1. CASE CommandStart
    BY <1>1, StartTypes
  <1>2. CASE CommandClientStep
    BY <1>2, ClientStepTypes
  <1>3. CASE CommandListenerStep
    BY <1>3, ListenerStepTypes
  <1>4. ASSUME NEW t \in Threads, CommandThreadStep(t) PROVE TInv'
    <2>1. CASE Bind(t) /\ UNCHANGED cmdVars
      BY <2>1, EntersTypes
    <2>2. CASE DeleteStep(t) /\ UNCHANGED cmdVars
      BY <2>2, DeleteSteps, DeletingTypes
    <2>3. CASE ListStep(t)
      BY <2>3, ListSteps, ListingTypes
    <2> QED
      BY <1>4, <2>1, <2>2, <2>3 DEF CommandThreadStep
  <1>5. CASE ReaderChanges
    BY <1>5, ReaderTypes
  <1>6. CASE Lose /\ UNCHANGED cmdVars
    BY <1>6, LoseTypes
  <1>7. CASE UNCHANGED <<vars, cmdVars>>
    <2>1. /\ UNCHANGED <<cpc, cop, cretry, expected, out, requests, deleted>>
          /\ UNCHANGED <<nextId, tpc, topcode, tfile, block, lines, dataSize>>
          /\ UNCHANGED <<up, files, disk, inbox>>
      BY <1>7 DEF vars, cmdVars, clientVars, threadVars, serverVars, netVars
    <2>2. ClientTypes'
      BY <2>1 DEF TInv, ClientTypes
    <2>3. ThreadTypes'
      BY <2>1 DEF TInv, ThreadTypes
    <2>4. FileTypes' /\ ListTypes'
      BY <2>1 DEF TInv, FileTypes, ListTypes, ListOpened
    <2>5. QueueTypes'
      BY <2>1 DEF TInv, QueueTypes, Fits, Sources
    <2> QED
      BY <2>2, <2>3, <2>4, <2>5 DEF TInv
  <1> QED
    BY <1>1, <1>2, <1>3, <1>4, <1>5, <1>6, <1>7 DEF Next

LEMMA TypesHold == Spec => []TInv
  <1> QED
    BY InitTypes, StepTypes, PTL DEF Spec

\* Every variable of the commands keeps its type: a thread is only ever at a
\* step of the handler its opcode chose, reader counts stay 0 or 1 where only
\* ReadNames are read, and no more DELETEs are counted as successful than were
\* asked for.
THEOREM CommandTypes == Spec => []TypeOK
  BY TypesHold, TInvTypeOK, PTL

---------------------------------------------------------------------------
(* What a listing's client has received.                                   *)

\* Nothing of a listing is under way or has arrived.
NothingListed ==
    /\ \A d \in InQueue(inbox[ClientPort]) : d.pkt.op # DATA
    /\ out = <<>>
    /\ cpc = "run" => expected = 1
    /\ ~(cpc = "ok" /\ cop = LS)

\* The blocks under way are blocks of thread t's listing.
BlocksOf(t) ==
    \A d \in InQueue(inbox[ClientPort]) :
        d.pkt.op = DATA =>
            LET b == NtohsBlock(d.pkt) IN
            b # 0 /\ d.pkt.data # <<>> /\ d.pkt.data = readDataBlock(lines[t], b)

\* The client has written its first blocks, up to the one it expects.
Written(t) ==
    /\ \E n \in Nat : out = Blocks(lines[t], n) /\ (cpc = "run" => n = Dec16(expected))
    /\ cpc = "ok" /\ cop = LS => out = lines[t]

\* Nobody else has written to ls.txt since thread t opened it.
ListFileOf(t) ==
    ListFile \in DOMAIN disk =>
        /\ tpc[t] = "list" => disk[ListFile] = <<>>
        /\ tpc[t] \in {"send", "wait"} => disk[ListFile] = lines[t]

Preparing(t) == tpc[t] \in {"bind", "start", "list"}

LInv ==
    /\ Lists = {} => NothingListed
    /\ \A t \in Threads : Lists = {t} =>
          /\ ListFileOf(t)
          /\ IF Preparing(t) THEN NothingListed ELSE BlocksOf(t) /\ Written(t)

LEMMA NothingGives ==
  ASSUME TInv, NEW t \in Threads, NothingListed
  PROVE  BlocksOf(t) /\ Written(t)
  <1>1. lines[t] \in Seq(Lines) /\ 0 \in Nat
    BY DEF TInv, ThreadTypes
  <1>2. Blocks(lines[t], 0) = <<>>
    BY <1>1, BlocksPrefix
  <1>3. Dec16(1) = 0
    <2>1. 1 \in UInt16 /\ 1 # 0
      BY U16Type DEF UInt16
    <2>2. Dec16(1) = 1 - 1
      BY <2>1, Counter16
    <2> QED
      BY <2>2
  <1> QED
    BY <1>2, <1>3 DEF NothingListed, BlocksOf, Written

\* No block comes to the client's queue.
NoNewData ==
    \A d \in InQueue(inbox'[ClientPort]) : d.pkt.op = DATA => d \in InQueue(inbox[ClientPort])

LEMMA QuietData ==
  ASSUME NEW S, AtClient(S), \A d \in S : d.pkt.op # DATA
  PROVE  NoNewData
  BY DEF AtClient, NoNewData

\* Steps that leave the client, what was listed and the file as they were,
\* or take the file away.
LEMMA ListingStays ==
  ASSUME TInv, TInv', LInv, ClientSame, NoNewData, UNCHANGED lines, Lists' = Lists,
         ListFile \in DOMAIN disk' => ListFile \in DOMAIN disk /\ disk'[ListFile] = disk[ListFile],
         \A u \in Lists : /\ Preparing(u)' => Preparing(u)
                          /\ tpc'[u] = "list" => tpc[u] = "list"
                          /\ tpc'[u] \in {"send", "wait"} => tpc[u] \in {"send", "wait"}
  PROVE  LInv'
  <1>1. UNCHANGED <<out, cpc, expected, cop>>
    BY DEF ClientSame, clientVars
  <1>2. NothingListed => NothingListed'
    BY <1>1 DEF NothingListed, NoNewData
  <1>3. ASSUME NEW t \in Threads, Lists = {t}
        PROVE  /\ ListFileOf(t)'
               /\ IF Preparing(t)' THEN NothingListed' ELSE BlocksOf(t)' /\ Written(t)'
    <2>1. ListFileOf(t) /\ IF Preparing(t) THEN NothingListed ELSE BlocksOf(t) /\ Written(t)
      BY <1>3 DEF LInv
    <2>2. BlocksOf(t) /\ Written(t)
      BY <2>1, NothingGives
    <2>3. BlocksOf(t)'
      BY <2>2 DEF BlocksOf, NoNewData
    <2>4. Written(t)'
      BY <2>2, <1>1 DEF Written
    <2>5. ListFileOf(t)'
      BY <2>1, <1>3 DEF ListFileOf
    <2>6. Preparing(t)' => NothingListed'
      BY <2>1, <1>2, <1>3
    <2> QED
      BY <2>3, <2>4, <2>5, <2>6
  <1>4. Lists' = {} => NothingListed'
    BY <1>2 DEF LInv
  <1> QED
    BY <1>3, <1>4 DEF LInv

\* Steps of the client.
LEMMA ListingServed ==
  ASSUME LInv, ServerSame, NothingListed => NothingListed',
         \A t \in Threads : BlocksOf(t) /\ Written(t) => BlocksOf(t)' /\ Written(t)'
  PROVE  LInv'
  <1>1. UNCHANGED <<tpc, topcode, lines, disk>>
    BY DEF ServerSame, threadVars, serverVars
  <1>2. Lists' = Lists
    BY <1>1 DEF Lists
  <1>3. \A t \in Threads : (ListFileOf(t) => ListFileOf(t)') /\ (Preparing(t)' <=> Preparing(t))
    BY <1>1 DEF ListFileOf, Preparing
  <1> HIDE DEF ListFileOf, Preparing, Lists, NothingListed, BlocksOf, Written
  <1> QED
    BY <1>2, <1>3 DEF LInv

LEMMA ListingStarted ==
  ASSUME TInv, TInv', LInv, CommandStart
  PROVE  LInv'
  <1>1. AtClient({}) /\ ServerSame
    <2>1. ASSUME NEW f \in Deletable, StartDelete(f) PROVE AtClient({}) /\ ServerSame
      BY <2>1, StartQueues DEF StartDelete, StartClient, ServerSame
    <2>2. ASSUME StartList PROVE AtClient({}) /\ ServerSame
      BY <2>2, StartQueues DEF StartList, StartClient, ServerSame
    <2>3. ASSUME StartListFails PROVE AtClient({}) /\ ServerSame
      BY <2>3, StartQueues DEF StartListFails, ServerSame
    <2> QED
      BY <2>1, <2>2, <2>3 DEF CommandStart
  <1>2. NoNewData
    BY <1>1, QuietData
  <1>3. \/ cpc' = "run" /\ out' = <<>> /\ expected' = 1
        \/ cpc' = "fail" /\ out' = out
    BY DEF CommandStart, StartDelete, StartList, StartListFails, StartClient
  <1>4. NothingListed => NothingListed'
    BY <1>2, <1>3 DEF NothingListed, NoNewData
  <1>5. lines' = lines
    BY <1>1 DEF ServerSame
  <1>6. ASSUME NEW t \in Threads, BlocksOf(t), Written(t) PROVE BlocksOf(t)' /\ Written(t)'
    <2>1. BlocksOf(t)'
      BY <1>2, <1>5, <1>6 DEF BlocksOf, NoNewData
    <2>2. CASE cpc' = "fail" /\ out' = out
      BY <2>1, <2>2, <1>5, <1>6 DEF Written
    <2>3. CASE cpc' = "run" /\ out' = <<>> /\ expected' = 1
      <3>1. Blocks(lines'[t], 0) = <<>>
        <4>1. lines'[t] \in Seq(Lines) /\ 0 \in Nat
          BY DEF TInv, ThreadTypes
        <4> QED
          BY <4>1, BlocksPrefix
      <3>2. 1 \in UInt16 /\ Dec16(1) = 1 - 1
        BY U16Type, Counter16 DEF UInt16
      <3>3. Dec16(1) = 0 /\ 0 \in Nat
        BY <3>2
      <3> QED
        BY <2>1, <2>3, <3>1, <3>3 DEF Written
    <2> QED
      BY <2>2, <2>3, <1>3
  <1> QED
    BY <1>1, <1>4, <1>6, ListingServed

\* The expected block of a listing goes where the blocks before it end.
LEMMA ListingGrows ==
  ASSUME TInv, NEW t \in Threads, BlocksOf(t), Written(t), ListStored
  PROVE  /\ \E n \in Nat : out' = Blocks(lines[t], n) /\ n = Dec16(expected')
         /\ cpc' = "ok" => out' = lines[t]
  <1> DEFINE d == Received(ClientPort)
  <1>1. /\ d \in InQueue(inbox[ClientPort]) /\ d.pkt = ClientPacket /\ d.pkt.op = DATA
        /\ NtohsBlock(d.pkt) = expected /\ out' = out \o d.pkt.data /\ expected' = Inc16(expected)
        /\ (cpc' # cpc => isShort(d.pkt.data))
        /\ cpc = "run"
    <2>1. ClientReceives /\ ClientPacket.op = DATA /\ NtohsBlock(ClientPacket) = expected
          /\ out' = out \o ClientPacket.data /\ expected' = Inc16(expected)
          /\ (cpc' # cpc => isShort(ClientPacket.data))
      BY DEF ListStored, ListExpected
    <2>2. d \in InQueue(inbox[ClientPort])
      BY <2>1, ClientReceived DEF TInv, QueueTypes
    <2> QED
      BY <2>1, <2>2 DEF ClientPacket, ClientReceives
  <1> HIDE DEF d
  <1>2. expected \in UInt16 /\ lines[t] \in Seq(Lines) /\ expected \in Nat
    BY U16Type DEF TInv, ClientTypes, ThreadTypes, UInt16
  <1>3. expected # 0 /\ d.pkt.data # <<>> /\ d.pkt.data = readDataBlock(lines[t], expected)
    BY <1>1 DEF BlocksOf
  <1>4. /\ Dec16(expected) = expected - 1 /\ Dec16(Inc16(expected)) = expected /\ expected > 0
    BY <1>2, <1>3, Counter16
  <1>5. out = Blocks(lines[t], expected - 1)
    BY <1>1, <1>4 DEF Written
  <1>6. /\ Blocks(lines[t], expected - 1) \o readDataBlock(lines[t], expected)
             = Blocks(lines[t], expected)
        /\ Len(readDataBlock(lines[t], expected)) < BlockSize
             => Blocks(lines[t], expected) = lines[t]
    BY <1>2, <1>3, <1>4, BlockTiling
  <1>7. out' = Blocks(lines[t], expected) /\ expected = Dec16(expected')
    BY <1>1, <1>3, <1>4, <1>5, <1>6
  <1>8. cpc' = "ok" => out' = lines[t]
    BY <1>1, <1>3, <1>6, <1>7 DEF isShort
  <1> QED
    BY <1>2, <1>7, <1>8

LEMMA ListingReceived ==
  ASSUME TInv, TInv', LInv, CommandClientStep
  PROVE  LInv'
  <1>1. AtClient({}) /\ ServerSame /\ NoNewData /\ cop' = cop
    BY ClientQueues, QuietData
  <1>2. lines' = lines
    BY <1>1 DEF ServerSame
  <1>3. ListStored \/ (out' = out /\ expected' = expected)
    BY DEF CommandClientStep, DeleteAnswered, ListRefused, ListIgnored, ListStoreFails,
           CommandTimeout, ClientTimeout
  <1>4. \/ DeleteAnswered \/ ListStored
        \/ cpc' \in {"fail", cpc}
    BY DEF CommandClientStep, ListRefused, ListIgnored, ListStoreFails, CommandTimeout,
           ClientTimeout, ClientReturns
  <1>5. DeleteAnswered => cop = DELETE /\ cpc' \in {"ok", "fail"}
    BY DEF DeleteAnswered, ClientReturns
  <1>6. cpc = "run"
    BY DEF CommandClientStep, DeleteAnswered, ListRefused, ListIgnored, ListStored, ListStoreFails,
        CommandTimeout, ClientTimeout, ClientReceives
  <1>7. NothingListed => NothingListed'
    <2> SUFFICES ASSUME NothingListed PROVE NothingListed'
      OBVIOUS
    <2>1. ~ListStored
      <3> SUFFICES ASSUME ListStored PROVE FALSE
        OBVIOUS
      <3>1. ClientReceives /\ ClientPacket.op = DATA
        BY DEF ListStored
      <3>2. Received(ClientPort) \in InQueue(inbox[ClientPort])
        BY <3>1, ClientReceived DEF TInv, QueueTypes
      <3> QED
        BY <3>1, <3>2 DEF NothingListed, ClientPacket
    <2>2. out' = out /\ expected' = expected
      BY <2>1, <1>3
    <2>3. ~(cpc' = "ok" /\ cop' = LS)
      BY <2>1, <1>1, <1>4, <1>5, <1>6, Opcodes
    <2> QED
      BY <2>2, <2>3, <1>1, <1>6 DEF NothingListed, NoNewData
  <1>8. ASSUME NEW t \in Threads, BlocksOf(t), Written(t) PROVE BlocksOf(t)' /\ Written(t)'
    <2>1. BlocksOf(t)'
      BY <1>1, <1>2, <1>8 DEF BlocksOf, NoNewData
    <2>2. CASE ListStored
      <3>1. /\ \E n \in Nat : out' = Blocks(lines[t], n) /\ n = Dec16(expected')
            /\ cpc' = "ok" => out' = lines[t]
        BY <2>2, <1>8, ListingGrows
      <3> QED
        BY <2>1, <3>1, <1>2 DEF Written
    <2>3. CASE ~ListStored
      <3>1. ~(cpc' = "ok" /\ cop' = LS)
        BY <2>3, <1>1, <1>4, <1>5, <1>6, Opcodes
      <3> QED
        BY <2>1, <2>3, <3>1, <1>2, <1>3, <1>6, <1>8 DEF Written
    <2> QED
      BY <2>2, <2>3
  <1> QED
    BY <1>1, <1>7, <1>8, ListingServed

LEMMA ListingAccepted ==
  ASSUME TInv, TInv', LInv, NEW name \in Names \cup {NoName}, Accepts(name)
  PROVE  LInv'
  <1>1. /\ ClientSame /\ NoNewData /\ disk' = disk /\ lines' = lines
        /\ ListenerPacket.op \in {DELETE, LS}
    BY KeepsQuiet, QuietData DEF Accepts, ClientSame
  <1>2. ASSUME NEW t \in Threads
        PROVE  IF t = nextId THEN tpc'[t] = "bind" /\ topcode'[t] = ListenerPacket.op
                                  /\ topcode[t] = 0
                             ELSE tpc'[t] = tpc[t] /\ topcode'[t] = topcode[t]
    <2>1. t = nextId => topcode[t] = 0
      BY DEF TInv, ThreadTypes
    <2> QED
      BY <2>1 DEF Accepts, TInv, ThreadTypes
  <1>3. CASE ListenerPacket.op = DELETE \/ nextId \notin Threads
    <2>1. Lists' = Lists
      BY <1>2, <1>3, Opcodes DEF Lists
    <2>2. \A u \in Lists : tpc'[u] = tpc[u]
      BY <1>2, Opcodes DEF Lists
    <2> QED
      BY <1>1, <2>1, <2>2, ListingStays DEF Preparing
  <1>4. CASE ListenerPacket.op = LS /\ nextId \in Threads
    <2>1. Lists' = Lists \cup {nextId} /\ nextId \notin Lists /\ tpc'[nextId] = "bind"
      BY <1>2, <1>4, Opcodes DEF Lists
    <2>2. Lists = {} => NothingListed'
      <3>1. UNCHANGED <<out, cpc, expected, cop>>
        BY <1>1 DEF ClientSame, clientVars
      <3> QED
        BY <3>1, <1>1 DEF LInv, NothingListed, NoNewData
    <2>3. ASSUME NEW t \in Threads, Lists' = {t}
          PROVE  ListFileOf(t)' /\ Preparing(t)' /\ NothingListed'
      <3>1. t = nextId /\ Lists = {}
        BY <2>1, <2>3
      <3> QED
        BY <3>1, <2>1, <2>2 DEF ListFileOf, Preparing
    <2>4. Lists' # {}
      BY <2>1
    <2> QED
      BY <2>3, <2>4 DEF LInv
  <1> QED
    BY <1>1, <1>3, <1>4

\* A thread of a listing goes on.
LEMMA ListingProceeds ==
  ASSUME TInv, TInv', LInv, NEW t \in Threads, topcode[t] = LS, Frame, UNCHANGED <<files, up>>,
         Listing(t)
  PROVE  LInv'
  <1>1. Lists' = Lists /\ t \in Lists /\ ClientSame
    BY DEF Lists, Frame
  <1>2. tpc \in [Threads -> Labels] /\ lines \in [Threads -> Seq(Lines)]
        /\ lines[t] \in Seq(Lines) /\ dataSize \in [Threads -> 0 .. BlockSize]
    BY DEF TInv, ThreadTypes
  <1>3. UNCHANGED <<out, cpc, expected, cop>>
    BY <1>1 DEF ClientSame, clientVars
  <1>4. CASE Rests(t)
    <2>1. NoNewData
      BY <1>4, QuietData DEF Rests
    <2>2. \A u \in Lists : /\ Preparing(u)' => Preparing(u)
                           /\ tpc'[u] = "list" => tpc[u] = "list"
                           /\ tpc'[u] \in {"send", "wait"} => tpc[u] \in {"send", "wait"}
      BY <1>2, <1>4 DEF Rests, Advances, Preparing, Lists
    <2> QED
      BY <1>1, <1>4, <2>1, <2>2, ListingStays DEF Rests
  \* The others can only disturb what is said of a single listing, which is t's.
  <1>5. ASSUME Lists = {t} => /\ ListFileOf(t)'
                              /\ IF Preparing(t)' THEN NothingListed' ELSE BlocksOf(t)' /\ Written(t)'
        PROVE  LInv'
    BY <1>1, <1>5 DEF LInv
  <1>6. Lists = {t} => ListFileOf(t) /\ IF Preparing(t) THEN NothingListed ELSE BlocksOf(t) /\ Written(t)
    BY DEF LInv
  <1>7. inbox' = inbox /\ NothingListed => NothingListed'
    BY <1>3 DEF NothingListed
  <1>8. CASE Opens(t)
    <2>1. /\ tpc[t] = "start" /\ tpc'[t] = "list" /\ inbox' = inbox /\ disk'[ListFile] = <<>>
      BY <1>2, <1>8 DEF Opens, Advances, withList
    <2> QED
      BY <2>1, <1>5, <1>6, <1>7 DEF ListFileOf, Preparing
  <1>9. CASE Writes(t)
    <2>1. /\ tpc[t] = "list" /\ tpc'[t] = "send" /\ inbox' = inbox /\ lines'[t] = listing
      BY <1>2, <1>9 DEF Writes, Advances
    <2>2. listing \in Seq(Lines)
      BY ListingTyped DEF TInv
    <2>3. ASSUME Lists = {t} PROVE ListFileOf(t)'
      <3>1. CASE ListFile \in DOMAIN disk
        <4>1. disk[ListFile] = <<>>
          BY <2>1, <2>3, <3>1, <1>6 DEF ListFileOf
        <4>2. disk'[ListFile] = listing \o SubSeq(<<>>, Len(listing) + 1, Len(<<>>))
          BY <3>1, <4>1, <1>9 DEF Writes, withList
        <4> HIDE DEF listing
        <4>3. SubSeq(<<>>, Len(listing) + 1, Len(<<>>)) = <<>>
          BY <2>2
        <4>4. disk'[ListFile] = listing
          BY <4>2, <4>3, <2>2
        <4> QED
          BY <2>1, <4>4 DEF ListFileOf
      <3>2. CASE ListFile \notin DOMAIN disk
        BY <3>2, <1>9 DEF Writes, ListFileOf
      <3> QED
        BY <3>1, <3>2
    <2>4. ASSUME Lists = {t} PROVE BlocksOf(t)' /\ Written(t)'
      <3>1. NothingListed'
        BY <2>1, <2>4, <1>6, <1>7 DEF Preparing
      <3>2. Blocks(lines'[t], 0) = <<>>
        BY <2>1, <2>2, BlocksPrefix
      <3>3. 1 \in UInt16 /\ Dec16(1) = 1 - 1
        BY U16Type, Counter16 DEF UInt16
      <3>4. Dec16(1) = 0 /\ 0 \in Nat
        BY <3>3
      <3> QED
        BY <3>1, <3>2, <3>4 DEF NothingListed, BlocksOf, Written
    <2> QED
      BY <2>1, <2>3, <2>4, <1>5 DEF Preparing
  <1>10. CASE Sends(t)
    <2>1. /\ tpc[t] = "send" /\ tpc'[t] = "wait" /\ lines' = lines /\ disk' = disk
      BY <1>2, <1>10 DEF Sends, Advances
    <2>2. ASSUME Lists = {t} PROVE ListFileOf(t)'
      BY <2>1, <2>2, <1>6 DEF ListFileOf
    <2>3. ASSUME Lists = {t} PROVE BlocksOf(t)' /\ Written(t)'
      <3> DEFINE d == [src |-> ThreadPort(t), pkt |-> createDataPacket(block[t], ListBlock(t))]
      <3>1. BlocksOf(t) /\ Written(t)
        BY <2>1, <2>3, <1>6 DEF Preparing
      <3>2. block[t] \in UInt16 /\ ListBlock(t) # <<>> /\ ListBlock(t) \in Seq(Lines) /\ AtClient({d})
        BY <1>10 DEF Sends, TInv, ThreadTypes
      <3>3. NtohsBlock(d.pkt) = block[t] /\ d.pkt.data = ListBlock(t)
        BY <3>2, CommandPacketTypes
      <3> HIDE DEF d
      <3>4. block[t] # 0 /\ fileBytes(ListFile) # <<>>
        <4>1. readDataBlock(<<>>, block[t]) = <<>>
          <5>1. block[t] \in Nat
            BY <3>2, U16Type DEF UInt16
          <5>2. block[t] # 0 => (block[t] - 1) * BlockSize >= 0
            BY <5>1, PacketAssumption
          <5>3. Len(<<>>) = 0
            OBVIOUS
          <5> QED
            BY <5>2, <5>3 DEF readDataBlock
        <4> QED
          BY <3>2, <4>1 DEF ListBlock, readDataBlock
      <3>5. fileBytes(ListFile) = lines[t]
        BY <3>4, <2>1, <2>3, <1>6 DEF fileBytes, ListFileOf
      <3>6. d.pkt.data = readDataBlock(lines[t], block[t]) /\ d.pkt.data # <<>>
        BY <3>2, <3>3, <3>5 DEF ListBlock
      <3>7. BlocksOf(t)'
        <4> SUFFICES ASSUME NEW e \in InQueue(inbox'[ClientPort]), e.pkt.op = DATA
                     PROVE  LET b == NtohsBlock(e.pkt) IN
                            b # 0 /\ e.pkt.data # <<>> /\ e.pkt.data = readDataBlock(lines'[t], b)
          BY DEF BlocksOf
        <4>1. CASE e = d
          BY <4>1, <3>3, <3>4, <3>6, <2>1
        <4>2. CASE e # d
          <5>1. e \in InQueue(inbox[ClientPort])
            BY <3>2, <4>2 DEF AtClient
          <5> QED
            BY <5>1, <3>1, <2>1 DEF BlocksOf
        <4> QED
          BY <4>1, <4>2
      <3>8. Written(t)'
        BY <3>1, <2>1, <1>3 DEF Written
      <3> QED
        BY <3>7, <3>8
    <2> QED
      BY <2>1, <2>2, <2>3, <1>5 DEF Preparing
  <1> QED
    BY <1>4, <1>8, <1>9, <1>10 DEF Listing

LEMMA StepListing == TInv /\ TInv' /\ LInv /\ [Next]_<<vars, cmdVars>> => LInv'
  <1> SUFFICES ASSUME TInv, TInv', LInv, [Next]_<<vars, cmdVars>> PROVE LInv'
    OBVIOUS
  <1>1. CASE CommandStart
    BY <1>1, ListingStarted
  <1>2. CASE CommandClientStep
    BY <1>2, ListingReceived
  <1>3. CASE CommandListenerStep
    <2>1. ASSUME Declines PROVE LInv'
      <3>1. PICK d \in CommandDatagrams : d.pkt.op = ERROR /\ AtClient({d})
        BY <2>1 DEF Declines
      <3>2. NoNewData
        BY <3>1, QuietData, Opcodes
      <3>3. ClientSame /\ UNCHANGED <<tpc, topcode, lines, disk>>
        BY <2>1 DEF Declines, ClientSame, ServerSame, threadVars, serverVars
      <3> QED
        BY <3>2, <3>3, ListingStays DEF Lists, Preparing
    <2> QED
      BY <1>3, <2>1, ListenerSteps, ListingAccepted
  <1>4. ASSUME NEW t \in Threads, CommandThreadStep(t) PROVE LInv'
    <2>0. tpc \in [Threads -> Labels]
      BY DEF TInv, ThreadTypes
    <2>1. CASE Bind(t) /\ UNCHANGED cmdVars
      <3>1. Frame /\ Enters(t) /\ UNCHANGED lines
        BY <2>1, BindSteps
      <3>2. ClientSame /\ inbox' = inbox /\ disk' = disk /\ Lists' = Lists
        BY <3>1 DEF Frame, Enters, Lists
      <3>3. NoNewData
        BY <3>2 DEF NoNewData
      <3>4. \A u \in Lists : /\ Preparing(u)' => Preparing(u)
                             /\ tpc'[u] = "list" => tpc[u] = "list"
                             /\ tpc'[u] \in {"send", "wait"} => tpc[u] \in {"send", "wait"}
        BY <2>0, <3>1 DEF Enters, Advances, Preparing, Lists
      <3> QED
        BY <3>1, <3>2, <3>3, <3>4, ListingStays
    <2>2. CASE DeleteStep(t) /\ UNCHANGED cmdVars
      <3>1. topcode[t] = DELETE /\ Frame /\ UNCHANGED lines /\ Deleting(t)
        BY <2>2, DeleteSteps
      <3>2. ClientSame /\ Lists' = Lists
        BY <3>1 DEF Frame, Lists
      <3>3. NoNewData
        <4>1. inbox' = inbox \/ AtClient({}) \/ Says(t, ERROR) \/ Says(t, ACK)
          BY <3>1 DEF Deleting, Looks, Counts, Refuses, Removes, Erases, Aborts, Confirms
        <4>2. ASSUME NEW op \in {ERROR, ACK}, Says(t, op) PROVE NoNewData
          BY <4>2, QuietData, Opcodes DEF Says
        <4>3. CASE inbox' = inbox
          BY <4>3 DEF NoNewData
        <4> QED
          BY <4>1, <4>2, <4>3, QuietData
      <3>4. ListFile \in DOMAIN disk' => ListFile \in DOMAIN disk /\ disk'[ListFile] = disk[ListFile]
        BY <3>1 DEF Deleting, Looks, Counts, Refuses, Removes, Erases, Aborts, Confirms
      <3>5. \A u \in Lists : tpc'[u] = tpc[u]
        <4> SUFFICES ASSUME NEW u \in Lists PROVE tpc'[u] = tpc[u]
          OBVIOUS
        <4>1. u # t /\ u \in Threads
          BY <3>1, Opcodes DEF Lists
        <4>2. tpc' = tpc \/ \E l \in DeleteLabels : tpc' = [tpc EXCEPT ![t] = l]
          BY <3>1 DEF Deleting, Looks, Counts, Refuses, Removes, Erases, Aborts, Confirms, Advances,
                      DeleteLabels
        <4>3. ASSUME NEW l, tpc' = [tpc EXCEPT ![t] = l] PROVE tpc'[u] = tpc[u]
          BY <4>1, <4>3, <2>0
        <4> QED
          BY <4>2, <4>3
      <3> QED
        BY <3>1, <3>2, <3>3, <3>4, <3>5, ListingStays DEF Preparing
    <2>3. CASE ListStep(t)
      BY <2>3, ListSteps, ListingProceeds
    <2> QED
      BY <1>4, <2>1, <2>2, <2>3 DEF CommandThreadStep
  <1>5. CASE ReaderChanges
    <2>1. ClientSame /\ UNCHANGED <<tpc, topcode, lines, disk, inbox>>
      BY <1>5 DEF ReaderChanges, ClientSame, cmdVars, netVars, threadVars
    <2>2. NoNewData
      BY <2>1 DEF NoNewData
    <2> QED
      BY <2>1, <2>2, ListingStays DEF Lists, Preparing
  <1>6. CASE Lose /\ UNCHANGED cmdVars
    <2>1. ClientSame /\ UNCHANGED <<tpc, topcode, lines, disk>> /\ AtClient({})
      BY <1>6, LoseFacts, KeepsQuiet DEF ServerSame, threadVars, serverVars
    <2>2. NoNewData
      BY <2>1, QuietData
    <2> QED
      BY <2>1, <2>2, ListingStays DEF Lists, Preparing
  <1>7. CASE UNCHANGED <<vars, cmdVars>>
    <2>1. ClientSame /\ UNCHANGED <<tpc, topcode, lines, disk, inbox>>
      BY <1>7 DEF vars, cmdVars, clientVars, threadVars, serverVars, netVars, ClientSame
    <2>2. NoNewData
      BY <2>1 DEF NoNewData
    <2> QED
      BY <2>1, <2>2, ListingStays DEF Lists, Preparing
  <1> QED
    BY <1>1, <1>2, <1>3, <1>4, <1>5, <1>6, <1>7 DEF Next

LEMMA InitListing == CommandInit => LInv
  <1> SUFFICES ASSUME CommandInit PROVE LInv
    OBVIOUS
  <1>1. Lists = {}
    BY Opcodes DEF CommandInit, Lists
  <1>2. inbox[ClientPort] = <<>> /\ InQueue(<<>>) = {}
    BY PortFacts DEF CommandInit, InitWith, NetInit, InQueue
  <1>3. NothingListed
    BY <1>2 DEF CommandInit, InitWith, NothingListed
  <1> QED
    BY <1>1, <1>3 DEF LInv

LEMMA LInvListing == ASSUME TInv, LInv PROVE ListingCopy
  <1> SUFFICES ASSUME NEW t \in Lists, Lists = {t}
               PROVE  /\ Len(out) <= Len(lines[t]) /\ out = SubSeq(lines[t], 1, Len(out))
                      /\ cpc = "ok" /\ cop = LS => out = lines[t]
    BY DEF ListingCopy
  <1>1. t \in Threads
    BY DEF Lists
  <1>2. Written(t)
    BY <1>1, NothingGives DEF LInv
  <1>3. lines[t] \in Seq(Lines)
    BY <1>1 DEF TInv, ThreadTypes
  <1>4. PICK n \in Nat : out = Blocks(lines[t], n)
    BY <1>2 DEF Written
  <1>5. Len(out) <= Len(lines[t]) /\ out = SubSeq(lines[t], 1, Len(out))
    BY <1>3, <1>4, BlocksPrefix
  <1> QED
    BY <1>2, <1>5 DEF Written

\* A single listing reaches the client in order, without a gap or a repetition,
\* and is whole when handleLSRequest returns true: whatever is lost, sent again
\* or left over from an earlier client, for any directory and block size, and
\* although 16-bit block numbers run out.
THEOREM ListingArrives == Spec => []ListingCopy
  <1>1. TInv /\ LInv /\ [Next]_<<vars, cmdVars>> => (TInv /\ LInv)'
    BY StepTypes, StepListing
  <1>2. TInv /\ LInv => ListingCopy
    BY LInvListing
  <1> QED
    BY InitTypes, InitListing, <1>1, <1>2, PTL DEF Spec

---------------------------------------------------------------------------
(* What the server confirms.                                               *)

Acked(t) == \E d \in InQueue(inbox[ClientPort]) : d.pkt.op = ACK /\ d.src = ThreadPort(t)

\* Threads whose file is gone and whose client does not know yet.
Pending == {t \in Threads : tpc[t] = "ack" \/ Acked(t)}

\* Files that are gone, and that no thread will find in the map and erase, but
\* for one that joins when another erased them.
Gone == {f \in startDir \ DOMAIN disk :
            \/ f \notin DOMAIN files
            \/ \A t \in Deletes(f) : tpc[t] \notin {"remove", "erase"}}

\* The case ReportedOnce speaks of: two DELETEs of a name at most, none of ls.txt.
Paired == Deletes(ListFile) = {} /\ (\A f \in Names : Cardinality(Deletes(f)) <= 2)

Traces ==
    /\ startDir \in Directories
    /\ \A d \in InQueue(inbox[ClientPort]) : d.pkt.op = ACK =>
          \E t \in Threads : d.src = ThreadPort(t) /\ tpc[t] = "done"
    \* A name that lost its entry has a thread that erased it ...
    /\ \A f \in startDir \ DOMAIN files : \E z \in Deletes(f) : tpc[z] \in {"ack", "done"}
    \* ... and one that lost its file a thread that removed it.
    /\ \A f \in startDir \ DOMAIN disk : Deletes(f) # {}
    /\ DOMAIN disk \subseteq startDir \cup {ListFile}

\* A thread beyond fs::exists deletes a file of the directory; beyond fs::remove
\* the file is gone.
Removed ==
    \A t \in Threads : topcode[t] = DELETE =>
        /\ tpc[t] \in {"erase", "ack"} => tfile[t] \notin DOMAIN disk
        /\ tpc[t] \in {"remove", "erase", "ack"} => tfile[t] \in startDir

Counted == deleted + Cardinality(Pending) <= Cardinality(Gone)

\* The only request is a DELETE.
Told == cpc = "ok" \/ tpc[1] = "ack" \/ \E d \in InQueue(inbox[ClientPort]) : d.pkt.op = ACK

Alone ==
    /\ \A d \in InQueue(inbox[ServerPort]) : d.pkt = createDeletePacket(cfile)
    /\ Len(inbox[ServerPort]) + nextId <= 2
    /\ \A t \in Threads : tpc[t] # "free" => t = 1 /\ topcode[t] = DELETE /\ tfile[t] = cfile
    /\ tpc[1] = "erase" => cfile \notin DOMAIN disk
    /\ Told => tpc[1] \in {"ack", "done"} /\ cfile \notin DOMAIN disk \cup DOMAIN files

DInv == /\ Traces
        /\ Paired => Removed /\ Counted
        /\ requests = 1 /\ cop = DELETE => Alone

NoNewAck ==
    \A d \in InQueue(inbox'[ClientPort]) : d.pkt.op = ACK => d \in InQueue(inbox[ClientPort])

\* A thread that deletes a file goes on deleting that file.
Joins == \A t \in Threads : topcode[t] = DELETE => topcode'[t] = DELETE /\ tfile'[t] = tfile[t]

LEMMA QuietAcks ==
  ASSUME NEW S, AtClient(S), \A d \in S : d.pkt.op # ACK
  PROVE  NoNewAck
  BY DEF AtClient, NoNewAck

LEMMA PairedBefore ==
  ASSUME Joins, Paired'
  PROVE  Paired
  <1>1. IsFiniteSet(Threads)
    BY LoopbackAssumption, FS_Interval DEF Threads
  <1>2. ASSUME NEW f PROVE Deletes(f) \subseteq Deletes(f)'
    BY DEF Joins, Deletes
  <1>3. Deletes(ListFile) = {}
    BY <1>2 DEF Paired
  <1>4. ASSUME NEW f \in Names PROVE Cardinality(Deletes(f)) <= 2
    <2>1. Deletes(f)' \subseteq Threads /\ Deletes(f) \subseteq Threads
      BY DEF Deletes
    <2>2. /\ IsFiniteSet(Deletes(f)') /\ IsFiniteSet(Deletes(f))
          /\ Cardinality(Deletes(f)) <= Cardinality(Deletes(f)')
      BY <1>1, <1>2, <2>1, FS_Subset
    <2>3. Cardinality(Deletes(f)') \in Nat /\ Cardinality(Deletes(f)) \in Nat
      BY <2>2, FS_CardinalityType
    <2>4. Cardinality(Deletes(f)') <= 2
      BY DEF Paired
    <2> QED
      BY <2>2, <2>3, <2>4
  <1> QED
    BY <1>3, <1>4 DEF Paired

\* What is counted is finite.
LEMMA CountsFinite ==
  ASSUME startDir \in Directories
  PROVE  /\ IsFiniteSet(Pending) /\ Cardinality(Pending) \in Nat
         /\ IsFiniteSet(Gone) /\ Cardinality(Gone) \in Nat
         /\ startDir \subseteq Names /\ IsFiniteSet(startDir)
  <1>1. IsFiniteSet(Threads)
    BY LoopbackAssumption, FS_Interval DEF Threads
  <1>2. startDir \subseteq DOMAIN Database /\ IsFiniteSet(DOMAIN Database)
    BY CommandsAssumption
  <1>3. IsFiniteSet(startDir) /\ startDir \subseteq Names
    BY <1>2, FS_Subset, SessionsAssumption
  <1>4. Pending \subseteq Threads /\ Gone \subseteq startDir
    BY DEF Pending, Gone
  <1> QED
    BY <1>1, <1>3, <1>4, FS_Subset, FS_CardinalityType

LEMMA CountedKept ==
  ASSUME startDir \in Directories, startDir' = startDir, Counted, deleted \in Nat,
         Pending' \subseteq Pending, Gone \subseteq Gone', deleted' = deleted
  PROVE  Counted'
  <1>1. /\ IsFiniteSet(Pending) /\ Cardinality(Pending) \in Nat
        /\ IsFiniteSet(Gone) /\ Cardinality(Gone) \in Nat
    BY CountsFinite
  <1>2. IsFiniteSet(Gone') /\ Cardinality(Gone') \in Nat
    <2>1. IsFiniteSet(startDir) /\ Gone' \subseteq startDir
      BY CountsFinite DEF Gone
    <2> QED
      BY <2>1, FS_Subset, FS_CardinalityType
  <1>3. Cardinality(Pending') <= Cardinality(Pending) /\ Cardinality(Pending') \in Nat
    BY <1>1, FS_Subset, FS_CardinalityType
  <1>4. Cardinality(Gone) <= Cardinality(Gone')
    BY <1>2, FS_Subset
  <1> QED
    BY <1>1, <1>2, <1>3, <1>4 DEF Counted

\* Steps that neither remove a file, nor enter or erase a name, nor confirm.
LEMMA CountsStay ==
  ASSUME TInv, TInv', Traces, Paired => Removed /\ Counted,
         UNCHANGED <<startDir, deleted>>, DOMAIN files' = DOMAIN files, DOMAIN disk' = DOMAIN disk,
         NoNewAck, Joins,
         \A t \in Threads :
             /\ tpc[t] \in {"ack", "done"} => tpc'[t] = tpc[t]
             /\ tpc'[t] \in {"remove", "erase", "ack"} => tpc'[t] = tpc[t] /\ topcode[t] = topcode'[t]
  PROVE  Traces' /\ (Paired' => Removed' /\ Counted')
  <1>1. Traces'
    <2>1. ASSUME NEW d \in InQueue(inbox'[ClientPort]), d.pkt.op = ACK
          PROVE  \E t \in Threads : d.src = ThreadPort(t) /\ tpc'[t] = "done"
      BY <2>1 DEF Traces, NoNewAck
    <2>2. ASSUME NEW f \in startDir' \ DOMAIN files'
          PROVE  \E z \in Deletes(f)' : tpc'[z] \in {"ack", "done"}
      <3>1. PICK z \in Deletes(f) : tpc[z] \in {"ack", "done"}
        BY DEF Traces
      <3>2. z \in Deletes(f)' /\ tpc'[z] \in {"ack", "done"}
        BY <3>1 DEF Deletes, Joins
      <3> QED
        BY <3>2
    <2>3. ASSUME NEW f \in startDir' \ DOMAIN disk' PROVE Deletes(f)' # {}
      BY DEF Traces, Deletes, Joins
    <2>4. startDir' \in Directories /\ DOMAIN disk' \subseteq startDir' \cup {ListFile}
      BY DEF Traces
    <2> QED
      BY <2>1, <2>2, <2>3, <2>4 DEF Traces
  <1>2. ASSUME Paired' PROVE Removed' /\ Counted'
    <2>1. Removed /\ Counted
      BY <1>2, PairedBefore
    <2>2. Removed'
      <3> SUFFICES ASSUME NEW t \in Threads, topcode'[t] = DELETE
                   PROVE  /\ tpc'[t] \in {"erase", "ack"} => tfile'[t] \notin DOMAIN disk'
                          /\ tpc'[t] \in {"remove", "erase", "ack"} => tfile'[t] \in startDir'
        BY DEF Removed
      <3>1. tpc'[t] \in {"remove", "erase", "ack"} =>
                tpc'[t] = tpc[t] /\ topcode[t] = DELETE /\ tfile'[t] = tfile[t]
        BY DEF Joins
      <3> QED
        BY <2>1, <3>1 DEF Removed
    <2>3. Gone \subseteq Gone'
      <3> SUFFICES ASSUME NEW f \in Gone PROVE f \in Gone'
        OBVIOUS
      <3>1. f \in startDir' \ DOMAIN disk'
        BY DEF Gone
      <3>2. CASE f \notin DOMAIN files
        BY <3>1, <3>2 DEF Gone
      <3>3. CASE \A t \in Deletes(f) : tpc[t] \notin {"remove", "erase"}
        <4>1. ASSUME NEW t \in Deletes(f)', tpc'[t] \in {"remove", "erase"} PROVE FALSE
          <5>1. t \in Threads /\ topcode'[t] = DELETE /\ tfile'[t] = f
            BY DEF Deletes
          <5>2. topcode[t] = DELETE /\ tpc'[t] = tpc[t]
            BY <4>1, <5>1
          <5>3. t \in Deletes(f)
            BY <5>1, <5>2 DEF Joins, Deletes
          <5> QED
            BY <3>3, <4>1, <5>2, <5>3
        <4> QED
          BY <3>1, <4>1 DEF Gone
      <3> QED
        BY <3>2, <3>3 DEF Gone
    <2>4. Pending' \subseteq Pending
      <3>1. \A t \in Threads : Acked(t)' => Acked(t)
        BY DEF Acked, NoNewAck
      <3> QED
        BY <3>1 DEF Pending
    <2>5. deleted \in Nat /\ startDir \in Directories
      BY DEF TInv, ClientTypes, Traces
    <2> QED
      BY <2>1, <2>2, <2>3, <2>4, <2>5, CountedKept
  <1> QED
    BY <1>1, <1>2

\* The client is told: its answer came from a thread that had been pending.
LEMMA CountsAnswered ==
  ASSUME TInv, TInv', Traces, Paired => Removed /\ Counted, DeleteAnswered, Deleted
  PROVE  Traces' /\ (Paired' => Removed' /\ Counted')
  <1>1. ServerSame /\ inbox'[ClientPort] = <<>> /\ deleted' = deleted + 1
    BY ClientQueues DEF CommandClientStep, DeleteAnswered
  <1>2. UNCHANGED <<tpc, tfile, topcode, files, disk, startDir>>
    BY <1>1 DEF ServerSame, threadVars, serverVars
  <1>3. InQueue(<<>>) = {}
    BY DEF InQueue
  <1>4. PICK t \in Threads : Acked(t) /\ tpc[t] = "done"
    <2>1. /\ Received(ClientPort) \in InQueue(inbox[ClientPort])
          /\ Received(ClientPort).pkt.op = ACK
      <3>1. ClientReceives /\ ClientPacket.op = ACK
        BY DEF DeleteAnswered, Deleted
      <3> QED
        BY <3>1, ClientReceived DEF TInv, QueueTypes, ClientPacket
    <2> QED
      BY <2>1 DEF Traces, Acked
  <1>5. Traces'
    <2>1. \A d \in InQueue(inbox'[ClientPort]) : FALSE
      BY <1>1, <1>3
    <2>2. \A f : Deletes(f)' = Deletes(f)
      BY <1>2 DEF Deletes
    <2> QED
      BY <1>2, <2>1, <2>2 DEF Traces
  <1>6. ASSUME Paired' PROVE Removed' /\ Counted'
    <2>1. Removed /\ Counted
      BY <1>2, <1>6, PairedBefore DEF Joins
    <2>2. Removed'
      BY <1>2, <2>1 DEF Removed
    <2>3. Gone' = Gone
      BY <1>2 DEF Gone, Deletes
    <2>4. Pending' \subseteq Pending \ {t} /\ t \in Pending
      BY <1>1, <1>2, <1>3, <1>4 DEF Pending, Acked
    <2>5. /\ IsFiniteSet(Pending) /\ Cardinality(Pending) \in Nat
          /\ IsFiniteSet(Gone) /\ Cardinality(Gone) \in Nat
      BY CountsFinite DEF Traces
    <2>6. IsFiniteSet(Pending \ {t}) /\ Cardinality(Pending \ {t}) = Cardinality(Pending) - 1
      BY <2>4, <2>5, FS_RemoveElement
    <2>7. /\ Cardinality(Pending') <= Cardinality(Pending \ {t})
          /\ Cardinality(Pending') \in Nat
      BY <2>4, <2>6, FS_Subset, FS_CardinalityType
    <2>8. deleted \in Nat
      BY DEF TInv, ClientTypes
    <2> QED
      BY <1>1, <2>1, <2>2, <2>3, <2>5, <2>6, <2>7, <2>8 DEF Counted
  <1> QED
    BY <1>5, <1>6

\* What a step of a DELETE's thread leaves as it was.
LEMMA DeletingFrame ==
  ASSUME TInv, TInv', NEW t \in Threads, topcode[t] = DELETE, Frame, Deleting(t)
  PROVE  /\ UNCHANGED <<startDir, deleted, topcode, tfile, cpc, cop, cfile, requests, nextId>>
         /\ Joins /\ \A f : Deletes(f)' = Deletes(f)
         /\ \A u \in Threads : u # t => tpc'[u] = tpc[u]
         /\ t \in Deletes(tfile[t]) /\ tfile[t] \in Names
         /\ Confirms(t) \/ NoNewAck
         /\ ServerQuiet
  <1>1. UNCHANGED <<startDir, deleted, topcode, tfile, cpc, cop, cfile, requests, nextId>>
    BY DEF Frame, ClientSame, clientVars
  <1>2. Joins /\ \A f : Deletes(f)' = Deletes(f)
    BY <1>1 DEF Joins, Deletes
  <1>3. ASSUME NEW u \in Threads, u # t PROVE tpc'[u] = tpc[u]
    <2>1. tpc' = tpc \/ \E l \in DeleteLabels : tpc' = [tpc EXCEPT ![t] = l]
      BY DEF Deleting, Looks, Counts, Refuses, Removes, Erases, Aborts, Confirms, Advances,
             DeleteLabels
    <2>2. ASSUME NEW l, tpc' = [tpc EXCEPT ![t] = l] PROVE tpc'[u] = tpc[u]
      BY <1>3, <2>2 DEF TInv, ThreadTypes
    <2> QED
      BY <2>1, <2>2
  <1>4. t \in Deletes(tfile[t]) /\ tfile[t] \in Names
    BY DEF Deletes, TInv, ThreadTypes
  <1>5. Confirms(t) \/ NoNewAck
    <2>1. inbox' = inbox \/ AtClient({}) \/ Says(t, ERROR) \/ Confirms(t)
      BY DEF Deleting, Looks, Counts, Refuses, Removes, Erases, Aborts
    <2>2. ASSUME Says(t, ERROR) PROVE NoNewAck
      BY <2>2, QuietAcks, Opcodes DEF Says
    <2>3. inbox' = inbox => NoNewAck
      BY DEF NoNewAck
    <2> QED
      BY <2>1, <2>2, <2>3, QuietAcks
  <1>6. ServerQuiet
    <2>1. inbox' = inbox => ServerQuiet
      <3>1. Len(inbox[ServerPort]) \in Nat
        BY PortFacts DEF TInv, QueueTypes, Fits
      <3> QED
        BY <3>1 DEF ServerQuiet
    <2> QED
      BY <2>1 DEF Deleting, Looks, Counts, Refuses, Removes, Erases, Aborts, Confirms
  <1> QED
    BY <1>1, <1>2, <1>3, <1>4, <1>5, <1>6

\* A file that is about to be removed is one the server began with.
LEMMA CountsLook ==
  ASSUME TInv, TInv', Traces, Paired => Removed /\ Counted,
         NEW t \in Threads, topcode[t] = DELETE, Frame, Deleting(t), Looks(t)
  PROVE  Traces' /\ (Paired' => Removed' /\ Counted')
  <1>1. /\ UNCHANGED <<startDir, deleted, topcode, tfile>>
        /\ Joins /\ \A f : Deletes(f)' = Deletes(f)
        /\ \A u \in Threads : u # t => tpc'[u] = tpc[u]
        /\ t \in Deletes(tfile[t]) /\ tfile[t] \in Names
    BY DeletingFrame
  <1>2. UNCHANGED <<files, disk, inbox>> /\ tpc \in [Threads -> Labels]
    BY DEF Looks, TInv, ThreadTypes
  <1>3. CASE Advances(t, "start", "find") \/ Advances(t, "find", "count")
    <2>1. tpc'[t] \notin {"remove", "erase", "ack"} /\ tpc[t] \notin {"ack", "done"}
      BY <1>2, <1>3 DEF Advances
    <2>2. NoNewAck
      BY <1>2 DEF NoNewAck
    <2> QED
      BY <1>1, <1>2, <2>1, <2>2, CountsStay
  <1>4. CASE Advances(t, "exists", "remove") /\ tfile[t] \in DOMAIN disk
    <2>1. tpc[t] = "exists" /\ tpc'[t] = "remove"
      BY <1>2, <1>4 DEF Advances
    <2>2. Traces'
      <3>1. ASSUME NEW z \in Threads, tpc[z] \in {"ack", "done"} PROVE tpc'[z] = tpc[z]
        BY <3>1, <2>1, <1>1
      <3>2. \A f : \A z \in Deletes(f) : z \in Threads
        BY DEF Deletes
      <3>3. \A d \in InQueue(inbox'[ClientPort]) : d.pkt.op = ACK =>
               \E z \in Threads : d.src = ThreadPort(z) /\ tpc'[z] = "done"
        BY <1>2, <3>1 DEF Traces
      <3>4. \A f \in startDir' \ DOMAIN files' : \E z \in Deletes(f)' : tpc'[z] \in {"ack", "done"}
        BY <1>1, <1>2, <3>1, <3>2 DEF Traces
      <3> QED
        BY <1>1, <1>2, <3>3, <3>4 DEF Traces
    <2>3. ASSUME Paired' PROVE Removed' /\ Counted'
      <3>1. Removed /\ Counted /\ Paired
        BY <2>3, <1>1, PairedBefore
      <3>2. tfile[t] \in startDir
        <4>1. tfile[t] # ListFile
          BY <1>1, <3>1 DEF Paired
        <4> QED
          BY <4>1, <1>4 DEF Traces
      <3>3. Removed'
        BY <1>1, <1>2, <2>1, <3>1, <3>2 DEF Removed
      <3>4. Pending' \subseteq Pending
        BY <1>1, <1>2, <2>1 DEF Pending, Acked
      <3>5. Gone \subseteq Gone'
        <4> SUFFICES ASSUME NEW f \in Gone PROVE f \in Gone'
          OBVIOUS
        <4>1. f \in startDir' \ DOMAIN disk' /\ f # tfile[t]
          BY <1>1, <1>2, <1>4 DEF Gone
        <4>2. \A u \in Deletes(f) : tpc'[u] = tpc[u]
          BY <1>1, <4>1 DEF Deletes
        <4> QED
          BY <1>1, <1>2, <4>1, <4>2 DEF Gone
      <3>6. deleted \in Nat /\ startDir \in Directories
        BY DEF TInv, ClientTypes, Traces
      <3> QED
        BY <1>1, <3>1, <3>3, <3>4, <3>5, <3>6, CountedKept
    <2> QED
      BY <2>2, <2>3
  <1> QED
    BY <1>3, <1>4 DEF Looks

LEMMA ThreeApart ==
  ASSUME NEW S, IsFiniteSet(S), NEW x \in S, NEW y \in S, NEW z \in S, x # y, x # z, y # z
  PROVE  3 <= Cardinality(S)
  <1>1. IsFiniteSet({x}) /\ Cardinality({x}) = 1
    BY FS_Singleton
  <1>2. IsFiniteSet({x} \cup {y}) /\ Cardinality({x} \cup {y}) = 2
    <2>1. y \notin {x}
      OBVIOUS
    <2>2. Cardinality({x} \cup {y}) = Cardinality({x}) + 1 /\ IsFiniteSet({x} \cup {y})
      BY <1>1, <2>1, FS_AddElement
    <2> QED
      BY <1>1, <2>2
  <1>3. IsFiniteSet({x} \cup {y} \cup {z}) /\ Cardinality({x} \cup {y} \cup {z}) = 3
    <2> DEFINE T == {x} \cup {y}
    <2>1. z \notin T
      OBVIOUS
    <2>2. IsFiniteSet(T) /\ Cardinality(T) = 2
      BY <1>2
    <2> HIDE DEF T
    <2>3. Cardinality(T \cup {z}) = Cardinality(T) + 1 /\ IsFiniteSet(T \cup {z})
      BY <2>1, <2>2, FS_AddElement
    <2> QED
      BY <2>2, <2>3 DEF T
  <1>4. {x} \cup {y} \cup {z} \subseteq S
    OBVIOUS
  <1> QED
    BY <1>3, <1>4, FS_Subset

\* operator[] brings an entry back only where no third thread can follow it.
LEMMA CountsInsert ==
  ASSUME TInv, TInv', Traces, Paired => Removed /\ Counted,
         NEW t \in Threads, topcode[t] = DELETE, Frame, Deleting(t),
         tpc[t] = "count", tpc'[t] \in {"exists", "done"},
         files' = mapInsert(files, tfile[t], 0), disk' = disk, NoNewAck
  PROVE  Traces' /\ (Paired' => Removed' /\ Counted')
  <1>1. /\ UNCHANGED <<startDir, deleted, topcode, tfile>>
        /\ Joins /\ \A f : Deletes(f)' = Deletes(f)
        /\ \A u \in Threads : u # t => tpc'[u] = tpc[u]
        /\ t \in Deletes(tfile[t]) /\ tfile[t] \in Names
    BY DeletingFrame
  <1>2. DOMAIN files' = DOMAIN files \cup {tfile[t]}
    BY DEF mapInsert
  <1>3. ASSUME NEW z \in Threads, tpc[z] \in {"ack", "done"} PROVE tpc'[z] = tpc[z]
    BY <1>3, <1>1
  <1>4. Traces'
    <2>1. \A f : \A z \in Deletes(f) : z \in Threads
      BY DEF Deletes
    <2>2. \A d \in InQueue(inbox'[ClientPort]) : d.pkt.op = ACK =>
             \E z \in Threads : d.src = ThreadPort(z) /\ tpc'[z] = "done"
      BY <1>3 DEF Traces, NoNewAck
    <2>3. \A f \in startDir' \ DOMAIN files' : \E z \in Deletes(f)' : tpc'[z] \in {"ack", "done"}
      BY <1>1, <1>2, <1>3, <2>1 DEF Traces
    <2> QED
      BY <1>1, <2>2, <2>3 DEF Traces
  <1>5. ASSUME Paired' PROVE Removed' /\ Counted'
    <2>1. Removed /\ Counted /\ Paired
      BY <1>5, <1>1, PairedBefore
    <2>2. Removed'
      BY <1>1, <2>1 DEF Removed
    <2>3. Pending' \subseteq Pending
      <3>1. \A u \in Threads : (Acked(u)' => Acked(u)) /\ (tpc'[u] = "ack" => tpc[u] = "ack")
        BY <1>1 DEF Acked, NoNewAck
      <3> QED
        BY <3>1 DEF Pending
    <2>4. Gone \subseteq Gone'
      <3> SUFFICES ASSUME NEW f \in Gone PROVE f \in Gone'
        OBVIOUS
      <3>1. f \in startDir' \ DOMAIN disk' /\ f \in startDir
        BY <1>1 DEF Gone
      <3>2. CASE \A u \in Deletes(f) : tpc[u] \notin {"remove", "erase"}
        <4>1. \A u \in Deletes(f)' : tpc'[u] \notin {"remove", "erase"}
          BY <1>1, <3>2 DEF Deletes
        <4> QED
          BY <3>1, <4>1 DEF Gone
      <3>3. CASE f \notin DOMAIN files /\ f # tfile[t]
        BY <1>2, <3>1, <3>3 DEF Gone
      <3>4. CASE f \notin DOMAIN files /\ f = tfile[t]
        <4>1. ASSUME NEW u \in Deletes(f), tpc[u] \in {"remove", "erase"} PROVE FALSE
          <5>1. PICK z \in Deletes(f) : tpc[z] \in {"ack", "done"}
            BY <3>1, <3>4 DEF Traces
          <5>2. t \in Deletes(f) /\ t # u /\ t # z /\ u # z
            BY <1>1, <3>4, <4>1, <5>1
          <5>3. IsFiniteSet(Threads)
            BY LoopbackAssumption, FS_Interval DEF Threads
          <5>4. IsFiniteSet(Deletes(f))
            <6>1. Deletes(f) \subseteq Threads
              BY DEF Deletes
            <6> QED
              BY <6>1, <5>3, FS_Subset
          <5>7. 3 <= Cardinality(Deletes(f))
            <6> HIDE DEF Deletes
            <6> QED
              BY <5>1, <5>2, <5>4, ThreeApart
          <5>8. Cardinality(Deletes(f)) <= 2 /\ Cardinality(Deletes(f)) \in Nat
            BY <1>1, <2>1, <3>4, <5>4, FS_CardinalityType DEF Paired
          <5> QED
            BY <5>7, <5>8
        <4> QED
          BY <3>2, <4>1
      <3> QED
        BY <3>2, <3>3, <3>4 DEF Gone
    <2>5. deleted \in Nat /\ startDir \in Directories
      BY DEF TInv, ClientTypes, Traces
    <2> QED
      BY <1>1, <2>1, <2>2, <2>3, <2>4, <2>5, CountedKept
  <1> QED
    BY <1>4, <1>5

LEMMA CountsRemove ==
  ASSUME TInv, TInv', Traces, Paired => Removed /\ Counted,
         NEW t \in Threads, topcode[t] = DELETE, Frame, Deleting(t), Removes(t)
  PROVE  Traces' /\ (Paired' => Removed' /\ Counted')
  <1>1. /\ UNCHANGED <<startDir, deleted, topcode, tfile>>
        /\ Joins /\ \A f : Deletes(f)' = Deletes(f)
        /\ \A u \in Threads : u # t => tpc'[u] = tpc[u]
        /\ t \in Deletes(tfile[t]) /\ tfile[t] \in Names
    BY DeletingFrame
  <1>2. /\ tpc[t] = "remove" /\ tpc'[t] = "erase" /\ UNCHANGED <<files, inbox>>
        /\ DOMAIN disk' = DOMAIN disk \ {tfile[t]}
    BY DEF Removes, Advances, TInv, ThreadTypes
  <1>3. ASSUME NEW z \in Threads, tpc[z] \in {"ack", "done"} PROVE tpc'[z] = tpc[z]
    BY <1>1, <1>2, <1>3
  <1>4. Traces'
    <2>1. \A f : \A z \in Deletes(f) : z \in Threads
      BY DEF Deletes
    <2>2. \A d \in InQueue(inbox'[ClientPort]) : d.pkt.op = ACK =>
             \E z \in Threads : d.src = ThreadPort(z) /\ tpc'[z] = "done"
      BY <1>2, <1>3 DEF Traces
    <2>3. \A f \in startDir' \ DOMAIN files' : \E z \in Deletes(f)' : tpc'[z] \in {"ack", "done"}
      BY <1>1, <1>2, <1>3, <2>1 DEF Traces
    <2>4. ASSUME NEW f \in startDir' \ DOMAIN disk' PROVE Deletes(f)' # {}
      BY <1>1, <1>2 DEF Traces
    <2> QED
      BY <1>1, <1>2, <2>2, <2>3, <2>4 DEF Traces
  <1>5. ASSUME Paired' PROVE Removed' /\ Counted'
    <2>1. Removed /\ Counted /\ Paired
      BY <1>5, <1>1, PairedBefore
    <2>2. Removed'
      <3> SUFFICES ASSUME NEW u \in Threads, topcode[u] = DELETE
                   PROVE  /\ tpc'[u] \in {"erase", "ack"} => tfile[u] \notin DOMAIN disk'
                          /\ tpc'[u] \in {"remove", "erase", "ack"} => tfile[u] \in startDir
        BY <1>1 DEF Removed
      <3>1. CASE u = t
        BY <3>1, <1>2, <2>1 DEF Removed
      <3>2. CASE u # t
        BY <3>2, <1>1, <1>2, <2>1 DEF Removed
      <3> QED
        BY <3>1, <3>2
    <2>3. Pending' \subseteq Pending
      BY <1>1, <1>2 DEF Pending, Acked
    <2>4. Gone \subseteq Gone'
      <3> SUFFICES ASSUME NEW f \in Gone PROVE f \in Gone'
        OBVIOUS
      <3>1. f \in startDir' \ DOMAIN disk'
        BY <1>1, <1>2 DEF Gone
      <3>2. CASE f \notin DOMAIN files
        BY <3>1, <3>2, <1>2 DEF Gone
      <3>3. CASE \A u \in Deletes(f) : tpc[u] \notin {"remove", "erase"}
        <4>1. t \notin Deletes(f)
          BY <3>3, <1>2
        <4>2. \A u \in Deletes(f)' : tpc'[u] \notin {"remove", "erase"}
          BY <1>1, <3>3, <4>1 DEF Deletes
        <4> QED
          BY <3>1, <4>2 DEF Gone
      <3> QED
        BY <3>2, <3>3 DEF Gone
    <2>5. deleted \in Nat /\ startDir \in Directories
      BY DEF TInv, ClientTypes, Traces
    <2> QED
      BY <1>1, <2>1, <2>2, <2>3, <2>4, <2>5, CountedKept
  <1> QED
    BY <1>4, <1>5

\* A confirmation becomes due where a name goes from the map for good.
LEMMA CountsErase ==
  ASSUME TInv, TInv', Traces, Paired => Removed /\ Counted,
         NEW t \in Threads, topcode[t] = DELETE, Frame, Deleting(t), Erases(t)
  PROVE  Traces' /\ (Paired' => Removed' /\ Counted')
  <1>1. /\ UNCHANGED <<startDir, deleted, topcode, tfile>>
        /\ Joins /\ \A f : Deletes(f)' = Deletes(f)
        /\ \A u \in Threads : u # t => tpc'[u] = tpc[u]
        /\ t \in Deletes(tfile[t]) /\ tfile[t] \in Names
    BY DeletingFrame
  <1>2. /\ tpc[t] = "erase" /\ tpc'[t] = "ack" /\ UNCHANGED <<disk, inbox>>
        /\ DOMAIN files' = DOMAIN files \ {tfile[t]} /\ tfile[t] \in DOMAIN files
    BY DEF Erases, Advances, TInv, ThreadTypes
  <1>3. ASSUME NEW z \in Threads, tpc[z] \in {"ack", "done"} PROVE tpc'[z] = tpc[z]
    BY <1>1, <1>2, <1>3
  <1>4. Traces'
    <2>1. \A f : \A z \in Deletes(f) : z \in Threads
      BY DEF Deletes
    <2>2. \A d \in InQueue(inbox'[ClientPort]) : d.pkt.op = ACK =>
             \E z \in Threads : d.src = ThreadPort(z) /\ tpc'[z] = "done"
      BY <1>2, <1>3 DEF Traces
    <2>3. ASSUME NEW f \in startDir' \ DOMAIN files'
          PROVE  \E z \in Deletes(f)' : tpc'[z] \in {"ack", "done"}
      <3>1. CASE f = tfile[t]
        BY <3>1, <1>1, <1>2
      <3>2. CASE f # tfile[t]
        BY <3>2, <1>1, <1>2, <1>3, <2>1 DEF Traces
      <3> QED
        BY <3>1, <3>2
    <2> QED
      BY <1>1, <1>2, <2>2, <2>3 DEF Traces
  <1>5. ASSUME Paired' PROVE Removed' /\ Counted'
    <2>1. Removed /\ Counted /\ Paired
      BY <1>5, <1>1, PairedBefore
    <2>2. Removed'
      <3> SUFFICES ASSUME NEW u \in Threads, topcode[u] = DELETE
                   PROVE  /\ tpc'[u] \in {"erase", "ack"} => tfile[u] \notin DOMAIN disk
                          /\ tpc'[u] \in {"remove", "erase", "ack"} => tfile[u] \in startDir
        BY <1>1, <1>2 DEF Removed
      <3>1. CASE u = t
        BY <3>1, <1>2, <2>1 DEF Removed
      <3>2. CASE u # t
        BY <3>2, <1>1, <1>2, <2>1 DEF Removed
      <3> QED
        BY <3>1, <3>2
    <2>3. Pending' \subseteq Pending \cup {t}
      BY <1>1, <1>2 DEF Pending, Acked
    <2>4. tfile[t] \notin Gone /\ tfile[t] \in Gone'
      <3>1. tfile[t] \in startDir \ DOMAIN disk
        BY <1>2, <2>1 DEF Removed
      <3> QED
        BY <1>1, <1>2, <3>1 DEF Gone
    <2>5. Gone \subseteq Gone'
      <3> SUFFICES ASSUME NEW f \in Gone PROVE f \in Gone'
        OBVIOUS
      <3>1. f \in startDir' \ DOMAIN disk' /\ f # tfile[t]
        BY <1>1, <1>2, <2>4 DEF Gone
      <3>2. CASE f \notin DOMAIN files
        BY <3>1, <3>2, <1>2 DEF Gone
      <3>3. CASE \A u \in Deletes(f) : tpc[u] \notin {"remove", "erase"}
        <4>1. \A u \in Deletes(f)' : tpc'[u] \notin {"remove", "erase"}
          BY <1>1, <1>2, <3>3 DEF Deletes
        <4> QED
          BY <3>1, <4>1 DEF Gone
      <3> QED
        BY <3>2, <3>3 DEF Gone
    <2>6. /\ IsFiniteSet(Pending) /\ Cardinality(Pending) \in Nat
          /\ IsFiniteSet(Gone) /\ Cardinality(Gone) \in Nat
          /\ IsFiniteSet(startDir)
      BY CountsFinite DEF Traces
    <2>7. /\ IsFiniteSet(Pending \cup {t})
          /\ Cardinality(Pending \cup {t}) <= Cardinality(Pending) + 1
          /\ Cardinality(Pending \cup {t}) \in Nat
      <3>1. /\ IsFiniteSet(Pending \cup {t})
            /\ Cardinality(Pending \cup {t})
                 = IF t \in Pending THEN Cardinality(Pending) ELSE Cardinality(Pending) + 1
        BY <2>6, FS_AddElement
      <3> QED
        BY <2>6, <3>1
    <2>8. Cardinality(Pending') <= Cardinality(Pending \cup {t}) /\ Cardinality(Pending') \in Nat
      BY <2>3, <2>7, FS_Subset, FS_CardinalityType
    <2>9. /\ IsFiniteSet(Gone \cup {tfile[t]})
          /\ Cardinality(Gone \cup {tfile[t]}) = Cardinality(Gone) + 1
      BY <2>4, <2>6, FS_AddElement
    <2>10. IsFiniteSet(Gone') /\ Cardinality(Gone') \in Nat
      <3>1. Gone' \subseteq startDir
        BY <1>1 DEF Gone
      <3> QED
        BY <3>1, <2>6, FS_Subset, FS_CardinalityType
    <2>11. Cardinality(Gone) + 1 <= Cardinality(Gone')
      <3>1. Gone \cup {tfile[t]} \subseteq Gone'
        BY <2>4, <2>5
      <3> QED
        BY <3>1, <2>9, <2>10, FS_Subset
    <2>12. deleted \in Nat /\ deleted' = deleted
      BY <1>1 DEF TInv, ClientTypes
    <2>13. Counted'
      BY <2>1, <2>6, <2>7, <2>8, <2>10, <2>11, <2>12 DEF Counted
    <2> QED
      BY <2>2, <2>13
  <1> QED
    BY <1>4, <1>5

LEMMA CountsConfirm ==
  ASSUME TInv, TInv', Traces, Paired => Removed /\ Counted,
         NEW t \in Threads, topcode[t] = DELETE, Frame, Deleting(t), Confirms(t)
  PROVE  Traces' /\ (Paired' => Removed' /\ Counted')
  <1>1. /\ UNCHANGED <<startDir, deleted, topcode, tfile>>
        /\ Joins /\ \A f : Deletes(f)' = Deletes(f)
        /\ \A u \in Threads : u # t => tpc'[u] = tpc[u]
        /\ t \in Deletes(tfile[t]) /\ tfile[t] \in Names
    BY DeletingFrame
  <1>2. tpc[t] = "ack" /\ tpc'[t] = "done" /\ UNCHANGED <<disk, files>>
    BY DEF Confirms, Advances, TInv, ThreadTypes
  <1>3. ASSUME NEW d \in InQueue(inbox'[ClientPort]), d.pkt.op = ACK
        PROVE  d.src = ThreadPort(t) \/ d \in InQueue(inbox[ClientPort])
    BY <1>3 DEF Confirms, Says, AtClient
  <1>4. \A z \in Threads : tpc[z] = "done" => tpc'[z] = "done"
    BY <1>1, <1>2
  <1>5. Traces'
    <2>1. \A f : \A z \in Deletes(f) : z \in Threads
      BY DEF Deletes
    <2>2. \A d \in InQueue(inbox'[ClientPort]) : d.pkt.op = ACK =>
             \E z \in Threads : d.src = ThreadPort(z) /\ tpc'[z] = "done"
      BY <1>2, <1>3, <1>4 DEF Traces
    <2>3. \A z \in Threads : tpc[z] \in {"ack", "done"} => tpc'[z] \in {"ack", "done"}
      BY <1>1, <1>2
    <2>4. \A f \in startDir' \ DOMAIN files' : \E z \in Deletes(f)' : tpc'[z] \in {"ack", "done"}
      BY <1>1, <1>2, <2>1, <2>3 DEF Traces
    <2> QED
      BY <1>1, <1>2, <2>2, <2>4 DEF Traces
  <1>6. ASSUME Paired' PROVE Removed' /\ Counted'
    <2>1. Removed /\ Counted /\ Paired
      BY <1>6, <1>1, PairedBefore
    <2>2. Removed'
      BY <1>1, <1>2, <2>1 DEF Removed
    <2>3. Pending' \subseteq Pending
      <3>1. ASSUME NEW u \in Threads, u # t, Acked(u)' PROVE Acked(u)
        <4>1. ThreadPort(u) # ThreadPort(t)
          BY <3>1, PortFacts
        <4> QED
          BY <3>1, <4>1, <1>3 DEF Acked
      <3>2. t \in Pending
        BY <1>2 DEF Pending
      <3> QED
        BY <3>1, <3>2, <1>1 DEF Pending
    <2>4. Gone \subseteq Gone'
      <3>1. \A f : \A u \in Deletes(f) : tpc[u] \notin {"remove", "erase"} =>
                                         tpc'[u] \notin {"remove", "erase"}
        BY <1>1, <1>2 DEF Deletes
      <3> QED
        BY <1>1, <1>2, <3>1 DEF Gone
    <2>5. deleted \in Nat /\ startDir \in Directories
      BY DEF TInv, ClientTypes, Traces
    <2> QED
      BY <1>1, <2>1, <2>2, <2>3, <2>4, <2>5, CountedKept
  <1> QED
    BY <1>5, <1>6

\* A listing makes ls.txt anew, which nobody was to delete.
LEMMA CountsList ==
  ASSUME TInv, TInv', Traces, Paired => Removed /\ Counted,
         NEW t \in Threads, topcode[t] = LS, Frame, UNCHANGED <<files, up>>, Listing(t)
  PROVE  Traces' /\ (Paired' => Removed' /\ Counted')
  <1>1. UNCHANGED <<startDir, deleted, topcode, tfile>> /\ Joins
    BY DEF Frame, ClientSame, Joins
  <1>2. PICK l \in {"list", "send", "wait", "end", "done"} : tpc' = [tpc EXCEPT ![t] = l]
    BY DEF Listing, Opens, Writes, Sends, Rests, Advances
  <1>3. tpc \in [Threads -> Labels] /\ tpc[t] \notin {"ack", "done"}
    BY DEF Listing, Opens, Writes, Sends, Rests, Advances, TInv, ThreadTypes
  <1>4. ASSUME NEW u \in Threads
        PROVE  /\ tpc[u] \in {"ack", "done"} => tpc'[u] = tpc[u]
               /\ tpc'[u] \in {"remove", "erase", "ack"} => tpc'[u] = tpc[u]
               /\ topcode[u] = DELETE => tpc'[u] = tpc[u]
    BY <1>2, <1>3, Opcodes
  <1>5. NoNewAck
    <2>1. CASE Sends(t)
      <3> DEFINE d == [src |-> ThreadPort(t), pkt |-> createDataPacket(block[t], ListBlock(t))]
      <3>1. AtClient({d}) /\ d.pkt.op = DATA
        <4>1. block[t] \in UInt16 /\ ListBlock(t) \in Seq(Lines)
          BY <2>1 DEF Sends, TInv, ThreadTypes
        <4> QED
          BY <4>1, <2>1, CommandPacketTypes DEF Sends
      <3> HIDE DEF d
      <3> QED
        BY <3>1, QuietAcks, Opcodes
    <2>2. CASE Rests(t)
      BY <2>2, QuietAcks DEF Rests
    <2>3. CASE inbox' = inbox
      BY <2>3 DEF NoNewAck
    <2> QED
      BY <2>1, <2>2, <2>3 DEF Listing, Opens, Writes
  <1>6. CASE DOMAIN disk' = DOMAIN disk
    BY <1>1, <1>4, <1>5, <1>6, CountsStay
  <1>7. CASE DOMAIN disk' # DOMAIN disk
    <2>1. DOMAIN disk' = DOMAIN disk \cup {ListFile} /\ ListFile \notin DOMAIN disk
      BY <1>7 DEF Listing, Opens, Writes, Sends, Rests, withList
    <2>2. \A f : Deletes(f)' = Deletes(f)
      BY <1>1 DEF Deletes
    <2>3. Traces'
      <3>1. \A f : \A z \in Deletes(f) : z \in Threads
        BY DEF Deletes
      <3>2. \A d \in InQueue(inbox'[ClientPort]) : d.pkt.op = ACK =>
               \E z \in Threads : d.src = ThreadPort(z) /\ tpc'[z] = "done"
        BY <1>4, <1>5 DEF Traces, NoNewAck
      <3>3. \A f \in startDir' \ DOMAIN files' : \E z \in Deletes(f)' : tpc'[z] \in {"ack", "done"}
        BY <1>1, <1>4, <2>2, <3>1 DEF Traces
      <3> QED
        BY <1>1, <2>1, <2>2, <3>2, <3>3 DEF Traces
    <2>4. ASSUME Paired' PROVE Removed' /\ Counted'
      <3>1. Removed /\ Counted /\ Paired
        BY <2>4, <1>1, PairedBefore
      <3>2. Deletes(ListFile) = {}
        BY <3>1 DEF Paired
      <3>3. Removed'
        <4> SUFFICES ASSUME NEW u \in Threads, topcode[u] = DELETE
                     PROVE  /\ tpc'[u] \in {"erase", "ack"} => tfile[u] \notin DOMAIN disk'
                            /\ tpc'[u] \in {"remove", "erase", "ack"} => tfile[u] \in startDir
          BY <1>1 DEF Removed
        <4>1. tfile[u] # ListFile
          BY <3>2 DEF Deletes
        <4> QED
          BY <4>1, <1>4, <2>1, <3>1 DEF Removed
      <3>4. Pending' \subseteq Pending
        <4>1. \A u \in Threads : (Acked(u)' => Acked(u)) /\ (tpc'[u] = "ack" => tpc[u] = "ack")
          BY <1>4, <1>5 DEF Acked, NoNewAck
        <4> QED
          BY <4>1 DEF Pending
      <3>5. Gone \subseteq Gone'
        <4>1. ListFile \notin Gone
          BY <3>2 DEF Gone, Traces
        <4>2. \A f : \A u \in Deletes(f) : tpc'[u] = tpc[u]
          BY <1>4 DEF Deletes
        <4> QED
          BY <1>1, <2>1, <2>2, <4>1, <4>2 DEF Gone
      <3>6. deleted \in Nat /\ startDir \in Directories
        BY DEF TInv, ClientTypes, Traces
      <3> QED
        BY <1>1, <3>1, <3>3, <3>4, <3>5, <3>6, CountedKept
    <2> QED
      BY <2>3, <2>4
  <1> QED
    BY <1>6, <1>7

LEMMA StepCounts ==
  ASSUME TInv, TInv', Traces, Paired => Removed /\ Counted, [Next]_<<vars, cmdVars>>
  PROVE  Traces' /\ (Paired' => Removed' /\ Counted')
  <1>0. tpc \in [Threads -> Labels]
    BY DEF TInv, ThreadTypes
  \* Steps at which no thread moves.
  <1>1. ASSUME UNCHANGED <<startDir, deleted, tpc, topcode, tfile>>, DOMAIN files' = DOMAIN files,
               DOMAIN disk' = DOMAIN disk, NoNewAck
        PROVE  Traces' /\ (Paired' => Removed' /\ Counted')
    BY <1>1, CountsStay DEF Joins
  <1>2. CASE CommandStart
    <2>1. AtClient({}) /\ ServerSame /\ deleted' = deleted
      <3>1. ASSUME NEW f \in Deletable, StartDelete(f)
            PROVE  AtClient({}) /\ ServerSame /\ deleted' = deleted
        BY <3>1, StartQueues DEF StartDelete, StartClient, ServerSame
      <3>2. ASSUME StartList PROVE AtClient({}) /\ ServerSame /\ deleted' = deleted
        BY <3>2, StartQueues DEF StartList, StartClient, ServerSame
      <3>3. ASSUME StartListFails PROVE AtClient({}) /\ ServerSame /\ deleted' = deleted
        BY <3>3, StartQueues DEF StartListFails, ServerSame
      <3> QED
        BY <1>2, <3>1, <3>2, <3>3 DEF CommandStart
    <2> QED
      BY <2>1, <1>1, QuietAcks DEF ServerSame, threadVars, serverVars
  <1>3. CASE CommandClientStep
    <2>1. AtClient({}) /\ ServerSame
      BY <1>3, ClientQueues
    <2>2. CASE DeleteAnswered /\ Deleted
      BY <2>2, CountsAnswered
    <2>3. CASE ~(DeleteAnswered /\ Deleted)
      <3>1. deleted' = deleted
        BY <1>3, <2>3
        DEF CommandClientStep, DeleteAnswered, ListRefused, ListIgnored, ListStored, ListStoreFails,
            CommandTimeout, cmdVars
      <3> QED
        BY <2>1, <3>1, <1>1, QuietAcks DEF ServerSame, threadVars, serverVars
    <2> QED
      BY <2>2, <2>3
  <1>4. CASE CommandListenerStep
    <2>1. ASSUME Declines PROVE Traces' /\ (Paired' => Removed' /\ Counted')
      <3>1. PICK d \in CommandDatagrams : d.pkt.op = ERROR /\ AtClient({d})
        BY <2>1 DEF Declines
      <3>2. NoNewAck
        BY <3>1, QuietAcks, Opcodes
      <3> QED
        BY <2>1, <3>2, <1>1 DEF Declines, ServerSame, threadVars, serverVars
    <2>2. ASSUME NEW name \in Names \cup {NoName}, Accepts(name)
          PROVE  Traces' /\ (Paired' => Removed' /\ Counted')
      <3>1. ASSUME NEW u \in Threads
            PROVE  IF u = nextId THEN tpc'[u] = "bind" /\ tpc[u] = "free" /\ topcode[u] = 0
                   ELSE tpc'[u] = tpc[u] /\ topcode'[u] = topcode[u] /\ tfile'[u] = tfile[u]
        <4>1. u = nextId => tpc[u] = "free" /\ topcode[u] = 0
          BY DEF TInv, ThreadTypes
        <4> QED
          BY <4>1, <2>2 DEF Accepts, TInv, ThreadTypes
      <3>2. Joins
        BY <3>1, Opcodes DEF Joins
      <3>3. NoNewAck
        BY <2>2, KeepsQuiet, QuietAcks DEF Accepts
      <3>4. \A u \in Threads :
               /\ tpc[u] \in {"ack", "done"} => tpc'[u] = tpc[u]
               /\ tpc'[u] \in {"remove", "erase", "ack"} => tpc'[u] = tpc[u] /\ topcode[u] = topcode'[u]
        BY <3>1
      <3> QED
        BY <2>2, <3>2, <3>3, <3>4, CountsStay DEF Accepts
    <2> QED
      BY <1>4, <2>1, <2>2, ListenerSteps
  <1>5. ASSUME NEW t \in Threads, CommandThreadStep(t)
        PROVE  Traces' /\ (Paired' => Removed' /\ Counted')
    <2>1. CASE Bind(t) /\ UNCHANGED cmdVars
      <3>1. Frame /\ Enters(t)
        BY <2>1, BindSteps
      <3>2. /\ UNCHANGED <<startDir, deleted, topcode, tfile, files, disk>> /\ Joins /\ NoNewAck
        BY <3>1 DEF Frame, ClientSame, Enters, Joins, NoNewAck
      <3>3. \A u \in Threads :
               /\ tpc[u] \in {"ack", "done"} => tpc'[u] = tpc[u]
               /\ tpc'[u] \in {"remove", "erase", "ack"} => tpc'[u] = tpc[u] /\ topcode[u] = topcode'[u]
        BY <1>0, <3>1, <3>2 DEF Enters, Advances
      <3> QED
        BY <3>2, <3>3, CountsStay
    <2>2. CASE DeleteStep(t) /\ UNCHANGED cmdVars
      <3>1. topcode[t] = DELETE /\ Frame /\ Deleting(t)
        BY <2>2, DeleteSteps
      <3>2. /\ UNCHANGED <<startDir, deleted, topcode, tfile>> /\ Joins
            /\ \A u \in Threads : u # t => tpc'[u] = tpc[u]
            /\ Confirms(t) \/ NoNewAck
        BY <3>1, DeletingFrame
      <3>3. CASE Looks(t)
        BY <3>1, <3>3, CountsLook
      <3>4. CASE Removes(t)
        BY <3>1, <3>4, CountsRemove
      <3>5. CASE Erases(t)
        BY <3>1, <3>5, CountsErase
      <3>6. CASE Confirms(t)
        BY <3>1, <3>6, CountsConfirm
      <3>7. CASE Counts(t)
        <4>1. tpc[t] = "count" /\ tpc'[t] = "exists" /\ disk' = disk /\ ~Confirms(t)
          BY <1>0, <3>7 DEF Counts, Advances, Confirms
        <4> QED
          BY <3>1, <3>2, <3>7, <4>1, CountsInsert DEF Counts
      <3>8. CASE Refuses(t)
        <4>1. tpc'[t] = "done" /\ tpc[t] \notin {"ack", "done"} /\ disk' = disk /\ ~Confirms(t)
          BY <1>0, <3>8 DEF Refuses, Advances, Confirms
        <4>2. CASE files' = files
          BY <3>2, <4>1, <4>2, CountsStay
        <4>3. CASE files' = mapInsert(files, tfile[t], 0) /\ tpc[t] = "count"
          BY <3>1, <3>2, <4>1, <4>3, CountsInsert
        <4> QED
          BY <3>8, <4>2, <4>3 DEF Refuses
      <3>9. CASE Aborts(t)
        <4>1. UNCHANGED <<tpc, files, disk>> /\ NoNewAck
          BY <3>9, QuietAcks DEF Aborts
        <4> QED
          BY <3>2, <4>1, <1>1
      <3> QED
        BY <3>1, <3>3, <3>4, <3>5, <3>6, <3>7, <3>8, <3>9 DEF Deleting
    <2>3. CASE ListStep(t)
      BY <2>3, ListSteps, CountsList
    <2> QED
      BY <1>5, <2>1, <2>2, <2>3 DEF CommandThreadStep
  <1>6. CASE ReaderChanges
    <2>1. UNCHANGED <<startDir, deleted, tpc, topcode, tfile, disk, inbox>> /\ DOMAIN files' = DOMAIN files
      BY <1>6 DEF ReaderChanges, cmdVars, netVars, threadVars
    <2>2. NoNewAck
      BY <2>1 DEF NoNewAck
    <2> QED
      BY <2>1, <2>2, <1>1
  <1>7. CASE Lose /\ UNCHANGED cmdVars
    <2>1. ClientSame /\ ServerSame /\ AtClient({})
      BY <1>7, LoseFacts, KeepsQuiet
    <2> QED
      BY <2>1, <1>1, QuietAcks DEF ClientSame, ServerSame, threadVars, serverVars
  <1>8. CASE UNCHANGED <<vars, cmdVars>>
    <2>1. UNCHANGED <<startDir, deleted, tpc, topcode, tfile, disk, inbox, files>>
      BY <1>8 DEF vars, cmdVars, threadVars, serverVars, netVars
    <2>2. NoNewAck
      BY <2>1 DEF NoNewAck
    <2> QED
      BY <2>1, <2>2, <1>1
  <1> QED
    BY <1>2, <1>3, <1>4, <1>5, <1>6, <1>7, <1>8 DEF Next

AInv == requests = 1 /\ cop = DELETE => Alone

\* Steps that erase nothing and confirm nothing.
LEMMA AloneStays ==
  ASSUME TInv, TInv', Alone, UNCHANGED <<cfile, nextId, topcode, tfile>>, ServerQuiet, NoNewAck,
         cpc' = "ok" => Told,
         Told => DOMAIN files' \subseteq DOMAIN files /\ DOMAIN disk' \subseteq DOMAIN disk,
         tpc'[1] = "erase" => cfile \notin DOMAIN disk',
         \A t \in Threads : \/ tpc'[t] = tpc[t]
                            \/ tpc[t] \notin {"free", "ack", "done"} /\ tpc'[t] \notin {"free", "ack"}
  PROVE  Alone'
  <1>1. 1 \in Threads
    BY LoopbackAssumption DEF Threads
  <1>2. \A d \in InQueue(inbox'[ServerPort]) : d.pkt = createDeletePacket(cfile')
    BY DEF Alone, ServerQuiet
  <1>3. Len(inbox'[ServerPort]) + nextId' <= 2
    <2>1. /\ Len(inbox[ServerPort]) \in Nat /\ Len(inbox'[ServerPort]) \in Nat /\ nextId \in Nat
      BY PortFacts DEF TInv, QueueTypes, Fits, ThreadTypes
    <2> QED
      BY <2>1 DEF Alone, ServerQuiet
  <1>4. \A t \in Threads : tpc'[t] # "free" => t = 1 /\ topcode'[t] = DELETE /\ tfile'[t] = cfile'
    BY DEF Alone
  <1>5. Told' => Told
    BY <1>1 DEF Told, NoNewAck
  <1>6. Told => tpc'[1] \in {"ack", "done"} /\ cfile' \notin DOMAIN disk' \cup DOMAIN files'
    BY <1>1 DEF Alone
  <1> QED
    BY <1>2, <1>3, <1>4, <1>5, <1>6 DEF Alone

LEMMA StepAlone ==
  ASSUME TInv, TInv', AInv, [Next]_<<vars, cmdVars>>
  PROVE  AInv'
  <1> SUFFICES ASSUME requests' = 1, cop' = DELETE PROVE Alone'
    BY DEF AInv
  <1>0. 1 \in Threads /\ tpc \in [Threads -> Labels] /\ nextId \in Nat
    BY LoopbackAssumption DEF TInv, ThreadTypes, Threads
  <1>1. CASE CommandStart
    <2>1. requests = 0
      <3>1. requests' = requests + 1 /\ requests \in Nat
        BY <1>1, Requested DEF CommandStart, StartDelete, StartList, StartListFails, StartClient
      <3> QED
        BY <3>1
    <2>2. PICK f \in Deletable : StartDelete(f)
      BY <1>1, Opcodes DEF CommandStart, StartList, StartListFails
    <2>3. /\ AtClient({})
          /\ Adds(inbox, inbox', ServerPort, [src |-> ClientPort, pkt |-> createDeletePacket(f)])
      BY <2>2, StartQueues
    <2>4. nextId = 1 /\ inbox[ServerPort] = <<>> /\ inbox[ClientPort] = <<>>
      BY <2>1, PortFacts DEF TInv, QueueTypes
    <2>5. /\ nextId' = nextId /\ tpc' = tpc /\ cfile' = f /\ cpc' = "run"
      BY <2>2 DEF StartDelete, StartClient, threadVars, serverVars
    <2>6. InQueue(<<>>) = {} /\ Len(<<>>) = 0
      BY DEF InQueue
    <2>7. \A d \in InQueue(inbox'[ServerPort]) : d.pkt = createDeletePacket(cfile')
      BY <2>3, <2>4, <2>5, <2>6, PortFacts DEF Adds
    <2>8. Len(inbox'[ServerPort]) + nextId' <= 2
      <3>1. Len(inbox'[ServerPort]) <= 1 /\ Len(inbox'[ServerPort]) \in Nat
        BY <2>3, <2>4, <2>6, PortFacts DEF Adds, Fits
      <3> QED
        BY <3>1, <2>4, <2>5
    <2>9. \A t \in Threads : tpc'[t] = "free"
      <3>1. \A t \in Threads : t >= 1
        BY DEF Threads
      <3> QED
        BY <3>1, <2>4, <2>5 DEF TInv, ThreadTypes
    <2>10. InQueue(inbox'[ClientPort]) = {}
      BY <2>3, <2>4, <2>6 DEF AtClient
    <2> QED
      BY <1>0, <2>5, <2>7, <2>8, <2>9, <2>10 DEF Alone, Told
  \* No other step issues a request or changes what the client was started for.
  <1>2. ASSUME UNCHANGED <<requests, cop>> PROVE Alone
    BY <1>2 DEF AInv
  <1>3. CASE CommandClientStep
    <2>1. /\ AtClient({}) /\ ServerQuiet /\ ServerSame /\ UNCHANGED <<requests, cop, cfile>>
      BY <1>3, ClientQueues
    <2>2. Alone
      BY <2>1, <1>2
    <2>3. cpc' = "ok" => Told
      <3> SUFFICES ASSUME cpc' = "ok" PROVE Told
        OBVIOUS
      <3>1. DeleteAnswered \/ CommandTimeout
        BY <1>3, <2>1, Opcodes
        DEF CommandClientStep, ListRefused, ListIgnored, ListStored, ListStoreFails
      <3>2. CASE CommandTimeout
        BY <3>2 DEF CommandTimeout, ClientTimeout, ClientReturns, Told
      <3>3. CASE DeleteAnswered
        <4>1. ClientReceives /\ ClientPacket.op = ACK
          BY <3>3 DEF DeleteAnswered, Deleted, ClientReturns
        <4>2. Received(ClientPort) \in InQueue(inbox[ClientPort])
          BY <4>1, ClientReceived DEF TInv, QueueTypes
        <4> QED
          BY <4>1, <4>2 DEF Told, ClientPacket
      <3> QED
        BY <3>1, <3>2, <3>3
    <2>4. UNCHANGED <<nextId, topcode, tfile, tpc, files, disk>>
      BY <2>1 DEF ServerSame, threadVars, serverVars
    <2>5. tpc'[1] = "erase" => cfile \notin DOMAIN disk'
      BY <2>2, <2>4 DEF Alone
    <2>6. NoNewAck
      BY <2>1, QuietAcks
    <2> QED
      BY <2>1, <2>2, <2>3, <2>4, <2>5, <2>6, AloneStays
  <1>4. CASE CommandListenerStep
    <2>1. Received(ServerPort) \in InQueue(inbox[ServerPort]) /\ UNCHANGED <<requests, cop, cfile, cpc>>
      BY <1>4, ListenerSteps DEF Accepts, Declines, clientVars
    <2>2. Alone /\ ListenerPacket = createDeletePacket(cfile)
      BY <2>1, <1>2 DEF Alone, ListenerPacket
    <2>3. ListenerPacket.op = DELETE /\ ListenerPacket.data = <<cfile, Octet>>
      BY <2>2, WireRoundTrip, U16Type
      DEF createDeletePacket, createRequestPacket, Wire
    <2>4. PICK name \in Names \cup {NoName} : Accepts(name)
      BY <1>4, <2>3, ListenerSteps DEF Declines
    <2>5. name = cfile
      BY <2>3, <2>4, Opcodes DEF Accepts
    <2>6. /\ Len(inbox[ServerPort]) \in Nat /\ Len(inbox'[ServerPort]) \in Nat
          /\ Len(inbox'[ServerPort]) + 1 = Len(inbox[ServerPort])
          /\ nextId' = nextId + 1 /\ nextId # 0
      BY <2>4, PortFacts DEF Accepts, TInv, QueueTypes, Fits, ThreadTypes
    <2>7. Len(inbox[ServerPort]) + nextId <= 2
      BY <2>2 DEF Alone
    <2>8. nextId = 1 /\ Len(inbox'[ServerPort]) + nextId' <= 2
      <3>1. \A a, b, n, m \in Nat : b + 1 = a /\ m = n + 1 /\ n # 0 /\ a + n <= 2
                                      => n = 1 /\ b + m <= 2
        OBVIOUS
      <3>2. nextId' \in Nat
        BY <2>6, <1>0
      <3> QED
        BY <3>1, <3>2, <2>6, <2>7, <1>0
    <2>9. ASSUME NEW t \in Threads
          PROVE  IF t = 1 THEN tpc[t] = "free" /\ tpc'[t] = "bind" /\ topcode'[t] = DELETE /\ tfile'[t] = cfile
                 ELSE tpc[t] = "free" /\ tpc'[t] = "free"
      <3>1. tpc[t] = "free"
        BY <2>8 DEF TInv, ThreadTypes, Threads
      <3>2. t # 1 => tpc'[t] = tpc[t]
        BY <2>4, <2>8, <1>0 DEF Accepts
      <3>3. t = 1 => tpc'[t] = "bind" /\ topcode'[t] = DELETE /\ tfile'[t] = cfile
        BY <2>3, <2>4, <2>5, <2>8 DEF Accepts, TInv, ThreadTypes
      <3> QED
        BY <3>1, <3>2, <3>3
    <2>10. Keeps(inbox, inbox') /\ AtClient({}) /\ ServerQuiet
      BY <2>4, KeepsQuiet DEF Accepts
    <2>11. NoNewAck
      BY <2>10, QuietAcks
    <2>12. ~Told
      BY <1>0, <2>2, <2>9 DEF Alone
    <2>13. ~Told'
      BY <1>0, <2>1, <2>9, <2>11, <2>12 DEF Told, NoNewAck
    <2>14. \A d \in InQueue(inbox'[ServerPort]) : d.pkt = createDeletePacket(cfile')
      BY <2>1, <2>2, <2>10 DEF Alone, ServerQuiet
    <2>15. \A t \in Threads : tpc'[t] # "free" => t = 1 /\ topcode'[t] = DELETE /\ tfile'[t] = cfile'
      BY <2>1, <2>9
    <2>16. tpc'[1] # "erase"
      BY <1>0, <2>9
    <2> QED
      BY <2>8, <2>13, <2>14, <2>15, <2>16 DEF Alone
  <1>5. ASSUME NEW t \in Threads, CommandThreadStep(t) PROVE Alone'
    <2>1. CASE Bind(t) /\ UNCHANGED cmdVars
      <3>1. Frame /\ Enters(t)
        BY <2>1, BindSteps
      <3>2. UNCHANGED <<requests, cop, cfile, cpc, nextId, topcode, tfile, files, disk, inbox>>
        BY <3>1 DEF Frame, ClientSame, Enters, clientVars
      <3>3. Alone
        BY <3>2, <1>2
      <3>4. \A u \in Threads : \/ tpc'[u] = tpc[u]
                               \/ tpc[u] = "bind" /\ tpc'[u] = "start"
        BY <1>0, <3>1 DEF Enters, Advances
      <3>5. NoNewAck /\ ServerQuiet
        <4>1. Len(inbox[ServerPort]) \in Nat
          BY PortFacts DEF TInv, QueueTypes, Fits
        <4> QED
          BY <3>2, <4>1 DEF NoNewAck, ServerQuiet
      <3>6. tpc'[1] = "erase" => cfile \notin DOMAIN disk'
        BY <1>0, <3>2, <3>3, <3>4 DEF Alone
      <3>7. cpc' = "ok" => Told
        BY <3>2 DEF Told
      <3>8. \A u \in Threads :
               \/ tpc'[u] = tpc[u]
               \/ tpc[u] \notin {"free", "ack", "done"} /\ tpc'[u] \notin {"free", "ack"}
        BY <3>4
      <3> QED
        BY <3>2, <3>3, <3>5, <3>6, <3>7, <3>8, AloneStays
    <2>2. CASE DeleteStep(t) /\ UNCHANGED cmdVars
      <3>1. topcode[t] = DELETE /\ Frame /\ Deleting(t)
        BY <2>2, DeleteSteps
      <3>2. /\ UNCHANGED <<cpc, cop, cfile, requests, nextId, topcode, tfile>>
            /\ \A u \in Threads : u # t => tpc'[u] = tpc[u]
            /\ Confirms(t) \/ NoNewAck
            /\ ServerQuiet
        BY <3>1, DeletingFrame
      <3>3. Alone
        BY <3>2, <1>2
      <3>4. t = 1 /\ tfile[t] = cfile
        <4>1. tpc[t] # "free"
          BY <3>1, Opcodes DEF TInv, ThreadTypes
        <4> QED
          BY <4>1, <3>3 DEF Alone
      <3>5. cpc' = "ok" => Told
        BY <3>2 DEF Told
      <3>6. CASE Looks(t) \/ Counts(t) \/ Refuses(t) \/ Removes(t) \/ Aborts(t)
        <4>1. \/ tpc'[t] = tpc[t]
              \/ tpc[t] \notin {"free", "ack", "done"} /\ tpc'[t] \notin {"free", "ack"}
          BY <1>0, <3>6 DEF Looks, Counts, Refuses, Removes, Aborts, Advances
        <4>2. ~Told
          <5>1. tpc[t] \notin {"ack", "done"}
            BY <3>6 DEF Looks, Counts, Refuses, Removes, Aborts, Advances
          <5> QED
            BY <5>1, <3>3, <3>4 DEF Alone
        <4>3. NoNewAck
          <5>1. ~Confirms(t)
            BY <3>6 DEF Looks, Counts, Refuses, Removes, Aborts, Advances, Confirms
          <5> QED
            BY <5>1, <3>2
        <4>4. tpc'[1] = "erase" => cfile \notin DOMAIN disk'
          <5>1. CASE Removes(t)
            BY <5>1, <3>4 DEF Removes
          <5>2. CASE Aborts(t)
            BY <5>2, <3>3, <3>4 DEF Aborts, Alone
          <5>3. CASE Looks(t) \/ Counts(t) \/ Refuses(t)
            BY <5>3, <3>4, <1>0 DEF Looks, Counts, Refuses, Advances
          <5> QED
            BY <3>6, <5>1, <5>2, <5>3
        <4>5. \A u \in Threads :
                 \/ tpc'[u] = tpc[u]
                 \/ tpc[u] \notin {"free", "ack", "done"} /\ tpc'[u] \notin {"free", "ack"}
          BY <4>1, <3>2
        <4> QED
          BY <3>2, <3>3, <3>5, <4>2, <4>3, <4>4, <4>5, AloneStays
      <3> DEFINE Rest == /\ \A d \in InQueue(inbox'[ServerPort]) : d.pkt = createDeletePacket(cfile')
                         /\ Len(inbox'[ServerPort]) + nextId' <= 2
                         /\ \A u \in Threads : tpc'[u] # "free" =>
                               u = 1 /\ topcode'[u] = DELETE /\ tfile'[u] = cfile'
      <3>7. Rest
        <4>1. Len(inbox[ServerPort]) \in Nat /\ Len(inbox'[ServerPort]) \in Nat
          BY PortFacts DEF TInv, QueueTypes, Fits
        <4>2. Len(inbox'[ServerPort]) + nextId' <= 2
          BY <4>1, <3>2, <3>3, <1>0 DEF Alone, ServerQuiet
        <4> QED
          BY <4>2, <3>1, <3>2, <3>3, <3>4 DEF Alone, ServerQuiet
      <3> HIDE DEF Rest
      <3>8. CASE Erases(t)
        <4>1. /\ tpc[t] = "erase" /\ tpc'[t] = "ack" /\ disk' = disk
              /\ DOMAIN files' = DOMAIN files \ {cfile}
          BY <1>0, <3>4, <3>8 DEF Erases, Advances
        <4>2. cfile \notin DOMAIN disk
          BY <3>3, <3>4, <4>1 DEF Alone
        <4> QED
          BY <3>2, <3>4, <3>7, <4>1, <4>2 DEF Alone, Rest
      <3>9. CASE Confirms(t)
        <4>1. tpc[t] = "ack" /\ tpc'[t] = "done" /\ UNCHANGED <<disk, files>>
          BY <1>0, <3>9 DEF Confirms, Advances
        <4>2. cfile \notin DOMAIN disk \cup DOMAIN files
          BY <3>3, <3>4, <4>1 DEF Alone, Told
        <4> QED
          BY <3>2, <3>4, <3>7, <4>1, <4>2 DEF Alone, Rest
      <3> QED
        BY <3>1, <3>6, <3>8, <3>9 DEF Deleting
    <2>3. CASE ListStep(t)
      <3>1. topcode[t] = LS /\ Frame
        BY <2>3, ListSteps
      <3>2. Alone
        BY <3>1, <1>2 DEF Frame, ClientSame
      <3>3. tpc[t] # "free"
        BY <3>1, Opcodes DEF TInv, ThreadTypes
      <3> QED
        BY <3>1, <3>2, <3>3, Opcodes DEF Alone
    <2> QED
      BY <1>5, <2>1, <2>2, <2>3 DEF CommandThreadStep
  \* Steps that leave threads, client and names as they are.
  <1>6. ASSUME UNCHANGED <<requests, cop, cfile, cpc, nextId, topcode, tfile, tpc, disk>>,
               DOMAIN files' = DOMAIN files, Keeps(inbox, inbox')
        PROVE  Alone'
    <2>1. Alone /\ AtClient({}) /\ ServerQuiet /\ NoNewAck
      BY <1>6, <1>2, KeepsQuiet, QuietAcks
    <2>2. cpc' = "ok" => Told
      BY <1>6 DEF Told
    <2>3. tpc'[1] = "erase" => cfile \notin DOMAIN disk'
      BY <1>6, <2>1 DEF Alone
    <2> QED
      BY <1>6, <2>1, <2>2, <2>3, AloneStays
  <1>7. Keeps(inbox, inbox)
    BY KeepsSelf DEF TInv, QueueTypes
  <1>8. CASE ReaderChanges
    <2>1. /\ UNCHANGED <<requests, cop, cfile, cpc, nextId, topcode, tfile, tpc, disk, inbox>>
          /\ DOMAIN files' = DOMAIN files
      BY <1>8 DEF ReaderChanges, cmdVars, netVars, threadVars, clientVars
    <2> QED
      BY <2>1, <1>6, <1>7
  <1>9. CASE Lose /\ UNCHANGED cmdVars
    <2>1. ClientSame /\ ServerSame /\ Keeps(inbox, inbox')
      BY <1>9, LoseFacts
    <2> QED
      BY <2>1, <1>6 DEF ClientSame, ServerSame, clientVars, threadVars, serverVars
  <1>10. CASE UNCHANGED <<vars, cmdVars>>
    <2>1. UNCHANGED <<requests, cop, cfile, cpc, nextId, topcode, tfile, tpc, disk, files, inbox>>
      BY <1>10 DEF vars, cmdVars, threadVars, serverVars, netVars, clientVars
    <2> QED
      BY <2>1, <1>6, <1>7
  <1> QED
    BY <1>1, <1>3, <1>4, <1>5, <1>8, <1>9, <1>10 DEF Next

LEMMA InitCounts == CommandInit => DInv
  <1> SUFFICES ASSUME CommandInit PROVE DInv
    OBVIOUS
  <1>1. /\ startDir \in Directories /\ DOMAIN disk = startDir /\ DOMAIN files = startDir
        /\ deleted = 0 /\ cop = 0 /\ \A t \in Threads : tpc[t] = "free" /\ topcode[t] = 0
    BY DEF CommandInit, InitWith, initializeFileMap
  <1>2. inbox[ClientPort] = <<>> /\ InQueue(<<>>) = {}
    BY PortFacts DEF CommandInit, InitWith, NetInit, InQueue
  <1>3. Traces
    BY <1>1, <1>2 DEF Traces
  <1>4. Removed
    BY <1>1, Opcodes DEF Removed
  <1>5. Counted
    <2>1. Pending = {}
      BY <1>1, <1>2 DEF Pending, Acked
    <2>2. Gone = {}
      BY <1>1 DEF Gone
    <2> QED
      BY <1>1, <2>1, <2>2, FS_EmptySet DEF Counted
  <1> QED
    BY <1>1, <1>3, <1>4, <1>5, Opcodes DEF DInv

LEMMA StepDeletes == TInv /\ TInv' /\ DInv /\ [Next]_<<vars, cmdVars>> => DInv'
  <1> SUFFICES ASSUME TInv, TInv', DInv, [Next]_<<vars, cmdVars>> PROVE DInv'
    OBVIOUS
  <1>1. Traces' /\ (Paired' => Removed' /\ Counted')
    BY StepCounts DEF DInv
  <1>2. AInv'
    BY StepAlone DEF DInv, AInv
  <1> QED
    BY <1>1, <1>2 DEF DInv, AInv

LEMMA DInvReported == ASSUME TInv, DInv PROVE ReportedOnce
  <1>1. ASSUME Paired PROVE deleted <= Cardinality(startDir \ DOMAIN disk)
    <2>1. Counted /\ startDir \in Directories
      BY <1>1 DEF DInv, Traces
    <2>2. /\ Cardinality(Pending) \in Nat /\ Cardinality(Gone) \in Nat /\ IsFiniteSet(startDir)
      BY <2>1, CountsFinite
    <2>3. /\ IsFiniteSet(startDir \ DOMAIN disk)
          /\ Cardinality(startDir \ DOMAIN disk) \in Nat
      BY <2>2, FS_Subset, FS_CardinalityType
    <2>4. Cardinality(Gone) <= Cardinality(startDir \ DOMAIN disk)
      <3>1. Gone \subseteq startDir \ DOMAIN disk
        BY DEF Gone
      <3> QED
        BY <3>1, <2>3, FS_Subset
    <2>5. deleted \in Nat
      BY DEF TInv, ClientTypes
    <2> QED
      BY <2>1, <2>2, <2>3, <2>4, <2>5 DEF Counted
  <1>2. ASSUME requests = 1, cpc = "ok", cop = DELETE
        PROVE  cfile \notin DOMAIN disk \cup DOMAIN files
    BY <1>2 DEF DInv, Alone, Told
  <1> QED
    BY <1>1, <1>2 DEF ReportedOnce, Paired

\* No deletion is confirmed twice: while at most two threads delete one name,
\* and none ls.txt, the clients that were told of a success are no more than the
\* files that are gone, whatever the threads' interleaving on the map and
\* whatever answers are lost; and the file of a first client that was told is
\* gone from directory and map.
THEOREM ConfirmedOnce == Spec => []ReportedOnce
  <1>1. TInv /\ DInv /\ [Next]_<<vars, cmdVars>> => (TInv /\ DInv)'
    BY StepTypes, StepDeletes
  <1>2. TInv /\ DInv => ReportedOnce
    BY DInvReported
  <1> QED
    BY InitTypes, InitCounts, <1>1, <1>2, PTL DEF Spec
=============================================================================
