------------------------------ MODULE Sessions ------------------------------
(***************************************************************************)
(* What every transfer shares: the client process (one at a time, because  *)
(* every client binds port 9799 and a second one exits), the listener of   *)
(* TFTPServer::start, the frame of a server thread (handleClientThread)    *)
(* and the `files' map with its reader counts.  The modules that extend    *)
(* this one add the handlers of one kind of request on both sides.         *)
(***************************************************************************)
EXTENDS Loopback, FilesMap

CONSTANTS Byte,         \* the abstract bytes files are made of
          Names,        \* file names
          Database,     \* serverDatabase/ when the server starts: name -> bytes
          MaxRetry,     \* MAX_RETRY
          GarbagePorts, \* what the uninitialised TFTPClient::clientAddress
                        \* may point at: 0 for no reachable address
          Prompt        \* TRUE: a 5 s timeout fires only where the other
                        \* side has had its turn

ASSUME SessionsAssumption ==
    /\ DOMAIN Database \subseteq Names
    /\ Database \in [DOMAIN Database -> Seq(Byte)]
    /\ MaxRetry \in Nat \ {0}
    /\ GarbagePorts \subseteq Nat /\ GarbagePorts # {}
    /\ ClientPort \notin GarbagePorts
    /\ Prompt \in BOOLEAN

VARIABLES
    \* the client process
    cpc,        \* "idle" before the first, "run", then "ok" or "fail"
    cfile,      \* the name it asked for
    cport,      \* serverAddress.sin_port once pinned, 0 while initialPacket
    ackTo,      \* the port in the uninitialised member clientAddress
    expected,   \* expectedBlockNumber
    cretry,     \* retry
    out,        \* bytes written to the local file
    \* the server's threads, one per request the listener accepted
    tpc,        \* where the thread is
    tfile,      \* filename
    block,      \* blockNumber / expectedBlockNumber of the handler
    tretry,     \* retry
    treaders,   \* the local `readers' of handleReadRequest
    \* the server's shared state
    files,      \* std::map<std::string,int> files: name -> active readers
    disk,       \* contents of serverDatabase/, by name
    nextId,     \* nextClientId
    up,         \* the server process is alive
    \* the user
    requests    \* requests issued so far

clientVars == <<cpc, cfile, cport, ackTo, expected, cretry, out>>
threadVars == <<tpc, tfile, block, tretry, treaders>>
serverVars == <<files, disk, nextId, up>>
netVars    == <<inbox, lost>>
NoName     == ""
vars       == <<clientVars, threadVars, serverVars, netVars, requests>>

\* What travels: requests, blocks, acknowledgments and errors.
Packets ==
    LET Byte2 == 0 .. (ByteMod - 1) IN
    [op : {RRQ, WRQ, DELETE}, hi : Byte2, lo : Byte2, data : Names \X {Octet, "ocet"}]
    \cup [op : {DATA}, hi : Byte2, lo : Byte2, data : Seq(Byte)]
    \cup [op : {ACK, ERROR}, hi : Byte2, lo : Byte2, data : {<<>>}]

Datagrams == [src : Ports \cup {0}, pkt : Packets]

---------------------------------------------------------------------------
(* Sockets.                                                                *)

Live(t) == up /\ tpc[t] \notin {"free", "done"}

Open == (IF cpc = "run" THEN {ClientPort} ELSE {})
        \cup (IF up THEN {ServerPort} ELSE {})
        \cup {ThreadPort(t) : t \in {u \in Threads : Live(u) /\ tpc[u] # "bind"}}

clientSend(q, dst, pkt) == sendto(q, Open, ClientPort, dst, pkt)
threadSend(q, t, pkt)   == sendto(q, Open, ThreadPort(t), ClientPort, pkt)

---------------------------------------------------------------------------
(* The client process.                                                     *)

\* main binds 9799 and enters the handler, which sends its request and then
\* opens its local file; when that fails an ERROR goes to clientAddress,
\* whose port is garbage, and the handler returns false.
StartClient(f, request, opened) ==
    /\ cpc # "run"
    /\ requests < MaxRequests
    /\ requests' = requests + 1
    /\ cfile' = f
    /\ cport' = 0
    /\ ackTo' \in GarbagePorts
    /\ cretry' = MaxRetry
    /\ out' = <<>>
    /\ cpc' = IF opened THEN "run" ELSE "fail"
    /\ LET sent == sendto(inbox, Open, ClientPort, ServerPort, request) IN
       inbox' = IF opened THEN sent
                ELSE sendto(sent, Open, ClientPort, ackTo', createErrorPacket(DISK_FULL))

ClientReceives == cpc = "run" /\ inbox[ClientPort] # <<>>
ClientPacket   == Received(ClientPort).pkt
ClientSource   == Received(ClientPort).src

\* The handler returns and startClient closes the socket.
ClientReturns(result, q) ==
    /\ cpc' = result
    /\ inbox' = closeSocket(q, ClientPort)

\* Every received datagram resets the retry counter, whatever it is.  The
\* first one pins the server's port; a datagram from another port is
\* answered with ERROR 5.
mutFromServer == TRUE                               \* mutant: no check of the port
FromServer == cport \in {0, ClientSource}
PinServer  == cport' = ClientSource /\ cretry' = MaxRetry

UnknownTid ==
    /\ ClientReceives
    /\ ~FromServer
    /\ cretry' = MaxRetry
    /\ inbox' = clientSend(recvfrom(ClientPort), ClientSource,
                           createErrorPacket(UNKNOWN_TID))
    /\ UNCHANGED <<cpc, cfile, cport, ackTo, expected, out,
                   threadVars, serverVars, lost, requests>>

\* An ERROR packet ends the client.
ErrorReceived ==
    /\ ClientReceives
    /\ FromServer
    /\ ClientPacket.op = ERROR
    /\ PinServer
    /\ ClientReturns("fail", recvfrom(ClientPort))
    /\ UNCHANGED <<cfile, ackTo, expected, out,
                   threadVars, serverVars, lost, requests>>

\* Every loop is `while (retry)' with a `retry--' at each timeout.
mutRetryAfterTimeout(r) == r                        \* mutant: retry-- forgotten
retryAfterTimeout(r) == r - 1
mutOutOfTries(r) == r < 0                           \* mutant: while (retry >= 0)
outOfTries(r) == r = 0

\* Nothing is queued for the server, no thread is about to send, and a thread
\* that waits timed out as often as this client (both wait 5 s, and the
\* thread began to wait first).
ServerHadItsTurn ==
    /\ up => inbox[ServerPort] = <<>>
    /\ \A t \in Threads : Live(t) =>
          /\ tpc[t] = "wait"
          /\ inbox[ThreadPort(t)] = <<>>
          /\ tretry[t] <= cretry

\* SO_RCVTIMEO: recvfrom gives up on an empty queue.
ClientMayTimeOut == inbox[ClientPort] = <<>> /\ (Prompt => ServerHadItsTurn)

ClientTimeout ==
    /\ cpc = "run"
    /\ ClientMayTimeOut
    /\ cretry' = retryAfterTimeout(cretry)
    /\ IF outOfTries(cretry') THEN ClientReturns("fail", inbox)
                      ELSE UNCHANGED <<cpc, inbox>>
    /\ UNCHANGED <<cfile, cport, ackTo, expected, out,
                   threadVars, serverVars, lost, requests>>

---------------------------------------------------------------------------
(* The listener.                                                           *)

ListenerReceives == up /\ inbox[ServerPort] # <<>>
ListenerPacket   == Received(ServerPort).pkt
ListenerRejects ==
    inbox' = sendto(recvfrom(ServerPort), Open, ServerPort,
                    Received(ServerPort).src, createErrorPacket(ILLEGAL_TFTP_OPERATION))

\* A request in octet mode gets a thread, which will bind a port of its own.
Listen ==
    /\ ListenerReceives
    /\ ListenerPacket.op \in {RRQ, WRQ, DELETE}
    /\ ListenerPacket.data[2] = Octet
    /\ inbox' = recvfrom(ServerPort)
    /\ nextId' = nextId + 1
    /\ tpc' = [tpc EXCEPT ![nextId] = "bind"]
    /\ tfile' = [tfile EXCEPT ![nextId] = ListenerPacket.data[1]]
    /\ UNCHANGED <<clientVars, block, tretry, treaders,
                   files, disk, up, lost, requests>>

\* In any other mode it gets ERROR 4, and its id is used up all the same.
ListenBadMode ==
    /\ ListenerReceives
    /\ ListenerPacket.op \in {RRQ, WRQ, DELETE}
    /\ ListenerPacket.data[2] # Octet
    /\ ListenerRejects
    /\ nextId' = nextId + 1
    /\ UNCHANGED <<clientVars, threadVars, files, disk, up, lost, requests>>

\* Anything else than a request gets ERROR 4.
ListenBadOpcode ==
    /\ ListenerReceives
    /\ ListenerPacket.op \notin {RRQ, WRQ, DELETE, LS}
    /\ ListenerRejects
    /\ UNCHANGED <<clientVars, threadVars, serverVars, lost, requests>>

\* debugClient.py: an RRQ in mode "ocet" from a port of its own (here 0).
DebugRequest(f) ==
    /\ requests < MaxRequests
    /\ requests' = requests + 1
    /\ inbox' = sendto(inbox, Open, 0, ServerPort,
                       createRequestPacket(RRQ, f, "ocet"))
    /\ UNCHANGED <<clientVars, threadVars, serverVars, lost>>

---------------------------------------------------------------------------
(* The frame of a thread.                                                  *)

ThreadAt(t, label) == up /\ tpc[t] = label
Goto(t, label)     == tpc' = [tpc EXCEPT ![t] = label]

\* The handler returns: handleClientThread closes the socket.
ThreadReturns(t, q) ==
    /\ Goto(t, "done")
    /\ inbox' = closeSocket(q, ThreadPort(t))

\* The thread binds its port and enters the handler.
Bind(t) ==
    /\ ThreadAt(t, "bind")
    /\ Goto(t, "start")
    /\ UNCHANGED <<clientVars, tfile, block, tretry, treaders,
                   serverVars, netVars, requests>>

\* What the thread sent last has been received.
ClientHadItsTurn(t) ==
    \A i \in 1 .. Len(inbox[ClientPort]) : inbox[ClientPort][i].src # ThreadPort(t)

ThreadMayTimeOut(t) == inbox[ThreadPort(t)] = <<>> /\ (Prompt => ClientHadItsTurn(t))

\* A recvfrom of a handler times out; the loop goes on at `again' or ends.
ThreadTimeout(t, again, end) ==
    /\ ThreadAt(t, "wait")
    /\ ThreadMayTimeOut(t)
    /\ tretry' = [tretry EXCEPT ![t] = retryAfterTimeout(@)]
    /\ Goto(t, IF outOfTries(tretry'[t]) THEN end ELSE again)
    /\ UNCHANGED <<clientVars, tfile, block, treaders, serverVars, netVars, requests>>

---------------------------------------------------------------------------
(* The `files' map.  No lock guards it; each call on the map is a step.    *)

\* What an ifstream on the name reads: nothing when it cannot be opened.
fileBytes(f) == IF f \in DOMAIN disk THEN disk[f] ELSE <<>>

fileExists(f) == f \in DOMAIN files

\* `readers = files[filename]' (operator[] makes a missing entry), then
\* readers++ or readers--.
MapGet(t, from, to, delta) ==
    /\ ThreadAt(t, from)
    /\ LET f == tfile[t]  m == mapInsert(files, f, 0) IN
          /\ files' = m
          /\ treaders' = [treaders EXCEPT ![t] = m[f] + delta]
    /\ Goto(t, to)
    /\ UNCHANGED <<clientVars, tfile, block, tretry,
                   disk, nextId, up, netVars, requests>>

\* `files.erase(files.find(filename))' on an entry that is there.
MapErase(t, from, to) ==
    /\ ThreadAt(t, from)
    /\ fileExists(tfile[t])
    /\ files' = mapErase(files, tfile[t])
    /\ Goto(t, to)
    /\ UNCHANGED <<clientVars, tfile, block, tretry, treaders,
                   disk, nextId, up, netVars, requests>>

\* The same when another thread erased the entry in between: erase(end())
\* frees a node that is not on the heap and the process aborts.  (On an empty
\* map it first loops until somebody inserts: the step may be late, or never.
\* find and erase are one step here; an entry erased between them is freed
\* twice, which is this step too.)
MapEraseAborts(t, from) ==
    /\ ThreadAt(t, from)
    /\ ~fileExists(tfile[t])
    /\ up' = FALSE
    /\ inbox' = [p \in Ports |-> IF p = ClientPort THEN inbox[p] ELSE <<>>]
    /\ UNCHANGED <<clientVars, threadVars, files, disk, nextId, lost, requests>>

---------------------------------------------------------------------------
\* A server started on the directory db, and no client yet.
InitWith(db) ==
    /\ NetInit
    /\ cpc = "idle" /\ cfile = NoName /\ cport = 0 /\ ackTo = 0
    /\ expected = 0 /\ cretry = MaxRetry /\ out = <<>>
    /\ tpc = [t \in Threads |-> "free"]
    /\ tfile = [t \in Threads |-> NoName]
    /\ block = [t \in Threads |-> 0]
    /\ tretry = [t \in Threads |-> MaxRetry]
    /\ treaders = [t \in Threads |-> 0]
    /\ disk = db
    /\ files = initializeFileMap(db)
    /\ nextId = 1
    /\ up = TRUE
    /\ requests = 0

Init == InitWith(Database)

Lose == NetLose /\ UNCHANGED <<clientVars, threadVars, serverVars, requests>>
=============================================================================
