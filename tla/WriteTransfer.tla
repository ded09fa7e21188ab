---------------------------- MODULE WriteTransfer ----------------------------
(***************************************************************************)
(* Writing a file: TFTPClient::handleWRQRequest against                    *)
(* TFTPServer::handleWriteRequest, with successive clients, the listener   *)
(* and the threads of earlier requests that are still running.             *)
(*                                                                         *)
(* The client compresses local file f into f's ServerName (its name up to  *)
(* the last dot, and "compress.bin"), and writes that.  Two local files    *)
(* may get the same server name.                                           *)
(***************************************************************************)
EXTENDS Sessions

CONSTANTS Local,          \* what deflate makes of the local files: name -> bytes
          ServerName,     \* local name -> name on the server
          ServerDiskFails \* TRUE: the server's opens and writes may fail

ASSUME WriteAssumption ==
    /\ Local \in [DOMAIN Local -> Seq(Byte)]
    /\ ServerName \in [DOMAIN ServerName -> Names]
    /\ DOMAIN Local \subseteq DOMAIN ServerName
    /\ ServerDiskFails \in BOOLEAN

VARIABLES stream,         \* thread -> bytes its ofstream has accepted
          flushed         \* thread -> how many of them are on the disk

streams == <<stream, flushed>>
allVars == <<vars, streams>>

\* What reads as zero because a file was cut under a thread that had already
\* written further on.
Hole == "hole"

---------------------------------------------------------------------------
(* The client.                                                             *)

\* A name without a local file is requested all the same: deflate only logs
\* the error, the WRQ goes out, and then the open fails.
StartWrite(f) ==
    /\ StartClient(f, createWRQPacket(ServerName[f]), f \in DOMAIN Local)
    /\ expected' = 0
    /\ UNCHANGED <<threadVars, serverVars, lost, streams>>

AckReceived ==
    /\ ClientReceives
    /\ FromServer
    /\ ClientPacket.op = ACK
    /\ PinServer

\* Another ACK than the expected one is ignored, unless it is the first.
AckUnexpected ==
    /\ AckReceived
    /\ NtohsBlock(ClientPacket) # expected
    /\ IF expected = 0
       THEN ClientReturns("fail",
                clientSend(recvfrom(ClientPort), ClientSource,
                           createErrorPacket(ILLEGAL_TFTP_OPERATION)))
       ELSE cpc' = cpc /\ inbox' = recvfrom(ClientPort)
    /\ UNCHANGED <<cfile, ackTo, expected, out,
                   threadVars, serverVars, lost, requests, streams>>

\* The next block goes out once.  After a short one the client returns true
\* without waiting for its ACK; when there is no next block, it returns false.
AckAdvances ==
    /\ AckReceived
    /\ NtohsBlock(ClientPacket) = expected
    /\ expected' = Inc16(expected)
    /\ LET next == readDataBlock(Local[cfile], expected')
           sent == clientSend(recvfrom(ClientPort), ClientSource,
                              createDataPacket(expected', next)) IN
       IF next = <<>> THEN ClientReturns("fail", recvfrom(ClientPort))
       ELSE IF isShort(next) THEN ClientReturns("ok", sent)
       ELSE cpc' = cpc /\ inbox' = sent
    /\ UNCHANGED <<cfile, ackTo, out,
                   threadVars, serverVars, lost, requests, streams>>

WriteClientStep ==
    \/ (UnknownTid \/ ErrorReceived \/ ClientTimeout) /\ UNCHANGED streams
    \/ AckUnexpected
    \/ AckAdvances

---------------------------------------------------------------------------
(* The thread.                                                             *)

\* A pwrite of bytes at offset off of a file that holds old.
writeAt(old, off, bytes) ==
    LET last == IF Len(old) > off + Len(bytes) THEN Len(old) ELSE off + Len(bytes) IN
    [i \in 1 .. last |-> IF i > off /\ i <= off + Len(bytes) THEN bytes[i - off]
                         ELSE IF i <= Len(old) THEN old[i] ELSE Hole]

\* The disk after thread t's ofstream, holding bytes, was flushed.
Flush(t, bytes) ==
    LET rest == SubSeq(bytes, flushed[t] + 1, Len(bytes)) IN
    IF rest = <<>> THEN disk
    ELSE [disk EXCEPT ![tfile[t]] = writeAt(@, flushed[t], rest)]

\* fileExists: ERROR 6 for a name in the map.
WriteExists(t) ==
    /\ ThreadAt(t, "start")
    /\ fileExists(tfile[t])
    /\ ThreadReturns(t, threadSend(inbox, t, createErrorPacket(FILE_ALREADY_EXISTS)))
    /\ UNCHANGED <<clientVars, tfile, block, tretry, treaders,
                   serverVars, lost, requests, streams>>

WriteAllowed(t) ==
    /\ ThreadAt(t, "start")
    /\ ~fileExists(tfile[t])
    /\ Goto(t, "open")
    /\ UNCHANGED <<clientVars, tfile, block, tretry, treaders,
                   serverVars, netVars, requests, streams>>

\* The ofstream empties the file, whether the map knows it or not.  ACK 0
\* invites the first block.
OpenFile(t) ==
    /\ ThreadAt(t, "open")
    /\ disk' = [f \in DOMAIN disk \cup {tfile[t]} |->
                  IF f = tfile[t] THEN <<>> ELSE disk[f]]
    /\ stream' = [stream EXCEPT ![t] = <<>>]
    /\ flushed' = [flushed EXCEPT ![t] = 0]
    /\ block' = [block EXCEPT ![t] = 1]
    /\ tretry' = [tretry EXCEPT ![t] = MaxRetry]
    /\ inbox' = threadSend(inbox, t, createACKPacket(0))
    /\ Goto(t, "wait")
    /\ UNCHANGED <<clientVars, tfile, treaders, files, nextId, up, lost, requests>>

OpenFails(t) ==
    /\ ServerDiskFails
    /\ ThreadAt(t, "open")
    /\ ThreadReturns(t, threadSend(inbox, t, createErrorPacket(DISK_FULL)))
    /\ UNCHANGED <<clientVars, tfile, block, tretry, treaders,
                   serverVars, lost, requests, streams>>

DataArrives(t) == ThreadAt(t, "wait") /\ inbox[ThreadPort(t)] # <<>>
DataOf(t)      == Received(ThreadPort(t)).pkt
IsNextBlock(t) == DataOf(t).op = DATA /\ NtohsBlock(DataOf(t)) = block[t]

\* The next block is written and acknowledged; the stream passes what it
\* holds to the disk now and then.  A short block is the last.  The sender of
\* the DATA is not looked at.
BlockWritten(t) ==
    /\ DataArrives(t)
    /\ IsNextBlock(t)
    /\ tretry' = [tretry EXCEPT ![t] = MaxRetry]
    /\ LET bytes == stream[t] \o DataOf(t).data IN
       /\ stream' = [stream EXCEPT ![t] = bytes]
       /\ \/ disk' = Flush(t, bytes) /\ flushed' = [flushed EXCEPT ![t] = Len(bytes)]
          \/ UNCHANGED <<disk, flushed>>
    /\ inbox' = threadSend(recvfrom(ThreadPort(t)), t, createACKPacket(block[t]))
    /\ block' = [block EXCEPT ![t] = Inc16(@)]
    /\ Goto(t, IF isShort(DataOf(t).data) THEN "insert" ELSE "wait")
    /\ UNCHANGED <<clientVars, tfile, treaders, files, nextId, up, lost, requests>>

\* A failed write ends the transfer with ERROR 3.
WriteFails(t) ==
    /\ ServerDiskFails
    /\ DataArrives(t)
    /\ IsNextBlock(t)
    /\ tretry' = [tretry EXCEPT ![t] = MaxRetry]
    /\ inbox' = threadSend(recvfrom(ThreadPort(t)), t, createErrorPacket(DISK_FULL))
    /\ Goto(t, "close")
    /\ UNCHANGED <<clientVars, tfile, block, treaders,
                   serverVars, lost, requests, streams>>

\* ERROR 4 for another packet than DATA, ERROR 0 for another block.
DataRejected(t) ==
    /\ DataArrives(t)
    /\ ~IsNextBlock(t)
    /\ tretry' = [tretry EXCEPT ![t] = MaxRetry]
    /\ inbox' = threadSend(recvfrom(ThreadPort(t)), t,
                   createErrorPacket(IF DataOf(t).op = DATA THEN NOT_DEFINED
                                     ELSE ILLEGAL_TFTP_OPERATION))
    /\ UNCHANGED <<clientVars, tpc, tfile, block, treaders,
                   serverVars, lost, requests, streams>>

\* A timeout: nothing is sent again.
DataTimeout(t) == ThreadTimeout(t, "wait", "close") /\ UNCHANGED streams

\* files.insert, before the stream is closed.
RegisterFile(t) ==
    /\ ThreadAt(t, "insert")
    /\ files' = mapInsert(files, tfile[t], 0)
    /\ Goto(t, "close")
    /\ UNCHANGED <<clientVars, tfile, block, tretry, treaders,
                   disk, nextId, up, netVars, requests, streams>>

\* close flushes the rest; that it may fail goes unnoticed.
CloseFile(t) ==
    /\ ThreadAt(t, "close")
    /\ \/ disk' = Flush(t, stream[t])
       \/ ServerDiskFails /\ disk' = disk
    /\ ThreadReturns(t, inbox)
    /\ UNCHANGED <<clientVars, tfile, block, tretry, treaders,
                   files, nextId, up, lost, requests, streams>>

WriteThreadStep(t) ==
    \/ Bind(t) /\ UNCHANGED streams
    \/ WriteExists(t)
    \/ WriteAllowed(t)
    \/ OpenFile(t)
    \/ OpenFails(t)
    \/ BlockWritten(t)
    \/ WriteFails(t)
    \/ DataRejected(t)
    \/ DataTimeout(t)
    \/ RegisterFile(t)
    \/ CloseFile(t)

---------------------------------------------------------------------------
ListenerStep == (Listen \/ ListenBadOpcode) /\ UNCHANGED streams

WInit ==
    /\ Init
    /\ stream = [t \in Threads |-> <<>>]
    /\ flushed = [t \in Threads |-> 0]

Next ==
    \/ \E f \in DOMAIN ServerName : StartWrite(f)
    \/ WriteClientStep
    \/ ListenerStep
    \/ \E t \in Threads : WriteThreadStep(t)
    \/ Lose /\ UNCHANGED streams

Spec == WInit /\ [][Next]_allVars

\* As for reading: no process that can take a step stops for good.
Fairness ==
    /\ WF_allVars(WriteClientStep)
    /\ WF_allVars(ListenerStep)
    /\ \A t \in Threads : WF_allVars(WriteThreadStep(t))

FairSpec == Spec /\ Fairness
---------------------------------------------------------------------------
(* Properties.                                                             *)

\* Type correctness; every queued datagram is a packet the code can build.
TypeOK ==
    /\ inbox \in [Ports -> Seq(Datagrams)] /\ lost \in 0 .. MaxLoss
    /\ cpc \in {"idle", "run", "ok", "fail"}
    /\ cfile \in DOMAIN ServerName \cup {NoName}
    /\ cport \in Ports \cup {0}
    /\ expected \in UInt16
    /\ cretry \in 0 .. MaxRetry
    /\ tpc \in [Threads -> {"free", "bind", "start", "open", "wait", "insert", "close", "done"}]
    /\ tfile \in [Threads -> Names \cup {NoName}]
    /\ block \in [Threads -> UInt16]
    /\ tretry \in [Threads -> 0 .. MaxRetry]
    /\ stream \in [Threads -> Seq(Byte)]
    /\ flushed \in [Threads -> Nat]
    /\ \A t \in Threads : flushed[t] <= Len(stream[t])
    /\ DOMAIN files \subseteq Names /\ \A f \in DOMAIN files : files[f] = 0
    /\ DOMAIN disk \subseteq Names
    /\ \A f \in DOMAIN disk : disk[f] \in Seq(Byte \cup {Hole})

\* Whatever stale acknowledgments, errors and retries cross each other, a
\* thread never mixes the blocks of two clients' files: what it has accepted
\* is the beginning of one local file, and all of it when it goes on to
\* register the file.
OneSource ==
    \A t \in Threads :
        tpc[t] \notin {"free", "bind", "start", "open"} /\ stream[t] # <<>> =>
            \E f \in DOMAIN Local :
               /\ Len(stream[t]) <= Len(Local[f])
               /\ stream[t] = SubSeq(Local[f], 1, Len(stream[t]))
               /\ tpc[t] = "insert" => stream[t] = Local[f]

\* The threads that have opened, and so emptied, file f.
Writers(f) == {t \in Threads : tfile[t] = f /\ (block[t] # 0 \/ stream[t] # <<>>)}

\* A name enters the map only for a file that ends up whole: unless a second
\* thread opened it too, or the disk failed, what its thread leaves on the
\* disk is a complete local file, and with a single client that client's.
RegisteredOnDisk ==
    \A f \in DOMAIN files \ DOMAIN Database :
        /\ ~ServerDiskFails
        /\ \A t, u \in Writers(f) : t = u
        /\ \A t \in Writers(f) : tpc[t] = "done"
        => \E g \in DOMAIN Local :
              /\ disk[f] = Local[g]
              /\ requests = 1 => g = cfile /\ f = ServerName[g]

\* The client returns, whatever the server does.
ClientTerminates == cpc = "run" ~> cpc # "run"

\* A thread returns, whatever the client does.
ThreadsTerminate == \A t \in Threads : tpc[t] = "bind" ~> tpc[t] = "done"

\* What can be written: a local file, new to the server, that ends in a short
\* block whose number fits 16 bits.
Storable(f) ==
    /\ f \in DOMAIN Local
    /\ ServerName[f] \notin DOMAIN Database
    /\ Len(Local[f]) % BlockSize # 0
    /\ Len(Local[f]) \div BlockSize + 1 < U16

\* On a quiet network exactly those writes end stored and registered; any
\* other one is reported as failed and its name never enters the map.
WriteOutcome ==
    \A f \in DOMAIN ServerName :
        cpc = "run" /\ cfile = f ~>
            IF Storable(f)
            THEN ServerName[f] \in DOMAIN files /\ disk[ServerName[f]] = Local[f]
            ELSE cpc = "fail" /\ DOMAIN files = DOMAIN Database

\* When the only client's handleWRQRequest has returned true, over a network
\* that loses nothing and is faster than the timeouts, to a disk that does not
\* fail, then the server has the file under its name once its thread is done.
OkMeansStored ==
    /\ Prompt /\ ~ServerDiskFails /\ lost = 0 /\ requests = 1
    /\ cpc = "ok" /\ \A t \in Threads : tpc[t] \in {"free", "done"}
    => /\ ServerName[cfile] \in DOMAIN files
       /\ disk[ServerName[cfile]] = Local[cfile]
=============================================================================
