---------------------------- MODULE ReadTransfer ----------------------------
(***************************************************************************)
(* Reading a file: TFTPClient::handleRRQRequest against                    *)
(* TFTPServer::handleReadRequest, with successive clients, the listener    *)
(* and the threads of earlier requests that are still running.             *)
(***************************************************************************)
EXTENDS Sessions

CONSTANT ClientDiskFails    \* TRUE: opening or writing the local file may fail

ASSUME ReadAssumption == ClientDiskFails \in BOOLEAN

---------------------------------------------------------------------------
(* The client.                                                             *)

StartRead(f) ==
    /\ \E opened \in IF ClientDiskFails THEN BOOLEAN ELSE {TRUE} :
          StartClient(f, createRRQPacket(f), opened)
    /\ expected' = 1
    /\ UNCHANGED <<threadVars, serverVars, lost>>

DataReceived ==
    /\ ClientReceives
    /\ FromServer
    /\ ClientPacket.op = DATA
    /\ PinServer

mutExpectedBlock == NtohsBlock(ClientPacket) <= expected  \* mutant: old blocks too
ExpectedBlock == NtohsBlock(ClientPacket) = expected

\* Another block than the expected one: the last stored block is
\* acknowledged again, to the pinned port.
BlockMismatch ==
    /\ DataReceived
    /\ ~ExpectedBlock
    /\ inbox' = clientSend(recvfrom(ClientPort), ClientSource,
                           createACKPacket(Dec16(expected)))
    /\ UNCHANGED <<cpc, cfile, ackTo, expected, out,
                   threadVars, serverVars, lost, requests>>

\* The expected block is written and acknowledged, but the ACK goes to the
\* uninitialised clientAddress.  A block shorter than BlockSize is the last.
BlockStored ==
    /\ DataReceived
    /\ ExpectedBlock
    /\ out' = out \o ClientPacket.data
    /\ expected' = Inc16(expected)
    /\ LET acked == clientSend(recvfrom(ClientPort), ackTo,
                               createACKPacket(expected)) IN
       IF Len(ClientPacket.data) < BlockSize
       THEN ClientReturns("ok", acked)
       ELSE cpc' = cpc /\ inbox' = acked
    /\ UNCHANGED <<cfile, ackTo, threadVars, serverVars, lost, requests>>

\* The local write fails: ERROR 3 to the server, and the read has failed.
StoreFails ==
    /\ ClientDiskFails
    /\ DataReceived
    /\ ExpectedBlock
    /\ ClientReturns("fail", clientSend(recvfrom(ClientPort), ClientSource,
                                        createErrorPacket(DISK_FULL)))
    /\ UNCHANGED <<cfile, ackTo, expected, out,
                   threadVars, serverVars, lost, requests>>

ReadClientStep ==
    \/ UnknownTid
    \/ ErrorReceived
    \/ BlockMismatch
    \/ BlockStored
    \/ StoreFails
    \/ ClientTimeout

---------------------------------------------------------------------------
(* The thread.                                                             *)

\* fileExists decides between the transfer and ERROR 1.
ReadLookup(t) ==
    /\ ThreadAt(t, "start")
    /\ fileExists(tfile[t])
    /\ Goto(t, "acqGet")
    /\ block' = [block EXCEPT ![t] = 1]
    /\ tretry' = [tretry EXCEPT ![t] = MaxRetry]
    /\ UNCHANGED <<clientVars, tfile, treaders, serverVars, netVars, requests>>

ReadNotFound(t) ==
    /\ ThreadAt(t, "start")
    /\ ~fileExists(tfile[t])
    /\ ThreadReturns(t, threadSend(inbox, t, createErrorPacket(FILE_NOT_FOUND)))
    /\ UNCHANGED <<clientVars, tfile, block, tretry, treaders,
                   serverVars, lost, requests>>

\* readers++ before the loop and readers-- after it, each as get, erase and
\* insert on the map.
MapInsert(t, from) ==
    /\ ThreadAt(t, from)
    /\ files' = mapInsert(files, tfile[t], treaders[t])
    /\ UNCHANGED <<clientVars, tfile, block, tretry, treaders,
                   disk, nextId, up, lost, requests>>

CountReader(t) ==
    \/ MapGet(t, "acqGet", "acqErase", 1)
    \/ MapErase(t, "acqErase", "acqInsert")
    \/ MapEraseAborts(t, "acqErase")
    \/ MapInsert(t, "acqInsert") /\ Goto(t, "send") /\ UNCHANGED inbox

DropReader(t) ==
    \/ MapGet(t, "relGet", "relErase", -1)
    \/ MapErase(t, "relErase", "relInsert")
    \/ MapEraseAborts(t, "relErase")
    \/ MapInsert(t, "relInsert") /\ ThreadReturns(t, inbox)

\* The block the thread is at, read from the file anew on every round.  No
\* step of this module changes a file, so that after the wait the same
\* expression also stands for the local dataSize and packet.
CurrentBlock(t) == readDataBlock(fileBytes(tfile[t]), block[t])

\* Top of the loop: nothing to read ends it, else the block is sent.
SendBlock(t) ==
    /\ ThreadAt(t, "send")
    /\ IF CurrentBlock(t) = <<>>
       THEN Goto(t, "relGet") /\ UNCHANGED inbox
       ELSE /\ Goto(t, "wait")
            /\ inbox' = threadSend(inbox, t,
                                   createDataPacket(block[t], CurrentBlock(t)))
    /\ UNCHANGED <<clientVars, tfile, block, tretry, treaders,
                   serverVars, lost, requests>>

ThreadReceives(t) == ThreadAt(t, "wait") /\ inbox[ThreadPort(t)] # <<>>
AckOf(t) == Received(ThreadPort(t)).pkt
mutGoodAck(t) == AckOf(t).op = ACK                  \* mutant: any block number
GoodAck(t) == AckOf(t).op = ACK /\ CharBlock(AckOf(t)) = block[t]

\* The ACK of the current block: done after a short block, else the next.
\* The sender of the ACK is not looked at.
AckAccepted(t) ==
    /\ ThreadReceives(t)
    /\ GoodAck(t)
    /\ tretry' = [tretry EXCEPT ![t] = MaxRetry]
    /\ inbox' = recvfrom(ThreadPort(t))
    /\ IF Len(CurrentBlock(t)) < BlockSize
       THEN Goto(t, "relGet") /\ UNCHANGED block
       ELSE Goto(t, "send") /\ block' = [block EXCEPT ![t] = Inc16(@)]
    /\ UNCHANGED <<clientVars, tfile, treaders, serverVars, lost, requests>>

\* Anything else is answered with ERROR 2, and the block is sent again.
AckRejected(t) ==
    /\ ThreadReceives(t)
    /\ ~GoodAck(t)
    /\ tretry' = [tretry EXCEPT ![t] = MaxRetry]
    /\ inbox' = threadSend(recvfrom(ThreadPort(t)), t,
                           createErrorPacket(ACCESS_VIOLATION))
    /\ Goto(t, "send")
    /\ UNCHANGED <<clientVars, tfile, block, treaders, serverVars, lost, requests>>

\* After a timeout the block is sent again, MaxRetry times in all.
AckTimeout(t) == ThreadTimeout(t, "send", "relGet")

ReadThreadStep(t) ==
    \/ Bind(t)
    \/ ReadLookup(t)
    \/ ReadNotFound(t)
    \/ CountReader(t)
    \/ SendBlock(t)
    \/ AckAccepted(t)
    \/ AckRejected(t)
    \/ AckTimeout(t)
    \/ DropReader(t)

---------------------------------------------------------------------------
ListenerStep == Listen \/ ListenBadMode \/ ListenBadOpcode

Next ==
    \/ \E f \in Names : StartRead(f) \/ DebugRequest(f)
    \/ ReadClientStep
    \/ ListenerStep
    \/ \E t \in Threads : ReadThreadStep(t)
    \/ Lose

Spec == Init /\ [][Next]_vars

\* Every process that can take a step takes one eventually: the threads are
\* kernel threads, and a recvfrom on an empty queue returns after 5 s.  The
\* user need not start another client and the network need not lose anything.
Fairness ==
    /\ WF_vars(ReadClientStep)
    /\ WF_vars(ListenerStep)
    /\ \A t \in Threads : WF_vars(ReadThreadStep(t))

FairSpec == Spec /\ Fairness
---------------------------------------------------------------------------
(* Properties.                                                             *)

\* Type correctness of the client's, the threads' and the server's state.
TypeOK ==
    /\ inbox \in [Ports -> Seq(Datagrams)] /\ lost \in Nat
    /\ cpc \in {"idle", "run", "ok", "fail"}
    /\ cfile \in Names \cup {NoName}
    /\ cport \in Ports \cup {0}
    /\ ackTo \in GarbagePorts \cup {0}
    /\ expected \in UInt16
    /\ cretry \in 0 .. MaxRetry
    /\ out \in Seq(Byte)
    /\ tpc \in [Threads -> {"free", "bind", "start", "acqGet", "acqErase", "acqInsert",
                            "send", "wait", "relGet", "relErase", "relInsert", "done"}]
    /\ tfile \in [Threads -> Names \cup {NoName}]
    /\ block \in [Threads -> UInt16]
    /\ tretry \in [Threads -> 0 .. MaxRetry]
    /\ treaders \in [Threads -> Int]
    /\ DOMAIN files \subseteq Names /\ files \in [DOMAIN files -> Int]
    /\ disk = Database
    /\ nextId \in Nat
    /\ up \in BOOLEAN
    /\ requests \in 0 .. MaxRequests

\* The file the client is being sent: the one the pinned thread serves.
servedFile == IF cport \in ThreadPorts THEN tfile[cport - 9800] ELSE NoName

\* Whatever was retransmitted, duplicated, rejected or lost, and however many
\* threads sent to the client's port, the local file is a prefix of the one
\* file the pinned thread serves, and handleRRQRequest returns true only when
\* it is the whole of that file.
PinnedCopy ==
    LET bytes == fileBytes(servedFile) IN
    /\ Len(out) <= Len(bytes)
    /\ out = SubSeq(bytes, 1, Len(out))
    /\ cpc = "ok" => out = bytes

\* The transfer implements the copying of one file, block by block.
Copy == INSTANCE FileCopy WITH Content <- Database, status <- cpc,
                               source <- servedFile, copy <- out
CopySpec == Copy!Spec

\* Stop and wait: while a client runs alone, the thread it is pinned to is at
\* the block the client stored last or at the next one, never further: the
\* next block is not sent before the last one is stored and acknowledged.
LockStep ==
    \A t \in Threads :
        requests = 1 /\ cpc = "run" /\ cport = ThreadPort(t) /\ tpc[t] \in {"send", "wait"}
            => block[t] \in {Dec16(expected), expected}

\* The reader count's erase and insert never lose a file: a file of the
\* database that is missing from the map is about to be put back by a thread.
NeverForgotten ==
    \A f \in DOMAIN Database :
        f \in DOMAIN files
        \/ \E t \in Threads : tfile[t] = f /\ tpc[t] \in {"acqInsert", "relInsert"}

\* A single client returns, whatever its thread does.  (With a stale thread of
\* an earlier request about it need not: the two may go on answering each
\* other's errors, each of which resets the other's retry.)
ClientTerminates == cpc = "run" ~> cpc # "run"

\* A thread returns, whatever the client does.
ThreadsTerminate ==
    \A t \in Threads : tpc[t] = "bind" ~> (tpc[t] = "done" \/ ~up)

\* What handleReadRequest can send to its end: a file that ends in a short
\* block, and whose full blocks have numbers the signed decoding reads back.
Deliverable(f) ==
    /\ f \in DOMAIN Database
    /\ Len(Database[f]) % BlockSize # 0
    /\ Len(Database[f]) \div BlockSize < ByteMod \div 2

\* On a quiet network a read succeeds for exactly those files: although no
\* acknowledgment of a stored block may ever reach the server, the timeouts
\* carry it through; and a size that is a multiple of the block size, or a
\* block number with its low byte's top bit set, fails it.
ReadOutcome ==
    \A f \in Names :
        cpc = "run" /\ cfile = f ~> cpc = IF Deliverable(f) THEN "ok" ELSE "fail"

\* A client told its read is done has the file it asked for.
ReadsRequestedFile == cpc = "ok" => out = fileBytes(cfile)
=============================================================================
