------------------------------ MODULE Commands ------------------------------
(***************************************************************************)
(* The DELETE and LS commands: TFTPClient::handleDELETERequest and         *)
(* handleLSRequest against TFTPServer::handleDeleteRequest and             *)
(* handleLSRequest, with successive clients on the one client port.  A     *)
(* line of a listing is a pair of a name and its count; BlockSize is the   *)
(* number of lines a block holds.  Reads appear only as a count that       *)
(* changes (FileRegistry has how they change it).                          *)
(***************************************************************************)
EXTENDS Sessions, FiniteSets

CONSTANTS NameOrder,    \* the names, in the order std::map keeps them
          Deletable,    \* names a client asks to delete
          ReadNames,    \* names that get and lose a reader meanwhile
          Directories,  \* what serverDatabase/ may hold at the start
          PairBound,    \* a second client comes only where there were at
                        \* most so many files (a bound of the model)
          DiskFails     \* TRUE: the files of a listing may fail to open

ASSUME CommandsAssumption ==
    /\ NameOrder \in Seq(Names)
    /\ Deletable \subseteq Names /\ ReadNames \subseteq Names
    /\ Directories \subseteq SUBSET DOMAIN Database
    /\ IsFiniteSet(DOMAIN Database)
    /\ PairBound \in Nat
    /\ DiskFails \in BOOLEAN

VARIABLES
    cop,        \* what the client was started for: DELETE or LS
    topcode,    \* the opcode a thread was started with
    lines,      \* what a listing's thread wrote to ls.txt
    dataSize,   \* lines in the block it sent last
    \* history
    deleted,    \* DELETE commands reported as successful
    disturbed,  \* a timeout fired before the other side had had its turn, or a
                \* file of a listing could not be opened or written
    startDir    \* what serverDatabase/ held at the start

cmdVars == <<cop, topcode, lines, dataSize, deleted, disturbed, startDir>>

ListFile == "ls.txt"
ACK_OK == 0

---------------------------------------------------------------------------
(* The client.                                                             *)

createDeletePacket(f) == createRequestPacket(DELETE, f, Octet)
createLSPacket == Wire(LS, 0, <<>>)

StartDelete(f) ==
    /\ StartClient(f, createDeletePacket(f), TRUE)
    /\ expected' = 1
    /\ cop' = DELETE
    /\ UNCHANGED <<threadVars, serverVars, lost, topcode, lines, dataSize, deleted, disturbed, startDir>>

StartList ==
    /\ StartClient(NoName, createLSPacket, TRUE)
    /\ expected' = 1
    /\ cop' = LS
    /\ UNCHANGED <<threadVars, serverVars, lost, topcode, lines, dataSize, deleted, disturbed, startDir>>

\* The local ls.txt does not open: the request is out, an ERROR follows it to
\* the listener's port, and the client returns false.
StartListFails ==
    /\ DiskFails
    /\ cpc # "run"
    /\ requests < MaxRequests
    /\ requests' = requests + 1
    /\ cfile' = NoName
    /\ cop' = LS
    /\ cpc' = "fail"
    /\ inbox' = LET sent == sendto(inbox, Open, ClientPort, ServerPort, createLSPacket) IN
                sendto(sent, Open, ClientPort, ServerPort, createErrorPacket(DISK_FULL))
    /\ disturbed' = TRUE
    /\ UNCHANGED <<cport, ackTo, expected, cretry, out, threadVars, serverVars, lost,
                   topcode, lines, dataSize, deleted, startDir>>

\* An answer to a DELETE, from whatever port of the server: ACK 0 is success,
\* another ACK or an ERROR is not, the rest is answered with ERROR 4.
Deleted == ClientPacket.op = ACK /\ NtohsBlock(ClientPacket) = ACK_OK
DeleteAnswered ==
    /\ ClientReceives
    /\ cop = DELETE
    /\ cretry' = MaxRetry
    /\ ClientReturns(IF Deleted THEN "ok" ELSE "fail",
                     IF ClientPacket.op \in {ACK, ERROR} THEN recvfrom(ClientPort)
                     ELSE clientSend(recvfrom(ClientPort), ClientSource,
                                     createErrorPacket(ILLEGAL_TFTP_OPERATION)))
    /\ deleted' = IF Deleted THEN deleted + 1 ELSE deleted
    /\ UNCHANGED <<cfile, cport, ackTo, expected, out, threadVars, serverVars, lost, requests,
                   cop, topcode, lines, dataSize, disturbed, startDir>>

\* A listing takes DATA only.
ListRefused ==
    /\ ClientReceives
    /\ cop = LS
    /\ ClientPacket.op # DATA
    /\ cretry' = MaxRetry
    /\ ClientReturns("fail", clientSend(recvfrom(ClientPort), ClientSource,
                                        createErrorPacket(ILLEGAL_TFTP_OPERATION)))
    /\ UNCHANGED <<cfile, cport, ackTo, expected, out, threadVars, serverVars, lost, requests, cmdVars>>

\* Another block than the expected one is ignored: no ACK, no ERROR.
mutListExpected == NtohsBlock(ClientPacket) <= expected  \* mutant: old blocks too
ListExpected == NtohsBlock(ClientPacket) = expected
ListIgnored ==
    /\ ClientReceives
    /\ cop = LS
    /\ ClientPacket.op = DATA
    /\ ~ListExpected
    /\ cretry' = MaxRetry
    /\ inbox' = recvfrom(ClientPort)
    /\ UNCHANGED <<cpc, cfile, cport, ackTo, expected, out, threadVars, serverVars, lost, requests, cmdVars>>

\* The expected block is written and acknowledged to its sender.
ListStored ==
    /\ ClientReceives
    /\ cop = LS
    /\ ClientPacket.op = DATA
    /\ ListExpected
    /\ cretry' = MaxRetry
    /\ out' = out \o ClientPacket.data
    /\ expected' = Inc16(expected)
    /\ LET acked == clientSend(recvfrom(ClientPort), ClientSource, createACKPacket(expected)) IN
       IF isShort(ClientPacket.data) THEN ClientReturns("ok", acked)
                                     ELSE cpc' = cpc /\ inbox' = acked
    /\ UNCHANGED <<cfile, cport, ackTo, threadVars, serverVars, lost, requests, cmdVars>>

\* The local write fails: the ERROR goes to the listener, and no ACK.
ListStoreFails ==
    /\ DiskFails
    /\ ClientReceives
    /\ cop = LS
    /\ ClientPacket.op = DATA
    /\ ListExpected
    /\ cretry' = MaxRetry
    /\ ClientReturns("fail", clientSend(recvfrom(ClientPort), ServerPort,
                                        createErrorPacket(DISK_FULL)))
    /\ disturbed' = TRUE
    /\ UNCHANGED <<cfile, cport, ackTo, expected, out, threadVars, serverVars, lost, requests,
                   cop, topcode, lines, dataSize, deleted, startDir>>

CommandTimeout ==
    /\ ClientTimeout
    /\ disturbed' = (disturbed \/ ~ServerHadItsTurn)
    /\ UNCHANGED <<cop, topcode, lines, dataSize, deleted, startDir>>

CommandClientStep ==
    \/ DeleteAnswered
    \/ ListRefused \/ ListIgnored \/ ListStored \/ ListStoreFails
    \/ CommandTimeout

---------------------------------------------------------------------------
(* The listener.                                                           *)

\* An LS packet has no name and no mode.
ListenLS ==
    /\ ListenerReceives
    /\ ListenerPacket.op = LS
    /\ inbox' = recvfrom(ServerPort)
    /\ nextId' = nextId + 1
    /\ tpc' = [tpc EXCEPT ![nextId] = "bind"]
    /\ tfile' = [tfile EXCEPT ![nextId] = NoName]
    /\ UNCHANGED <<clientVars, block, tretry, treaders, files, disk, up, lost, requests>>

CommandListenerStep ==
    \/ /\ Listen \/ ListenLS
       /\ topcode' = [topcode EXCEPT ![nextId] = ListenerPacket.op]
       /\ UNCHANGED <<cop, lines, dataSize, deleted, disturbed, startDir>>
    \/ ListenBadOpcode /\ UNCHANGED cmdVars

---------------------------------------------------------------------------
(* handleDeleteRequest.                                                    *)

DeleteAt(t, label) == ThreadAt(t, label) /\ topcode[t] = DELETE

\* A step that only looks.
Look(t, label) ==
    /\ Goto(t, label)
    /\ UNCHANGED <<clientVars, tfile, block, tretry, treaders, serverVars, netVars, requests>>

\* The handler answers and returns.
Answer(t, pkt) ==
    /\ ThreadReturns(t, threadSend(inbox, t, pkt))
    /\ UNCHANGED <<clientVars, tfile, block, tretry, treaders, serverVars, lost, requests>>

DeleteStart(t) ==
    /\ DeleteAt(t, "start")
    /\ IF fileExists(tfile[t]) THEN Look(t, "find")
       ELSE Answer(t, createErrorPacket(FILE_NOT_FOUND))

\* canDelete: find, then operator[], which makes an entry that has gone.
CanFind(t) ==
    /\ DeleteAt(t, "find")
    /\ IF fileExists(tfile[t]) THEN Look(t, "count")
       ELSE Answer(t, createErrorPacket(NOT_DEFINED))

HasNoReaders(t) == mapInsert(files, tfile[t], 0)[tfile[t]] = 0
CanCount(t) ==
    /\ DeleteAt(t, "count")
    /\ files' = mapInsert(files, tfile[t], 0)
    /\ IF HasNoReaders(t)
       THEN Goto(t, "exists") /\ UNCHANGED inbox
       ELSE ThreadReturns(t, threadSend(inbox, t, createErrorPacket(NOT_DEFINED)))
    /\ UNCHANGED <<clientVars, tfile, block, tretry, treaders, disk, nextId, up, lost, requests>>

CheckFile(t) ==
    /\ DeleteAt(t, "exists")
    /\ IF tfile[t] \in DOMAIN disk THEN Look(t, "remove")
       ELSE Answer(t, createErrorPacket(FILE_NOT_FOUND))

\* fs::remove does not report that there was nothing to remove; when it
\* throws the answer is ERROR 0.
RemoveFile(t) ==
    /\ DeleteAt(t, "remove")
    /\ \/ /\ disk' = [f \in DOMAIN disk \ {tfile[t]} |-> disk[f]]
          /\ Goto(t, "erase")
          /\ UNCHANGED <<clientVars, tfile, block, tretry, treaders, files, nextId, up,
                         netVars, requests>>
       \/ DiskFails /\ Answer(t, createErrorPacket(NOT_DEFINED))

EraseEntry(t) ==
    /\ DeleteAt(t, "erase")
    /\ MapErase(t, "erase", "ack") \/ MapEraseAborts(t, "erase")

mutSendOk(t) == DeleteAt(t, "remove") /\ Answer(t, createACKPacket(ACK_OK))  \* mutant: before the removal
SendOk(t) == DeleteAt(t, "ack") /\ Answer(t, createACKPacket(ACK_OK))

DeleteStep(t) ==
    \/ DeleteStart(t) \/ CanFind(t) \/ CanCount(t) \/ CheckFile(t)
    \/ RemoveFile(t) \/ EraseEntry(t) \/ SendOk(t)

---------------------------------------------------------------------------
(* handleLSRequest.                                                        *)

ListAt(t, label) == ThreadAt(t, label) /\ topcode[t] = LS

\* The lines of the map, in its order: the k-th is of the name with k names
\* of the map up to it.
listing ==
    LET held    == {i \in DOMAIN NameOrder : NameOrder[i] \in DOMAIN files}
        rank(i) == Cardinality({j \in held : j <= i})
        name(k) == NameOrder[CHOOSE i \in held : rank(i) = k]
    IN  [k \in 1 .. Cardinality(held) |-> <<name(k), files[name(k)]>>]

withList(content) ==
    [f \in DOMAIN disk \cup {ListFile} |-> IF f = ListFile THEN content ELSE disk[f]]

\* ls.txt is emptied, or cannot be opened: then nothing is answered.
ListOpen(t) ==
    /\ ListAt(t, "start")
    /\ \/ Goto(t, "list") /\ disk' = withList(<<>>) /\ UNCHANGED <<inbox, disturbed>>
       \/ DiskFails /\ ThreadReturns(t, inbox) /\ disturbed' = TRUE /\ UNCHANGED disk
    /\ UNCHANGED <<clientVars, tfile, block, tretry, treaders, files, nextId, up, lost,
                   requests, cop, topcode, lines, dataSize, deleted, startDir>>

\* The lines are written when the stream is closed, over what another
\* listing's thread may have written since it was opened; a file that was
\* removed since then takes them with it.
ListWrite(t) ==
    /\ ListAt(t, "list")
    /\ lines' = [lines EXCEPT ![t] = listing]
    /\ disk' = IF ListFile \notin DOMAIN disk THEN disk
               ELSE withList(listing \o SubSeq(disk[ListFile], Len(listing) + 1,
                                               Len(disk[ListFile])))
    /\ block' = [block EXCEPT ![t] = 1]
    /\ tretry' = [tretry EXCEPT ![t] = MaxRetry]
    /\ Goto(t, "send")
    /\ UNCHANGED <<clientVars, tfile, treaders, files, nextId, up, netVars, requests,
                   cop, topcode, dataSize, deleted, disturbed, startDir>>

ListBlock(t) == readDataBlock(fileBytes(ListFile), block[t])

ListSend(t) ==
    /\ ListAt(t, "send")
    /\ dataSize' = [dataSize EXCEPT ![t] = Len(ListBlock(t))]
    /\ IF ListBlock(t) = <<>> THEN ThreadReturns(t, inbox)
       ELSE /\ Goto(t, "wait")
            /\ inbox' = threadSend(inbox, t, createDataPacket(block[t], ListBlock(t)))
    /\ UNCHANGED <<clientVars, tfile, block, tretry, treaders, serverVars, lost, requests,
                   cop, topcode, lines, deleted, disturbed, startDir>>

ListReceives(t) == ListAt(t, "wait") /\ inbox[ThreadPort(t)] # <<>>
mutListAck(t) ==                                    \* mutant: the bytes masked
    LET p == Received(ThreadPort(t)).pkt IN p.op = ACK /\ NtohsBlock(p) = block[t]
ListAck(t) ==
    LET p == Received(ThreadPort(t)).pkt IN p.op = ACK /\ CharBlock(p) = block[t]

ListAccepted(t) ==
    /\ ListReceives(t)
    /\ ListAck(t)
    /\ tretry' = [tretry EXCEPT ![t] = MaxRetry]
    /\ IF dataSize[t] < BlockSize
       THEN ThreadReturns(t, recvfrom(ThreadPort(t))) /\ UNCHANGED block
       ELSE /\ Goto(t, "send")
            /\ inbox' = recvfrom(ThreadPort(t))
            /\ block' = [block EXCEPT ![t] = Inc16(@)]
    /\ UNCHANGED <<clientVars, tfile, treaders, serverVars, lost, requests, cmdVars>>

\* Anything else is ignored, and the block is sent again.
ListRejected(t) ==
    /\ ListReceives(t)
    /\ ~ListAck(t)
    /\ tretry' = [tretry EXCEPT ![t] = MaxRetry]
    /\ inbox' = recvfrom(ThreadPort(t))
    /\ Goto(t, "send")
    /\ UNCHANGED <<clientVars, tfile, block, treaders, serverVars, lost, requests, cmdVars>>

ListTimeout(t) ==
    /\ topcode[t] = LS
    /\ disturbed' = (disturbed \/ ~ClientHadItsTurn(t))
    /\ ThreadTimeout(t, "send", "end")
    /\ UNCHANGED <<cop, topcode, lines, dataSize, deleted, startDir>>

ListEnd(t) ==
    /\ ListAt(t, "end")
    /\ ThreadReturns(t, inbox)
    /\ UNCHANGED <<clientVars, tfile, block, tretry, treaders, serverVars, lost, requests, cmdVars>>

ListStep(t) ==
    \/ ListOpen(t) \/ ListWrite(t) \/ ListSend(t)
    \/ ListAccepted(t) \/ ListRejected(t) \/ ListTimeout(t) \/ ListEnd(t)

CommandThreadStep(t) ==
    \/ (Bind(t) \/ DeleteStep(t)) /\ UNCHANGED cmdVars
    \/ ListStep(t)

---------------------------------------------------------------------------

\* A read of f begins or ends.
ReaderChanges ==
    /\ up
    /\ \E f \in ReadNames \cap DOMAIN files :
          files' = [files EXCEPT ![f] = IF @ = 0 THEN 1 ELSE 0]
    /\ UNCHANGED <<clientVars, threadVars, disk, nextId, up, netVars, requests, cmdVars>>

CommandInit ==
    /\ startDir \in Directories
    /\ InitWith([f \in startDir |-> Database[f]])
    /\ cop = 0
    /\ topcode = [t \in Threads |-> 0]
    /\ lines = [t \in Threads |-> <<>>]
    /\ dataSize = [t \in Threads |-> 0]
    /\ deleted = 0
    /\ disturbed = FALSE

CommandStart ==
    /\ requests = 0 \/ Cardinality(startDir) <= PairBound
    /\ (\E f \in Deletable : StartDelete(f)) \/ StartList \/ StartListFails

Next ==
    \/ CommandStart
    \/ CommandClientStep
    \/ CommandListenerStep
    \/ \E t \in Threads : CommandThreadStep(t)
    \/ ReaderChanges
    \/ Lose /\ UNCHANGED cmdVars

Spec == CommandInit /\ [][Next]_<<vars, cmdVars>>

\* As for the transfers: every process that can take a step takes one.
FairSpec ==
    /\ Spec
    /\ WF_<<vars, cmdVars>>(CommandClientStep)
    /\ WF_<<vars, cmdVars>>(CommandListenerStep)
    /\ \A t \in Threads : WF_<<vars, cmdVars>>(CommandThreadStep(t))
---------------------------------------------------------------------------
(* Properties.                                                             *)

Lists == {t \in Threads : topcode[t] = LS}
Deletes(f) == {t \in Threads : topcode[t] = DELETE /\ tfile[t] = f}

\* Type correctness of what this module adds or reads.
TypeOK ==
    /\ cpc \in {"idle", "run", "ok", "fail"}
    /\ cop \in {0, DELETE, LS}
    /\ cretry \in 0 .. MaxRetry
    /\ out \in Seq(Names \X {0, 1})
    /\ topcode \in [Threads -> {0, DELETE, LS}]
    /\ \A t \in Threads : tpc[t] \in
          {"free", "bind", "start", "done"}
          \cup IF topcode[t] = LS THEN {"list", "send", "wait", "end"}
               ELSE {"find", "count", "exists", "remove", "erase", "ack"}
    /\ \A t \in Threads : dataSize[t] \in 0 .. BlockSize
    /\ \A f \in DOMAIN files : f \in Names /\ files[f] \in {0, 1}
    /\ deleted \in 0 .. MaxRequests /\ up \in BOOLEAN

\* The server never confirms more deletions than it made: two clients are not
\* both told that they deleted one file, and the first client's file is gone
\* from directory and map.  (Of three threads at work on one name the third
\* could bring back the entry that the other two erase; and a listing makes a
\* deleted ls.txt anew.)
ReportedOnce ==
    /\ Deletes(ListFile) = {} /\ (\A f \in Names : Cardinality(Deletes(f)) <= 2) =>
          deleted <= Cardinality(startDir \ DOMAIN disk)
    /\ requests = 1 /\ cpc = "ok" /\ cop = DELETE => cfile \notin DOMAIN disk \cup DOMAIN files

\* A listing is received in order, without a gap or a repetition, and to its
\* end when handleLSRequest returns true, while the server has made only one.
ListingCopy ==
    \A t \in Lists :
        Lists = {t} =>
            /\ Len(out) <= Len(lines[t]) /\ out = SubSeq(lines[t], 1, Len(out))
            /\ cpc = "ok" /\ cop = LS => out = lines[t]

\* The client and the threads return, whatever happens.
CommandsTerminate ==
    /\ cpc = "run" ~> cpc # "run"
    /\ \A t \in Threads : tpc[t] = "bind" ~> tpc[t] = "done" \/ ~up

\* On a quiet network a single listing arrives if it ends in a short block
\* and no full block of it has a number that the signed decoding misreads.
Listable(l) == Len(l) % BlockSize # 0 /\ Len(l) \div BlockSize < ByteMod \div 2
ListOutcome ==
    \A t \in Threads :
        topcode[t] = LS /\ tpc[t] = "send" /\ cpc = "run" ~>
            \/ cpc = IF Listable(lines[t]) THEN "ok" ELSE "fail"
            \/ disturbed \/ lost > 0 \/ requests > 1
=============================================================================
