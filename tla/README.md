# TLA+ verification of the TFTP client and server

This directory models the TFTP program under `src/src` (server, client, packet
library, compression) in TLA+, model-checks it with TLC on small instances, and
proves safety properties for every instance with TLAPS.

* `tlc -workers 2 -config ReadPair.cfg MCReadTransfer.tla` runs one check; the
  table of section 3 says which module goes with which `.cfg`.
* `tlapm ReadTransferProofs.tla` checks the proofs of a module; the others are
  `WriteTransferProofs`, `CommandsProofs`, `FileRegistryProofs`, `ThreadPoolProofs`,
  `HuffmanProofs`, `CompressionProofs` and `LoopbackLemmas`.
* `PROJECT.json` maps every definition to the lines it was translated from, and
  lists runs, mutants, findings, hazards and theorems.

## 1. The system

| Part | State | Operations | Talks to |
|---|---|---|---|
| Packet library `TFTPPacket.cpp` | none | constructors of RRQ, WRQ, DATA, ACK, ERROR, DELETE, LS; `readDataBlock` | called by both programs |
| Client `TFTPClient.cpp` | socket on port 9799, pinned server port, expected block, retry counter, local file; the member `clientAddress`, **never initialised** | one process per command: READ, WRITE, DELETE, LS | sends its request to port 69, the rest to the port that answers |
| Listener `TFTPServer::start` | socket on port 69, `nextClientId` | receive a request, start a thread for it, or answer ERROR 4 | threads, `clientThreads` |
| Thread of a request `handleClientThread` | socket on port 9800 + id, block number, retry counter, file stream | one of four handlers, then close and set the completion flag | client; `files`; `serverDatabase/` |
| `files` map | name -> number of active readers | filled at start; read, erase, insert by the handlers; **no lock** | every thread |
| Reaper `destroyClientThreads`, SIGINT handler | `clientThreads`, `destroyTFTPServer` | every 15 s join and forget the finished threads; end of the server | listener, threads |
| Compression `TFTPCompression.cpp` | temporary files | `deflate` before a WRITE, `inflate` after a READ | client only |

What is hard here: several threads (those of earlier requests that are still
retransmitting, too) share one client port, one unlocked map of files and one
unlocked map of threads; UDP loses and reorders between senders; timeouts race
late answers; both counters are 16 bits and one decoding of them is signed; a file
may end on a block boundary; the directory outlives the process and the map does
not; the compression computes in place.

What makes each part correct:

* reading: the local file is a prefix of *one* file of the server, block by
  block, and the whole of it when the client reports success; the client and the
  thread return; with a quiet network a read succeeds exactly when the code can
  tell its end;
* writing: a thread never mixes two clients' data; a name is registered only when
  its file is complete; with a quiet network a write is stored exactly when the code
  can tell its end;
* DELETE and LS: the server confirms no more deletions than it made; a listing
  arrives in order and whole; the client returns whatever happens;
* files map: no update of a reader count loses a file; on every name that no two
  threads changed at once, the map, the counts and the directory agree, a complete
  file is not rewritten, and one with readers is not deleted; an abort has one of the
  known causes;
* thread pool: somebody can join every thread at work, the reaper waits for no
  transfer, every flagged thread is joined, the server ends when asked if the handlers
  return;
* compression: the code lengths are optimal, the codes prefix-free, the delimiter
  is found where it was written, and `inflate` restores the file but for what the
  padding adds, unless `deflate`'s own files overwrite it.

`PROJECT.json` lists every component with its status, and under `hazards` each
thing that can go wrong, at its line, with the properties that watch it.

## 2. The modules

```
TFTPPacket          packets, block numbers, readDataBlock
  Loopback          sockets on 127.0.0.1: bounded queues, loss
    Sessions        client process, listener, frame of a thread, calls on the map
      ReadTransfer  handleRRQRequest against handleReadRequest
        MCReadTransfer       instances for TLC
        ReadTransferProofs   theorems (with LoopbackLemmas)
      WriteTransfer handleWRQRequest against handleWriteRequest
        MCWriteTransfer, WriteTransferProofs
      Commands      DELETE and LS, both sides
        MCCommands, CommandsProofs
FileCopy            what a transfer promises (abstract)
FilesMap            the calls on std::map<std::string, int> files
  FileRegistry      all four handlers on the map and the directory, restarts
    MCFileRegistry, FileRegistryProofs
ThreadPool          clientThreads: listener, threads, reaper, Ctrl-C
  MCThreadPool, ThreadPoolProofs
HuffmanCode         generateHuffmanCodes
  Compression       deflate, the combined file, inflate
    MCCompression, HuffmanProofs, CompressionProofs
```

**TFTPPacket.** A packet is its opcode, the two bytes behind it and a payload.
`NtohsBlock` and `CharBlock` are the two ways the code decodes those bytes: the
client and the write handler mask them, the read handler's `(char << 8) | char`
sign-extends. The block size (512) and the number of values of a byte (256) are
the parameters `BlockSize` and `ByteMod`, so that files of a few bytes have
several blocks and, where it matters, a handful of blocks use up the numbers.
Payload bytes are model values: the transfer never looks at them.

**Loopback** (external: the operating system). A queue per port, bounded by
`SockBuf`; a datagram to an unbound port or a full queue disappears; `NetLose`
drops at most `MaxLoss` more; closing a socket discards its queue.

**Sessions.** `StartClient` is `main` up to the first `recvfrom`: clients come one
after another because each binds port 9799 and a second one exits. `ackTo`
is the port in the uninitialised `clientAddress`: any of `GarbagePorts`, 0 meaning
an address nobody listens on. `UnknownTid`, `ErrorReceived`, `ClientTimeout` are
the branches the READ and WRITE loops share, line for line. `Listen`,
`ListenBadMode`, `ListenBadOpcode` are one round of `TFTPServer::start`. A thread's
`tpc` is its place in the handler; `Bind` is separate from `Listen` since the new
thread binds its port by itself, and a datagram that comes earlier is lost.
Each get, erase and insert on `files` is a step. `files.erase(files.find(f))`
is one: erasing `end()` is undefined, and with the library the build uses it frees
a node that is not on the heap, which aborts the process (`MapEraseAborts`); an
entry erased by another thread between find and erase is freed twice and ends in
the same abort.

**ReadTransfer.** `BlockStored` sends the ACK to `ackTo` (line 298), `BlockMismatch`
to the pinned port (283): only the second reaches the thread, whose timeouts
drive the transfer. `AckAccepted`/`AckRejected`/`AckTimeout`/`SendBlock` are the
loop of `handleReadRequest`, `CountReader`/`DropReader` its two updates of the
reader count.

**WriteTransfer.** Starts from the bytes `deflate` left (`Local`) under the
server's name for them (`ServerName`: two local files may share one). `stream` is
what the thread's `ofstream` has accepted, `flushed` how much of that is on the
disk; a flush may happen at any written block, and happens at `close`. Two threads
that write one name overwrite each other through their offsets (`writeAt`); what
lies between is a `Hole`.

**FileCopy** promises, without packets or timeouts: a copy grows by whole blocks
of one source, in order, and is complete exactly when its short block is in. The
property `CopySpec` is `FileCopy!Spec` with `status <- cpc`, `copy <- out` and
`source` <- the file of the thread the client is pinned to.

**Commands.** One request of DELETE or LS after another against the listener and
their handlers. `deleted` counts the clients that were told their file is gone,
`lines` is what each listing wrote to ls.txt, `disturbed` remembers that a timeout
came before the other side had its turn or that ls.txt could not be opened: these
three are history, no action reads them. The lines of ls.txt are the bytes a block
consists of. ls.txt is a file like any other: a DELETE may remove it under the thread
that writes it, and the lines with it. `ReaderChanges` stands for reads that begin and end meanwhile.
`PairBound` lets a second request come only when the directory was that small at
first: it keeps the product of long listings and two clients out.

**FileRegistry.** The same four handlers without the packets: a transfer takes any
time and ends at any block, so that three threads, all interleavings of their
calls on `files` and on the directory, kills, aborts and a restart fit into one state
space. `disk[f]` says whose bytes a file holds and whether they are all there; two
streams open on one file, or one of them closed after the other, leave perhaps a
mixture (`Closed`); a `close`, of an upload or of ls.txt, may fail unnoticed (`CloseFile`). Undefined behaviour is a choice: erasing `end()` aborts
(`Erase`), an iterator whose entry has gone lets the listing read on or abort
(`ListEntry`). `Kill` is a crash as well as an orderly end; `Restart` registers every
file of the directory, `initializeFileMap`, and forgets the threads. `raced` and
`leftover` are history: the names two threads were in the middle of changing at
once, and those registered although their file is incomplete (a failed `close`, or a
partial file found at the restart). The properties say what holds of every other
name, so that each race the code has is named in one place, `Contended`.

**ThreadPool.** `clientThreads` as two functions, the state of an entry's
`std::thread` (`entry`) and its flag. The n-th request has the key 9800 + n in the
code and n here; only `ThreadPort` needs the sum. A statement like
`clientThreads[id] = {std::thread(...), false}` is three steps, in the order the
build evaluates it: start the thread, create the entry, assign. The data races on
the `std::map` itself are taken as calls that happen one at a time, in any order;
what a torn tree would do is beyond the model. `Interrupt` is SIGINT followed by
"y" at any moment. A thread is its `Frame` (bind, options, close, flag) around a handler,
`Work`, which takes any time and may never return. `Terminate` ends the process with whatever threads are left.
The port space is small (`PortCount` 8, `FirstPort` 6, `ServerPort` 1, and 7 may be
some other program's), so that the ids wrap to port 0, which the system replaces by a
free one, and to the listener's port, where `bind` fails and the process exits.

**HuffmanCode, Compression.** `generateHuffmanCodes` index by index: one array `A`
holds frequencies, weights, parents and depths in turn. A write outside of it is
kept as `heap` = FALSE, and is found when `deflate` frees the array
(`combineBinaryFiles`). Then codes, packing, the file with its delimiter, and the way
back. The standard containers' orders matter and are modelled: `std::map<char, ..>`
puts 128 .. 255 first, the multimap keeps insertion order. The code's `string` of
digits is a sequence of bits. The eight bytes of a code's size hold small numbers.
A file's `name` is its stem and extension, since `deflate` derives the names of its own
files from the first: the packed bits go to `<stem>.bin`, which is opened, and so emptied,
after the source has been opened and before it is read (`Source`: of a file X.bin nothing
is left to pack), and the map of codes to `encoded_data.bin`, written after the bits
(`PackedFile`: a source `encoded_data.*` has its bits overwritten by the map).
`decodeBinaryFileToMap` reads one entry of the map file per step, `inflate` one bit. The
frequencies of a file add up in an `int`, so `CompressionAssumption` admits files of up
to `INT_MAX` bytes.

Left out on purpose: logging; error texts; packets above 516 bytes (nobody sends
one, and the buffers cut them); datagrams from another IP address (loopback);
`sendto` failing; in each of the three packet-level modules the branches for opcodes
that its own requests can never get (they need clients of different commands in
one behaviour); the checks for empty names; `<name>compress.bin` left behind
locally by an earlier command, which would let a WRITE of a missing file open it;
failing opens of the compression's temporary files; `socket` or the start of a
`std::thread` failing.

## 3. The runs

`Prompt` chooses how eager timeouts are. FALSE: a `recvfrom` may give up whenever
its queue is empty, which stands for any scheduling delay. TRUE: only when the
other side has had its turn (`ClientMayTimeOut`, `ThreadMayTimeOut`), as 5 seconds
allow on one host. Safety is checked with FALSE, success needs TRUE.

| Run (`.cfg`) | Module | Checks | Shows |
|---|---|---|---|
| ReadSingle | MCReadTransfer | TypeOK, LockStep, CopySpec, ClientTerminates, ThreadsTerminate | one read, one loss, eager timeouts, failing local disk, garbage ACK address that is dead or the thread's own: exact copy, stop-and-wait, termination, refinement |
| ReadPair | MCReadTransfer | PinnedCopy, NeverForgotten | two clients in a row, two threads on one port and one map, the abort on a lost erase included: no mixture of files |
| ReadPrompt | MCReadTransfer | ReadOutcome | on a quiet network a read succeeds exactly for the sizes `Deliverable` admits, by the server's timeouts, for sizes up to the first block number the signed decoding misreads |
| WriteSingle | MCWriteTransfer | TypeOK, ClientTerminates, ThreadsTerminate | one write, one loss, failing server disk, garbage errors to the listener: both sides return |
| WritePair | MCWriteTransfer | OneSource, RegisteredOnDisk | two writes in a row, perhaps of one name, one loss: no mixture, only complete files are registered |
| WritePrompt | MCWriteTransfer | OkMeansStored, WriteOutcome | on a quiet network a write is stored exactly for the files `Storable` admits, up to the last block number (`ByteMod = 8` gives 63 of them) and beyond it |
| Commands | MCCommands | TypeOK, ReportedOnce, ListingCopy, CommandsTerminate, ListOutcome | DELETE and LS by one or two clients, readers coming and going, one loss, failing opens, listings up to and beyond the misread block number |
| Registry | MCFileRegistry | TypeOK, CountExact, MapAgrees, ReaderSeesOneFile, AbortExplained, WholeKept | any three requests on one file and ls.txt, interleaved call by call, with kills, aborts, failing closes and one restart: what holds of every name that no two threads changed at once |
| Pool | MCThreadPool | TypeOK, Reachable, JoinsFinished, CutShort, AbortExplained, Reaped, ShutsDown | listener, three threads and reaper without a lock, Ctrl-C at any moment, ports that wrap, handlers that may never return |
| Compress | MCCompression | InPlace, PrefixFree, Optimal, SeparatedAtDelimiter, Restored, Finishes | every file of up to six of `a`, 7F, FE, and files of four to six characters in skewed proportions, under a name of each kind, through deflate and inflate |
| ReadWrongFile | MCReadTransfer | ReadsRequestedFile **violated** | a client pins the thread of an earlier request and reports another file as its own |
| CompressLossless | MCCompression | Lossless **violated** | the zeros that fill the last byte are decoded into more characters |

The two violations are disagreements of the code with its README and with a comment of
its own; the lines are quoted under `findings`.

**What the code does not do.** The other disagreements met while modelling are
part of properties that hold, stated as the exact condition:

* a file whose size is a multiple of the block size gets no final short block: it
  is neither read (`Deliverable`), nor listed (`Listable`), nor written and
  registered (`Storable`) with success;
* the signed decoding of an ACK's number stops a read and a listing at block 128
  (any file above 65536 bytes); a write stops after block 65535;
* a client pinned to one thread and the thread of an earlier request that still
  sends to port 9799 can keep each other busy for ever: ERROR 5 is
  answered by an ERROR, and every datagram resets the retry counter.
  `ClientTerminates` and `ThreadsTerminate` are therefore checked with a single client,
  and the pool does not suppose that handlers return: `HandlersReturn` is the premise of
  `ShutsDown`, without which the reaper's final `join` may wait for ever;
* a WRITE returns true before its last block is acknowledged: with a loss
  the file may never get there, which is why `OkMeansStored` speaks of a quiet
  network and of one client (two writes of one name are both accepted, and both
  reported);
* two threads that change one name at once: overlapping WRITEs of a name are both
  accepted; a WRITE that looks the name up between a reader's erase and insert, or after
  a delete race has unregistered it, replaces a complete file; a DELETE between another
  thread's look-up and its `readers++` removes the file under the reader; two deletes, or
  two readers that end at once, can abort the server. All of them are in `raced`, and `CountExact`,
  `MapAgrees`, `ReaderSeesOneFile` and `WholeKept` say nothing of such a name until the
  next start;
* between the registration of a written file and the `close` of its stream a reader
  may find a shorter file (`RegisteredOnDisk` speaks of threads that are through);
* a partial file of an interrupted WRITE is registered at the next start; a `close`
  that fails is not noticed (`leftover`);
* Ctrl-C can cut off the last request accepted, when it came behind the reaper's final
  pass, and the server aborts when that request's thread is then the only one in the map
  that is cleared; it also aborts, at any time, when the map is read while that thread is
  being put into it (`CutShort`, `AbortExplained`);
* the answer to a DELETE that comes after its client has given up is taken by the next
  client for its own, which may then report a deletion that did not happen:
  `ReportedOnce` counts the answers and cannot tell whose they are;
* a source called X.bin is emptied by the file for its own packed bits before it is read,
  so that nothing comes back (`Emptied` in `Restored`); the packed bits of a source
  `encoded_data.*` are overwritten by the map of codes, and `Restored` excepts it;
* an empty file, or one with a single different character, crashes WRITE
  (`Finishes`).

Two properties are about what stays true *in spite of* these: `PinnedCopy` speaks
of the file of the pinned thread, not of the requested one, and `OneSource` of some
client's file. `LockStep` is stated for a single request, since a thread of an
earlier client may accept any client's ACK (the sender is not looked at).
`RegisteredOnDisk` speaks of a name that one thread has opened, on a disk that does
not fail: two threads that write one name overwrite each other, and a `close` that
fails leaves a registered file incomplete. With a single client it promises that
client's file; with more, some client's, since a thread takes blocks from anyone.

**Bounds.** Blocks of 2 bytes and files of up to 3 blocks reach first, middle,
last, missing and empty block; two retries reach "again" and "give up" (ReadPrompt,
WritePrompt and ReadWrongFile use the code's 5, the other runs 2); one loss, in any
queue at any moment, hits every message of an exchange once; queues of 2 or 3 so
that overflow happens. Two requests are enough for a stale thread and a fresh
client, and for two threads in the map. Three threads in the registry are a reader
between two writers, a delete between two reads, or a listing with two others; one
restart shows what the directory alone keeps. Three ids in the pool are a joined
key, one at work and one behind the reaper's iterator. Six bytes of three
characters reach every shape of code tree of up to three leaves, each character
also as part of the delimiter; the profiles add trees of depth five; of the names, one
of each kind that `deflate` treats differently is enough. The theorems
do not depend on any of these. No run uses symmetry. `CHECK_DEADLOCK FALSE` in every run: once the user
has issued `MaxRequests` requests and all of them ended, the system really stops.

**Fairness.** Weak fairness of the client's steps, of the listener's steps and of
each thread's steps. Justified by the code: they are processes and kernel
threads, none of them waits for a lock, and each `recvfrom` of a transfer
has `SO_RCVTIMEO` of 5 s, so a step is always possible while one is due. The user
and the network are not fair: no further request and no loss need ever happen.
In the pool the listener (its receive has a timeout), the reaper (it sleeps 15 s at
most) and the frame of each thread are weakly fair; its handler is not, as it need not
return, and nobody ever has to press Ctrl-C. `Reaped` holds without any assumption on
the handlers; `ShutsDown` has `HandlersReturn` for its premise. The compression is one sequential program, fair as a whole. The registry
has no liveness property.

**Mutants.** Operators named `mut...` are defective versions of the definition that
follows them: a forgotten `retry--`, an off-by-one in "short", a missing check of
the sender's port, a forgotten insert, and so on. `PROJECT.json` pairs each
property of each passing run with one that breaks it. They are used nowhere else.

## 4. The proofs

Seven modules prove theorems, for every value of the constants their `ASSUME`s allow.
`LoopbackLemmas` holds what those of the transfers share, about packets and sockets.

| Theorem | Statement | Module |
|---|---|---|
| `TypeCorrect` | `Spec => []TypeOK` | ReadTransferProofs |
| `ReadsPinnedCopy` | `Spec => []PinnedCopy` | ReadTransferProofs |
| `ReadsInLockStep` | `Spec => []LockStep` | ReadTransferProofs |
| `FilesNeverForgotten` | `Spec => []NeverForgotten` | ReadTransferProofs |
| `ReadImplementsCopy` | `Spec => CopySpec` | ReadTransferProofs |
| `WriteTypeCorrect` | `Spec => []TypeOK` | WriteTransferProofs |
| `NoMixedFiles` | `Spec => []OneSource` | WriteTransferProofs |
| `RegisteredAreWhole` | `Spec => []RegisteredOnDisk` | WriteTransferProofs |
| `SuccessMeansStored` | `Spec => []OkMeansStored` | WriteTransferProofs |
| `TypeCorrect` | `Spec => []TypeOK` | ThreadPoolProofs |
| `HandlesReachable` | `Spec => []Reachable` | ThreadPoolProofs |
| `JoinsOnlyFinished` | `Spec => []JoinsFinished` | ThreadPoolProofs |
| `ShutdownCutsLast` | `Spec => []CutShort` | ThreadPoolProofs |
| `AbortsExplained` | `Spec => AbortExplained` | ThreadPoolProofs |
| `TypeCorrect` | `Spec => []TypeOK` | FileRegistryProofs |
| `CountsExact` | `Spec => []CountExact` | FileRegistryProofs |
| `MapAndDirectoryAgree` | `Spec => []MapAgrees` | FileRegistryProofs |
| `ReadersSeeOneFile` | `Spec => []ReaderSeesOneFile` | FileRegistryProofs |
| `AbortsExplained` | `Spec => []AbortExplained` | FileRegistryProofs |
| `WholeFilesKept` | `Spec => WholeKept` | FileRegistryProofs |
| `CommandTypes` | `Spec => []TypeOK` | CommandsProofs |
| `ListingArrives` | `Spec => []ListingCopy` | CommandsProofs |
| `ConfirmedOnce` | `Spec => []ReportedOnce` | CommandsProofs |
| `InPlaceSafe` | `Spec => []InPlace` | HuffmanProofs |
| `CodesPrefixFree` | `Spec => []PrefixFree` | HuffmanProofs |
| `CodesOptimal` | `Spec => []Optimal` | HuffmanProofs |
| `DelimiterFound` | `Spec => []SeparatedAtDelimiter` | CompressionProofs |
| `FileRestored` | `Spec => []Restored` | CompressionProofs |

The assumption of the transfers that costs generality is `9800 + MaxRequests <= 65535`:
thread ports are then distinct 16-bit ports. (The code wraps silently; that is modelled
in `ThreadPool`, whose theorems allow any ports.) `ClientPort` is not a garbage port: a
client that sends its ACKs to itself would take them for an illegal opcode.

**Reading.** `PinnedCopy` is not inductive. What the client stores next is already in
its queue, put there by some thread, maybe one that has moved on since or has
ended; so the invariant `IInv` adds

* `ClientQueue`: every datagram at port 9799 is an ERROR, or a block of the
  file of the thread whose port it comes from, numbered as the thread's file
  numbers it (true of stale and repeated ones as well, because a thread's file
  never changes);
* `ClientState`: the local file is exactly the blocks before `expected` of the
  pinned thread's file, nothing is stored before a port is pinned, and the
  listener's port is never the source of a copy;
* `ThreadState`: unborn threads are free, others have a name, and a thread that
  waits has a try left.

Each action has a lemma (`...Step`) that it preserves `IInv`; `NextInv` collects
them, and `Invariant` is the temporal conclusion. `BlockTiling` (LoopbackLemmas) is the
arithmetic behind it: the next block extends the blocks before it and is short
exactly when it reaches the end, a full last block being the case where nothing
short follows. `WireRoundTrip` says a 16-bit number survives the wire for a
receiver that masks. For the refinement, a step that changes `cport`, `out` or `cpc`
is a step of `FileCopy`, everything else stutters; the sequence numbers cannot
confuse blocks across a wrap since `readDataBlock` numbers blocks from the file's
start and a number 0 is never sent with data. `NeverForgotten` needs only which
thread is between erase and insert (`MapNext`).

`LockStep` is about numbers, and holds while one client runs alone. `InStep` adds where
the numbers on the way are: an ACK in the thread's queue numbers a stored block, a block
in the client's queue is not beyond its thread's, and the client expects at most the
block after its thread's. So an ACK moves the thread on only from the block the client
stored last. The numbers never come near the wrap of the 16 bits: the signed decoding
holds the thread at half of a byte's values (`CharBlockBelowHalf`).

**Writing.** A write thread takes a block from whoever sends one, so where a block
comes from says nothing; what keeps two files apart is that a thread and the clients
talk in turns. `IInv` says of the talk of each thread

* `OneUnderWay`: one ACK of the thread, or one block for it, is under way, never two
  and never both (an ACK is sent where a block was taken, a block where an ACK was,
  and neither side repeats what it sent: a timeout sends nothing);
* `ClientQueue`, `ThreadQueue`: the ACK under way is that of the last block written;
  the block is the next one of a local file of which the thread has the beginning;
* `Partner`: a client that is pinned to the thread sent that block, or the thread has
  its file up to the block it waits an ACK for. A client is pinned by its first ACK,
  and goes on only when that is ACK 0, when the thread has nothing yet; from then on
  nobody else has a block or an ACK of this thread;

and besides that `Streams` (what a thread has is the blocks before its number, all of
the file when it goes on to register it), `NewNames` (a thread opens no name of the
database: in this module nobody reads or deletes, so that the map has them all) and the bookkeeping of `ThreadState` and
`ClientState`. `Quiet` collects what most steps do to the queues: lose datagrams, or
add ones that are not part of the talk; `TalkKept` is what follows. Numbers that wrap
are no exception: block 0 has no data, so that a transfer ends there.

`RegisteredOnDisk` needs a second invariant, what each thread did to its file: it opens
it once (`OpenedOnce`); when it alone opened that name, the disk holds what it flushed,
and after `close` all it accepted (`OnDisk`); and a new name in the map was registered by
a thread that had accepted a whole local file (`Registered`). `OneClient` says that with
one request every name and block there is, is that client's.

`OkMeansStored` is reported before the last block is acknowledged. A single write that
nothing disturbs passes through stages (`Stages`), from the request under way to the
file registered; in each just one process can move, and no timeout can fire, since the
side that is to move has not had its turn. The stage of a client that reports success is
the last block under way to a waiting thread, or a later one.

**Deleting and listing.** `TInv` is the types, and what goes with them: the queues hold
packets these programs send, and a thread is at a step of the handler its opcode chose.

`ListingCopy` needs `LInv`. As long as no listing has been asked for, or its thread has
not sent, no block is under way and the client has none (`NothingListed`). After that
every block under way is a block of that thread's lines (`BlocksOf`), and the client has
its first blocks up to the one it expects (`Written`). Both rest on ls.txt being that
thread's alone since it was opened, or removed (`ListFileOf`); two listings share the
file, which is why the property is about one. Nothing is assumed of the size: a
listing whose numbers are misread just stops.

`ReportedOnce` needs `DInv`, a count. A thread that passed `fs::remove` and the erase, or
whose ACK is on its way, is `Pending`; a removed file whose entry is out, or that no thread
is still about to erase, is `Gone`. The confirmations given and those pending are no more than the files
gone (`Counted`): a thread that erases adds one to both, an ACK that is lost takes one
from the left, and an ACK taken moves from pending to given. `Traces` says that whatever
is missing has a thread that removed it. The look-up `files[filename]` of a deleted name
puts its entry back. It takes one thread to erase the entry, one to put it back and one
to find it there; so the count holds for two DELETEs of a name, and not for three. A
deleted ls.txt is made anew by the next listing. Both are conditions of the property
(`Paired`), read off the state. For a single request `Alone` says more: an answer is
sent only when the name has left directory and map. `CommandsAssumption` asks for a
finite directory; the counts need it.

**The thread pool.** `Reachable`, `CutShort` and `AbortExplained` are about handles of
threads. `IInv` says where each one is: in the listener's hand between the start of the
thread and the assignment (`InHand`), in the map (`Handles`), or joined and behind the
reaper's iterator until its key is erased (`Joined`, `Keys`). An empty entry is always
the one the listener is about to assign (`Empty`); so a thread that finds no entry can
only be the last one. `Marked` orders a thread's last steps (socket closed, then flag),
which gives `JoinsFinished`. `Late` says that what the final pass has left unjoined is
the last request's, because the listener sees the stop flag before it accepts another;
`LastOnly` carries that to the end. Only `PoolAssumption` is used: any number of
requests, any first port and range of ports, any foreign ports.

**The map and the directory.** What `CountExact` and `MapAgrees` promise of a settled
name is broken, call by call, while a thread is changing it. `IInv` says, of every name
that is not `raced`, both halves: `Agrees` while nobody is changing it, and `Midway`
while one thread is (its local `readers` is the count plus or minus one, the entry is
out between erase and insert, the file is its own and incomplete while it uploads,
nobody reads what is about to be removed). `Unraced` is the heart: a thread whose name
stays unraced is alone in changing it, so it may rely on `Knows` and must only show
what it `Owes`. `Elsewhere` disposes of all other names, and `ReadersStep` of the
arithmetic of the counts. The theorems allow any names, any number of requests and
restarts; `RegistryAssumption` only says that the names are distinct, and that the
list file is not in the directory at first.

**The code tree.** `InPlace` (the first loop of `generateHuffmanCodes` overwrites
nothing it still needs and stays inside of its array) is inductive once `ArrayOK` says
that the array has one element for each character of the file, and that the indices
are numbers. The counts of leaves, roots and nodes that `InPlace` relates do the rest.

`PrefixFree` is about the result of all three loops. `Parents` says that the first one
leaves parents that do not decrease, no three of them equal: a tree in which every inner
node has two children. `Levels` is the second loop: the borders of the levels passed
(`Shape`) account for every element written as a length, and each level has at most
twice the inner nodes of the one above. `Coding` is the third: the codes made so far
increase (`Before`: they differ first where the later one has a 1), which excludes
prefixes, and what is left of the code space (`Free`) is exactly what the remaining
lengths need, so that adding one never overflows and the last code is all ones.
No induction over trees is needed; where a set of positions has a smallest one,
`WellFoundedInduction` gives it (`Least`).

**The shortest codes.** `CodesOptimal` is the textbook theorem about Huffman's algorithm,
proved of this array program, without trees. `History`: in the first loop there is an order
of the nodes (`V` their weights, `b` what they are, `c` how many weights were taken before)
in which the loop takes them; the weights do not decrease along it, merge x takes the nodes
2x and 2x + 1, and the array holds what the order says (`Explained`; `RootTaken` and
`LeafTaken` are the steps). When the tree is built, `Tree` is the order of all of its
2n - 1 nodes. Of lengths for the nodes not yet merged that Kraft's inequality admits
(`Fitting`), `Exchange` and `Shorten` make ones that cost no more and give the two lightest
nodes the same length (the measure `Ordering` falls, and a set of numbers has a least one);
`AfterMerge` replaces the two by the node they make, and `MergesCost` adds up: no such
lengths cost less than the sum of the weights built (`TreeCost`). `Heights`: in the second
loop the lengths written, with `depth` for the others, and the weights still to be looked at
always cost that sum together (`HeightsReached`; `LevelHeights` is the step). When no weight
is left, the lengths themselves do (`Best`). The sums are by induction over positions
(`UpTo`): a set of numbers which has a number's successor with it is all of them.

**The compressed file.** `DelimiterFound` is a fact about sizes. The map file holds a
key, the size of its code in eight bytes, and digits; FE behind 7F could only be the size
of the code of the character 7F. `Lightest` says that the first loop adds the two lightest
weights there are, so that a weight two levels up is at least twice as large
(`Shallow`, `Depths`): the weights of a file of at most `INT_MAX` bytes leave room for 62
levels (`Fits`, and `Short` for the codes), and a size is never FE. `FlattenLayout` says
where in a flattened sequence each piece lies; `MapLayout` applies it to the entries,
`CodesLaid` to the packed codes. `Stages` carries from action to action what the files hold.

`FileRestored` is about every name but `encoded_data.*`: those of which `deflate`
overwrites nothing (`ThreeFiles`), and X.bin, which it empties (`Emptied`); `Written` says
what the files on the way hold for each, by `Source` and `PackedFile`. For X.bin
there are no bits (`NothingPacked`), and `Emptying` is that nothing is read or written. For
the others it needs two more invariants. `Decoding`: what is unread of the map
file starts at the m-th entry, and the first m characters have been read with their codes
(`EntryRead` is one step). `Inflating`: the bits of the data file, those of the padding
included, are the codes of a sequence of characters, the file and then copies of
the most frequent character, up to a beginning of one code more (`Stream`, made
by `StreamMade`); what is written is its first m characters, and `currentCode` what has been
read of the next one's code (`ReadTo`). A bit more completes that code or no code at all,
because none is a prefix of another (`BitRead`). `PackedBits` says that `readBinaryFile`
undoes the packing.

**Only model-checked:** liveness, which is beyond this prover: `ClientTerminates`,
`ThreadsTerminate`, `ReadOutcome`, `WriteOutcome`, `CommandsTerminate`, `ListOutcome`,
`Reaped`, `ShutsDown`, `Finishes`.

## 5. Not modelled

* The unit tests under `src/gtest`: they test the packet constructors and the
  database on the author's machine and hold no state of the system.
* The LZ77 part of `TFTPCompression.cpp` is commented out; `reverseMap` is not
  called.
* What a data race does inside of a `std::map` node: each call is taken as atomic,
  except where a call on a missing entry is undefined by itself.
* Clients of different commands in one behaviour at packet level: the registry has
  all four handlers together, without packets, and each packet-level module has one
  kind of client, so that the branches only a mixture reaches (a DELETE client that
  takes a block for its answer) are left out.

## 6. Plan

What is left, in this order: an abstract write and its refinement; a composition of
clients of different commands, with the illegal-opcode branches of each client.
