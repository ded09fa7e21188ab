---------------------------- MODULE FileRegistry ----------------------------
(***************************************************************************)
(* What the threads of all four requests do to the two things they share,  *)
(* the `files' map and the directory serverDatabase/, without the packets: *)
(* a transfer may take any time and end at any block.  No lock guards the  *)
(* map; each call on it is a step.  The process may be killed, or abort,   *)
(* and be started again: the directory survives, the map does not.         *)
(***************************************************************************)
EXTENDS FiniteSets, Sequences, FilesMap

CONSTANTS Names,        \* names of files, in the order std::map keeps them
          Initial,      \* the names in serverDatabase/ at first
          ListFile,     \* "ls.txt"
          MaxRequests,  \* requests in one behaviour
          MaxRestarts   \* restarts of the server

AllNames == {Names[i] : i \in DOMAIN Names}
Threads  == 1 .. MaxRequests

ASSUME RegistryAssumption ==
    /\ Names \in Seq(STRING)
    /\ \A i, j \in DOMAIN Names : Names[i] = Names[j] => i = j
    /\ ListFile \in AllNames
    /\ Initial \subseteq AllNames \ {ListFile}
    /\ MaxRequests \in Nat /\ MaxRestarts \in Nat

VARIABLES
    files,      \* the map
    disk,       \* name -> [by: whose bytes it holds, whole: all of them]
    status,     \* "up", "killed" or "aborted"
    restarts,
    next,       \* the next thread (not reset by a restart, unlike nextClientId)
    op,         \* what the thread was asked for
    tfile,      \* the name it works on: ListFile for a listing
    tpc,
    treaders,   \* its local `readers'
    seen,       \* a reader: the states of the file it has read blocks from
    at,         \* a listing: the name under its iterator, "" at the end
    \* history
    raced,      \* names two threads were in the middle of changing at once
    leftover    \* names whose file was left incomplete and is registered

shared == <<files, disk, status, restarts>>
locals == <<op, tfile, tpc, treaders, seen, at>>
vars   == <<shared, next, locals, raced, leftover>>

NoName == ""

Init ==
    /\ disk = [f \in Initial |-> [by |-> {0}, whole |-> TRUE]]
    /\ files = initializeFileMap(disk)
    /\ status = "up" /\ restarts = 0 /\ next = 1
    /\ op = [t \in Threads |-> "none"]
    /\ tfile = [t \in Threads |-> NoName]
    /\ tpc = [t \in Threads |-> "done"]
    /\ treaders = [t \in Threads |-> 0]
    /\ seen = [t \in Threads |-> {}]
    /\ at = [t \in Threads |-> NoName]
    /\ raced = {} /\ leftover = {}

---------------------------------------------------------------------------
(* Threads.                                                                *)

\* The listener starts a thread.  READ and WRITE ask for <name>compress.bin,
\* never for the list file.
Accept(kind, f) ==
    /\ status = "up"
    /\ next \in Threads
    /\ f = ListFile => kind \in {"delete", "list"}
    /\ kind = "list" => f = ListFile
    /\ next' = next + 1
    /\ op' = [op EXCEPT ![next] = kind]
    /\ tfile' = [tfile EXCEPT ![next] = f]
    /\ tpc' = [tpc EXCEPT ![next] = "start"]
    /\ UNCHANGED <<shared, treaders, seen, at, leftover>>

At(t, kind, label) == status = "up" /\ op[t] = kind /\ tpc[t] = label
Goto(t, label)     == tpc' = [tpc EXCEPT ![t] = label]

mutFileExists(f) == f \in DOMAIN files /\ files[f] > 0  \* mutant: asks for readers
fileExists(f) == f \in DOMAIN files

\* files.erase(files.find(f)): without the entry the process aborts.
Erase(t, to) ==
    /\ IF fileExists(tfile[t])
       THEN files' = mapErase(files, tfile[t]) /\ Goto(t, to) /\ UNCHANGED status
       ELSE status' = "aborted" /\ UNCHANGED <<files, tpc>>
    /\ UNCHANGED <<disk, restarts, next, op, tfile, treaders, seen, at, leftover>>

\* readers = files[f], then readers++ or readers--.
Get(t, to, delta) ==
    LET m == mapInsert(files, tfile[t], 0) IN
    /\ files' = m
    /\ treaders' = [treaders EXCEPT ![t] = m[tfile[t]] + delta]
    /\ Goto(t, to)
    /\ UNCHANGED <<disk, status, restarts, next, op, tfile, seen, at, leftover>>

Insert(t, to, n) ==
    /\ files' = mapInsert(files, tfile[t], n)
    /\ Goto(t, to)
    /\ UNCHANGED <<disk, status, restarts, next, op, tfile, treaders, seen, at, leftover>>

\* A step that only decides where the thread goes.
Branch(t, label) == Goto(t, label) /\ UNCHANGED <<shared, next, op, tfile, treaders, seen, at, leftover>>

---------------------------------------------------------------------------
(* handleReadRequest.                                                      *)

ReadStart(t) ==
    /\ At(t, "read", "start")
    /\ Branch(t, IF fileExists(tfile[t]) THEN "acqGet" ELSE "done")

mutCountReader(t) == At(t, "read", "acqGet") /\ Branch(t, "send") \* mutant: no readers++
CountReader(t) ==
    \/ At(t, "read", "acqGet")    /\ Get(t, "acqErase", 1)
    \/ At(t, "read", "acqErase")  /\ Erase(t, "acqInsert")
    \/ At(t, "read", "acqInsert") /\ Insert(t, "send", treaders[t])

\* A block is read from the file, which readDataBlock opens anew each time.
\* The loop ends at a short or missing block, or when the client is silent.
mutSendBlock(t) == tpc[t] = "send" /\ Branch(t, "relGet") \* mutant: a listing ends like a read
SendBlock(t) ==
    /\ tpc[t] = "send" /\ status = "up"
    /\ seen' = [seen EXCEPT ![t] = @ \cup {disk[f] : f \in {tfile[t]} \cap DOMAIN disk}]
    /\ Goto(t, IF op[t] = "list" THEN "done" ELSE "relGet") \/ tpc' = tpc
    /\ UNCHANGED <<shared, next, op, tfile, treaders, at, leftover>>

DropReader(t) ==
    \/ At(t, "read", "relGet")    /\ Get(t, "relErase", -1)
    \/ At(t, "read", "relErase")  /\ Erase(t, "relInsert")
    \/ At(t, "read", "relInsert") /\ Insert(t, "done", treaders[t])

---------------------------------------------------------------------------
(* handleWriteRequest.                                                     *)

WriteStart(t) ==
    /\ At(t, "write", "start")
    /\ Branch(t, IF fileExists(tfile[t]) THEN "done" ELSE "open")

\* The ofstream creates or empties the file; it may also fail.
OpenFile(t, from, to) ==
    /\ tpc[t] = from
    /\ disk' = [f \in DOMAIN disk \cup {tfile[t]} |->
                  IF f = tfile[t] THEN [by |-> {t}, whole |-> FALSE] ELSE disk[f]]
    /\ leftover' = leftover \ {tfile[t]}
    /\ Goto(t, to)
    /\ UNCHANGED <<files, status, restarts, next, op, tfile, treaders, seen>>

WriteOpen(t) ==
    /\ At(t, "write", "open")
    /\ \/ OpenFile(t, "open", "data") /\ UNCHANGED at
       \/ Branch(t, "done")

\* What closing thread t's stream leaves under its name: its own file, if
\* nobody else opened or removed it, else perhaps a mixture.
Closed(t, whole) ==
    LET f == tfile[t] IN
    IF f \notin DOMAIN disk THEN {disk}
    ELSE IF disk[f].by = {t} THEN {[disk EXCEPT ![f].whole = whole]}
    ELSE {disk, [disk EXCEPT ![f] = [by |-> @.by \cup {t}, whole |-> FALSE]]}

\* Every block arrived and the name is registered; or the client gave up, a
\* write failed, and the file stays as it is.
WriteBlocks(t) ==
    /\ At(t, "write", "data")
    /\ \/ Branch(t, "insert")
       \/ /\ disk' \in Closed(t, FALSE)
          /\ Goto(t, "done")
          /\ UNCHANGED <<files, status, restarts, next, op, tfile, treaders, seen, at, leftover>>

mutRegister(t) == At(t, "write", "insert") /\ Branch(t, "close") \* mutant: no insert
Register(t) == At(t, "write", "insert") /\ Insert(t, "close", 0)

\* close flushes; that this may fail goes unnoticed.
CloseFile(t) ==
    \/ disk' \in Closed(t, TRUE) /\ UNCHANGED leftover
    \/ disk' \in Closed(t, FALSE) /\ leftover' = leftover \cup {tfile[t]}

WriteClose(t) ==
    /\ At(t, "write", "close")
    /\ CloseFile(t)
    /\ Goto(t, "done")
    /\ UNCHANGED <<files, status, restarts, next, op, tfile, treaders, seen, at>>

---------------------------------------------------------------------------
(* handleDeleteRequest.                                                    *)

mutDeleteStart(t) ==                                \* mutant: asks the directory alone
    /\ At(t, "delete", "start")
    /\ Branch(t, IF tfile[t] \in DOMAIN disk THEN "exists" ELSE "done")
DeleteStart(t) ==
    /\ At(t, "delete", "start")
    /\ Branch(t, IF fileExists(tfile[t]) THEN "find" ELSE "done")

\* canDelete: find, then operator[], which makes an entry that has gone.
CanFind(t) ==
    /\ At(t, "delete", "find")
    /\ Branch(t, IF fileExists(tfile[t]) THEN "count" ELSE "done")

mutCanCount(t) == At(t, "delete", "count") /\ Branch(t, "exists")  \* mutant: readers ignored
CanCount(t) ==
    LET m == mapInsert(files, tfile[t], 0) IN
    /\ At(t, "delete", "count")
    /\ files' = m
    /\ Goto(t, IF m[tfile[t]] = 0 THEN "exists" ELSE "done")
    /\ UNCHANGED <<disk, status, restarts, next, op, tfile, treaders, seen, at, leftover>>

\* fs::exists; a file that is not there is answered with an ERROR.
CheckFile(t) ==
    /\ At(t, "delete", "exists")
    /\ Branch(t, IF tfile[t] \in DOMAIN disk THEN "remove" ELSE "done")

\* fs::remove; that it found nothing to remove goes unnoticed, an exception
\* is answered with an ERROR.
RemoveFile(t) ==
    /\ At(t, "delete", "remove")
    /\ \/ /\ disk' = [f \in DOMAIN disk \ {tfile[t]} |-> disk[f]]
          /\ Goto(t, "erase")
          /\ UNCHANGED <<files, status, restarts, next, op, tfile, treaders, seen, at, leftover>>
       \/ Branch(t, "done")

EraseEntry(t) == At(t, "delete", "erase") /\ Erase(t, "done")

---------------------------------------------------------------------------
(* handleLSRequest.                                                        *)

\* The first entry of the map behind position i of the order, "" if none.
EntryFrom(m, i) ==
    LET behind == {j \in DOMAIN Names : j > i /\ Names[j] \in DOMAIN m} IN
    IF behind = {} THEN NoName
    ELSE Names[CHOOSE j \in behind : \A k \in behind : j <= k]
Position(f) == CHOOSE i \in DOMAIN Names : Names[i] = f

\* ls.txt is created, and the range-for takes the map's begin().
ListOpen(t) ==
    /\ At(t, "list", "start")
    /\ \/ OpenFile(t, "start", "list") /\ at' = [at EXCEPT ![t] = EntryFrom(files, 0)]
       \/ Branch(t, "done")

\* One entry written, and the iterator moved.  When another thread has erased
\* the entry under it, the iterator dangles: the process aborts, or reads on.
ListEntry(t) ==
    /\ At(t, "list", "list")
    /\ at[t] # NoName
    /\ \/ at' = [at EXCEPT ![t] = EntryFrom(files, Position(@))] /\ UNCHANGED status
       \/ at[t] \notin DOMAIN files /\ status' = "aborted" /\ UNCHANGED at
    /\ UNCHANGED <<files, disk, restarts, next, op, tfile, tpc, treaders, seen, leftover>>

\* close, which may fail unnoticed; then the file is sent like a read, without
\* a reader count.
ListClose(t) ==
    /\ At(t, "list", "list")
    /\ at[t] = NoName
    /\ CloseFile(t)
    /\ Goto(t, "send")
    /\ UNCHANGED <<files, status, restarts, next, op, tfile, treaders, seen, at>>

---------------------------------------------------------------------------
(* The process.                                                            *)

\* It may be killed at any moment (a shutdown on request waits for the
\* threads, which is this step with none of them running).
Kill ==
    /\ status = "up"
    /\ status' = "killed"
    /\ UNCHANGED <<files, disk, restarts, next, locals, leftover>>

\* A new process: no thread, and initializeFileMap registers every file.
Restart ==
    /\ status # "up"
    /\ restarts < MaxRestarts
    /\ restarts' = restarts + 1
    /\ status' = "up"
    /\ files' = initializeFileMap(disk)
    /\ tpc' = [t \in Threads |-> "done"]
    /\ leftover' = {f \in DOMAIN disk : ~disk[f].whole}
    /\ raced' = {}
    /\ UNCHANGED <<disk, next, op, tfile, treaders, seen, at>>

ThreadStep(t) ==
    \/ ReadStart(t) \/ CountReader(t) \/ SendBlock(t) \/ DropReader(t)
    \/ WriteStart(t) \/ WriteOpen(t) \/ WriteBlocks(t) \/ Register(t) \/ WriteClose(t)
    \/ DeleteStart(t) \/ CanFind(t) \/ CanCount(t) \/ CheckFile(t) \/ RemoveFile(t) \/ EraseEntry(t)
    \/ ListOpen(t) \/ ListEntry(t) \/ ListClose(t)

\* Between its look-up and its last update of the map (of the directory, for
\* a listing) a thread is changing its name.
Changing(t) ==
    \/ tpc[t] \in {"acqGet", "acqErase", "acqInsert", "relErase", "relInsert",
                   "open", "data", "insert", "close",
                   "count", "exists", "remove", "erase", "list"}
    \/ tpc[t] = "send" /\ op[t] = "list"

Contended ==
    {f \in AllNames : \E t, u \in Threads :
        t # u /\ Changing(t) /\ Changing(u) /\ tfile[t] = f /\ tfile[u] = f}

Next ==
    \/ /\ \/ \E kind \in {"read", "write", "delete", "list"}, f \in AllNames : Accept(kind, f)
          \/ \E t \in Threads : ThreadStep(t)
          \/ Kill
       /\ raced' = raced \cup Contended'
    \/ Restart

Spec == Init /\ [][Next]_vars
---------------------------------------------------------------------------
(* Properties.                                                             *)

Versions == [by : SUBSET (Threads \cup {0}), whole : BOOLEAN]

Labels == [none   |-> {},
           read   |-> {"start", "acqGet", "acqErase", "acqInsert", "send",
                       "relGet", "relErase", "relInsert"},
           write  |-> {"start", "open", "data", "insert", "close"},
           delete |-> {"start", "find", "count", "exists", "remove", "erase"},
           list   |-> {"start", "list", "send"}]

\* Type correctness; a thread is where its own handler can be.
TypeOK ==
    /\ DOMAIN files \subseteq AllNames /\ \A f \in DOMAIN files : files[f] \in Int
    /\ DOMAIN disk \subseteq AllNames /\ \A f \in DOMAIN disk : disk[f] \in Versions
    /\ status \in {"up", "killed", "aborted"}
    /\ next \in 1 .. MaxRequests + 1
    /\ op \in [Threads -> DOMAIN Labels]
    /\ \A t \in Threads : tpc[t] \in Labels[op[t]] \cup {"done"}
    /\ tfile \in [Threads -> AllNames \cup {NoName}]
    /\ treaders \in [Threads -> Int]
    /\ at \in [Threads -> AllNames \cup {NoName}]
    /\ raced \subseteq AllNames /\ leftover \subseteq AllNames

\* The threads that count as readers of f.
Readers(f) ==
    {t \in Threads : tfile[t] = f /\ op[t] = "read"
                     /\ tpc[t] \in {"send", "relGet", "relErase", "relInsert"}}

Settled(f) == status = "up" /\ f \notin raced /\ \A t \in Threads : tfile[t] = f => ~Changing(t)

\* The map's count of a file is the number of its readers, whatever other
\* threads do to other names, and whatever went on before, as long as no two
\* threads were changing this name at once since the server was started.
CountExact ==
    \A f \in AllNames : Settled(f) =>
        /\ f \in DOMAIN files => files[f] = Cardinality(Readers(f))
        /\ Readers(f) # {} => f \in DOMAIN files

\* Then, too, the map and the directory agree: a registered file is there
\* and complete, unless its close failed or it was already incomplete when
\* the server started; a complete file is registered, but for the listing.
MapAgrees ==
    \A f \in AllNames : Settled(f) =>
        /\ f \in DOMAIN files => f \in DOMAIN disk /\ (disk[f].whole \/ f \in leftover)
        /\ f \in DOMAIN disk /\ disk[f].whole => f \in DOMAIN files \/ f = ListFile

\* As long as no two threads have been changing its name at once since the
\* server was started, a reader sends blocks of one and the same file, and
\* while it sends the file is there: no delete or write that starts while it
\* sends, or that has ended before it starts, gets at it.  One that overlaps
\* with the reader's look-up or with its readers++ or readers-- does.
ReaderSeesOneFile ==
    \A t \in Threads :
        status = "up" /\ op[t] = "read" /\ tpc[t] \in {"send", "relGet"} /\ tfile[t] \notin raced
            => tfile[t] \in DOMAIN disk /\ seen[t] \subseteq {disk[tfile[t]]}

\* The server aborts only where a name was changed by two threads, or where
\* an entry was erased under a listing's iterator.
AbortExplained ==
    status = "aborted" =>
        \E t \in Threads :
            \/ tpc[t] \in {"acqErase", "relErase", "erase"} /\ tfile[t] \in raced
            \/ tpc[t] = "list" /\ at[t] \notin DOMAIN files

\* A complete file whose name no two threads have been changing at once since
\* the server was started is never rewritten, and removed only while nobody
\* reads it: a WRITE that is retried after the first has ended is refused,
\* also after a restart.  Where two threads overlap on the name the code does
\* not keep this: a WRITE that looks it up between a reader's erase and insert,
\* or before an overlapping WRITE has registered it, replaces a complete file,
\* and a DELETE that passes canDelete before a readers++ removes it under the
\* reader.
WholeKept ==
    [][\A f \in (DOMAIN disk) \ (raced' \cup {ListFile}) :
          disk[f].whole =>
             IF f \in DOMAIN disk' THEN disk'[f] = disk[f] ELSE Readers(f) = {}]_vars

=============================================================================
