----------------------------- MODULE ThreadPool -----------------------------
(***************************************************************************)
(* clientThreads, and the three kinds of threads that use it without a     *)
(* lock: the listener (start), which starts a thread per request; these    *)
(* threads, as far as handleClientThread frames a request; and the reaper  *)
(* (destroyClientThreads), which joins them.  Each call on the map is a    *)
(* step.  The n-th request has the key 9800 + n, written n here.           *)
(***************************************************************************)
EXTENDS Integers, FiniteSets

CONSTANTS MaxRequests,  \* requests in one behaviour
          FirstPort,    \* 9800: the n-th thread binds FirstPort + n ...
          PortCount,    \* ... of which htons keeps 16 bits (65536)
          ServerPort,   \* the listener's
          Foreign       \* ports other processes may have at some time

Requests == 1 .. MaxRequests

ASSUME PoolAssumption ==
    /\ MaxRequests \in Nat \ {0}
    /\ FirstPort \in Nat /\ PortCount \in Nat \ {0}
    /\ ServerPort \in Nat /\ Foreign \subseteq Nat

VARIABLES
    status,     \* "up", or how the process ended: "stopped", "exited", "aborted"
    stop,       \* destroyTFTPServer
    nextClientId,
    lpc,        \* the listener
    entry,      \* key -> "absent", or what its std::thread is: "empty"
                \*        (default-constructed), "thread", "joined"
    flag,       \* key -> its bool (FALSE when absent)
    tpc,        \* key -> where its thread is
    bound,      \* keys whose socket is open
    rpc,        \* the reaper
    cursor,     \* the key under its iterator, 0 before the first
    keyToDelete

clientThreads == <<entry, flag>>
threads == <<tpc, bound>>
reaper  == <<rpc, cursor, keyToDelete>>
vars    == <<status, stop, nextClientId, lpc, clientThreads, threads, reaper>>

Init ==
    /\ status = "up" /\ stop = FALSE
    /\ nextClientId = 1 /\ lpc = "check"
    /\ entry = [t \in Requests |-> "absent"]
    /\ flag = [t \in Requests |-> FALSE]
    /\ tpc = [t \in Requests |-> "none"]
    /\ bound = {}
    /\ rpc = "test" /\ cursor = 0 /\ keyToDelete = {}

---------------------------------------------------------------------------
(* The listener.                                                           *)

\* `while (!destroyTFTPServer)'; a setsockopt that fails breaks out too.
CheckStop ==
    /\ lpc = "check"
    /\ \/ lpc' = IF stop THEN "join" ELSE "recv"
       \/ lpc' = "join"
    /\ UNCHANGED <<status, stop, nextClientId, clientThreads, threads, reaper>>

\* Nothing in 5 seconds, a signal, or a datagram that is only answered with
\* an ERROR; one with another mode than octet has used up an id.
NoRequest ==
    /\ lpc = "recv"
    /\ nextClientId' \in {nextClientId, nextClientId + 1} /\ nextClientId' <= MaxRequests + 1
    /\ lpc' = "check"
    /\ UNCHANGED <<status, stop, clientThreads, threads, reaper>>

\* The right side of the assignment comes first: the thread runs.
StartThread ==
    /\ lpc = "recv"
    /\ nextClientId \in Requests
    /\ nextClientId' = nextClientId + 1
    /\ tpc' = [tpc EXCEPT ![nextClientId] = "bind"]
    /\ lpc' = "entry"
    /\ UNCHANGED <<status, stop, clientThreads, bound, reaper>>

Current == nextClientId - 1

\* operator[] on the left: a default-constructed thread, unless there is one.
mutCreateEntry ==                                   \* mutant: the next request's key
    /\ lpc = "entry"
    /\ entry' = [entry EXCEPT ![nextClientId] = IF @ = "absent" THEN "empty" ELSE @]
    /\ lpc' = "assign"
    /\ UNCHANGED <<status, stop, nextClientId, flag, threads, reaper>>
CreateEntry ==
    /\ lpc = "entry"
    /\ entry' = [entry EXCEPT ![Current] = IF @ = "absent" THEN "empty" ELSE @]
    /\ lpc' = "assign"
    /\ UNCHANGED <<status, stop, nextClientId, flag, threads, reaper>>

\* The thread and `false' are moved in, whatever the flag is by now.
Assign ==
    /\ lpc = "assign"
    /\ entry' = [entry EXCEPT ![Current] = "thread"]
    /\ flag' = [flag EXCEPT ![Current] = FALSE]
    /\ lpc' = "check"
    /\ UNCHANGED <<status, stop, nextClientId, threads, reaper>>

\* The entry has gone with the whole map: the assignment writes freed memory.
AssignFreed ==
    /\ lpc = "dangling"
    /\ lpc' = "check"
    /\ status' \in {"up", "aborted"}
    /\ UNCHANGED <<stop, nextClientId, clientThreads, threads, reaper>>

\* destroyThread.join(), then SIGTERM to itself.
mutTerminate ==                                     \* mutant: the reaper is not joined
    /\ lpc = "join"
    /\ status' = "stopped"
    /\ UNCHANGED <<stop, nextClientId, lpc, clientThreads, threads, reaper>>
Terminate ==
    /\ lpc = "join" /\ rpc = "done"
    /\ status' = "stopped"
    /\ UNCHANGED <<stop, nextClientId, lpc, clientThreads, threads, reaper>>

\* SIGINT, and "y" at the prompt.
Interrupt ==
    /\ ~stop
    /\ stop' = TRUE
    /\ UNCHANGED <<status, nextClientId, lpc, clientThreads, threads, reaper>>

Listener ==
    \/ CheckStop \/ NoRequest
    \/ StartThread \/ CreateEntry \/ Assign \/ AssignFreed
    \/ Terminate

---------------------------------------------------------------------------
(* The thread of a request.                                                *)

ThreadPort(t) == (FirstPort + t) % PortCount
OwnPorts      == {ServerPort} \cup {ThreadPort(u) : u \in bound}

\* Port 0 is any free one; a port in use ends the process with exit(1).
Bind(t) ==
    /\ tpc[t] = "bind"
    /\ \/ /\ ThreadPort(t) = 0 \/ ThreadPort(t) \notin OwnPorts
          /\ tpc' = [tpc EXCEPT ![t] = "options"]
          /\ bound' = bound \cup {t}
          /\ UNCHANGED status
       \/ /\ ThreadPort(t) # 0 /\ ThreadPort(t) \in OwnPorts \cup Foreign
          /\ status' = "exited"
          /\ UNCHANGED threads
    /\ UNCHANGED <<stop, nextClientId, lpc, clientThreads, reaper>>

\* setsockopt; when it fails the thread returns, and its socket stays open.
SetOptions(t) ==
    /\ tpc[t] = "options"
    /\ \/ tpc' = [tpc EXCEPT ![t] = "work"]
       \/ tpc' = [tpc EXCEPT ![t] = "exit"]
    /\ UNCHANGED <<status, stop, nextClientId, lpc, clientThreads, bound, reaper>>

\* The request's handler returns.
mutWork(t) ==                                       \* mutant: the flag is set first
    /\ tpc[t] = "work"
    /\ tpc' = [tpc EXCEPT ![t] = "close"]
    /\ flag' = [flag EXCEPT ![t] = TRUE]
    /\ UNCHANGED <<status, stop, nextClientId, lpc, entry, bound, reaper>>
Work(t) ==
    /\ tpc[t] = "work"
    /\ tpc' = [tpc EXCEPT ![t] = "close"]
    /\ UNCHANGED <<status, stop, nextClientId, lpc, clientThreads, bound, reaper>>

CloseSocket(t) ==
    /\ tpc[t] = "close"
    /\ tpc' = [tpc EXCEPT ![t] = "mark"]
    /\ bound' = bound \ {t}
    /\ UNCHANGED <<status, stop, nextClientId, lpc, clientThreads, reaper>>

\* operator[] again: an entry that is not there is created.
MarkDone(t) ==
    /\ tpc[t] = "mark"
    /\ tpc' = [tpc EXCEPT ![t] = "exit"]
    /\ entry' = [entry EXCEPT ![t] = IF @ = "absent" THEN "empty" ELSE @]
    /\ flag' = [flag EXCEPT ![t] = TRUE]
    /\ UNCHANGED <<status, stop, nextClientId, lpc, bound, reaper>>

\* What a thread does around its handler.
Frame(t) == Bind(t) \/ SetOptions(t) \/ CloseSocket(t) \/ MarkDone(t)

Thread(t) == Frame(t) \/ Work(t)

---------------------------------------------------------------------------
(* The reaper.                                                             *)

\* `while(!destroyTFTPServer)', then 15 seconds of sleep; in the end the
\* final pass.
mutTestStop ==                                      \* mutant: while (true)
    /\ rpc = "test"
    /\ rpc' = "scan"
    /\ cursor' = 0
    /\ UNCHANGED <<status, stop, nextClientId, lpc, clientThreads, threads, keyToDelete>>
TestStop ==
    /\ rpc = "test"
    /\ rpc' = IF stop THEN "final" ELSE "scan"
    /\ cursor' = 0
    /\ UNCHANGED <<status, stop, nextClientId, lpc, clientThreads, threads, keyToDelete>>

\* The iterator moves to the next key there is now.
Behind == {k \in Requests : k > cursor /\ entry[k] # "absent"}
NextKey(k) == k \in Behind /\ \A l \in Behind : k <= l

mutScan ==                                          \* mutant: stops at the first thread at work
    /\ rpc = "scan"
    /\ \/ Behind = {} /\ rpc' = "erase" /\ UNCHANGED cursor
       \/ \E k \in Requests :
             /\ NextKey(k)
             /\ cursor' = k
             /\ rpc' = IF flag[k] THEN "join" ELSE "erase"
    /\ UNCHANGED <<status, stop, nextClientId, lpc, clientThreads, threads, keyToDelete>>
Scan ==
    /\ rpc = "scan"
    /\ \/ Behind = {} /\ rpc' = "erase" /\ UNCHANGED cursor
       \/ \E k \in Requests :
             /\ NextKey(k)
             /\ cursor' = k
             /\ rpc' = IF flag[k] THEN "join" ELSE "scan"
    /\ UNCHANGED <<status, stop, nextClientId, lpc, clientThreads, threads, keyToDelete>>

FinalScan ==
    /\ rpc = "final"
    /\ \/ Behind = {} /\ rpc' = "clear" /\ UNCHANGED cursor
       \/ \E k \in Requests :
             /\ NextKey(k)
             /\ cursor' = k
             /\ rpc' = "finalJoin"
    /\ UNCHANGED <<status, stop, nextClientId, lpc, clientThreads, threads, keyToDelete>>

\* join waits for the thread's end; there is nothing to join in an empty or
\* joined std::thread, and the exception ends the process.
mutJoin ==                                          \* mutant: detach
    /\ rpc \in {"join", "finalJoin"}
    /\ entry' = [entry EXCEPT ![cursor] = "joined"]
    /\ rpc' = IF rpc = "join" THEN "scan" ELSE "final"
    /\ keyToDelete' = IF rpc = "join" THEN keyToDelete \cup {cursor} ELSE keyToDelete
    /\ UNCHANGED <<status, stop, nextClientId, lpc, flag, threads, cursor>>
Join ==
    /\ rpc \in {"join", "finalJoin"}
    /\ \/ /\ entry[cursor] = "thread" /\ tpc[cursor] = "exit"
          /\ entry' = [entry EXCEPT ![cursor] = "joined"]
          /\ rpc' = IF rpc = "join" THEN "scan" ELSE "final"
          /\ keyToDelete' = IF rpc = "join" THEN keyToDelete \cup {cursor} ELSE keyToDelete
          /\ UNCHANGED status
       \/ /\ entry[cursor] # "thread"
          /\ status' = "aborted"
          /\ UNCHANGED <<entry, rpc, keyToDelete>>
    /\ UNCHANGED <<stop, nextClientId, lpc, flag, threads, cursor>>

\* The joined keys are erased, and no other: nobody else uses them any more.
mutErase ==                                         \* mutant: keyToDelete cleared only
    /\ rpc = "erase"
    /\ keyToDelete' = {}
    /\ rpc' = "test"
    /\ UNCHANGED <<status, stop, nextClientId, lpc, clientThreads, threads, cursor>>
Erase ==
    /\ rpc = "erase"
    /\ entry' = [k \in Requests |-> IF k \in keyToDelete THEN "absent" ELSE entry[k]]
    /\ flag' = [k \in Requests |-> IF k \in keyToDelete THEN FALSE ELSE flag[k]]
    /\ keyToDelete' = {}
    /\ rpc' = "test"
    /\ UNCHANGED <<status, stop, nextClientId, lpc, threads, cursor>>

\* clear() destroys every std::thread; one that was never joined ends the
\* process.  An entry the listener is about to assign to goes too.
Clear ==
    /\ rpc = "clear"
    /\ IF \E k \in Requests : entry[k] = "thread"
       THEN status' = "aborted" /\ UNCHANGED <<lpc, clientThreads, rpc>>
       ELSE /\ entry' = [k \in Requests |-> "absent"]
            /\ flag' = [k \in Requests |-> FALSE]
            /\ lpc' = IF lpc = "assign" THEN "dangling" ELSE lpc
            /\ rpc' = "done"
            /\ UNCHANGED status
    /\ UNCHANGED <<stop, nextClientId, threads, cursor, keyToDelete>>

Reaper == TestStop \/ Scan \/ FinalScan \/ Join \/ Erase \/ Clear

---------------------------------------------------------------------------

Next ==
    /\ status = "up"
    /\ \/ Listener
       \/ Interrupt
       \/ \E t \in Requests : Thread(t)
       \/ Reaper

Spec == Init /\ [][Next]_vars

\* The listener's receive has a timeout, the reaper wakes up, and no thread
\* waits for anything around its handler.  The handler need not return: every
\* datagram gives it new tries.  Nobody has to press Ctrl-C.
FairSpec ==
    /\ Spec
    /\ WF_vars(status = "up" /\ Listener)
    /\ WF_vars(status = "up" /\ Reaper)
    /\ \A t \in Requests : WF_vars(status = "up" /\ Frame(t))
---------------------------------------------------------------------------
(* Properties.                                                             *)

Running(t) == tpc[t] \notin {"none", "exit"}

\* The listener has started t and not yet put it into the map.
InHand(t) == t = Current /\ lpc \in {"entry", "assign", "dangling"}

\* Type correctness; the map has entries of started threads only.
TypeOK ==
    /\ status \in {"up", "stopped", "exited", "aborted"}
    /\ stop \in BOOLEAN
    /\ nextClientId \in 1 .. MaxRequests + 1
    /\ lpc \in {"check", "recv", "entry", "assign", "dangling", "join"}
    /\ lpc \in {"entry", "assign", "dangling"} => nextClientId > 1
    /\ entry \in [Requests -> {"absent", "empty", "thread", "joined"}]
    /\ flag \in [Requests -> BOOLEAN]
    /\ tpc \in [Requests -> {"none", "bind", "options", "work", "close", "mark", "exit"}]
    /\ \A t \in Requests : tpc[t] = "none" => entry[t] = "absent"
    /\ bound \subseteq Requests
    /\ rpc \in {"test", "scan", "join", "erase", "final", "finalJoin", "clear", "done"}
    /\ cursor \in 0 .. MaxRequests
    /\ rpc \in {"join", "finalJoin"} => cursor # 0
    /\ keyToDelete \subseteq Requests

\* Until the reaper is through, the handle of every thread at work is in the
\* map or in the listener's hand, so that somebody will join it.
Reachable ==
    status = "up" /\ rpc # "done" =>
        \A t \in Requests : Running(t) => entry[t] = "thread" \/ InHand(t)

\* While the server serves, the reaper joins only threads that have returned
\* and closed their socket: it never waits for a transfer.
JoinsFinished == rpc = "join" => tpc[cursor] = "exit" /\ cursor \notin bound

\* SIGTERM at the end of start() cuts off no request but the last one (which
\* the listener may have put into the map behind the reaper's final pass).
CutShort ==
    status = "stopped" =>
        \A t \in Requests : Running(t) => t = Current

\* No std::thread is joined twice, joined while empty or destroyed unjoined,
\* but for the last request's: while it is put into the map (which is seen
\* half done), or when it came behind the reaper's final pass, which then
\* clears a map with this one thread in it.
AbortExplained ==
    [][status' = "aborted" =>
        \/ InHand(Current)
        \/ stop /\ rpc = "clear" /\ {k \in Requests : entry[k] = "thread"} = {Current}]_vars

\* While the server serves, a thread that has set the flag of its entry is
\* joined and forgotten, even if the handlers of all others never return.
Reaped ==
    \A t \in Requests :
        entry[t] = "thread" /\ flag[t] ~> entry[t] = "absent" \/ stop \/ status # "up"

\* After a "y" at the prompt the process ends, unless a handler goes on for
\* ever: the final pass joins them all.
HandlersReturn == \A t \in Requests : []<>(tpc[t] # "work")
ShutsDown == HandlersReturn => (stop ~> status # "up")
=============================================================================
