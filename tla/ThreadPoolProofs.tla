-------------------------- MODULE ThreadPoolProofs --------------------------
(***************************************************************************)
(* Safety of the thread pool for any number of requests, any ports and any *)
(* interleaving of the listener, the threads and the reaper.  The          *)
(* inductive invariant says where the handle of every thread is: in the    *)
(* listener's hand, in the map, or joined by the reaper.                   *)
(***************************************************************************)
EXTENDS ThreadPool, TLAPS

\* Keys are handed out in order, and with a thread.
Known ==
    \A t \in Requests :
        /\ t >= nextClientId => tpc[t] = "none"
        /\ InHand(t) => tpc[t] # "none" /\ entry[t] \in {"absent", "empty"}

\* A thread sets its flag last, with its socket closed.
Marked ==
    \A t \in Requests :
        /\ tpc[t] = "mark" => t \notin bound
        /\ flag[t] => tpc[t] = "exit" /\ t \notin bound

\* What has been joined lies behind the reaper's iterator until it is erased.
Joined ==
    \A t \in Requests :
        entry[t] = "joined" =>
            /\ tpc[t] = "exit" /\ ~InHand(t)
            /\ t <= cursor
            /\ \/ rpc \in {"scan", "join", "erase"} /\ t \in keyToDelete
               \/ rpc \in {"final", "finalJoin", "clear"}
            /\ rpc \in {"join", "finalJoin"} => t # cursor

Keys ==
    /\ keyToDelete # {} => rpc \in {"scan", "join", "erase"}
    /\ \A t \in keyToDelete : entry[t] = "joined"

Scanned == rpc \in {"join", "finalJoin"} => entry[cursor] # "absent"

\* A default-constructed std::thread is one the listener is about to replace.
Empty == rpc # "done" => \A t \in Requests : entry[t] = "empty" => InHand(t)

Dangling == lpc = "dangling" => rpc = "done"

Handles == rpc # "done" =>
    \A t \in Requests : Running(t) => entry[t] = "thread" \/ InHand(t)

Stopping == rpc \in {"final", "finalJoin", "clear", "done"} => stop

\* Keys the final pass is through with.
Passed(t) ==
    \/ rpc = "final" /\ t <= cursor
    \/ rpc = "finalJoin" /\ t < cursor
    \/ rpc \in {"clear", "done"}

\* Only the last request can have come behind the final pass.
Late ==
    \A t \in Requests :
        Passed(t) /\ entry[t] = "thread" => t = Current /\ lpc \in {"check", "join"}

LastOnly ==
    rpc = "done" => \A t \in Requests : Running(t) => t = Current /\ lpc # "recv"

IInv ==
    /\ TypeOK /\ Known /\ Marked /\ JoinsFinished
    /\ Joined /\ Keys /\ Scanned /\ Empty /\ Dangling /\ Handles
    /\ Stopping /\ Late /\ LastOnly /\ CutShort

-----------------------------------------------------------------------------
(* Every action preserves the invariant. *)

USE PoolAssumption DEF Requests, clientThreads, threads, reaper

\* The listener looks at the stop flag; when it is set, it goes to wait for the reaper.
LEMMA CheckStopInv ==
    ASSUME status = "up", IInv, CheckStop
    PROVE  IInv'
<1>1. TypeOK'
  BY DEF CheckStop, IInv, TypeOK
<1>2. Known'
  BY DEF CheckStop, IInv, TypeOK, Known, InHand
<1>3. Joined'
  BY DEF CheckStop, IInv, TypeOK, Joined, InHand
<1>4. Empty'
  BY DEF CheckStop, IInv, TypeOK, Empty, InHand
<1>5. Dangling'
  BY DEF CheckStop, TypeOK, Dangling
<1>6. Handles'
  BY DEF CheckStop, IInv, TypeOK, Known, Handles, InHand, Running
<1>7. Late'
  BY DEF CheckStop, IInv, TypeOK, Late, Stopping, Passed, Current
<1>8. LastOnly'
  BY DEF CheckStop, IInv, TypeOK, LastOnly, Stopping, Running, Current
<1>9. Marked' /\ JoinsFinished' /\ Keys' /\ Scanned' /\ Stopping' /\ CutShort'
  BY DEF CheckStop, IInv, Marked, JoinsFinished, Keys, Scanned, Stopping, CutShort
<1> QED BY <1>1, <1>2, <1>3, <1>4, <1>5, <1>6, <1>7, <1>8, <1>9 DEF IInv

\* The listener has nothing to start; an id may be used up.
LEMMA NoRequestInv ==
    ASSUME status = "up", IInv, NoRequest
    PROVE  IInv'
<1>1. TypeOK'
  BY DEF NoRequest, IInv, TypeOK
<1>2. Known'
  BY DEF NoRequest, IInv, TypeOK, Known, InHand
<1>3. Joined'
  BY DEF NoRequest, IInv, TypeOK, Joined, InHand
<1>4. Empty'
  BY DEF NoRequest, IInv, TypeOK, Empty, InHand
<1>5. Dangling'
  BY DEF NoRequest, TypeOK, Dangling
<1>6. Handles'
  BY DEF NoRequest, IInv, TypeOK, Known, Handles, InHand, Running
<1>7. Late'
  BY DEF NoRequest, IInv, TypeOK, Late, Passed
<1>8. LastOnly'
  BY DEF NoRequest, IInv, TypeOK, LastOnly, Running
<1>9. CutShort'
  BY DEF NoRequest, TypeOK, CutShort
<1>10. Marked' /\ JoinsFinished' /\ Keys' /\ Scanned' /\ Stopping'
  BY DEF NoRequest, IInv, Marked, JoinsFinished, Keys, Scanned, Stopping
<1> QED BY <1>1, <1>2, <1>3, <1>4, <1>5, <1>6, <1>7, <1>8, <1>9, <1>10 DEF IInv

\* The thread runs before the map has an entry for it: it is in the listener's hand.
LEMMA StartThreadInv ==
    ASSUME status = "up", IInv, StartThread
    PROVE  IInv'
<1>1. TypeOK'
  BY DEF StartThread, IInv, TypeOK
<1>2. Known'
  BY DEF StartThread, IInv, TypeOK, Known, InHand, Current
<1>3. Marked'
  BY DEF StartThread, IInv, TypeOK, Marked, Known
<1>4. JoinsFinished'
  BY DEF StartThread, IInv, TypeOK, JoinsFinished, Known
<1>5. Joined'
  BY DEF StartThread, IInv, TypeOK, Known, Joined, InHand, Current
<1>6. Empty'
  BY DEF StartThread, IInv, TypeOK, Empty, InHand
<1>7. Dangling'
  BY DEF StartThread, TypeOK, Dangling
<1>8. Handles'
  BY DEF StartThread, IInv, TypeOK, Known, Handles, InHand, Current, Running
<1>9. Late'
  BY DEF StartThread, IInv, TypeOK, Late, Passed
<1>10. LastOnly'
  BY DEF StartThread, IInv, TypeOK, LastOnly, Running, Current
<1>11. CutShort'
  BY DEF StartThread, TypeOK, CutShort
<1>12. Keys' /\ Scanned' /\ Stopping'
  BY DEF StartThread, IInv, Keys, Scanned, Stopping
<1> QED BY <1>1, <1>2, <1>3, <1>4, <1>5, <1>6, <1>7, <1>8, <1>9, <1>10, <1>11, <1>12 DEF IInv

\* operator[] makes the entry, unless the thread itself made it already.
LEMMA CreateEntryInv ==
    ASSUME status = "up", IInv, CreateEntry
    PROVE  IInv'
<1>1. TypeOK'
  BY DEF CreateEntry, IInv, TypeOK, Known, InHand
<1>2. Known'
  BY DEF CreateEntry, IInv, TypeOK, Known, InHand, Current
<1>3. Joined'
  BY DEF CreateEntry, IInv, TypeOK, Joined, InHand, Current
<1>4. Keys'
  BY DEF CreateEntry, IInv, TypeOK, Keys
<1>5. Scanned'
  BY DEF CreateEntry, IInv, TypeOK, Scanned
<1>6. Empty'
  BY DEF CreateEntry, IInv, TypeOK, Empty, InHand, Current
<1>7. Dangling'
  BY DEF CreateEntry, TypeOK, Dangling
<1>8. Handles'
  BY DEF CreateEntry, IInv, TypeOK, Known, Handles, InHand, Current, Running
<1>9. Late'
  BY DEF CreateEntry, IInv, TypeOK, Late, Passed
<1>10. LastOnly'
  BY DEF CreateEntry, IInv, TypeOK, LastOnly, Running, Current
<1>11. Marked' /\ JoinsFinished' /\ Stopping' /\ CutShort'
  BY DEF CreateEntry, IInv, Marked, JoinsFinished, Stopping, CutShort
<1> QED BY <1>1, <1>2, <1>3, <1>4, <1>5, <1>6, <1>7, <1>8, <1>9, <1>10, <1>11 DEF IInv

\* The handle goes from the listener's hand into the map.
LEMMA AssignInv ==
    ASSUME status = "up", IInv, Assign
    PROVE  IInv'
<1>1. TypeOK'
  BY DEF Assign, IInv, TypeOK, Known, InHand
<1>2. Known'
  BY DEF Assign, IInv, TypeOK, Known, InHand
<1>3. Marked'
  BY DEF Assign, IInv, TypeOK, Marked
<1>4. Joined'
  BY DEF Assign, IInv, TypeOK, Joined, InHand
<1>5. Keys'
  BY DEF Assign, IInv, TypeOK, Keys, Joined, InHand
<1>6. Scanned'
  BY DEF Assign, IInv, TypeOK, Scanned
<1>7. Empty'
  BY DEF Assign, IInv, TypeOK, Empty, InHand
<1>8. Dangling'
  BY DEF Assign, TypeOK, Dangling
<1>9. Handles'
  BY DEF Assign, IInv, TypeOK, Known, Handles, InHand, Running
<1>10. Late'
  BY DEF Assign, IInv, TypeOK, Late, Passed, Current
<1>11. LastOnly'
  BY DEF Assign, IInv, TypeOK, LastOnly, Running, Current
<1>12. JoinsFinished' /\ Stopping' /\ CutShort'
  BY DEF Assign, IInv, JoinsFinished, Stopping, CutShort
<1> QED BY <1>1, <1>2, <1>3, <1>4, <1>5, <1>6, <1>7, <1>8, <1>9, <1>10, <1>11, <1>12 DEF IInv

\* The assignment to a freed entry: the reaper is done already.
LEMMA AssignFreedInv ==
    ASSUME status = "up", IInv, AssignFreed
    PROVE  IInv'
<1>1. TypeOK'
  BY DEF AssignFreed, IInv, TypeOK
<1>2. Known'
  BY DEF AssignFreed, IInv, TypeOK, Known, InHand
<1>3. Joined'
  BY DEF AssignFreed, IInv, TypeOK, Joined, InHand
<1>4. Empty'
  BY DEF AssignFreed, IInv, TypeOK, Empty, Dangling
<1>5. Dangling'
  BY DEF AssignFreed, TypeOK, Dangling
<1>6. Handles'
  BY DEF AssignFreed, IInv, TypeOK, Known, Handles, Dangling
<1>7. Late'
  BY DEF AssignFreed, IInv, TypeOK, Late, Passed
<1>8. LastOnly'
  BY DEF AssignFreed, IInv, TypeOK, LastOnly, Running, Current
<1>9. CutShort'
  BY DEF AssignFreed, TypeOK, CutShort
<1>10. Marked' /\ JoinsFinished' /\ Keys' /\ Scanned' /\ Stopping'
  BY DEF AssignFreed, IInv, Marked, JoinsFinished, Keys, Scanned, Stopping
<1> QED BY <1>1, <1>2, <1>3, <1>4, <1>5, <1>6, <1>7, <1>8, <1>9, <1>10 DEF IInv

\* SIGTERM comes after the reaper, so LastOnly becomes CutShort.
LEMMA TerminateInv ==
    ASSUME status = "up", IInv, Terminate
    PROVE  IInv'
<1>1. TypeOK'
  BY DEF Terminate, IInv, TypeOK
<1>2. CutShort'
  BY DEF Terminate, IInv, TypeOK, CutShort, LastOnly, Running, Current
<1>3. Known' /\ Marked' /\ JoinsFinished' /\ Joined' /\ Keys' /\ Scanned' /\ Empty' /\ Dangling' /\ Handles' /\ Stopping' /\ Late' /\ LastOnly'
  BY DEF Terminate, IInv, Known, Marked, JoinsFinished, Joined, Keys, Scanned,
         Empty, Dangling, Handles, Stopping, Late, LastOnly, InHand, Current,
         Running, Passed
<1> QED BY <1>1, <1>2, <1>3 DEF IInv

\* Only the stop flag changes.
LEMMA InterruptInv ==
    ASSUME status = "up", IInv, Interrupt
    PROVE  IInv'
<1>1. TypeOK'
  BY DEF Interrupt, IInv, TypeOK
<1>2. Stopping'
  BY DEF Interrupt, TypeOK, Stopping
<1>3. Known' /\ Marked' /\ JoinsFinished' /\ Joined' /\ Keys' /\ Scanned' /\ Empty' /\ Dangling' /\ Handles' /\ Late' /\ LastOnly' /\ CutShort'
  BY DEF Interrupt, IInv, Known, Marked, JoinsFinished, Joined, Keys, Scanned,
         Empty, Dangling, Handles, Late, LastOnly, CutShort, InHand, Current,
         Running, Passed
<1> QED BY <1>1, <1>2, <1>3 DEF IInv

\* The thread binds its port, or the process exits.
LEMMA BindInv ==
    ASSUME status = "up", IInv, NEW t \in Requests, Bind(t)
    PROVE  IInv'
<1>1. TypeOK'
  BY DEF Bind, IInv, TypeOK
<1>2. Known'
  BY DEF Bind, IInv, TypeOK, Known, InHand, Current
<1>3. Marked'
  BY DEF Bind, IInv, TypeOK, Marked
<1>4. JoinsFinished'
  BY DEF Bind, IInv, TypeOK, JoinsFinished
<1>5. Joined'
  BY DEF Bind, IInv, TypeOK, Joined, InHand, Current
<1>6. Handles'
  BY DEF Bind, IInv, TypeOK, Known, Handles, InHand, Current, Running
<1>7. LastOnly'
  BY DEF Bind, IInv, TypeOK, LastOnly, Running, Current
<1>8. CutShort'
  BY DEF Bind, TypeOK, CutShort
<1>9. Keys' /\ Scanned' /\ Empty' /\ Dangling' /\ Stopping' /\ Late'
  BY DEF Bind, IInv, Keys, Scanned, Empty, Dangling, Stopping, Late, InHand,
         Current, Passed
<1> QED BY <1>1, <1>2, <1>3, <1>4, <1>5, <1>6, <1>7, <1>8, <1>9 DEF IInv

\* A thread whose setsockopt failed returns with its flag unset.
LEMMA SetOptionsInv ==
    ASSUME status = "up", IInv, NEW t \in Requests, SetOptions(t)
    PROVE  IInv'
<1>1. TypeOK'
  BY DEF SetOptions, IInv, TypeOK
<1>2. Known'
  BY DEF SetOptions, IInv, TypeOK, Known, InHand, Current
<1>3. Marked'
  BY DEF SetOptions, IInv, TypeOK, Marked
<1>4. JoinsFinished'
  BY DEF SetOptions, IInv, TypeOK, JoinsFinished
<1>5. Joined'
  BY DEF SetOptions, IInv, TypeOK, Joined, InHand, Current
<1>6. Handles'
  BY DEF SetOptions, IInv, TypeOK, Known, Handles, InHand, Current, Running
<1>7. LastOnly'
  BY DEF SetOptions, IInv, TypeOK, LastOnly, Running, Current
<1>8. CutShort'
  BY DEF SetOptions, TypeOK, CutShort
<1>9. Keys' /\ Scanned' /\ Empty' /\ Dangling' /\ Stopping' /\ Late'
  BY DEF SetOptions, IInv, Keys, Scanned, Empty, Dangling, Stopping, Late, InHand,
         Current, Passed
<1> QED BY <1>1, <1>2, <1>3, <1>4, <1>5, <1>6, <1>7, <1>8, <1>9 DEF IInv

\* The handler returns.
LEMMA WorkInv ==
    ASSUME status = "up", IInv, NEW t \in Requests, Work(t)
    PROVE  IInv'
<1>1. TypeOK'
  BY DEF Work, IInv, TypeOK
<1>2. Known'
  BY DEF Work, IInv, TypeOK, Known, InHand, Current
<1>3. Marked'
  BY DEF Work, IInv, TypeOK, Marked
<1>4. JoinsFinished'
  BY DEF Work, IInv, TypeOK, JoinsFinished
<1>5. Joined'
  BY DEF Work, IInv, TypeOK, Joined, InHand, Current
<1>6. Handles'
  BY DEF Work, IInv, TypeOK, Known, Handles, InHand, Current, Running
<1>7. LastOnly'
  BY DEF Work, IInv, TypeOK, LastOnly, Running, Current
<1>8. CutShort'
  BY DEF Work, TypeOK, CutShort
<1>9. Keys' /\ Scanned' /\ Empty' /\ Dangling' /\ Stopping' /\ Late'
  BY DEF Work, IInv, Keys, Scanned, Empty, Dangling, Stopping, Late, InHand,
         Current, Passed
<1> QED BY <1>1, <1>2, <1>3, <1>4, <1>5, <1>6, <1>7, <1>8, <1>9 DEF IInv

\* The socket goes before the flag is set, as Marked says.
LEMMA CloseSocketInv ==
    ASSUME status = "up", IInv, NEW t \in Requests, CloseSocket(t)
    PROVE  IInv'
<1>1. TypeOK'
  BY DEF CloseSocket, IInv, TypeOK
<1>2. Known'
  BY DEF CloseSocket, IInv, TypeOK, Known, InHand, Current
<1>3. Marked'
  BY DEF CloseSocket, IInv, TypeOK, Marked
<1>4. JoinsFinished'
  BY DEF CloseSocket, IInv, TypeOK, JoinsFinished
<1>5. Joined'
  BY DEF CloseSocket, IInv, TypeOK, Joined, InHand, Current
<1>6. Handles'
  BY DEF CloseSocket, IInv, TypeOK, Known, Handles, InHand, Current, Running
<1>7. LastOnly'
  BY DEF CloseSocket, IInv, TypeOK, LastOnly, Running, Current
<1>8. CutShort'
  BY DEF CloseSocket, TypeOK, CutShort
<1>9. Keys' /\ Scanned' /\ Empty' /\ Dangling' /\ Stopping' /\ Late'
  BY DEF CloseSocket, IInv, Keys, Scanned, Empty, Dangling, Stopping, Late, InHand,
         Current, Passed
<1> QED BY <1>1, <1>2, <1>3, <1>4, <1>5, <1>6, <1>7, <1>8, <1>9 DEF IInv

\* A thread that finds no entry makes an empty one; the listener still holds its handle.
LEMMA MarkDoneInv ==
    ASSUME status = "up", IInv, NEW t \in Requests, MarkDone(t)
    PROVE  IInv'
<1>1. TypeOK'
  BY DEF MarkDone, IInv, TypeOK
<1>2. Known'
  BY DEF MarkDone, IInv, TypeOK, Known, InHand, Current
<1>3. Marked'
  BY DEF MarkDone, IInv, TypeOK, Marked
<1>4. JoinsFinished'
  BY DEF MarkDone, IInv, TypeOK, JoinsFinished
<1>5. Joined'
  BY DEF MarkDone, IInv, TypeOK, Joined, InHand, Current
<1>6. Keys'
  BY DEF MarkDone, IInv, TypeOK, Keys
<1>7. Scanned'
  BY DEF MarkDone, IInv, TypeOK, Scanned
<1>8. Empty'
  BY DEF MarkDone, IInv, TypeOK, Empty, Handles, Running, InHand, Current
<1>9. Handles'
  BY DEF MarkDone, IInv, TypeOK, Known, Handles, InHand, Current, Running
<1>10. Late'
  BY DEF MarkDone, IInv, TypeOK, Late, Passed, Current
<1>11. LastOnly'
  BY DEF MarkDone, IInv, TypeOK, LastOnly, Running
<1>12. CutShort'
  BY DEF MarkDone, TypeOK, CutShort
<1>13. Dangling' /\ Stopping'
  BY DEF MarkDone, IInv, Dangling, Stopping
<1> QED BY <1>1, <1>2, <1>3, <1>4, <1>5, <1>6, <1>7, <1>8, <1>9, <1>10, <1>11, <1>12, <1>13 DEF IInv

\* The reaper starts a pass: nothing has been joined in it, nothing is behind it.
LEMMA TestStopInv ==
    ASSUME status = "up", IInv, TestStop
    PROVE  IInv'
<1>1. TypeOK'
  BY DEF TestStop, IInv, TypeOK
<1>2. JoinsFinished'
  BY DEF TestStop, TypeOK, JoinsFinished
<1>3. Joined'
  BY DEF TestStop, IInv, TypeOK, Joined
<1>4. Keys'
  BY DEF TestStop, IInv, TypeOK, Keys
<1>5. Scanned'
  BY DEF TestStop, TypeOK, Scanned
<1>6. Empty'
  BY DEF TestStop, IInv, TypeOK, Empty, InHand, Current
<1>7. Dangling'
  BY DEF TestStop, IInv, TypeOK, Dangling
<1>8. Handles'
  BY DEF TestStop, IInv, TypeOK, Known, Handles, InHand, Current, Running
<1>9. Stopping'
  BY DEF TestStop, TypeOK, Stopping
<1>10. Late'
  BY DEF TestStop, IInv, TypeOK, Late, Passed
<1>11. LastOnly'
  BY DEF TestStop, IInv, TypeOK, LastOnly
<1>12. Known' /\ Marked' /\ CutShort'
  BY DEF TestStop, IInv, Known, Marked, CutShort, InHand, Current
<1> QED BY <1>1, <1>2, <1>3, <1>4, <1>5, <1>6, <1>7, <1>8, <1>9, <1>10, <1>11, <1>12 DEF IInv

\* The iterator moves to the next key; only a thread with its flag set is joined.
LEMMA ScanInv ==
    ASSUME status = "up", IInv, Scan
    PROVE  IInv'
<1>1. TypeOK'
  BY DEF Scan, NextKey, Behind, IInv, TypeOK
<1>2. JoinsFinished'
  BY DEF Scan, NextKey, Behind, IInv, TypeOK, Marked, JoinsFinished
<1>3. Joined'
  BY DEF Scan, NextKey, Behind, IInv, TypeOK, Joined, InHand, Current
<1>4. Keys'
  BY DEF Scan, NextKey, IInv, TypeOK, Keys
<1>5. Scanned'
  BY DEF Scan, NextKey, Behind, TypeOK, Scanned
<1>6. Empty'
  BY DEF Scan, NextKey, Behind, IInv, TypeOK, Empty, InHand, Current
<1>7. Dangling'
  BY DEF Scan, IInv, TypeOK, Dangling
<1>8. Handles'
  BY DEF Scan, NextKey, Behind, IInv, TypeOK, Known, Handles, InHand, Current,
         Running
<1>9. Stopping'
  BY DEF Scan, TypeOK, Stopping
<1>10. Late'
  BY DEF Scan, NextKey, Behind, IInv, TypeOK, Late, Passed
<1>11. LastOnly'
  BY DEF Scan, NextKey, Behind, IInv, TypeOK, LastOnly
<1>12. Known' /\ Marked' /\ CutShort'
  BY DEF Scan, IInv, Known, Marked, CutShort, InHand, Current
<1> QED BY <1>1, <1>2, <1>3, <1>4, <1>5, <1>6, <1>7, <1>8, <1>9, <1>10, <1>11, <1>12 DEF IInv

\* The final pass moves on: a key it has left behind is joined, or the last request's.
LEMMA FinalScanInv ==
    ASSUME status = "up", IInv, FinalScan
    PROVE  IInv'
<1>1. TypeOK'
  BY DEF FinalScan, NextKey, Behind, IInv, TypeOK
<1>2. JoinsFinished'
  BY DEF FinalScan, NextKey, Behind, TypeOK, JoinsFinished
<1>3. Joined'
  BY DEF FinalScan, NextKey, Behind, IInv, TypeOK, Joined, InHand, Current
<1>4. Keys'
  BY DEF FinalScan, NextKey, IInv, TypeOK, Keys
<1>5. Scanned'
  BY DEF FinalScan, NextKey, Behind, TypeOK, Scanned
<1>6. Empty'
  BY DEF FinalScan, NextKey, Behind, IInv, TypeOK, Empty, InHand, Current
<1>7. Dangling'
  BY DEF FinalScan, IInv, TypeOK, Dangling
<1>8. Handles'
  BY DEF FinalScan, NextKey, Behind, IInv, TypeOK, Known, Handles, InHand, Current,
         Running
<1>9. Stopping'
  BY DEF FinalScan, IInv, TypeOK, Stopping
<1>10. Late'
  BY DEF FinalScan, NextKey, Behind, IInv, TypeOK, Late, Passed, Current
<1>11. LastOnly'
  BY DEF FinalScan, NextKey, Behind, IInv, TypeOK, LastOnly
<1>12. Known' /\ Marked' /\ CutShort'
  BY DEF FinalScan, IInv, Known, Marked, CutShort, InHand, Current
<1> QED BY <1>1, <1>2, <1>3, <1>4, <1>5, <1>6, <1>7, <1>8, <1>9, <1>10, <1>11, <1>12 DEF IInv

\* The joined handle lies behind the iterator.
LEMMA JoinInv ==
    ASSUME status = "up", IInv, Join
    PROVE  IInv'
<1>0. /\ cursor \in Requests
      /\ \/ /\ entry[cursor] = "thread" /\ tpc[cursor] = "exit"
            /\ entry' = [entry EXCEPT ![cursor] = "joined"]
            /\ keyToDelete \subseteq keyToDelete'
            /\ keyToDelete' \subseteq keyToDelete \cup {cursor}
            /\ rpc = "join" => rpc' = "scan" /\ cursor \in keyToDelete'
            /\ rpc # "join" => rpc = "finalJoin" /\ rpc' = "final" /\ keyToDelete' = keyToDelete
            /\ UNCHANGED status
         \/ status' = "aborted" /\ UNCHANGED <<entry, rpc, keyToDelete>>
      /\ UNCHANGED <<stop, nextClientId, lpc, flag, tpc, bound, cursor>>
  BY DEF Join, IInv, TypeOK
<1>1. TypeOK'
  BY <1>0 DEF IInv, TypeOK
<1>2. Known'
  BY DEF Join, IInv, TypeOK, Known, InHand, Current
<1>3. JoinsFinished'
  BY DEF Join, IInv, TypeOK, JoinsFinished
<1>4. Joined'
  <2>1. ~InHand(cursor) \/ UNCHANGED entry
    BY <1>0 DEF IInv, Known
  <2> QED BY <1>0, <2>1 DEF IInv, TypeOK, Known, Joined, Keys, InHand, Current
<1>5. Keys'
  <2>1. keyToDelete' # {} => rpc' \in {"scan", "join", "erase"}
    BY <1>0 DEF IInv, Keys
  <2>2. ASSUME NEW t \in keyToDelete' PROVE entry'[t] = "joined"
    BY <1>0 DEF IInv, TypeOK, Keys
  <2> QED BY <2>1, <2>2 DEF Keys
<1>6. Scanned'
  BY DEF Join, IInv, TypeOK, Scanned
<1>7. Empty'
  BY DEF Join, IInv, TypeOK, Empty, InHand, Current
<1>8. Dangling'
  BY DEF Join, IInv, TypeOK, Dangling
<1>9. Handles'
  BY DEF Join, IInv, TypeOK, Known, Handles, InHand, Current, Running
<1>10. Stopping'
  BY DEF Join, IInv, TypeOK, Stopping
<1>11. Late'
  BY DEF Join, IInv, TypeOK, Late, Passed, Current
<1>12. LastOnly'
  BY DEF Join, IInv, TypeOK, LastOnly
<1>13. CutShort'
  BY DEF Join, TypeOK, CutShort
<1>14. Marked'
  BY DEF Join, IInv, Marked
<1> QED BY <1>1, <1>2, <1>3, <1>4, <1>5, <1>6, <1>7, <1>8, <1>9, <1>10, <1>11, <1>12, <1>13, <1>14 DEF IInv

\* Only joined entries are erased, so no thread at work loses its handle.
LEMMA EraseInv ==
    ASSUME status = "up", IInv, Erase
    PROVE  IInv'
<1>1. TypeOK'
  BY DEF Erase, IInv, TypeOK
<1>2. Known'
  BY DEF Erase, IInv, TypeOK, Known, InHand, Current
<1>3. Marked'
  BY DEF Erase, IInv, TypeOK, Marked
<1>4. JoinsFinished'
  BY DEF Erase, TypeOK, JoinsFinished
<1>5. Joined'
  BY DEF Erase, IInv, TypeOK, Joined
<1>6. Keys'
  BY DEF Erase, TypeOK, Keys
<1>7. Scanned'
  BY DEF Erase, TypeOK, Scanned
<1>8. Empty'
  BY DEF Erase, IInv, TypeOK, Empty, InHand, Current
<1>9. Dangling'
  BY DEF Erase, IInv, TypeOK, Dangling
<1>10. Handles'
  BY DEF Erase, IInv, TypeOK, Known, Handles, Keys, InHand, Current, Running
<1>11. Stopping'
  BY DEF Erase, TypeOK, Stopping
<1>12. Late'
  BY DEF Erase, IInv, TypeOK, Late, Passed
<1>13. LastOnly'
  BY DEF Erase, IInv, TypeOK, LastOnly
<1>14. CutShort'
  BY DEF Erase, CutShort
<1> QED BY <1>1, <1>2, <1>3, <1>4, <1>5, <1>6, <1>7, <1>8, <1>9, <1>10, <1>11, <1>12, <1>13, <1>14 DEF IInv

\* After the final pass only the last request's thread can be left.
LEMMA ClearInv ==
    ASSUME status = "up", IInv, Clear
    PROVE  IInv'
<1>0. \/ /\ entry' = [k \in Requests |-> "absent"]
         /\ flag' = [k \in Requests |-> FALSE]
         /\ lpc' \in {lpc, "dangling"}
         /\ lpc' # lpc => lpc = "assign"
         /\ rpc' = "done" /\ UNCHANGED status
      \/ status' = "aborted" /\ UNCHANGED <<lpc, entry, flag, rpc>>
  BY DEF Clear
<1>1. TypeOK'
  BY <1>0 DEF Clear, IInv, TypeOK
<1>2. Known'
  BY DEF Clear, IInv, TypeOK, Known, InHand, Current
<1>3. Marked'
  BY DEF Clear, IInv, TypeOK, Marked
<1>4. JoinsFinished'
  BY DEF Clear, TypeOK, JoinsFinished
<1>5. Joined'
  BY DEF Clear, IInv, TypeOK, Joined, InHand, Current
<1>6. Keys'
  BY DEF Clear, IInv, TypeOK, Keys
<1>7. Scanned'
  BY DEF Clear, TypeOK, Scanned
<1>8. Empty'
  BY DEF Clear, IInv, TypeOK, Empty, InHand, Current
<1>9. Dangling'
  BY DEF Clear, IInv, TypeOK, Dangling
<1>10. Handles'
  BY DEF Clear, IInv, TypeOK, Known, Handles, InHand, Current, Running
<1>11. Stopping'
  BY DEF Clear, IInv, TypeOK, Stopping
<1>12. Late'
  BY DEF Clear, IInv, TypeOK, Late, Passed, Current
<1>13. LastOnly'
  BY DEF Clear, IInv, TypeOK, LastOnly, Handles, Running, InHand, Current
<1>14. CutShort'
  BY DEF Clear, TypeOK, CutShort
<1> QED BY <1>1, <1>2, <1>3, <1>4, <1>5, <1>6, <1>7, <1>8, <1>9, <1>10, <1>11, <1>12, <1>13, <1>14 DEF IInv

-----------------------------------------------------------------------------
(* The invariant, and what follows from it. *)

\* The invariant holds before the first request.
LEMMA InitInv == Init => IInv
<1> SUFFICES ASSUME Init PROVE IInv
  OBVIOUS
<1>1. TypeOK
  <2>1. /\ nextClientId \in 1 .. MaxRequests + 1
        /\ cursor \in 0 .. MaxRequests
    BY DEF Init, PoolAssumption
  <2>2. /\ entry \in [Requests -> {"absent", "empty", "thread", "joined"}]
        /\ tpc \in [Requests -> {"none", "bind", "options", "work", "close", "mark", "exit"}]
        /\ \A t \in Requests : tpc[t] = "none" => entry[t] = "absent"
    BY DEF Init
  <2>3. flag \in [Requests -> BOOLEAN]
    BY DEF Init
  <2> QED BY <2>1, <2>2, <2>3 DEF Init, TypeOK
<1>2. Known /\ Empty /\ Handles
  BY DEF Init, Known, Empty, Handles, InHand, Current, Running
<1>3. Marked /\ JoinsFinished /\ Joined /\ Keys /\ Scanned
  BY DEF Init, Marked, JoinsFinished, Joined, Keys, Scanned
<1>4. Dangling /\ Stopping /\ Late /\ LastOnly /\ CutShort
  BY DEF Init, Dangling, Stopping, Late, LastOnly, CutShort, Passed
<1> QED BY <1>1, <1>2, <1>3, <1>4 DEF IInv

\* It says nothing of what is not a variable.
LEMMA StutterInv == IInv /\ UNCHANGED vars => IInv'
  BY DEF vars, IInv, TypeOK, Known, Marked, JoinsFinished, Joined, Keys, Scanned,
         Empty, Dangling, Handles, Stopping, Late, LastOnly, CutShort, Passed,
         InHand, Current, Running

\* Every step preserves it.
LEMMA StepInv == IInv /\ [Next]_vars => IInv'
<1> SUFFICES ASSUME IInv, Next PROVE IInv'
  BY StutterInv
<1>1. status = "up"
  BY DEF Next
<1>2. CASE Listener
  BY <1>1, <1>2, CheckStopInv, NoRequestInv, StartThreadInv, CreateEntryInv,
     AssignInv, AssignFreedInv, TerminateInv DEF Listener
<1>3. CASE Interrupt
  BY <1>1, <1>3, InterruptInv
<1>4. ASSUME NEW t \in Requests, Thread(t) PROVE IInv'
  BY <1>1, <1>4, BindInv, SetOptionsInv, WorkInv, CloseSocketInv, MarkDoneInv
  DEF Thread, Frame
<1>5. CASE Reaper
  BY <1>1, <1>5, TestStopInv, ScanInv, FinalScanInv, JoinInv, EraseInv, ClearInv
  DEF Reaper
<1> QED BY <1>2, <1>3, <1>4, <1>5 DEF Next

\* The inductive invariant holds in every state of every behaviour.
THEOREM Safe == Spec => []IInv
  BY InitInv, StepInv, PTL DEF Spec

\* The variables keep their types, and only started threads have an entry.
THEOREM TypeCorrect == Spec => []TypeOK
<1>1. IInv => TypeOK
  BY DEF IInv
<1> QED BY <1>1, Safe, PTL

\* Until the reaper is through, every thread at work is in clientThreads or in
\* the listener's hand, however the listener, the threads and the reaper
\* interleave on the map.
THEOREM HandlesReachable == Spec => []Reachable
<1>1. IInv => Reachable
  BY DEF IInv, Handles, Reachable
<1> QED BY <1>1, Safe, PTL

\* While the server serves, the reaper waits for no transfer: what it joins has
\* returned and closed its socket.
THEOREM JoinsOnlyFinished == Spec => []JoinsFinished
<1>1. IInv => JoinsFinished
  BY DEF IInv
<1> QED BY <1>1, Safe, PTL

\* The SIGTERM that ends start() cuts off no request but the last one.
THEOREM ShutdownCutsLast == Spec => []CutShort
<1>1. IInv => CutShort
  BY DEF IInv
<1> QED BY <1>1, Safe, PTL

\* std::terminate is reached only through the last request: while the listener
\* puts its thread into the map, or when it came behind the final pass.
THEOREM AbortsExplained == Spec => AbortExplained
<1>1. ASSUME IInv, Next, status' = "aborted"
      PROVE  \/ InHand(Current)
             \/ stop /\ rpc = "clear" /\ {k \in Requests : entry[k] = "thread"} = {Current}
  <2>1. status = "up"
    BY <1>1 DEF Next
  <2>2. \/ AssignFreed
        \/ rpc \in {"join", "finalJoin"} /\ entry[cursor] # "thread"
        \/ rpc = "clear" /\ \E k \in Requests : entry[k] = "thread"
    BY <1>1, <2>1 DEF Next, Listener, CheckStop, NoRequest, StartThread, CreateEntry,
       Assign, Terminate, Interrupt, Thread, Frame, Bind, SetOptions, Work, CloseSocket,
       MarkDone, Reaper, TestStop, Scan, FinalScan, Join, Erase, Clear
  <2>3. CASE AssignFreed
    BY <2>3 DEF AssignFreed, InHand
  <2>4. CASE rpc \in {"join", "finalJoin"} /\ entry[cursor] # "thread"
    <3>1. cursor \in Requests
      BY <1>1, <2>4 DEF IInv, TypeOK
    <3>2. entry[cursor] = "empty"
      BY <1>1, <2>4, <3>1 DEF IInv, TypeOK, Scanned, Joined
    <3> QED BY <1>1, <2>4, <3>1, <3>2 DEF IInv, Empty, InHand
  <2>5. CASE rpc = "clear" /\ \E k \in Requests : entry[k] = "thread"
    <3>1. \A k \in Requests : entry[k] = "thread" => k = Current
      BY <1>1, <2>5 DEF IInv, Late, Passed
    <3> QED BY <1>1, <2>5, <3>1 DEF IInv, Stopping
  <2> QED BY <2>2, <2>3, <2>4, <2>5
<1>2. IInv /\ [Next]_vars =>
        [status' = "aborted" =>
            \/ InHand(Current)
            \/ stop /\ rpc = "clear" /\ {k \in Requests : entry[k] = "thread"} = {Current}]_vars
  BY <1>1
<1> QED BY <1>2, Safe, PTL DEF Spec, AbortExplained
=============================================================================
