------------------------------ MODULE Loopback ------------------------------
(***************************************************************************)
(* UDP over 127.0.0.1, as the client and the server use it: one bound      *)
(* socket per port, a bounded receive queue per socket, datagrams to a     *)
(* port nobody has bound discarded without a report to the sender.  The    *)
(* sockets are the operating system's; the ports are the code's: 69 for    *)
(* the listener, 9799 for every client, 9800 + n for the n-th request's    *)
(* thread.                                                                 *)
(***************************************************************************)
EXTENDS TFTPPacket

CONSTANTS MaxRequests,  \* requests sent to the listener in one behaviour
          SockBuf,      \* datagrams a receive queue holds (SO_RCVBUF)
          MaxLoss       \* datagrams the network may drop besides overflow

ASSUME LoopbackAssumption ==
    /\ MaxRequests \in Nat \ {0} /\ 9800 + MaxRequests <= 65535
    /\ SockBuf \in Nat \ {0}
    /\ MaxLoss \in Nat

VARIABLES inbox,        \* port -> datagrams waiting in its receive queue
          lost          \* datagrams dropped so far

ServerPort    == 69
ClientPort    == 9799
Threads       == 1 .. MaxRequests
ThreadPort(t) == 9800 + t
ThreadPorts   == {ThreadPort(t) : t \in Threads}
Ports         == {ServerPort, ClientPort} \cup ThreadPorts

\* sendto: the queues q after pkt went from src to dst, when the ports in
\* open are bound.
sendto(q, open, src, dst, pkt) ==
    IF dst \in open /\ Len(q[dst]) < SockBuf
    THEN [q EXCEPT ![dst] = Append(@, [src |-> src, pkt |-> pkt])]
    ELSE q

\* recvfrom: the datagram it returns, and the queues it leaves.
Received(port) == Head(inbox[port])
recvfrom(port) == [inbox EXCEPT ![port] = Tail(@)]

\* close: what is still queued on the socket is gone.
closeSocket(q, port) == [q EXCEPT ![port] = <<>>]

NetInit ==
    /\ inbox = [p \in Ports |-> <<>>]
    /\ lost = 0

\* The network drops the oldest datagram of some queue.
NetLose ==
    /\ lost < MaxLoss
    /\ lost' = lost + 1
    /\ \E p \in Ports :
          /\ inbox[p] # <<>>
          /\ inbox' = recvfrom(p)
=============================================================================
