---------------------------------- MODULE Datagram ----------------------------------
(* net/datagram.rs under UdpSocket and UnixDatagram: tasks that share a socket.  An *)
(* operation tries a system call that does not block, if the last one of its        *)
(* direction did not block; otherwise it queues a source on the ring and waits for  *)
(* that.  A call that fails without waiting changes nothing and is no step here;    *)
(* a read or write timeout ends a source as an error does.                          *)
EXTENDS Naturals, Sequences, FiniteSets

CONSTANTS
  Users,          \* tasks that use the socket
  Addresses,      \* how many addresses the argument of UdpSocket::connect may yield
  MaxDatagrams,   \* bound on the datagrams that come
  MaxDrops        \* bound on the sources dropped before their result is collected

VARIABLES
  sort, peer,     \* "udp" or "unix"; whether the socket has a remote address
  dgCame, dgQueue,          \* datagrams that came, numbered; those the kernel has
  rxYolo, txYolo,           \* rx_yolo, tx_yolo
  dgCall,         \* of a task: the operation that waits, or "none"
  attempts,       \* of a task that connects: the addresses left to try
  dgSource,       \* of a task: the source of the operation
  received,       \* datagrams as the tasks receive them
  drops, dgOrphans, dgLost, \* sources dropped; those still in the kernel; what they took
  sendRoom,       \* room in the send queue of the socket
  rxSpoiled, txSpoiled      \* since the flag was last set, an operation on the ring
                            \* failed or was given up

link == <<sort, peer>>
inbound == <<dgCame, dgQueue, received>>
rx == <<rxYolo, rxSpoiled>>
tx == <<txYolo, txSpoiled>>
calls == <<dgCall, attempts, dgSource>>
gone == <<drops, dgOrphans, dgLost>>
datagramVars == <<link, inbound, rx, tx, calls, gone, sendRoom>>

Takes == {"recv", "recv_from"}
Receives == Takes \cup {"peek", "peek_from"}
Sends == {"send", "send_to"}
NoSource == [state |-> "none", got |-> 0]

(* UdpSocket::bind, UnixDatagram::bind and unbound; a pair is connected.             *)
Bound == sort \in {"udp", "unix"} /\ peer = FALSE
Pair == sort = "unix" /\ peer = TRUE

Init ==
  /\ Bound \/ Pair
  /\ dgCame = 0 /\ dgQueue = <<>> /\ received = <<>>
  /\ rxYolo = TRUE /\ txYolo = TRUE /\ rxSpoiled = FALSE /\ txSpoiled = FALSE
  /\ dgCall = [u \in Users |-> "none"] /\ attempts = [u \in Users |-> 0]
  /\ dgSource = [u \in Users |-> NoSource]
  /\ drops = 0 /\ dgOrphans = {} /\ dgLost = {} /\ sendRoom = TRUE

Free(u) == dgCall[u] = "none"

---------------------------------------------------------------------------------------
(* System calls that do not block and take a datagram, or look at it.                *)
TakeHead == received' = Append(received, Head(dgQueue)) /\ dgQueue' = Tail(dgQueue)
RecvSyscall == dgQueue # <<>> /\ TakeHead
RecvmsgSyscall(o) ==
  dgQueue # <<>> /\ IF o \in Takes THEN TakeHead ELSE UNCHANGED <<received, dgQueue>>

\* yolo_rx and yolo_recvmsg, yolo_tx and yolo_sendmsg give None and clear the flag.
RxBlocks == (~rxYolo \/ dgQueue = <<>>) /\ rxYolo' = FALSE
TxBlocks == (~txYolo \/ ~sendRoom) /\ txYolo' = FALSE

---------------------------------------------------------------------------------------
(* A source is queued on the ring.                                                   *)
Queued(u, o) ==
  /\ dgCall' = [dgCall EXCEPT ![u] = o]
  /\ dgSource' = [dgSource EXCEPT ![u] = [NoSource EXCEPT !.state = "pending"]]

(* A source that is pending is dropped: the kernel may still complete it.  Only what *)
(* takes a datagram or connects the socket has an effect then.                       *)
Orphaned(o) ==
  /\ drops' = drops + 1
  /\ dgOrphans' = dgOrphans \cup ({<<drops', o>>} \cap (Nat \X (Takes \cup {"connect"})))

(* rush_dispatch fails: the call ends with the error and drops the source.           *)
RushFails(o) == drops < MaxDrops /\ Orphaned(o) /\ UNCHANGED <<dgCall, dgSource, dgLost>>

Rushed(u, o, spoiled) ==
  \/ Queued(u, o) /\ UNCHANGED <<spoiled, gone>>
  \/ RushFails(o) /\ spoiled' = TRUE
RushedRecv(u) == Rushed(u, "recv", rxSpoiled)
RushedRecvmsg(u, o) == Rushed(u, o, rxSpoiled)
RushedSend(u) == Rushed(u, "send", txSpoiled)
RushedSendmsg(u) == Rushed(u, "send_to", txSpoiled)

Direct == UNCHANGED <<calls, gone>>
RxOnly == UNCHANGED <<link, dgCame, tx, sendRoom>>
TxOnly == UNCHANGED <<link, inbound, rx, attempts, sendRoom>>
Waits == UNCHANGED <<dgQueue, received, attempts>>

\* peek: always a source
Peek(u) ==
  /\ Free(u) /\ Queued(u, "peek") /\ UNCHANGED rx /\ Waits /\ UNCHANGED gone
  /\ RxOnly
Recv(u) ==
  /\ Free(u) /\ RxOnly
  /\ \/ rxYolo /\ RecvSyscall /\ UNCHANGED rx /\ Direct
     \/ RxBlocks /\ RushedRecv(u) /\ Waits
\* recv_from and peek_from
RecvmsgFrom(u, o) ==
  /\ Free(u) /\ RxOnly
  /\ \/ rxYolo /\ RecvmsgSyscall(o) /\ UNCHANGED rx /\ Direct
     \/ RxBlocks /\ RushedRecvmsg(u, o) /\ Waits
RecvFrom(u) == RecvmsgFrom(u, "recv_from")
PeekFrom(u) == RecvmsgFrom(u, "peek_from")
\* A system call that sends leaves nothing behind: only sends that block are steps.
Send(u) == Free(u) /\ TxBlocks /\ RushedSend(u) /\ TxOnly
SendTo(u) == Free(u) /\ TxBlocks /\ RushedSendmsg(u) /\ TxOnly

---------------------------------------------------------------------------------------
(* The methods of the two sockets: some ask for the peer first and fail without one. *)
UdpPeek(u) == sort = "udp" /\ peer /\ Peek(u)
UdpPeekFrom(u) == sort = "udp" /\ PeekFrom(u)
UdpRecv(u) == sort = "udp" /\ peer /\ Recv(u)
UdpRecvFrom(u) == sort = "udp" /\ RecvFrom(u)
UdpSend(u) == sort = "udp" /\ Send(u)
UdpSendTo(u) == sort = "udp" /\ SendTo(u)
UnixPeek(u) == sort = "unix" /\ peer /\ Peek(u)
UnixPeekFrom(u) == sort = "unix" /\ PeekFrom(u)
UnixRecv(u) == sort = "unix" /\ Recv(u)
UnixRecvFrom(u) == sort = "unix" /\ RecvFrom(u)
UnixSend(u) == sort = "unix" /\ Send(u)
UnixSendTo(u) == sort = "unix" /\ SendTo(u)

\* Reactor::connect, of the first of n addresses
Connect(u, n) ==
  /\ Free(u) /\ Queued(u, "connect") /\ attempts' = [attempts EXCEPT ![u] = n - 1]
  /\ UNCHANGED <<link, inbound, rx, tx, gone, sendRoom>>
UdpConnect(u) == sort = "udp" /\ \E n \in 1 .. Addresses : Connect(u, n)
UnixConnect(u) == sort = "unix" /\ Connect(u, 1)

---------------------------------------------------------------------------------------
(* A task is polled with the result of its source.                                   *)
Ends(u) ==
  /\ dgCall' = [dgCall EXCEPT ![u] = "none"] /\ dgSource' = [dgSource EXCEPT ![u] = NoSource]
Delivered(u) ==
  received' = IF dgCall[u] \in Takes THEN Append(received, dgSource[u].got) ELSE received

\* Fault seeded in ConsumeReceiveBuffer: rx_yolo is not set again.
ConsumeReceiveBuffer_slow(u) ==
  /\ dgCall[u] \in {"recv", "peek"} /\ dgSource[u].state = "done"
  /\ Delivered(u) /\ rxYolo' = rxYolo /\ rxSpoiled' = FALSE /\ Ends(u)
  /\ UNCHANGED <<link, dgCame, dgQueue, tx, attempts, gone, sendRoom>>

\* consume_receive_buffer: recv and peek
ConsumeReceiveBuffer(u) ==
  /\ dgCall[u] \in {"recv", "peek"} /\ dgSource[u].state = "done"
  /\ Delivered(u) /\ rxYolo' = TRUE /\ rxSpoiled' = FALSE /\ Ends(u)
  /\ UNCHANGED <<link, dgCame, dgQueue, tx, attempts, gone, sendRoom>>
RecvFromBlocking(u) ==
  /\ dgCall[u] \in {"recv_from", "peek_from"} /\ dgSource[u].state = "done"
  /\ Delivered(u) /\ rxYolo' = TRUE /\ rxSpoiled' = FALSE /\ Ends(u)
  /\ UNCHANGED <<link, dgCame, dgQueue, tx, attempts, gone, sendRoom>>
\* send, and send_to_blocking
SendBlocking(u) ==
  /\ dgCall[u] \in Sends /\ dgSource[u].state = "done"
  /\ txYolo' = TRUE /\ txSpoiled' = FALSE /\ Ends(u)
  /\ UNCHANGED <<link, inbound, rx, attempts, gone, sendRoom>>

Spoils(o) ==
  /\ rxSpoiled' = (rxSpoiled \/ o \in Receives) /\ txSpoiled' = (txSpoiled \/ o \in Sends)
  /\ UNCHANGED <<rxYolo, txYolo>>

(* The source ends with an error, or with its timeout; the error goes to the caller  *)
(* and the flag stays as it is.                                                      *)
Fails(u) ==
  /\ dgCall[u] \in Receives \cup Sends /\ dgSource[u].state = "pending" /\ Ends(u)
  /\ Spoils(dgCall[u])
  /\ UNCHANGED <<link, inbound, attempts, gone, sendRoom>>

(* connect returns with the first address that will do, or when none is left; one    *)
(* that fails is followed by the next.                                               *)
ConnectReturns(u) ==
  /\ dgCall[u] = "connect" /\ (dgSource[u].state = "done" \/ attempts[u] = 0)
  /\ Ends(u) /\ attempts' = [attempts EXCEPT ![u] = 0]
  /\ UNCHANGED <<link, inbound, rx, tx, gone, sendRoom>>
NextAddress(u) ==
  /\ dgCall[u] = "connect" /\ dgSource[u].state = "pending" /\ attempts[u] > 0
  /\ attempts' = [attempts EXCEPT ![u] = @ - 1] /\ UNCHANGED <<dgCall, dgSource>>
  /\ UNCHANGED <<link, inbound, rx, tx, gone, sendRoom>>

(* The future is dropped, and its source with it (Source::drop).                     *)
GiveUp(u) ==
  /\ ~Free(u) /\ drops < MaxDrops /\ Ends(u) /\ attempts' = [attempts EXCEPT ![u] = 0]
  /\ Spoils(dgCall[u])
  /\ IF dgSource[u].state = "pending"
     THEN Orphaned(dgCall[u]) /\ UNCHANGED dgLost
     ELSE /\ drops' = drops + 1 /\ UNCHANGED dgOrphans
          /\ dgLost' = IF dgCall[u] \in Takes /\ dgSource[u].state = "done"
                       THEN dgLost \cup {dgSource[u].got} ELSE dgLost
  /\ UNCHANGED <<link, inbound, sendRoom>>

---------------------------------------------------------------------------------------
(* external: the kernel.                                                             *)
DatagramComes ==
  /\ dgCame < MaxDatagrams /\ dgCame' = dgCame + 1 /\ dgQueue' = Append(dgQueue, dgCame')
  /\ UNCHANGED <<link, received, rx, tx, calls, gone, sendRoom>>
RoomChanges ==
  /\ sendRoom' = ~sendRoom
  /\ UNCHANGED <<link, inbound, rx, tx, calls, gone>>

Completed(u, new) == dgSource' = [dgSource EXCEPT ![u] = new]
KernelReceives(u) ==
  /\ dgCall[u] \in Receives /\ dgSource[u].state = "pending" /\ dgQueue # <<>>
  /\ Completed(u, [dgSource[u] EXCEPT !.state = "done", !.got = Head(dgQueue)])
  /\ dgQueue' = IF dgCall[u] \in Takes THEN Tail(dgQueue) ELSE dgQueue
  /\ UNCHANGED <<link, dgCame, received, rx, tx, dgCall, attempts, gone, sendRoom>>
KernelSends(u) ==
  /\ dgCall[u] \in Sends /\ dgSource[u].state = "pending" /\ sendRoom
  /\ dgCall[u] = "send" => peer
  /\ Completed(u, [dgSource[u] EXCEPT !.state = "done"])
  /\ UNCHANGED <<link, inbound, rx, tx, dgCall, attempts, gone, sendRoom>>
KernelConnects(u) ==
  /\ dgCall[u] = "connect" /\ dgSource[u].state = "pending"
  /\ Completed(u, [dgSource[u] EXCEPT !.state = "done"]) /\ peer' = TRUE
  /\ UNCHANGED <<sort, inbound, rx, tx, dgCall, attempts, gone, sendRoom>>
\* A dropped source is cancelled, or completed before that.
OrphanEnds(x) ==
  /\ x \in dgOrphans /\ dgOrphans' = dgOrphans \ {x}
  /\ \/ UNCHANGED <<peer, dgQueue, dgLost>>
     \/ /\ x[2] \in Takes /\ dgQueue # <<>> /\ dgLost' = dgLost \cup {Head(dgQueue)}
        /\ dgQueue' = Tail(dgQueue) /\ UNCHANGED peer
     \/ x[2] = "connect" /\ peer' = TRUE /\ UNCHANGED <<dgQueue, dgLost>>
  /\ UNCHANGED <<sort, dgCame, received, rx, tx, calls, drops, sendRoom>>

Next ==
  \/ \E u \in Users :
       \/ UdpPeek(u) \/ UdpPeekFrom(u) \/ UdpRecv(u) \/ UdpRecvFrom(u) \/ UdpSend(u)
       \/ UdpSendTo(u) \/ UdpConnect(u)
       \/ UnixPeek(u) \/ UnixPeekFrom(u) \/ UnixRecv(u) \/ UnixRecvFrom(u) \/ UnixSend(u)
       \/ UnixSendTo(u) \/ UnixConnect(u)
       \/ ConsumeReceiveBuffer(u) \/ RecvFromBlocking(u) \/ SendBlocking(u) \/ Fails(u)
       \/ ConnectReturns(u) \/ NextAddress(u) \/ GiveUp(u)
       \/ KernelReceives(u) \/ KernelSends(u) \/ KernelConnects(u)
  \/ DatagramComes \/ RoomChanges \/ \E x \in dgOrphans : OrphanEnds(x)

Spec == Init /\ [][Next]_datagramVars

---------------------------------------------------------------------------------------
Held == {u \in Users : dgCall[u] \in Takes /\ dgSource[u].state = "done"}
Carried(s) == {s[i] : i \in DOMAIN s}

(* Every datagram that came is in one place: still in the kernel, in the source of a *)
(* task that is about to have it, received by one task and once, or lost; and no     *)
(* more are lost than sources of a recv were dropped.  A peek takes none.            *)
EachDatagramOnce ==
  LET held == {dgSource[u].got : u \in Held} IN
  /\ Carried(dgQueue) \cup Carried(received) \cup held \cup dgLost = 1 .. dgCame
  /\ Len(dgQueue) + Len(received) + Cardinality(Held) + Cardinality(dgLost) = dgCame
  /\ Cardinality(dgLost) + Cardinality({x \in dgOrphans : x[2] \in Takes}) <= drops

(* A direction is off the fast path only while an operation of it is on the ring, or *)
(* because one failed or was given up: a success brings the socket back to it.       *)
ComesBack ==
  /\ ~rxYolo => rxSpoiled \/ \E u \in Users : dgCall[u] \in Receives
  /\ ~txYolo => txSpoiled \/ \E u \in Users : dgCall[u] \in Sends

(* The operations of a datagram socket do what they promise.                         *)
DatagramsServed == EachDatagramOnce /\ ComesBack
======================================================================================
