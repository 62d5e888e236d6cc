---------------------------------- MODULE NetStream ----------------------------------
(* net/stream.rs: GlommioStream over a Preallocated buffer.  A read bypasses the *)
(* buffer when it is at least as large, and else fills it, by a recv that does   *)
(* not block or by lending it to the kernel.  The bytes of the peer are numbered *)
(* from 0.  One task reads and peeks, and may give up an operation; another      *)
(* writes, over the other half of the stream.                                    *)
EXTENDS Naturals

CONSTANTS
  BufferSize, MaxBytes,
  Duration,      \* of the read timeout, when one is set
  MaxTime, NoTimer

VARIABLES
  arrived, taken,  \* bytes that reached the socket; that recv took from it
  peerClosed,
  rxBuf,         \* rx_buf: the bytes [lo, hi) of the stream
  rxDone,        \* rx_done
  rxSource,      \* the completion read: "none", "pending", "done", "failed"; its bytes
  sourceRx,      \* the readiness source: "none", "pending", "ready"
  delivered,     \* bytes the task has read
  op,            \* the operation under way
  timeoutOn,     \* whether a read timeout is set
  timer,         \* read_timeout.timer, and whether the reactor's has fired
  now,
  wrongTimeout,  \* a read that began with no timeout set timed out
  sourceTx, room, \* the write side: its readiness source, room in the socket
  writer         \* "idle", "waiting", "woken"

netVars == <<arrived, taken, peerClosed, rxBuf, rxDone, rxSource, sourceRx, delivered, op,
             timeoutOn, timer, now, wrongTimeout, sourceTx, room, writer>>
socket == <<arrived, peerClosed>>
writeVars == <<sourceTx, room, writer>>
settings == <<timeoutOn, now>>

NoRead == [state |-> "none", lo |-> 0, hi |-> 0]
NoOp == [kind |-> "none", size |-> 0, timed |-> FALSE, woken |-> FALSE]

Init ==
  /\ arrived = 0 /\ taken = 0 /\ peerClosed = FALSE
  /\ rxBuf = [lo |-> 0, hi |-> 0] /\ rxDone = FALSE /\ rxSource = NoRead
  /\ sourceRx = "pending"           \* init() polls for readiness
  /\ delivered = 0 /\ op = NoOp
  /\ timeoutOn = FALSE /\ timer = NoTimer /\ now = 0 /\ wrongTimeout = FALSE
  /\ sourceTx = "none" /\ room = TRUE /\ writer = "idle"

Lesser(m, n) == IF m < n THEN m ELSE n
IsEmpty == rxBuf.lo = rxBuf.hi
Readable == arrived > taken \/ peerClosed
Ends(n) == IF n = 0 THEN TRUE ELSE rxDone

Wake(o) == IF o = NoOp THEN NoOp ELSE [o EXCEPT !.woken = TRUE]
Wait(o) == [o EXCEPT !.woken = FALSE]

---------------------------------------------------------------------------------
\* Timeout

Fired == timer # NoTimer /\ timer.fired

\* maybe_set_timer
MaybeSetTimer ==
  timer' = IF timeoutOn /\ timer = NoTimer THEN [deadline |-> now + Duration, fired |-> FALSE]
           ELSE timer

\* check fails: the timer is forgotten and the operation ends with TimedOut.
CheckFails ==
  /\ Fired /\ timer' = NoTimer /\ op' = NoOp
  /\ wrongTimeout' = (wrongTimeout \/ ~op.timed)

\* set_read_timeout, between operations
SetTimeout(on) ==
  /\ op = NoOp /\ timeoutOn' = on
  /\ UNCHANGED <<socket, taken, rxBuf, rxDone, rxSource, sourceRx, delivered, op, timer, now,
                 wrongTimeout, writeVars>>

\* Reactor::process_timers wakes the task that armed the timer.
TimerFires ==
  /\ timer # NoTimer /\ ~timer.fired /\ timer.deadline <= now
  /\ timer' = [timer EXCEPT !.fired = TRUE] /\ op' = Wake(op)
  /\ UNCHANGED <<socket, taken, rxBuf, rxDone, rxSource, sourceRx, delivered, settings,
                 wrongTimeout, writeVars>>

---------------------------------------------------------------------------------
\* Reads

(* NonBufferedStream::poll_read, of the whole request.                           *)
PollReadDirect ==
  LET n == Lesser(op.size, arrived - taken) IN
  /\ \/ /\ sourceRx # "pending" /\ Readable
        /\ taken' = taken + n /\ delivered' = delivered + n
        /\ sourceRx' = "none" /\ timer' = NoTimer /\ op' = NoOp /\ UNCHANGED wrongTimeout
     \/ /\ ~(sourceRx # "pending" /\ Readable) /\ CheckFails
        /\ UNCHANGED <<taken, delivered, sourceRx>>
     \/ /\ ~(sourceRx # "pending" /\ Readable) /\ ~Fired
        /\ sourceRx' = "pending" /\ op' = Wait(op) /\ MaybeSetTimer
        /\ UNCHANGED <<taken, delivered, wrongTimeout>>
  /\ UNCHANGED <<socket, rxBuf, rxDone, rxSource, settings, writeVars>>

\* RxBuf::read of what the buffer holds from lo to hi.
ReadFrom(lo, hi) ==
  LET n == Lesser(op.size, hi - lo) IN
  /\ rxBuf' = [lo |-> lo + n, hi |-> hi] /\ delivered' = delivered + n /\ op' = NoOp

(* poll_fill with a completion read under way.                                   *)
PollFillLent ==
  /\ \/ /\ rxSource.state = "pending" /\ CheckFails
        /\ UNCHANGED <<rxBuf, rxDone, rxSource, delivered>>
     \/ /\ rxSource.state = "pending" /\ ~Fired /\ MaybeSetTimer /\ op' = Wait(op)
        /\ UNCHANGED <<rxBuf, rxDone, rxSource, delivered, wrongTimeout>>
     \/ /\ rxSource.state = "failed" /\ rxSource' = NoRead /\ timer' = NoTimer /\ op' = NoOp
        /\ UNCHANGED <<rxBuf, rxDone, delivered, wrongTimeout>>
     \/ /\ rxSource.state = "done" /\ rxSource' = NoRead /\ timer' = NoTimer
        /\ rxDone' = Ends(rxSource.hi - rxSource.lo) /\ ReadFrom(rxSource.lo, rxSource.hi)
        /\ UNCHANGED wrongTimeout
  /\ UNCHANGED <<socket, taken, sourceRx, settings, writeVars>>

(* poll_fill otherwise: a recv that does not block, or the buffer is lent.       *)
PollFill ==
  LET n == Lesser(BufferSize, arrived - taken) IN
  /\ \/ /\ Readable /\ taken' = taken + n /\ rxDone' = Ends(n) /\ ReadFrom(taken, taken + n)
        /\ UNCHANGED <<rxSource, timer, wrongTimeout>>
     \/ /\ ~Readable /\ rxSource' = [NoRead EXCEPT !.state = "pending"]
        /\ \/ CheckFails
           \/ ~Fired /\ MaybeSetTimer /\ op' = Wait(op) /\ UNCHANGED wrongTimeout
        /\ UNCHANGED <<taken, rxBuf, rxDone, delivered>>
  /\ UNCHANGED <<socket, sourceRx, settings, writeVars>>

\* A large read goes to the socket, unless the buffer is lent.
Bypasses == op.size >= BufferSize /\ rxSource.state = "none"

(* GlommioStream::poll_read, and poll_fill_buf with consume.                     *)
PollRead ==
  /\ op.kind = "read" /\ op.woken
  /\ \/ IsEmpty /\ Bypasses /\ PollReadDirect
     \/ IsEmpty /\ ~Bypasses /\ ~rxDone /\ rxSource.state # "none" /\ PollFillLent
     \/ IsEmpty /\ ~Bypasses /\ ~rxDone /\ rxSource.state = "none" /\ PollFill
     \/ /\ ~IsEmpty \/ (~Bypasses /\ rxDone)
        /\ ReadFrom(rxBuf.lo, rxBuf.hi)
        /\ UNCHANGED <<socket, taken, rxDone, rxSource, sourceRx, settings, timer,
                       wrongTimeout, writeVars>>

(* peek: of the lent buffer, once it is back; else of the buffer and the socket; *)
(* else with a recv of its own, which ends when there is something.              *)
PollPeek ==
  LET buffered == Lesser(op.size, rxBuf.hi - rxBuf.lo)
      looks == buffered < op.size /\ ~rxDone /\ Readable
      atEnd == looks /\ arrived = taken
  IN
  /\ op.kind \in {"peek", "peekWait"} /\ op.woken
  /\ \/ /\ op.kind = "peek" /\ rxSource.state # "none" /\ UNCHANGED rxDone
        /\ op' = IF rxSource.state = "pending" THEN Wait(op) ELSE NoOp
     \/ /\ op.kind = "peek" /\ rxSource.state = "none"
        /\ rxDone' = (rxDone \/ atEnd)
        /\ op' = IF buffered > 0 \/ looks \/ rxDone THEN NoOp
                 ELSE [Wait(op) EXCEPT !.kind = "peekWait"]
     \/ /\ op.kind = "peekWait" /\ UNCHANGED rxDone
        /\ op' = NoOp
  /\ UNCHANGED <<socket, taken, rxBuf, rxSource, sourceRx, delivered, settings, timer,
                 wrongTimeout, writeVars>>

Begin(kind, size) ==
  /\ op = NoOp
  /\ op' = [kind |-> kind, size |-> size, timed |-> timeoutOn, woken |-> TRUE]
  /\ UNCHANGED <<socket, taken, rxBuf, rxDone, rxSource, sourceRx, delivered, settings, timer,
                 wrongTimeout, writeVars>>

(* The future is dropped: what it registered stays with the stream.              *)
GiveUp ==
  /\ op # NoOp /\ op' = NoOp
  /\ UNCHANGED <<socket, taken, rxBuf, rxDone, rxSource, sourceRx, delivered, settings, timer,
                 wrongTimeout, writeVars>>

---------------------------------------------------------------------------------
(* The kernel: bytes arrive, a lent buffer is filled, readiness is reported.     *)
Arrive ==
  /\ ~peerClosed
  /\ \/ arrived < MaxBytes /\ arrived' = arrived + 1 /\ UNCHANGED peerClosed
     \/ peerClosed' = TRUE /\ UNCHANGED arrived
  /\ UNCHANGED <<taken, rxBuf, rxDone, rxSource, sourceRx, delivered, op, settings, timer,
                 wrongTimeout, writeVars>>

KernelRecv ==
  /\ rxSource.state = "pending"
  /\ \/ LET n == Lesser(BufferSize, arrived - taken) IN
        /\ Readable /\ rxSource' = [state |-> "done", lo |-> taken, hi |-> taken + n]
        /\ taken' = taken + n
     \/ rxSource' = [NoRead EXCEPT !.state = "failed"] /\ UNCHANGED taken
  /\ op' = Wake(op)
  /\ UNCHANGED <<socket, rxBuf, rxDone, sourceRx, delivered, settings, timer, wrongTimeout,
                 writeVars>>

KernelReady ==
  /\ Readable
  /\ \/ sourceRx = "pending" /\ sourceRx' = "ready" /\ op' = Wake(op)
     \/ op.kind = "peekWait" /\ ~op.woken /\ op' = Wake(op) /\ UNCHANGED sourceRx
  /\ UNCHANGED <<socket, taken, rxBuf, rxDone, rxSource, delivered, settings, timer,
                 wrongTimeout, writeVars>>

Tick ==
  /\ now < MaxTime /\ now' = now + 1
  /\ UNCHANGED <<socket, taken, rxBuf, rxDone, rxSource, sourceRx, delivered, op, timeoutOn,
                 timer, wrongTimeout, writeVars>>

---------------------------------------------------------------------------------
\* Writes: a send that does not block, or readiness; the write timeout is as above.
Unread == <<socket, taken, rxBuf, rxDone, rxSource, sourceRx, delivered, op, settings, timer,
            wrongTimeout>>

\* Fault seeded in PollWrite: a source that has its result is waited for again.
PollWrite_keepsSource ==
  /\ writer \in {"idle", "woken"}
  /\ \/ room /\ writer' = "idle" /\ sourceTx' = "none"
     \/ ~room /\ writer' = "waiting"
        /\ sourceTx' = (IF sourceTx = "none" THEN "pending" ELSE sourceTx)
  /\ UNCHANGED <<Unread, room>>

PollWrite ==
  /\ writer \in {"idle", "woken"}
  /\ \/ room /\ writer' = "idle" /\ sourceTx' = "none"
     \/ ~room /\ writer' = "waiting" /\ sourceTx' = "pending"
  /\ UNCHANGED <<Unread, room>>

GiveUpWrite == writer # "idle" /\ writer' = "idle" /\ UNCHANGED <<Unread, sourceTx, room>>

\* The peer drains the socket, the sends of others of the process fill it.
KernelRoom == room' = ~room /\ UNCHANGED <<Unread, sourceTx, writer>>
KernelWritable ==
  /\ room /\ sourceTx = "pending" /\ sourceTx' = "ready"
  /\ writer' = IF writer = "waiting" THEN "woken" ELSE writer
  /\ UNCHANGED <<Unread, room>>

---------------------------------------------------------------------------------
Next ==
  \/ \E on \in BOOLEAN : SetTimeout(on)
  \/ \E kind \in {"read", "peek"}, size \in 1 .. BufferSize : Begin(kind, size)
  \/ PollRead \/ PollPeek \/ GiveUp \/ TimerFires \/ Tick
  \/ Arrive \/ KernelRecv \/ KernelReady
  \/ PollWrite \/ GiveUpWrite \/ KernelRoom \/ KernelWritable

Spec == Init /\ [][Next]_netVars

(* No byte is lost, repeated or reordered, whichever reads are given up: what    *)
(* was taken from the socket and not delivered is what the buffer or the lent    *)
(* buffer holds, and begins with the next byte to deliver.                       *)
BytesInOrder ==
  /\ taken - delivered = (rxBuf.hi - rxBuf.lo) + (rxSource.hi - rxSource.lo)
  /\ ~IsEmpty => rxBuf.lo = delivered
  /\ rxSource.hi > rxSource.lo => IsEmpty /\ rxSource.lo = delivered

(* An operation that waits has something under way that wakes it: a read its     *)
(* readiness source or the lent buffer, a write its source.                      *)
NetNotStranded ==
  /\ (op.kind = "read" /\ ~op.woken) =>
       IF rxSource.state = "none" THEN sourceRx = "pending" ELSE rxSource.state = "pending"
  /\ (op.kind = "peek" /\ ~op.woken) => rxSource.state = "pending"
  /\ writer = "waiting" => sourceTx = "pending"

(* The stream delivers what arrives, in order, to whoever still reads.           *)
StreamDelivers == BytesInOrder /\ NetNotStranded

(* "If the value specified is [`None`], then read calls will block indefinitely" *)
(* (set_read_timeout): a read that began with no timeout set does not time out.  *)
NoneBlocks == ~wrongTimeout
===================================================================================
