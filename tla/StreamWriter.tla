------------------------------- MODULE StreamWriter -------------------------------
(* io/buffered_file_stream.rs: StreamWriter, a buffer in front of writes to a     *)
(* BufferedFile.  Positions count units of data; units are numbered as they are   *)
(* accepted.  One task writes.  It may give up an operation that waits and begin  *)
(* another, but polls again only when the source has a result: an earlier poll    *)
(* finds none to unwrap.                                                          *)
EXTENDS Naturals, Sequences

CONSTANTS BufferUnits, MaxUnits,
          SwTargets,      \* positions a seek leads to
          MaxEnd,         \* bound on positions
          ShortWrites,    \* whether the kernel may write less than it was given
          Hole            \* what a position holds that was never written

VARIABLES
  swPos,        \* file_pos
  swBuffer,     \* buffer.data
  swSource,     \* source: the operation, and how it stands
  swStatus,     \* file_status
  swOp,         \* the operation that waits: "none", "write", "flush", "seek", "close"
  swTarget,     \* the position that seek leads to
  fd,           \* the descriptor: "open"; "closed", and the writer does not know yet;
                \* "gone"; with the writer "dropped", or "closedTwice"
  content,      \* the file
  intended,     \* what it should be once everything is written (ghost)
  userPos,      \* where the next unit belongs: behind the last one, or the last seek (ghost)
  accepted,     \* units accepted so far
  swFailed      \* an operation returned an error (ghost)

swVars == <<swPos, swBuffer, swSource, swStatus, swOp, swTarget, fd, content, intended,
            userPos, accepted, swFailed>>

progress == <<accepted, intended, userPos>>

NoOp == [kind |-> "none", state |-> "none"]
Positions == 0 .. MaxEnd - 1
Pending == swSource.state = "pending"

Init ==
  /\ swPos = 0 /\ swBuffer = <<>> /\ swSource = NoOp /\ swStatus = "Open" /\ swOp = "none"
  /\ swTarget = 0 /\ fd = "open" /\ accepted = 0 /\ userPos = 0 /\ swFailed = FALSE
  /\ content = [p \in Positions |-> Hole] /\ intended = content

Starts(kind) ==
  swSource' = [kind |-> kind, state |-> "pending", data |-> swBuffer, at |-> swPos]

(* The position up to which the data ds takes the file.                           *)
Reaches(pos, ds) == pos + Len(ds)
Written(file, pos, ds) ==
  [p \in Positions |-> IF p >= pos /\ p < Reaches(pos, ds) THEN ds[p - pos + 1] ELSE file[p]]

(* flush_write_buffer                                                             *)
FlushWriteBuffer == Starts("write") /\ swBuffer' = <<>>

\* Fault seeded in FlushedPos: the position stays where it was.
FlushedPos_stays(source) == source.at

(* Where the writer is after a write has ended.                                   *)
FlushedPos(source) == Reaches(source.at, source.data)

(* consume_flush_result: the position is to move by what was to be written, the   *)
(* buffer is replaced by an empty one, and the operation goes on; after an error  *)
(* the data is gone, the position stays, and the operation ends.                  *)
ConsumeFlushResult ==
  /\ swSource.kind = "write" /\ swSource.state = "done"
  /\ swSource' = NoOp /\ UNCHANGED swFailed
ConsumeFlushError ==
  /\ swSource.kind = "write" /\ swSource.state = "failed"
  /\ swSource' = NoOp /\ swFailed' = TRUE /\ swOp' = "none"
  /\ UNCHANGED <<swPos, swBuffer, swStatus, progress>>

(* An operation begins or is polled again.  After a close that was given up the   *)
(* task only closes.                                                              *)
Polls(op) == swOp \in {"none", op} /\ fd = "open" /\ swStatus = "Open" /\ ~Pending

(* Buffer::copy_from_buffer, of one unit behind those of buf.                     *)
Copy(buf, pos) ==
  /\ {userPos, Reaches(pos, buf)} \subseteq Positions
  /\ accepted' = accepted + 1 /\ swBuffer' = Append(buf, accepted')
  /\ intended' = [intended EXCEPT ![userPos] = accepted'] /\ userPos' = userPos + 1
  /\ swPos' = pos /\ swOp' = "none" /\ UNCHANGED swStatus

(* poll_write                                                                     *)
PollWrite ==
  /\ Polls("write") /\ accepted < MaxUnits
  /\ \/ ConsumeFlushResult /\ Copy(<<>>, FlushedPos(swSource))
     \/ ConsumeFlushError
     \/ /\ swSource = NoOp /\ Len(swBuffer) >= BufferUnits
        /\ FlushWriteBuffer /\ swOp' = "write"
        /\ UNCHANGED <<swPos, swStatus, swFailed, progress>>
     \/ /\ swSource = NoOp /\ Len(swBuffer) < BufferUnits
        /\ Copy(swBuffer, swPos) /\ UNCHANGED <<swSource, swFailed>>
  /\ UNCHANGED <<swTarget, fd, content>>

(* do_poll_flush: a write is issued and op waits; or the write that ended failed; *)
(* or all is flushed and the writer is at PosFlushed.                             *)
PollFlushPending(op) ==
  /\ swSource = NoOp /\ swBuffer # <<>> /\ FlushWriteBuffer /\ swOp' = op
  /\ UNCHANGED <<swPos, swStatus, swFailed, progress>>
DoPollFlush ==
  \/ swSource = NoOp /\ swBuffer = <<>> /\ UNCHANGED <<swSource, swFailed>>
  \/ ConsumeFlushResult
PosFlushed == IF swSource = NoOp THEN swPos ELSE FlushedPos(swSource)
NotFlushed(op) == PollFlushPending(op) \/ ConsumeFlushError
Goes(pos, op, status) ==
  /\ swPos' = pos /\ swOp' = op /\ swStatus' = status /\ swBuffer' = <<>>
  /\ UNCHANGED <<accepted, intended>>

PollFlush ==
  /\ Polls("flush")
  /\ \/ NotFlushed("flush")
     \/ DoPollFlush /\ Goes(PosFlushed, "none", swStatus) /\ UNCHANGED userPos
  /\ UNCHANGED <<swTarget, fd, content>>

(* poll_seek: SeekFrom::Current and End differ in how the position to is found.   *)
PollSeek(to) ==
  /\ Polls("seek") /\ (swOp = "seek" => to = swTarget) /\ swTarget' = to
  /\ \/ NotFlushed("seek")
     \/ DoPollFlush /\ Goes(to, "none", swStatus) /\ userPos' = to
  /\ UNCHANGED <<fd, content>>

(* poll_close, one state after the other: flush, fdatasync unless it is disabled, *)
(* close; an error ends the call, and the next goes on in the same state.         *)
PollSync ==
  /\ swStatus = "Closing"
  /\ \/ swSource = NoOp /\ Starts("sync") /\ swOp' = "close" /\ UNCHANGED <<swStatus, swFailed>>
     \/ /\ swSource = NoOp /\ swStatus' = "Closed" /\ swOp' = "close"
        /\ UNCHANGED <<swSource, swFailed>>
     \/ /\ swSource.kind = "sync" /\ swSource' = NoOp
        /\ IF swSource.state = "done"
           THEN swStatus' = "Closed" /\ swOp' = "close" /\ UNCHANGED swFailed
           ELSE swFailed' = TRUE /\ swOp' = "none" /\ UNCHANGED swStatus
  /\ UNCHANGED <<swPos, swBuffer, fd, progress>>
PollInnerClose ==
  /\ swStatus = "Closed"
  /\ \/ swSource = NoOp /\ Starts("close") /\ swOp' = "close" /\ UNCHANGED <<fd, swFailed>>
     \/ /\ swSource.kind = "close" /\ swSource' = NoOp /\ swOp' = "none" /\ fd' = "gone"
        /\ swFailed' = (swFailed \/ swSource.state = "failed")
  /\ UNCHANGED <<swPos, swBuffer, swStatus, progress>>
PollClose ==
  /\ swOp \in {"none", "close"} /\ fd \in {"open", "closed"} /\ ~Pending
  /\ \/ /\ swStatus = "Open"
        /\ \/ NotFlushed("close")
           \/ DoPollFlush /\ Goes(PosFlushed, "close", "Closing") /\ UNCHANGED userPos
        /\ UNCHANGED fd
     \/ PollSync \/ PollInnerClose
  /\ UNCHANGED <<swTarget, content>>

(* The writer is dropped, and with it its file, whose descriptor is closed        *)
(* (GlommioFile::drop).  A close under way is cancelled, or was too late to be.   *)
DropWriter ==
  /\ swOp = "none" /\ fd \in {"open", "closed"} /\ swSource' = NoOp
  /\ fd' \in (IF fd = "closed" THEN {"closedTwice"}
              ELSE IF swSource.kind = "close" /\ Pending THEN {"dropped", "closedTwice"}
              ELSE {"dropped"})
  /\ UNCHANGED <<swPos, swBuffer, swStatus, swOp, swTarget, content, progress, swFailed>>

(* The future of an operation is dropped; its source stays with the writer.       *)
GiveUp ==
  /\ swOp # "none" /\ swOp' = "none"
  /\ UNCHANGED <<swPos, swBuffer, swSource, swStatus, swTarget, fd, content, progress, swFailed>>

(* external: the operation ends.                                                  *)
KernelEnds ==
  /\ Pending
  /\ \/ swSource' = [swSource EXCEPT !.state = "failed"] /\ UNCHANGED <<content, fd>>
     \/ /\ swSource' = [swSource EXCEPT !.state = "done"]
        /\ \/ swSource.kind = "write"
              /\ \E n \in (IF ShortWrites THEN 1 ELSE Len(swSource.data)) .. Len(swSource.data) :
                   content' = Written(content, swSource.at, SubSeq(swSource.data, 1, n))
              /\ UNCHANGED fd
           \/ swSource.kind = "sync" /\ UNCHANGED <<content, fd>>
           \/ swSource.kind = "close" /\ fd' = "closed" /\ UNCHANGED content
  /\ UNCHANGED <<swPos, swBuffer, swStatus, swOp, swTarget, progress, swFailed>>

Next ==
  \/ PollWrite \/ PollFlush \/ (\E p \in SwTargets : PollSeek(p)) \/ PollClose
  \/ GiveUp \/ DropWriter \/ KernelEnds

Spec == Init /\ [][Next]_swVars

(* Unless an operation reported an error, what is not in the buffer or under way  *)
(* is in the file, at the position it was accepted for, whatever seeks and        *)
(* operations given up came between; a write under way begins where the writer    *)
(* is, with the units before the buffer's; and so a close that succeeds leaves    *)
(* the file with everything that was written (consume_flush_result, poll_close).  *)
StreamWritten ==
  ~swFailed /\ fd \notin {"dropped", "closedTwice"} =>
     LET flying == IF swSource.kind = "write" THEN swSource.data ELSE <<>> IN
     /\ swSource.kind = "write" => swSource.at = swPos /\ swBuffer = <<>>
     /\ Written(content, swPos, flying \o swBuffer) = intended
     /\ fd = "gone" => content = intended

(* A descriptor is closed once: "fd reuse is a real risk" (poll_inner_close).     *)
ClosedOnce == fd # "closedTwice"
==================================================================================
