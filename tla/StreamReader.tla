------------------------------- MODULE StreamReader -------------------------------
(* io/buffered_file_stream.rs: StreamReader, a buffer over reads of a            *)
(* BufferedFile.  Positions count units of data.  The task polls again when its  *)
(* source has a result; in between it may drop the operation and start another.  *)
EXTENDS Naturals

CONSTANTS BufferUnits, FileUnits, EndPos,
          SeekTargets     \* positions SeekFrom::Start and Current lead to

VARIABLES
  srPos,        \* file_pos
  srUnread,     \* unconsumed units of the buffer
  srFrom,       \* where in the file those units were read (ghost)
  ioSource,     \* io_source: where it reads, its result once it has one
  seekSource,   \* seek_source: "none", "pending", "done"
  srPanicked    \* a subtraction underflowed

srVars == <<srPos, srUnread, srFrom, ioSource, seekSource, srPanicked>>

NoSource == [state |-> "none", from |-> 0, size |-> 0]
Init ==
  /\ srPos = 0 /\ srUnread = 0 /\ srFrom = 0 /\ ioSource = NoSource
  /\ seekSource = "none" /\ srPanicked = FALSE

(* poll_fill_buf: what is unread; or the result of the read, cut at the end      *)
(* position; or a read is issued.                                                *)
PollFillBuf ==
  /\ ioSource.state # "pending" /\ srUnread = 0
  /\ \/ /\ ioSource.state = "none"
        /\ ioSource' = [state |-> "pending", from |-> srPos, size |-> 0]
        /\ UNCHANGED <<srPos, srUnread, srFrom, srPanicked>>
     \/ ioSource.state = "failed" /\ ioSource' = NoSource
        /\ UNCHANGED <<srPos, srUnread, srFrom, srPanicked>>
     \/ /\ ioSource.state = "done" /\ ioSource' = NoSource
        /\ LET reached == srPos + ioSource.size
               newPos == IF reached < EndPos THEN reached ELSE EndPos IN
           IF newPos < srPos THEN srPanicked' = TRUE /\ UNCHANGED <<srPos, srUnread, srFrom>>
           ELSE /\ srPos' = newPos /\ srUnread' = newPos - srPos
                /\ srFrom' = ioSource.from /\ UNCHANGED srPanicked
  /\ UNCHANGED seekSource

(* consume, by poll_read or by the user of AsyncBufRead.                         *)
Consume(n) ==
  /\ n <= srUnread /\ srUnread' = srUnread - n /\ srFrom' = srFrom + n
  /\ UNCHANGED <<srPos, ioSource, seekSource, srPanicked>>

\* Fault seeded in Sought: the read under way is kept.
Sought_keepsSource(pos) ==
  srPos' = pos /\ srUnread' = 0 /\ UNCHANGED <<ioSource, srFrom, srPanicked>>

(* poll_seek succeeds: the buffer is emptied and a read under way forgotten.     *)
Sought(pos) ==
  srPos' = pos /\ srUnread' = 0 /\ ioSource' = NoSource /\ UNCHANGED <<srFrom, srPanicked>>

(* SeekFrom::Start and, from the position of the first unread unit, Current.     *)
Seek(pos) == Sought(pos) /\ UNCHANGED seekSource

(* SeekFrom::End, which asks for the size of the file first.                     *)
SeekEnd(back) ==
  \/ seekSource = "none" /\ seekSource' = "pending"
     /\ UNCHANGED <<srPos, srUnread, srFrom, ioSource, srPanicked>>
  \/ seekSource = "done" /\ back <= FileUnits /\ seekSource' = "none" /\ Sought(FileUnits - back)

(* The reactor has a result; a read may be short.                                *)
ReadCompletes ==
  /\ ioSource.state = "pending"
  /\ \/ \E n \in 0..BufferUnits :
          /\ n <= (IF ioSource.from < FileUnits THEN FileUnits - ioSource.from ELSE 0)
          /\ ioSource' = [ioSource EXCEPT !.state = "done", !.size = n]
     \/ ioSource' = [ioSource EXCEPT !.state = "failed"]
  /\ UNCHANGED <<srPos, srUnread, srFrom, seekSource, srPanicked>>
StatCompletes ==
  /\ seekSource = "pending" /\ seekSource' = "done"
  /\ UNCHANGED <<srPos, srUnread, srFrom, ioSource, srPanicked>>

(* A panic unwinds the task, and the reader with it.                             *)
Next ==
  /\ ~srPanicked
  /\ \/ PollFillBuf \/ (\E n \in 1..BufferUnits : Consume(n))
     \/ (\E p \in SeekTargets : Seek(p)) \/ (\E b \in 0..FileUnits : SeekEnd(b))
     \/ ReadCompletes \/ StatCompletes

Spec == Init /\ [][Next]_srVars

(* Whatever the order of reads, partial consumption, seeks and reads dropped     *)
(* half-way, the bytes handed out are those at the position the reader reports,  *)
(* none is skipped and none repeated, none is at or past the end position, and   *)
(* the subtraction that cuts a read there can underflow only for a program that  *)
(* sought past it.                                                               *)
ReadsAtPosition ==
  /\ srUnread > 0 => srFrom + srUnread = srPos
  /\ ioSource.state # "none" => ioSource.from = srPos /\ srUnread = 0
  /\ srUnread > 0 => srPos <= EndPos
  /\ srPanicked => srPos > EndPos
==================================================================================
