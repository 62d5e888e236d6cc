------------------------------ MODULE DmaStreamWriter -----------------------------
(* io/dma_file_stream.rs: DmaStreamWriter, the writes it leaves behind, and the  *)
(* file.                                                                         *)
(*                                                                               *)
(* Positions count units of data, BufferSize of them to a buffer; what is in the *)
(* file is, for each buffer of it, how many leading units are data (the rest is  *)
(* padding).  One task uses the writer; with MayAbandon it also drops an         *)
(* operation that waits, as a timeout does, and goes on.                         *)
EXTENDS Naturals, Sequences, FiniteSets, SequencesExt

CONSTANTS BufferSize, WriteBehind, MayAbandon,
          MaxPos,        \* bound on the data written
          MaxFailures    \* bound on the operations that fail

VARIABLES
  caller,      \* "idle", "write", "flush", "inner", "sync", "close", "closed", "gone",
               \* "panicked"
  wStatus,     \* file_status
  flushes,     \* flush_state.flushes: position, complete?, has its handle?
  pendingCount, flushedPos, alignedPos, bufferPos, syncedPos,
  hasBuffer,   \* current_buffer is Some
  waker,       \* a waker is stored
  wWoken,      \* the waker was called and the task not polled since
  wError,      \* error is Some
  target,      \* target_pos and the handles flush_inner awaits; or what sync_inner syncs
  closer,      \* the task of initiate_close: "none", "flush", "sync", "truncate", "close", "done"
  writes,      \* write_at calls under way: block, units of data, flush_pos
  disk, size,  \* the file
  failures

wVars == <<caller, wStatus, flushes, pendingCount, flushedPos, alignedPos, bufferPos,
           syncedPos, hasBuffer, waker, wWoken, wError, target, closer, writes, disk,
           size, failures>>

Blocks == 0..(MaxPos \div BufferSize)
NoTarget == [pos |-> 0, awaits |-> {}]

Init ==
  /\ caller = "idle" /\ wStatus = "open" /\ flushes = <<>> /\ pendingCount = 0
  /\ flushedPos = 0 /\ alignedPos = 0 /\ bufferPos = 0 /\ syncedPos = 0
  /\ hasBuffer = FALSE /\ waker = FALSE /\ wWoken = FALSE /\ wError = FALSE
  /\ target = NoTarget /\ closer = "none" /\ writes = {}
  /\ disk = [b \in Blocks |-> 0] /\ size = 0 /\ failures = 0

CurrentPos == alignedPos + bufferPos
LastFlushPos == IF flushes = <<>> THEN flushedPos ELSE Last(flushes).pos
MustTruncate == wStatus # "closed" /\ flushedPos > alignedPos

Positions == <<alignedPos, bufferPos, hasBuffer>>
FlushState == <<flushes, pendingCount, flushedPos, writes>>
File == <<disk, size, failures>>

(* flush_one_buffer and on_start, of a buffer with n units, with the handle or,  *)
(* when the caller takes it at once, without.                                    *)
FlushOneBuffer(n, taken) ==
  LET p == alignedPos + n IN
  /\ writes' = writes \cup {[block |-> alignedPos \div BufferSize, len |-> n, pos |-> p]}
  /\ flushes' = Append(IF taken THEN [k \in DOMAIN flushes |-> [flushes[k] EXCEPT !.handle = FALSE]]
                                ELSE flushes,
                       [pos |-> p, complete |-> FALSE, handle |-> ~taken])
  /\ pendingCount' = pendingCount + 1 /\ UNCHANGED flushedPos

(* flush_padded: the buffer as it is, unless that was written before.            *)
Pads == bufferPos > 0 /\ LastFlushPos # CurrentPos

\* Fault seeded in PendingHandles: the handles are not given out.
PendingHandles_none == {}

(* take_pending_handles                                                          *)
PendingHandles == {flushes[k].pos : k \in {j \in DOMAIN flushes : flushes[j].handle
                                                                  /\ ~flushes[j].complete}}

TakeHandles ==
  /\ flushes' = [k \in DOMAIN flushes |-> [flushes[k] EXCEPT !.handle = FALSE]]
  /\ UNCHANGED <<writes, pendingCount, flushedPos>>

\* Fault seeded in OnComplete: flushed_pos follows the write, not the prefix.
OnComplete_anyOrder(p) ==
  /\ flushes' = SelectSeq(flushes, LAMBDA f : f.pos # p)
  /\ flushedPos' = IF p > flushedPos THEN p ELSE flushedPos
  /\ pendingCount' = pendingCount - 1

(* on_complete: flushes that are complete from the front give flushed_pos.       *)
OnComplete(p) ==
  LET marked == [k \in DOMAIN flushes |->
                   IF flushes[k].pos = p THEN [flushes[k] EXCEPT !.complete = TRUE] ELSE flushes[k]]
      open == {k \in DOMAIN marked : ~marked[k].complete}
      n == IF open = {} THEN Len(marked) ELSE (CHOOSE k \in open : \A j \in open : k <= j) - 1 IN
  /\ flushes' = SubSeq(marked, n + 1, Len(marked))
  /\ flushedPos' = IF n = 0 THEN flushedPos ELSE marked[n].pos
  /\ pendingCount' = pendingCount - 1

----------------------------------------------------------------------------------
(* The task that writes.  A poll takes the stored waker; error.take() comes next *)
(* and ends the operation.                                                       *)

Idle == caller = "idle" /\ wStatus = "open"
TakeError ==
  /\ wError /\ wError' = FALSE /\ waker' = FALSE /\ caller' = "idle"
  /\ UNCHANGED <<Positions, FlushState>>

(* AsyncWrite::poll_write, of one unit.                                          *)
PollWrite ==
  /\ (Idle /\ CurrentPos < MaxPos) \/ caller = "write"
  /\ wWoken' = FALSE
  /\ \/ TakeError
     \/ /\ ~wError /\ waker
        /\ caller' = "write" /\ UNCHANGED <<waker, wError, Positions, FlushState>>
     \/ /\ ~wError /\ ~waker /\ ~hasBuffer /\ pendingCount >= WriteBehind
        /\ waker' = TRUE /\ caller' = "write" /\ UNCHANGED <<wError, Positions, FlushState>>
     \/ /\ ~wError /\ ~waker /\ (hasBuffer \/ pendingCount < WriteBehind)
        /\ caller' = "idle"
        /\ \/ /\ bufferPos + 1 < BufferSize
              /\ bufferPos' = bufferPos + 1 /\ hasBuffer' = TRUE
              /\ UNCHANGED <<alignedPos, FlushState>>
           \/ /\ bufferPos + 1 = BufferSize /\ FlushOneBuffer(BufferSize, FALSE)
              /\ alignedPos' = alignedPos + BufferSize /\ bufferPos' = 0 /\ hasBuffer' = FALSE
        /\ UNCHANGED <<waker, wError>>
  /\ UNCHANGED <<wStatus, syncedPos, target, closer, File>>

(* AsyncWrite::poll_flush                                                        *)
PollFlush ==
  /\ Idle \/ caller = "flush"
  /\ wWoken' = FALSE
  /\ \/ TakeError
     \/ /\ ~wError /\ flushedPos = CurrentPos /\ waker' = FALSE /\ caller' = "idle"
        /\ UNCHANGED <<wError, Positions, FlushState>>
     \/ /\ ~wError /\ flushedPos # CurrentPos /\ waker' = TRUE /\ caller' = "flush"
        /\ IF ~waker /\ Pads THEN FlushOneBuffer(bufferPos, FALSE) ELSE UNCHANGED FlushState
        /\ UNCHANGED <<wError, Positions>>
  /\ UNCHANGED <<wStatus, syncedPos, target, closer, File>>

(* flush_inner, of sync (partial) and of flush_aligned and sync_aligned.         *)
FlushInner(partial) ==
  /\ Idle /\ caller' = "inner"
  /\ target' = [pos |-> IF partial THEN CurrentPos ELSE alignedPos,
                awaits |-> PendingHandles \cup (IF partial /\ Pads THEN {CurrentPos} ELSE {})]
  /\ IF partial /\ Pads THEN FlushOneBuffer(bufferPos, TRUE) ELSE TakeHandles
  /\ UNCHANGED <<wStatus, Positions, syncedPos, waker, wWoken, wError, closer, File>>

Finished(ps) == \A w \in writes : w.pos \notin ps

(* The handles were awaited; it asserts that the position was reached, and       *)
(* sync_inner follows for sync and sync_aligned.                                 *)
FlushInnerReturns ==
  /\ caller = "inner" /\ Finished(target.awaits)
  /\ \/ wError /\ wError' = FALSE /\ caller' = "idle" /\ target' = NoTarget
     \/ /\ ~wError /\ flushedPos < target.pos /\ caller' = "panicked" /\ target' = NoTarget
        /\ UNCHANGED wError
     \/ /\ ~wError /\ flushedPos >= target.pos /\ UNCHANGED wError
        /\ \/ caller' = "idle" /\ target' = NoTarget
           \/ /\ syncedPos < flushedPos /\ caller' = "sync"
              /\ target' = [pos |-> flushedPos, awaits |-> {}]
  /\ UNCHANGED <<wStatus, FlushState, Positions, syncedPos, waker, wWoken, closer, File>>

SyncInner ==
  /\ caller = "sync" /\ caller' = "idle" /\ target' = NoTarget
  /\ \/ syncedPos' = target.pos /\ UNCHANGED failures
     \/ failures < MaxFailures /\ failures' = failures + 1 /\ UNCHANGED syncedPos
  /\ UNCHANGED <<wStatus, FlushState, Positions, waker, wWoken, wError, closer, disk, size>>

(* The future of an operation is dropped; its waker, and the flushes it started, *)
(* stay.                                                                         *)
Abandon ==
  /\ MayAbandon /\ caller \in {"write", "flush", "inner", "sync"}
  /\ caller' = "idle" /\ target' = NoTarget /\ wWoken' = FALSE
  /\ UNCHANGED <<wStatus, FlushState, Positions, syncedPos, waker, wError, closer, File>>

(* poll_close and poll_seal.                                                     *)
PollClose ==
  \/ /\ Idle /\ ~waker /\ caller' = "close" /\ wStatus' = "closing" /\ waker' = TRUE
     /\ closer' = "flush"
     /\ target' = [pos |-> CurrentPos,
                   awaits |-> PendingHandles \cup (IF Pads THEN {CurrentPos} ELSE {})]
     /\ IF Pads THEN FlushOneBuffer(bufferPos, TRUE) ELSE TakeHandles
     /\ hasBuffer' = (hasBuffer /\ ~Pads)
     /\ UNCHANGED <<alignedPos, bufferPos, syncedPos, wWoken, wError, File>>
  \/ /\ caller = "close" /\ waker /\ wWoken' = FALSE
     /\ UNCHANGED <<caller, wStatus, FlushState, Positions, syncedPos, waker, wError,
                    target, closer, File>>
  \/ /\ caller = "close" /\ ~waker /\ wStatus' = "closed" /\ wWoken' = FALSE
     /\ caller' = (IF wError THEN "gone" ELSE "closed") /\ wError' = FALSE
     /\ UNCHANGED <<FlushState, Positions, syncedPos, waker, target, closer, File>>

(* DmaStreamWriter::drop: what is under way is cancelled, which the kernel may   *)
(* be too late to do; after a close that was abandoned there is no file left to  *)
(* truncate.                                                                     *)
DropWriter ==
  /\ Idle \/ (MayAbandon /\ caller = "close")
  /\ caller' = IF wStatus = "closing" /\ MustTruncate THEN "panicked" ELSE "gone"
  /\ \E done \in SUBSET {w \in writes : w.pos \in PendingHandles} :
       disk' = [b \in Blocks |->
                  IF \E w \in done : w.block = b THEN (CHOOSE w \in done : w.block = b).len
                  ELSE disk[b]]
  /\ writes' = {w \in writes : w.pos \notin PendingHandles}
  /\ size' = IF MustTruncate THEN flushedPos ELSE size
  /\ flushes' = <<>> /\ UNCHANGED <<pendingCount, flushedPos>>
  /\ UNCHANGED <<wStatus, Positions, syncedPos, waker, wWoken, wError, target, closer, failures>>

----------------------------------------------------------------------------------
(* The tasks of the flushes, and the task of initiate_close.                     *)

Wake(ready) == wWoken' = (wWoken \/ (waker /\ ready)) /\ waker' = (waker /\ ~ready)

(* write_at returns; while the file is open the waker is called.                 *)
WriteReturns ==
  /\ \E w \in writes :
       /\ writes' = writes \ {w} /\ Wake(wStatus = "open")
       /\ \/ /\ disk' = [disk EXCEPT ![w.block] = w.len]
             /\ size' = (IF size < (w.block + 1) * BufferSize
                         THEN (w.block + 1) * BufferSize ELSE size)
             /\ OnComplete(w.pos) /\ UNCHANGED <<wError, failures>>
          \/ /\ failures < MaxFailures /\ failures' = failures + 1 /\ wError' = TRUE
             /\ UNCHANGED <<disk, size, flushes, pendingCount, flushedPos>>
  /\ caller \notin {"gone", "panicked"}
  /\ UNCHANGED <<caller, wStatus, Positions, syncedPos, target, closer>>

(* initiate_close: await the flushes and assert that all is flushed, fdatasync   *)
(* if asked for, truncate, close (not for seal); an error ends it, and the end   *)
(* wakes the task.                                                               *)
CloserEnds == closer' = "done" /\ Wake(TRUE)
CloserGoes(s) == closer' = s /\ UNCHANGED <<waker, wWoken>>
CloserStep ==
  /\ closer \notin {"none", "done"} /\ Finished(target.awaits) /\ caller # "panicked"
  /\ caller' = IF closer = "flush" /\ ~wError /\ flushedPos # target.pos THEN "panicked" ELSE caller
  /\ \/ /\ closer = "flush"
        /\ IF wError \/ flushedPos # target.pos THEN CloserEnds
           ELSE CloserGoes("sync") \/ CloserGoes("truncate")
        /\ UNCHANGED <<wError, failures, size, syncedPos>>
     \/ /\ closer \in {"sync", "truncate", "close"}
        /\ failures < MaxFailures /\ failures' = failures + 1 /\ wError' = TRUE
        /\ CloserEnds /\ UNCHANGED <<size, syncedPos>>
     \/ /\ closer = "sync" /\ syncedPos' = target.pos /\ CloserGoes("truncate")
        /\ UNCHANGED <<wError, failures, size>>
     \/ /\ closer = "truncate"
        /\ size' = (IF MustTruncate THEN target.pos ELSE size)
        /\ CloserGoes("close") \/ CloserEnds
        /\ UNCHANGED <<wError, failures, syncedPos>>
     \/ /\ closer = "close" /\ CloserEnds
        /\ UNCHANGED <<wError, failures, size, syncedPos>>
  /\ UNCHANGED <<wStatus, FlushState, Positions, target, disk>>

Next ==
  \/ PollWrite \/ PollFlush \/ (\E p \in BOOLEAN : FlushInner(p)) \/ FlushInnerReturns
  \/ SyncInner \/ Abandon \/ PollClose \/ DropWriter \/ WriteReturns \/ CloserStep

Spec == Init /\ [][Next]_wVars

----------------------------------------------------------------------------------
(* Properties.                                                                   *)

DataUpTo(p) ==
  \A b \in Blocks : b * BufferSize < p =>
    disk[b] >= (IF p - b * BufferSize < BufferSize THEN p - b * BufferSize ELSE BufferSize)

(* current_flushed_pos: "new readers trying to read from any position before     *)
(* what we return in this method will be guaranteed to read the data we just     *)
(* wrote", in whatever order the writes complete, a padded buffer among them;    *)
(* and nothing is called synced that was not flushed.                            *)
FlushedReadable == caller \notin {"gone", "panicked"} => DataUpTo(flushedPos) /\ syncedPos <= flushedPos

(* A close that reports success left the file with every unit written and        *)
(* without the padding, unless an earlier error was handed out before.           *)
CloseComplete ==
  caller = "closed" /\ failures = 0 =>
    DataUpTo(CurrentPos) /\ size = CurrentPos /\ flushedPos = CurrentPos

(* A task that waits is woken: its waker is stored and a write or the closing    *)
(* task is left to call it, or it has been called; and the assertions hold that  *)
(* a flush or a close which awaited its handles has flushed what it was to.      *)
WriterNotStranded ==
  /\ failures = 0 => caller # "panicked"
  /\ failures = 0 /\ caller \in {"write", "flush", "close"} =>
       wWoken \/ (waker /\ (writes # {} \/ closer \notin {"none", "done"}))

(* Without a failure of the file, a writer gets to its end and the file is then  *)
(* what was written: nobody waits in vain, and close leaves no padding.          *)
WriterFinishes == CloseComplete /\ WriterNotStranded
==================================================================================
