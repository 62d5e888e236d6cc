------------------------------ MODULE DmaStreamReader -----------------------------
(* io/dma_file_stream.rs: DmaStreamReader and its read-ahead.  Positions count   *)
(* units of data, BufferLen of them to a buffer.  One task reads; it may drop a  *)
(* read that waits, and skip.                                                    *)
EXTENDS Naturals, FiniteSets

CONSTANTS BufferLen, ReadAhead,
          FileLen,       \* units in the file
          EndPos,        \* with_end_pos
          MaxReadErrors, \* bound on the reads that fail
          NoBuffer

VARIABLES
  aheadPos,     \* buffer_read_ahead_current_pos
  pending,      \* ids being read
  stuck,        \* those of pending whose task gave up because error was set
  buffermap,    \* ids in memory
  cached,       \* the id of cached_buffer
  wakers,       \* ids in wakermap
  rError,       \* error is Some
  currentPos,
  reading,      \* the id the task waits for, or NoBuffer
  rWoken,       \* its waker was called
  readErrors

rVars == <<aheadPos, pending, stuck, buffermap, cached, wakers, rError, currentPos, reading,
           rWoken, readErrors>>

Id(pos) == pos \div BufferLen
Least(a, b) == IF a < b THEN a ELSE b
(* What read_at_aligned gives for the buffer.                                    *)
UnitsOf(id) == IF FileLen <= id * BufferLen THEN 0 ELSE Least(BufferLen, FileLen - id * BufferLen)

(* fill_buffer, n times (replenish_read_ahead): each call takes the buffer at    *)
(* the read-ahead position p, unless that is past the end or it has the buffer.  *)
Filled(p, n, have) ==
  Cardinality({k \in 1..n : \A j \in 0..(k - 1) : /\ p + j * BufferLen <= EndPos
                                                  /\ Id(p) + j \notin have})
Fill(p, n, kept) ==
  LET count == Filled(p, n, kept \cup buffermap) IN
  /\ pending' = kept \cup {Id(p) + j : j \in 0..(count - 1)}
  /\ aheadPos' = p + count * BufferLen
Ahead(have) == IF Cardinality(have) < ReadAhead THEN ReadAhead - Cardinality(have) ELSE 0

Init ==
  /\ pending = 0..(Filled(0, ReadAhead, {}) - 1)
  /\ aheadPos = Cardinality(pending) * BufferLen
  /\ stuck = {} /\ buffermap = {} /\ cached = NoBuffer /\ wakers = {} /\ rError = FALSE
  /\ currentPos = 0 /\ reading = NoBuffer /\ rWoken = FALSE /\ readErrors = 0

----------------------------------------------------------------------------------
\* Fault seeded in Skip: the read-ahead is left where it was.
Skip_leavesAhead(n) ==
  LET to == Least(currentPos + n, EndPos)
      behind == Id(currentPos)..(Id(to) - 1) IN
  /\ currentPos' = to
  /\ buffermap' = buffermap \ behind /\ stuck' = stuck \ behind
  /\ Fill(aheadPos, Ahead((pending \cup buffermap) \ behind), pending \ behind)

(* skip: buffers left behind are discarded, their reads cancelled; read-ahead    *)
(* goes on from where the reader is, if it was behind.                           *)
Skip(n) ==
  LET to == Least(currentPos + n, EndPos)
      behind == Id(currentPos)..(Id(to) - 1)
      start == IF aheadPos < Id(to) * BufferLen THEN Id(to) * BufferLen ELSE aheadPos IN
  /\ currentPos' = to
  /\ buffermap' = buffermap \ behind /\ stuck' = stuck \ behind
  /\ IF behind = {} THEN UNCHANGED <<pending, aheadPos>>
     ELSE Fill(start, Ahead((pending \cup buffermap) \ behind), pending \ behind)

SkipAhead(n) ==
  /\ reading = NoBuffer /\ Skip(n)
  /\ UNCHANGED <<cached, wakers, rError, reading, rWoken, readErrors>>

(* get_cached_buffer: the buffer, if it is cached or in memory.                  *)
Have(id) == cached = id \/ id \in buffermap

(* poll_get_buffer_aligned for n units (poll_get_buffer; AsyncRead::poll_read):  *)
(* at the end nothing is left; an error is handed out once; without the buffer   *)
(* the first waker starts a read.                                                *)
PollGetBuffer(n) ==
  LET id == Id(currentPos)
      offset == currentPos % BufferLen
      len == Least(Least(n, EndPos - currentPos), BufferLen - offset) IN
  /\ rWoken' = FALSE
  /\ \/ /\ len = 0 /\ reading' = NoBuffer
        /\ UNCHANGED <<aheadPos, pending, stuck, buffermap, cached, wakers, rError, currentPos>>
     \/ /\ len > 0 /\ rError /\ rError' = FALSE /\ reading' = NoBuffer
        /\ UNCHANGED <<aheadPos, pending, stuck, buffermap, cached, wakers, currentPos>>
     \/ /\ len > 0 /\ ~rError /\ Have(id) /\ reading' = NoBuffer
        /\ cached' = id /\ UNCHANGED <<wakers, rError>>
        /\ IF UnitsOf(id) <= offset
           THEN UNCHANGED <<aheadPos, pending, stuck, buffermap, currentPos>>
           ELSE Skip(Least(len, UnitsOf(id) - offset))
     \/ /\ len > 0 /\ ~rError /\ ~Have(id) /\ reading' = id
        /\ wakers' = wakers \cup {id}
        /\ IF id \in wakers THEN UNCHANGED <<aheadPos, pending>> ELSE Fill(aheadPos, 1, pending)
        /\ UNCHANGED <<stuck, buffermap, cached, rError, currentPos>>
  /\ UNCHANGED readErrors

(* A read that waits is dropped; its waker stays in the map.                     *)
DropRead ==
  /\ reading # NoBuffer /\ reading' = NoBuffer /\ rWoken' = FALSE
  /\ UNCHANGED <<aheadPos, pending, stuck, buffermap, cached, wakers, rError, currentPos,
                 readErrors>>

(* The task of fill_buffer: with an error set it returns at once and leaves its  *)
(* id in pending; otherwise the read ends and its waker is called.               *)
GivesUp ==
  /\ rError /\ \E id \in pending \ stuck : stuck' = stuck \cup {id}
  /\ UNCHANGED <<aheadPos, pending, buffermap, cached, wakers, rError, currentPos, reading,
                 rWoken, readErrors>>
ReadReturns ==
  /\ \E id \in pending \ stuck :
       /\ pending' = pending \ {id} /\ wakers' = wakers \ {id}
       /\ rWoken' = (rWoken \/ (id \in wakers /\ reading = id))
       /\ \/ buffermap' = buffermap \cup {id} /\ UNCHANGED <<rError, readErrors>>
          \/ /\ readErrors < MaxReadErrors /\ readErrors' = readErrors + 1
             /\ rError' = TRUE /\ UNCHANGED buffermap
  /\ UNCHANGED <<aheadPos, stuck, cached, currentPos, reading>>

Next ==
  \/ \E n \in 1..EndPos : SkipAhead(n)
  \/ \E n \in 1..(BufferLen + 1) : PollGetBuffer(n)
  \/ DropRead \/ GivesUp \/ ReadReturns

Spec == Init /\ [][Next]_rVars

----------------------------------------------------------------------------------
(* Properties.                                                                   *)

(* Unless a read failed, a task that waits for a buffer is woken: the buffer is  *)
(* being read and will call its waker, or did; the read-ahead never jumps over a *)
(* buffer the reader still needs, and keeps within its limit and one more.       *)
ReaderNotStranded ==
  readErrors = 0 =>
    /\ reading # NoBuffer => rWoken \/ (reading \in pending \cap wakers)
    /\ \A id \in Id(currentPos)..(Id(aheadPos) - 1) :
         currentPos < EndPos => id \in pending \cup buffermap \cup {cached}
    /\ Cardinality(pending \cup buffermap) <= ReadAhead + 1
==================================================================================
