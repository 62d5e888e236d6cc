--------------------------------- MODULE IoSched ---------------------------------
(* io/sched.rs and the reads of a DmaFile that go through it: reads of an        *)
(* immutable file that are under way, or whose results are still held, are kept  *)
(* in a tree ordered by position, and a read that one of them covers shares its  *)
(* buffer instead of asking the kernel.  Positions count bytes of a file of      *)
(* FileLen bytes and the kernel reads in blocks of Alignment bytes.              *)
EXTENDS Naturals, Sequences, SequencesExt

CONSTANTS
  Readers,       \* futures of read_at, and the ReadResults they return
  Alignment, FileLen,
  Requests,      \* positions and sizes
  NoSource

VARIABLES
  schedTree,     \* FileSchedulerInner::sources: sources, ordered by start
  longest,       \* FileSchedulerInner::longest
  files,         \* FileSchedulers: instances of the open file
  reads,         \* reader -> its request and its ScheduledSource
  dataOf         \* source -> its data_range, whether it is done, what it read

ioSchedVars == <<schedTree, longest, files, reads, dataOf>>

Sources == Readers        \* as many as there are readers to hold them
Idle == [at |-> "idle", pos |-> 0, size |-> 0, source |-> NoSource, start |-> 0,
         range |-> 0, len |-> 0]
Unused == [lo |-> 0, hi |-> 0, done |-> FALSE, failed |-> FALSE, read |-> 0]

Lesser(m, n) == IF m < n THEN m ELSE n
Minus(m, n) == IF m < n THEN 0 ELSE m - n          \* saturating_sub
AlignDown(n) == n - (n % Alignment)
AlignUp(n) == AlignDown(n + Alignment - 1)

Handles(s) == {r \in Readers : reads[r].source = s}
Linked == {schedTree[i] : i \in DOMAIN schedTree}

Init ==
  /\ schedTree = <<>> /\ longest = 0 /\ files = 1
  /\ reads = [r \in Readers |-> Idle]
  /\ dataOf = [s \in Sources |-> Unused]

(* consume_scheduled: from the last source that starts at lo or before, back to  *)
(* the earliest start a covering source can have.                                *)
Covering(lo, hi) ==
  LET found == {i \in DOMAIN schedTree :
                  /\ dataOf[schedTree[i]].lo <= lo /\ dataOf[schedTree[i]].lo >= Minus(hi, longest)
                  /\ dataOf[schedTree[i]].hi >= hi} IN
  IF found = {} THEN NoSource
  ELSE schedTree[CHOOSE i \in found : \A j \in found : j <= i]

\* Fault seeded in Longest: the length of the last read scheduled.
Longest_last(length) == length

Longest(length) == IF longest < length THEN length ELSE longest

(* schedule: the source enters the tree after the ones that start with it.       *)
Schedule(s, lo, hi) ==
  LET before == {i \in DOMAIN schedTree : dataOf[schedTree[i]].lo <= lo}
      n == IF before = {} THEN 0 ELSE CHOOSE i \in before : \A j \in before : j <= i IN
  /\ schedTree' = SubSeq(schedTree, 1, n) \o <<s>> \o SubSeq(schedTree, n + 1, Len(schedTree))
  /\ longest' = Longest(hi - lo)
  /\ dataOf' = [dataOf EXCEPT ![s] = [Unused EXCEPT !.lo = lo, !.hi = hi]]

(* DmaFile::read_at up to its await, with Reactor::read_dma.                     *)
ReadAt(r, pos, size) ==
  LET lo == AlignDown(pos)
      hi == lo + AlignUp(size + pos - lo)
      s == Covering(lo, hi)
      began(source) == [Idle EXCEPT !.at = "reading", !.pos = pos, !.size = size,
                                    !.source = source, !.range = hi - lo]
  IN
  /\ reads[r].at = "idle" /\ files > 0
  /\ \/ /\ s # NoSource
        /\ reads' = [reads EXCEPT ![r] = [began(s) EXCEPT !.start = lo - dataOf[s].lo]]
        /\ UNCHANGED <<schedTree, longest, dataOf>>
     \/ /\ s = NoSource
        /\ LET new == CHOOSE u \in Sources : Handles(u) = {} IN
           Schedule(new, lo, hi) /\ reads' = [reads EXCEPT ![r] = began(new)]
  /\ UNCHANGED files

\* The kernel completes a read: what the file holds of it, or an error.
KernelReads(s) ==
  /\ Handles(s) # {} /\ ~dataOf[s].done
  /\ \/ dataOf' = [dataOf EXCEPT ![s].done = TRUE,
                     ![s].read = Lesser(Minus(FileLen, dataOf[s].lo), dataOf[s].hi - dataOf[s].lo)]
     \/ dataOf' = [dataOf EXCEPT ![s].done = TRUE, ![s].failed = TRUE]
  /\ UNCHANGED <<schedTree, longest, files, reads>>

BytesInRange(start, range, read) == Lesser(Minus(read, start), range)

(* ScheduledSource::drop: the last handle takes the source out of the tree.      *)
DropHandle(r, then) ==
  /\ reads' = [reads EXCEPT ![r] = then]
  /\ IF Handles(reads[r].source) = {r}
     THEN /\ schedTree' = SelectSeq(schedTree, LAMBDA s : s # reads[r].source)
          /\ dataOf' = [dataOf EXCEPT ![reads[r].source] = Unused]
     ELSE UNCHANGED <<schedTree, dataOf>>

(* read_at after its await: an error, or the bytes of the request that the       *)
(* source holds.  An empty result keeps no source.                               *)
ReadReturns(r) ==
  LET d == dataOf[reads[r].source]
      b == reads[r].pos - AlignDown(reads[r].pos)
      n == Lesser(Minus(BytesInRange(reads[r].start, reads[r].range, d.read), b), reads[r].size)
      result == [reads[r] EXCEPT !.at = "holding", !.len = n]
  IN
  /\ reads[r].at = "reading" /\ d.done
  /\ \/ d.failed /\ DropHandle(r, Idle)
     \/ ~d.failed /\ n = 0 /\ DropHandle(r, [result EXCEPT !.source = NoSource])
     \/ ~d.failed /\ n > 0 /\ reads' = [reads EXCEPT ![r] = result] /\ UNCHANGED <<schedTree, dataOf>>
  /\ UNCHANGED <<longest, files>>

(* The future or its result is dropped.                                          *)
DropRead(r) ==
  /\ reads[r].at # "idle" /\ DropHandle(r, Idle)
  /\ UNCHANGED <<longest, files>>

(* ReadResult::slice: r holds the last byte of the result of other.              *)
Slice(r, other) ==
  /\ reads[r].at = "idle" /\ reads[other].at = "holding" /\ reads[other].len > 0
  /\ reads' = [reads EXCEPT ![r] = [reads[other] EXCEPT
       !.pos = @ + reads[other].len - 1, !.size = 1, !.len = 1]]
  /\ UNCHANGED <<schedTree, longest, files, dataOf>>

(* dup and attach_scheduler; with no instance left get_file_scheduler makes a    *)
(* new one, with an empty tree.                                                  *)
Attach ==
  /\ files < 2 /\ files' = files + 1
  /\ UNCHANGED <<schedTree, longest, reads, dataOf>>

(* FileScheduler::drop: the last one takes the tree with it.  The reads of an    *)
(* instance keep it: its handles find their scheduler gone only after them.      *)
DropFile ==
  /\ files > 0 /\ files' = files - 1
  /\ (files = 1 => \A r \in Readers : reads[r].at # "reading")
  /\ \/ files > 1 /\ UNCHANGED <<schedTree, longest>>
     \/ files = 1 /\ schedTree' = <<>> /\ longest' = 0
  /\ UNCHANGED <<reads, dataOf>>

Next ==
  \/ \E r \in Readers, req \in Requests : ReadAt(r, req[1], req[2])
  \/ \E s \in Sources : KernelReads(s)
  \/ \E r \in Readers : ReadReturns(r) \/ DropRead(r)
  \/ \E r, other \in Readers : Slice(r, other)
  \/ Attach \/ DropFile

Spec == Init /\ [][Next]_ioSchedVars

---------------------------------------------------------------------------------

(* A request that a read in the tree covers shares it, whatever was scheduled,   *)
(* answered and dropped before: the bound consume_scheduled stops at never hides *)
(* one, and the tree holds a read exactly as long as somebody uses it.           *)
ReadsShared ==
  /\ \A lo, hi \in {Alignment * n : n \in 0 .. (FileLen \div Alignment) + 1} :
       (lo < hi /\ \E s \in Linked : dataOf[s].lo <= lo /\ dataOf[s].hi >= hi)
         => Covering(lo, hi) # NoSource
  /\ \A s \in Linked : Handles(s) # {}
  /\ \A r \in Readers : reads[r].at = "reading" => reads[r].source \in Linked

(* A result holds exactly the bytes of the file that were asked for, up to the   *)
(* end of the file, whichever read it shares the buffer of; and while a result   *)
(* holds bytes, its source has them.                                             *)
AnswerExact ==
  \A r \in Readers : reads[r].at = "holding" =>
    /\ reads[r].len = Lesser(reads[r].size, Minus(FileLen, reads[r].pos))
    /\ reads[r].len > 0 =>
         LET d == dataOf[reads[r].source] IN
         /\ d.done /\ d.lo <= reads[r].pos /\ reads[r].pos + reads[r].len <= d.lo + d.read

(* Sharing is complete, and never shows: reads are shared whenever they can be,  *)
(* and a reader cannot tell.                                                     *)
SharingUnseen == ReadsShared /\ AnswerExact
===================================================================================
