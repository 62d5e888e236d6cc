---------------------------------- MODULE BulkRead ----------------------------------
(* io/bulk_io.rs: DmaFile::read_many.  CoalescedReads merges the requests of a   *)
(* stream into reads of the file, OrderedBulkIo keeps some of them in flight,    *)
(* ReadManyResult hands their answers out.  A poll runs without interruption but *)
(* need not return: it is modelled item by item.  Requests are numbered in the   *)
(* order of the stream.                                                          *)
EXTENDS Naturals, Sequences, SequencesExt

CONSTANTS
  Requests,        \* sequence of <<pos, size>>
  Alignment,
  Limits,          \* max_merged_buffer_size, to choose from
  Gap,             \* max_read_amp
  ConcurrencyCap,
  MemoryCap,
  Nothing

VARIABLES
  limit,
  offered, streamEnded,  \* requests the stream has ready so far; whether it ends
  pulled,          \* requests taken from the stream
  current, merged, \* IOVecMerger: range of the read being built, its requests
  last,            \* CoalescedReads::last
  inflight,        \* reads submitted, oldest first
  terminated,
  bulkAt,          \* "idle", or in a poll: "fill", "extra" (after a read was popped)
  popped,          \* the read a poll will hand out
  answering,       \* ReadManyResult::current: the requests of a read to answer
  answered,        \* requests answered with data or dropped with an error, in order
  bulkDone         \* the stream of results ended

bulkVars == <<limit, offered, streamEnded, pulled, current, merged, last, inflight,
              terminated, bulkAt, popped, answering, answered, bulkDone>>
mergerVars == <<pulled, current, merged, last>>

N == Len(Requests)
Lo(i) == Requests[i][1]
Hi(i) == Requests[i][1] + Requests[i][2]

Init ==
  /\ limit \in Limits
  /\ offered = 0 /\ streamEnded = FALSE /\ pulled = 0
  /\ current = Nothing /\ merged = <<>> /\ last = Nothing
  /\ inflight = <<>> /\ terminated = FALSE
  /\ bulkAt = "idle" /\ popped = Nothing /\ answering = <<>> /\ answered = <<>>
  /\ bulkDone = FALSE

AlignDown(n) == n - (n % Alignment)
AlignUp(n) == AlignDown(n + Alignment - 1)

\* A read: its range, aligned, and the requests it stands for.
ReadOf(range, ids) ==
  [lo |-> AlignDown(range[1]), hi |-> AlignUp(range[2]), ids |-> ids, done |-> "no"]

Size(read) == read.hi - read.lo
Memory == FoldSeq(LAMBDA r, m : Size(r) + m, 0, inflight)
IsFull ==
  \/ Len(inflight) = ConcurrencyCap
  \/ Memory > MemoryCap

---------------------------------------------------------------------------------
\* CoalescedReads

(* The end of one call of poll_next of CoalescedReads, in poll_inner: a read is  *)
(* submitted.  In the loop the poll goes on, after a popped read it returns it.  *)
Submit(read) ==
  /\ inflight' = Append(inflight, read)
  /\ bulkAt' = IF bulkAt = "extra" THEN "idle" ELSE bulkAt
  /\ UNCHANGED terminated

(* The merger yields a read: it becomes `last`, or joins it when both ask for    *)
(* the same range, or replaces it and `last` is submitted.                       *)
Yield(read) ==
  \/ /\ last = Nothing /\ last' = read
     /\ UNCHANGED <<inflight, terminated, bulkAt>>
  \/ /\ last # Nothing /\ last.lo = read.lo /\ last.hi = read.hi
     /\ last' = [last EXCEPT !.ids = @ \o read.ids]
     /\ UNCHANGED <<inflight, terminated, bulkAt>>
  \/ /\ last # Nothing /\ (last.lo # read.lo \/ last.hi # read.hi)
     /\ last' = read /\ Submit(last)

\* Distance between the range of the merger and request i.
Apart(i) ==
  \/ Lo(i) > current[2] + Gap
  \/ current[1] > Hi(i) + Gap

Union(i) == <<IF current[1] < Lo(i) THEN current[1] ELSE Lo(i),
              IF current[2] > Hi(i) THEN current[2] ELSE Hi(i)>>

\* Fault seeded in Drained: the request that starts the next read is among them.
Drained_all(i) == <<i>> \o merged

\* The requests of the read that is complete when request i does not join it.
Drained(i) == merged

(* The stream yields a request, which joins the read being built or starts the   *)
(* next one.                                                                     *)
PullRequest ==
  LET i == pulled + 1 IN
  /\ bulkAt # "idle" /\ pulled < offered /\ pulled' = i
  /\ \/ /\ current = Nothing /\ current' = <<Lo(i), Hi(i)>> /\ merged' = <<i>>
        /\ UNCHANGED <<last, inflight, terminated, bulkAt>>
     \/ /\ current # Nothing /\ ~Apart(i) /\ Union(i)[2] - Union(i)[1] <= limit
        /\ current' = Union(i) /\ merged' = Append(merged, i)
        /\ UNCHANGED <<last, inflight, terminated, bulkAt>>
     \/ /\ current # Nothing /\ (Apart(i) \/ Union(i)[2] - Union(i)[1] > limit)
        /\ current' = <<Lo(i), Hi(i)>> /\ merged' = <<i>>
        /\ Yield(ReadOf(current, Drained(i)))
  /\ UNCHANGED <<limit, offered, streamEnded, popped, answering, answered, bulkDone>>

(* The stream is pending: the merger is flushed; when it is empty poll_inner     *)
(* ends with nothing, and the loop calls it again.                               *)
PullPending ==
  /\ bulkAt # "idle" /\ pulled = offered /\ ~streamEnded
  /\ \/ /\ current # Nothing /\ Yield(ReadOf(current, merged))
        /\ current' = Nothing /\ merged' = <<>>
     \/ /\ current = Nothing
        /\ bulkAt' = (IF bulkAt = "extra" THEN "idle" ELSE bulkAt)
        /\ UNCHANGED <<current, merged, last, inflight, terminated>>
  /\ UNCHANGED <<limit, offered, streamEnded, pulled, popped, answering, answered,
                 bulkDone>>

(* The stream ended: the merger gives up what it has, then `last` is submitted,  *)
(* then OrderedBulkIo is told.                                                   *)
PullEnd ==
  /\ bulkAt # "idle" /\ pulled = offered /\ streamEnded
  /\ \/ /\ current # Nothing
        /\ Yield(ReadOf(current, merged)) /\ current' = Nothing /\ merged' = <<>>
     \/ /\ current = Nothing /\ last # Nothing
        /\ last' = Nothing /\ Submit(last) /\ UNCHANGED <<current, merged>>
     \/ /\ current = Nothing /\ last = Nothing
        /\ terminated' = TRUE /\ bulkAt' = (IF bulkAt = "extra" THEN "idle" ELSE bulkAt)
        /\ UNCHANGED <<current, merged, last, inflight>>
  /\ UNCHANGED <<limit, offered, streamEnded, pulled, popped, answering, answered, bulkDone>>

---------------------------------------------------------------------------------
\* OrderedBulkIo and ReadManyResult

\* poll_buffer: the oldest read if it is done, else the poll is pending.
PollBuffer ==
  IF inflight[1].done = "no" THEN bulkAt' = "idle" /\ UNCHANGED <<inflight, popped>>
  ELSE /\ popped' = inflight[1] /\ inflight' = Tail(inflight)
       /\ bulkAt' = IF terminated THEN "idle" ELSE "extra"

(* A poll with nothing left to answer begins: it consumes when full, else fills. *)
PollNext ==
  /\ bulkAt = "idle" /\ popped = Nothing /\ answering = <<>> /\ ~bulkDone
  /\ IF IsFull \/ (terminated /\ inflight # <<>>)
     THEN inflight[1].done # "no" /\ PollBuffer
     ELSE bulkAt' = "fill" /\ UNCHANGED <<inflight, popped>>
  /\ UNCHANGED <<limit, offered, streamEnded, mergerVars, terminated, answering, answered, bulkDone>>

(* The loop is over.                                                             *)
Filled ==
  /\ bulkAt = "fill" /\ (IsFull \/ terminated)
  /\ IF inflight # <<>> THEN PollBuffer /\ UNCHANGED bulkDone
     ELSE bulkAt' = "idle" /\ bulkDone' = TRUE /\ UNCHANGED <<inflight, popped>>
  /\ UNCHANGED <<limit, offered, streamEnded, mergerVars, terminated, answering, answered>>

(* The popped read is returned: an error stands for all its requests; else they  *)
(* are answered, one per poll.                                                   *)
Answer ==
  /\ bulkAt = "idle"
  /\ \/ /\ popped # Nothing /\ popped' = Nothing
        /\ IF popped.done = "failed"
           THEN answered' = answered \o popped.ids /\ UNCHANGED answering
           ELSE answering' = Tail(popped.ids) /\ answered' = Append(answered, Head(popped.ids))
     \/ /\ popped = Nothing /\ answering # <<>>
        /\ answering' = Tail(answering) /\ answered' = Append(answered, Head(answering))
        /\ UNCHANGED popped
  /\ UNCHANGED <<limit, offered, streamEnded, mergerVars, inflight, terminated, bulkAt, bulkDone>>

\* Between polls the stream gets requests or ends, and the kernel completes reads.
Offer ==
  /\ bulkAt = "idle" /\ ~streamEnded
  /\ \/ offered < N /\ offered' = offered + 1 /\ UNCHANGED streamEnded
     \/ streamEnded' = TRUE /\ UNCHANGED offered
  /\ UNCHANGED <<limit, mergerVars, inflight, terminated, bulkAt, popped, answering, answered,
                 bulkDone>>

KernelCompletes(i) ==
  /\ bulkAt = "idle" /\ inflight[i].done = "no"
  /\ \E result \in {"ok", "failed"} : inflight' = [inflight EXCEPT ![i].done = result]
  /\ UNCHANGED <<limit, offered, streamEnded, mergerVars, terminated, bulkAt, popped, answering,
                 answered, bulkDone>>

Pull == PullRequest \/ PullPending \/ PullEnd
Next ==
  \/ PollNext \/ (bulkAt = "fill" /\ ~IsFull /\ ~terminated /\ Pull) \/ (bulkAt = "extra" /\ Pull)
  \/ Filled \/ Answer \/ Offer
  \/ \E i \in DOMAIN inflight : KernelCompletes(i)

Spec == Init /\ [][Next]_bulkVars

\* Code that is running goes on.
Fairness == WF_bulkVars(Filled \/ (bulkAt = "extra" /\ Pull)
                        \/ (bulkAt = "fill" /\ ~IsFull /\ ~terminated /\ Pull))

---------------------------------------------------------------------------------
IdsOf(read) == IF read = Nothing THEN <<>> ELSE read.ids

(* However requests are merged, deduplicated and held back, and whichever reads  *)
(* complete or fail first, every request taken from the stream is in exactly one *)
(* place, in the order of the stream, and lies in the read that stands for it.   *)
ReadsInOrder ==
  /\ answered \o answering \o IdsOf(popped)
       \o FoldRight(LAMBDA r, ids : r.ids \o ids, inflight, <<>>) \o IdsOf(last) \o merged
     = [i \in 1 .. pulled |-> i]
  /\ \A r \in {inflight[i] : i \in DOMAIN inflight} \union ({last} \ {Nothing}) :
       \A k \in DOMAIN r.ids : r.lo <= Lo(r.ids[k]) /\ Hi(r.ids[k]) <= r.hi

(* "if the underlying stream returns `Poll::Pending`" CoalescedReads flushes, to *)
(* answer without undue latency: a poll of the stream of results returns.        *)
PollReturns == (bulkAt # "idle") ~> (bulkAt = "idle")
===================================================================================
