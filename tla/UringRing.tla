-------------------------------- MODULE UringRing --------------------------------
(* sys/uring.rs, sys/source.rs and free_list.rs: one ring of the reactor, the    *)
(* sources it keeps in the SourceMap, and the kernel on the other side.          *)
(*                                                                               *)
(* A source is named by a model value that is used again once the source is      *)
(* gone.  The reactor's thread runs tasks (ringPc "run"), then takes the ring    *)
(* through poll() or wait(): cancellations, submissions, completions.  wait()    *)
(* also reaps before each of the first two, which poll() does not: Reap is       *)
(* optional there.                                                               *)
EXTENDS Naturals, Sequences, FiniteSets, SequencesExt

CONSTANTS Sources, RingSize,
          MaxQueued,   \* bounds the submissions, and the cancellations
          Free

VARIABLES
  alive,          \* sources whose Source has not been dropped
  status,         \* InnerSource.enqueued: "none" or its EnqueuedStatus
  slots,          \* FreeList.slots: a source, or Free
  freeSlots,      \* the list from FreeList.first_free
  submissions,    \* UringQueueState.submissions
  cancellations,  \* UringQueueState.cancellations: the user_data to cancel
  sq,             \* the submission queue shared with the kernel
  ringPc,         \* where the reactor is
  inKernel,       \* in_kernel
  entered,        \* entries submit() handed over that the kernel has not started
  flying,         \* operations the kernel works on
  cq              \* the completion queue: a bag of completions, by user_data

urVars == <<alive, status, slots, freeSlots, submissions, cancellations, sq, ringPc,
            inKernel, entered, flying, cq>>
reactorVars == <<alive, status, slots, freeSlots, submissions, cancellations, sq,
                 ringPc, inKernel>>
kernelVars == <<entered, flying, cq>>

Init ==
  /\ alive = {} /\ status = [s \in Sources |-> "none"]
  /\ slots = <<>> /\ freeSlots = <<>>
  /\ submissions = <<>> /\ cancellations = <<>> /\ sq = <<>>
  /\ ringPc = "run" /\ inKernel = 0
  /\ entered = <<>> /\ flying = {} /\ cq = [ops |-> {}, others |-> 0]

(* UringDescriptor: an operation of a source, linked to the entry behind it or   *)
(* not; that entry (a link timeout, or the write that follows the throughput     *)
(* timer); a close without a source; a cancel.  Only operations have user_data.  *)
Op(i, l) == [kind |-> "op", ud |-> i, link |-> l]
Second(i) == [kind |-> "second", ud |-> 0, of |-> i]
Close == [kind |-> "close", ud |-> 0]
Cancel(i) == [kind |-> "cancel", ud |-> 0, target |-> i]
IsOp(d) == d.kind = "op"

SlotOf(s) == CHOOSE i \in DOMAIN slots : slots[i] = s

(* FreeList::alloc, dealloc.                                                     *)
NextSlot == IF freeSlots = <<>> THEN Len(slots) + 1 ELSE Head(freeSlots)
Alloc(s) ==
  IF freeSlots = <<>> THEN slots' = Append(slots, s) /\ UNCHANGED freeSlots
                      ELSE /\ slots' = [slots EXCEPT ![Head(freeSlots)] = s]
                           /\ freeSlots' = Tail(freeSlots)
Dealloc(i) ==
  /\ slots' = [slots EXCEPT ![i] = Free] /\ freeSlots' = <<i>> \o freeSlots

(* SourceMap::add_source and consume_source.                                     *)
AddSource(s) ==
  /\ Alloc(s) /\ alive' = alive \cup {s} /\ status' = [status EXCEPT ![s] = "enqueued"]
ConsumeSource(i) ==
  /\ Dealloc(i) /\ status' = [status EXCEPT ![slots[i]] = "none"]

----------------------------------------------------------------------------------
(* The tasks, which run while the reactor has no ring in its hands.              *)

(* An operation of the reactor is queued (queue_request_into_ring), with its     *)
(* link timeout if the source has one; the timers of wait() go to the front.     *)
Enqueue(s, linked, front) ==
  LET i == NextSlot
      chain == IF linked THEN <<Op(i, TRUE), Second(i)>> ELSE <<Op(i, FALSE)>> IN
  /\ ringPc = "run" /\ s \notin alive /\ status[s] = "none"
  /\ linked => RingSize > 1
  /\ Len(submissions) + Len(chain) <= MaxQueued
  /\ AddSource(s)
  /\ submissions' = IF front THEN chain \o submissions ELSE submissions \o chain
  /\ UNCHANGED <<cancellations, sq, ringPc, inKernel, kernelVars>>

(* An operation of the Reactor, with its link timeout when it has one.           *)
Operation(s, timed) == Enqueue(s, timed, FALSE)
(* The preemption timers of wait(): that for latency alone, that for throughput  *)
(* with the write to the eventfd of the other ring linked to it.                 *)
PreemptTimer(s, throughput) == Enqueue(s, throughput, TRUE)

(* Reactor::async_close                                                          *)
AsyncClose ==
  /\ ringPc = "run" /\ Len(submissions) < MaxQueued /\ ~Contains(submissions \o sq, Close)
  /\ submissions' = Append(submissions, Close)
  /\ UNCHANGED <<alive, status, slots, freeSlots, cancellations, sq, ringPc, inKernel,
                 kernelVars>>

\* Fault seeded in DropSource: a source that waits for submission is consumed.
DropSource_consumes(s) ==
  /\ ringPc = "run" /\ s \in alive /\ alive' = alive \ {s}
  /\ status[s] = "dispatched" => Len(cancellations) < MaxQueued
  /\ \/ status[s] = "enqueued" /\ ConsumeSource(SlotOf(s)) /\ UNCHANGED cancellations
     \/ /\ status[s] = "dispatched" /\ status' = [status EXCEPT ![s] = "canceled"]
        /\ cancellations' = Append(cancellations, SlotOf(s))
        /\ UNCHANGED <<slots, freeSlots>>
     \/ status[s] = "none" /\ UNCHANGED <<status, slots, freeSlots, cancellations>>
  /\ UNCHANGED <<submissions, sq, ringPc, inKernel, kernelVars>>

(* Source::drop; cancel_request when the operation was dispatched.               *)
DropSource(s) ==
  /\ ringPc = "run" /\ s \in alive /\ alive' = alive \ {s}
  /\ status[s] = "dispatched" => Len(cancellations) < MaxQueued
  /\ status' = IF status[s] = "none" THEN status ELSE [status EXCEPT ![s] = "canceled"]
  /\ cancellations' = IF status[s] = "dispatched" THEN Append(cancellations, SlotOf(s))
                                                  ELSE cancellations
  /\ UNCHANGED <<slots, freeSlots, submissions, sq, ringPc, inKernel, kernelVars>>

----------------------------------------------------------------------------------
(* The reactor's thread takes the ring.                                          *)

Room == RingSize - Len(sq)

\* Fault seeded in SubmitSqes: what is in the kernel already is forgotten.
SubmitSqes_sets(q) ==
  /\ sq' = <<>> /\ entered' = q /\ inKernel' = Len(q)
  /\ UNCHANGED <<flying, cq>>

(* submit_sqes on the entries q; when the kernel refuses (EBUSY, EAGAIN, EINTR)  *)
(* they stay where they are.                                                     *)
SubmitSqes(q) ==
  /\ sq' = <<>> /\ entered' = q /\ inKernel' = inKernel + Len(q)
  /\ UNCHANGED <<flying, cq>>

Refused(q) == sq' = q /\ UNCHANGED <<inKernel, kernelVars>>

(* poll, rush_dispatch or wait begins.                                           *)
Begin ==
  /\ ringPc = "run" /\ ringPc' = "cancel"
  /\ UNCHANGED <<alive, status, slots, freeSlots, submissions, cancellations, sq,
                 inKernel, kernelVars>>

(* consume_cancellation_queue (flush_cancellations): as many as fit; with more   *)
(* behind them the queue is submitted, once.  After a refusal wait() reaps and   *)
(* tries again, poll() goes on.                                                  *)
ConsumeCancellations ==
  LET n == IF Len(cancellations) < Room THEN Len(cancellations) ELSE Room
      q == sq \o [k \in 1..n |-> Cancel(cancellations[k])] IN
  /\ ringPc = "cancel" /\ entered = <<>>
  /\ cancellations' = SubSeq(cancellations, n + 1, Len(cancellations))
  /\ \/ n = Len(cancellations) /\ Refused(q) /\ ringPc' = "submit"
     \/ n < Len(cancellations) /\ SubmitSqes(q) /\ ringPc' = "submit"
     \/ n < Len(cancellations) /\ Refused(q) /\ ringPc' \in {"cancel", "submit"}
  /\ UNCHANGED <<alive, status, slots, freeSlots, submissions>>

(* peek_one_chain                                                                *)
Chain == IF IsOp(Head(submissions)) /\ Head(submissions).link
         THEN SubSeq(submissions, 1, 2) ELSE SubSeq(submissions, 1, 1)
ChainFits == submissions # <<>> /\ Len(Chain) <= Room

(* submit_event_chain and extract_one_chain, for a chain that fits: an operation *)
(* that was cancelled gives its slot back and is left out, the entry linked to   *)
(* it is not.                                                                    *)
SubmitChain ==
  LET d == Head(submissions)
      dropped == IsOp(d) /\ status[slots[d.ud]] = "canceled" IN
  /\ ringPc = "submit" /\ entered = <<>> /\ ChainFits
  /\ submissions' = SubSeq(submissions, Len(Chain) + 1, Len(submissions))
  /\ sq' = sq \o (IF dropped THEN Tail(Chain) ELSE Chain)
  /\ \/ dropped /\ ConsumeSource(d.ud)
     \/ /\ IsOp(d) /\ ~dropped
        /\ status' = [status EXCEPT ![slots[d.ud]] = "dispatched"]
        /\ UNCHANGED <<slots, freeSlots>>
     \/ ~IsOp(d) /\ UNCHANGED <<status, slots, freeSlots>>
  /\ UNCHANGED <<alive, cancellations, ringPc, inKernel, kernelVars>>

(* the end of consume_submission_queue                                           *)
DispatchSubmissions ==
  /\ ringPc = "submit" /\ entered = <<>> /\ ~ChainFits /\ ringPc' = "reap"
  /\ (sq # <<>> /\ SubmitSqes(sq)) \/ Refused(sq)
  /\ UNCHANGED <<alive, status, slots, freeSlots, submissions, cancellations>>

(* consume_one_event (process_one_event): the source leaves the map and has its  *)
(* result.                                                                       *)
Reap ==
  /\ ringPc # "run" /\ entered = <<>> /\ inKernel' = inKernel - 1
  /\ \/ \E c \in cq.ops :
          ConsumeSource(c.ud) /\ cq' = [cq EXCEPT !.ops = @ \ {c}]
     \/ /\ cq.others > 0 /\ cq' = [cq EXCEPT !.others = @ - 1]
        /\ UNCHANGED <<status, slots, freeSlots>>
  /\ UNCHANGED <<alive, submissions, cancellations, sq, ringPc, entered, flying>>

(* consume_completion_queue found nothing more.                                  *)
Back ==
  /\ ringPc = "reap" /\ entered = <<>> /\ cq.ops = {} /\ cq.others = 0
  /\ ringPc' = "run"
  /\ UNCHANGED <<alive, status, slots, freeSlots, submissions, cancellations, sq,
                 inKernel, kernelVars>>

(* SleepableRing::sleep with the source that links the two rings: the entry goes *)
(* to the queue directly, so its status stays Enqueued; the Source is dropped    *)
(* when sleep returns, refused or not.                                           *)
LinkRings(s) ==
  /\ ringPc = "reap" /\ entered = <<>> /\ cq.ops = {} /\ cq.others = 0
  /\ submissions = <<>> /\ cancellations = <<>> /\ sq = <<>>
  /\ s \notin alive /\ status[s] = "none"
  /\ Alloc(s) /\ status' = [status EXCEPT ![s] = "canceled"]
  /\ SubmitSqes(<<Op(NextSlot, FALSE)>>) \/ Refused(<<Op(NextSlot, FALSE)>>)
  /\ ringPc' = "cancel" /\ UNCHANGED <<alive, submissions, cancellations>>

----------------------------------------------------------------------------------
(* external: the kernel.                                                         *)

Completes(f, others) ==
  cq' = [ops |-> cq.ops \cup f,
         others |-> cq.others + others + Cardinality({c \in f : c.link})]
Done(f) == [ud |-> f.ud, link |-> f.link, cancelled |-> FALSE]
Cancelled(f) == [ud |-> f.ud, link |-> f.link, cancelled |-> TRUE]

(* It starts the entries in order.  A cancel finds its operation or not, and may *)
(* come too late; an entry linked to an operation completes with it.             *)
KernelStart ==
  LET d == Head(entered) IN
  /\ entered # <<>>
  /\ \/ /\ IsOp(d) /\ flying' = flying \cup {[ud |-> d.ud, link |-> d.link]}
        /\ entered' = IF d.link THEN Tail(Tail(entered)) ELSE Tail(entered)
        /\ UNCHANGED cq
     \/ /\ d.kind = "cancel" /\ entered' = Tail(entered)
        /\ \E hit \in SUBSET {f \in flying : f.ud = d.target} :
             flying' = flying \ hit /\ Completes({Cancelled(f) : f \in hit}, 1)
     \/ /\ d.kind \in {"second", "close"} /\ entered' = Tail(entered)
        /\ Completes({}, 1) /\ UNCHANGED flying
  /\ UNCHANGED reactorVars

(* An operation ends, or its link timeout ends it.                               *)
KernelComplete ==
  /\ \E f \in flying :
       /\ flying' = flying \ {f}
       /\ Completes({Done(f)}, 0) \/ (f.link /\ Completes({Cancelled(f)}, 0))
  /\ UNCHANGED <<entered, reactorVars>>

Next ==
  \/ \E s \in Sources : \/ \E linked \in BOOLEAN : Operation(s, linked) \/ PreemptTimer(s, linked)
                        \/ DropSource(s) \/ LinkRings(s)
  \/ AsyncClose \/ Begin \/ ConsumeCancellations \/ SubmitChain \/ DispatchSubmissions
  \/ Reap \/ Back \/ KernelStart \/ KernelComplete

Spec == Init /\ [][Next]_urVars

----------------------------------------------------------------------------------
(* Properties.                                                                   *)

(* can_sleep of the poll ring.                                                   *)
CanSleep == submissions = <<>> /\ cancellations = <<>> /\ inKernel = 0 /\ sq = <<>>

OpsIn(q) == {k \in DOMAIN q : IsOp(q[k])}
Holders(i) ==
  Cardinality({k \in OpsIn(submissions) : submissions[k].ud = i})
  + Cardinality({k \in OpsIn(sq) : sq[k].ud = i})
  + Cardinality({k \in OpsIn(entered) : entered[k].ud = i})
  + Cardinality({f \in flying : f.ud = i}) + Cardinality({c \in cq.ops : c.ud = i})

(* The map keeps a source alive exactly as long as its operation is queued, in   *)
(* the ring, in the kernel or not reaped, and for one operation only: no slot is *)
(* given back twice, and no completion finds a free slot or another source.      *)
SourceKeptAlive ==
  /\ \A i \in DOMAIN slots : Holders(i) = (IF slots[i] = Free THEN 0 ELSE 1)
  /\ \A s \in Sources :
       Cardinality({i \in DOMAIN slots : slots[i] = s})
         = (IF status[s] = "none" THEN 0 ELSE 1)
  /\ IsInjective(freeSlots) /\ ToSet(freeSlots) = {i \in DOMAIN slots : slots[i] = Free}

(* A ring that says it can sleep has nothing that could still complete: every    *)
(* source that a task waits for has its result.                                  *)
SleepsOnlyIdle ==
  CanSleep => /\ flying = {} /\ entered = <<>> /\ cq.ops = {} /\ cq.others = 0
              /\ \A s \in Sources : status[s] = "none"

(* transmute_error: "if the operation is truly cancelled no one will check the   *)
(* result".  Without a timeout of its own, an operation is cancelled only after  *)
(* its source was dropped.                                                       *)
OnlyDroppedCancelled ==
  \A c \in cq.ops : c.cancelled /\ ~c.link => slots[c.ud] \notin alive

(* submit_event_chain: "half of one is a link timeout with no operation to       *)
(* guard".                                                                       *)
TimeoutGuardsOperation ==
  \A k \in DOMAIN sq :
    sq[k].kind = "second" => k > 1 /\ IsOp(sq[k - 1]) /\ sq[k - 1].link
==================================================================================
