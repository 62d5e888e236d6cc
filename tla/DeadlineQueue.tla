------------------------------- MODULE DeadlineQueue -------------------------------
(* controllers/deadline_queue.rs: the queue of admitted sources beside the local  *)
(* channel that hands them to the one task that executes them.                   *)
(*                                                                               *)
(* LocalChannel is the channel, of capacity one, with a task per push_work and    *)
(* the executing task.  What the controller makes of the entries, floating-point  *)
(* arithmetic on the clock, is left out.                                          *)
EXTENDS LocalChannel

CONSTANTS Worker,     \* the task that new() spawns
          NoPush      \* no request is executed

VARIABLES
  entries,      \* InnerQueue.queue, by the push that admitted the entry
  requests,     \* the requests in the channel
  push,         \* of a push_work call: "new", "sending", "waiting" for its reply, "over"
  executing,    \* the request whose action runs, or NoPush
  queueAlive    \* the DeadlineQueue exists

dqVars == <<entries, requests, push, executing, queueAlive, lcVars>>

Pushes == Tasks \ {Worker}

QueueInit ==
  /\ entries = <<>> /\ requests = <<>> /\ push = [p \in Pushes |-> "new"]
  /\ executing = NoPush /\ queueAlive = TRUE
DqInit == Init /\ QueueInit

(* The poll of sender.send: the request is in the channel and the scope guard    *)
(* disarmed, or the push waits for room.                                         *)
Send(p) ==
  /\ PollSend(p)
  /\ IF IsFull THEN push' = [push EXCEPT ![p] = "sending"] /\ UNCHANGED requests
               ELSE push' = [push EXCEPT ![p] = "waiting"] /\ requests' = Append(requests, p)

(* push_work up to its first suspension: admit and send.                         *)
PushWork(p) ==
  /\ queueAlive /\ push[p] = "new"
  /\ entries' = Append(entries, p) /\ Send(p)
  /\ UNCHANGED <<executing, queueAlive>>
(* admit refuses a source that expires before the one admitted last.             *)
Refused(p) ==
  /\ queueAlive /\ push[p] = "new" /\ push' = [push EXCEPT ![p] = "over"]
  /\ UNCHANGED <<entries, requests, executing, queueAlive, lcVars>>
PollPush(p) ==
  /\ push[p] = "sending" /\ Send(p) /\ UNCHANGED <<entries, executing, queueAlive>>

(* withdraw: the last entry of the source, if it is there.                       *)
Withdraw(p) == entries' = Without(entries, {p})

\* Fault seeded in DropPush: the scope guard is not disarmed once the request is sent.
DropPush_armed(p) ==
  /\ push[p] \in {"sending", "waiting"} /\ push' = [push EXCEPT ![p] = "over"]
  /\ IF push[p] = "sending" THEN DropSend(p) ELSE UNCHANGED lcVars
  /\ Withdraw(p)
  /\ UNCHANGED <<requests, executing, queueAlive>>

(* The future of push_work is dropped: while it sends, the scope guard withdraws *)
(* the entry; afterwards the request is executed all the same.                   *)
DropPush(p) ==
  /\ push[p] \in {"sending", "waiting"} /\ push' = [push EXCEPT ![p] = "over"]
  /\ IF push[p] = "sending" THEN DropSend(p) /\ Withdraw(p) ELSE UNCHANGED <<entries, lcVars>>
  /\ UNCHANGED <<requests, executing, queueAlive>>

(* The executing task: the next request, and after its action the pop and reply. *)
(* The weak reference to the inner queue is good for as long as the task runs:   *)
(* the shares of its task queue are the inner queue too.                         *)
NextRequest ==
  /\ executing = NoPush /\ PollRecv(Worker)
  /\ IF queued > 0 THEN executing' = Head(requests) /\ requests' = Tail(requests)
                   ELSE UNCHANGED <<executing, requests>>
  /\ UNCHANGED <<entries, push, queueAlive>>
ActionDone ==
  /\ executing # NoPush /\ executing' = NoPush
  /\ entries # <<>> /\ entries' = Tail(entries)
  /\ push' = [push EXCEPT ![executing] = "over"]
  /\ UNCHANGED <<requests, queueAlive, lcVars>>

(* The DeadlineQueue is dropped; push_work borrows it, so that no push is under  *)
(* way, but requests may be left in the channel and one may be executed.         *)
DropQueue ==
  /\ queueAlive /\ \A p \in Pushes : push[p] \in {"new", "over"}
  /\ queueAlive' = FALSE /\ DropSender
  /\ UNCHANGED <<entries, requests, push, executing>>

DqNext ==
  \/ \E p \in Pushes : PushWork(p) \/ Refused(p) \/ PollPush(p) \/ DropPush(p)
  \/ NextRequest \/ ActionDone \/ DropQueue

DqSpec == DqInit /\ [][DqNext]_dqVars

----------------------------------------------------------------------------------
Outstanding == Len(requests) + (IF executing = NoPush THEN 0 ELSE 1)

(* The pop after an action finds an entry: unwrap does not panic, whatever was   *)
(* withdrawn, and also for the requests that outlive the DeadlineQueue.          *)
PopFinds == Len(entries) >= Outstanding

(* When every push is answered or was cancelled, no entry is left to be reported *)
(* late for ever.                                                                *)
NoEntryLeft ==
  queueAlive /\ Outstanding = 0 /\ (\A p \in Pushes : push[p] \in {"new", "over"})
    => entries = <<>>
==================================================================================
