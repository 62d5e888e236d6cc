------------------------------- MODULE LocalChannel -------------------------------
(* channels/local_channel.rs: the channel between the tasks of one executor.    *)
(*                                                                              *)
(* Several tasks may send through the one LocalSender and receive through the   *)
(* one LocalReceiver.  Their futures borrow it, so an end is dropped only when  *)
(* none of its futures exists.  recv() and a stream wait in the same way.       *)
EXTENDS WaitList, FiniteSets, FiniteSetsExt

CONSTANTS Tasks,
          Capacity   \* new_bounded(size)

VARIABLES
  queued,          \* the length of State.channel
  sendWaiters,     \* State.send_waiters
  recvWaiters,     \* State.recv_waiters
  ends,            \* the ends that exist: the list of the other ends is None
  lcWait,          \* of a task: the kind of the Waiter it owns, or "none"
  lcWoken,         \* the tasks whose WaiterNode.woken is set
  lcReady          \* the tasks whose waker was called and that were not polled since

lcVars == <<queued, sendWaiters, recvWaiters, ends, lcWait, lcWoken, lcReady>>

Ends == {"Sender", "Receiver"}
IsFull == queued >= Capacity
Waiting(k) == {t \in Tasks : lcWait[t] = k}

Init ==
  /\ queued = 0 /\ sendWaiters = <<>> /\ recvWaiters = <<>> /\ ends = Ends
  /\ lcWait = [t \in Tasks |-> "none"] /\ lcWoken = {} /\ lcReady = {}

(* wake_first: the head of the list, if there is one, and the list without it.  *)
First(ws) == IF ws = <<>> THEN {} ELSE {Head(ws)}
Rest(ws) == IF ws = <<>> THEN ws ELSE Tail(ws)

(* The Waiter of t is polled or dropped, and the tasks of woken are woken.      *)
Wake(t, woken) ==
  /\ lcWoken' = (lcWoken \ {t}) \cup woken
  /\ lcReady' = (lcReady \ {t}) \cup woken

(* register_into_waiting_queue                                                  *)
Register(ws, t) == IF t \in Members(ws) THEN ws ELSE Append(ws, t)

(* State::push by t when there is room: an error if the receiver is gone, whose *)
(* list then is None.                                                           *)
Push(t) ==
  /\ queued' = queued + (IF "Receiver" \in ends THEN 1 ELSE 0)
  /\ Wake(t, First(recvWaiters)) /\ recvWaiters' = Rest(recvWaiters)

----------------------------------------------------------------------------------
(* try_send                                                                     *)
TrySend(t) ==
  /\ "Sender" \in ends /\ lcWait[t] = "none" /\ ~IsFull
  /\ Push(t)
  /\ UNCHANGED <<sendWaiters, ends, lcWait>>

(* send, polled for the first time, after a wake, or spuriously: it waits for   *)
(* room and then does try_send, with no suspension in between.                  *)
PollSend(t) ==
  /\ "Sender" \in ends /\ lcWait[t] \in {"none", "Sender"}
  /\ \/ /\ IsFull
        /\ sendWaiters' = Register(sendWaiters, t) /\ lcWait' = [lcWait EXCEPT ![t] = "Sender"]
        /\ Wake(t, {}) /\ UNCHANGED <<queued, recvWaiters>>
     \/ /\ ~IsFull
        /\ sendWaiters' = Without(sendWaiters, {t}) /\ lcWait' = [lcWait EXCEPT ![t] = "none"]
        /\ Push(t)
  /\ UNCHANGED ends

(* recv, or poll_next of a stream: an item and room for the first waiting       *)
(* sender, None when the sender is gone, or a wait.                             *)
PollRecv(t) ==
  /\ "Receiver" \in ends /\ lcWait[t] \in {"none", "Receiver"}
  /\ \/ /\ queued > 0
        /\ queued' = queued - 1
        /\ recvWaiters' = Without(recvWaiters, {t}) /\ lcWait' = [lcWait EXCEPT ![t] = "none"]
        /\ Wake(t, First(sendWaiters)) /\ sendWaiters' = Rest(sendWaiters)
     \/ /\ queued = 0 /\ "Sender" \notin ends
        /\ recvWaiters' = Without(recvWaiters, {t}) /\ lcWait' = [lcWait EXCEPT ![t] = "none"]
        /\ Wake(t, {}) /\ UNCHANGED <<queued, sendWaiters>>
     \/ /\ queued = 0 /\ "Sender" \in ends
        /\ recvWaiters' = Register(recvWaiters, t) /\ lcWait' = [lcWait EXCEPT ![t] = "Receiver"]
        /\ Wake(t, {}) /\ UNCHANGED <<queued, sendWaiters>>
  /\ UNCHANGED ends

\* Fault seeded in DropSend: swallows the wake it was given.
DropSend_silent(t) ==
  /\ lcWait[t] = "Sender" /\ lcWait' = [lcWait EXCEPT ![t] = "none"]
  /\ sendWaiters' = Without(sendWaiters, {t}) /\ Wake(t, {})
  /\ UNCHANGED <<queued, recvWaiters, ends>>

(* The future of send is dropped.  A woken one passes the wake on if there      *)
(* still is room (pass_on_wakeup).                                              *)
DropSend(t) ==
  LET passOn == t \in lcWoken /\ ~IsFull
  IN /\ lcWait[t] = "Sender" /\ lcWait' = [lcWait EXCEPT ![t] = "none"]
     /\ sendWaiters' = IF passOn THEN Rest(sendWaiters) ELSE Without(sendWaiters, {t})
     /\ Wake(t, IF passOn THEN First(sendWaiters) ELSE {})
     /\ UNCHANGED <<queued, recvWaiters, ends>>

(* The future of recv, or a stream, is dropped: the same with items.            *)
DropRecv(t) ==
  LET passOn == t \in lcWoken /\ queued > 0
  IN /\ lcWait[t] = "Receiver" /\ lcWait' = [lcWait EXCEPT ![t] = "none"]
     /\ recvWaiters' = IF passOn THEN Rest(recvWaiters) ELSE Without(recvWaiters, {t})
     /\ Wake(t, IF passOn THEN First(recvWaiters) ELSE {})
     /\ UNCHANGED <<queued, sendWaiters, ends>>

(* LocalSender::drop: every receiver is woken (wake_up_all leaves woken alone). *)
DropSender ==
  /\ "Sender" \in ends /\ Waiting("Sender") = {}
  /\ ends' = ends \ {"Sender"}
  /\ lcReady' = lcReady \cup Members(recvWaiters) /\ recvWaiters' = <<>>
  /\ UNCHANGED <<queued, sendWaiters, lcWait, lcWoken>>

(* LocalReceiver::drop                                                          *)
DropReceiver ==
  /\ "Receiver" \in ends /\ Waiting("Receiver") = {}
  /\ ends' = ends \ {"Receiver"}
  /\ lcReady' = lcReady \cup Members(sendWaiters) /\ sendWaiters' = <<>>
  /\ UNCHANGED <<queued, recvWaiters, lcWait, lcWoken>>

Next ==
  \/ \E t \in Tasks : TrySend(t) \/ PollSend(t) \/ PollRecv(t) \/ DropSend(t) \/ DropRecv(t)
  \/ DropSender \/ DropReceiver

(* The executor polls a task whose waker was called.                            *)
PollReady(t) ==
  /\ t \in lcReady
  /\ (lcWait[t] = "Sender" /\ PollSend(t)) \/ (lcWait[t] = "Receiver" /\ PollRecv(t))
Fairness == \A t \in Tasks : WF_lcVars(PollReady(t))

Spec == Init /\ [][Next]_lcVars
FairSpec == Spec /\ Fairness

----------------------------------------------------------------------------------
(* Properties.                                                                  *)

(* Wakes are not lost: as many waiting receivers as there are items for are     *)
(* about to be polled, and as many waiting senders as there is room for,        *)
(* whatever futures were dropped after they were woken (push, recv_one,         *)
(* pass_on_wakeup).  When the sender is gone every waiting receiver is, to      *)
(* return an item or None.  Each other Waiter is in its list, exactly once.     *)
WakesMatchItems ==
  /\ Cardinality(Waiting("Receiver") \cap lcReady)
       >= Min({queued, Cardinality(Waiting("Receiver"))})
  /\ Cardinality(Waiting("Sender") \cap lcReady)
       >= Min({Capacity - queued, Cardinality(Waiting("Sender"))})
  /\ "Sender" \notin ends => Waiting("Receiver") \subseteq lcReady
  /\ Members(sendWaiters) = Waiting("Sender") \ lcReady
  /\ Members(recvWaiters) = Waiting("Receiver") \ lcReady
  /\ Len(sendWaiters) + Len(recvWaiters)
       = Cardinality(Members(sendWaiters) \cup Members(recvWaiters))

(* A producer that was blocked when the receiver is dropped "still errors out"  *)
(* (the test producer_bounded_previously_blocked_still_errors_out).             *)
BlockedSenderErrorsOut ==
  \A t \in Tasks :
    (lcWait[t] = "Sender" /\ "Receiver" \notin ends) ~> lcWait[t] # "Sender"
==================================================================================
