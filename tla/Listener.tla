----------------------------------- MODULE Listener -----------------------------------
(* net/tcp_socket.rs and net/unix.rs: tasks that accept connections of a listener.  *)
(* The tasks of a TcpListener share one source, which stays with the listener when  *)
(* a task gives up; every accept of a UnixListener has a source of its own.         *)
EXTENDS Naturals, Sequences, FiniteSets

CONSTANTS Accepters,
          MaxConns       \* bound on connections, and on accepts given up in the kernel

VARIABLES
  family,        \* "tcp" or "unix"
  came, backlog, \* connections that came, numbered; those the kernel has for accept
  currentSource, \* current_source, and for "unix" the source of each accept
  ownSource,
  accepter,      \* what each task does: "idle", "waiting", "woken" (about to poll)
  given,         \* connections as they are handed out
  orphans,       \* accepts in the kernel whose source was dropped
  lost,          \* connections accepted and dropped with their source
  listening

listenerVars == <<family, came, backlog, currentSource, ownSource, accepter, given, orphans,
                  lost, listening>>

NoAccept == [state |-> "none", conn |-> 0, waiters |-> {}]

Init ==
  /\ family \in {"tcp", "unix"} /\ came = 0 /\ backlog = <<>> /\ given = <<>>
  /\ orphans = 0 /\ lost = {}
  /\ currentSource = NoAccept /\ ownSource = [t \in Accepters |-> NoAccept]
  /\ accepter = [t \in Accepters |-> "idle"] /\ listening = TRUE

Becomes(t, state) == accepter' = [accepter EXCEPT ![t] = state]
(* An accept ends with connection c, or with an error.                              *)
Returns(t, c) == Becomes(t, "idle") /\ given' = Append(given, c)
ReturnsError(t) == Becomes(t, "idle") /\ UNCHANGED given

(* shared_accept is called, or the stream of incoming() polled for the next one.    *)
SharedAccept(t) ==
  /\ listening /\ accepter[t] = "idle" /\ Becomes(t, "woken")
  /\ ownSource' = IF family = "unix" THEN [ownSource EXCEPT ![t].state = "pending"] ELSE ownSource
  /\ UNCHANGED <<family, came, backlog, currentSource, given, orphans, lost, listening>>

(* poll_collect_rw of a source that is in the hands of the poll                     *)
Added(source, t) == [source EXCEPT !.waiters = @ \cup {t}]
Collect(source, t) ==
  \/ source.state = "done" /\ Returns(t, source.conn)
  \/ source.state = "failed" /\ ReturnsError(t)

\* Fault seeded in PollLeft: a source that is pending is not put back.
PollLeft_forgets(t) ==
  /\ currentSource # NoAccept /\ UNCHANGED backlog /\ currentSource' = NoAccept
  /\ \/ Collect(currentSource, t)
     \/ currentSource.state = "pending" /\ Becomes(t, "waiting") /\ UNCHANGED given

(* poll_shared_accept with the source that was left, which goes back when pending   *)
PollLeft(t) ==
  /\ currentSource # NoAccept /\ UNCHANGED backlog
  /\ \/ Collect(currentSource, t) /\ currentSource' = NoAccept
     \/ /\ currentSource.state = "pending" /\ currentSource' = Added(currentSource, t)
        /\ Becomes(t, "waiting") /\ UNCHANGED given

(* and without: yolo_accept, which may fail; if it would block, a new source.       *)
PollNew(t) ==
  /\ currentSource = NoAccept
  /\ \/ /\ backlog # <<>> /\ Returns(t, Head(backlog)) /\ backlog' = Tail(backlog)
        /\ UNCHANGED currentSource
     \/ ReturnsError(t) /\ UNCHANGED <<backlog, currentSource>>
     \/ /\ backlog = <<>> /\ currentSource' = Added([NoAccept EXCEPT !.state = "pending"], t)
        /\ Becomes(t, "waiting") /\ UNCHANGED <<given, backlog>>

PollSharedAccept(t) ==
  /\ family = "tcp" /\ accepter[t] = "woken" /\ (PollLeft(t) \/ PollNew(t))
  /\ UNCHANGED <<family, came, ownSource, orphans, lost, listening>>

(* UnixListener::shared_accept                                                      *)
PollOwn(t) ==
  /\ family = "unix" /\ accepter[t] = "woken"
  /\ \/ Collect(ownSource[t], t) /\ ownSource' = [ownSource EXCEPT ![t] = NoAccept]
     \/ /\ ownSource[t].state = "pending" /\ ownSource' = [ownSource EXCEPT ![t] = Added(@, t)]
        /\ Becomes(t, "waiting") /\ UNCHANGED given
  /\ UNCHANGED <<family, came, backlog, currentSource, orphans, lost, listening>>

(* A source goes: the connection it has is nobody's; one that is pending is to be   *)
(* cancelled.                                                                       *)
Drops(source) ==
  /\ lost' = IF source.state = "done" THEN lost \cup {source.conn} ELSE lost
  /\ orphans' = IF source.state = "pending" THEN orphans + 1 ELSE orphans

(* The future of an accept is dropped.                                              *)
GiveUp(t) ==
  /\ accepter[t] # "idle" /\ orphans < MaxConns /\ Becomes(t, "idle")
  /\ Drops(ownSource[t]) /\ ownSource' = [ownSource EXCEPT ![t] = NoAccept]
  /\ UNCHANGED <<family, came, backlog, currentSource, given, listening>>

(* The listener is dropped; every accept borrows it and is over.                    *)
DropListener ==
  /\ listening /\ listening' = FALSE /\ \A t \in Accepters : accepter[t] = "idle"
  /\ Drops(currentSource) /\ currentSource' = NoAccept
  /\ UNCHANGED <<family, came, backlog, ownSource, accepter, given>>

---------------------------------------------------------------------------------------
(* external: connections come, and accepts in the kernel end; the reactor wakes     *)
(* every waiter of the source.                                                      *)
ConnectionComes ==
  /\ listening /\ came < MaxConns /\ came' = came + 1 /\ backlog' = Append(backlog, came')
  /\ UNCHANGED <<family, currentSource, ownSource, accepter, given, orphans, lost, listening>>

Ends(source, new) ==
  /\ source.state = "pending"
  /\ \/ /\ backlog # <<>> /\ backlog' = Tail(backlog)
        /\ new = [state |-> "done", conn |-> Head(backlog), waiters |-> {}]
     \/ new = [NoAccept EXCEPT !.state = "failed"] /\ UNCHANGED backlog
  /\ accepter' = [t \in Accepters |-> IF t \in source.waiters /\ accepter[t] = "waiting"
                                     THEN "woken" ELSE accepter[t]]
KernelAccepts ==
  /\ \E new \in [state : {"done", "failed"}, conn : 0 .. MaxConns, waiters : {{}}] :
       \/ Ends(currentSource, new) /\ currentSource' = new /\ UNCHANGED ownSource
       \/ \E t \in Accepters : /\ Ends(ownSource[t], new) /\ UNCHANGED currentSource
                               /\ ownSource' = [ownSource EXCEPT ![t] = new]
  /\ UNCHANGED <<family, came, given, orphans, lost, listening>>

(* A dropped accept is cancelled, or took a connection before that.                 *)
OrphanEnds ==
  /\ orphans > 0 /\ orphans' = orphans - 1
  /\ \/ UNCHANGED <<backlog, lost>>
     \/ backlog # <<>> /\ backlog' = Tail(backlog) /\ lost' = lost \cup {Head(backlog)}
  /\ UNCHANGED <<family, came, currentSource, ownSource, accepter, given, listening>>

Next ==
  \/ \E t \in Accepters : SharedAccept(t) \/ PollSharedAccept(t) \/ PollOwn(t) \/ GiveUp(t)
  \/ DropListener \/ ConnectionComes \/ KernelAccepts \/ OrphanEnds

Spec == Init /\ [][Next]_listenerVars

Held == {s \in {currentSource} \cup {ownSource[t] : t \in Accepters} : s.state = "done"}

(* A connection is handed out once and to one task; it is not forgotten in a source *)
(* of a TcpListener because the task that waited for it gave up; and a task that    *)
(* waits is among those whom the source in the kernel wakes (poll_shared_accept,    *)
(* UnixListener::shared_accept).                                                    *)
AcceptServes ==
  /\ Len(given) + Len(backlog) + Cardinality({s.conn : s \in Held}) + Cardinality(lost) = came
  /\ \A i, j \in DOMAIN given : i # j => given[i] # given[j]
  /\ family = "tcp" /\ listening => lost = {}
  /\ \A t \in Accepters : accepter[t] = "waiting" =>
       LET s == IF family = "tcp" THEN currentSource ELSE ownSource[t] IN
       s.state = "pending" /\ t \in s.waiters
=======================================================================================
