-------------------------------- MODULE StreamSocket --------------------------------
(* TcpStream and UnixStream as owners of a socket: how they come to be (connect,      *)
(* accept, pair), how they are split, reunited and moved to another executor, and     *)
(* what they take along: the descriptor, the sources on the ring, the timeouts.  The  *)
(* kernel knows descriptors by number and gives a free number to the next socket; an  *)
(* operation that is queued has only the number.  Bytes, wakers and timers are in     *)
(* NetStream, the ring in UringRing, accepts in Listener.  A future that reads or     *)
(* writes leaves no more behind than the source it polled for, so that it is no part  *)
(* of the state.  Options and addresses of a socket change nothing here.              *)
EXTENDS Naturals, FiniteSets, FiniteSetsExt

CONSTANTS
  MaxSockets,     \* bound on the sockets that are made; they are numbered in that order
  None

VARIABLES
  stage,          \* "unused", "connecting", "whole", "split", "accepted", "gone"
  family,         \* "tcp" or "unix"
  number,         \* the descriptor that the owner of the socket uses
  table,          \* the kernel's: the socket behind a number
  ends,           \* the halves of a split stream that are left
  source,         \* of a socket: its source for connecting, reading, writing
  submissions,    \* the queue of the ring: sockets, sources and numbers
  misdirected,    \* an entry reached another socket than the one it was made for
  timeouts,       \* whether the Timeouts of a stream and of its halves are set
  wanted          \* whether the program set a timeout, for reads and for writes

owners == <<stage, family, number, table, ends>>
ring == <<source, submissions, misdirected>>
socketVars == <<owners, ring, timeouts, wanted>>

Sockets == 1 .. MaxSockets
Numbers == 1 .. MaxSockets
Directions == {"rx", "tx"}
Objects == {"whole"} \cup Directions          \* the stream, its read half, its write half
Kinds == Directions \cup {"connect"}
NoTimeouts == [o \in Objects |-> {}]

Init ==
  /\ stage = [s \in Sockets |-> "unused"] /\ family = [s \in Sockets |-> "tcp"]
  /\ number = [s \in Sockets |-> None] /\ table = [n \in Numbers |-> None]
  /\ ends = [s \in Sockets |-> {}]
  /\ source = [s \in Sockets |-> [k \in Kinds |-> "none"]]
  /\ submissions = {} /\ misdirected = FALSE
  /\ timeouts = [s \in Sockets |-> NoTimeouts] /\ wanted = [s \in Sockets |-> {}]

IsNew(s) == stage[s] = "unused" /\ \A t \in 1 .. s - 1 : stage[t] # "unused"
(* The object through which a direction is used.                                      *)
Through(s, d) == IF stage[s] = "split" THEN d ELSE "whole"
Has(s, d) == stage[s] = "whole" \/ d \in ends[s]

---------------------------------------------------------------------------------------
(* A source is made and queued; an entry has the number of the descriptor.            *)
Queue(made) ==
  /\ source' = [s \in Sockets |-> [k \in Kinds |->
                  IF <<s, k>> \in made THEN "under way" ELSE source[s][k]]]
  /\ submissions' = submissions \cup {<<e[1], e[2], number'[e[1]]>> : e \in made}

\* Fault seeded in DropSources: an entry that is queued stays queued.
DropSources_queued(s, kinds) ==
  /\ source' = [source EXCEPT ![s] = [k \in Kinds |-> IF k \in kinds THEN "none" ELSE @[k]]]
  /\ UNCHANGED submissions

(* Source::drop, of the sources in kinds: an entry that is queued is not submitted,   *)
(* one that the kernel has is cancelled.                                              *)
DropSources(s, kinds) ==
  /\ source' = [source EXCEPT ![s] = [k \in Kinds |-> IF k \in kinds THEN "none" ELSE @[k]]]
  /\ submissions' = {e \in submissions : e[1] # s \/ e[2] \notin kinds}

(* The descriptor is closed.                                                          *)
CloseSocket(s) ==
  table' = [table EXCEPT ![number[s]] = None] /\ number' = [number EXCEPT ![s] = None]

(* socket(2) and its like take the least free number.                                 *)
FreeNumber == Min({n \in Numbers : table[n] = None})
Opened(s, f, st) ==
  /\ IsNew(s)
  /\ stage' = [stage EXCEPT ![s] = st] /\ family' = [family EXCEPT ![s] = f]
  /\ number' = [number EXCEPT ![s] = FreeNumber] /\ table' = [table EXCEPT ![FreeNumber] = s]

---------------------------------------------------------------------------------------
(* Connecting, and accepting.  GlommioStream::from polls for readiness at once.       *)

Connect(s, f) ==
  /\ Opened(s, f, "connecting") /\ Queue({<<s, "connect">>})
  /\ UNCHANGED <<ends, misdirected, timeouts, wanted>>
TcpConnect(s) == Connect(s, "tcp")
UnixConnect(s) == Connect(s, "unix")

(* The source of the connect is dropped with its future.                              *)
ConnectReady(s) ==
  /\ stage[s] = "connecting" /\ source[s]["connect"] = "done"
  /\ stage' = [stage EXCEPT ![s] = "whole"]
  /\ source' = [source EXCEPT ![s] = [@ EXCEPT !["connect"] = "none", !["rx"] = "under way"]]
  /\ submissions' = submissions \cup {<<s, "rx", number[s]>>}
  /\ UNCHANGED <<family, number, table, ends, misdirected, timeouts, wanted>>

(* The connection is refused, times out (connect_timeout) or is given up.             *)
ConnectEnds(s) ==
  /\ stage[s] = "connecting"
  /\ stage' = [stage EXCEPT ![s] = "gone"]
  /\ DropSources(s, {"connect"}) /\ CloseSocket(s)
  /\ UNCHANGED <<family, ends, misdirected, timeouts, wanted>>

(* UnixStream::pair.                                                                  *)
Pair(s, t) ==
  /\ IsNew(s) /\ t = s + 1
  /\ LET n == FreeNumber
         m == Min({k \in Numbers \ {n} : table[k] = None})
     IN  /\ number' = [number EXCEPT ![s] = n, ![t] = m]
         /\ table' = [table EXCEPT ![n] = s, ![m] = t]
  /\ stage' = [stage EXCEPT ![s] = "whole", ![t] = "whole"]
  /\ family' = [family EXCEPT ![s] = "unix", ![t] = "unix"]
  /\ Queue({<<s, "rx">>, <<t, "rx">>})
  /\ UNCHANGED <<ends, misdirected, timeouts, wanted>>

(* shared_accept gives a descriptor, which an executor binds; TcpStream::into_accepted *)
(* gives one back.                                                                    *)
SharedAccept(s, f) ==
  /\ Opened(s, f, "accepted")
  /\ UNCHANGED <<ends, ring, timeouts, wanted>>
TcpSharedAccept(s) == SharedAccept(s, "tcp")
UnixSharedAccept(s) == SharedAccept(s, "unix")

BindToExecutor(s, f) ==
  /\ stage[s] = "accepted" /\ family[s] = f /\ stage' = [stage EXCEPT ![s] = "whole"]
  /\ UNCHANGED <<family, number, table, ends, misdirected, timeouts, wanted>>
  /\ Queue({<<s, "rx">>})

TcpBindToExecutor(s) == BindToExecutor(s, "tcp")
UnixBindToExecutor(s) == BindToExecutor(s, "unix")

(* accept, and the stream incoming, bind at once.                                     *)
Accept(s, f) ==
  /\ Opened(s, f, "whole") /\ Queue({<<s, "rx">>})
  /\ UNCHANGED <<ends, misdirected, timeouts, wanted>>
TcpAccept(s) == Accept(s, "tcp")
UnixAccept(s) == Accept(s, "unix")

IntoAccepted(s) ==
  /\ stage[s] = "whole" /\ family[s] = "tcp"
  /\ stage' = [stage EXCEPT ![s] = "accepted"]
  /\ DropSources(s, Directions)
  /\ timeouts' = [timeouts EXCEPT ![s] = NoTimeouts] /\ wanted' = [wanted EXCEPT ![s] = {}]
  /\ UNCHANGED <<family, number, table, ends, misdirected>>

---------------------------------------------------------------------------------------
(* Halves.                                                                            *)

(* Each half has the source and the timeout of its direction, and a spare timeout.    *)
Split(s, f) ==
  /\ stage[s] = "whole" /\ family[s] = f
  /\ stage' = [stage EXCEPT ![s] = "split"] /\ ends' = [ends EXCEPT ![s] = Directions]
  /\ timeouts' = [timeouts EXCEPT ![s] = [o \in Objects |-> @["whole"] \cap {o}]]
  /\ UNCHANGED <<family, number, table, ring, wanted>>
TcpSplit(s) == Split(s, "tcp")
UnixSplit(s) == Split(s, "unix")

\* Fault seeded in Reunited: the timeouts of the read half serve both directions.
Reunited_spare(halves) == halves["rx"]

(* unsplit of the two halves of one stream; halves of two streams are given back.     *)
Reunited(halves) == {d \in Directions : d \in halves[d]}
Reunite(s, f) ==
  /\ ends[s] = Directions /\ family[s] = f
  /\ stage' = [stage EXCEPT ![s] = "whole"] /\ ends' = [ends EXCEPT ![s] = {}]
  /\ timeouts' = [timeouts EXCEPT ![s] = [NoTimeouts EXCEPT !["whole"] = Reunited(timeouts[s])]]
  /\ UNCHANGED <<family, number, table, ring, wanted>>
TcpReunite(s) == Reunite(s, "tcp")
UnixReunite(s) == Reunite(s, "unix")

(* A half goes with its source; the last one closes the socket.                       *)
DropHalf(s, d) ==
  /\ d \in ends[s]
  /\ ends' = [ends EXCEPT ![s] = @ \ {d}]
  /\ DropSources(s, {d})
  /\ timeouts' = [timeouts EXCEPT ![s][d] = {}]
  /\ wanted' = [wanted EXCEPT ![s] = @ \ {d}]
  /\ IF ends[s] = {d} THEN stage' = [stage EXCEPT ![s] = "gone"] /\ CloseSocket(s)
     ELSE UNCHANGED <<stage, number, table>>
  /\ UNCHANGED <<family, misdirected>>

DropStream(s) ==
  /\ stage[s] = "whole"
  /\ stage' = [stage EXCEPT ![s] = "gone"]
  /\ DropSources(s, Directions) /\ CloseSocket(s)
  /\ timeouts' = [timeouts EXCEPT ![s] = NoTimeouts] /\ wanted' = [wanted EXCEPT ![s] = {}]
  /\ UNCHANGED <<family, ends, misdirected>>

---------------------------------------------------------------------------------------
(* Reads, writes, and their timeouts.                                                 *)

With(set, d, on) == IF on THEN set \cup {d} ELSE set \ {d}
SetTimeout(s, d, on, st) ==
  /\ Has(s, d) /\ family[s] = "tcp" /\ stage[s] = st
  /\ timeouts' = [timeouts EXCEPT ![s][Through(s, d)] = With(@, d, on)]
  /\ wanted' = [wanted EXCEPT ![s] = With(@, d, on)]
  /\ UNCHANGED <<owners, ring>>

StreamSetTimeout(s, d, on) == SetTimeout(s, d, on, "whole")
HalfSetTimeout(s, d, on) == SetTimeout(s, d, on, "split")

(* The call that does not block succeeds or fails: a read tries it only when no       *)
(* source is under way.                                                               *)
PollDone(s, d) ==
  /\ Has(s, d) /\ (d = "rx" => source[s][d] # "under way")
  /\ DropSources(s, {d})
  /\ UNCHANGED <<owners, misdirected, timeouts, wanted>>

PollPending(s, d) ==
  /\ Has(s, d) /\ source[s][d] # "under way"
  /\ UNCHANGED <<owners, misdirected, timeouts, wanted>>
  /\ Queue({<<s, d>>})

Polls(s, d, f, st) == family[s] = f /\ stage[s] = st /\ (PollDone(s, d) \/ PollPending(s, d))
TcpStreamPolls(s, d) == Polls(s, d, "tcp", "whole")
UnixStreamPolls(s, d) == Polls(s, d, "unix", "whole")
TcpHalfPolls(s, d) == Polls(s, d, "tcp", "split")
UnixHalfPolls(s, d) == Polls(s, d, "unix", "split")

(* poll_close: no more writes.                                                        *)
PollClose(s) ==
  /\ Has(s, "tx")
  /\ DropSources(s, {"tx"})
  /\ UNCHANGED <<owners, misdirected, timeouts, wanted>>

---------------------------------------------------------------------------------------
(* The ring: what the kernel finds behind the number is what the operation is about.  *)
(* An entry that is put into the ring is submitted at once.                           *)

Submit(s, k, n) ==
  /\ <<s, k, n>> \in submissions
  /\ submissions' = submissions \ {<<s, k, n>>}
  /\ misdirected' = (misdirected \/ table[n] \notin {s, None})
  /\ UNCHANGED <<owners, source, timeouts, wanted>>

Complete(s, k) ==
  /\ source[s][k] = "under way" /\ \A e \in submissions : e[1] # s \/ e[2] # k
  /\ source' = [source EXCEPT ![s][k] = "done"]
  /\ UNCHANGED <<owners, submissions, misdirected, timeouts, wanted>>

Comes(s) ==
  \/ TcpConnect(s) \/ UnixConnect(s) \/ ConnectReady(s) \/ ConnectEnds(s)
  \/ \E t \in Sockets : Pair(s, t)
  \/ TcpAccept(s) \/ UnixAccept(s) \/ TcpSharedAccept(s) \/ UnixSharedAccept(s)
  \/ TcpBindToExecutor(s) \/ UnixBindToExecutor(s) \/ IntoAccepted(s)

Next ==
  \E s \in Sockets :
    \/ Comes(s)
    \/ TcpSplit(s) \/ UnixSplit(s) \/ TcpReunite(s) \/ UnixReunite(s)
    \/ DropStream(s) \/ PollClose(s)
    \/ \E d \in Directions :
         \/ DropHalf(s, d)
         \/ TcpStreamPolls(s, d) \/ UnixStreamPolls(s, d)
         \/ TcpHalfPolls(s, d) \/ UnixHalfPolls(s, d)
         \/ \E on \in BOOLEAN : StreamSetTimeout(s, d, on) \/ HalfSetTimeout(s, d, on)
    \/ \E k \in Kinds : Complete(s, k) \/ \E n \in Numbers : Submit(s, k, n)

---------------------------------------------------------------------------------------
Live(s) == stage[s] \notin {"unused", "gone"}

(* A socket is open exactly while something owns it: through moves, splits and        *)
(* drops of halves in any order it is closed once, by the last owner, and the number  *)
(* an owner uses is its own socket's.                                                 *)
SocketsOwned ==
  \A s \in Sockets :
    IF Live(s) THEN table[number[s]] = s ELSE \A n \in Numbers : table[n] # s

(* What a stream carries goes along: the timeouts the program has set are in force in *)
(* whatever object a direction is used through.                                       *)
CarriedAlong ==
  \A s \in Sockets, d \in Directions :
    Has(s, d) => (d \in timeouts[s][Through(s, d)] <=> d \in wanted[s])

(* No operation reaches a socket that it was not made for, although numbers are used  *)
(* again: whoever closes a socket has dropped its sources (Source::drop).             *)
OwnSocketOnly == ~misdirected

SocketsServe == SocketsOwned /\ CarriedAlong /\ OwnSocketOnly
=======================================================================================
