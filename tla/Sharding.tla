---------------------------------- MODULE Sharding ----------------------------------
(* channels/sharding.rs: every shard forwards the messages of its streams to the *)
(* shard each belongs to, over a full mesh, and closes gracefully.  The mesh is  *)
(* joined (Mesh); its channels are bounded queues, as SharedChannel shows them.  *)
EXTENDS Naturals, Sequences

CONSTANTS
  Shards,
  ChannelSize,
  MaxMessages    \* messages the stream of a shard yields

VARIABLES
  streamLeft,    \* shard -> messages its stream will still yield
  consumer,      \* shard -> the task of handle(): "none", "idle", <<"sending", dst>>, "ended"
  channel,       \* <<src, dst>> -> messages in the channel
  sendersClosed, \* shard -> whether Senders::close was called
  forward,       \* <<src, dst>> -> forward task at dst: "running", "ended"
  closing,       \* shard -> where close() is: "open", "draining", "awaiting", "closed"
  accepted,      \* messages a send returned Ok for, or that a handler began with
  handled        \* messages the handlers were called with

shardVars == <<streamLeft, consumer, channel, sendersClosed, forward, closing, accepted, handled>>

Links == {<<s, d>> \in Shards \X Shards : s # d}
Idle == <<"idle">>
Ended == <<"ended">>
Sending(d) == <<"sending", d>>

\* Sharded::new
Init ==
  /\ streamLeft = [s \in Shards |-> MaxMessages]
  /\ consumer = [s \in Shards |-> <<"none">>]
  /\ channel = [l \in Links |-> 0]
  /\ sendersClosed = [s \in Shards |-> FALSE]
  /\ forward = [l \in Links |-> "running"]
  /\ closing = [s \in Shards |-> "open"]
  /\ accepted = 0 /\ handled = 0

(* handle: refused once closed, else a task that drains the stream.              *)
Handle(s) ==
  /\ closing[s] = "open" /\ consumer[s] = <<"none">>
  /\ consumer' = [consumer EXCEPT ![s] = Idle]
  /\ UNCHANGED <<streamLeft, channel, sendersClosed, forward, closing, accepted, handled>>

(* Shard::handle takes the next message; one for this shard goes to the handler. *)
StreamNext(s, dst) ==
  /\ consumer[s] = Idle /\ streamLeft[s] > 0
  /\ streamLeft' = [streamLeft EXCEPT ![s] = @ - 1]
  /\ IF dst = s
     THEN accepted' = accepted + 1 /\ handled' = handled + 1 /\ UNCHANGED consumer
     ELSE consumer' = [consumer EXCEPT ![s] = Sending(dst)] /\ UNCHANGED <<accepted, handled>>
  /\ UNCHANGED <<channel, sendersClosed, forward, closing>>

(* The stream ends, by itself or because it is truncated upstream.               *)
StreamEnds(s) ==
  /\ consumer[s] = Idle /\ consumer' = [consumer EXCEPT ![s] = Ended]
  /\ UNCHANGED <<streamLeft, channel, sendersClosed, forward, closing, accepted, handled>>

(* send_to over the channel: an error ends the task, room completes the send.    *)
Send(s) ==
  \E d \in Shards :
    /\ consumer[s] = Sending(d)
    /\ IF sendersClosed[s]
       THEN consumer' = [consumer EXCEPT ![s] = Ended] /\ UNCHANGED <<channel, accepted>>
       ELSE /\ channel[<<s, d>>] < ChannelSize
            /\ channel' = [channel EXCEPT ![<<s, d>>] = @ + 1]
            /\ consumer' = [consumer EXCEPT ![s] = Idle] /\ accepted' = accepted + 1
    /\ UNCHANGED <<streamLeft, sendersClosed, forward, closing, handled>>

(* The forward task of a link: a message for the handler; None once the sender   *)
(* is closed and nothing is left.                                                *)
Forward(l) ==
  /\ forward[l] = "running"
  /\ \/ /\ channel[l] > 0 /\ channel' = [channel EXCEPT ![l] = @ - 1]
        /\ handled' = handled + 1 /\ UNCHANGED forward
     \/ /\ channel[l] = 0 /\ sendersClosed[l[1]]
        /\ forward' = [forward EXCEPT ![l] = "ended"] /\ UNCHANGED <<channel, handled>>
  /\ UNCHANGED <<streamLeft, consumer, sendersClosed, closing, accepted>>

\* Fault seeded in Close: the channels are closed after the forward tasks ended.
Close_sendersLast(s) ==
  /\ \/ closing[s] = "open" /\ closing' = [closing EXCEPT ![s] = "draining"] /\ UNCHANGED sendersClosed
     \/ /\ closing[s] = "draining" /\ consumer[s] \in {<<"none">>, Ended}
        /\ \A l \in Links : l[2] = s => forward[l] = "ended"
        /\ sendersClosed' = [sendersClosed EXCEPT ![s] = TRUE]
        /\ closing' = [closing EXCEPT ![s] = "closed"]
  /\ UNCHANGED <<streamLeft, consumer, channel, forward, accepted, handled>>

(* close, in three parts: no more streams; once the consumers ended the channels *)
(* are closed; once the forward tasks ended it returns.                          *)
Close(s) ==
  /\ \/ closing[s] = "open" /\ closing' = [closing EXCEPT ![s] = "draining"] /\ UNCHANGED sendersClosed
     \/ /\ closing[s] = "draining" /\ consumer[s] \in {<<"none">>, Ended}
        /\ sendersClosed' = [sendersClosed EXCEPT ![s] = TRUE]
        /\ closing' = [closing EXCEPT ![s] = "awaiting"]
     \/ /\ closing[s] = "awaiting" /\ \A l \in Links : l[2] = s => forward[l] = "ended"
        /\ closing' = [closing EXCEPT ![s] = "closed"] /\ UNCHANGED sendersClosed
  /\ UNCHANGED <<streamLeft, consumer, channel, forward, accepted, handled>>

Next ==
  \/ \E s \in Shards : Handle(s) \/ StreamEnds(s) \/ Send(s) \/ Close(s)
  \/ \E s, dst \in Shards : StreamNext(s, dst)
  \/ \E l \in Links : Forward(l)

Spec == Init /\ [][Next]_shardVars

\* Executors run their tasks; streams end, as the doc of close asks for.
Fairness ==
  /\ \A s \in Shards : WF_shardVars(StreamEnds(s)) /\ WF_shardVars(Send(s))
                       /\ WF_shardVars(Close(s) /\ closing[s] # "open")
  /\ \A l \in Links : WF_shardVars(Forward(l))

---------------------------------------------------------------------------------

(* close() returns on every shard once it is called on all, although it waits    *)
(* for tasks that end only when the other shards close, and those for full       *)
(* channels that only other shards' tasks drain.  By then every message a shard  *)
(* took charge of was handled on the shard it belongs to.                        *)
ShardsClose ==
  (\A s \in Shards : closing[s] # "open")
    ~> (accepted = handled /\ \A s \in Shards : closing[s] = "closed")
===================================================================================
