-------------------------------- MODULE MCChannels --------------------------------
(* The ring of a channel between two executors, and what is built of such        *)
(* channels: a mesh and shards.  The three share no state here, so each          *)
(* behaviour is about one of them, the subject.                                  *)
EXTENDS SpscQueue

CONSTANTS Executors, NrPeers, Shards, ChannelSize, MaxMessages

VARIABLES
  subject,
  meshPeers, meshReady, built, full, roleOf, joinAt, step, started, ids, senders, receivers,
  streamLeft, consumer, channel, sendersClosed, forward, closing, accepted, handled

Ms == INSTANCE Mesh WITH NoPeer <- NoValue
Sh == INSTANCE Sharding

ringVars == vars
meshVars == <<meshPeers, meshReady, built, full, roleOf, joinAt, step, started, ids,
              senders, receivers>>
shardVars == <<streamLeft, consumer, channel, sendersClosed, forward, closing, accepted, handled>>
allVars == <<subject, ringVars, meshVars, shardVars>>

MCInit ==
  /\ subject \in {"Ring", "Mesh", "Sharding"}
  /\ Init /\ Ms!Init /\ Sh!Init
  /\ subject # "Mesh" => full

MCNext ==
  \/ subject = "Ring" /\ Next /\ UNCHANGED <<subject, meshVars, shardVars>>
  \/ subject = "Mesh" /\ Ms!Next /\ UNCHANGED <<subject, ringVars, shardVars>>
  \/ subject = "Sharding" /\ Sh!Next /\ UNCHANGED <<subject, ringVars, meshVars>>

(* The fairness of the three.  It asks nothing of those that are not the subject: *)
(* both halves of the ring exist, nobody asks to join, no stream is handled.      *)
MCFairSpec ==
  MCInit /\ [][MCNext]_allVars /\ Fairness /\ Ms!Fairness /\ Sh!Fairness

----------------------------------------------------------------------------------
(* The properties of the modules, under their names; those of SpscQueue are      *)
(* extended.                                                                     *)

(* Mesh: whoever is among the peers of a complete mesh joins it.                 *)
EveryoneJoins == Ms!EveryoneJoins
(* Sharding: close returns on every shard, after everything was handled.         *)
ShardsClose == Sh!ShardsClose
==================================================================================
