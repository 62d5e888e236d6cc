----------------------------------- MODULE Mesh -----------------------------------
(* channels/channel_mesh.rs: executors join a mesh under its mutex, the last one *)
(* builds the channels, and each connects its ends, one peer after the other.    *)
(* Each action is one section under the mutex, or the code up to an await.       *)
EXTENDS Naturals, Sequences, FiniteSets

CONSTANTS
  Executors,    \* ids of the executors that ask to join
  NrPeers,
  NoPeer        \* a placeholder of a full mesh

VARIABLES
  meshPeers,    \* JoinState::peers, which is sorted by executor id: their set
  meshReady,    \* JoinState::ready
  built,        \* the channels of the mesh, from one peer to another
  full,         \* the adapter is Full, not Partial
  roleOf,       \* executor -> its role
  joinAt,       \* executor -> where its call of join is
  step,         \* executor -> the peer it connects to
  started,      \* <<executor, peer, end>>: the tasks spawned to connect an end
  ids,          \* executor -> peer_id, role_id
  senders, receivers  \* executor -> its vectors of connected ends

meshVars == <<meshPeers, meshReady, built, full, roleOf, joinAt, step, started, ids,
              senders, receivers>>

Roles == {"Producer", "Consumer", "Both"}

Init ==
  /\ meshPeers = {} /\ meshReady = FALSE /\ built = {} /\ started = {}
  /\ full \in BOOLEAN
  /\ roleOf = [e \in Executors |-> "Both"]
  /\ joinAt = [e \in Executors |-> "out"]
  /\ step = [e \in Executors |-> 0]
  /\ ids = [e \in Executors |-> <<0, 0>>]
  /\ senders = [e \in Executors |-> <<>>]
  /\ receivers = [e \in Executors |-> <<>>]

PeerId(e) == Cardinality({p \in meshPeers : p < e})
PeerAt(i) == CHOOSE p \in meshPeers : PeerId(p) = i

\* MeshAdapter::connect
Connect(from, to) == full \/ (roleOf[from] = "Producer" /\ roleOf[to] = "Consumer")

(* register, the first section: an error, or the peer is inserted.  A full mesh  *)
(* is joined in the role Both.                                                   *)
Register(e, role) ==
  /\ joinAt[e] = "out"
  /\ IF Cardinality(meshPeers) = NrPeers
     THEN joinAt' = [joinAt EXCEPT ![e] = "refused"] /\ UNCHANGED <<meshPeers, roleOf>>
     ELSE /\ meshPeers' = meshPeers \union {e} /\ roleOf' = [roleOf EXCEPT ![e] = role]
          /\ joinAt' = [joinAt EXCEPT ![e] = IF Cardinality(meshPeers') = NrPeers
                                             THEN "building" ELSE "waiting"]
  /\ UNCHANGED <<meshReady, built, full, step, started, ids, senders, receivers>>

\* Executors of e's role before e.
RoleId(e) == Cardinality({p \in meshPeers : p < e /\ roleOf[p] = roleOf[e]})

(* The last joiner builds the channels.                                          *)
Build(e) ==
  /\ joinAt[e] = "building" /\ meshReady' = TRUE
  /\ built' = {<<f, t>> \in meshPeers \X meshPeers : f # t /\ Connect(f, t)}
  /\ joinAt' = [joinAt EXCEPT ![e] = "waiting"]
  /\ UNCHANGED <<meshPeers, full, roleOf, step, started, ids, senders, receivers>>

(* The others poll `ready`; then the ids, and the ends of this peer.             *)
PollReady(e) ==
  /\ joinAt[e] = "waiting" /\ meshReady
  /\ ids' = [ids EXCEPT ![e] = <<PeerId(e), RoleId(e)>>]
  /\ joinAt' = [joinAt EXCEPT ![e] = "connecting"]
  /\ UNCHANGED <<meshPeers, meshReady, built, full, roleOf, step, started, senders, receivers>>

Target(e) == PeerAt(step[e])

\* Fault seeded in StartConnect: the receiver is connected after the sender.
StartConnect_inTurn(e) ==
  /\ joinAt[e] = "connecting"
  /\ started' = started \union
       {<<e, Target(e), IF <<e, Target(e)>> \in built THEN "sender" ELSE "receiver">>}
  /\ joinAt' = [joinAt EXCEPT ![e] = "awaiting"]
  /\ UNCHANGED <<meshPeers, meshReady, built, full, roleOf, step, ids, senders, receivers>>

(* join_with spawns both tasks that connect the ends to the next peer, in the    *)
(* order of the indices.                                                         *)
StartConnect(e) ==
  /\ joinAt[e] = "connecting"
  /\ started' = started \union {<<e, Target(e), end>> : end \in {"sender", "receiver"}}
  /\ joinAt' = [joinAt EXCEPT ![e] = "awaiting"]
  /\ UNCHANGED <<meshPeers, meshReady, built, full, roleOf, step, ids, senders, receivers>>

\* An end, a placeholder of a full mesh, or nothing.
End(channel, peer) == IF channel \in built THEN <<peer>> ELSE IF full THEN <<NoPeer>> ELSE <<>>

(* Both tasks are done: connect() of an end returns once the other end's began.  *)
ConnectReturns(e) ==
  LET p == Target(e) IN
  /\ joinAt[e] = "awaiting"
  /\ (<<e, p>> \in built => <<p, e, "receiver">> \in started)
  /\ (<<p, e>> \in built => <<p, e, "sender">> \in started)
  /\ senders' = [senders EXCEPT ![e] = @ \o End(<<e, p>>, p)]
  /\ receivers' = [receivers EXCEPT ![e] = @ \o End(<<p, e>>, p)]
  /\ step' = [step EXCEPT ![e] = @ + 1]
  /\ joinAt' = [joinAt EXCEPT ![e] = IF step'[e] = NrPeers THEN "joined" ELSE "connecting"]
  /\ UNCHANGED <<meshPeers, meshReady, built, full, roleOf, started, ids>>

Step(e) ==
  \/ \E role \in (IF full THEN {"Both"} ELSE Roles) : Register(e, role)
  \/ Build(e) \/ PollReady(e) \/ StartConnect(e) \/ ConnectReturns(e)
Next == \E e \in Executors : Step(e)

Spec == Init /\ [][Next]_meshVars
Fairness == \A e \in Executors : WF_meshVars(Step(e) /\ joinAt[e] # "out")

---------------------------------------------------------------------------------

(* The indices mean the same on both sides of a mesh, whatever the order in      *)
(* which its peers came: the sender that a producer finds at the consumer_id of  *)
(* a consumer leads to it, and a consumer finds a producer at its producer_id;   *)
(* in a full mesh both are the peer ids.                                         *)
IdsAgree ==
  \A f, t \in Executors :
    (joinAt[f] = "joined" /\ joinAt[t] = "joined" /\ <<f, t>> \in built) =>
      /\ senders[f][ids[t][2] + 1] = t
      /\ receivers[t][ids[f][2] + 1] = f
      /\ (full => ids[f][1] = ids[f][2])

(* Once the mesh has its peers each of them joins, and they agree on the         *)
(* indices: the connects, which wait for one another across executors, never     *)
(* wait in a circle.                                                             *)
EveryoneJoins ==
  (Cardinality(meshPeers) = NrPeers) ~> (IdsAgree /\ \A e \in meshPeers : joinAt[e] = "joined")
===================================================================================
