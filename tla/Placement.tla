---------------------------------- MODULE Placement ----------------------------------
(* executor/placement: the CPUs that executors are bound to, for a pool of them  *)
(* or a single one.  MaxSpread and MaxPack take them one by one from a tree of   *)
(* priority queues over the topology of the machine.  A location is              *)
(* <<numa node, package, cache domain, core, cpu>>; a node of the tree is what   *)
(* the locations below it begin with.                                            *)
EXTENDS Integers, Sequences, FiniteSets, FiniteSetsExt, SequencesExt

CONSTANTS
  Topologies,     \* sets of locations
  MaxRounds       \* how often the iterator goes round the CPUs

VARIABLES
  topology,       \* the CpuSet of the placement
  offline,        \* those of its CPUs that are not online any more
  builder,        \* "pool" (PoolPlacement) or "single" (Placement)
  policy,         \* "unbound", "fenced", "spread", "pack", "custom"
  sets,           \* the CpuSets of Custom; of Fixed the one with its CPU
  shards,         \* executor_count
  generator,      \* "none", "refused", "made"
  handed,         \* calls of next
  selected        \* location -> how many executors were bound to it

placement == <<topology, offline, builder, policy, shards>>
placementVars == <<placement, sets, generator, handed, selected>>

Policies == [pool   |-> {"unbound", "fenced", "spread", "pack", "custom"},
             single |-> {"unbound", "fenced", "custom"}]

(* Custom sets that share out the CPUs, that share one, and that have none.      *)
CustomSets(cpus) == {<<>>, <<{}>>} \cup UNION {{<<cpus, {l}>>, <<cpus \ {l}, {l}>>} : l \in cpus}

(* executor_count is the number of Custom's sets, else as the program says.      *)
Init ==
  /\ topology \in Topologies \cup {{}}
  /\ offline \in {{}} \cup {{l} : l \in topology}
  /\ builder \in {"pool", "single"} /\ policy \in Policies[builder]
  /\ sets \in IF policy # "custom" THEN {<<>>}
              ELSE IF builder = "pool" THEN CustomSets(topology) ELSE {<<{l}>> : l \in topology}
  /\ shards \in IF policy = "custom" THEN {Len(sets)}
                ELSE IF builder = "pool" THEN 0 .. Cardinality(topology) + 1 ELSE {1}
  /\ generator = "none" /\ handed = 0
  /\ selected = [l \in topology |-> 0]

(* from_topology: NUMA nodes lie inside packages when there are fewer packages.  *)
PackagesOutside ==
  Cardinality({l[2] : l \in topology}) < Cardinality({l[1] : l \in topology})
Path(l) == IF PackagesOutside THEN <<l[2], l[1], l[3], l[4], l[5]>> ELSE l

(* build_sub_tree: the node of a location at a depth, its CPUs, its counters.    *)
Node(l, depth) == SubSeq(Path(l), 1, depth)
Below(node) == {l \in topology : Node(l, Len(node)) = node}
NrSlots(node) == Cardinality(Below(node))
NrSlotsSelected(node) == MapThenSumSet(LAMBDA l : selected[l], Below(node))

\* priority_spread: the node that is less saturated comes first.
FirstSpread(a, b) == NrSlotsSelected(a) * NrSlots(b) < NrSlotsSelected(b) * NrSlots(a)

Partial(node) == NrSlotsSelected(node) % NrSlots(node) # 0
Rounds(node) == NrSlotsSelected(node) \div NrSlots(node)

\* Fault seeded in FirstPack: a node being filled has no precedence.
FirstPack_noPartial(a, b) ==
  Rounds(a) < Rounds(b) \/ (Rounds(a) = Rounds(b) /\ NrSlots(a) > NrSlots(b))

(* priority_pack: a node being filled, then fewer rounds, then more CPUs.        *)
FirstPack(a, b) ==
  \/ Partial(a) /\ ~Partial(b)
  \/ /\ ~Partial(a) /\ ~Partial(b)
     /\ Rounds(a) < Rounds(b) \/ (Rounds(a) = Rounds(b) /\ NrSlots(a) > NrSlots(b))

First(a, b) == IF policy = "spread" THEN FirstSpread(a, b) ELSE FirstPack(a, b)

(* check_nr_executors, check_nr_cpus, check_cpu.                                 *)
NrExecutorsOk == 1 <= shards
NrCpusOk(required, cpus) == required <= Cardinality(cpus)
CpusExist(cpus) == cpus \cap offline = {}

(* CpuSetGenerator::pool                                                         *)
PoolAccepts ==
  CASE policy = "unbound" -> NrExecutorsOk
    [] policy = "fenced"  -> NrExecutorsOk /\ NrCpusOk(1, topology) /\ CpusExist(topology)
    [] policy = "custom"  -> \A cpus \in ToSet(sets) : NrCpusOk(1, cpus) /\ CpusExist(cpus)
    [] OTHER -> NrExecutorsOk /\ NrCpusOk(shards, topology) /\ CpusExist(topology)

(* CpuSetGenerator::one: Fenced does not ask whether its CPUs are online.        *)
OneAccepts ==
  CASE policy = "unbound" -> TRUE
    [] policy = "fenced"  -> NrCpusOk(1, topology)
    [] policy = "custom"  -> CpusExist(sets[1])

Generate ==
  /\ generator = "none"
  /\ generator' = IF (builder = "pool" /\ PoolAccepts) \/ (builder = "single" /\ OneAccepts)
                  THEN "made" ELSE "refused"
  /\ UNCHANGED <<placement, sets, handed, selected>>

(* CpuSetGenerator::next, once for each executor: its CPUs, if it is bound.      *)
BindTo(cpus) ==
  /\ handed' = handed + 1
  /\ selected' = [l \in topology |-> selected[l] + (IF l \in cpus THEN 1 ELSE 0)]
  /\ UNCHANGED <<placement, generator>>

NextUnbound ==
  /\ generator = "made" /\ policy = "unbound" /\ handed < shards
  /\ BindTo({}) /\ UNCHANGED sets
NextFenced ==
  /\ generator = "made" /\ policy = "fenced" /\ handed < shards
  /\ BindTo(topology) /\ UNCHANGED sets
NextCustom ==
  /\ generator = "made" /\ policy = "custom" /\ handed < shards
  /\ sets # <<>> /\ BindTo(Last(sets)) /\ sets' = Front(sets)

(* MaxSpread, MaxPack, select_cpu: at every level the top of the heap of         *)
(* children; among equal children the heap may have any on top.                  *)
SelectCpu(l) ==
  /\ generator = "made" /\ policy \in {"spread", "pack"}
  /\ handed < MaxRounds * NrSlots(<<>>)
  /\ \A depth \in 1 .. 5 : \A other \in Below(Node(l, depth - 1)) :
       ~First(Node(other, depth), Node(l, depth))
  /\ BindTo({l}) /\ UNCHANGED sets

Next == Generate \/ NextUnbound \/ NextFenced \/ NextCustom \/ \E l \in topology : SelectCpu(l)
Spec == Init /\ [][Next]_placementVars

---------------------------------------------------------------------------------

(* "will cycle through [`CpuLocation`]": whatever the shape of the machine, each *)
(* CPU is returned once before any is returned again, so that a pool never has   *)
(* two executors on one CPU.  Packing fills one node at a time, too: of the      *)
(* children of a node at most one is partly filled, since the comparison of two  *)
(* such nodes says "greater" both ways and the heap would have no order.  And    *)
(* under every policy the executors that there are get their CPUs: next finds a  *)
(* set for each, none of them empty, and in a pool no CPU that was not online.   *)
EveryCpuInTurn ==
  /\ policy \in {"spread", "pack"} => \A l, m \in topology : selected[l] <= selected[m] + 1
  /\ policy = "pack" => \A depth \in 1 .. 5 : \A l, m \in topology :
      (Node(l, depth - 1) = Node(m, depth - 1) /\ Partial(Node(l, depth)) /\ Partial(Node(m, depth)))
        => Node(l, depth) = Node(m, depth)
  /\ policy # "unbound" => NrSlotsSelected(<<>>) >= handed
  /\ policy = "custom" /\ generator = "made" /\ handed < shards => sets # <<>>
  /\ builder = "pool" => \A l \in offline : selected[l] = 0
===================================================================================
