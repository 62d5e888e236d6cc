-------------------------------- MODULE SpscQueue --------------------------------
(* The single-producer single-consumer ring of channels/spsc_queue.rs.         *)
(*                                                                             *)
(* One step is one access to shared memory: the producer and the consumer run  *)
(* on two threads, and only the has_value flag of a slot orders their accesses *)
(* to the slot's value.  Indices are machine words that wrap at Word.  The     *)
(* acquire/release pairs on has_value make the interleaving semantics exact    *)
(* for the values; the relaxed stores of head and tail are read by the other   *)
(* thread only in size().                                                      *)
EXTENDS Integers, Sequences

CONSTANTS Capacity,      \* slots of the ring, a power of two
          Word,          \* number of values of a usize index (an allocation is
                         \* at most isize::MAX bytes: at least 4 * Capacity)
          InitialValue,  \* where head and tail start (inner_make)
          MaxLookahead,  \* MAX_LOOKAHEAD
          Values,        \* what can be pushed
          NoValue        \* an uninitialised slot

ASSUME CapacityAssumption ==
  Capacity \in Nat \ {0} /\ \E k \in 0 .. Capacity : Capacity = 2 ^ k
ASSUME WordAssumption ==
  Word \in Nat /\ \E k \in 4 .. Word : Word = k * Capacity
ASSUME InitialAssumption == InitialValue \in 0 .. (Word - 1)
ASSUME LookaheadAssumption == MaxLookahead \in Nat \ {0}
ASSUME ValuesAssumption == NoValue \notin Values

VARIABLES
  tail, limit, head,         \* pcache.tail, pcache.limit, ccache.head
  value, hasValue,           \* the two fields of every Slot
  consumerId, producerId,    \* "never", "connected", "disconnected"
  producerPc, arg,           \* where the producer is in try_push, and its value
  consumerPc, got,           \* where the consumer is in try_pop, and its result
  handles,                   \* which halves still hold their Arc<Buffer>
  freed,                     \* the buffer's memory was released
  promised                   \* free_space() > 0 was seen and no push followed

prodVars == <<tail, limit, producerPc, arg, promised>>
consVars == <<head, consumerPc, got>>
slotVars == <<value, hasValue>>
lifeVars == <<consumerId, producerId, handles, freed>>
vars == <<prodVars, consVars, slotVars, lifeVars>>

Halves == {"producer", "consumer"}
Slots == 0 .. (Capacity - 1)
Index == 0 .. (Word - 1)

WrappingAdd(i, n) == (i + n) % Word
Slot(i) == i % Capacity

(* (capacity / 4).clamp(1, MAX_LOOKAHEAD) *)
Lookahead ==
  LET quarter == Capacity \div 4
  IN  IF quarter < 1 THEN 1 ELSE IF quarter > MaxLookahead THEN MaxLookahead ELSE quarter

(* size() as evaluated from the values of tail and head it loads: the          *)
(* subtraction saturates, it does not wrap.                                    *)
Size ==
  LET d == IF tail >= head THEN tail - head ELSE 0
  IN  IF d > Capacity THEN Capacity ELSE d

\* Fault seeded in FreeSpace: one too many.
FreeSpace_offByOne == Capacity + 1 - Size

FreeSpace == Capacity - Size

Init ==
  /\ tail = InitialValue /\ limit = InitialValue /\ head = InitialValue
  /\ value = [s \in Slots |-> NoValue]
  /\ hasValue = [s \in Slots |-> FALSE]
  /\ consumerId = "never" /\ producerId = "never"
  /\ producerPc = "idle" /\ arg = NoValue
  /\ consumerPc = "idle" /\ got = NoValue
  /\ handles = Halves /\ freed = FALSE /\ promised = FALSE

----------------------------------------------------------------------------------
(* The producer: try_push.                                                     *)

(* The consumer is gone: the value is handed back.                             *)
PushRefused ==
  /\ "producer" \in handles /\ producerPc = "idle"
  /\ consumerId = "disconnected"
  /\ promised' = FALSE
  /\ UNCHANGED <<tail, limit, producerPc, arg, consVars, slotVars, lifeVars>>

PushStart(v) ==
  /\ "producer" \in handles /\ producerPc = "idle"
  /\ consumerId # "disconnected"
  /\ arg' = v
  /\ producerPc' = IF tail = limit THEN "look" ELSE "write"
  /\ UNCHANGED <<tail, limit, promised, consVars, slotVars, lifeVars>>

\* Fault seeded in PushLook: claims the slot at tail without looking at it.
PushLook_skipRecheck ==
  LET idx == WrappingAdd(tail, Lookahead)
  IN /\ producerPc = "look"
     /\ limit' = IF hasValue[Slot(idx)] THEN WrappingAdd(tail, 1) ELSE idx
     /\ producerPc' = "write"
     /\ UNCHANGED <<tail, arg, promised, consVars, slotVars, lifeVars>>

(* An empty slot Lookahead ahead means that all the slots before it are empty. *)
PushLook ==
  LET idx == WrappingAdd(tail, Lookahead)
  IN /\ producerPc = "look"
     /\ \/ ~hasValue[Slot(idx)] /\ limit' = idx /\ producerPc' = "write"
        \/ hasValue[Slot(idx)] /\ producerPc' = "recheck" /\ UNCHANGED limit
     /\ UNCHANGED <<tail, arg, promised, consVars, slotVars, lifeVars>>

PushRecheck ==
  /\ producerPc = "recheck"
  /\ \/ /\ hasValue[Slot(tail)]                  \* full: Some(v) is returned
        /\ producerPc' = "idle" /\ arg' = NoValue /\ promised' = FALSE
        /\ UNCHANGED limit
     \/ /\ ~hasValue[Slot(tail)]
        /\ limit' = WrappingAdd(tail, 1) /\ producerPc' = "write"
        /\ UNCHANGED <<arg, promised>>
  /\ UNCHANGED <<tail, consVars, slotVars, lifeVars>>

PushWrite ==
  /\ producerPc = "write"
  /\ value' = [value EXCEPT ![Slot(tail)] = arg]
  /\ producerPc' = "publish"
  /\ UNCHANGED <<tail, limit, arg, promised, hasValue, consVars, lifeVars>>

PushPublish ==
  /\ producerPc = "publish"
  /\ hasValue' = [hasValue EXCEPT ![Slot(tail)] = TRUE]
  /\ producerPc' = "advance"
  /\ UNCHANGED <<tail, limit, arg, promised, value, consVars, lifeVars>>

PushAdvance ==
  /\ producerPc = "advance"
  /\ tail' = WrappingAdd(tail, 1)
  /\ producerPc' = "idle" /\ arg' = NoValue /\ promised' = FALSE
  /\ UNCHANGED <<limit, consVars, slotVars, lifeVars>>

(* wait_for_room of shared_channel.rs: free_space() is read before the push.   *)
(* Only before an index wraps: size() does not undo the wrap of tail.  A       *)
(* 64-bit index does not wrap in the life of a program; the small Word does.   *)
SeeRoom ==
  /\ "producer" \in handles /\ producerPc = "idle"
  /\ tail >= head /\ FreeSpace > 0
  /\ promised' = TRUE
  /\ UNCHANGED <<tail, limit, producerPc, arg, consVars, slotVars, lifeVars>>

----------------------------------------------------------------------------------
(* The consumer: try_pop.  Once both halves are gone the same steps are        *)
(* Buffer::drop, which pops until the ring is empty.                           *)

\* Fault seeded in PopStart: does not test the flag.
PopStart_unchecked ==
  /\ consumerPc = "idle" /\ "consumer" \in handles
  /\ consumerPc' = "read"
  /\ UNCHANGED <<head, got, prodVars, slotVars, lifeVars>>

PopStart ==
  /\ consumerPc = "idle" /\ ~freed
  /\ "consumer" \in handles \/ handles = {}
  /\ hasValue[Slot(head)]
  /\ consumerPc' = "read"
  /\ UNCHANGED <<head, got, prodVars, slotVars, lifeVars>>

(* The value is moved out: the slot is uninitialised from here on.             *)
PopRead ==
  /\ consumerPc = "read"
  /\ got' = value[Slot(head)]
  /\ value' = [value EXCEPT ![Slot(head)] = NoValue]
  /\ consumerPc' = "clear"
  /\ UNCHANGED <<head, hasValue, prodVars, lifeVars>>

\* Fault seeded in PopClear: leaves the flag set.
PopClear_forgotten ==
  /\ consumerPc = "clear"
  /\ consumerPc' = "advance"
  /\ UNCHANGED <<head, got, slotVars, prodVars, lifeVars>>

PopClear ==
  /\ consumerPc = "clear"
  /\ hasValue' = [hasValue EXCEPT ![Slot(head)] = FALSE]
  /\ consumerPc' = "advance"
  /\ UNCHANGED <<head, got, value, prodVars, lifeVars>>

PopAdvance ==
  /\ consumerPc = "advance"
  /\ head' = WrappingAdd(head, 1)
  /\ consumerPc' = "idle"
  /\ UNCHANGED <<got, prodVars, slotVars, lifeVars>>

\* Fault seeded in FreeBuffer: does not empty the ring.
FreeBuffer_early ==
  /\ handles = {} /\ ~freed /\ consumerPc = "idle"
  /\ freed' = TRUE
  /\ UNCHANGED <<consumerId, producerId, handles, prodVars, consVars, slotVars>>

(* Buffer::drop ends: try_pop returned None.                                   *)
FreeBuffer ==
  /\ handles = {} /\ ~freed /\ consumerPc = "idle"
  /\ ~hasValue[Slot(head)]
  /\ freed' = TRUE
  /\ UNCHANGED <<consumerId, producerId, handles, prodVars, consVars, slotVars>>

----------------------------------------------------------------------------------
(* Connection ids and handles.                                                 *)

ConnectProducer ==
  /\ "producer" \in handles /\ producerPc = "idle" /\ producerId = "never"
  /\ producerId' = "connected"
  /\ UNCHANGED <<consumerId, handles, freed, prodVars, consVars, slotVars>>

ConnectConsumer ==
  /\ "consumer" \in handles /\ consumerPc = "idle" /\ consumerId = "never"
  /\ consumerId' = "connected"
  /\ UNCHANGED <<producerId, handles, freed, prodVars, consVars, slotVars>>

DisconnectProducer ==
  /\ "producer" \in handles /\ producerPc = "idle"
  /\ producerId' = "disconnected"
  /\ UNCHANGED <<consumerId, handles, freed, prodVars, consVars, slotVars>>

DisconnectConsumer ==
  /\ "consumer" \in handles /\ consumerPc = "idle"
  /\ consumerId' = "disconnected"
  /\ UNCHANGED <<producerId, handles, freed, prodVars, consVars, slotVars>>

(* The last clone of a half's Arc<Buffer> is dropped (after it disconnected).  *)
DropProducer ==
  /\ "producer" \in handles /\ producerPc = "idle" /\ producerId = "disconnected"
  /\ handles' = handles \ {"producer"}
  /\ UNCHANGED <<consumerId, producerId, freed, prodVars, consVars, slotVars>>

DropConsumer ==
  /\ "consumer" \in handles /\ consumerPc = "idle" /\ consumerId = "disconnected"
  /\ handles' = handles \ {"consumer"}
  /\ UNCHANGED <<consumerId, producerId, freed, prodVars, consVars, slotVars>>

Producer ==
  \/ PushRefused \/ (\E v \in Values : PushStart(v)) \/ PushLook \/ PushRecheck
  \/ PushWrite \/ PushPublish \/ PushAdvance \/ SeeRoom
  \/ ConnectProducer \/ DisconnectProducer \/ DropProducer

PopStep == PopStart \/ PopRead \/ PopClear \/ PopAdvance

Consumer ==
  PopStep \/ ConnectConsumer \/ DisconnectConsumer \/ DropConsumer

Next == Producer \/ Consumer \/ FreeBuffer

(* Buffer::drop runs to its end.  No fairness is assumed of the decisions to   *)
(* push, to pop, to disconnect or to drop.                                     *)
Fairness == WF_vars(handles = {} /\ PopStep) /\ WF_vars(FreeBuffer)

Spec == Init /\ [][Next]_vars
FairSpec == Spec /\ Fairness

----------------------------------------------------------------------------------
(* Properties.                                                                 *)

(* The types.  The indices of try_push and try_pop stay in a machine word.     *)
TypeOK ==
  /\ tail \in Index /\ limit \in Index /\ head \in Index
  /\ value \in [Slots -> Values \cup {NoValue}]
  /\ hasValue \in [Slots -> BOOLEAN]
  /\ consumerId \in {"never", "connected", "disconnected"}
  /\ producerId \in {"never", "connected", "disconnected"}
  /\ producerPc \in {"idle", "look", "recheck", "write", "publish", "advance"}
  /\ arg \in Values \cup {NoValue}
  /\ consumerPc \in {"idle", "read", "clear", "advance"}
  /\ got \in Values \cup {NoValue}
  /\ handles \subseteq Halves /\ freed \in BOOLEAN /\ promised \in BOOLEAN

(* The plain (non-atomic) accesses to a slot's value never meet and never see  *)
(* the wrong thing.  try_push writes a slot that is empty (a value that was    *)
(* not taken would leak) and that the consumer is not reading, although only   *)
(* the lookahead slot was examined; try_pop reads and clears a slot that holds *)
(* a value the producer has finished writing.                                  *)
SlotOwnership ==
  /\ producerPc \in {"write", "publish"} => ~hasValue[Slot(tail)]
  /\ producerPc = "write" => value[Slot(tail)] = NoValue
  /\ consumerPc = "read" => value[Slot(head)] # NoValue
  /\ ~(producerPc = "write" /\ consumerPc = "read" /\ Slot(tail) = Slot(head))

(* try_push refuses a value for lack of room only when Capacity values are in  *)
(* the ring: the lookahead never makes it give up early.                       *)
RefusesOnlyWhenFull ==
  producerPc = "recheck" /\ hasValue[Slot(tail)]
    => (tail - (IF consumerPc = "advance" THEN head + 1 ELSE head)) % Word = Capacity

(* ConnectedSender::send panics ("operation would block") when the push that   *)
(* follows a positive free_space() finds no room.  The consumer clears a slot  *)
(* before it moves head, so room that was seen is still there.                 *)
RoomIsKept ==
  producerPc = "recheck" /\ promised => ~hasValue[Slot(tail)]

(* Once both halves are gone the ring is emptied, so that no value leaks, and  *)
(* released.                                                                   *)
DropFrees == (handles = {}) ~> (freed /\ \A s \in Slots : value[s] = NoValue)

(* The queue the two users see: a value is in it from the store of has_value   *)
(* to the read of the value.                                                   *)
First == IF consumerPc \in {"clear", "advance"} THEN head + 1 ELSE head
Beyond == IF producerPc = "advance" THEN tail + 1 ELSE tail
Items == [i \in 1 .. ((Beyond - First) % Word) |-> value[Slot((First + i - 1) % Word)]]

Fifo == INSTANCE BoundedFifo WITH items <- Items, taken <- got

(* The ring implements the bounded first-in first-out queue: under every       *)
(* interleaving of try_push and try_pop, and across a wrap of the indices,     *)
(* values come out once, in the order in which they went in.                   *)
ImplementsFifo == Fifo!Spec
==================================================================================
