--------------------------- MODULE SharedChannelProofs ---------------------------
(* No executor sleeps next to work, and recv() returns None only from a        *)
(* drained channel, for every capacity and any number of items.                *)
EXTENDS SharedChannel, TLAPS

----------------------------------------------------------------------------------
(* The inductive invariant.                                                    *)

(* The counters of TypeOK, one by one.                                         *)
Counters ==
  /\ tail \in Nat /\ flagSeen \in Nat /\ tailSeen \in Nat
  /\ head \in Nat /\ clearSeen \in Nat /\ headSeen \in Nat
  /\ flagSeen <= tail /\ tailSeen <= tail /\ clearSeen <= head /\ headSeen <= head
  /\ head <= tail /\ tail <= MaxItems

(* The rest of it.                                                             *)
Kinds ==
  /\ id \in [Sides -> {"none", "up", "gone"}] /\ idSeen \in [Sides -> {"none", "up", "gone"}]
  /\ task \in [Sides -> {"new", "connecting", "idle", "waiting", "woken", "ended", "gone"}]
  /\ flag \in [Sides -> BOOLEAN] /\ eventfd \in [Sides -> BOOLEAN]
  /\ installed \in [Sides -> BOOLEAN] /\ flagStored \in [Sides -> {{}, {TRUE}, {FALSE}}]

PCs == {"task", "send", "try_send", "empty", "again", "notify", "panic", "wait",
        "barrier", "recheck", "asleep", "wake_up"}

(* Where the two threads can be.  A push under way was begun below the bound   *)
(* on items, and recv() is between its two pops only for a task that runs.     *)
Threads ==
  /\ pc \in [Sides -> PCs]
  /\ pc["tx"] \notin {"empty", "again"} /\ pc["rx"] \notin {"send", "try_send", "panic"}
  /\ pc["tx"] \in {"send", "try_send"} => tail < MaxItems
  /\ pc["rx"] \in {"empty", "again"} => task["rx"] \in {"idle", "woken"}

(* An id is stored by its own end only, and seen no earlier than stored: an    *)
(* end that has no id yet has a peer that is not connected.                    *)
Ids ==
  \A e \in Sides :
    /\ task[e] = "new" => id[e] = "none"
    /\ idSeen[e] # "none" => id[e] # "none"
    /\ task[e] \in {"idle", "waiting", "woken", "ended"} => id[Peer(e)] # "none"

(* The producer's id is a Release store: when it is seen disconnected, every   *)
(* push before it is seen, and there is none after it.                         *)
Disconnected ==
  /\ idSeen["tx"] = "gone" => id["tx"] = "gone" /\ flagSeen = tail
  /\ At("rx", "again") => idSeen["tx"] = "gone"
  /\ task["rx"] = "ended" => id["tx"] = "gone" /\ head = tail

(* From the barrier on, should_notify is on its way or set, or a peer has      *)
(* taken it and written the eventfd.                                           *)
Announced(e) ==
  /\ At(e, "wait") => installed[e]
  /\ At(e, "barrier") => flagStored[e] = {TRUE} \/ (flagStored[e] = {} /\ (flag[e] \/ eventfd[e]))
  /\ pc[e] \in {"recheck", "asleep"} => flagStored[e] = {} /\ (flag[e] \/ eventfd[e])
  /\ At(e, "asleep") => installed[e]

(* After the barrier, work is visible to the last look at the channels, or     *)
(* whoever made it is about to notify, or has written the eventfd.             *)
Noticed(e) ==
  /\ At(e, "recheck") /\ Work(e) => Ready(e) \/ eventfd[e] \/ At(Peer(e), "notify")
  /\ At(e, "asleep") /\ Work(e) => eventfd[e] \/ At(Peer(e), "notify")

IInv ==
  /\ Counters /\ Kinds /\ Threads /\ Ids /\ Disconnected
  /\ \A e \in Sides : Announced(e) /\ Noticed(e)

----------------------------------------------------------------------------------
(* The initial states.                                                         *)
LEMMA InitIInv == Init => IInv
  BY CapacityAssumption, MaxItemsAssumption
  DEF Init, IInv, Counters, Kinds, Threads, PCs, Ids, Disconnected, Announced, Noticed, Sides, At, Peer

----------------------------------------------------------------------------------
(* Every action preserves it.                                                  *)
USE CapacityAssumption, MaxItemsAssumption DEF Sides, At, Goto, Set, Peer, ring, sleep

(* The id goes from none to up: the peer's view of it lags, and nobody waits   *)
(* on it.                                                                      *)
LEMMA ConnectStep ==
  ASSUME NEW e \in Sides, IInv, Connect(e) PROVE IInv'
  <1> USE DEF Connect
  <1>0. Counters /\ Kinds /\ Threads
    BY DEF IInv
  <1>1. Counters' /\ Kinds' /\ Threads'
    BY <1>0 DEF Counters, Kinds, Threads, PCs
  <1>2. Ids' /\ Disconnected'
    BY <1>0 DEF IInv, Counters, Kinds, Threads, Ids, Disconnected
  <1>3. \A x \in Sides : Announced(x)'
    BY <1>0 DEF IInv, Kinds, Threads, Announced
  <1>4. \A x \in Sides : Noticed(x)'
    BY <1>0 DEF IInv, Counters, Kinds, Threads, Ids, Announced, Noticed, Work, Ready, FreeSpace, Size
  <1> QED BY <1>1, <1>2, <1>3, <1>4 DEF IInv

(* The end is connected, so the peer has an id.                                *)
LEMMA ConnectorPollStep ==
  ASSUME NEW e \in Sides, IInv, ConnectorPoll(e) PROVE IInv'
  <1> USE DEF ConnectorPoll
  <1>0. Counters /\ Kinds /\ Threads
    BY DEF IInv
  <1>1. Counters' /\ Kinds' /\ Threads'
    BY <1>0 DEF Counters, Kinds, Threads, PCs
  <1>2. Ids' /\ Disconnected'
    BY <1>0 DEF IInv, Counters, Kinds, Threads, Ids, Disconnected
  <1>3. \A x \in Sides : Announced(x)'
    BY <1>0 DEF IInv, Kinds, Threads, Announced
  <1>4. \A x \in Sides : Noticed(x)'
    BY <1>0 DEF IInv, Counters, Kinds, Threads, Ids, Announced, Noticed, Work, Ready, FreeSpace, Size
  <1> QED BY <1>1, <1>2, <1>3, <1>4 DEF IInv

(* The connect() future is dropped and leaves the id as it is.                 *)
LEMMA CancelConnectStep ==
  ASSUME NEW e \in Sides, IInv, CancelConnect(e) PROVE IInv'
  <1> USE DEF CancelConnect
  <1>0. Counters /\ Kinds /\ Threads
    BY DEF IInv
  <1>1. Counters' /\ Kinds' /\ Threads'
    BY <1>0 DEF Counters, Kinds, Threads, PCs
  <1>2. Ids' /\ Disconnected'
    BY <1>0 DEF IInv, Counters, Kinds, Threads, Ids, Disconnected
  <1>3. \A x \in Sides : Announced(x)'
    BY <1>0 DEF IInv, Kinds, Threads, Announced
  <1>4. \A x \in Sides : Noticed(x)'
    BY <1>0 DEF IInv, Counters, Kinds, Threads, Ids, Announced, Noticed, Work, Ready, FreeSpace, Size
  <1> QED BY <1>1, <1>2, <1>3, <1>4 DEF IInv

(* A peer that waits is connected, so this end has an id and is not new:       *)
(* unless it had disconnected before, it goes on to notify.                    *)
LEMMA DropEndStep ==
  ASSUME NEW e \in Sides, IInv, DropEnd(e) PROVE IInv'
  <1> USE DEF DropEnd
  <1>0. Counters /\ Kinds /\ Threads
    BY DEF IInv
  <1>1. Counters' /\ Kinds' /\ Threads'
    BY <1>0 DEF Counters, Kinds, Threads, PCs
  <1>2. Ids' /\ Disconnected'
    BY <1>0 DEF IInv, Counters, Kinds, Threads, Ids, Disconnected
  <1>3. \A x \in Sides : Announced(x)'
    BY <1>0 DEF IInv, Kinds, Threads, Announced
  <1>4. \A x \in Sides : Noticed(x)'
    BY <1>0 DEF IInv, Counters, Kinds, Threads, Ids, Announced, Noticed, Work, Ready, FreeSpace, Size
  <1> QED BY <1>1, <1>2, <1>3, <1>4 DEF IInv

(* The disconnected id is work for a waiting receiver, and notify follows.     *)
LEMMA CloseStep ==
  ASSUME IInv, Close PROVE IInv'
  <1> USE DEF Close
  <1>0. Counters /\ Kinds /\ Threads
    BY DEF IInv
  <1>1. Counters' /\ Kinds' /\ Threads'
    BY <1>0 DEF Counters, Kinds, Threads, PCs
  <1>2. Ids' /\ Disconnected'
    BY <1>0 DEF IInv, Counters, Kinds, Threads, Ids, Disconnected
  <1>3. \A x \in Sides : Announced(x)'
    BY <1>0 DEF IInv, Kinds, Threads, Announced
  <1>4. \A x \in Sides : Noticed(x)'
    BY <1>0 DEF IInv, Counters, Kinds, Threads, Ids, Announced, Noticed, Work, Ready, FreeSpace, Size
  <1> QED BY <1>1, <1>2, <1>3, <1>4 DEF IInv

(* The sender goes on to push below the bound on items, or waits.              *)
LEMMA WaitForRoomStep ==
  ASSUME IInv, WaitForRoom PROVE IInv'
  <1> USE DEF WaitForRoom, FreeSpace
  <1>0. Counters /\ Kinds /\ Threads
    BY DEF IInv
  <1>1. Counters'
    BY <1>0 DEF Counters
  <1>2. Kinds'
    BY <1>0 DEF Kinds
  <1>3. Threads'
    BY <1>0 DEF Counters, Kinds, Threads, PCs
  <1>4. Ids'
    BY <1>0 DEF IInv, Kinds, Threads, Ids
  <1>5. Disconnected'
    BY <1>0 DEF IInv, Counters, Kinds, Threads, Ids, Disconnected
  <1>6. \A x \in Sides : Announced(x)'
    <2>1. \A x \in Sides : pc'[x] = pc[x] \/ pc'[x] = "send"
      BY <1>0 DEF Threads
    <2> QED BY <2>1 DEF IInv, Announced
  <1>7. \A x \in Sides : Noticed(x)'
    BY <1>0 DEF IInv, Counters, Kinds, Threads, Ids, Announced, Noticed, Work, Ready, FreeSpace, Size
  <1> QED BY <1>1, <1>2, <1>3, <1>4, <1>5, <1>6, <1>7 DEF IInv

(* As send, without waiting for room.                                          *)
LEMMA TrySendStep ==
  ASSUME IInv, TrySend PROVE IInv'
  <1> USE DEF TrySend
  <1>0. Counters /\ Kinds /\ Threads
    BY DEF IInv
  <1>1. Counters' /\ Kinds' /\ Threads'
    BY <1>0 DEF Counters, Kinds, Threads, PCs
  <1>2. Ids' /\ Disconnected'
    BY <1>0 DEF IInv, Counters, Kinds, Threads, Ids, Disconnected
  <1>3. \A x \in Sides : Announced(x)'
    BY <1>0 DEF IInv, Kinds, Threads, Announced
  <1>4. \A x \in Sides : Noticed(x)'
    BY <1>0 DEF IInv, Counters, Kinds, Threads, Ids, Announced, Noticed, Work, Ready, FreeSpace, Size
  <1> QED BY <1>1, <1>2, <1>3, <1>4 DEF IInv

(* A pushed item is work for a waiting receiver, and notify follows; a         *)
(* disconnected producer pushes no more.                                       *)
LEMMA PushStep ==
  ASSUME IInv, Push PROVE IInv'
  <1> USE DEF Push
  <1>0. Counters /\ Kinds /\ Threads
    BY DEF IInv
  <1>1. Counters' /\ Kinds' /\ Threads'
    <2>1. Counters'
      BY <1>0 DEF Counters, Threads
    <2>2. Kinds' /\ Threads'
      BY <1>0, ZenonT(60) DEF Counters, Kinds, Threads, PCs
    <2> QED BY <2>1, <2>2
  <1>2. Ids' /\ Disconnected'
    BY <1>0 DEF IInv, Counters, Kinds, Threads, Ids, Disconnected
  <1>3. \A x \in Sides : Announced(x)'
    BY <1>0, ZenonT(60) DEF IInv, Kinds, Threads, Announced
  <1>4. \A x \in Sides : Noticed(x)'
    BY <1>0 DEF IInv, Counters, Kinds, Threads, Ids, Announced, Noticed, Work, Ready, FreeSpace, Size
  <1> QED BY <1>1, <1>2, <1>3, <1>4 DEF IInv

(* An item is taken, which is room for a waiting sender; notify follows.       *)
LEMMA PopKeeps ==
  ASSUME IInv, NEW p \in {"task", "again"}, Pop(p),
         task["rx"] \in {"idle", "woken"}
   PROVE IInv'
  <1> USE DEF Pop
  <1>0. Counters /\ Kinds /\ Threads
    BY DEF IInv
  <1>1. Counters'
    BY <1>0 DEF Counters
  <1>2. Kinds'
    BY <1>0 DEF Kinds
  <1>3. Threads'
    BY <1>0 DEF Counters, Kinds, Threads, PCs
  <1>4. Ids'
    BY <1>0 DEF IInv, Kinds, Threads, Ids
  <1>5. Disconnected'
    BY <1>0 DEF IInv, Counters, Kinds, Threads, Ids, Disconnected
  <1>6. \A x \in Sides : Announced(x)'
    BY <1>0 DEF IInv, Kinds, Threads, Announced
  <1>7. \A x \in Sides : Noticed(x)'
    BY <1>0 DEF IInv, Counters, Kinds, Threads, Ids, Announced, Noticed, Work, Ready, FreeSpace, Size
  <1> QED BY <1>1, <1>2, <1>3, <1>4, <1>5, <1>6, <1>7 DEF IInv

(* The first pop of recv().                                                    *)
LEMMA RecvPopStep ==
  ASSUME IInv, RecvPop PROVE IInv'
  BY PopKeeps DEF RecvPop

(* The first pop found nothing.                                                *)
LEMMA RecvEmptyStep ==
  ASSUME IInv, RecvEmpty PROVE IInv'
  <1> USE DEF RecvEmpty
  <1>0. Counters /\ Kinds /\ Threads
    BY DEF IInv
  <1>1. Counters' /\ Kinds' /\ Threads'
    BY <1>0 DEF Counters, Kinds, Threads, PCs
  <1>2. Ids' /\ Disconnected'
    BY <1>0 DEF IInv, Counters, Kinds, Threads, Ids, Disconnected
  <1>3. \A x \in Sides : Announced(x)'
    BY <1>0 DEF IInv, Kinds, Threads, Announced
  <1>4. \A x \in Sides : Noticed(x)'
    BY <1>0 DEF IInv, Counters, Kinds, Threads, Ids, Announced, Noticed, Work, Ready, FreeSpace, Size
  <1> QED BY <1>1, <1>2, <1>3, <1>4 DEF IInv

(* The producer's id, looked at between the two pops.                          *)
LEMMA RecvDisconnectedStep ==
  ASSUME IInv, RecvDisconnected PROVE IInv'
  <1>a. /\ pc["rx"] = "empty" /\ UNCHANGED <<ring, id, idSeen, sleep>>
        /\ \/ pc' = Set(pc, "rx", "again") /\ task' = task /\ idSeen["tx"] = "gone"
           \/ pc' = Set(pc, "rx", "task") /\ task' = Set(task, "rx", "waiting")
    BY DEF RecvDisconnected
  <1>0. Counters /\ Kinds /\ Threads
    BY DEF IInv
  <1>1. Counters'
    BY <1>0, <1>a DEF Counters
  <1>2. Kinds'
    BY <1>0, <1>a DEF Kinds
  <1>3. Threads'
    BY <1>0, <1>a DEF Counters, Kinds, Threads, PCs
  <1>4. Ids'
    BY <1>0, <1>a DEF IInv, Kinds, Threads, Ids
  <1>5. Disconnected'
    BY <1>0, <1>a DEF IInv, Counters, Kinds, Threads, Ids, Disconnected
  <1>6. \A x \in Sides : Announced(x)'
    <2>1. \A x \in Sides : pc'[x] = pc[x] \/ pc'[x] \in {"again", "task"}
      BY <1>0, <1>a DEF Threads
    <2> QED BY <2>1, <1>a DEF IInv, Announced
  <1>7. \A x \in Sides : Noticed(x)'
    BY <1>0, <1>a DEF IInv, Counters, Kinds, Threads, Ids, Announced, Noticed, Work, Ready, FreeSpace, Size
  <1> QED BY <1>1, <1>2, <1>3, <1>4, <1>5, <1>6, <1>7 DEF IInv

(* The second pop.  When it finds nothing, the producer is gone, all its       *)
(* pushes are seen, and so the channel is drained.                             *)
LEMMA RecvAgainStep ==
  ASSUME IInv, RecvAgain PROVE IInv'
  <1>1. CASE Pop("again")
    BY <1>1, PopKeeps DEF IInv, Threads, Pop, At
  <1>2. CASE /\ At("rx", "again") /\ flagSeen = head
             /\ Goto("rx", "task") /\ task' = Set(task, "rx", "ended")
             /\ UNCHANGED <<ring, id, idSeen, sleep>>
    <2> USE <1>2
    <2>0. Counters /\ Kinds /\ Threads
      BY DEF IInv
    <2>1. Counters'
      BY <2>0 DEF Counters
    <2>2. Kinds'
      BY <2>0 DEF Kinds
    <2>3. Threads'
      BY <2>0 DEF Counters, Kinds, Threads, PCs
    <2>4. Ids'
      BY <2>0 DEF IInv, Kinds, Threads, Ids
    <2>5. Disconnected'
      BY <2>0 DEF IInv, Counters, Kinds, Threads, Ids, Disconnected
    <2>6. \A x \in Sides : Announced(x)'
      BY <2>0 DEF IInv, Kinds, Threads, Announced
    <2>7. \A x \in Sides : Noticed(x)'
      BY <2>0 DEF IInv, Counters, Kinds, Threads, Ids, Announced, Noticed, Work, Ready, FreeSpace, Size
    <2> QED BY <2>1, <2>2, <2>3, <2>4, <2>5, <2>6, <2>7 DEF IInv
  <1> QED BY <1>1, <1>2 DEF RecvAgain

(* should_notify is set unless it was taken before, and then the eventfd was   *)
(* written: either way it is written after this step.                          *)
LEMMA NotifyStep ==
  ASSUME NEW e \in Sides, IInv, Notify(e) PROVE IInv'
  <1> USE DEF Notify
  <1>0. Counters /\ Kinds /\ Threads
    BY DEF IInv
  <1>1. Counters' /\ Kinds' /\ Threads'
    BY <1>0 DEF Counters, Kinds, Threads, PCs
  <1>2. Ids' /\ Disconnected'
    BY <1>0 DEF IInv, Counters, Kinds, Threads, Ids, Disconnected
  <1>3. \A x \in Sides : Announced(x)'
    BY <1>0 DEF IInv, Kinds, Threads, Announced
  <1>4. \A x \in Sides : Noticed(x)'
    BY <1>0 DEF IInv, Counters, Kinds, Threads, Ids, Announced, Noticed, Work, Ready, FreeSpace, Size
  <1> QED BY <1>1, <1>2, <1>3, <1>4 DEF IInv

(* What becomes visible makes a task ready, never the contrary.                *)
LEMMA SeeFlagStep ==
  ASSUME IInv, SeeFlag PROVE IInv'
  <1> USE DEF SeeFlag
  <1>0. Counters /\ Kinds /\ Threads
    BY DEF IInv
  <1>1. Counters' /\ Kinds' /\ Threads'
    <2>1. Counters'
      BY <1>0 DEF Counters, Threads
    <2>2. Kinds' /\ Threads'
      BY <1>0 DEF Counters, Kinds, Threads, PCs
    <2> QED BY <2>1, <2>2
  <1>2. Ids' /\ Disconnected'
    BY <1>0 DEF IInv, Counters, Kinds, Threads, Ids, Disconnected
  <1>3. \A x \in Sides : Announced(x)'
    BY <1>0 DEF IInv, Kinds, Threads, Announced
  <1>4. \A x \in Sides : Noticed(x)'
    BY <1>0 DEF IInv, Counters, Kinds, Threads, Ids, Announced, Noticed, Work, Ready, FreeSpace, Size
  <1> QED BY <1>1, <1>2, <1>3, <1>4 DEF IInv

(* The same for the indices.                                                   *)
LEMMA SeeIndexStep ==
  ASSUME IInv, SeeIndex PROVE IInv'
  <1> USE DEF SeeIndex
  <1>0. Counters /\ Kinds /\ Threads
    BY DEF IInv
  <1>1. Counters' /\ Kinds' /\ Threads'
    <2>1. Counters'
      BY <1>0 DEF Counters, Threads
    <2>2. Kinds' /\ Threads'
      BY <1>0 DEF Counters, Kinds, Threads, PCs
    <2> QED BY <2>1, <2>2
  <1>2. Ids' /\ Disconnected'
    BY <1>0 DEF IInv, Counters, Kinds, Threads, Ids, Disconnected
  <1>3. \A x \in Sides : Announced(x)'
    BY <1>0 DEF IInv, Kinds, Threads, Announced
  <1>4. \A x \in Sides : Noticed(x)'
    BY <1>0 DEF IInv, Counters, Kinds, Threads, Ids, Announced, Noticed, Work, Ready, FreeSpace, Size
  <1> QED BY <1>1, <1>2, <1>3, <1>4 DEF IInv

(* An id becomes visible after everything its thread stored before it.         *)
LEMMA SeeIdStep ==
  ASSUME NEW e \in Sides, IInv, SeeId(e) PROVE IInv'
  <1> USE DEF SeeId
  <1>0. Counters /\ Kinds /\ Threads
    BY DEF IInv
  <1>1. Counters' /\ Kinds' /\ Threads'
    BY <1>0 DEF Counters, Kinds, Threads, PCs
  <1>2. Ids' /\ Disconnected'
    BY <1>0 DEF IInv, Counters, Kinds, Threads, Ids, Disconnected
  <1>3. \A x \in Sides : Announced(x)'
    BY <1>0 DEF IInv, Kinds, Threads, Announced
  <1>4. \A x \in Sides : Noticed(x)'
    BY <1>0 DEF IInv, Counters, Kinds, Threads, Ids, Announced, Noticed, Work, Ready, FreeSpace, Size
  <1> QED BY <1>1, <1>2, <1>3, <1>4 DEF IInv

(* A store of should_notify becomes visible.                                   *)
LEMMA SeeShouldNotifyStep ==
  ASSUME NEW e \in Sides, IInv, SeeShouldNotify(e) PROVE IInv'
  <1> USE DEF SeeShouldNotify
  <1>0. Counters /\ Kinds /\ Threads
    BY DEF IInv
  <1>1. Counters'
    BY <1>0 DEF Counters
  <1>2. Kinds'
    <2>1. flag' \in [Sides -> BOOLEAN]
      <3>1. (TRUE \in flagStored[e]) \in BOOLEAN
        BY SMT
      <3>2. flag' = [flag EXCEPT ![e] = TRUE \in flagStored[e]] /\ flag \in [Sides -> BOOLEAN]
        BY <1>0 DEF Kinds
      <3> QED BY ONLY <3>1, <3>2, Zenon
    <2>2. flagStored' \in [Sides -> {{}, {TRUE}, {FALSE}}]
      BY <1>0, Zenon DEF Kinds
    <2> QED BY <1>0, <2>1, <2>2 DEF Kinds
  <1>3. Threads'
    BY <1>0 DEF Counters, Kinds, Threads, PCs
  <1>4. Ids'
    BY <1>0 DEF IInv, Kinds, Threads, Ids
  <1>5. Disconnected'
    BY <1>0 DEF IInv, Counters, Kinds, Threads, Ids, Disconnected
  <1>6. \A x \in Sides : Announced(x)'
    BY <1>0 DEF IInv, Kinds, Threads, Announced
  <1>7. \A x \in Sides : Noticed(x)'
    BY <1>0 DEF IInv, Counters, Kinds, Threads, Ids, Announced, Noticed, Work, Ready, FreeSpace, Size
  <1> QED BY <1>1, <1>2, <1>3, <1>4, <1>5, <1>6, <1>7 DEF IInv

(* The executor looks at the channels for the first time, with a read of its   *)
(* eventfd installed.                                                          *)
LEMMA ReactStep ==
  ASSUME NEW e \in Sides, IInv, React(e) PROVE IInv'
  <1> USE DEF React, ProcessChannels
  <1>0. Counters /\ Kinds /\ Threads
    BY DEF IInv
  <1>1. Counters' /\ Kinds' /\ Threads'
    BY <1>0 DEF Counters, Kinds, Threads, PCs
  <1>2. Ids' /\ Disconnected'
    BY <1>0 DEF IInv, Counters, Kinds, Threads, Ids, Disconnected
  <1>3. \A x \in Sides : Announced(x)'
    BY <1>0 DEF IInv, Kinds, Threads, Announced
  <1>4. \A x \in Sides : Noticed(x)'
    BY <1>0 DEF IInv, Counters, Kinds, Threads, Ids, Announced, Noticed, Work, Ready, FreeSpace, Size
  <1> QED BY <1>1, <1>2, <1>3, <1>4 DEF IInv

(* The completed reads are reaped before should_notify is stored.              *)
LEMMA PrepareToSleepStep ==
  ASSUME NEW e \in Sides, IInv, PrepareToSleep(e) PROVE IInv'
  <1> USE DEF PrepareToSleep, ReapEventfd
  <1>0. Counters /\ Kinds /\ Threads
    BY DEF IInv
  <1>1. Counters' /\ Kinds' /\ Threads'
    BY <1>0 DEF Counters, Kinds, Threads, PCs
  <1>2. Ids' /\ Disconnected'
    BY <1>0 DEF IInv, Counters, Kinds, Threads, Ids, Disconnected
  <1>3. \A x \in Sides : Announced(x)'
    BY <1>0 DEF IInv, Kinds, Threads, Announced
  <1>4. \A x \in Sides : Noticed(x)'
    BY <1>0 DEF IInv, Counters, Kinds, Threads, Ids, Announced, Noticed, Work, Ready, FreeSpace, Size
  <1> QED BY <1>1, <1>2, <1>3, <1>4 DEF IInv

(* After the barrier everything stored is seen, so that work there is now is   *)
(* seen by Recheck.                                                            *)
LEMMA MemBarrierStep ==
  ASSUME NEW e \in Sides, IInv, MemBarrier(e) PROVE IInv'
  <1> USE DEF MemBarrier
  <1>0. Counters /\ Kinds /\ Threads
    BY DEF IInv
  <1>1. Counters'
    BY <1>0 DEF Counters
  <1>2. Kinds'
    <2>1. flag' \in [Sides -> BOOLEAN]
      <3>1. \A x \in Sides : (TRUE \in flagStored[x]) \in BOOLEAN /\ flag[x] \in BOOLEAN
        BY <1>0, SMT DEF Kinds
      <3>2. flag' = [x \in Sides |-> IF flagStored[x] = {} THEN flag[x] ELSE TRUE \in flagStored[x]]
        BY DEF MemBarrier
      <3> QED BY ONLY <3>1, <3>2, Zenon
    <2>2. flagStored' \in [Sides -> {{}, {TRUE}, {FALSE}}]
      BY <1>0, Zenon DEF Kinds
    <2> QED BY <1>0, <2>1, <2>2 DEF Kinds
  <1>3. Threads'
    BY <1>0 DEF Counters, Kinds, Threads, PCs
  <1>4. Ids'
    BY <1>0 DEF IInv, Kinds, Threads, Ids
  <1>5. Disconnected'
    BY <1>0 DEF IInv, Counters, Kinds, Threads, Ids, Disconnected
  <1>6. \A x \in Sides : Announced(x)'
    BY <1>0 DEF IInv, Kinds, Threads, Announced
  <1>7. \A x \in Sides : Noticed(x)'
    BY <1>0 DEF IInv, Counters, Kinds, Threads, Ids, Announced, Noticed, Work, Ready, FreeSpace, Size
  <1> QED BY <1>1, <1>2, <1>3, <1>4, <1>5, <1>6, <1>7 DEF IInv

(* The last look: an executor that goes to sleep was not ready for anything,   *)
(* so the work it has was made after the barrier.                              *)
LEMMA RecheckStep ==
  ASSUME NEW e \in Sides, IInv, Recheck(e) PROVE IInv'
  <1> USE DEF Recheck, ProcessChannels
  <1>0. Counters /\ Kinds /\ Threads
    BY DEF IInv
  <1>1. Counters' /\ Kinds' /\ Threads'
    BY <1>0 DEF Counters, Kinds, Threads, PCs
  <1>2. Ids' /\ Disconnected'
    BY <1>0 DEF IInv, Counters, Kinds, Threads, Ids, Disconnected
  <1>3. \A x \in Sides : Announced(x)'
    BY <1>0 DEF IInv, Kinds, Threads, Announced
  <1>4. \A x \in Sides : Noticed(x)'
    BY <1>0 DEF IInv, Counters, Kinds, Threads, Ids, Announced, Noticed, Work, Ready, FreeSpace, Size
  <1> QED BY <1>1, <1>2, <1>3, <1>4 DEF IInv

(* The eventfd ends the sleep.                                                 *)
LEMMA AwakeStep ==
  ASSUME NEW e \in Sides, IInv, Awake(e) PROVE IInv'
  <1> USE DEF Awake, ReapEventfd
  <1>0. Counters /\ Kinds /\ Threads
    BY DEF IInv
  <1>1. Counters' /\ Kinds' /\ Threads'
    BY <1>0 DEF Counters, Kinds, Threads, PCs
  <1>2. Ids' /\ Disconnected'
    BY <1>0 DEF IInv, Counters, Kinds, Threads, Ids, Disconnected
  <1>3. \A x \in Sides : Announced(x)'
    BY <1>0 DEF IInv, Kinds, Threads, Announced
  <1>4. \A x \in Sides : Noticed(x)'
    BY <1>0 DEF IInv, Counters, Kinds, Threads, Ids, Announced, Noticed, Work, Ready, FreeSpace, Size
  <1> QED BY <1>1, <1>2, <1>3, <1>4 DEF IInv

(* So does any other completion.                                               *)
LEMMA AwakeByOtherStep ==
  ASSUME NEW e \in Sides, IInv, AwakeByOther(e) PROVE IInv'
  <1> USE DEF AwakeByOther
  <1>0. Counters /\ Kinds /\ Threads
    BY DEF IInv
  <1>1. Counters' /\ Kinds' /\ Threads'
    BY <1>0 DEF Counters, Kinds, Threads, PCs
  <1>2. Ids' /\ Disconnected'
    BY <1>0 DEF IInv, Counters, Kinds, Threads, Ids, Disconnected
  <1>3. \A x \in Sides : Announced(x)'
    BY <1>0 DEF IInv, Kinds, Threads, Announced
  <1>4. \A x \in Sides : Noticed(x)'
    BY <1>0 DEF IInv, Counters, Kinds, Threads, Ids, Announced, Noticed, Work, Ready, FreeSpace, Size
  <1> QED BY <1>1, <1>2, <1>3, <1>4 DEF IInv

(* should_notify is reset by a store that is visible later.                    *)
LEMMA WakeUpStep ==
  ASSUME NEW e \in Sides, IInv, WakeUp(e) PROVE IInv'
  <1> USE DEF WakeUp, ProcessChannels
  <1>0. Counters /\ Kinds /\ Threads
    BY DEF IInv
  <1>1. Counters' /\ Kinds' /\ Threads'
    BY <1>0 DEF Counters, Kinds, Threads, PCs
  <1>2. Ids' /\ Disconnected'
    BY <1>0 DEF IInv, Counters, Kinds, Threads, Ids, Disconnected
  <1>3. \A x \in Sides : Announced(x)'
    BY <1>0 DEF IInv, Kinds, Threads, Announced
  <1>4. \A x \in Sides : Noticed(x)'
    BY <1>0 DEF IInv, Counters, Kinds, Threads, Ids, Announced, Noticed, Work, Ready, FreeSpace, Size
  <1> QED BY <1>1, <1>2, <1>3, <1>4 DEF IInv

----------------------------------------------------------------------------------
(* The theorems.                                                               *)

LEMMA NextKeeps == IInv /\ [Next]_vars => IInv'
  <1> SUFFICES ASSUME IInv, [Next]_vars PROVE IInv'
    OBVIOUS
  <1>1. CASE See
    BY <1>1, SeeFlagStep, SeeIndexStep, SeeIdStep, SeeShouldNotifyStep DEF See
  <1>2. ASSUME NEW e \in Sides, Loop(e) PROVE IInv'
    BY <1>2, ReactStep, PrepareToSleepStep, MemBarrierStep, RecheckStep, AwakeStep, WakeUpStep,
       NotifyStep, ConnectorPollStep, PushStep, WaitForRoomStep, RecvDisconnectedStep,
       RecvAgainStep, RecvPopStep, RecvEmptyStep DEF Loop
  <1>3. ASSUME NEW e \in Sides, Program(e) PROVE IInv'
    BY <1>3, ConnectStep, CancelConnectStep, DropEndStep, AwakeByOtherStep, CloseStep,
       TrySendStep, WaitForRoomStep, RecvPopStep, RecvEmptyStep DEF Program
  <1>4. CASE UNCHANGED vars
    BY <1>4, ZenonT(60) DEF vars, ring, sleep, IInv, Counters, Kinds, Threads, Ids, Disconnected,
       Announced, Noticed, Work, Ready, FreeSpace, Size, At
  <1> QED BY <1>1, <1>2, <1>3, <1>4 DEF Next

(* The inductive invariant holds.                                              *)
LEMMA Invariance == Spec => []IInv
  BY InitIInv, NextKeeps, PTL DEF Spec

(* Type correctness: what a side sees of the other is never ahead of what was  *)
(* stored, and no item is popped that was not pushed.                          *)
THEOREM TypeCorrect == Spec => []TypeOK
  <1>1. ASSUME IInv PROVE TypeOK
    <2>1. /\ tail \in 0 .. MaxItems /\ head \in 0 .. tail
          /\ {flagSeen, tailSeen} \subseteq 0 .. tail /\ {clearSeen, headSeen} \subseteq 0 .. head
      BY <1>1, MaxItemsAssumption DEF IInv, Counters
    <2>2. pc["tx"] \in PCs \ {"empty", "again"} /\ pc["rx"] \in PCs \ {"send", "try_send", "panic"}
      BY <1>1 DEF IInv, Threads, Sides
    <2>3. Kinds
      BY <1>1 DEF IInv
    <2> QED BY ONLY <2>1, <2>2, <2>3 DEF TypeOK, Kinds, PCs
  <1> QED BY <1>1, Invariance, PTL

(* No wake-up is lost: an executor that went to sleep next to work has its     *)
(* eventfd written, or the peer that made the work is about to notify it       *)
(* (prepare_to_sleep, membarrier::heavy, SleepNotifier::notify).               *)
THEOREM NoLostWakeUp == Spec => []NoSleepOnWork
  <1>1. IInv => NoSleepOnWork
    BY DEF IInv, Announced, Noticed, NoSleepOnWork
  <1> QED BY <1>1, Invariance, PTL

(* do_recv_one returns None only when everything sent has been received.       *)
THEOREM NoneIsFinal == Spec => []NoneMeansDrained
  <1>1. IInv => NoneMeansDrained
    BY DEF IInv, Disconnected, NoneMeansDrained
  <1> QED BY <1>1, Invariance, PTL

==================================================================================
