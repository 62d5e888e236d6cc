---------------------------------- MODULE FileHandles ----------------------------------
(* The descriptors of files and who has them: GlommioFile in a DmaFile, an             *)
(* ImmutableFile or a BufferedFile, its clones, duplicates, Rc's, the Owned form that  *)
(* goes to another thread and the Weak one.  A descriptor is an Arc that closes it     *)
(* when the last handle goes: by an entry on the ring, at once for an Owned one, or by *)
(* close().  The kernel gives free numbers to whoever opens next, and an operation     *)
(* that is queued has only the number.  What is read and written is in the stream      *)
(* modules, the lock in FileLock.                                                      *)
EXTENDS Naturals, FiniteSets, FiniteSetsExt

CONSTANTS
  Handles,        \* the handles that there are at a time
  MaxFds,         \* bound on the descriptors that are made; they are numbered in that order
  None

VARIABLES
  form,           \* of a handle: "none", "opening", "given up", "file", "owned",
                  \* "discarding" (without its lock state), "unwinding"
  fdOf,           \* the descriptor of a handle, or None
  rcs,            \* the Rc's of a file
  fdNumber,       \* the number that a descriptor got, None before it is made
  fdTable,        \* the kernel's: the descriptor behind a number
  duplicates,     \* the descriptor that a descriptor is a duplicate of: they share lock_state
  weak,           \* descriptors for which there is a WeakGlommioFile
  closes,         \* descriptors whose close is queued, by "close" or by "drop"
  ops,            \* operations that are queued: handle, descriptor, where
  op,             \* whether the future of an operation is there: "none", "ring", "pool"
  leaked,         \* descriptors left open because a future was dropped
  strayed         \* an operation reached another file than the one it was made for

kernel == <<fdNumber, fdTable, strayed>>
handles == <<form, fdOf, rcs>>
fileVars == <<handles, kernel, duplicates, weak, closes, ops, op, leaked>>

Fds == 1 .. MaxFds
Numbers == Fds
Strong == {"file", "owned", "discarding", "unwinding"}

Init ==
  /\ form = [h \in Handles |-> "none"] /\ fdOf = [h \in Handles |-> None]
  /\ rcs = [h \in Handles |-> 0]
  /\ fdNumber = [d \in Fds |-> None] /\ fdTable = [n \in Numbers |-> None] /\ strayed = FALSE
  /\ duplicates = [d \in Fds |-> d] /\ weak = {} /\ closes = {} /\ ops = {}
  /\ op = [h \in Handles |-> "none"] /\ leaked = {}

(* Arc::strong_count, and Arc::into_inner, which gives the descriptor to the last.     *)
StrongOf(d) == {h \in Handles : form[h] \in Strong /\ fdOf[h] = d}
\* Fault seeded in IsLast: every handle that goes closes the descriptor.
IsLast_always(h) == TRUE
IsLast(h) == StrongOf(fdOf[h]) = {h}
IsNext(d) == fdNumber[d] = None /\ \A e \in 1 .. d - 1 : fdNumber[e] # None
(* A handle that nobody borrows.                                                       *)
Idle(h, f) == form[h] = f /\ op[h] = "none" /\ rcs[h] <= 1
Unused(h) == form[h] = "none"

FreeNumber == Min({n \in Numbers : fdTable[n] = None})
Numbered(d) ==
  /\ IsNext(d)
  /\ fdNumber' = [fdNumber EXCEPT ![d] = FreeNumber]
  /\ fdTable' = [fdTable EXCEPT ![FreeNumber] = d]

Becomes(h, f, d, n) ==
  /\ form' = [form EXCEPT ![h] = f] /\ fdOf' = [fdOf EXCEPT ![h] = d]
  /\ rcs' = [rcs EXCEPT ![h] = n]

----------------------------------------------------------------------------------------
(* Opening: the kernel has opened the file before the future that waits for it knows.  *)

OpenAt(h) ==
  /\ Unused(h) /\ Becomes(h, "opening", None, 0)
  /\ UNCHANGED <<kernel, duplicates, weak, closes, ops, op, leaked>>

DmaOpen(h) == OpenAt(h)
BufferedOpen(h) == OpenAt(h)
BuildSink(h) == OpenAt(h)
BuildExisting(h) == OpenAt(h)

KernelOpens(h, d) ==
  /\ form[h] = "opening" /\ fdOf[h] = None /\ Numbered(d)
  /\ fdOf' = [fdOf EXCEPT ![h] = d]
  /\ UNCHANGED <<form, rcs, strayed, duplicates, weak, closes, ops, op, leaked>>

(* The file is there, and asks the kernel for its identity.                            *)
OpenReady(h) ==
  /\ form[h] = "opening" /\ fdOf[h] # None /\ Becomes(h, "file", fdOf[h], 1)
  /\ UNCHANGED <<kernel, duplicates, weak, closes, ops, op, leaked>>

(* The open fails, or was cancelled.                                                   *)
OpenFails(h) ==
  /\ form[h] \in {"opening", "given up"} /\ fdOf[h] = None /\ Becomes(h, "none", None, 0)
  /\ UNCHANGED <<kernel, duplicates, weak, closes, ops, op, leaked>>

(* The future is dropped.  What the kernel has opened, or opens before the cancel      *)
(* reaches it, nobody closes.                                                          *)
GiveUpOpen(h) ==
  /\ form[h] = "opening"
  /\ Becomes(h, IF fdOf[h] = None THEN "given up" ELSE "none", None, 0)
  /\ leaked' = leaked \cup ({fdOf[h]} \ {None})
  /\ UNCHANGED <<kernel, duplicates, weak, closes, ops, op>>

KernelOpensAnyway(h, d) ==
  /\ form[h] = "given up" /\ Numbered(d) /\ Becomes(h, "none", None, 0)
  /\ leaked' = leaked \cup {d}
  /\ UNCHANGED <<strayed, duplicates, weak, closes, ops, op>>

----------------------------------------------------------------------------------------
(* More handles.                                                                       *)

(* DmaFile::clone and OwnedDmaFile::clone.                                             *)
CloneOf(h, g, f) ==
  /\ form[h] = f /\ Unused(g)
  /\ Becomes(g, f, fdOf[h], 1)
  /\ UNCHANGED <<kernel, duplicates, weak, closes, ops, op, leaked>>
Clone(h, g) == CloneOf(h, g, "file")
CloneOwned(h, g) == CloneOf(h, g, "owned")

(* dup, of both forms: a descriptor of its own and the lock state of the old one.      *)
DupOf(h, g, d, f) ==
  /\ form[h] = f /\ Unused(g) /\ Numbered(d)
  /\ Becomes(g, f, d, 1)
  /\ duplicates' = [duplicates EXCEPT ![d] = duplicates[fdOf[h]]]
  /\ UNCHANGED <<strayed, weak, closes, ops, op, leaked>>
Dup(h, g, d) == DupOf(h, g, d, "file")
DupOwned(h, g, d) == DupOf(h, g, d, "owned")

(* Streams, readers and ImmutableFile hold a DmaFile by an Rc.                         *)
CloneRc(h) ==
  /\ form[h] = "file" /\ rcs[h] = 1 /\ rcs' = [rcs EXCEPT ![h] = 2]
  /\ UNCHANGED <<form, fdOf, kernel, duplicates, weak, closes, ops, op, leaked>>

(* close_rc answers Unreferenced, or the Rc is dropped.                                *)
CloseRcUnreferenced(h) ==
  /\ rcs[h] > 1 /\ rcs' = [rcs EXCEPT ![h] = @ - 1]
  /\ UNCHANGED <<form, fdOf, kernel, duplicates, weak, closes, ops, op, leaked>>

(* OwnedDmaFile::from, and back on whatever executor it is then.                       *)
IntoOwned(h) ==
  /\ Idle(h, "file") /\ Becomes(h, "owned", fdOf[h], 1)
  /\ UNCHANGED <<kernel, duplicates, weak, closes, ops, op, leaked>>

IntoFile(h) ==
  /\ Idle(h, "owned") /\ Becomes(h, "file", fdOf[h], 1)
  /\ UNCHANGED <<kernel, duplicates, weak, closes, ops, op, leaked>>

DowngradeOf(h, f) ==
  /\ form[h] = f /\ weak' = weak \cup {fdOf[h]}
  /\ UNCHANGED <<handles, kernel, duplicates, closes, ops, op, leaked>>
Downgrade(h) == DowngradeOf(h, "file")
DowngradeOwned(h) == DowngradeOf(h, "owned")

(* The lock state goes with the last handle, of any duplicate, that was not discarded. *)
LockIsThere(d) ==
  \E h \in Handles : /\ form[h] \in {"file", "owned"}
                     /\ duplicates[fdOf[h]] = duplicates[d]

Upgrade(d, g) ==
  /\ d \in weak /\ StrongOf(d) # {} /\ LockIsThere(d) /\ Unused(g)
  /\ Becomes(g, "owned", d, 1)
  /\ UNCHANGED <<kernel, duplicates, weak, closes, ops, op, leaked>>

(* upgrade meets a handle that is being discarded: the lock state is gone, and its     *)
(* expect fails with the Arc of the descriptor in hand.                                *)
UpgradePanics(d, g) ==
  /\ d \in weak /\ StrongOf(d) # {} /\ ~LockIsThere(d) /\ Unused(g)
  /\ Becomes(g, "unwinding", d, 0)
  /\ UNCHANGED <<kernel, duplicates, weak, closes, ops, op, leaked>>

----------------------------------------------------------------------------------------
(* Fewer handles.                                                                      *)

CloseNow(d) == fdTable' = [fdTable EXCEPT ![fdNumber[d]] = None]
CloseLater(d, by) == closes' = closes \cup {<<d, by>>}

(* GlommioFile::drop: async_close, whose entry has no source and is not cancelled.     *)
DropFile(h) ==
  /\ Idle(h, "file") /\ Becomes(h, "none", None, 0)
  /\ IF IsLast(h) THEN CloseLater(fdOf[h], "drop") ELSE UNCHANGED closes
  /\ UNCHANGED <<kernel, duplicates, weak, ops, op, leaked>>

(* OwnedGlommioFile::drop.                                                             *)
DropOwned(h) ==
  /\ Idle(h, "owned") /\ Becomes(h, "none", None, 0)
  /\ IF IsLast(h) THEN CloseNow(fdOf[h]) ELSE UNCHANGED fdTable
  /\ UNCHANGED <<fdNumber, strayed, duplicates, weak, closes, ops, op, leaked>>

(* close, of any kind of file, up to its await: discard gives the lock state up and    *)
(* then the descriptor, and only the last handle can close it.                         *)
Discard(h) ==
  /\ Idle(h, "file") /\ Becomes(h, "discarding", fdOf[h], 1)
  /\ UNCHANGED <<kernel, duplicates, weak, closes, ops, op, leaked>>

CloseFile(h) == Discard(h)
CloseBuffered(h) == Discard(h)
CloseImmutable(h) == Discard(h)

CloseLast(h) ==
  /\ form[h] = "discarding" /\ IsLast(h)
  /\ Becomes(h, "none", None, 0) /\ CloseLater(fdOf[h], "close")
  /\ UNCHANGED <<kernel, duplicates, weak, ops, op, leaked>>

CanNotBeClosed(h) ==
  /\ form[h] = "discarding" /\ ~IsLast(h)
  /\ Becomes(h, "none", None, 0)
  /\ UNCHANGED <<kernel, duplicates, weak, closes, ops, op, leaked>>

(* The Arc of an upgrade that panicked is dropped, and with the last one the OwnedFd.  *)
Unwind(h) ==
  /\ form[h] = "unwinding" /\ Becomes(h, "none", None, 0)
  /\ IF IsLast(h) THEN CloseNow(fdOf[h]) ELSE UNCHANGED fdTable
  /\ UNCHANGED <<fdNumber, strayed, duplicates, weak, closes, ops, op, leaked>>

(* The ring closes what the number stands for.                                         *)
RunClose(d, by) ==
  /\ <<d, by>> \in closes /\ closes' = closes \ {<<d, by>>} /\ CloseNow(d)
  /\ strayed' = (strayed \/ fdTable[fdNumber[d]] # d)
  /\ UNCHANGED <<handles, fdNumber, duplicates, weak, ops, op, leaked>>

(* The future of close is dropped before its entry is submitted, and the entry is not  *)
(* submitted any more.                                                                 *)
DropClose(d) ==
  /\ <<d, "close">> \in closes /\ closes' = closes \ {<<d, "close">>}
  /\ leaked' = leaked \cup {d}
  /\ UNCHANGED <<handles, kernel, duplicates, weak, ops, op>>

----------------------------------------------------------------------------------------
(* Operations go to a ring, or to the thread pool.  Their futures borrow the file.     *)

StartOp(h, where) ==
  /\ form[h] = "file" /\ op[h] = "none"
  /\ op' = [op EXCEPT ![h] = where] /\ ops' = ops \cup {<<h, fdOf[h], where>>}
  /\ UNCHANGED <<handles, kernel, duplicates, weak, closes, leaked>>

WriteAt(h) == StartOp(h, "ring")
ReadAt(h) == StartOp(h, "ring")
BufferedReadWriteAt(h) == StartOp(h, "ring")
Fallocate(h) == StartOp(h, "ring")
Fdatasync(h) == StartOp(h, "ring")
StatX(h) == StartOp(h, "ring")
Truncate(h) == StartOp(h, "pool")
CopyFileRange(h) == StartOp(h, "pool")

(* The operation is started, on the file behind its number.                            *)
RunOp(h, d, where) ==
  /\ <<h, d, where>> \in ops /\ ops' = ops \ {<<h, d, where>>}
  /\ strayed' = (strayed \/ (where # "abandoned" /\ fdTable[fdNumber[d]] # d))
  /\ UNCHANGED <<handles, fdNumber, fdTable, duplicates, weak, closes, op, leaked>>

OpEnds(h) ==
  /\ op[h] # "none" /\ <<h, fdOf[h], op[h]>> \notin ops
  /\ op' = [op EXCEPT ![h] = "none"]
  /\ UNCHANGED <<handles, kernel, duplicates, weak, closes, ops, leaked>>

\* Fault seeded in DropOp: an entry for the ring stays queued.
DropOp_queued(h) ==
  /\ op[h] # "none" /\ <<h, fdOf[h], op[h]>> \in ops
  /\ op' = [op EXCEPT ![h] = "none"]
  /\ UNCHANGED <<handles, kernel, duplicates, weak, closes, ops, leaked>>

(* The future is dropped: an entry for the ring is not submitted, a request of the     *)
(* thread pool is carried out all the same.                                            *)
DropOp(h) ==
  /\ op[h] # "none" /\ <<h, fdOf[h], op[h]>> \in ops
  /\ op' = [op EXCEPT ![h] = "none"]
  /\ ops' = (ops \ {<<h, fdOf[h], op[h]>>})
              \cup (IF op[h] = "pool" THEN {<<h, fdOf[h], "abandoned">>} ELSE {})
  /\ UNCHANGED <<handles, kernel, duplicates, weak, closes, leaked>>

Opens(h) ==
  \/ DmaOpen(h) \/ BufferedOpen(h) \/ BuildSink(h) \/ BuildExisting(h)
  \/ OpenReady(h) \/ OpenFails(h) \/ GiveUpOpen(h)
  \/ \E d \in Fds : KernelOpens(h, d) \/ KernelOpensAnyway(h, d)

Multiplies(h) ==
  \/ \E g \in Handles :
       \/ Clone(h, g) \/ CloneOwned(h, g)
       \/ \E d \in Fds : Dup(h, g, d) \/ DupOwned(h, g, d)
  \/ CloneRc(h) \/ CloseRcUnreferenced(h) \/ IntoOwned(h) \/ IntoFile(h)
  \/ Downgrade(h) \/ DowngradeOwned(h)

Goes(h) ==
  \/ DropFile(h) \/ DropOwned(h) \/ Unwind(h)
  \/ CloseFile(h) \/ CloseBuffered(h) \/ CloseImmutable(h)
  \/ CloseLast(h) \/ CanNotBeClosed(h)

Operates(h) ==
  \/ WriteAt(h) \/ ReadAt(h) \/ BufferedReadWriteAt(h) \/ Fallocate(h) \/ Fdatasync(h)
  \/ StatX(h) \/ Truncate(h) \/ CopyFileRange(h)
  \/ OpEnds(h) \/ DropOp(h)
  \/ \E d \in Fds, w \in {"ring", "pool", "abandoned"} : RunOp(h, d, w)

Next ==
  \/ \E h \in Handles : Opens(h) \/ Multiplies(h) \/ Goes(h) \/ Operates(h)
  \/ \E d \in Fds :
       \/ \E by \in {"close", "drop"} : RunClose(d, by)
       \/ DropClose(d)
       \/ \E g \in Handles : Upgrade(d, g) \/ UpgradePanics(d, g)

Spec == Init /\ [][Next]_fileVars

----------------------------------------------------------------------------------------
Closing(d) == \E by \in {"close", "drop"} : <<d, by>> \in closes

(* A handle, in whatever form and however many there are, has its file open: no clone, *)
(* duplicate, weak handle or close in any order closes it under another.  When the     *)
(* last one is gone the file is closed or a close is queued, unless a future was       *)
(* dropped that opened or closed it.                                                   *)
OpenWhileHeld ==
  \A d \in Fds : fdNumber[d] # None =>
    IF StrongOf(d) # {} THEN fdTable[fdNumber[d]] = d /\ ~Closing(d)
    ELSE fdTable[fdNumber[d]] = d =>
           \/ Closing(d) \/ d \in leaked
           \/ \E h \in Handles : form[h] = "opening" /\ fdOf[h] = d

(* Every operation and every close reaches the file it was made for, although numbers  *)
(* are used again; the exception is a request of the thread pool whose future was      *)
(* dropped.                                                                            *)
OwnFileOnly == ~strayed

FilesOwned == OpenWhileHeld /\ OwnFileOnly
========================================================================================
