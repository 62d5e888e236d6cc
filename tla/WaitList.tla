--------------------------------- MODULE WaitList ---------------------------------
(* The intrusive lists of waiters of sync/ and of the local channel, as         *)
(* sequences.  Removal is a recursive function, which can be proved about.      *)
EXTENDS Integers, Sequences

Members(ws) == {ws[i] : i \in 1 .. Len(ws)}

(* What is left of the first i waiters of ws once those in gone are unlinked.   *)
Kept(ws, gone) ==
  LET kept[i \in 0 .. Len(ws)] ==
        IF i = 0 THEN <<>>
        ELSE IF ws[i] \in gone THEN kept[i - 1] ELSE Append(kept[i - 1], ws[i])
  IN  kept

(* The list without the waiters in gone.                                        *)
Without(ws, gone) == Kept(ws, gone)[Len(ws)]
==================================================================================
