------------------------------ MODULE BlockStore ------------------------------
(***************************************************************************)
(* What the journal promises of its current image, whatever it keeps on    *)
(* disk: a write becomes visible and durable in one step, a write that the *)
(* process did not live to acknowledge is in the image as a whole or not   *)
(* at all, and nothing else (restart, compaction, recovery of a torn tail) *)
(* changes the image.                                                      *)
(***************************************************************************)
EXTENDS Integers, Sequences

CONSTANTS Blocks, Values, Zero, Writes, None

VARIABLES image, pending

vars == <<image, pending>>

\* The image after a write.
After(w) ==
    [b \in 0..Blocks - 1 |-> IF w.block <= b /\ b < w.block + Len(w.data)
                             THEN w.data[b - w.block + 1] ELSE image[b]]

Init == image = [b \in 0..Blocks - 1 |-> Zero] /\ pending = None

Submit ==
    /\ pending = None
    /\ pending' \in Writes
    /\ UNCHANGED image

Commit ==
    /\ pending # None
    /\ image' = After(pending)
    /\ pending' = None

\* The process stopped first and the write was not made.
Abandon ==
    /\ pending # None
    /\ pending' = None
    /\ UNCHANGED image

Next == Submit \/ Commit \/ Abandon

Spec == Init /\ [][Next]_vars
=============================================================================
