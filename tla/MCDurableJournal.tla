--------------------------- MODULE MCDurableJournal ---------------------------
(* Two blocks; single-block writes to each and a write that covers both.   *)
EXTENDS DurableJournal

CONSTANTS a, b, zero

MCValues == {a, b, zero}

MCWrites == {[block |-> 0, data |-> <<a>>], [block |-> 1, data |-> <<b>>],
             [block |-> 0, data |-> <<b, a>>]}

MCTwoWrites == {[block |-> 0, data |-> <<a>>], [block |-> 0, data |-> <<b, a>>]}

MCSingleWrites == {[block |-> 0, data |-> <<a>>], [block |-> 1, data |-> <<b>>]}
=============================================================================
