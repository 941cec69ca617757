----------------------------- MODULE MCDetection -----------------------------
(***************************************************************************)
(* Detection for TLC: a namespace of 40 blocks, two of which are addressed *)
(* alone or together, so that coverage saturates with both written.        *)
(***************************************************************************)
EXTENDS Detection

MCBlocks == {0, 1}

MCExtents == {{0}, {0, 1}}

MCContents == {"zero", "text", "cipher"}

MCEntropy == [zero |-> 0, text |-> 4, cipher |-> 8]
=============================================================================
