---------------------------- MODULE MCRepository ----------------------------
(* Instances of Repository for TLC: two bit positions, two channels, and   *)
(* passes that share one of their blobs.                                   *)
EXTENDS Repository

CONSTANTS b1, b2

MCBits == {b1, b2}

\* The first pass repeats one blob in both channels; the second shares that
\* blob and brings a new bit in one channel only.
MCPasses == {<<{b1}, {b1}>>, <<{b1}, {b1, b2}>>}
=============================================================================
