--------------------------- MODULE MCStateMachine ---------------------------
(* Instances of StateMachine for TLC.                                      *)
EXTENDS StateMachine

\* Two channels over three positions.  The G1 of the turns are {0}, {1},
\* {0, 1} and {0, 1, 2}: singles, their sum, and a set that covers them.
\* Turns d and e have one G1 and differ in the other channel.
MCBits     == 0..2
MCChannels == 1..2
MCTurns    == {"a", "b", "c", "d", "e"}
MCSketch   ==
    [a |-> <<{0}, {2}>>, b |-> <<{1}, {2}>>, c |-> <<{0, 1}, {2}>>,
     d |-> <<{0, 1, 2}, {0}>>, e |-> <<{0, 1, 2}, {1}>>]
=============================================================================
