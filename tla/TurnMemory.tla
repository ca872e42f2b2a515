----------------------------- MODULE TurnMemory -----------------------------
(***************************************************************************)
(* What the turn loop promises its host (README.md of the repository,      *)
(* "Recovery is a pop"): a memory that absorbs whole turns, keeps them     *)
(* over every crash, and answers Ok for turns it has absorbed only.        *)
(***************************************************************************)
CONSTANTS Turns, Bits, Channels, Sketch

VARIABLES
    remembered,  \* remembered[c]: the durable bits of channel c
    answered     \* the turns answered with Ok

Init ==
    /\ remembered = [c \in Channels |-> {}]
    /\ answered = {}

\* A turn is absorbed whole; the answer may get lost.
Absorb(t) ==
    /\ remembered' = [c \in Channels |-> remembered[c] \union Sketch[t][c]]
    /\ answered' \in {answered, answered \union {t}}

\* A turn that brings nothing is answered at once.
Answer(t) ==
    /\ \A c \in Channels : Sketch[t][c] \subseteq remembered[c]
    /\ answered' = answered \union {t}
    /\ UNCHANGED remembered

Next == \E t \in Turns : Absorb(t) \/ Answer(t)

Spec == Init /\ [][Next]_<<remembered, answered>>
=============================================================================
