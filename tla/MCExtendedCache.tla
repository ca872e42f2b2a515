-------------------------- MODULE MCExtendedCache ---------------------------
(* An instance of ExtendedCache for TLC: two tokens that share their bit     *)
(* under the first seed and not under the second.                            *)
EXTENDS ExtendedCache

MCTokens == {1, 2}
MCSeeds == {1, 2}
MCPos(s, t) == IF s = 1 THEN 1 ELSE t
=============================================================================
