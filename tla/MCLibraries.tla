---------------------------- MODULE MCLibraries -----------------------------
(* An instance of Libraries for TLC.                                         *)
EXTENDS Libraries

-----------------------------------------------------------------------------
(* The ring: nine sets over four positions, dependent in many ways; every    *)
(* set of the four positions is looked up.                                   *)

MCOriginals == {{}, {0}, {0, 1}, {1, 2}, {0, 2}, {2, 3}, {1, 3}, {0, 3}, 0..3}
MCProbes    == SUBSET (0..3)

-----------------------------------------------------------------------------
(* Frames: four tokens under three seeds on six bits.  Token 3 collides with *)
(* token 1 under seed 0, token 4 with the pad; larger windows are exact.     *)

MCTokens == 1..4
MCPad == 5
MCBits == 0..5

MCPos(h, s, w) ==
    IF Len(w) > 3 THEN <<s, w>>
    ELSE IF Len(w) > 1 THEN FoldLeft(LAMBDA a, t : 6 * a + t, 1, w) * 3 + s
    ELSE CASE s = 0 -> <<0, 1, 0, 2, 2>>[w[1]]
           [] s = 1 -> <<2, 3, 1, 4, 0>>[w[1]]
           [] s = 2 -> <<3, 3, 4, 5, 0>>[w[1]]

Grid(sh, c) == [shape |-> sh, cells |-> c]

\* Flat frames: the empty one, pairs that collide, repeat and nest; and two of
\* two perceptrons.
MCSceneFrames ==
    {<<Grid(<<0, 0>>, <<>>)>>, <<Grid(<<1, 1>>, <<1>>)>>, <<Grid(<<1, 1>>, <<4>>)>>,
     <<Grid(<<1, 2>>, <<1, 2>>)>>, <<Grid(<<1, 2>>, <<3, 1>>)>>, <<Grid(<<2, 2>>, <<2, 3, 3, 4>>)>>,
     <<Grid(<<1, 1>>, <<2>>), Grid(<<1, 1>>, <<3>>)>>}

MCFreezes == {{}, {0}, {2}}

-----------------------------------------------------------------------------
(* Sketches: one register bit, three counts in a register, hashes of six     *)
(* bits.  The hash of the empty token is 0, that of <<1, 2>> has more zeros  *)
(* than a register counts, <<2>> and <<1, 0, 2>> collide, and <<1, 0, 2>>    *)
(* alone has the key of <<1>> with <<2>>.                                    *)

MCByteTokens == {<<>>, <<1>>, <<2>>, <<1, 2>>, <<1, 0, 2>>}

MCMurmur(t) ==
    CASE t = <<>>        -> 0
      [] t = <<1>>       -> 3
      [] t = <<2>>       -> 5
      [] t = <<1, 2>>    -> 16
      [] t = <<1, 0, 2>> -> 13

MCViews == {<<>>, <<2, 1>>, <<1>>}
=============================================================================
