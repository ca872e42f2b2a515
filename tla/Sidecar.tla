------------------------------- MODULE Sidecar --------------------------------
(* The analyses of a series of frames (crates/ewm-scene, and the same        *)
(* trajectory in crates/ewm-flux-host): the keys of every frame in the basis *)
(* of the ring before it arrives, the history of bases through which other   *)
(* frames are read later, and the readings of the step from one frame to the *)
(* next.  A frame is a tuple of grids, one for each perceptron; a flat frame *)
(* has one.  Quotients are pairs, and what is computed from them in floating *)
(* point (step lengths, thresholds) is left out.                             *)
EXTENDS Gf2Ring, Windows

CONSTANTS SceneFrames,   \* the frames: tuples of [shape, cells]
          Freezes,       \* sidecar_with_cap_freeze's option: {} or {n}
          MaxFrames      \* bound: frames of a series

VARIABLES freeze,    \* the option of this series
          frames,    \* the frames so far
          window,    \* the BoolWindow
          keys,      \* for each frame what was measured before it was pushed
          history    \* BasisHistory: a snapshot for each generation recorded

sidecar_vars == <<freeze, frames, window, keys, history>>

-----------------------------------------------------------------------------
(* Frames: HLLSets of the tokens under three seeds, the G1 sketch apart.     *)

ingest_tokens(cells) == [s \in 0..2 |-> {Pos(0, s, <<t>>) : t \in ToSet(cells)}]

from_tokens(cells) ==
    [hll |-> UNION Range(ingest_tokens(cells)), g1 |-> ingest_tokens(cells)[0]]

FrameState(f) ==
    LET hllsets == [p \in DOMAIN f |-> from_tokens(f[p].cells).hll]
    IN  [hllsets |-> hllsets, union |-> UNION Range(hllsets)]

Hll(f) == FrameState(f).union

\* A token's bits are positions of an HLLSet, a freeze is an Option<usize>.
ASSUME SceneAssumption ==
    /\ Bits \subseteq Nat /\ IsFiniteSet(Bits)
    /\ \A F \in Freezes : F = {} \/ \E n \in F : n \in Nat /\ F = {n}
    /\ \A f \in SceneFrames : Hll(f) \subseteq Bits

\* Grid::new asserts that the cells fill the shape.
ASSUME GridAssumption ==
    \A f \in SceneFrames :
        /\ f[1].shape \in Nat \X Nat /\ f[1].cells \in Seq(Tokens)
        /\ Len(f[1].cells) = f[1].shape[1] * f[1].shape[2]

Unions == [i \in DOMAIN frames |-> Hll(frames[i])]

-----------------------------------------------------------------------------
(* Basis frames.                                                             *)

Snapshot(w) == [generation |-> w.generation, rows |-> w.rows, cover |-> Cover(w.rows)]

BasisFrame(snap) ==
    [generation |-> snap.generation, dimension |-> Len(snap.rows),
     cover_pop |-> MapThenSumSet(LAMBDA j : Cardinality(snap.rows[j].vec), DOMAIN snap.rows)]

project_into(snap, x) ==
    [soft |-> BssVector(snap.rows, x), spill |-> Cardinality(x \ snap.cover),
     hard |-> LinearCover(snap.rows, x)]

\* Mutation of push_if_changed: a change is a new dimension of the first entry.
push_if_grown(h, w) ==
    IF h = <<>> \/ Len(w.rows) > 1 + Len(h[1].rows) THEN Append(h, Snapshot(w)) ELSE h

push_if_changed(h, w) ==
    IF h = <<>> \/ Last(h).generation # w.generation THEN Append(h, Snapshot(w)) ELSE h

-----------------------------------------------------------------------------
SidecarInit ==
    /\ freeze \in Freezes
    /\ frames = <<>> /\ keys = <<>> /\ history = <<>>
    /\ window = EmptyWindow(FALSE)

Frozen == \E n \in freeze : Len(frames) >= Max({n, 1})

Measured(x, w) ==
    [soft       |-> BssVector(window.rows, x),
     hard       |-> LinearCover(window.rows, x),
     residual   |-> Cardinality(Residual(window.rows, x)),
     generation |-> window.generation,
     changed    |-> w.generation # window.generation,
     stats      |-> IF Frozen THEN [rotation_count |-> 0, rotation_mass |-> 0, dimension |-> Len(w.rows)]
                    ELSE RingStats(window, x)]

\* The frame is measured, then pushed, unless the basis is frozen by now.
Step(f) ==
    LET x == Hll(f)
        w == IF Frozen THEN window ELSE Pushed(window, x)
    IN  /\ Len(frames) < MaxFrames
        /\ frames' = Append(frames, f)
        /\ window' = w
        /\ keys' = Append(keys, Measured(x, w))
        /\ history' = IF Frozen THEN history ELSE push_if_changed(history, w)
        /\ UNCHANGED freeze

SidecarNext == \E f \in SceneFrames : Step(f)

-----------------------------------------------------------------------------
(* Readings of the series S of HLLSets.                                      *)

drn_series(S) ==
    [i \in DOMAIN S |->
        LET prev == IF i = 1 THEN {} ELSE S[i - 1]
        IN  [d |-> Cardinality(prev \ S[i]), r |-> Cardinality(prev \cap S[i]),
             n |-> Cardinality(S[i] \ prev)]]

\* The pops and the three indicators; the second compares what two pairs retain.
noether_series(S) ==
    LET D(i) == S[i] \ S[i + 1]
        R(i) == S[i] \cap S[i + 1]
        N(i) == S[i + 1] \ S[i]
        Ratio(a, b) == IF b = {} THEN <<0, 1>> ELSE <<Cardinality(a), Cardinality(b)>>
    IN  [i \in 1..Len(S) - 1 |->
            [dp |-> Cardinality(D(i)), rp |-> Cardinality(R(i)), np |-> Cardinality(N(i)),
             ind1 |-> Ratio(D(i), R(i) \cup N(i)), ind3 |-> Ratio(N(i), R(i) \cup D(i)),
             ind2 |-> IF i = 1 THEN {} ELSE {Bss(R(i - 1), R(i))}]]

jaccard(a, b) ==
    IF a \cup b = {} THEN <<1, 1>> ELSE <<Cardinality(a \cap b), Cardinality(a \cup b)>>

bss_series(S) == [i \in 1..Len(S) - 1 |-> [tau |-> Bss(S[i], S[i + 1]), jac |-> jaccard(S[i], S[i + 1])]]

\* The union of the w frames up to the t-th.
trailing(S, t, w) == UNION {S[j] : j \in t - w + 1..t}

moving_averages(S, short, long) ==
    [t \in long + 1..Len(S) |->
        [fast |-> Bss(trailing(S, t - 1, short), trailing(S, t, short)),
         slow |-> Bss(trailing(S, t - 1, long), trailing(S, t, long))]]

\* The stream S on the axes dims, each an HLLSet and its G1 sketch.
project(S, G1, dims) ==
    [i \in DOMAIN S |->
        [intersections |-> [j \in DOMAIN dims |-> Cardinality(S[i] \cap dims[j].hll)],
         bss    |-> [j \in DOMAIN dims |-> Bss(S[i], dims[j].hll)],
         bss_g1 |-> [j \in DOMAIN dims |-> Bss(G1[i], dims[j].g1)]]]

\* The grid of a frame, ingested; a constant, so that TLC computes it once.
Grids == [f \in SceneFrames |-> ingest_grid(0, f[1].shape, f[1].cells)]

\* Mutation of subframes: what was retained is looked up in the second frame.
subframes_swapped(a, b) ==
    LET ia == Grids[a]
        ib == Grids[b]
    IN  [departed |-> candidates(ia.luts[1], ia.ch[1] \ ib.ch[1]),
         retained |-> candidates(ib.luts[1], ia.ch[1] \cap ib.ch[1]),
         new      |-> candidates(ib.luts[1], ib.ch[1] \ ia.ch[1]),
         dp |-> [n \in 1..4 |-> Cardinality(ia.ch[n] \ ib.ch[n])],
         rp |-> [n \in 1..4 |-> Cardinality(ia.ch[n] \cap ib.ch[n])],
         np |-> [n \in 1..4 |-> Cardinality(ib.ch[n] \ ia.ch[n])]]

subframes(a, b) ==
    LET ia == Grids[a]
        ib == Grids[b]
    IN  [departed |-> candidates(ia.luts[1], ia.ch[1] \ ib.ch[1]),
         retained |-> candidates(ia.luts[1], ia.ch[1] \cap ib.ch[1]),
         new      |-> candidates(ib.luts[1], ib.ch[1] \ ia.ch[1]),
         dp |-> [n \in 1..4 |-> Cardinality(ia.ch[n] \ ib.ch[n])],
         rp |-> [n \in 1..4 |-> Cardinality(ia.ch[n] \cap ib.ch[n])],
         np |-> [n \in 1..4 |-> Cardinality(ib.ch[n] \ ia.ch[n])]]

\* The trajectory read in the last basis recorded, and the last frame in the first.
FinalProjection ==
    IF history = <<>> THEN [spills |-> [i \in DOMAIN frames |-> 0], spill_oldest |-> 0, generations |-> <<>>]
    ELSE [spills       |-> [i \in DOMAIN frames |-> project_into(Last(history), Unions[i]).spill],
          spill_oldest |-> project_into(history[1], Last(Unions)).spill,
          generations  |-> [k \in DOMAIN history |-> history[k].generation]]

\* How many of a frame's tokens its n-gram tables give back, and give in all.
LoopScore(cells) ==
    LET ing      == ingest(0, cells)
        restored == materialize({<<ing.ch[n], ing.luts[n]>> : n \in 1..3})
    IN  [recall    |-> <<Cardinality(ToSet(cells) \cap restored), Cardinality(ToSet(cells))>>,
         precision |-> <<Cardinality(ToSet(cells) \cap restored), Cardinality(restored)>>]

-----------------------------------------------------------------------------
(* Properties.                                                               *)

\* The rows of the basis that a generation names; before the first, none.
RowsOf(g) ==
    LET named == {k \in DOMAIN history : history[k].generation = g}
    IN  IF named = {} THEN <<>> ELSE history[Max(named)].rows

\* The frames that were pushed before the i-th arrived.
PushedUntil(i) == 1..Min({i - 1} \cup {Max({n, 1}) : n \in freeze})

\* Time travel is exact: the keys of every frame can be recomputed from the
\* recorded basis that its generation names, at any later time and across a
\* freeze; a hard key exists exactly for sums of the frames pushed before it;
\* the newest basis sees all of every frame pushed, and the first one misses
\* what was not in the first frame.  Each generation is recorded once, with one
\* row more.
TravelExact ==
    \A i \in DOMAIN frames :
        /\ LET then == RowsOf(keys[i].generation) IN
           /\ keys[i].soft = BssVector(then, Unions[i])
           /\ keys[i].hard = LinearCover(then, Unions[i])
           /\ Len(then) + (IF keys[i].changed THEN 1 ELSE 0) = keys[i].stats.dimension
        /\ keys[i].hard # {} <=> Unions[i] \in Span({Unions[j] : j \in PushedUntil(i)})
        /\ i \in PushedUntil(Len(frames) + 1) => FinalProjection.spills[i] = 0
        /\ FinalProjection.spill_oldest = Cardinality(Last(Unions) \ Unions[1])
        /\ \A k \in 1..Len(history) - 1 :
              FinalProjection.generations[k] < FinalProjection.generations[k + 1]
        /\ \A k \in 1..Len(history) - 1 :
              BasisFrame(history[k + 1]).dimension = BasisFrame(history[k]).dimension + 1

Bit1(t) == Pos(0, 0, <<t>>)

\* The tokens whose windows ingest_grid sketches: with the border's pad.
Sketched(f) == IF f[1].cells = <<>> THEN {} ELSE ToSet(f[1].cells) \cup {Pad}

\* All readings of the step from a frame to the next agree: D, R and N of both
\* trajectories, BSS and Jaccard, the moving average of one frame, the
\* projection on the next frame, and the counts of the grids' 1x1 channels.
\* The subframes never name a departed token that is still there or a new one
\* that was there, they give back every token of the first frame, and of the
\* second all but those that hide behind a collision with the first; the frame's
\* own tables give back all its tokens.
TransitionsAgree ==
    \A i \in 1..Len(frames) - 1 :
        LET S   == Unions
            A   == ToSet(frames[i][1].cells)
            B   == ToSet(frames[i + 1][1].cells)
            drn == drn_series(S)[i + 1]
            noe == noether_series(S)[i]
            sub == subframes(frames[i], frames[i + 1])
            G1  == [j \in DOMAIN frames |-> from_tokens(frames[j][1].cells).g1]
            one == drn_series([j \in DOMAIN frames |-> {Bit1(t) : t \in Sketched(frames[j])}])[i + 1]
            dim == <<[hll |-> S[i + 1], g1 |-> G1[i + 1]]>>
        IN  /\ <<noe.dp, noe.rp, noe.np>> = <<drn.d, drn.r, drn.n>>
            /\ S[i + 1] # {} => bss_series(S)[i].tau = <<drn.r, drn.r + drn.n>>
                                /\ noe.ind1 = <<drn.d, drn.r + drn.n>>
            /\ S[i] \cup S[i + 1] # {} => bss_series(S)[i].jac = <<drn.r, drn.d + drn.r + drn.n>>
            /\ moving_averages(S, 1, 1)[i + 1].fast = bss_series(S)[i].tau
            /\ project(S, G1, dim)[i].bss[1] = bss_series(S)[i].tau
            /\ project(S, G1, dim)[i].bss_g1[1] = bss_series(G1)[i].tau
            /\ sub.departed \cap B = {} /\ sub.new \cap A = {}
            /\ sub.departed \cup sub.retained = A
            /\ B \ (sub.retained \cup sub.new) =
                   {t \in B \ A : \E u \in Sketched(frames[i]) : Bit1(u) = Bit1(t)}
            /\ <<sub.dp[1], sub.rp[1], sub.np[1]>> = <<one.d, one.r, one.n>>
            /\ LoopScore(frames[i][1].cells).recall = <<Cardinality(A), Cardinality(A)>>
=============================================================================
