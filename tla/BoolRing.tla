------------------------------ MODULE BoolRing ------------------------------
(***************************************************************************)
(* A BoolWindow and its BirthTable (crates/ewm-boolring/src/lib.rs) under  *)
(* any sequence of push_recorded.  The queries (membership, minimal_cover) *)
(* are operators on the state.                                             *)
(***************************************************************************)
EXTENDS Gf2Ring

CONSTANTS
    Originals,   \* the HLLSets that are pushed
    Probes,      \* the HLLSets that are looked up
    MaxPushes    \* bound: originals pushed

ASSUME RingAssumption ==
    /\ Bits \subseteq Nat /\ IsFiniteSet(Bits)
    /\ Originals \subseteq SUBSET Bits /\ Probes \subseteq SUBSET Bits
    /\ MaxLen \in Nat \ {0} /\ MaxPushes \in Nat

VARIABLES
    ring,        \* the BoolWindow
    births,      \* BirthTable::records
    pushed       \* history: every original so far

ring_vars == <<ring, births, pushed>>

rows == ring.rows

-----------------------------------------------------------------------------
(* push_recorded.                                                          *)

\* Mutation of Births: the set itself is recorded, not its residual.
BirthsUnreduced(x) ==
    IF InSpan(rows, x) THEN births
    ELSE Append(births, [BirthOf(ring, x) EXCEPT !.vec = x, !.pivot = LowestBit(x)])

Births(x) ==
    IF IsBirth(ring, x) THEN Append(births, BirthOf(ring, x)) ELSE births

RingInit ==
    /\ \E evict \in BOOLEAN : ring = EmptyWindow(evict)
    /\ births = <<>> /\ pushed = <<>>

Push(x) ==
    /\ Len(pushed) < MaxPushes
    /\ ring' = Pushed(ring, x)
    /\ births' = Births(x)
    /\ pushed' = Append(pushed, x)

RingNext == \E x \in Originals : Push(x)

-----------------------------------------------------------------------------
(* Queries.                                                                *)

\* membership(x, k): x reduces to nothing against the first k births.
Membership(x, k) == InSpan(SubSeq(births, 1, k), x)

\* flag_coordinates and signature: the strata that sum up to x.
Signature(x) == LinearCover(births, x)

\* The bits of x that the rows chosen so far leave uncovered.
Uncovered(x, chosen) == x \ UNION {rows[j].vec : j \in chosen}

\* minimal_cover: take the first row with the largest gain until none gains.
Gain(x, chosen, j) == Cardinality(Uncovered(x, chosen) \cap rows[j].vec)

\* Mutation of BestRows: the first row that gains anything.
FirstGain(x, chosen) == {j \in DOMAIN rows \ chosen : Gain(x, chosen, j) > 0}

BestRows(x, chosen) ==
    {j \in DOMAIN rows \ chosen :
        /\ Gain(x, chosen, j) > 0
        /\ \A k \in DOMAIN rows \ chosen : Gain(x, chosen, k) <= Gain(x, chosen, j)}

MinimalCover(x) ==
    LET extend[chosen \in SUBSET DOMAIN rows] ==
          LET best == BestRows(x, chosen) IN
          IF best = {} THEN chosen ELSE extend[chosen \union {Min(best)}]
    IN  extend[{}]

-----------------------------------------------------------------------------
(* Properties.                                                             *)

\* The originals the basis stands for.
Generators == Range(IF ring.evict THEN ring.originals ELSE pushed)

\* contains decides the sums of the originals (the window's, in windowed mode):
\* elimination that is never carried to the end loses nothing, through any
\* order of insertions, rotations and rebuilds.  coordinates and reconstruct
\* are inverse there and no other rows have the same sum: a usable key.
SpanExact ==
    LET span == Span(Generators) IN
    \A x \in Probes :
        /\ InSpan(rows, x) <=> x \in span
        /\ x \in span => \A C \in SUBSET DOMAIN rows :
                            Reconstruct(rows, C) = x <=> C \in LinearCover(rows, x)

\* Lineage: the first k births span what was pushed before the next birth,
\* and nothing else; membership(x, k) dates x in the history.
PushedBefore(k) ==
    IF k = Len(births) THEN Range(pushed)
    ELSE Range(SubSeq(pushed, 1, births[k + 1].push_index))

FlagExact ==
    ~ring.evict =>
        /\ \A k \in 0..Len(births) :
              LET span == Span(PushedBefore(k)) IN
              \A x \in Probes : Membership(x, k) <=> x \in span
        /\ \A x \in Probes : \A C \in Signature(x) : Reconstruct(births, C) = x
        /\ Cover(births) = UNION Range(pushed)

\* What a push does to vectors measured before it: the generation stays and so
\* do the rows, or (in monotone mode) change_of_basis carries every coordinate
\* vector over; and the rotation mass counts the bits that the old rows change.
BasisChange ==
    [][/\ rows' # rows => ring.generation' > ring.generation
       /\ ~ring.evict =>
            /\ \A C \in SUBSET DOMAIN rows :
                  LinearCover(rows', Reconstruct(rows, C)) =
                    {FoldSet(LAMBDA j, acc : SymmetricDifference(acc, UNION ChangeOfBasis(rows', rows)[j]),
                             {}, C)}
            /\ RingStats(ring, Last(pushed')).rotation_mass =
                 MapThenSumSet(LAMBDA j : Cardinality(SymmetricDifference(rows[j].vec, rows'[j].vec)),
                               DOMAIN rows)]_ring_vars

\* H(n) * n!, with H(n) the n-th harmonic number.
Factorial(n)   == ProductSet(1..n)
HarmonicTop(n) == MapThenSumSet(LAMBDA k : Factorial(n) \div k, 1..n)

\* MinimalCover(x) has at most H(n) times the rows of any other cover.
WithinHarmonic(x, n) ==
    \A best \in SUBSET DOMAIN rows :
        Uncovered(x, best) = x \ Cover(rows) =>
            Factorial(n) * Cardinality(MinimalCover(x))
              <= HarmonicTop(n) * Cardinality(best)

\* minimal_cover covers every bit that the basis can cover, within the bound
\* that greedy does keep: n is the most bits of x in one row, not the dimension
\* that lib.rs:215-216 names.
CoverWithinBound ==
    \A x \in Probes \ {{}} :
        /\ Uncovered(x, MinimalCover(x)) = CoverProjection(rows, x).novelty
        /\ LET n == Max({0} \union {Cardinality(x \cap rows[j].vec) : j \in DOMAIN rows})
           IN  WithinHarmonic(x, n)

=============================================================================
