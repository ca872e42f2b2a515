------------------------------ MODULE Gf2Ring ------------------------------
(***************************************************************************)
(* The operations of ewm-boolring (crates/ewm-boolring/src/lib.rs) on      *)
(* values: BoolBasis and BoolWindow::push_with_birth.  An HLLSet is a set  *)
(* of bit positions, symmetric difference is addition.  A basis is a       *)
(* sequence of rows (basis[j] and pivots[j] as one record); a window is    *)
(* the record of the fields of BoolWindow, rows for its basis.             *)
(***************************************************************************)
EXTENDS Integers, Sequences, FiniteSets, FiniteSetsExt, SequencesExt

CONSTANTS
    Bits,    \* bit positions
    MaxLen   \* BoolWindow::max_len

-----------------------------------------------------------------------------
(* Elimination.                                                            *)

SymmetricDifference(a, b) == (a \ b) \union (b \ a)

LowestBit(s) == Min(s)

\* The row whose pivot is p: pivots.iter().position.
RowsAt(table, p) == {j \in DOMAIN table : table[j].pivot = p}

\* reduce and flag_reduce: while the lowest bit is some row's pivot, add
\* that row; its index is toggled in the coordinates.
Reduction(table) ==
    LET reduce[x \in SUBSET Bits] ==
          LET at == IF x = {} THEN {} ELSE RowsAt(table, LowestBit(x)) IN
          IF at = {}
          THEN [residual |-> x, coords |-> {}]
          ELSE LET j    == Min(at)
                   rest == reduce[SymmetricDifference(x, table[j].vec)]
               IN  [rest EXCEPT !.coords = SymmetricDifference(@, {j})]
    IN  reduce

Residual(table, x)    == Reduction(table)[x].residual
InSpan(table, x)      == Residual(table, x) = {}
Coordinates(table, x) == Reduction(table)[x].coords

\* reconstruct: the sum of the rows selected by C.
Reconstruct(table, C) ==
    FoldSet(LAMBDA j, acc : SymmetricDifference(acc, table[j].vec), {}, C)

Cover(table) == UNION {table[j].vec : j \in DOMAIN table}

\* bss, a fraction: how much of b is in a; 1 for an empty b.
Bss(a, b) == IF b = {} THEN <<1, 1>> ELSE <<Cardinality(a \cap b), Cardinality(b)>>

\* bss_vector: the soft key of x.
BssVector(table, x) == [j \in DOMAIN table |-> Bss(x, table[j].vec)]

\* BoolBasis::project.
CoverProjection(table, x) ==
    [retained |-> x \cap Cover(table), novelty |-> x \ Cover(table), departed |-> Cover(table) \ x]

\* linear_cover: the rows that sum up to x; {} or one set of them.
LinearCover(table, x) == IF InSpan(table, x) THEN {Coordinates(table, x)} ELSE {}

\* change_of_basis: the images in table of the rows of from.
ChangeOfBasis(table, from) == [j \in DOMAIN from |-> LinearCover(table, from[j].vec)]

\* The rows that the new row r rotates.
Rotated(table, r) == {j \in DOMAIN table : r # {} /\ LowestBit(r) \in table[j].vec}

\* insert's rotation: the new pivot is cleared from every older row.
Cleared(table, r) ==
    [j \in DOMAIN table |->
        IF j \in Rotated(table, r)
        THEN [table[j] EXCEPT !.vec = SymmetricDifference(@, r)]
        ELSE table[j]]

Insert(table, x) ==
    LET r == Residual(table, x) IN
    IF r = {}
    THEN table
    ELSE Append(Cleared(table, r), [vec |-> r, pivot |-> LowestBit(r)])

\* span_basis, and rebuild_from_window.
SpanBasis(sets) == FoldLeft(Insert, <<>>, sets)

\* The reference definition: every sum of sets of S, by brute force.
Span(S) ==
    FoldSet(LAMBDA s, V : V \union {SymmetricDifference(v, s) : v \in V}, {{}}, S)

-----------------------------------------------------------------------------
(* push_with_birth.                                                        *)

\* new and windowed: with evict the window is the generator set.
EmptyWindow(evict) ==
    [rows |-> <<>>, originals |-> <<>>, generation |-> 0, total |-> 0, evict |-> evict]

Evicts(w) == Len(w.originals) = MaxLen

Rebuilds(w) == w.evict /\ Evicts(w)

NextOriginals(w, x) ==
    IF Evicts(w) THEN Append(Tail(w.originals), x) ELSE Append(w.originals, x)

\* Mutation of NextRows: eviction forgets to rebuild.
NeverRebuilt(w, x) == Insert(w.rows, x)

NextRows(w, x) ==
    IF Rebuilds(w)
    THEN SpanBasis(NextOriginals(w, x))
    ELSE Insert(w.rows, x)

\* Mutation of Bumps: the rebuild does not bump the generation.
BumpsOnAdded(w, x) == IF InSpan(w.rows, x) THEN 0 ELSE 1

\* How far the push moves the generation: one for Added, one for a rebuild.
Bumps(w, x) ==
    (IF InSpan(w.rows, x) THEN 0 ELSE 1)
      + (IF Rebuilds(w) THEN 1 ELSE 0)

Pushed(w, x) ==
    [w EXCEPT !.rows       = NextRows(w, x),
              !.originals  = NextOriginals(w, x),
              !.generation = @ + Bumps(w, x),
              !.total      = @ + 1]

\* RingStats.
RingStats(w, x) ==
    LET r == Residual(w.rows, x) IN
    [residual  |-> Cardinality(r),
     in_span   |-> r = {},
     dimension |-> Len(NextRows(w, x)),
     rotation_count |-> Cardinality(Rotated(w.rows, r)),
     rotation_mass  |-> Cardinality(Rotated(w.rows, r)) * Cardinality(r)]

\* The push adds a direction; windowed mode records no births.
IsBirth(w, x) == ~w.evict /\ ~InSpan(w.rows, x)

BirthOf(w, x) ==
    [vec        |-> Residual(w.rows, x),
     pivot      |-> LowestBit(Residual(w.rows, x)),
     generation |-> w.generation,
     push_index |-> w.total]

=============================================================================
