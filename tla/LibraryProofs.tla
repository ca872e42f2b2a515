--------------------------- MODULE LibraryProofs ----------------------------
(* Theorems of the libraries: the rows of a ring span its generators and the *)
(* births every prefix of its history (BoolRing), the storage stays faithful *)
(* behind its cache (CacheStorage), keys measured in old bases keep their    *)
(* meaning and all readings of a step between two frames agree (Sidecar),    *)
(* a Merkle root is the identity of a collection (ContextTree), and a sketch *)
(* has the same bits by every path to them (Sketch).                         *)
EXTENDS BoolRing, Sidecar, CacheStorage, ContextTree, Sketch, Gf2RingProofs

-----------------------------------------------------------------------------
(* The ring of a workspace: the rows span the generators, and the births     *)
(* span every prefix of the history. The inductive invariant.                *)

Birth == [vec : SUBSET Bits, pivot : Nat, generation : Nat, push_index : Nat]

RingTyped ==
    /\ ring \in [rows : Seq(Row), originals : Seq(Originals), generation : Nat,
                 total : Nat, evict : BOOLEAN]
    /\ births \in Seq(Birth)
    /\ pushed \in Seq(Originals)
    /\ Echelon(rows)
    /\ ring.total = Len(pushed)

\* The rows span what the generators span.
RowsSpan == Spanned(rows) = Span(Generators)

\* Birth j has the pivot of row j: no rotation and no insert moves a pivot.
BirthsAligned ==
    /\ DOMAIN births = DOMAIN rows
    /\ Echelon(births)
    /\ \A j \in DOMAIN births : births[j].pivot = rows[j].pivot

\* The first k births span what was pushed before the next one.
BirthsSpan ==
    \A k \in 0..Len(births) :
        /\ k < Len(births) => births[k + 1].push_index <= Len(pushed)
        /\ Spanned(SubSeq(births, 1, k)) = Span(PushedBefore(k))

IInv == RingTyped /\ RowsSpan /\ (~ring.evict => BirthsAligned /\ BirthsSpan)

-----------------------------------------------------------------------------
(* The parts of the state.                                                   *)

\* The assumption on the constants, in the parts the facts about the ring ask
\* for.
LEMMA RingPositions == Positions /\ Originals \subseteq SUBSET Bits /\ Probes \subseteq SUBSET Bits
BY RingAssumption DEF Positions

\* A history of originals is a finite set of HLLSets.
LEMMA HistoryGenerates ==
    ASSUME NEW s \in Seq(Originals)
    PROVE  Range(s) \in SUBSET SUBSET Bits /\ IsFiniteSet(Range(s))
<1>1. Range(s) \in SUBSET SUBSET Bits
    BY RingPositions DEF Range
<1>2. IsFiniteSet(SUBSET Bits)
    BY RingPositions, FS_SUBSET DEF Positions
<1> QED
    BY <1>1, <1>2, FS_Subset

\* One original more.
LEMMA HistoryGrows ==
    ASSUME NEW s \in Seq(Originals), NEW x \in Originals
    PROVE  Range(Append(s, x)) = Range(s) \union {x}
<1> DEFINE t == Append(s, x)
<1>1. /\ DOMAIN t = DOMAIN s \union {Len(s) + 1} /\ t[Len(s) + 1] = x
      /\ \A i \in DOMAIN s : t[i] = s[i]
    OBVIOUS
<1> HIDE DEF t
<1> QED
    BY <1>1 DEF Range

\* The history up to i does not depend on what follows.
LEMMA HistoryPrefix ==
    ASSUME NEW S, NEW s \in Seq(S), NEW x \in S, NEW i \in Nat, i <= Len(s)
    PROVE  /\ SubSeq(Append(s, x), 1, i) = SubSeq(s, 1, i)
           /\ SubSeq(s, 1, Len(s)) = s
OBVIOUS

\* What is kept of the originals after a push.
LEMMA NextOriginalsType ==
    ASSUME NEW w, w.originals \in Seq(Originals), NEW x \in Originals
    PROVE  NextOriginals(w, x) \in Seq(Originals)
<1>1. CASE Evicts(w)
    <2>1. w.originals # <<>>
        BY <1>1, RingAssumption DEF Evicts
    <2>2. Tail(w.originals) \in Seq(Originals)
        BY <2>1
    <2> QED BY <1>1, <2>2 DEF NextOriginals
<1>2. CASE ~Evicts(w)
    BY <1>2 DEF NextOriginals
<1> QED
    BY <1>1, <1>2

\* The rows after a push: typed, echelon, and the span they have.
LEMMA PushedRows ==
    ASSUME RingTyped, RowsSpan, NEW x \in Originals, Push(x)
    PROVE  /\ rows' \in Seq(Row) /\ Echelon(rows')
           /\ Spanned(rows') = Span(Generators')
<1>0. Positions /\ x \in SUBSET Bits /\ rows \in Seq(Row) /\ Echelon(rows)
    BY RingPositions DEF RingTyped, rows
<1>1. /\ ring'.rows = NextRows(ring, x) /\ ring'.originals = NextOriginals(ring, x)
      /\ ring'.evict = ring.evict /\ pushed' = Append(pushed, x)
    BY DEF Push, Pushed, RingTyped
<1>2. NextOriginals(ring, x) \in Seq(Originals) /\ pushed \in Seq(Originals)
      /\ ring.originals \in Seq(Originals)
    BY NextOriginalsType DEF RingTyped
<1>3. CASE Rebuilds(ring)
    <2>1. ring.evict /\ rows' = SpanBasis(NextOriginals(ring, x))
        BY <1>1, <1>3 DEF Rebuilds, NextRows, rows
    <2>2. NextOriginals(ring, x) \in Seq(SUBSET Bits)
        BY <1>2, RingPositions
    <2>3. Generators' = Range(NextOriginals(ring, x))
        BY <1>1, <2>1 DEF Generators
    <2> QED BY <1>0, <2>1, <2>2, <2>3, SpanBasisSpans
<1>4. CASE ~Rebuilds(ring)
    <2>1. rows' = Insert(rows, x)
        BY <1>1, <1>4 DEF NextRows, rows
    <2>2. PICK s \in Seq(Originals) : Generators = Range(s) /\ Generators' = Range(Append(s, x))
        <3>1. CASE ring.evict
            <4>1. ~Evicts(ring)
                BY <1>4, <3>1 DEF Rebuilds
            <4>2. NextOriginals(ring, x) = Append(ring.originals, x)
                BY <4>1 DEF NextOriginals
            <4> QED BY <1>1, <1>2, <3>1, <4>2 DEF Generators
        <3>2. CASE ~ring.evict
            BY <1>1, <1>2, <3>2 DEF Generators
        <3> QED BY <3>1, <3>2
    <2>3. Span(Range(Append(s, x))) = Doubled(Span(Range(s)), x)
        BY <1>0, HistoryGenerates, HistoryGrows, SpanMore
    <2> QED BY <1>0, <2>1, <2>2, <2>3, InsertEchelon, InsertSpanned DEF RowsSpan
<1> QED
    BY <1>3, <1>4

\* A push that adds no birth: windowed mode, or a set in the span.
LEMMA NoBirth ==
    ASSUME RingTyped, RowsSpan, ~ring.evict => BirthsAligned /\ BirthsSpan,
           NEW x \in Originals, Push(x), ~IsBirth(ring, x)
    PROVE  births' = births /\ (~ring.evict => BirthsAligned' /\ BirthsSpan')
<1>0. births' = births /\ pushed' = Append(pushed, x) /\ pushed \in Seq(Originals)
    BY DEF Push, Births, RingTyped
<1> SUFFICES ASSUME ~ring.evict PROVE BirthsAligned' /\ BirthsSpan'
    BY <1>0
<1>1. Positions /\ x \in SUBSET Bits /\ rows \in Seq(Row) /\ Echelon(rows)
    BY RingPositions DEF RingTyped, rows
<1>2. InSpan(rows, x)
    BY DEF IsBirth, rows
<1>3. rows' = rows
    <2>1. rows' = Insert(rows, x)
        BY DEF Push, Pushed, RingTyped, NextRows, Rebuilds, rows
    <2> QED BY <1>1, <1>2, <2>1, InsertEchelon
<1>4. BirthsAligned'
    BY <1>0, <1>3 DEF BirthsAligned
<1>5. Span(Range(pushed')) = Span(Range(pushed))
    <2>1. x \in Spanned(rows) /\ Spanned(rows) = Span(Range(pushed))
        BY <1>1, <1>2, SpannedIsInSpan DEF RowsSpan, Generators
    <2> QED BY <1>0, <2>1, HistoryGenerates, HistoryGrows, SpanSame
<1>6. BirthsSpan'
    <2> SUFFICES ASSUME NEW k \in 0..Len(births)
                 PROVE  /\ k < Len(births) => births[k + 1].push_index <= Len(pushed')
                        /\ Spanned(SubSeq(births, 1, k)) = Span(PushedBefore(k)')
        BY <1>0 DEF BirthsSpan
    <2>1. Len(pushed') = Len(pushed) + 1 /\ Len(pushed) \in Nat /\ Len(births) \in Nat
        BY <1>0 DEF RingTyped
    <2>2. CASE k = Len(births)
        <3>1. PushedBefore(k)' = Range(pushed') /\ PushedBefore(k) = Range(pushed)
            BY <1>0, <2>2 DEF PushedBefore
        <3> QED BY <1>5, <2>1, <2>2, <3>1 DEF BirthsSpan
    <2>3. CASE k # Len(births)
        <3>1. k < Len(births) /\ k + 1 \in DOMAIN births
            BY <2>1, <2>3 DEF RingTyped
        <3> DEFINE i == births[k + 1].push_index
        <3>2. i \in Nat /\ i <= Len(pushed)
            <4>1. births[k + 1] \in Birth
                BY <3>1 DEF RingTyped
            <4>2. births[k + 1].push_index <= Len(pushed)
                BY <3>1 DEF BirthsSpan
            <4> QED BY <4>1, <4>2 DEF Birth
        <3>3. SubSeq(pushed', 1, i) = SubSeq(pushed, 1, i)
            BY <1>0, <3>2, HistoryPrefix
        <3>4. PushedBefore(k)' = PushedBefore(k)
            BY <1>0, <2>3, <3>3 DEF PushedBefore
        <3> QED BY <2>1, <3>1, <3>2, <3>4 DEF BirthsSpan
    <2> QED BY <2>2, <2>3
<1> QED
    BY <1>4, <1>6

\* A push that adds a birth.
LEMMA NewBirth ==
    ASSUME RingTyped, RowsSpan, ~ring.evict => BirthsAligned /\ BirthsSpan,
           NEW x \in Originals, Push(x), IsBirth(ring, x)
    PROVE  births' \in Seq(Birth) /\ BirthsAligned' /\ BirthsSpan'
<1> DEFINE r == Residual(rows, x)
           e == BirthOf(ring, x)
           n == Len(births) + 1
<1>0. /\ ~ring.evict /\ ~InSpan(rows, x) /\ BirthsAligned /\ BirthsSpan
      /\ births' = Append(births, e) /\ rows' = Insert(rows, x)
      /\ pushed' = Append(pushed, x) /\ pushed \in Seq(Originals) /\ births \in Seq(Birth)
    BY DEF Push, Births, IsBirth, Pushed, RingTyped, NextRows, Rebuilds, rows
<1>1. Positions /\ x \in SUBSET Bits /\ rows \in Seq(Row) /\ Echelon(rows)
    BY RingPositions DEF RingTyped, rows
<1>2. /\ r \in SUBSET Bits /\ r # {}
      /\ LowestBit(r) \in Nat /\ \A j \in DOMAIN rows : rows[j].pivot # LowestBit(r)
      /\ DOMAIN rows' = DOMAIN rows \union {Len(rows) + 1}
      /\ rows'[Len(rows) + 1].pivot = LowestBit(r)
      /\ \A j \in DOMAIN rows : rows'[j].pivot = rows[j].pivot
    BY <1>0, <1>1, InsertRows
<1>3. /\ e.vec = r /\ e.pivot = LowestBit(r) /\ e.push_index = Len(pushed) /\ e \in Birth
    BY <1>2 DEF BirthOf, RingTyped, Birth, rows
<1> HIDE DEF r, e
<1>4. /\ Len(births) \in Nat /\ Len(rows) = Len(births)
      /\ births' \in Seq(Birth) /\ Len(births') = n
      /\ DOMAIN births' = DOMAIN births \union {n} /\ n \notin DOMAIN births
      /\ births'[n] = e /\ \A j \in DOMAIN births : births'[j] = births[j]
    <2>1. Len(births) \in Nat /\ Len(rows) \in Nat /\ DOMAIN births = 1..Len(births)
          /\ DOMAIN rows = 1..Len(rows) /\ DOMAIN births = DOMAIN rows
        BY <1>0, <1>1 DEF BirthsAligned
    <2>2. Len(rows) = Len(births)
        <3> DEFINE p == Len(rows)
                   q == Len(births)
        <3>1. p \in Nat /\ q \in Nat /\ 1..q = 1..p
            BY <2>1
        <3> HIDE DEF p, q
        <3>2. (p > 0 => p \in 1..q) /\ (q > 0 => q \in 1..p)
            BY <3>1
        <3>3. p = q
            BY <3>1, <3>2
        <3> QED BY <3>3 DEF p, q
    <2>3. /\ births' \in Seq(Birth) /\ Len(births') = n
          /\ births'[n] = e /\ \A j \in DOMAIN births : births'[j] = births[j]
        BY <1>0, <1>3
    <2>4. DOMAIN births' = DOMAIN births \union {n} /\ n \notin DOMAIN births
        BY <2>1, <2>3
    <2> QED BY <2>1, <2>2, <2>3, <2>4
<1>5. Echelon(births')
    <2>1. Echelon(births) /\ \A j \in DOMAIN births : births[j].pivot # e.pivot
        BY <1>0, <1>2, <1>3 DEF BirthsAligned
    <2> QED BY <1>0, <1>1, <1>2, <1>3, <2>1, AppendEchelon
<1>6. BirthsAligned'
    <2>1. DOMAIN births' = DOMAIN rows'
        BY <1>0, <1>2, <1>4 DEF BirthsAligned
    <2>2. ASSUME NEW j \in DOMAIN births' PROVE births'[j].pivot = rows'[j].pivot
        BY <1>0, <1>2, <1>3, <1>4 DEF BirthsAligned
    <2> QED BY <1>5, <2>1, <2>2 DEF BirthsAligned
<1>7. Spanned(births) = Span(Range(pushed)) /\ Spanned(rows) = Span(Range(pushed))
    <2>1. SubSeq(births, 1, Len(births)) = births
        BY <1>0, <1>3, HistoryPrefix
    <2>2. Spanned(SubSeq(births, 1, Len(births))) = Span(PushedBefore(Len(births)))
        BY <1>0, <1>4 DEF BirthsSpan
    <2> QED BY <1>0, <2>1, <2>2 DEF PushedBefore, RowsSpan, Generators
<1>8. Spanned(births') = Span(Range(pushed'))
    <2>1. SymmetricDifference(x, r) \in Spanned(births)
        BY <1>1, <1>7, ResidualCoset DEF r
    <2>2. GrownBy(births, births', n, r)
        BY <1>3, <1>4 DEF GrownBy
    <2>3. Echelon(births)
        BY <1>0 DEF BirthsAligned
    <2>4. ASSUME NEW y \in SUBSET Bits
          PROVE  y \in Spanned(births') <=> y \in Doubled(Spanned(births), x)
        <3>1. y \in Spanned(births') <=>
                y \in Spanned(births) \/ SymmetricDifference(y, x) \in Spanned(births)
            BY <1>1, <1>2, <1>5, <2>1, <2>2, <2>3, GrownSpan
        <3>2. SymmetricDifference(y, x) \in SUBSET Bits
            BY <1>1, SumType
        <3> QED BY <3>1, <3>2, SumFacts DEF Doubled
    <2>5. Spanned(births') \subseteq SUBSET Bits /\ Doubled(Spanned(births), x) \subseteq SUBSET Bits
        BY <1>1, SumType DEF Spanned, Doubled
    <2>6. Spanned(births') = Doubled(Spanned(births), x)
        BY <2>4, <2>5
    <2>7. Span(Range(pushed')) = Doubled(Span(Range(pushed)), x)
        BY <1>0, <1>1, HistoryGenerates, HistoryGrows, SpanMore
    <2> QED BY <1>7, <2>6, <2>7
<1>9. BirthsSpan'
    <2> SUFFICES ASSUME NEW k \in 0..n
                 PROVE  /\ k < n => births'[k + 1].push_index <= Len(pushed')
                        /\ Spanned(SubSeq(births', 1, k)) = Span(PushedBefore(k)')
        BY <1>4 DEF BirthsSpan
    <2>1. Len(pushed') = Len(pushed) + 1 /\ Len(pushed) \in Nat
        BY <1>0
    <2>2. CASE k = n
        <3>1. SubSeq(births', 1, n) = births'
            BY <1>4, HistoryPrefix, <1>3
        <3>2. PushedBefore(k)' = Range(pushed')
            BY <1>4, <2>2 DEF PushedBefore
        <3>3. ~(k < n)
            BY <1>4, <2>2
        <3>4. SubSeq(births', 1, k) = births'
            BY <2>2, <3>1
        <3> QED BY <1>8, <3>2, <3>3, <3>4
    <2>3. CASE k = Len(births)
        <3>1. SubSeq(births', 1, k) = births
            BY <1>0, <1>3, <1>4, <2>3, HistoryPrefix
        <3>2. births'[k + 1].push_index = Len(pushed) /\ k # Len(births')
            BY <1>3, <1>4, <2>3
        <3>3. SubSeq(pushed', 1, Len(pushed)) = pushed
            BY <1>0, <2>1, HistoryPrefix
        <3>4. PushedBefore(k)' = Range(pushed)
            BY <3>2, <3>3 DEF PushedBefore
        <3>5. births'[k + 1].push_index <= Len(pushed')
            BY <2>1, <3>2
        <3> QED BY <1>7, <3>1, <3>4, <3>5
    <2>4. CASE k # n /\ k # Len(births)
        <3>1. k \in 0..Len(births) /\ k < Len(births) /\ k + 1 \in DOMAIN births /\ k # Len(births')
            BY <1>0, <1>4, <2>4
        <3> DEFINE i == births[k + 1].push_index
        <3>2. i \in Nat /\ i <= Len(pushed) /\ births'[k + 1] = births[k + 1]
            <4>1. births[k + 1] \in Birth
                BY <1>0, <3>1
            <4>2. births[k + 1].push_index <= Len(pushed)
                BY <1>0, <3>1 DEF BirthsSpan
            <4>3. births'[k + 1] = births[k + 1]
                BY <1>4, <3>1
            <4> QED BY <4>1, <4>2, <4>3 DEF Birth
        <3>3. SubSeq(pushed', 1, i) = SubSeq(pushed, 1, i)
            BY <1>0, <3>2, HistoryPrefix
        <3>4. PushedBefore(k)' = PushedBefore(k)
            BY <2>4, <3>1, <3>2, <3>3 DEF PushedBefore
        <3>5. SubSeq(births', 1, k) = SubSeq(births, 1, k)
            BY <1>0, <1>3, <3>1, HistoryPrefix
        <3>6. births'[k + 1].push_index <= Len(pushed')
            BY <2>1, <3>2
        <3>7. Spanned(SubSeq(births, 1, k)) = Span(PushedBefore(k))
            BY <1>0, <3>1 DEF BirthsSpan
        <3> HIDE DEF i
        <3> QED BY <3>4, <3>5, <3>6, <3>7
    <2> QED BY <1>4, <2>2, <2>3, <2>4
<1> QED
    BY <1>4, <1>6, <1>9

-----------------------------------------------------------------------------
(* The invariant is inductive.                                               *)

\* The empty window and the empty birth table satisfy the invariant.
LEMMA InitIInv == RingInit => IInv
<1> SUFFICES ASSUME RingInit PROVE IInv
    OBVIOUS
<1>1. PICK evict \in BOOLEAN : ring = EmptyWindow(evict)
    BY DEF RingInit
<1>2. births = <<>> /\ pushed = <<>> /\ ring.rows = <<>> /\ ring.originals = <<>>
    BY <1>1 DEF RingInit, EmptyWindow
<1>3. Echelon(<<>>)
    BY DEF Echelon
<1>4. RingTyped
    BY <1>1, <1>2, <1>3 DEF RingTyped, EmptyWindow, rows
<1>5. Generators = {} /\ Range(pushed) = {}
    BY <1>2 DEF Generators, Range
<1>6. RowsSpan
    BY <1>2, <1>5, RingPositions, SpannedNothing DEF RowsSpan, rows
<1>7. BirthsAligned
    BY <1>2, <1>3 DEF BirthsAligned, rows
<1>8. BirthsSpan
    <2> SUFFICES ASSUME NEW k \in 0..Len(births)
                 PROVE  /\ k < Len(births) => births[k + 1].push_index <= Len(pushed)
                        /\ Spanned(SubSeq(births, 1, k)) = Span(PushedBefore(k))
        BY DEF BirthsSpan
    <2>1. k = 0 /\ Len(births) = 0 /\ SubSeq(births, 1, k) = <<>>
        BY <1>2
    <2>2. PushedBefore(k) = {}
        BY <1>5, <2>1 DEF PushedBefore
    <2>3. Spanned(SubSeq(births, 1, k)) = {{}} /\ Span(PushedBefore(k)) = {{}}
        BY <2>1, <2>2, RingPositions, SpannedNothing
    <2>4. ~(k < Len(births))
        BY <2>1
    <2> QED BY <2>3, <2>4
<1> QED
    BY <1>4, <1>6, <1>7, <1>8 DEF IInv

\* push_recorded keeps it: typed rows in echelon form, their span, and the
\* births aligned with them.
LEMMA PushIInv ==
    ASSUME IInv, NEW x \in Originals, Push(x)
    PROVE  IInv'
<1>0. RingTyped /\ RowsSpan /\ (~ring.evict => BirthsAligned /\ BirthsSpan)
    BY DEF IInv
<1>1. /\ rows' \in Seq(Row) /\ Echelon(rows') /\ Spanned(rows') = Span(Generators')
    BY <1>0, PushedRows
<1>2. /\ ring' = [ring EXCEPT !.rows = rows', !.originals = NextOriginals(ring, x),
                             !.generation = @ + Bumps(ring, x), !.total = @ + 1]
      /\ pushed' = Append(pushed, x) /\ pushed \in Seq(Originals)
      /\ NextOriginals(ring, x) \in Seq(Originals)
    <2>1. rows' = NextRows(ring, x)
        BY <1>0 DEF Push, Pushed, RingTyped, rows
    <2>2. pushed \in Seq(Originals) /\ ring.originals \in Seq(Originals)
        BY <1>0 DEF RingTyped
    <2> QED BY <2>1, <2>2, NextOriginalsType DEF Push, Pushed
<1>3. Bumps(ring, x) \in Nat
    BY DEF Bumps
<1>4. ring'.evict = ring.evict
    BY <1>0, <1>2 DEF RingTyped
<1>5. births' \in Seq(Birth) /\ (~ring.evict => BirthsAligned' /\ BirthsSpan')
    <2>1. CASE IsBirth(ring, x)
        BY <1>0, <2>1, NewBirth
    <2>2. CASE ~IsBirth(ring, x)
        BY <1>0, <2>2, NoBirth DEF RingTyped
    <2> QED BY <2>1, <2>2
<1>6. RingTyped'
    <2>1. ring' \in [rows : Seq(Row), originals : Seq(Originals), generation : Nat,
                     total : Nat, evict : BOOLEAN]
        <3> DEFINE T == [rows : Seq(Row), originals : Seq(Originals), generation : Nat,
                         total : Nat, evict : BOOLEAN]
                   o == NextOriginals(ring, x)
                   b == Bumps(ring, x)
                   s == ring'.rows
        <3>1. ring \in T
            BY <1>0 DEF RingTyped
        <3>2. ring.generation \in Nat /\ ring.total \in Nat
            BY <3>1
        <3>3. s \in Seq(Row) /\ o \in Seq(Originals) /\ ring.generation + b \in Nat
              /\ ring.total + 1 \in Nat
            BY <1>1, <1>2, <1>3, <3>2 DEF rows
        <3>4. ring' = [ring EXCEPT !.rows = s, !.originals = o, !.generation = @ + b,
                                   !.total = @ + 1]
            BY <1>2 DEF rows
        <3> HIDE DEF o, b, s
        <3> QED BY <3>1, <3>3, <3>4
    <2>2. ring'.total = Len(pushed') /\ pushed' \in Seq(Originals)
        BY <1>0, <1>2 DEF RingTyped
    <2> QED BY <1>1, <1>5, <2>1, <2>2 DEF RingTyped
<1>7. RowsSpan'
    BY <1>1 DEF RowsSpan
<1> QED
    BY <1>4, <1>5, <1>6, <1>7 DEF IInv

\* The inductive invariant: the state is typed, the rows span the generators,
\* and every prefix of the births spans the history up to the next birth.
THEOREM RingInductive == RingInit /\ [][RingNext]_ring_vars => []IInv
<1>1. IInv /\ [RingNext]_ring_vars => IInv'
    <2> SUFFICES ASSUME IInv, [RingNext]_ring_vars PROVE IInv'
        OBVIOUS
    <2>1. CASE RingNext
        BY <2>1, PushIInv DEF RingNext
    <2>2. CASE UNCHANGED ring_vars
        <3>1. ring' = ring /\ births' = births /\ pushed' = pushed
            BY <2>2 DEF ring_vars
        <3> QED BY <3>1 DEF IInv, RingTyped, RowsSpan, BirthsAligned, BirthsSpan, PushedBefore,
                            Generators, rows
    <2> QED BY <2>1, <2>2
<1> QED
    BY <1>1, InitIInv, PTL

-----------------------------------------------------------------------------
(* What the queries promise.                                                 *)

\* What the invariant says of the span is all that contains and coordinates
\* need.
LEMMA SpanExactHolds == IInv => SpanExact
<1> SUFFICES ASSUME IInv, NEW x \in Probes
             PROVE  /\ InSpan(rows, x) <=> x \in Span(Generators)
                    /\ x \in Span(Generators) =>
                          \A C \in SUBSET DOMAIN rows :
                             Reconstruct(rows, C) = x <=> C \in LinearCover(rows, x)
    BY DEF SpanExact
<1>1. Positions /\ x \in SUBSET Bits /\ rows \in Seq(Row) /\ Echelon(rows)
    BY RingPositions DEF IInv, RingTyped, rows
<1>2. IsFiniteSet(DOMAIN rows)
    <2>1. DOMAIN rows = 1..Len(rows) /\ Len(rows) \in Nat
        BY <1>1
    <2> QED BY <2>1, FS_Interval
<1>3. InSpan(rows, x) <=> x \in Span(Generators)
    BY <1>1, SpannedIsInSpan DEF IInv, RowsSpan
<1>4. ASSUME x \in Span(Generators), NEW C \in SUBSET DOMAIN rows
      PROVE  Reconstruct(rows, C) = x <=> C \in LinearCover(rows, x)
    <2>1. Reconstruct(rows, C) = x <=> C = Coordinates(rows, x)
        BY <1>1, <1>2, <1>3, <1>4, CoordinatesUnique
    <2> QED BY <1>3, <1>4, <2>1 DEF LinearCover
<1> QED
    BY <1>3, <1>4

\* contains decides exactly the sums of the generators, monotone or windowed,
\* and the coordinates are the one key of a set in the span.
THEOREM RingSpanExact == RingInit /\ [][RingNext]_ring_vars => []SpanExact
BY RingInductive, SpanExactHolds, PTL

\* Each prefix of the births spans what was pushed before the next one.
LEMMA FlagExactHolds == IInv => FlagExact
<1> SUFFICES ASSUME IInv, ~ring.evict
             PROVE  /\ \A k \in 0..Len(births) : \A x \in Probes :
                          Membership(x, k) <=> x \in Span(PushedBefore(k))
                    /\ \A x \in Probes : \A C \in Signature(x) : Reconstruct(births, C) = x
                    /\ Cover(births) = UNION Range(pushed)
    BY DEF FlagExact
<1>1. Positions /\ births \in Seq(Birth) /\ Echelon(births) /\ BirthsSpan /\ Probes \subseteq SUBSET Bits
      /\ pushed \in Seq(Originals)
    BY RingPositions DEF IInv, RingTyped, BirthsAligned
<1>2. DOMAIN births = 1..Len(births) /\ Len(births) \in Nat /\ IsFiniteSet(DOMAIN births)
    <2>1. DOMAIN births = 1..Len(births) /\ Len(births) \in Nat
        BY <1>1
    <2> QED BY <2>1, FS_Interval
<1>3. ASSUME NEW k \in 0..Len(births), NEW x \in Probes
      PROVE  Membership(x, k) <=> x \in Span(PushedBefore(k))
    <2>1. Spanned(SubSeq(births, 1, k)) = Span(PushedBefore(k)) /\ x \in SUBSET Bits
        BY <1>1 DEF BirthsSpan
    <2> QED BY <2>1, SpannedIsInSpan DEF Membership
<1>4. ASSUME NEW x \in Probes, NEW C \in Signature(x)
      PROVE  Reconstruct(births, C) = x
    <2>1. InSpan(births, x) /\ C = Coordinates(births, x) /\ x \in SUBSET Bits
        BY <1>1, <1>4 DEF Signature, LinearCover
    <2>2. C \in SUBSET DOMAIN births
        BY <1>1, <2>1, ResidualCases
    <2> QED BY <1>1, <1>2, <2>1, <2>2, CoordinatesUnique
<1>5. Cover(births) = UNION Range(pushed)
    <2>1. SubSeq(births, 1, Len(births)) = births
        BY <1>1, <1>2
    <2>2. Spanned(births) = Span(PushedBefore(Len(births)))
        <3>1. Len(births) \in 0..Len(births)
            BY <1>2
        <3>2. Spanned(SubSeq(births, 1, Len(births))) = Span(PushedBefore(Len(births)))
            BY <1>1, <3>1 DEF BirthsSpan
        <3> QED BY <2>1, <3>2
    <2>3. Spanned(births) = Span(Range(pushed))
        BY <2>2 DEF PushedBefore
    <2> QED BY <1>1, <2>3, CoverSpanned, SpanUnion, HistoryGenerates
<1> QED
    BY <1>3, <1>4, <1>5

\* The lineage is a flag: membership(x, k) dates every set in the history, the
\* signature reconstructs it, and the births cover what was pushed.
THEOREM RingFlagExact == RingInit /\ [][RingNext]_ring_vars => []FlagExact
BY RingInductive, FlagExactHolds, PTL

-----------------------------------------------------------------------------
(* What a push does to vectors measured before it.                           *)

\* The rows that a monotone push rotates change by the residual, the others
\* by nothing.
LEMMA RotationMass ==
    ASSUME Positions, NEW table \in Seq(Row), Echelon(table), NEW x \in SUBSET Bits
    PROVE  Cardinality(Rotated(table, Residual(table, x))) * Cardinality(Residual(table, x))
             = Mass(table, Insert(table, x))
<1> DEFINE r == Residual(table, x)
           R == Rotated(table, r)
           c == Cardinality(r)
           new == Insert(table, x)
<1>1. r \in SUBSET Bits
    BY ResidualCases
<1>2. c \in Nat /\ (r = {} => c = 0)
    <2>1. IsFiniteSet(r)
        BY <1>1, FS_Subset DEF Positions
    <2> HIDE DEF r
    <2> QED BY <2>1, FS_CardinalityType, FS_EmptySet
<1>3. R \in SUBSET DOMAIN table
    BY DEF Rotated
<1>4. ASSUME NEW j \in DOMAIN table
      PROVE  SymmetricDifference(table[j].vec, new[j].vec) = IF j \in R THEN r ELSE {}
    <2>1. CASE r = {}
        <3>1. new[j] = table[j] /\ j \notin R
            BY <2>1, InsertEchelon DEF InSpan, Rotated
        <3> QED BY <3>1, SumFacts
    <2>2. CASE r # {}
        <3>1. new[j] = Cleared(table, r)[j]
            BY <2>2, InsertRows DEF InSpan
        <3> HIDE DEF r, new
        <3>2. Cleared(table, r)[j] = IF j \in R THEN [table[j] EXCEPT !.vec = SymmetricDifference(@, r)]
                                     ELSE table[j]
            BY DEF Cleared
        <3>3. table[j] \in Row
            OBVIOUS
        <3>4. CASE j \in R
            <4>1. new[j].vec = SymmetricDifference(table[j].vec, r)
                BY <3>1, <3>2, <3>3, <3>4 DEF Row
            <4> QED BY <3>4, <4>1, SumFacts
        <3>5. CASE j \notin R
            <4>1. new[j] = table[j]
                BY <3>1, <3>2, <3>5
            <4> QED BY <3>5, <4>1, SumFacts
        <3> QED BY <3>4, <3>5
    <2> QED BY <2>1, <2>2
<1>5. \A j \in DOMAIN table : MassOf(table, new, j) = IF j \in R THEN c ELSE 0
    <2> TAKE j \in DOMAIN table
    <2>1. CASE j \in R
        BY <1>4, <2>1 DEF MassOf
    <2>2. CASE j \notin R
        BY <1>4, <2>2, FS_EmptySet DEF MassOf
    <2> QED BY <2>1, <2>2
<1>6. IsFiniteSet(DOMAIN table)
    <2>1. DOMAIN table = 1..Len(table) /\ Len(table) \in Nat
        OBVIOUS
    <2> QED BY <2>1, FS_Interval
<1>7. Mass(table, new) = Cardinality(R) * c
    <2> HIDE DEF R, c, new
    <2> QED BY <1>2, <1>3, <1>5, <1>6, MassIs
<1> QED
    BY <1>7

\* One push: a new generation whenever the rows change, and in monotone mode
\* every coordinate vector carried over with the mass of the bits it changes.
LEMMA PushBasisChange ==
    ASSUME IInv, NEW x \in Originals, Push(x)
    PROVE  /\ rows' # rows => ring.generation' > ring.generation
           /\ ~ring.evict =>
                /\ \A C \in SUBSET DOMAIN rows :
                      LinearCover(rows', Reconstruct(rows, C)) = {Carried(rows', rows, C)}
                /\ RingStats(ring, Last(pushed')).rotation_mass = Mass(rows, rows')
<1>1. /\ Positions /\ x \in SUBSET Bits /\ rows \in Seq(Row) /\ Echelon(rows)
      /\ rows' = NextRows(ring, x) /\ ring.generation' = ring.generation + Bumps(ring, x)
      /\ ring.generation \in Nat /\ pushed' = Append(pushed, x) /\ pushed \in Seq(Originals)
    BY RingPositions DEF IInv, RingTyped, rows, Push, Pushed
<1>2. ASSUME rows' # rows PROVE ring.generation' > ring.generation
    <2>1. Bumps(ring, x) >= 1 /\ Bumps(ring, x) \in Nat
        <3>1. CASE Rebuilds(ring)
            BY <3>1 DEF Bumps
        <3>2. CASE ~Rebuilds(ring)
            <4>1. rows' = Insert(rows, x)
                BY <1>1, <3>2 DEF NextRows, rows
            <4>2. ~InSpan(ring.rows, x)
                BY <1>1, <1>2, <4>1, InsertEchelon DEF rows
            <4> QED BY <4>2 DEF Bumps
        <3> QED BY <3>1, <3>2
    <2> QED BY <1>1, <2>1
<1>3. ASSUME ~ring.evict
      PROVE  /\ \A C \in SUBSET DOMAIN rows :
                   LinearCover(rows', Reconstruct(rows, C)) = {Carried(rows', rows, C)}
             /\ RingStats(ring, Last(pushed')).rotation_mass = Mass(rows, rows')
    <2>1. rows' = Insert(rows, x)
        BY <1>1, <1>3 DEF NextRows, Rebuilds, rows
    <2>2. rows' \in Seq(Row) /\ Echelon(rows')
        BY <1>1, <2>1, InsertEchelon
    <2>3. IsFiniteSet(DOMAIN rows) /\ IsFiniteSet(DOMAIN rows')
        <3>1. /\ DOMAIN rows = 1..Len(rows) /\ Len(rows) \in Nat
              /\ DOMAIN rows' = 1..Len(rows') /\ Len(rows') \in Nat
            BY <1>1, <2>2
        <3> QED BY <3>1, FS_Interval
    <2>4. ASSUME NEW j \in DOMAIN rows PROVE InSpan(rows', rows[j].vec)
        <3>1. rows[j].vec \in SUBSET Bits
            BY <1>1, RowFacts
        <3>2. InSpan(rows, rows[j].vec)
            <4>1. SymmetricDifference({}, rows[j].vec) \in Spanned(rows)
                BY <1>1, SpannedClosed DEF Closed
            <4> QED BY <4>1, SumFacts, SpannedIsInSpan, <3>1
        <3> QED BY <1>1, <2>1, <3>1, <3>2, InsertKeeps
    <2>5. \A C \in SUBSET DOMAIN rows :
              LinearCover(rows', Reconstruct(rows, C)) = {Carried(rows', rows, C)}
        BY <1>1, <2>2, <2>3, <2>4, ChangeCarries
    <2>6. Last(pushed') = x
        BY <1>1 DEF Last
    <2>7. RingStats(ring, x).rotation_mass
            = Cardinality(Rotated(rows, Residual(rows, x))) * Cardinality(Residual(rows, x))
        BY DEF RingStats, rows
    <2> QED BY <1>1, <2>1, <2>5, <2>6, <2>7, RotationMass
<1> QED
    BY <1>2, <1>3

\* Coordinate vectors outlive a push: the generation moves when the rows do,
\* and in monotone mode change_of_basis carries each vector over and the
\* rotation mass is the number of bits that change in the old rows.
THEOREM RingBasisChange == RingInit /\ [][RingNext]_ring_vars => BasisChange
<1> DEFINE Moved ==
        /\ rows' # rows => ring.generation' > ring.generation
        /\ ~ring.evict =>
             /\ \A C \in SUBSET DOMAIN rows :
                   LinearCover(rows', Reconstruct(rows, C)) = {Carried(rows', rows, C)}
             /\ RingStats(ring, Last(pushed')).rotation_mass = Mass(rows, rows')
<1>1. IInv /\ [RingNext]_ring_vars => [Moved]_ring_vars
    BY PushBasisChange DEF RingNext
<1>2. RingInit /\ [][RingNext]_ring_vars => [][Moved]_ring_vars
    <2> HIDE DEF Moved
    <2> QED BY <1>1, RingInductive, PTL
<1>3. Moved => /\ rows' # rows => ring.generation' > ring.generation
               /\ ~ring.evict =>
                    /\ \A C \in SUBSET DOMAIN rows :
                          LinearCover(rows', Reconstruct(rows, C)) =
                            {FoldSet(LAMBDA j, acc : SymmetricDifference(acc, UNION ChangeOfBasis(rows', rows)[j]),
                                     {}, C)}
                    /\ RingStats(ring, Last(pushed')).rotation_mass =
                         MapThenSumSet(LAMBDA j : Cardinality(SymmetricDifference(rows[j].vec, rows'[j].vec)),
                                       DOMAIN rows)
    BY DEF Carried, Mass
<1> QED
    BY <1>2, <1>3, PTL DEF BasisChange

-----------------------------------------------------------------------------
(* Totals over finite sets.                                                    *)

TotalStep(f, g, s) == IF s = {} THEN 0 ELSE f[SomeOf(s)] + g[s \ {SomeOf(s)}]

\* The sums of f over the subsets of S.
Totals(f, S) == CHOOSE g : g = [s \in SUBSET S |-> TotalStep(f, g, s)]

Valued(f, S) == \A x \in S : f[x] \in Nat

AreSums(r, f, S) ==
    /\ r \in [SUBSET S -> Nat]
    /\ r[{}] = 0
    /\ \A s \in SUBSET S : s # {} => r[s] = f[SomeOf(s)] + r[s \ {SomeOf(s)}]

\* They are numbers, and the order in which the elements are taken does not matter.
LEMMA SumsAre ==
    ASSUME NEW S, IsFiniteSet(S), NEW f, Valued(f, S)
    PROVE  AreSums(Totals(f, S), f, S)
<1> DEFINE pick == [s \in SUBSET S |-> SomeOf(s)]
           step == [x \in S |-> [v \in Nat |-> f[x] + v]]
<1>1. \A s \in SUBSET S : pick[s] = SomeOf(s) /\ (s # {} => pick[s] \in s)
    BY DEF SomeOf
<1>2. \A x \in S, v \in Nat : step[x][v] = f[x] + v /\ step[x][v] \in Nat
    BY DEF Valued
<1> HIDE DEF pick, step
<1>3. PICK g \in [SUBSET S -> Nat] : Folds(g, S, 0, pick, step)
    <2>1. \A s \in SUBSET S : s # {} => pick[s] \in s
        BY <1>1
    <2>2. \A x \in S, v \in Nat : step[x][v] \in Nat
        BY <1>2
    <2>3. 0 \in Nat
        OBVIOUS
    <2> QED BY <2>1, <2>2, <2>3, FoldExists
<1>4. ASSUME NEW s \in SUBSET S
      PROVE  g[s] = TotalStep(f, g, s)
    <2>1. CASE s = {}
        BY <1>3, <2>1 DEF TotalStep, Folds
    <2>2. CASE s # {}
        <3>1. pick[s] = SomeOf(s) /\ pick[s] \in S /\ s \ {pick[s]} \in SUBSET S
            BY <1>1, <2>2
        <3>2. g[s \ {pick[s]}] \in Nat
            BY <3>1
        <3>3. step[pick[s]][g[s \ {pick[s]}]] = f[pick[s]] + g[s \ {pick[s]}]
            BY <1>2, <3>1, <3>2
        <3> QED BY <1>3, <2>2, <3>1, <3>3 DEF TotalStep, Folds
    <2> QED BY <2>1, <2>2
<1>5. g = [s \in SUBSET S |-> TotalStep(f, g, s)]
    BY <1>4
<1> DEFINE r == Totals(f, S)
<1>6. r = [s \in SUBSET S |-> TotalStep(f, r, s)]
    BY <1>5 DEF Totals
<1> HIDE DEF r
<1> DEFINE G == {s \in SUBSET S : \A t \in SUBSET s : r[t] = g[t]}
<1>7. \A s \in SUBSET S : s # {} =>
        /\ r[s] = f[SomeOf(s)] + r[s \ {SomeOf(s)}]
        /\ g[s] = f[SomeOf(s)] + g[s \ {SomeOf(s)}]
        /\ SomeOf(s) \in s
    BY <1>4, <1>6 DEF TotalStep, SomeOf
<1>8. r[{}] = 0 /\ g[{}] = 0
    BY <1>4, <1>6 DEF TotalStep
<1>9. ASSUME NEW s \in SUBSET S PROVE r[s] = g[s]
    <2> DEFINE H == {t \in SUBSET s : r[t] = g[t]}
    <2>1. {} \in H
        BY <1>8
    <2>2. ASSUME NEW t \in SUBSET s, t # {}, t \ {SomeOf(t)} \in H
          PROVE  t \in H
        BY <1>7, <2>2
    <2>3. IsFiniteSet(s)
        BY FS_Subset
    <2> HIDE DEF H
    <2>4. s \in H
        BY <2>1, <2>2, <2>3, SubsetInduction
    <2> QED BY <2>4 DEF H
<1>10. r \in [SUBSET S -> Nat]
    BY <1>6, <1>9
<1>11. AreSums(r, f, S)
    BY <1>7, <1>8, <1>10 DEF AreSums
<1> QED BY <1>11 DEF r

AnyTaken(r, f, S) == \A t \in SUBSET S : \A a \in t : r[t] = f[a] + r[t \ {a}]

\* Any element may be taken out.
LEMMA SumsTake ==
    ASSUME NEW S, IsFiniteSet(S), NEW f, Valued(f, S)
    PROVE  AnyTaken(Totals(f, S), f, S)
<1> SUFFICES ASSUME NEW t \in SUBSET S, NEW a \in t
             PROVE  Totals(f, S)[t] = f[a] + Totals(f, S)[t \ {a}]
    BY DEF AnyTaken
<1> DEFINE r == Totals(f, S)
           G == {s \in SUBSET S : \A x \in s : r[s] = f[x] + r[s \ {x}]}
<1>1. /\ \A s \in SUBSET S : r[s] \in Nat
      /\ \A s \in SUBSET S : s # {} => r[s] = f[SomeOf(s)] + r[s \ {SomeOf(s)}]
      /\ \A x \in S : f[x] \in Nat
    BY SumsAre, ZenonT(60) DEF Valued, AreSums
<1> HIDE DEF r
<1>2. ASSUME NEW s \in SUBSET t, \A u \in SUBSET s : u # s => u \in G
      PROVE  s \in G
    <2> SUFFICES ASSUME NEW x \in s
                 PROVE  r[s] = f[x] + r[s \ {x}]
        OBVIOUS
    <2> DEFINE p == SomeOf(s)
    <2>1. p \in s /\ r[s] = f[p] + r[s \ {p}]
        BY <1>1 DEF SomeOf
    <2>2. CASE x = p
        BY <2>1, <2>2
    <2>3. CASE x # p
        <3> HIDE DEF p
        <3> DEFINE u == s \ {p}
                   v == s \ {x}
        <3>1. u \in SUBSET s /\ u # s /\ v \in SUBSET s /\ v # s /\ x \in u /\ p \in v
            BY <2>1, <2>3
        <3>2. u \in G /\ v \in G
            BY <1>2, <3>1
        <3>3. r[u] = f[x] + r[u \ {x}] /\ r[v] = f[p] + r[v \ {p}]
            BY <3>1, <3>2
        <3>4. u \ {x} = v \ {p} /\ u \ {x} \in SUBSET S
            OBVIOUS
        <3>5. f[x] \in Nat /\ f[p] \in Nat /\ r[u \ {x}] \in Nat
            BY <1>1, <2>1, <3>4
        <3> HIDE DEF u, v
        <3>6. r[s] = f[p] + (f[x] + r[u \ {x}])
            BY <2>1, <3>3 DEF u
        <3>7. r[v] = f[p] + r[u \ {x}]
            BY <3>3, <3>4
        <3>8. r[s] = f[x] + r[v]
            BY <3>5, <3>6, <3>7
        <3> QED BY <3>8 DEF v
    <2> QED BY <2>2, <2>3
<1>3. Hereditary(t, G)
    BY <1>2 DEF Hereditary
<1>4. IsFiniteSet(t)
    BY FS_Subset
<1> HIDE DEF G
<1>5. t \in G
    BY <1>3, <1>4, StrongInduction
<1> QED BY <1>5 DEF G, r

\* A sum is at least two others when it is so for every element.
LEMMA SumsLess ==
    ASSUME NEW S, IsFiniteSet(S), NEW f, NEW g, NEW h,
           Valued(f, S), Valued(g, S), Valued(h, S), \A x \in S : f[x] + g[x] <= h[x]
    PROVE  Totals(f, S)[S] + Totals(g, S)[S] <= Totals(h, S)[S]
<1> DEFINE p == Totals(f, S)
           q == Totals(g, S)
           r == Totals(h, S)
           G == {s \in SUBSET S : p[s] + q[s] <= r[s]}
<1>0. AreSums(p, f, S) /\ AreSums(q, g, S) /\ AreSums(r, h, S)
    BY SumsAre
<1> HIDE DEF p, q, r
<1>1. /\ \A s \in SUBSET S : p[s] \in Nat /\ q[s] \in Nat /\ r[s] \in Nat
      /\ p[{}] = 0 /\ q[{}] = 0 /\ r[{}] = 0
      /\ \A s \in SUBSET S : s # {} => /\ p[s] = f[SomeOf(s)] + p[s \ {SomeOf(s)}]
                                       /\ q[s] = g[SomeOf(s)] + q[s \ {SomeOf(s)}]
                                       /\ r[s] = h[SomeOf(s)] + r[s \ {SomeOf(s)}]
    BY <1>0 DEF AreSums
<1>2. {} \in G
    BY <1>1
<1>3. ASSUME NEW s \in SUBSET S, s # {}, s \ {SomeOf(s)} \in G
      PROVE  s \in G
    <2> DEFINE a == SomeOf(s)
               u == s \ {a}
    <2>1. a \in S
        BY <1>3 DEF SomeOf
    <2>2. f[a] \in Nat /\ g[a] \in Nat /\ h[a] \in Nat /\ f[a] + g[a] <= h[a]
        BY <2>1 DEF Valued
    <2>3. p[u] \in Nat /\ q[u] \in Nat /\ r[u] \in Nat /\ p[u] + q[u] <= r[u]
        BY <1>1, <1>3
    <2>4. p[s] = f[a] + p[u] /\ q[s] = g[a] + q[u] /\ r[s] = h[a] + r[u]
        BY <1>1, <1>3
    <2> HIDE DEF a, u
    <2>5. p[s] + q[s] <= r[s]
        BY <2>2, <2>3, <2>4
    <2> QED BY <2>5
<1> HIDE DEF G
<1>4. S \in G
    BY <1>2, <1>3, SubsetInduction
<1> QED BY <1>4 DEF G, p, q, r

\* A sum of terms that are all multiples of a number, or of one term.
LEMMA SumsScale ==
    ASSUME NEW S, IsFiniteSet(S), NEW f, NEW h, Valued(f, S), NEW c \in Nat,
           Valued(h, S), \A x \in S : h[x] = f[x] * c
    PROVE  Totals(h, S)[S] = Totals(f, S)[S] * c
<1> DEFINE p == Totals(f, S)
           r == Totals(h, S)
           G == {s \in SUBSET S : r[s] = p[s] * c}
<1>0. AreSums(p, f, S) /\ AreSums(r, h, S)
    BY SumsAre
<1> HIDE DEF p, r
<1>1. /\ \A s \in SUBSET S : p[s] \in Nat /\ r[s] \in Nat
      /\ p[{}] = 0 /\ r[{}] = 0
      /\ \A s \in SUBSET S : s # {} => /\ p[s] = f[SomeOf(s)] + p[s \ {SomeOf(s)}]
                                       /\ r[s] = h[SomeOf(s)] + r[s \ {SomeOf(s)}]
    BY <1>0 DEF AreSums
<1>2. {} \in G
    <2>1. 0 * c = 0
        OBVIOUS
    <2> QED BY <1>1, <2>1
<1>3. ASSUME NEW s \in SUBSET S, s # {}, s \ {SomeOf(s)} \in G
      PROVE  s \in G
    <2> DEFINE a == SomeOf(s)
               u == s \ {a}
    <2>1. a \in S
        BY <1>3 DEF SomeOf
    <2>2. f[a] \in Nat /\ h[a] \in Nat /\ h[a] = f[a] * c
        BY <2>1 DEF Valued
    <2>3. p[u] \in Nat /\ r[u] \in Nat /\ r[u] = p[u] * c
        BY <1>1, <1>3
    <2>4. p[s] = f[a] + p[u] /\ r[s] = h[a] + r[u]
        BY <1>1, <1>3
    <2> HIDE DEF a, u
    <2>5. \A k, m \in Nat : (k + m) * c = (k * c) + (m * c)
        OBVIOUS
    <2>6. (f[a] + p[u]) * c = (f[a] * c) + (p[u] * c)
        BY <2>2, <2>3, <2>5
    <2>7. r[s] = p[s] * c
        BY <2>2, <2>3, <2>4, <2>6
    <2> QED BY <2>7
<1> HIDE DEF G
<1>4. S \in G
    BY <1>2, <1>3, SubsetInduction
<1> QED BY <1>4 DEF G, p, r

\* A sum of terms that are at most c.
LEMMA SumsAtMost ==
    ASSUME NEW S, IsFiniteSet(S), NEW f, Valued(f, S), NEW c \in Nat, \A x \in S : f[x] <= c
    PROVE  Totals(f, S)[S] <= c * Cardinality(S)
<1> DEFINE p == Totals(f, S)
           G == {s \in SUBSET S : p[s] <= c * Cardinality(s)}
<1>0. AreSums(p, f, S)
    BY SumsAre
<1> HIDE DEF p
<1>1. /\ \A s \in SUBSET S : p[s] \in Nat
      /\ p[{}] = 0
      /\ \A s \in SUBSET S : s # {} => p[s] = f[SomeOf(s)] + p[s \ {SomeOf(s)}]
    BY <1>0 DEF AreSums
<1>2. {} \in G
    <2>1. Cardinality({}) = 0
        BY FS_EmptySet
    <2>2. c * 0 = 0
        OBVIOUS
    <2>3. p[{}] <= c * Cardinality({})
        BY <1>1, <2>1, <2>2
    <2> QED BY <2>3
<1>3. ASSUME NEW s \in SUBSET S, s # {}, s \ {SomeOf(s)} \in G
      PROVE  s \in G
    <2> DEFINE a == SomeOf(s)
               u == s \ {a}
    <2>1. a \in S /\ a \in s
        BY <1>3 DEF SomeOf
    <2>2. f[a] \in Nat /\ f[a] <= c
        BY <2>1 DEF Valued
    <2>3. p[u] \in Nat /\ p[u] <= c * Cardinality(u)
        BY <1>1, <1>3
    <2>4. p[s] = f[a] + p[u]
        BY <1>1, <1>3
    <2>5. Cardinality(u) \in Nat /\ Cardinality(s) = Cardinality(u) + 1
        <3>1. IsFiniteSet(s)
            BY FS_Subset
        <3> HIDE DEF a
        <3>2. Cardinality(u) = Cardinality(s) - 1 /\ IsFiniteSet(u)
            BY <2>1, <3>1, FS_RemoveElement
        <3>3. Cardinality(s) \in Nat /\ Cardinality(u) \in Nat
            BY <3>1, <3>2, FS_CardinalityType
        <3> QED BY <3>2, <3>3
    <2> HIDE DEF a, u
    <2>6. \A k \in Nat : c * (k + 1) = (c * k) + c /\ c * k \in Nat
        OBVIOUS
    <2>7. c * Cardinality(s) = (c * Cardinality(u)) + c /\ c * Cardinality(u) \in Nat
        BY <2>5, <2>6
    <2>8. p[s] <= c * Cardinality(s)
        BY <2>2, <2>3, <2>4, <2>7
    <2> QED BY <2>8
<1> HIDE DEF G
<1>4. S \in G
    BY <1>2, <1>3, SubsetInduction
<1> QED BY <1>4 DEF G, p

\* The parts of R that cover it add up to at least its size.
LEMMA SumsCover ==
    ASSUME NEW S, IsFiniteSet(S), NEW R, IsFiniteSet(R), NEW V, NEW f,
           \A x \in S : f[x] = Cardinality(R \cap V[x]), R \subseteq UNION {V[x] : x \in S}
    PROVE  Valued(f, S) /\ Cardinality(R) <= Totals(f, S)[S]
<1> DEFINE p == Totals(f, S)
           W(s) == R \cap UNION {V[x] : x \in s}
           G == {s \in SUBSET S : Cardinality(W(s)) <= p[s]}
<1>1. Valued(f, S)
    <2> SUFFICES ASSUME NEW x \in S
                 PROVE  f[x] \in Nat
        BY DEF Valued
    <2>1. IsFiniteSet(R \cap V[x])
        BY FS_Subset
    <2> QED BY <2>1, FS_CardinalityType
<1>0. AreSums(p, f, S)
    BY <1>1, SumsAre
<1> HIDE DEF p
<1>2. /\ \A s \in SUBSET S : p[s] \in Nat
      /\ p[{}] = 0
      /\ \A s \in SUBSET S : s # {} => p[s] = f[SomeOf(s)] + p[s \ {SomeOf(s)}]
    BY <1>0 DEF AreSums
<1>3. {} \in G
    <2>1. W({}) = {}
        OBVIOUS
    <2> HIDE DEF W
    <2>2. Cardinality(W({})) = 0
        BY <2>1, FS_EmptySet
    <2> QED BY <1>2, <2>2
<1>4. ASSUME NEW s \in SUBSET S, s # {}, s \ {SomeOf(s)} \in G
      PROVE  s \in G
    <2> DEFINE a == SomeOf(s)
               u == s \ {a}
               A == R \cap V[a]
    <2>1. a \in S /\ a \in s
        BY <1>4 DEF SomeOf
    <2>2. W(s) = A \cup W(u)
        BY <2>1
    <2>3. f[a] = Cardinality(A)
        BY <2>1
    <2>4. p[u] \in Nat /\ Cardinality(W(u)) <= p[u]
        BY <1>2, <1>4
    <2>5. p[s] = f[a] + p[u]
        BY <1>2, <1>4
    <2>6. IsFiniteSet(A) /\ IsFiniteSet(W(u)) /\ IsFiniteSet(A \cap W(u))
        BY FS_Subset
    <2> HIDE DEF a, u, A, W
    <2>7. Cardinality(A \cup W(u)) = Cardinality(A) + Cardinality(W(u)) - Cardinality(A \cap W(u))
        BY <2>6, FS_Union
    <2>8. /\ Cardinality(A) \in Nat /\ Cardinality(W(u)) \in Nat
          /\ Cardinality(A \cap W(u)) \in Nat
        BY <2>6, FS_CardinalityType
    <2>9. Cardinality(W(s)) <= p[s]
        BY <2>2, <2>3, <2>4, <2>5, <2>7, <2>8
    <2> QED BY <2>9
<1> HIDE DEF G
<1>5. S \in G
    BY <1>3, <1>4, SubsetInduction
<1>6. W(S) = R
    OBVIOUS
<1> HIDE DEF W
<1> QED BY <1>1, <1>5, <1>6 DEF G, p

-----------------------------------------------------------------------------
(* Harmonic numbers, times the factorial.                                    *)

ProductStep(g, s) == IF s = {} THEN 1 ELSE SomeOf(s) * g[s \ {SomeOf(s)}]

\* The fold that Factorial is.
LEMMA FactorialChosen ==
    ASSUME NEW n
    PROVE  Factorial(n) = (CHOOSE g : g = [s \in SUBSET (1..n) |-> ProductStep(g, s)])[1..n]
BY DEF Factorial, ProductSet, FoldSet, MapThenFoldSet, ProductStep, SomeOf

Divides(k, F) == \E q \in Nat : F = k * q

\* Every number up to n divides the factorial of n.
LEMMA FactorialDivides ==
    ASSUME NEW n \in Nat
    PROVE  Factorial(n) \in Nat /\ \A k \in 1..n : Divides(k, Factorial(n))
<1> DEFINE S == 1..n
           pick == [s \in SUBSET S |-> SomeOf(s)]
           step == [x \in S |-> [v \in Nat |-> x * v]]
<1>1. \A s \in SUBSET S : pick[s] = SomeOf(s) /\ (s # {} => pick[s] \in s)
    BY DEF SomeOf
<1>2. \A x \in S, v \in Nat : step[x][v] = x * v /\ step[x][v] \in Nat
    OBVIOUS
<1>3. IsFiniteSet(S) /\ \A x \in S : x \in Nat
    BY FS_Interval
<1> HIDE DEF pick, step, S
<1>4. PICK g \in [SUBSET S -> Nat] : Folds(g, S, 1, pick, step)
    <2>1. \A s \in SUBSET S : s # {} => pick[s] \in s
        BY <1>1
    <2>2. \A x \in S, v \in Nat : step[x][v] \in Nat
        BY <1>2
    <2>3. 1 \in Nat
        OBVIOUS
    <2> QED BY <1>3, <2>1, <2>2, <2>3, FoldExists
<1>5. ASSUME NEW s \in SUBSET S
      PROVE  g[s] = ProductStep(g, s)
    <2>1. CASE s = {}
        BY <1>4, <2>1 DEF ProductStep, Folds
    <2>2. CASE s # {}
        <3>1. pick[s] = SomeOf(s) /\ pick[s] \in S /\ s \ {pick[s]} \in SUBSET S
            BY <1>1, <2>2
        <3>2. g[s \ {pick[s]}] \in Nat
            BY <3>1
        <3>3. step[pick[s]][g[s \ {pick[s]}]] = pick[s] * g[s \ {pick[s]}]
            BY <1>2, <3>1, <3>2
        <3> QED BY <1>4, <2>2, <3>1, <3>3 DEF ProductStep, Folds
    <2> QED BY <2>1, <2>2
<1>6. g = [s \in SUBSET S |-> ProductStep(g, s)]
    BY <1>5
<1> DEFINE r == CHOOSE e : e = [s \in SUBSET S |-> ProductStep(e, s)]
<1>7. r = [s \in SUBSET S |-> ProductStep(r, s)]
    BY <1>6
<1>8. Factorial(n) = r[S]
    BY FactorialChosen DEF S
<1> HIDE DEF r
<1> DEFINE G == {s \in SUBSET S : r[s] \in Nat /\ \A k \in s : Divides(k, r[s])}
<1>9. {} \in G
    BY <1>7 DEF ProductStep
<1>10. ASSUME NEW s \in SUBSET S, s # {}, s \ {SomeOf(s)} \in G
       PROVE  s \in G
    <2> DEFINE a == SomeOf(s)
               u == s \ {a}
    <2>1. a \in s /\ a \in Nat
        BY <1>3, <1>10 DEF SomeOf
    <2>2. r[s] = a * r[u]
        BY <1>7, <1>10 DEF ProductStep
    <2>3. r[u] \in Nat /\ \A k \in u : Divides(k, r[u])
        BY <1>10
    <2>4. r[s] \in Nat
        <3> HIDE DEF a, u
        <3> QED BY <2>1, <2>2, <2>3
    <2>5. ASSUME NEW k \in s
          PROVE  Divides(k, r[s])
        <3>1. CASE k = a
            <4> HIDE DEF a, u
            <4> QED BY <2>2, <2>3, <3>1 DEF Divides
        <3>2. CASE k # a
            <4>1. PICK q \in Nat : r[u] = k * q
                BY <2>3, <3>2 DEF Divides
            <4>2. k \in Nat
                BY <1>3
            <4> HIDE DEF a, u
            <4>3. a * (k * q) = k * (a * q) /\ a * q \in Nat
                BY <2>1, <4>2
            <4> QED BY <2>2, <4>1, <4>3 DEF Divides
        <3> QED BY <3>1, <3>2
    <2> QED BY <2>4, <2>5
<1> HIDE DEF G
<1>11. S \in G
    BY <1>3, <1>9, <1>10, SubsetInduction
<1> QED BY <1>8, <1>11 DEF G, S

\* The terms of the harmonic number.
Shares(F, n) == [k \in 1..n |-> F \div k]

Part(F, n) == Totals(Shares(F, n), 1..n)

HarmonicStep(F, g, s) == IF s = {} THEN 0 ELSE (F \div SomeOf(s)) + g[s \ {SomeOf(s)}]

\* The fold that HarmonicTop is.
LEMMA HarmonicChosen ==
    ASSUME NEW n
    PROVE  HarmonicTop(n) =
             (CHOOSE g : g = [s \in SUBSET (1..n) |-> HarmonicStep(Factorial(n), g, s)])[1..n]
BY DEF HarmonicTop, MapThenSumSet, MapThenFoldSet, HarmonicStep, SomeOf

\* A share of a divisible number: exact, and smaller for a larger divisor.
LEMMA SharesAre ==
    ASSUME NEW F \in Nat, NEW n \in Nat, \A k \in 1..n : Divides(k, F)
    PROVE  /\ \A k \in 1..n : k * (F \div k) = F /\ (F \div k) \in Nat
           /\ \A k \in 1..n : \A m \in 1..k : (F \div k) <= (F \div m)
           /\ Valued(Shares(F, n), 1..n)
<1>1. ASSUME NEW k \in 1..n
      PROVE  k * (F \div k) = F /\ (F \div k) \in Nat
    <2>1. PICK q \in Nat : F = k * q
        BY DEF Divides
    <2>2. k \in Nat \ {0}
        OBVIOUS
    <2>3. (k * q) \div k = q
        BY <2>2
    <2> QED BY <2>1, <2>3
<1>2. ASSUME NEW k \in 1..n, NEW m \in 1..k
      PROVE  (F \div k) <= (F \div m)
    <2>1. m \in 1..n /\ m \in Nat \ {0} /\ k \in Nat \ {0} /\ m <= k
        OBVIOUS
    <2>2. /\ k * (F \div k) = F /\ (F \div k) \in Nat
          /\ m * (F \div m) = F /\ (F \div m) \in Nat
        BY <1>1, <2>1
    <2>3. \A p, q \in Nat : k * p = m * q => p <= q
        <3> SUFFICES ASSUME NEW p \in Nat, NEW q \in Nat, k * p = m * q, p > q
                     PROVE  FALSE
            OBVIOUS
        <3>1. m * q <= k * q
            BY <2>1
        <3>2. k * (q + 1) <= k * p
            BY <2>1
        <3>3. k * (q + 1) = (k * q) + k
            BY <2>1
        <3>4. k * q \in Nat /\ m * q \in Nat /\ k * p \in Nat
            BY <2>1
        <3> QED BY <2>1, <3>1, <3>2, <3>3, <3>4
    <2> QED BY <2>2, <2>3
<1>3. Valued(Shares(F, n), 1..n)
    BY <1>1 DEF Valued, Shares
<1> QED BY <1>1, <1>2, <1>3

\* HarmonicTop is the sum of all shares.
LEMMA HarmonicIs ==
    ASSUME NEW n \in Nat
    PROVE  HarmonicTop(n) = Part(Factorial(n), n)[1..n]
<1> DEFINE S == 1..n
           F == Factorial(n)
           g == Part(F, n)
           r == CHOOSE e : e = [s \in SUBSET S |-> HarmonicStep(F, e, s)]
<1>1. /\ F \in Nat /\ IsFiniteSet(S)
      /\ AreSums(g, Shares(F, n), S)
    <2>1. F \in Nat /\ Valued(Shares(F, n), S)
        BY FactorialDivides, SharesAre
    <2>2. IsFiniteSet(S)
        BY FS_Interval
    <2> HIDE DEF F, S
    <2>3. AreSums(Totals(Shares(F, n), S), Shares(F, n), S)
        BY <2>1, <2>2, SumsAre
    <2> QED BY <2>1, <2>2, <2>3 DEF Part, S
<1>2. HarmonicTop(n) = r[S]
    BY HarmonicChosen
<1>3. \A s \in SUBSET S : s # {} =>
        SomeOf(s) \in s /\ Shares(F, n)[SomeOf(s)] = F \div SomeOf(s)
    BY DEF Shares, SomeOf
<1> HIDE DEF F, S, g
<1>4. g = [s \in SUBSET S |-> HarmonicStep(F, g, s)]
    <2>1. ASSUME NEW s \in SUBSET S
          PROVE  g[s] = HarmonicStep(F, g, s)
        BY <1>1, <1>3 DEF AreSums, HarmonicStep
    <2>2. g \in [SUBSET S -> Nat]
        BY <1>1 DEF AreSums
    <2> QED BY <2>1, <2>2
<1>5. r = [s \in SUBSET S |-> HarmonicStep(F, r, s)]
    BY <1>4
<1> HIDE DEF r
<1> DEFINE G == {s \in SUBSET S : r[s] = g[s]}
<1>6. {} \in G
    BY <1>4, <1>5 DEF HarmonicStep
<1>7. ASSUME NEW s \in SUBSET S, s # {}, s \ {SomeOf(s)} \in G
      PROVE  s \in G
    BY <1>4, <1>5, <1>7 DEF HarmonicStep
<1> HIDE DEF G
<1>8. S \in G
    BY <1>1, <1>6, <1>7, SubsetInduction
<1>9. r[S] = g[S]
    BY <1>8 DEF G
<1> QED BY <1>2, <1>9 DEF g, F, S

\* The largest m of a terms weigh at least m of a larger one.
LEMMA HarmonicDrop ==
    ASSUME NEW F \in Nat, NEW n \in Nat, \A k \in 1..n : Divides(k, F),
           NEW g \in 1..n, NEW a \in 0..g, NEW m \in 0..a
    PROVE  /\ Part(F, n)[1..(a - m)] \in Nat /\ Part(F, n)[1..a] \in Nat
           /\ Part(F, n)[1..(a - m)] + (m * (F \div g)) <= Part(F, n)[1..a]
<1> DEFINE S == 1..n
           f == Shares(F, n)
           r == Part(F, n)
           c == F \div g
           T == {k \in 0..a : ~(r[1..(a - k)] + (k * c) <= r[1..a])}
<1>1. IsFiniteSet(S) /\ Valued(f, S) /\ r = Totals(f, S)
    BY FS_Interval, SharesAre DEF Part
<1>2. c \in Nat /\ \A k \in 1..g : c <= f[k] /\ f[k] \in Nat
    <2>1. c \in Nat /\ \A k \in 1..g : c <= F \div k
        BY SharesAre
    <2>2. \A k \in 1..g : k \in 1..n /\ f[k] = F \div k
        BY DEF Shares
    <2> QED BY <1>1, <2>1, <2>2 DEF Valued
<1>3. ASSUME NEW k \in 1..a
      PROVE  /\ r[1..k] = f[k] + r[1..(k - 1)]
             /\ r[1..k] \in Nat /\ r[1..(k - 1)] \in Nat /\ f[k] \in Nat /\ c <= f[k]
    <2>1. 1..k \in SUBSET S /\ k \in 1..k /\ (1..k) \ {k} = 1..(k - 1) /\ k \in 1..g
          /\ 1..(k - 1) \in SUBSET S
        OBVIOUS
    <2>2. r[1..k] = f[k] + r[(1..k) \ {k}]
        <3>1. AnyTaken(r, f, S)
            <4> HIDE DEF S, f, r
            <4> QED BY <1>1, SumsTake
        <3> DEFINE t == 1..k
        <3> HIDE DEF S, f, r
        <3>2. t \in SUBSET S /\ k \in t
            BY <2>1
        <3> HIDE DEF t
        <3>3. r[t] = f[k] + r[t \ {k}]
            BY <3>1, <3>2 DEF AnyTaken
        <3> QED BY <3>3 DEF t
    <2>3. AreSums(r, f, S)
        <3> HIDE DEF S, f, r
        <3> QED BY <1>1, SumsAre
    <2>4. r[1..k] \in Nat /\ r[1..(k - 1)] \in Nat
        <3> HIDE DEF S, f, r
        <3> QED BY <2>1, <2>3 DEF AreSums
    <2> QED BY <1>2, <2>1, <2>2, <2>4
<1>4. \A k \in 0..a : r[1..k] \in Nat
    <2> SUFFICES ASSUME NEW k \in 0..a
                 PROVE  r[1..k] \in Nat
        OBVIOUS
    <2>1. CASE k \in 1..a
        BY <1>3, <2>1
    <2>2. CASE k = 0
        <3>1. 1..k = {}
            BY <2>2
        <3>2. AreSums(r, f, S)
            <4> HIDE DEF S, f, r
            <4> QED BY <1>1, SumsAre
        <3> HIDE DEF r, f, S
        <3> QED BY <3>1, <3>2 DEF AreSums
    <2> QED BY <2>1, <2>2
<1> HIDE DEF r, f, S, c
<1>5. T = {}
    <2> SUFFICES ASSUME T # {} PROVE FALSE
        OBVIOUS
    <2>1. T \subseteq Nat
        OBVIOUS
    <2>2. PICK k \in T : \A j \in T : k <= j
        <3> HIDE DEF T
        <3> QED BY <2>1, LeastNatural
    <2>3. CASE k = 0
        <3>1. a - 0 = a /\ 0 * c = 0 /\ r[1..a] \in Nat
            BY <1>2, <1>4
        <3>2. ~(r[1..(a - 0)] + (0 * c) <= r[1..a])
            BY <2>2, <2>3
        <3>3. r[1..(a - 0)] = r[1..a]
            BY <3>1
        <3> QED BY <3>1, <3>2, <3>3
    <2>4. CASE k # 0
        <3>1. k - 1 \in 0..a /\ k - 1 \notin T /\ a - (k - 1) \in 1..a /\ k \in 1..a
              /\ (a - (k - 1)) - 1 = a - k
            <4>1. k \in 0..a /\ k # 0
                BY <2>2, <2>4
            <4>2. k - 1 \in 0..a /\ ~(k <= k - 1)
                BY <4>1
            <4>3. k - 1 \notin T
                <5> HIDE DEF T
                <5> QED BY <2>2, <4>2
            <4> QED BY <4>1, <4>3
        <3>2. r[1..(a - (k - 1))] + ((k - 1) * c) <= r[1..a]
            BY <3>1
        <3>3. /\ r[1..(a - (k - 1))] = f[a - (k - 1)] + r[1..(a - k)]
              /\ r[1..(a - k)] \in Nat /\ f[a - (k - 1)] \in Nat /\ c <= f[a - (k - 1)]
            BY <1>3, <3>1
        <3>4. k * c = ((k - 1) * c) + c /\ (k - 1) * c \in Nat
            BY <1>2, <3>1, SMTT(40)
        <3>5. r[1..(a - k)] + (k * c) <= r[1..a]
            BY <1>2, <1>4, <3>2, <3>3, <3>4, SMTT(40)
        <3> QED BY <2>2, <3>5
    <2> QED BY <2>3, <2>4
<1>6. r[1..(a - m)] + (m * c) <= r[1..a]
    BY <1>5
<1>7. a - m \in 0..a /\ a \in 0..a
    OBVIOUS
<1> QED BY <1>4, <1>6, <1>7 DEF r, c

\* The parts of the harmonic sum grow with the number of their terms.
LEMMA HarmonicGrows ==
    ASSUME NEW F \in Nat, NEW n \in Nat, \A k \in 1..n : Divides(k, F), NEW a \in 0..n
    PROVE  /\ Part(F, n)[1..a] \in Nat /\ Part(F, n)[1..n] \in Nat
           /\ Part(F, n)[1..a] <= Part(F, n)[1..n]
<1>1. CASE n = 0
    <2>1. AreSums(Part(F, n), Shares(F, n), 1..n)
        BY FS_Interval, SharesAre, SumsAre DEF Part
    <2>2. a = n /\ 1..n \in SUBSET (1..n)
        BY <1>1
    <2>3. Part(F, n)[1..n] \in Nat
        BY <2>1, <2>2 DEF AreSums
    <2> QED BY <2>2, <2>3
<1>2. CASE n # 0
    <2>1. n \in 1..n /\ n \in 0..n /\ n - a \in 0..n /\ n - (n - a) = a
        BY <1>2
    <2>2. /\ Part(F, n)[1..(n - (n - a))] \in Nat /\ Part(F, n)[1..n] \in Nat
          /\ Part(F, n)[1..(n - (n - a))] + ((n - a) * (F \div n)) <= Part(F, n)[1..n]
        BY <2>1, HarmonicDrop
    <2>3. (n - a) * (F \div n) \in Nat
        <3>1. F \div n \in Nat /\ n - a \in Nat
            BY <2>1, SharesAre
        <3> QED BY <3>1
    <2> QED BY <2>1, <2>2, <2>3
<1> QED BY <1>1, <1>2

-----------------------------------------------------------------------------
(* The weight of what is left to cover.                                      *)

\* What a row weighs when it has a set of uncovered bits, over the rows of a cover.
RowWeights(F, n, V, U, B) == [b \in B |-> Part(F, n)[1..Cardinality(U \cap V[b])]]

Weight(F, n, V, U, B) == Totals(RowWeights(F, n, V, U, B), B)[B]

\* Covering g bits at once, when no row of the cover has more, takes away F of the weight.
LEMMA WeightDrop ==
    ASSUME NEW F \in Nat, NEW n \in Nat, \A k \in 1..n : Divides(k, F),
           NEW B, IsFiniteSet(B), NEW V, NEW U, IsFiniteSet(U), NEW R \in SUBSET U,
           R \subseteq UNION {V[b] : b \in B}, Cardinality(R) \in 1..n,
           \A b \in B : Cardinality(U \cap V[b]) <= Cardinality(R)
    PROVE  /\ Weight(F, n, V, U \ R, B) \in Nat /\ Weight(F, n, V, U, B) \in Nat
           /\ Weight(F, n, V, U \ R, B) + F <= Weight(F, n, V, U, B)
<1> DEFINE g == Cardinality(R)
           c == F \div g
           q == [b \in B |-> Cardinality(R \cap V[b])]
           m == [b \in B |-> q[b] * c]
           f == RowWeights(F, n, V, U \ R, B)
           h == RowWeights(F, n, V, U, B)
<1>1. IsFiniteSet(R) /\ g \in 1..n /\ g \in Nat
    BY FS_Subset
<1>2. c \in Nat /\ g * c = F
    BY <1>1, SharesAre
<1>3. ASSUME NEW b \in B
      PROVE  /\ Cardinality(U \cap V[b]) \in 0..g
             /\ q[b] \in 0..Cardinality(U \cap V[b])
             /\ Cardinality((U \ R) \cap V[b]) = Cardinality(U \cap V[b]) - q[b]
    <2> DEFINE X == U \cap V[b]
               Y == R \cap V[b]
               Z == (U \ R) \cap V[b]
    <2>1. IsFiniteSet(X) /\ Y \in SUBSET X /\ Z = X \ Y /\ X \cap Y = Y
        BY FS_Subset
    <2>2. Cardinality(X) <= g /\ q[b] = Cardinality(Y)
        OBVIOUS
    <2> HIDE DEF X, Y, Z, g, q
    <2>3. IsFiniteSet(Y) /\ Cardinality(Y) <= Cardinality(X)
        BY <2>1, FS_Subset
    <2>4. Cardinality(Z) = Cardinality(X) - Cardinality(Y)
        BY <2>1, FS_Difference, ZenonT(60)
    <2>5. Cardinality(X) \in Nat /\ Cardinality(Y) \in Nat
        BY <2>1, <2>3, FS_CardinalityType
    <2>6. Cardinality(X) \in 0..g /\ q[b] \in 0..Cardinality(X) /\ Cardinality(Z) = Cardinality(X) - q[b]
        BY <1>1, <2>2, <2>3, <2>4, <2>5
    <2> QED BY <2>6 DEF X, Z
<1>4. ASSUME NEW b \in B
      PROVE  /\ f[b] \in Nat /\ h[b] \in Nat /\ m[b] \in Nat /\ q[b] \in Nat /\ m[b] = q[b] * c
             /\ f[b] + m[b] <= h[b]
    <2> DEFINE a == Cardinality(U \cap V[b])
               k == q[b]
    <2>1. f[b] = Part(F, n)[1..Cardinality((U \ R) \cap V[b])] /\ h[b] = Part(F, n)[1..a]
          /\ m[b] = k * c
        BY DEF RowWeights
    <2>2. a \in 0..g /\ k \in 0..a /\ Cardinality((U \ R) \cap V[b]) = a - k
        BY <1>3
    <2> HIDE DEF a, k, f, h, q, m
    <2>3. /\ Part(F, n)[1..(a - k)] \in Nat /\ Part(F, n)[1..a] \in Nat
          /\ Part(F, n)[1..(a - k)] + (k * (F \div g)) <= Part(F, n)[1..a]
        <3> HIDE DEF g
        <3> QED BY <1>1, <2>2, HarmonicDrop
    <2>4. k \in Nat /\ k * c \in Nat
        <3>1. k \in Nat
            BY <2>2
        <3> HIDE DEF c
        <3> QED BY <1>2, <3>1
    <2>5. f[b] = Part(F, n)[1..(a - k)]
        BY <2>1, <2>2
    <2>6. f[b] \in Nat /\ h[b] \in Nat /\ m[b] \in Nat /\ f[b] + m[b] <= h[b]
        BY <2>1, <2>3, <2>4, <2>5
    <2> QED BY <2>1, <2>4, <2>6 DEF k
<1>5. Valued(f, B) /\ Valued(h, B) /\ Valued(m, B) /\ Valued(q, B)
    <2> HIDE DEF f, h, m, q
    <2> QED BY <1>4 DEF Valued
<1>6. g <= Totals(q, B)[B]
    <2>1. \A b \in B : q[b] = Cardinality(R \cap V[b])
        OBVIOUS
    <2> HIDE DEF q
    <2> QED BY <1>1, <2>1, SumsCover
<1> HIDE DEF f, h, m, q, c, g
<1>7. /\ AreSums(Totals(f, B), f, B) /\ AreSums(Totals(h, B), h, B)
      /\ AreSums(Totals(q, B), q, B) /\ AreSums(Totals(m, B), m, B)
    BY <1>5, SumsAre
<1>8. /\ Totals(f, B)[B] \in Nat /\ Totals(h, B)[B] \in Nat /\ Totals(q, B)[B] \in Nat
      /\ Totals(m, B)[B] \in Nat
    <2>1. B \in SUBSET B
        OBVIOUS
    <2> QED BY <1>7, <2>1 DEF AreSums
<1>9. Totals(f, B)[B] + Totals(m, B)[B] <= Totals(h, B)[B]
    BY <1>4, <1>5, SumsLess
<1>10. Totals(m, B)[B] = Totals(q, B)[B] * c
    BY <1>2, <1>4, <1>5, SumsScale
<1>11. g * c <= Totals(q, B)[B] * c
    <2>1. \A i, j \in Nat : i <= j => i * c <= j * c
        BY <1>2
    <2> QED BY <1>1, <1>6, <1>8, <2>1
<1>12. Totals(f, B)[B] + F <= Totals(h, B)[B]
    BY <1>2, <1>8, <1>9, <1>10, <1>11
<1>13. Totals(f, B)[B] = Weight(F, n, V, U \ R, B) /\ Totals(h, B)[B] = Weight(F, n, V, U, B)
    BY DEF Weight, f, h
<1> QED BY <1>8, <1>12, <1>13

\* No cover weighs more than its rows times the harmonic sum.
LEMMA WeightAtMost ==
    ASSUME NEW F \in Nat, NEW n \in Nat, \A k \in 1..n : Divides(k, F),
           NEW B, IsFiniteSet(B), NEW V, NEW U, IsFiniteSet(U),
           \A b \in B : Cardinality(U \cap V[b]) <= n
    PROVE  /\ Weight(F, n, V, U, B) \in Nat
           /\ Weight(F, n, V, U, B) <= Part(F, n)[1..n] * Cardinality(B)
<1> DEFINE h == RowWeights(F, n, V, U, B)
           c == Part(F, n)[1..n]
<1>1. ASSUME NEW b \in B
      PROVE  h[b] \in Nat /\ h[b] <= c
    <2>1. IsFiniteSet(U \cap V[b])
        BY FS_Subset
    <2>2. Cardinality(U \cap V[b]) \in 0..n
        <3>1. Cardinality(U \cap V[b]) \in Nat
            BY <2>1, FS_CardinalityType
        <3> QED BY <3>1
    <2>3. h[b] = Part(F, n)[1..Cardinality(U \cap V[b])]
        BY DEF RowWeights
    <2> HIDE DEF h
    <2> DEFINE a == Cardinality(U \cap V[b])
    <2>4. a \in 0..n /\ h[b] = Part(F, n)[1..a]
        BY <2>2, <2>3
    <2> HIDE DEF a
    <2> QED BY <2>4, HarmonicGrows
<1>2. c \in Nat
    <2>1. n \in 0..n
        OBVIOUS
    <2> QED BY <2>1, HarmonicGrows
<1>3. Valued(h, B)
    BY <1>1 DEF Valued
<1> HIDE DEF h, c
<1>4. Totals(h, B)[B] <= c * Cardinality(B)
    BY <1>1, <1>2, <1>3, SumsAtMost
<1>5. Totals(h, B)[B] \in Nat
    <2>1. AreSums(Totals(h, B), h, B) /\ B \in SUBSET B
        BY <1>3, SumsAre
    <2> QED BY <2>1 DEF AreSums
<1> QED BY <1>4, <1>5 DEF Weight, h, c

-----------------------------------------------------------------------------
(* minimal_cover: its choices, one after another.                            *)

Followed(e, next, D) == \A c \in SUBSET D : e[c] = IF next[c] = c THEN c ELSE e[next[c]]

\* A sequence of choices that only adds to a finite set comes to an end.
LEMMA ChoicesEnd ==
    ASSUME NEW D, IsFiniteSet(D), NEW next,
           \A c \in SUBSET D : next[c] \in SUBSET D /\ c \subseteq next[c]
    PROVE  \E e \in [SUBSET D -> SUBSET D] : Followed(e, next, D)
<1> DEFINE N == Cardinality(D)
           To(e, c) == IF next[c] = c THEN c ELSE e[next[c]]
           Within(k, e) == \A c \in SUBSET D : N - Cardinality(c) <= k => e[c] = To(e, c)
           T == {k \in Nat : ~ \E e \in [SUBSET D -> SUBSET D] : Within(k, e)}
<1>1. /\ N \in Nat
      /\ \A c \in SUBSET D : /\ IsFiniteSet(c) /\ Cardinality(c) \in Nat /\ Cardinality(c) <= N
                             /\ Cardinality(c) = N => c = D
    BY FS_Subset, FS_CardinalityType
<1>2. ASSUME NEW c \in SUBSET D, next[c] # c
      PROVE  Cardinality(next[c]) \in Nat /\ Cardinality(next[c]) > Cardinality(c)
    <2>1. c \in SUBSET next[c] /\ IsFiniteSet(next[c])
        BY <1>1
    <2>2. Cardinality(c) <= Cardinality(next[c]) /\ Cardinality(c) # Cardinality(next[c])
        BY <1>2, <2>1, FS_Subset
    <2> QED BY <1>1, <2>1, <2>2, FS_CardinalityType
<1>3. ASSUME NEW e \in [SUBSET D -> SUBSET D], NEW c \in SUBSET D
      PROVE  To(e, c) \in SUBSET D
    OBVIOUS
<1> HIDE DEF N
<1>4. T = {}
    <2> SUFFICES ASSUME T # {} PROVE FALSE
        OBVIOUS
    <2>1. T \subseteq Nat
        OBVIOUS
    <2>2. PICK k \in T : \A i \in T : k <= i
        <3> HIDE DEF T
        <3> QED BY <2>1, LeastNatural
    <2>3. CASE k = 0
        <3> DEFINE e == [c \in SUBSET D |-> c]
        <3>1. ASSUME NEW c \in SUBSET D, N - Cardinality(c) <= 0
              PROVE  e[c] = To(e, c)
            <4>1. c = D
                BY <1>1, <3>1
            <4>2. next[c] = c
                BY <4>1
            <4> QED BY <4>2
        <3>2. e \in [SUBSET D -> SUBSET D] /\ Within(0, e)
            BY <3>1
        <3> HIDE DEF e, Within
        <3> QED BY <2>1, <2>2, <2>3, <3>2
    <2>4. CASE k # 0
        <3>1. k - 1 \in Nat /\ k - 1 \notin T
            <4>1. k \in Nat
                BY <2>1
            <4> HIDE DEF T
            <4> QED BY <2>2, <2>4, <4>1
        <3>2. PICK g \in [SUBSET D -> SUBSET D] : Within(k - 1, g)
            BY <3>1
        <3> DEFINE h == [c \in SUBSET D |-> To(g, c)]
        <3>3. h \in [SUBSET D -> SUBSET D]
            BY <1>3
        <3>4. ASSUME NEW c \in SUBSET D, N - Cardinality(c) <= k
              PROVE  h[c] = To(h, c)
            <4>1. CASE next[c] = c
                BY <4>1
            <4>2. CASE next[c] # c
                <5> DEFINE d == next[c]
                <5>1. d \in SUBSET D /\ N - Cardinality(d) <= k - 1
                    <6>1. d \in SUBSET D /\ Cardinality(d) \in Nat /\ Cardinality(d) > Cardinality(c)
                        BY <1>2, <4>2
                    <6>2. k \in Nat /\ Cardinality(c) \in Nat
                        BY <1>1, <2>1
                    <6> HIDE DEF d
                    <6> QED BY <1>1, <3>4, <6>1, <6>2
                <5>2. g[d] = To(g, d)
                    BY <3>2, <5>1
                <5>3. h[d] = To(g, d) /\ h[c] = g[d] /\ To(h, c) = h[d]
                    BY <4>2, <5>1
                <5> QED BY <5>2, <5>3
            <4> QED BY <4>1, <4>2
        <3>5. Within(k, h)
            BY <3>4
        <3> HIDE DEF h, Within
        <3> QED BY <2>2, <3>3, <3>5
    <2> QED BY <2>3, <2>4
<1>5. PICK e \in [SUBSET D -> SUBSET D] : Within(N, e)
    <2> HIDE DEF Within
    <2> QED BY <1>1, <1>4
<1>6. ASSUME NEW c \in SUBSET D
      PROVE  e[c] = To(e, c)
    <2>1. N - Cardinality(c) <= N
        BY <1>1
    <2> QED BY <1>5, <2>1
<1> QED BY <1>6 DEF Followed

\* What is chosen next.
Extension(x, e, c) ==
    IF BestRows(x, c) = {} THEN c ELSE e[c \union {Min(BestRows(x, c))}]

\* The recursion that MinimalCover is.
LEMMA CoverChosen ==
    ASSUME NEW x
    PROVE  MinimalCover(x) =
             (CHOOSE e : e = [c \in SUBSET DOMAIN rows |-> Extension(x, e, c)])[{}]
BY DEF MinimalCover, Extension

RowsTyped == rows \in Seq(Row) /\ Echelon(rows) /\ Positions

\* The first row with the largest gain; there is one while any row gains.
LEMMA BestIs ==
    ASSUME RowsTyped, NEW x \in SUBSET Bits, NEW c \in SUBSET DOMAIN rows
    PROVE  /\ BestRows(x, c) = {} => Uncovered(x, c) = x \ Cover(rows)
           /\ BestRows(x, c) # {} =>
                /\ Min(BestRows(x, c)) \in (DOMAIN rows) \ c
                /\ Gain(x, c, Min(BestRows(x, c))) \in Nat \ {0}
                /\ \A k \in DOMAIN rows : Gain(x, c, k) <= Gain(x, c, Min(BestRows(x, c)))
<1> DEFINE D == DOMAIN rows
           U == Uncovered(x, c)
<1>1. /\ D = 1..Len(rows) /\ Len(rows) \in Nat /\ IsFiniteSet(D) /\ D \subseteq Nat
      /\ \A j \in D : rows[j].vec \in SUBSET Bits
    <2>1. D = 1..Len(rows) /\ Len(rows) \in Nat
        BY DEF RowsTyped
    <2>2. \A j \in D : rows[j].vec \in SUBSET Bits
        BY RowFacts DEF RowsTyped
    <2> HIDE DEF D
    <2>3. IsFiniteSet(D)
        <3> DEFINE m == Len(rows)
        <3>1. m \in Int /\ 1 \in Int /\ D = 1..m
            BY <2>1
        <3> HIDE DEF m
        <3> QED BY <3>1, FS_Interval
    <2> QED BY <2>1, <2>2, <2>3
<1>2. \A k \in D : Gain(x, c, k) = Cardinality(U \cap rows[k].vec) /\ Gain(x, c, k) \in Nat
    <2> SUFFICES ASSUME NEW k \in D
                 PROVE  /\ Gain(x, c, k) = Cardinality(U \cap rows[k].vec)
                        /\ Gain(x, c, k) \in Nat
        OBVIOUS
    <2>1. U \cap rows[k].vec \in SUBSET Bits
        BY DEF Uncovered
    <2>2. IsFiniteSet(U \cap rows[k].vec)
        BY <2>1, FS_Subset DEF RowsTyped, Positions
    <2> QED BY <2>2, FS_CardinalityType DEF Gain
<1>3. ASSUME NEW k \in c PROVE Gain(x, c, k) = 0
    <2>1. U \cap rows[k].vec = {}
        BY <1>3 DEF Uncovered
    <2> QED BY <1>2, <2>1, FS_EmptySet
<1>4. ASSUME BestRows(x, c) = {} PROVE U = x \ Cover(rows)
    <2>1. U \subseteq x /\ x \ Cover(rows) \subseteq U
        BY DEF Uncovered, Cover
    <2>2. ASSUME NEW y \in U, y \in Cover(rows) PROVE FALSE
        <3>1. PICK i \in D : y \in rows[i].vec
            BY <2>2 DEF Cover
        <3>2. Gain(x, c, i) # 0
            <4>1. y \in U \cap rows[i].vec /\ IsFiniteSet(U \cap rows[i].vec)
                <5>1. U \cap rows[i].vec \in SUBSET Bits
                    BY DEF Uncovered
                <5> QED BY <2>2, <3>1, <5>1, FS_Subset DEF RowsTyped, Positions
            <4> QED BY <1>2, <4>1, FS_EmptySet
        <3>3. i \in D \ c
            BY <1>3, <3>2
        <3> DEFINE E == D \ c
                   gains == [k \in E |-> Gain(x, c, k)]
                   Y == {gains[k] : k \in E}
        <3>4. gains \in Surjection(E, Y) /\ IsFiniteSet(E)
            BY <1>1, FS_Subset DEF Surjection
        <3>5. IsFiniteSet(Y)
            <4> HIDE DEF gains, Y, E
            <4> QED BY <3>4, FS_Surjection
        <3>6. Y \subseteq Nat /\ Y # {}
            BY <1>2, <3>3
        <3>7. Max(Y) \in Y /\ \A z \in Y : z <= Max(Y)
            <4> HIDE DEF Y
            <4> QED BY <3>5, <3>6, MaxBounds
        <3>8. PICK j \in E : Max(Y) = gains[j]
            BY <3>7
        <3>9. \A k \in E : gains[k] <= gains[j]
            BY <3>7, <3>8
        <3>10. Gain(x, c, j) > 0 /\ \A k \in D \ c : Gain(x, c, k) <= Gain(x, c, j)
            <4>1. \A k \in E : Gain(x, c, k) <= Gain(x, c, j)
                BY <3>9
            <4>2. Gain(x, c, i) <= Gain(x, c, j) /\ Gain(x, c, i) \in Nat /\ Gain(x, c, j) \in Nat
                BY <1>2, <3>3, <4>1
            <4> QED BY <3>2, <4>1, <4>2
        <3>11. j \in BestRows(x, c)
            BY <3>10 DEF BestRows
        <3> QED BY <1>4, <3>11
    <2> QED BY <2>1, <2>2
<1>5. ASSUME BestRows(x, c) # {}
      PROVE  /\ Min(BestRows(x, c)) \in D \ c
             /\ Gain(x, c, Min(BestRows(x, c))) \in Nat \ {0}
             /\ \A k \in D : Gain(x, c, k) <= Gain(x, c, Min(BestRows(x, c)))
    <2> DEFINE Best == BestRows(x, c)
               j == Min(Best)
    <2>1. j \in Best
        <3>1. Best \subseteq Nat
            BY <1>1 DEF BestRows
        <3>2. \E z \in Best : \A y \in Best : z <= y
            <4> HIDE DEF Best
            <4> QED BY <1>5, <3>1, LeastNatural DEF Best
        <3> QED BY <3>2 DEF Min
    <2> HIDE DEF j
    <2>2. j \in D \ c /\ Gain(x, c, j) > 0 /\ \A k \in D \ c : Gain(x, c, k) <= Gain(x, c, j)
        BY <2>1 DEF BestRows
    <2>3. Gain(x, c, j) \in Nat \ {0}
        <3>1. Gain(x, c, j) \in Nat
            BY <1>2, <2>2
        <3> QED BY <2>2, <3>1
    <2>4. ASSUME NEW k \in D PROVE Gain(x, c, k) <= Gain(x, c, j)
        <3>1. CASE k \in c
            <4>1. Gain(x, c, k) = 0
                BY <1>3, <3>1
            <4> QED BY <2>3, <4>1
        <3>2. CASE k \notin c
            BY <2>2, <3>2
        <3> QED BY <3>1, <3>2
    <2> QED BY <2>2, <2>3, <2>4 DEF j
<1> QED BY <1>4, <1>5

RowVecs == [j \in DOMAIN rows |-> rows[j].vec]

\* Each choice covers bits that weigh as much as one row may cost.
LEMMA ChoiceDrop ==
    ASSUME RowsTyped, NEW x \in SUBSET Bits, NEW best \in SUBSET DOMAIN rows,
           Uncovered(x, best) = x \ Cover(rows),
           NEW F \in Nat, NEW n \in Nat, \A k \in 1..n : Divides(k, F),
           \A j \in DOMAIN rows : Cardinality(x \cap rows[j].vec) <= n,
           NEW c \in SUBSET DOMAIN rows, NEW j \in DOMAIN rows,
           Gain(x, c, j) \in Nat \ {0}, \A k \in DOMAIN rows : Gain(x, c, k) <= Gain(x, c, j)
    PROVE  /\ Weight(F, n, RowVecs, Uncovered(x, c \union {j}), best) \in Nat
           /\ Weight(F, n, RowVecs, Uncovered(x, c), best) \in Nat
           /\ Weight(F, n, RowVecs, Uncovered(x, c \union {j}), best) + F
                <= Weight(F, n, RowVecs, Uncovered(x, c), best)
<1> DEFINE U == Uncovered(x, c)
           R == U \cap rows[j].vec
<1>1. U \ R = Uncovered(x, c \union {j})
    BY DEF Uncovered
<1>2. IsFiniteSet(x) /\ U \subseteq x /\ IsFiniteSet(U) /\ IsFiniteSet(R) /\ R \subseteq U
    <2>1. IsFiniteSet(x)
        BY FS_Subset DEF RowsTyped, Positions
    <2>2. U \subseteq x /\ R \subseteq U
        BY DEF Uncovered
    <2> HIDE DEF U, R
    <2> QED BY <2>1, <2>2, FS_Subset
<1>3. R \subseteq UNION {RowVecs[b] : b \in best}
    <2> SUFFICES ASSUME NEW y \in R
                 PROVE  \E b \in best : y \in rows[b].vec
        BY DEF RowVecs
    <2>1. y \in x /\ y \in Cover(rows)
        BY DEF Uncovered, Cover
    <2>2. y \notin Uncovered(x, best)
        BY <2>1
    <2> QED BY <2>1, <2>2 DEF Uncovered
<1>4. Cardinality(R) \in 1..n
    <2>1. R \in SUBSET (x \cap rows[j].vec) /\ IsFiniteSet(x \cap rows[j].vec)
        BY <1>2, FS_Subset
    <2>2. Cardinality(R) <= Cardinality(x \cap rows[j].vec) /\ Cardinality(x \cap rows[j].vec) <= n
        <3> HIDE DEF R
        <3> QED BY <2>1, FS_Subset
    <2>3. Cardinality(R) \in Nat \ {0}
        BY DEF Gain
    <2>4. Cardinality(x \cap rows[j].vec) \in Nat
        BY <2>1, FS_CardinalityType
    <2> HIDE DEF R
    <2> QED BY <2>2, <2>3, <2>4
<1>5. \A b \in best : Cardinality(U \cap RowVecs[b]) <= Cardinality(R)
    BY DEF Gain, RowVecs
<1>6. IsFiniteSet(best)
    <2>1. IsFiniteSet(DOMAIN rows)
        <3> DEFINE m == Len(rows)
        <3>1. m \in Int /\ 1 \in Int /\ DOMAIN rows = 1..m
            BY DEF RowsTyped
        <3> HIDE DEF m
        <3> QED BY <3>1, FS_Interval
    <2> QED BY <2>1, FS_Subset
<1> HIDE DEF U, R
<1>7. /\ Weight(F, n, RowVecs, U \ R, best) \in Nat /\ Weight(F, n, RowVecs, U, best) \in Nat
      /\ Weight(F, n, RowVecs, U \ R, best) + F <= Weight(F, n, RowVecs, U, best)
    BY <1>2, <1>3, <1>4, <1>5, <1>6, WeightDrop
<1> QED BY <1>1, <1>7 DEF U

\* How minimal_cover goes on from the rows chosen so far.
Covers(x, e, c) ==
    /\ e[c] \in SUBSET DOMAIN rows
    /\ Uncovered(x, e[c]) = x \ Cover(rows)

Cheap(x, e, c, F, n, best) ==
    F * Cardinality(e[c]) <= (F * Cardinality(c)) + Weight(F, n, RowVecs, Uncovered(x, c), best)

\* The choices of minimal_cover, as a function of the rows chosen so far.
LEMMA MinimalCoverIs ==
    ASSUME RowsTyped, NEW x \in SUBSET Bits
    PROVE  \E e : /\ MinimalCover(x) = e[{}]
                  /\ \A c \in SUBSET DOMAIN rows : e[c] = Extension(x, e, c)
<1> DEFINE D == DOMAIN rows
           next == [c \in SUBSET D |->
                       IF BestRows(x, c) = {} THEN c ELSE c \union {Min(BestRows(x, c))}]
<1>1. IsFiniteSet(D)
    <2> DEFINE m == Len(rows)
    <2>1. m \in Int /\ 1 \in Int /\ D = 1..m
        BY DEF RowsTyped
    <2> HIDE DEF m
    <2> QED BY <2>1, FS_Interval
<1>2. ASSUME NEW c \in SUBSET D
      PROVE  /\ next[c] \in SUBSET D /\ c \subseteq next[c]
             /\ next[c] = c <=> BestRows(x, c) = {}
             /\ BestRows(x, c) # {} => next[c] = c \union {Min(BestRows(x, c))}
    <2>1. CASE BestRows(x, c) = {}
        BY <2>1
    <2>2. CASE BestRows(x, c) # {}
        <3>1. Min(BestRows(x, c)) \in D \ c
            BY <2>2, BestIs
        <3> QED BY <2>2, <3>1
    <2> QED BY <2>1, <2>2
<1> HIDE DEF next
<1>3. PICK e \in [SUBSET D -> SUBSET D] : Followed(e, next, D)
    <2> HIDE DEF D
    <2> QED BY <1>1, <1>2, ChoicesEnd
<1>4. ASSUME NEW c \in SUBSET D
      PROVE  e[c] = Extension(x, e, c)
    BY <1>2, <1>3 DEF Followed, Extension
<1>5. e = [c \in SUBSET D |-> Extension(x, e, c)]
    BY <1>3, <1>4
<1> DEFINE r == CHOOSE h : h = [c \in SUBSET D |-> Extension(x, h, c)]
<1>6. r = [c \in SUBSET D |-> Extension(x, r, c)]
    BY <1>5
<1>7. MinimalCover(x) = r[{}]
    BY CoverChosen
<1> HIDE DEF r
<1>8. \A c \in SUBSET D : r[c] = Extension(x, r, c)
    BY <1>6
<1> QED BY <1>7, <1>8

\* It covers what the rows can cover, and the weight pays for the rows it takes.
LEMMA CoverPaid ==
    ASSUME RowsTyped, NEW x \in SUBSET Bits, NEW best \in SUBSET DOMAIN rows,
           Uncovered(x, best) = x \ Cover(rows),
           NEW F \in Nat, NEW n \in Nat, \A k \in 1..n : Divides(k, F),
           \A j \in DOMAIN rows : Cardinality(x \cap rows[j].vec) <= n,
           NEW e, \A c \in SUBSET DOMAIN rows : e[c] = Extension(x, e, c)
    PROVE  \A c \in SUBSET DOMAIN rows : Covers(x, e, c) /\ Cheap(x, e, c, F, n, best)
<1> DEFINE D == DOMAIN rows
           W(c) == Weight(F, n, RowVecs, Uncovered(x, c), best)
           G == {s \in SUBSET D : Covers(x, e, D \ s) /\ Cheap(x, e, D \ s, F, n, best)}
<1>1. IsFiniteSet(D)
    <2> DEFINE m == Len(rows)
    <2>1. m \in Int /\ 1 \in Int /\ D = 1..m
        BY DEF RowsTyped
    <2> HIDE DEF m
    <2> QED BY <2>1, FS_Interval
<1>2. ASSUME NEW c \in SUBSET D
      PROVE  IsFiniteSet(c) /\ Cardinality(c) \in Nat /\ W(c) \in Nat
    <2>1. IsFiniteSet(c) /\ IsFiniteSet(best) /\ Cardinality(c) \in Nat
        BY <1>1, FS_Subset, FS_CardinalityType
    <2> DEFINE U == Uncovered(x, c)
    <2>2. IsFiniteSet(U) /\ U \subseteq x /\ IsFiniteSet(x)
        <3>1. IsFiniteSet(x) /\ U \subseteq x
            BY FS_Subset DEF RowsTyped, Positions, Uncovered
        <3> HIDE DEF U
        <3> QED BY <3>1, FS_Subset
    <2> HIDE DEF U
    <2>3. ASSUME NEW b \in best PROVE Cardinality(U \cap RowVecs[b]) <= n
        <3>1. U \cap RowVecs[b] \in SUBSET (x \cap rows[b].vec) /\ IsFiniteSet(x \cap rows[b].vec)
            BY <2>2, FS_Subset DEF RowVecs
        <3>2. /\ Cardinality(U \cap RowVecs[b]) <= Cardinality(x \cap rows[b].vec)
              /\ Cardinality(U \cap RowVecs[b]) \in Nat /\ Cardinality(x \cap rows[b].vec) \in Nat
            BY <3>1, FS_Subset, FS_CardinalityType
        <3>3. Cardinality(x \cap rows[b].vec) <= n
            OBVIOUS
        <3> QED BY <3>2, <3>3
    <2>4. Weight(F, n, RowVecs, U, best) \in Nat
        BY <2>1, <2>2, <2>3, WeightAtMost
    <2> QED BY <2>1, <2>4 DEF U
<1>3. ASSUME NEW s \in SUBSET D, \A r \in SUBSET s : r # s => r \in G
      PROVE  s \in G
    <2> DEFINE c == D \ s
    <2>1. c \in SUBSET D /\ e[c] = Extension(x, e, c)
        OBVIOUS
    <2>2. CASE BestRows(x, c) = {}
        <3>1. e[c] = c /\ Uncovered(x, c) = x \ Cover(rows)
            BY <2>1, <2>2, BestIs DEF Extension
        <3>2. W(c) \in Nat /\ Cardinality(c) \in Nat
            BY <1>2
        <3> HIDE DEF c, W
        <3>3. F * Cardinality(c) \in Nat
            BY <3>2
        <3>4. F * Cardinality(e[c]) <= (F * Cardinality(c)) + W(c)
            BY <3>1, <3>2, <3>3
        <3>5. Covers(x, e, c) /\ Cheap(x, e, c, F, n, best)
            BY <2>1, <3>1, <3>4 DEF Covers, Cheap, W
        <3> QED BY <3>5 DEF c
    <2>3. CASE BestRows(x, c) # {}
        <3> DEFINE j == Min(BestRows(x, c))
                   d == c \union {j}
        <3>1. /\ j \in D \ c /\ Gain(x, c, j) \in Nat \ {0}
              /\ \A k \in DOMAIN rows : Gain(x, c, k) <= Gain(x, c, j)
            BY <2>1, <2>3, BestIs
        <3>2. e[c] = e[d]
            BY <2>1, <2>3 DEF Extension
        <3> HIDE DEF j
        <3>3. W(d) \in Nat /\ W(c) \in Nat /\ W(d) + F <= W(c)
            BY <2>1, <3>1, ChoiceDrop
        <3>4. d = D \ (s \ {j}) /\ s \ {j} \in SUBSET s /\ s \ {j} # s /\ d \in SUBSET D
            BY <3>1
        <3>5. Covers(x, e, d) /\ Cheap(x, e, d, F, n, best)
            <4>1. s \ {j} \in G
                BY <1>3, <3>4
            <4> HIDE DEF c, d
            <4> QED BY <3>4, <4>1
        <3>6. Cardinality(d) = Cardinality(c) + 1 /\ Cardinality(c) \in Nat
            <4>1. IsFiniteSet(c) /\ Cardinality(c) \in Nat /\ j \notin c
                BY <1>2, <3>1
            <4> HIDE DEF c
            <4> QED BY <4>1, FS_AddElement
        <3>7. Cardinality(e[d]) \in Nat /\ e[d] \in SUBSET D
            <4>1. e[d] \in SUBSET D
                BY <3>5 DEF Covers
            <4> HIDE DEF d, D
            <4> QED BY <1>2, <4>1
        <3>8. F * Cardinality(e[d]) <= (F * Cardinality(d)) + W(d)
            BY <3>5 DEF Cheap
        <3> HIDE DEF W, c, d
        <3>9. F * Cardinality(d) = (F * Cardinality(c)) + F /\ F * Cardinality(c) \in Nat
            <4>1. \A k \in Nat : F * (k + 1) = (F * k) + F /\ F * k \in Nat
                OBVIOUS
            <4> QED BY <3>6, <4>1
        <3>10. F * Cardinality(e[d]) \in Nat
            BY <3>7
        <3>11. F * Cardinality(e[d]) <= (F * Cardinality(c)) + W(c)
            BY <3>3, <3>8, <3>9, <3>10
        <3>12. Covers(x, e, c) /\ Cheap(x, e, c, F, n, best)
            BY <3>2, <3>5, <3>11 DEF Covers, Cheap, W
        <3> QED BY <3>12 DEF c
    <2> QED BY <2>2, <2>3
<1>4. ASSUME NEW c \in SUBSET D
      PROVE  Covers(x, e, c) /\ Cheap(x, e, c, F, n, best)
    <2> DEFINE s == D \ c
    <2>1. s \in SUBSET D /\ D \ s = c /\ IsFiniteSet(s)
        BY <1>1, FS_Subset
    <2>2. Hereditary(s, G)
        BY <1>3, <2>1 DEF Hereditary
    <2> HIDE DEF s, G
    <2>3. s \in G
        BY <2>1, <2>2, StrongInduction
    <2> QED BY <2>1, <2>3 DEF G
<1> QED BY <1>4

\* Whatever the rows are, minimal_cover covers what they can, within the harmonic bound.
LEMMA CoverBounded ==
    ASSUME RowsTyped, NEW x \in SUBSET Bits
    PROVE  /\ Uncovered(x, MinimalCover(x)) = CoverProjection(rows, x).novelty
           /\ WithinHarmonic(x, Max({0} \union {Cardinality(x \cap rows[j].vec) : j \in DOMAIN rows}))
<1> DEFINE D == DOMAIN rows
           sizes == [j \in D |-> Cardinality(x \cap rows[j].vec)]
           Z == {0} \union {Cardinality(x \cap rows[j].vec) : j \in DOMAIN rows}
           n == Max(Z)
           F == Factorial(n)
           m == MinimalCover(x)
<1>1. IsFiniteSet(D) /\ IsFiniteSet(x)
    <2> DEFINE l == Len(rows)
    <2>1. l \in Int /\ 1 \in Int /\ D = 1..l
        BY DEF RowsTyped
    <2>2. IsFiniteSet(x)
        BY FS_Subset DEF RowsTyped, Positions
    <2> HIDE DEF l
    <2> QED BY <2>1, <2>2, FS_Interval
<1>2. \A j \in D : Cardinality(x \cap rows[j].vec) \in Nat
    <2> SUFFICES ASSUME NEW j \in D
                 PROVE  Cardinality(x \cap rows[j].vec) \in Nat
        OBVIOUS
    <2>1. IsFiniteSet(x \cap rows[j].vec)
        BY <1>1, FS_Subset
    <2> QED BY <2>1, FS_CardinalityType
<1>3. n \in Nat /\ \A j \in D : Cardinality(x \cap rows[j].vec) <= n
    <2> DEFINE Y == {sizes[j] : j \in D}
    <2>1. sizes \in Surjection(D, Y)
        BY DEF Surjection
    <2>2. Y = {Cardinality(x \cap rows[j].vec) : j \in DOMAIN rows}
        OBVIOUS
    <2>3. IsFiniteSet(Y)
        <3> HIDE DEF Y, sizes, D
        <3> QED BY <1>1, <2>1, FS_Surjection
    <2>4. Z = Y \union {0} /\ Z \subseteq Nat /\ Z # {}
        <3>1. Z = {0} \union Y
            BY <2>2
        <3>2. Y \subseteq Nat
            <4>1. \A y \in {Cardinality(x \cap rows[j].vec) : j \in DOMAIN rows} : y \in Nat
                BY <1>2
            <4> QED BY <2>2, <4>1
        <3> HIDE DEF Y, Z
        <3> QED BY <3>1, <3>2
    <2>5. IsFiniteSet(Z)
        <3> HIDE DEF Y, Z
        <3> QED BY <2>3, <2>4, FS_AddElement
    <2>6. \A j \in D : Cardinality(x \cap rows[j].vec) \in Z
        OBVIOUS
    <2> HIDE DEF Z
    <2>7. n \in Z /\ \A z \in Z : z <= n
        BY <2>4, <2>5, MaxBounds
    <2> QED BY <2>4, <2>6, <2>7
<1> HIDE DEF n
<1>4. F \in Nat /\ \A k \in 1..n : Divides(k, F)
    BY <1>3, FactorialDivides
<1>5. HarmonicTop(n) = Part(F, n)[1..n]
    BY <1>3, HarmonicIs
<1> HIDE DEF F
<1>6. PICK e : m = e[{}] /\ \A c \in SUBSET D : e[c] = Extension(x, e, c)
    BY MinimalCoverIs
<1> HIDE DEF m
<1>7. {} \in SUBSET D
    OBVIOUS
<1>8. Uncovered(x, m) = x \ Cover(rows)
    <2>1. Uncovered(x, D) = x \ Cover(rows) /\ D \in SUBSET D
        BY DEF Uncovered, Cover
    <2>2. Covers(x, e, {})
        <3> HIDE DEF D
        <3> QED BY <1>3, <1>4, <1>6, <1>7, <2>1, CoverPaid DEF D
    <2> QED BY <1>6, <2>2 DEF Covers
<1>9. ASSUME NEW best \in SUBSET D, Uncovered(x, best) = x \ Cover(rows)
      PROVE  F * Cardinality(m) <= HarmonicTop(n) * Cardinality(best)
    <2> DEFINE U == Uncovered(x, {})
               W == Weight(F, n, RowVecs, U, best)
    <2>1. Cheap(x, e, {}, F, n, best) /\ Covers(x, e, {})
        BY <1>3, <1>4, <1>6, <1>7, <1>9, CoverPaid
    <2>2. U = x /\ IsFiniteSet(best)
        BY <1>1, FS_Subset DEF Uncovered
    <2>3. W \in Nat /\ W <= Part(F, n)[1..n] * Cardinality(best)
        <3>1. \A b \in best : Cardinality(U \cap RowVecs[b]) <= n
            BY <1>3, <2>2 DEF RowVecs
        <3> HIDE DEF U
        <3> QED BY <1>1, <1>3, <1>4, <2>2, <3>1, WeightAtMost
    <2>4. F * Cardinality(m) <= (F * Cardinality({})) + W
        BY <1>6, <2>1 DEF Cheap
    <2>5. Cardinality(m) \in Nat
        <3>1. m \in SUBSET D
            BY <1>6, <2>1 DEF Covers
        <3> HIDE DEF D
        <3> QED BY <1>1, <3>1, FS_Subset, FS_CardinalityType
    <2>6. F * Cardinality({}) = 0
        <3>1. Cardinality({}) = 0
            BY FS_EmptySet
        <3> QED BY <1>4, <3>1
    <2> DEFINE H == Part(F, n)[1..n] * Cardinality(best)
    <2> HIDE DEF W
    <2>7. F * Cardinality(m) <= W
        BY <2>3, <2>4, <2>6
    <2>8. F * Cardinality(m) \in Nat /\ H \in Int
        <3>1. Part(F, n)[1..n] \in Nat
            <4>1. n \in 0..n
                BY <1>3
            <4> QED BY <1>3, <1>4, <4>1, HarmonicGrows
        <3>2. Cardinality(best) \in Nat
            BY <2>2, FS_CardinalityType
        <3> QED BY <1>4, <2>5, <3>1, <3>2
    <2> HIDE DEF H
    <2>9. F * Cardinality(m) <= H
        BY <2>3, <2>7, <2>8 DEF H
    <2> QED BY <1>5, <2>9 DEF H
<1>10. WithinHarmonic(x, n)
    BY <1>9 DEF WithinHarmonic, F, m
<1> QED BY <1>8, <1>10 DEF CoverProjection, m, n

\* The cover the code chooses leaves uncovered only what no row covers, and is
\* never larger than the harmonic bound allows (minimal_cover's doc comment).
THEOREM RingCoverBounded == RingInit /\ [][RingNext]_ring_vars => []CoverWithinBound
<1>1. IInv => CoverWithinBound
    <2> SUFFICES ASSUME IInv, NEW x \in Probes \ {{}}
                 PROVE  /\ Uncovered(x, MinimalCover(x)) = CoverProjection(rows, x).novelty
                        /\ LET n == Max({0} \union {Cardinality(x \cap rows[j].vec) : j \in DOMAIN rows})
                           IN  WithinHarmonic(x, n)
        BY DEF CoverWithinBound
    <2>1. RowsTyped
        BY RingPositions DEF IInv, RingTyped, RowsTyped, rows
    <2>2. x \in SUBSET Bits
        BY RingPositions
    <2> QED BY <2>1, <2>2, CoverBounded
<1> QED BY <1>1, RingInductive, PTL

-----------------------------------------------------------------------------
(* The queue of the cache: what it removes and how long it is.               *)

Once(l) == \A i, j \in DOMAIN l : l[i] = l[j] => i = j

\* Concatenation, index by index.
LEMMA ConcatFacts ==
    ASSUME NEW S, NEW a \in Seq(S), NEW b \in Seq(S)
    PROVE  /\ a \o b \in Seq(S) /\ Len(a \o b) = Len(a) + Len(b)
           /\ \A i \in 1..Len(a) : (a \o b)[i] = a[i]
           /\ \A i \in 1..Len(b) : (a \o b)[Len(a) + i] = b[i]
           /\ \A i \in Len(a) + 1..Len(a) + Len(b) : (a \o b)[i] = b[i - Len(a)]
OBVIOUS

\* lru.remove(pos) takes the one occurrence of a key out.
LEMMA RemoveFacts ==
    ASSUME NEW S, NEW l \in Seq(S), Once(l), NEW k
    PROVE  /\ RemoveFirst(l, k) \in Seq(S) /\ Once(RemoveFirst(l, k))
           /\ ToSet(RemoveFirst(l, k)) = ToSet(l) \ {k}
<1> DEFINE At == {i \in 1..Len(l) : l[i] = k}
           n  == Min(At)
           r  == SubSeq(l, 1, n - 1) \o SubSeq(l, n + 1, Len(l))
<1>1. CASE At = {}
    <2>1. RemoveFirst(l, k) = l
        BY <1>1 DEF RemoveFirst
    <2> QED BY <1>1, <2>1 DEF ToSet
<1>2. CASE At # {}
    <2>1. n \in At
        <3>1. At \subseteq Nat
            OBVIOUS
        <3>2. PICK m \in At : \A i \in At : m <= i
            <4> HIDE DEF At
            <4> QED BY <1>2, <3>1, LeastNatural
        <3>3. n \in At /\ \A i \in At : n <= i
            <4> HIDE DEF At
            <4> QED BY <3>2 DEF Min
        <3> QED BY <3>3
    <2>2. RemoveFirst(l, k) = r
        BY <1>2 DEF RemoveFirst, RemoveAt, SelectInSeq
    <2>3. n \in 1..Len(l) /\ l[n] = k
        BY <2>1
    <2> HIDE DEF n
    <2>4. /\ r \in Seq(S) /\ Len(r) = Len(l) - 1
          /\ \A i \in 1..Len(l) - 1 : r[i] = IF i < n THEN l[i] ELSE l[i + 1]
        <3>1. /\ SubSeq(l, 1, n - 1) \in Seq(S) /\ Len(SubSeq(l, 1, n - 1)) = n - 1
              /\ \A i \in 1..n - 1 : SubSeq(l, 1, n - 1)[i] = l[i]
            BY <2>3
        <3>2. /\ SubSeq(l, n + 1, Len(l)) \in Seq(S) /\ Len(SubSeq(l, n + 1, Len(l))) = Len(l) - n
              /\ \A i \in 1..Len(l) - n : SubSeq(l, n + 1, Len(l))[i] = l[n + i]
            BY <2>3
        <3> DEFINE u == SubSeq(l, 1, n - 1)
                   v == SubSeq(l, n + 1, Len(l))
        <3>3. /\ u \o v \in Seq(S) /\ Len(u \o v) = Len(u) + Len(v)
              /\ \A i \in 1..Len(u) : (u \o v)[i] = u[i]
              /\ \A i \in Len(u) + 1..Len(u) + Len(v) : (u \o v)[i] = v[i - Len(u)]
            <4> HIDE DEF u, v
            <4> QED BY <3>1, <3>2, ConcatFacts, SMTT(40) DEF u, v
        <3>4. r = u \o v
            OBVIOUS
        <3>7. Len(u) = n - 1 /\ Len(v) = Len(l) - n /\ n \in 1..Len(l) /\ Len(l) \in Nat
            BY <2>3, <3>1, <3>2
        <3> HIDE DEF u, v, r
        <3>5. ASSUME NEW i \in 1..Len(l) - 1
              PROVE  r[i] = IF i < n THEN l[i] ELSE l[i + 1]
            <4>1. CASE i < n
                BY <4>1, <2>3, <3>1, <3>3, <3>4 DEF u
            <4>2. CASE ~(i < n)
                <5>1. /\ i - (n - 1) \in 1..Len(l) - n /\ n + (i - (n - 1)) = i + 1
                      /\ i \in Len(u) + 1..Len(u) + Len(v) /\ Len(u) = n - 1
                    BY <4>2, <3>7
                <5>2. r[i] = v[i - (n - 1)]
                    BY <5>1, <3>3, <3>4
                <5>3. v[i - (n - 1)] = l[n + (i - (n - 1))]
                    BY <5>1, <3>2 DEF v
                <5> QED BY <4>2, <5>1, <5>2, <5>3
            <4> QED BY <4>1, <4>2
        <3>6. r \in Seq(S) /\ Len(r) = Len(l) - 1
            <4>1. r \in Seq(S) /\ Len(r) = Len(u) + Len(v)
                BY ONLY <3>3, <3>4, SMTT(40)
            <4> QED BY ONLY <3>7, <4>1, SMTT(40)
        <3> QED BY <3>5, <3>6
    <2> HIDE DEF r, At
    <2>5. Once(r)
        <3> SUFFICES ASSUME NEW i \in 1..Len(l) - 1, NEW j \in 1..Len(l) - 1, r[i] = r[j]
                     PROVE  i = j
            BY <2>3, <2>4 DEF Once
        <3>1. CASE i < n /\ j < n
            BY <3>1, <2>3, <2>4 DEF Once
        <3>2. CASE i < n /\ ~(j < n)
            BY <3>2, <2>3, <2>4, SMTT(40) DEF Once
        <3>3. CASE ~(i < n) /\ j < n
            BY <3>3, <2>3, <2>4, SMTT(40) DEF Once
        <3>4. CASE ~(i < n) /\ ~(j < n)
            BY <3>4, <2>3, <2>4, SMTT(40) DEF Once
        <3> QED BY <3>1, <3>2, <3>3, <3>4
    <2>6. ToSet(r) = ToSet(l) \ {k}
        <3>1. ASSUME NEW m \in ToSet(r)
              PROVE  m \in ToSet(l) \ {k}
            <4>1. PICK i \in 1..Len(l) - 1 : m = r[i]
                BY <2>4 DEF ToSet
            <4>2. PICK j \in 1..Len(l) : m = l[j] /\ j # n
                <5>1. CASE i < n
                    BY <5>1, <4>1, <2>3, <2>4
                <5>2. CASE ~(i < n)
                    BY <5>2, <4>1, <2>3, <2>4
                <5> QED BY <5>1, <5>2
            <4> QED BY <4>2, <2>3 DEF ToSet, Once
        <3>2. ASSUME NEW m \in ToSet(l) \ {k}
              PROVE  m \in ToSet(r)
            <4>1. PICK j \in 1..Len(l) : m = l[j] /\ j # n
                BY <3>2, <2>3 DEF ToSet
            <4>2. \E i \in 1..Len(l) - 1 : m = r[i]
                <5>1. CASE j < n
                    <6>1. j \in 1..Len(l) - 1 /\ r[j] = l[j]
                        BY <5>1, <4>1, <2>3, <2>4
                    <6> QED BY <6>1, <4>1
                <5>2. CASE n < j
                    <6>1. j - 1 \in 1..Len(l) - 1 /\ r[j - 1] = l[j]
                        BY <5>2, <4>1, <2>3, <2>4
                    <6> QED BY <6>1, <4>1
                <5> QED BY <5>1, <5>2, <4>1, <2>3
            <4> QED BY <4>2, <2>4 DEF ToSet
        <3> QED BY <3>1, <3>2
    <2> QED BY <2>2, <2>4, <2>5, <2>6
<1> QED BY <1>1, <1>2

\* touch moves a key to the front.
LEMMA TouchFacts ==
    ASSUME NEW S, NEW l \in Seq(S), Once(l), NEW k \in S
    PROVE  /\ touch(l, k) \in Seq(S) /\ Once(touch(l, k))
           /\ ToSet(touch(l, k)) = ToSet(l) \union {k}
<1> DEFINE r == RemoveFirst(l, k)
           t == <<k>> \o r
<1>1. r \in Seq(S) /\ Once(r) /\ ToSet(r) = ToSet(l) \ {k}
    BY RemoveFacts
<1>2. touch(l, k) = t
    BY DEF touch
<1> HIDE DEF r
<1>3. /\ t \in Seq(S) /\ Len(t) = Len(r) + 1 /\ t[1] = k
      /\ \A i \in 1..Len(r) : t[i + 1] = r[i]
    BY <1>1
<1>4. \A i \in 2..Len(t) : t[i] = r[i - 1] /\ i - 1 \in 1..Len(r) /\ t[i] \in ToSet(r)
    BY <1>1, <1>3 DEF ToSet
<1> HIDE DEF t
<1>5. Once(t)
    <2> SUFFICES ASSUME NEW i \in 1..Len(t), NEW j \in 1..Len(t), t[i] = t[j]
                 PROVE  i = j
        BY <1>3 DEF Once
    <2>1. CASE i = 1 \/ j = 1
        BY <2>1, <1>1, <1>3, <1>4
    <2>2. CASE i # 1 /\ j # 1
        BY <2>2, <1>1, <1>3, <1>4 DEF Once
    <2> QED BY <2>1, <2>2
<1>6. ToSet(t) = ToSet(r) \union {k}
    <2>1. ToSet(t) \subseteq ToSet(r) \union {k}
        BY <1>1, <1>3, <1>4, SMTT(40) DEF ToSet
    <2>2. k \in ToSet(t)
        BY <1>1, <1>3 DEF ToSet
    <2>3. ASSUME NEW i \in 1..Len(r)
          PROVE  r[i] \in ToSet(t)
        BY <1>1, <1>3, SMTT(40) DEF ToSet
    <2>4. ToSet(r) \subseteq ToSet(t)
        BY <1>1, <2>3 DEF ToSet
    <2> QED BY <2>1, <2>2, <2>4
<1> QED BY <1>1, <1>2, <1>3, <1>5, <1>6

\* A queue without repetitions is as long as the set it lists.
LEMMA OnceCounts ==
    ASSUME NEW S, NEW l \in Seq(S), Once(l)
    PROVE  IsFiniteSet(ToSet(l)) /\ Cardinality(ToSet(l)) = Len(l)
<1>1. IsFiniteSet(1..Len(l)) /\ Cardinality(1..Len(l)) = Len(l)
    <2>1. Len(l) \in Nat
        OBVIOUS
    <2>2. IsFiniteSet(1..Len(l)) /\ Cardinality(1..Len(l)) = IF 1 > Len(l) THEN 0 ELSE Len(l) - 1 + 1
        BY <2>1, FS_Interval
    <2> QED BY <2>1, <2>2
<1>2. l \in Bijection(1..Len(l), ToSet(l))
    BY DEF Once, ToSet, Bijection, Injection, Surjection, IsInjective
<1> QED BY <1>1, <1>2, FS_Bijection DEF ExistsBijection

\* Evicting the tail leaves a prefix.
LEMMA PrefixFacts ==
    ASSUME NEW S, NEW l \in Seq(S), Once(l), NEW n \in 0..Len(l)
    PROVE  /\ SubSeq(l, 1, n) \in Seq(S) /\ Once(SubSeq(l, 1, n))
           /\ Len(SubSeq(l, 1, n)) = n
           /\ ToSet(SubSeq(l, 1, n)) \subseteq ToSet(l)
<1>1. /\ SubSeq(l, 1, n) \in Seq(S) /\ Len(SubSeq(l, 1, n)) = n
      /\ \A i \in 1..n : SubSeq(l, 1, n)[i] = l[i]
    OBVIOUS
<1> QED BY <1>1 DEF Once, ToSet

-----------------------------------------------------------------------------
(* The invariant of the cache.                                               *)

\* Queue and map agree and fit; a cached key was missing from the backend for
\* no longer than it has been cached.
CacheInv ==
    /\ backend \subseteq Keys
    /\ unheld \in [Keys -> 0..Ttl]
    /\ DOMAIN entries \subseteq Keys
    /\ \A k \in DOMAIN entries : entries[k] \in 0..Ttl
    /\ lru \in Seq(Keys) /\ Once(lru)
    /\ ToSet(lru) = DOMAIN entries
    /\ Len(lru) <= MaxEntries
    /\ \A k \in backend : unheld[k] = 0
    /\ \A k \in DOMAIN entries : unheld[k] <= entries[k]

\* The invariant of the cache holds at the start.
LEMMA CacheInvInit == StorageInit => CacheInv
<1> SUFFICES ASSUME StorageInit
             PROVE  CacheInv
    OBVIOUS
<1>1. entries = <<>> /\ lru = <<>> /\ DOMAIN entries = {} /\ DOMAIN lru = {} /\ Len(lru) = 0
    BY DEF StorageInit
<1> QED BY <1>1, CacheLimits DEF StorageInit, CacheInv, Once, ToSet

\* The lesser of two ages.
LEMMA LesserAge ==
    ASSUME NEW a \in Nat, NEW b \in Nat
    PROVE  Min({a, b}) = IF a <= b THEN a ELSE b
BY DEF Min

\* The backend changes behind the cache.
LEMMA HoldsInv ==
    ASSUME CacheInv, NEW B, B \subseteq Keys, Holds(B)
    PROVE  /\ backend' \subseteq Keys /\ unheld' \in [Keys -> 0..Ttl]
           /\ \A k \in backend' : unheld'[k] = 0
           /\ \A k \in Keys : unheld'[k] \in {0, unheld[k]}
<1>1. 0 \in 0..Ttl
    BY CacheLimits
<1> QED BY <1>1 DEF CacheInv, Holds

\* What Cached leaves in the queue is what it leaves in the map.
LEMMA CachedInv ==
    ASSUME CacheInv, NEW k \in Keys, Cached(k)
    PROVE  /\ lru' \in Seq(Keys) /\ Once(lru') /\ Len(lru') <= MaxEntries
           /\ ToSet(lru') = DOMAIN entries'
           /\ DOMAIN entries' \subseteq Keys
           /\ \A m \in DOMAIN entries' :
                 entries'[m] = IF m = k THEN 0 ELSE entries[m]
           /\ \A m \in DOMAIN entries' : m = k \/ m \in DOMAIN entries
<1> DEFINE l    == touch(lru, k)
           size == Cardinality(DOMAIN entries \cup {k})
           over == Max({0, size - MaxEntries})
           kept == SubSeq(l, 1, Len(l) - over)
<1>1. /\ lru' = kept
      /\ entries' = [m \in (DOMAIN entries \cup {k}) \cap ToSet(kept) |->
                        IF m = k THEN 0 ELSE entries[m]]
    BY DEF Cached
<1>2. l \in Seq(Keys) /\ Once(l) /\ ToSet(l) = DOMAIN entries \union {k}
    <2>1. lru \in Seq(Keys) /\ Once(lru) /\ ToSet(lru) = DOMAIN entries
        BY DEF CacheInv
    <2> QED BY <2>1, TouchFacts
<1>3. size = Len(l) /\ Len(l) \in Nat
    <2>1. Len(l) \in Nat
        BY <1>2
    <2> HIDE DEF l
    <2> QED BY <1>2, <2>1, OnceCounts
<1> HIDE DEF l, size
<1>4. over \in 0..Len(l) /\ Len(l) - over <= MaxEntries
    BY <1>3, CacheLimits, SMTT(40) DEF Max
<1> HIDE DEF over
<1>5. Len(l) - over \in 0..Len(l)
    BY <1>3, <1>4
<1>6. /\ kept \in Seq(Keys) /\ Once(kept) /\ Len(kept) = Len(l) - over
      /\ ToSet(kept) \subseteq ToSet(l)
    BY <1>2, <1>5, PrefixFacts
<1> HIDE DEF kept
<1>7. DOMAIN entries' = ToSet(kept)
    BY <1>1, <1>2, <1>6
<1>8. ToSet(l) \subseteq Keys
    BY <1>2 DEF CacheInv
<1> QED BY <1>1, <1>2, <1>4, <1>6, <1>7, <1>8

\* put, get, has and delete of CachedStorage, whole or failing, keep it.
LEMMA CacheInvStep == CacheInv /\ [StorageNext]_storage_vars => CacheInv'
<1> SUFFICES ASSUME CacheInv, [StorageNext]_storage_vars
             PROVE  CacheInv'
    OBVIOUS
<1>1. ASSUME NEW B, B \subseteq Keys, Holds(B), UNCHANGED <<entries, lru>>
      PROVE  CacheInv'
    <2>1. /\ backend' \subseteq Keys /\ unheld' \in [Keys -> 0..Ttl]
          /\ \A k \in backend' : unheld'[k] = 0
          /\ \A k \in Keys : unheld'[k] \in {0, unheld[k]}
        BY <1>1, HoldsInv
    <2>2. \A k \in DOMAIN entries : k \in Keys /\ entries[k] \in 0..Ttl /\ unheld[k] <= entries[k]
        BY DEF CacheInv
    <2>3. \A k \in DOMAIN entries : unheld'[k] <= entries[k]
        BY <2>1, <2>2, CacheLimits
    <2> QED BY <1>1, <2>1, <2>3 DEF CacheInv
<1>2. ASSUME NEW k \in Keys, Cached(k), k \in backend',
             backend' \subseteq Keys, unheld' \in [Keys -> 0..Ttl],
             \A m \in backend' : unheld'[m] = 0,
             \A m \in Keys : unheld'[m] \in {0, unheld[m]}
      PROVE  CacheInv'
    <2>1. /\ lru' \in Seq(Keys) /\ Once(lru') /\ Len(lru') <= MaxEntries
          /\ ToSet(lru') = DOMAIN entries'
          /\ DOMAIN entries' \subseteq Keys
          /\ \A m \in DOMAIN entries' : entries'[m] = IF m = k THEN 0 ELSE entries[m]
          /\ \A m \in DOMAIN entries' : m = k \/ m \in DOMAIN entries
        BY <1>2, CachedInv
    <2>2. \A m \in DOMAIN entries : m \in Keys /\ entries[m] \in 0..Ttl /\ unheld[m] <= entries[m]
        BY DEF CacheInv
    <2>3. \A m \in DOMAIN entries' : entries'[m] \in 0..Ttl /\ unheld'[m] <= entries'[m]
        <3> SUFFICES ASSUME NEW m \in DOMAIN entries'
                     PROVE  entries'[m] \in 0..Ttl /\ unheld'[m] <= entries'[m]
            OBVIOUS
        <3>1. CASE m = k
            BY <3>1, <1>2, <2>1, CacheLimits
        <3>2. CASE m # k
            BY <3>2, <1>2, <2>1, <2>2, CacheLimits
        <3> QED BY <3>1, <3>2
    <2> QED BY <1>2, <2>1, <2>3 DEF CacheInv
<1>3. CASE Gc
    <2>1. backend \cap pinned \subseteq Keys
        BY DEF CacheInv
    <2> QED BY <1>1, <1>3, <2>1 DEF Gc
<1>4. CASE Tick
    <2>1. \A k \in DOMAIN entries : k \in Keys /\ entries[k] \in 0..Ttl /\ unheld[k] \in 0..Ttl
                                   /\ unheld[k] <= entries[k]
        BY DEF CacheInv
    <2>2. /\ entries' = [k \in DOMAIN entries |-> Min({entries[k] + 1, Ttl})]
          /\ unheld' = [k \in Keys |-> IF k \in backend THEN 0 ELSE Min({unheld[k] + 1, Ttl})]
          /\ backend' = backend /\ lru' = lru
        BY <1>4 DEF Tick
    <2>3. ASSUME NEW a \in 0..Ttl
          PROVE  Min({a + 1, Ttl}) = IF a + 1 <= Ttl THEN a + 1 ELSE Ttl
        BY CacheLimits, LesserAge
    <2>4. ASSUME NEW k \in DOMAIN entries
          PROVE  entries'[k] \in 0..Ttl /\ unheld'[k] <= entries'[k]
        BY <2>1, <2>2, <2>3, CacheLimits
    <2>5. unheld' \in [Keys -> 0..Ttl] /\ \A k \in backend : unheld'[k] = 0
        <3>1. ASSUME NEW k \in Keys
              PROVE  unheld'[k] \in 0..Ttl
            <4>1. unheld[k] \in 0..Ttl
                BY DEF CacheInv
            <4> QED BY <4>1, <2>2, <2>3, CacheLimits
        <3>2. backend \subseteq Keys
            BY DEF CacheInv
        <3> QED BY <3>1, <3>2, <2>2
    <2>6. DOMAIN entries' = DOMAIN entries
        BY <2>2
    <2> QED BY <2>2, <2>4, <2>5, <2>6 DEF CacheInv
<1>5. ASSUME NEW k \in Keys,
             \/ RawPut(k) \/ RawDelete(k) \/ Pin(k) \/ Unpin(k)
             \/ CachePut(k) \/ CacheGet(k) \/ CacheDelete(k)
      PROVE  CacheInv'
    <2>1. backend \union {k} \subseteq Keys /\ backend \ {k} \subseteq Keys
        BY DEF CacheInv
    <2>2. CASE RawPut(k)
        BY <2>1, <2>2, <1>1 DEF RawPut
    <2>3. CASE RawDelete(k)
        BY <2>1, <2>3, <1>1 DEF RawDelete
    <2>4. CASE Pin(k) \/ Unpin(k)
        BY <2>4 DEF Pin, Unpin, CacheInv
    <2>5. CASE CachePut(k)
        <3>1. Holds(backend \union {k}) /\ Cached(k)
            BY <2>5 DEF CachePut
        <3>2. k \in backend'
            BY <3>1 DEF Holds
        <3> QED BY <3>1, <3>2, <2>1, <1>2, HoldsInv
    <2>6. CASE CacheGet(k)
        <3>1. backend' = backend /\ unheld' = unheld
            BY <2>6 DEF CacheGet
        <3>2. CASE Live(k) /\ lru' = touch(lru, k) /\ UNCHANGED entries
            <4>1. k \in DOMAIN entries
                BY <3>2 DEF Live
            <4>2. lru \in Seq(Keys) /\ Once(lru) /\ ToSet(lru) = DOMAIN entries
                BY DEF CacheInv
            <4>3. lru' \in Seq(Keys) /\ Once(lru') /\ ToSet(lru') = DOMAIN entries
                <5>1. /\ touch(lru, k) \in Seq(Keys) /\ Once(touch(lru, k))
                      /\ ToSet(touch(lru, k)) = ToSet(lru) \union {k}
                    BY <4>2, TouchFacts
                <5>2. DOMAIN entries \union {k} = DOMAIN entries
                    BY <4>1
                <5> QED BY <3>2, <4>2, <5>1, <5>2
            <4>4. Len(lru') = Len(lru)
                BY <4>2, <4>3, OnceCounts
            <4> QED BY <3>1, <3>2, <4>3, <4>4 DEF CacheInv
        <3>3. CASE k \in backend /\ Cached(k)
            <4>1. /\ backend \subseteq Keys /\ unheld \in [Keys -> 0..Ttl]
                  /\ \A m \in backend : unheld[m] = 0
                BY DEF CacheInv
            <4> QED BY <3>1, <3>3, <4>1, <1>2
        <3>4. CASE UNCHANGED <<entries, lru>>
            BY <3>1, <3>4 DEF CacheInv
        <3> QED BY <3>2, <3>3, <3>4, <2>6 DEF CacheGet
    <2>7. CASE CacheDelete(k)
        <3>1. /\ Holds(backend \ {k})
              /\ entries' = [m \in DOMAIN entries \ {k} |-> entries[m]]
              /\ lru' = RemoveFirst(lru, k)
            BY <2>7 DEF CacheDelete
        <3>2. /\ backend' \subseteq Keys /\ unheld' \in [Keys -> 0..Ttl]
              /\ \A m \in backend' : unheld'[m] = 0
              /\ \A m \in Keys : unheld'[m] \in {0, unheld[m]}
            BY <3>1, <2>1, HoldsInv
        <3>3. lru \in Seq(Keys) /\ Once(lru) /\ ToSet(lru) = DOMAIN entries
            BY DEF CacheInv
        <3>4. lru' \in Seq(Keys) /\ Once(lru') /\ ToSet(lru') = DOMAIN entries \ {k}
            BY <3>1, <3>3, RemoveFacts
        <3>5. Len(lru') <= Len(lru)
            <4>1. /\ IsFiniteSet(ToSet(lru)) /\ Cardinality(ToSet(lru)) = Len(lru)
                  /\ Cardinality(ToSet(lru')) = Len(lru')
                BY <3>3, <3>4, OnceCounts
            <4> QED BY <3>3, <3>4, <4>1, FS_Subset
        <3>6. Len(lru') <= MaxEntries
            <4>1. Len(lru) <= MaxEntries /\ Len(lru) \in Nat /\ Len(lru') \in Nat
                BY <3>3, <3>4 DEF CacheInv
            <4> QED BY <4>1, <3>5, CacheLimits
        <3>7. DOMAIN entries' = DOMAIN entries \ {k} /\ DOMAIN entries \subseteq Keys
            BY <3>1 DEF CacheInv
        <3>8. \A m \in DOMAIN entries' : entries'[m] \in 0..Ttl /\ unheld'[m] <= entries'[m]
            <4>1. \A m \in DOMAIN entries : entries[m] \in 0..Ttl /\ unheld[m] <= entries[m]
                BY DEF CacheInv
            <4> QED BY <4>1, <3>1, <3>2, <3>7, CacheLimits
        <3> QED BY <3>2, <3>4, <3>6, <3>7, <3>8 DEF CacheInv
    <2> QED BY <1>5, <2>2, <2>3, <2>4, <2>5, <2>6, <2>7
<1>6. CASE UNCHANGED storage_vars
    BY <1>6 DEF storage_vars, CacheInv
<1> QED BY <1>3, <1>4, <1>5, <1>6 DEF StorageNext

\* What CacheFaithful promises follows from it.
LEMMA CacheInvSuffices == CacheInv => CacheFaithful
<1> SUFFICES ASSUME CacheInv
             PROVE  CacheFaithful
    OBVIOUS
<1>1. ASSUME NEW k \in Keys
      PROVE  /\ Got(k) # {} => k \in backend \/ unheld[k] < Ttl
             /\ k \in backend => Got(k) # {} /\ k \in CacheList(Keys)
             /\ CacheHas(k) /\ Got(k) = {} => k \in DOMAIN entries /\ entries[k] = Ttl
    <2>1. unheld[k] \in 0..Ttl
          /\ (k \in DOMAIN entries => entries[k] \in 0..Ttl /\ unheld[k] <= entries[k])
        BY DEF CacheInv
    <2> QED BY <2>1, CacheLimits DEF Got, Live, CacheHas, CacheList
<1>2. lru \in Seq(Keys) /\ Once(lru) /\ ToSet(lru) = DOMAIN entries /\ Len(lru) <= MaxEntries
    BY DEF CacheInv
<1>3. Len(lru) = Cardinality(DOMAIN entries)
    BY <1>2, OnceCounts
<1> QED BY <1>1, <1>2, <1>3 DEF CacheFaithful

\* Whatever changes the backend behind it, the cache of hllset-storage answers
\* only what the backend holds or held less than a TTL ago, finds all that it
\* holds, and its queue and map (cache.rs:63-97) agree within the limit.
THEOREM CacheStaysFaithful ==
    StorageInit /\ [][StorageNext]_storage_vars => []CacheFaithful
<1>1. StorageInit => CacheInv
    BY CacheInvInit
<1>2. CacheInv /\ [StorageNext]_storage_vars => CacheInv'
    BY CacheInvStep
<1>3. CacheInv => CacheFaithful
    BY CacheInvSuffices
<1> QED BY <1>1, <1>2, <1>3, PTL

-----------------------------------------------------------------------------
(* The history of bases: consecutive generations, each found by its number.  *)

Snap == [generation : Nat, rows : Seq(Row), cover : SUBSET Bits]

Consecutive(h) ==
    /\ h \in Seq(Snap)
    /\ h # <<>> => h[1].generation \in {0, 1}
    /\ \A k \in DOMAIN h : /\ h[k].generation = h[1].generation + k - 1
                           /\ Len(h[k].rows) = h[k].generation

\* What RowsOf reads in the history h.
RowsIn(h, g) ==
    LET named == {k \in DOMAIN h : h[k].generation = g}
    IN  IF named = {} THEN <<>> ELSE h[Max(named)].rows

\* With consecutive generations, the entry of one is found by its number.
LEMMA RowsFound ==
    ASSUME NEW h, Consecutive(h), NEW k \in DOMAIN h
    PROVE  RowsIn(h, h[k].generation) = h[k].rows
<1> DEFINE named == {j \in DOMAIN h : h[j].generation = h[k].generation}
<1>0. /\ DOMAIN h = 1..Len(h) /\ Len(h) \in Nat /\ 1 \in DOMAIN h
      /\ \A j \in DOMAIN h : h[j].generation \in Nat
    BY SMTT(40) DEF Consecutive, Snap
<1>1. ASSUME NEW j \in named
      PROVE  j = k
    <2>1. /\ h[j].generation = h[1].generation + j - 1
          /\ h[k].generation = h[1].generation + k - 1
        BY DEF Consecutive
    <2> QED BY <1>0, <2>1
<1>2. named = {k}
    BY <1>1
<1>3. Max({k}) = k
    <2>1. k \in Nat
        BY <1>0
    <2> QED BY <2>1 DEF Max
<1> QED BY <1>2, <1>3 DEF RowsIn

\* Generation 0 is the empty basis, recorded by no entry.
LEMMA RowsNone ==
    ASSUME NEW h, Consecutive(h)
    PROVE  RowsIn(h, 0) = <<>>
<1>1. CASE \E k \in DOMAIN h : h[k].generation = 0
    <2>1. PICK k \in DOMAIN h : h[k].generation = 0
        BY <1>1
    <2>2. h[k].rows \in Seq(Row) /\ Len(h[k].rows) = 0
        <3>1. h[k] \in Snap
            BY DEF Consecutive
        <3>2. h[k].rows \in Seq(Row)
            BY <3>1 DEF Snap
        <3>3. Len(h[k].rows) = h[k].generation
            BY DEF Consecutive
        <3> QED BY <2>1, <3>2, <3>3
    <2>3. h[k].rows = <<>>
        BY <2>2
    <2>4. RowsIn(h, h[k].generation) = h[k].rows
        BY RowsFound
    <2> QED BY <2>1, <2>3, <2>4
<1>2. CASE ~ \E k \in DOMAIN h : h[k].generation = 0
    BY <1>2 DEF RowsIn
<1> QED BY <1>1, <1>2

\* A new snapshot hides no older one.
LEMMA RowsKept ==
    ASSUME NEW h, Consecutive(h), NEW s \in Snap, Consecutive(Append(h, s)),
           NEW g \in Nat, g = 0 \/ (h # <<>> /\ g <= h[Len(h)].generation)
    PROVE  RowsIn(Append(h, s), g) = RowsIn(h, g)
<1>1. CASE g = 0
    BY <1>1, RowsNone
<1>2. CASE g # 0
    <2>0. h \in Seq(Snap) /\ h # <<>> /\ g <= h[Len(h)].generation /\ DOMAIN h = 1..Len(h)
          /\ Len(h) \in Nat \ {0}
        BY <1>2 DEF Consecutive
    <2>1. h[1].generation \in {0, 1} /\ h[Len(h)].generation = h[1].generation + Len(h) - 1
        BY <2>0 DEF Consecutive
    <2> DEFINE k == g - h[1].generation + 1
    <2>2. k \in DOMAIN h
        BY <1>2, <2>0, <2>1
    <2>3. h[k].generation = g
        <3> HIDE DEF k
        <3>1. h[k].generation = h[1].generation + k - 1
            BY <2>2 DEF Consecutive
        <3> QED BY <3>1, <2>1 DEF k
    <2> HIDE DEF k
    <2> DEFINE t == Append(h, s)
    <2>4. k \in DOMAIN t /\ t[k] = h[k]
        BY <2>0, <2>2
    <2>5. Consecutive(t)
        OBVIOUS
    <2> HIDE DEF t
    <2>6. RowsIn(h, g) = h[k].rows
        BY <2>2, <2>3, RowsFound
    <2>7. RowsIn(t, t[k].generation) = t[k].rows
        BY <2>4, <2>5, RowsFound
    <2> QED BY <2>3, <2>4, <2>6, <2>7 DEF t
<1> QED BY <1>1, <1>2

-----------------------------------------------------------------------------
(* The invariant of the series of frames.                                    *)

\* The frames that were pushed before the one after the n-th.
Generated(n) == {Unions[j] : j \in PushedUntil(n + 1)}

\* The keys of the i-th frame, from the basis their generation names.
KeyExact(i) ==
    LET then == RowsIn(history, keys[i].generation) IN
    /\ keys[i].generation \in 0..window.generation
    /\ keys[i].soft = BssVector(then, Unions[i])
    /\ keys[i].hard = LinearCover(then, Unions[i])
    /\ Len(then) + (IF keys[i].changed THEN 1 ELSE 0) = keys[i].stats.dimension
    /\ keys[i].hard # {} <=> Unions[i] \in Span({Unions[j] : j \in PushedUntil(i)})

WindowTyped ==
    /\ DOMAIN window = {"rows", "originals", "generation", "total", "evict"}
    /\ window = [field \in DOMAIN window |-> window[field]]
    /\ window.evict = FALSE
    /\ window.rows \in Seq(Row) /\ Echelon(window.rows)
    /\ window.generation = Len(window.rows)

\* The last snapshot is of the window, the first of the first frame alone.
HistoryExact ==
    /\ Consecutive(history)
    /\ history = <<>> <=> frames = <<>>
    /\ frames = <<>> => window.rows = <<>>
    /\ frames # <<>> => /\ history[Len(history)] = Snapshot(window)
                        /\ history[1].cover = Unions[1]

TravelInv ==
    /\ freeze \in Freezes
    /\ frames \in Seq(SceneFrames)
    /\ WindowTyped
    /\ HistoryExact
    /\ Spanned(window.rows) = Span(Generated(Len(frames)))
    /\ keys \in Seq(Range(keys)) /\ Len(keys) = Len(frames)
    /\ \A i \in DOMAIN frames : KeyExact(i)

\* How many frames are pushed before the i-th arrives.
Cap(i) == Min({i - 1} \cup {Max({n, 1}) : n \in freeze})

\* The freeze is absent, or a length after which nothing is pushed.
LEMMA CapFacts ==
    ASSUME freeze \in Freezes
    PROVE  \/ /\ freeze = {} /\ ~Frozen
              /\ \A i \in Nat \ {0} : PushedUntil(i) = 1..i - 1
           \/ \E c \in Nat \ {0} :
                /\ Frozen <=> Len(frames) >= c
                /\ \A i \in Nat \ {0} : PushedUntil(i) = IF i - 1 <= c THEN 1..i - 1 ELSE 1..c
<1>1. CASE freeze = {}
    <2>1. ASSUME NEW i \in Nat \ {0}
          PROVE  PushedUntil(i) = 1..i - 1
        <3>1. {i - 1} \cup {Max({n, 1}) : n \in freeze} = {i - 1}
            BY <1>1
        <3>2. Min({i - 1}) = i - 1
            BY DEF Min
        <3> QED BY <3>1, <3>2 DEF PushedUntil
    <2> QED BY <1>1, <2>1 DEF Frozen
<1>2. ASSUME NEW n \in Nat, freeze = {n}
      PROVE  \E c \in Nat \ {0} :
                /\ Frozen <=> Len(frames) >= c
                /\ \A i \in Nat \ {0} : PushedUntil(i) = IF i - 1 <= c THEN 1..i - 1 ELSE 1..c
    <2> DEFINE c == Max({n, 1})
    <2>1. c \in Nat \ {0}
        BY DEF Max
    <2>2. Frozen <=> Len(frames) >= c
        BY <1>2 DEF Frozen
    <2>3. ASSUME NEW i \in Nat \ {0}
          PROVE  PushedUntil(i) = IF i - 1 <= c THEN 1..i - 1 ELSE 1..c
        <3>1. {i - 1} \cup {Max({m, 1}) : m \in freeze} = {i - 1, c}
            BY <1>2
        <3> HIDE DEF c
        <3>2. Min({i - 1, c}) = IF i - 1 <= c THEN i - 1 ELSE c
            BY <2>1, LesserAge
        <3> QED BY <3>1, <3>2 DEF PushedUntil, c
    <2> HIDE DEF c
    <2> QED BY <2>1, <2>2, <2>3
<1> QED BY <1>1, <1>2, SceneAssumption

\* The positions of the scene's HLLSets are those the ring's facts ask for.
LEMMA ScenePositions == Positions
BY SceneAssumption DEF Positions

\* The HLLSets of the frames.
LEMMA UnionsType ==
    ASSUME frames \in Seq(SceneFrames)
    PROVE  /\ Unions \in Seq(SUBSET Bits) /\ Len(Unions) = Len(frames)
           /\ DOMAIN Unions = DOMAIN frames
           /\ \A i \in DOMAIN frames : Unions[i] = Hll(frames[i]) /\ Unions[i] \in SUBSET Bits
<1>1. \A i \in DOMAIN frames : Hll(frames[i]) \in SUBSET Bits
    BY SceneAssumption
<1>2. Unions = [i \in 1..Len(frames) |-> Hll(frames[i])]
    BY DEF Unions
<1>3. Len(frames) \in Nat /\ DOMAIN frames = 1..Len(frames)
    OBVIOUS
<1> QED BY <1>1, <1>2, <1>3

\* The unions of a set of frames are finitely many HLLSets.
LEMMA GeneratedType ==
    ASSUME frames \in Seq(SceneFrames), NEW J \in SUBSET DOMAIN frames
    PROVE  LET G == {Unions[j] : j \in J}
           IN  G \in SUBSET SUBSET Bits /\ IsFiniteSet(G)
<1>1. {Unions[j] : j \in J} \in SUBSET SUBSET Bits
    BY UnionsType
<1>2. IsFiniteSet(SUBSET Bits)
    BY SceneAssumption, FS_SUBSET
<1> QED BY <1>1, <1>2, FS_Subset

\* The empty history satisfies the invariant of the sidecar's travel.
LEMMA TravelInit == SidecarInit => TravelInv
<1> SUFFICES ASSUME SidecarInit
             PROVE  TravelInv
    OBVIOUS
<1>1. /\ frames = <<>> /\ keys = <<>> /\ history = <<>> /\ freeze \in Freezes
      /\ window = [rows |-> <<>>, originals |-> <<>>, generation |-> 0, total |-> 0, evict |-> FALSE]
    BY DEF SidecarInit, EmptyWindow
<1>2. WindowTyped
    <2>1. Echelon(<<>>)
        BY DEF Echelon
    <2> QED BY <1>1, <2>1 DEF WindowTyped
<1>3. HistoryExact
    BY <1>1 DEF HistoryExact, Consecutive
<1>4. PushedUntil(1) = {}
    <2>1. 1 \in Nat \ {0} /\ 1..(1 - 1) = {}
        OBVIOUS
    <2>2. \A c \in Nat \ {0} : 1 - 1 <= c
        OBVIOUS
    <2> QED BY <1>1, <2>1, <2>2, CapFacts
<1>5. Generated(Len(frames)) = {}
    BY <1>1, <1>4 DEF Generated
<1>6. Spanned(window.rows) = Span(Generated(Len(frames)))
    BY <1>1, <1>5, SpannedNothing, ScenePositions
<1> QED BY <1>1, <1>2, <1>3, <1>6 DEF TravelInv

\* A push: one row more, or the same rows in the same generation.
LEMMA PushedIs ==
    ASSUME WindowTyped, NEW x \in SUBSET Bits
    PROVE  LET w == Pushed(window, x) IN
           /\ DOMAIN w = DOMAIN window /\ w = [field \in DOMAIN w |-> w[field]]
           /\ w.evict = FALSE /\ w.rows = Insert(window.rows, x)
           /\ w.rows \in Seq(Row) /\ Echelon(w.rows)
           /\ w.generation = Len(w.rows)
           /\ InSpan(window.rows, x) => w.rows = window.rows /\ w.generation = window.generation
           /\ ~InSpan(window.rows, x) => w.generation = window.generation + 1
           /\ Spanned(w.rows) = Doubled(Spanned(window.rows), x)
           /\ RingStats(window, x).dimension = Len(w.rows)
<1> DEFINE w == Pushed(window, x)
<1>0. Positions /\ window.rows \in Seq(Row) /\ Echelon(window.rows)
    BY ScenePositions DEF WindowTyped
<1>1. /\ DOMAIN w = DOMAIN window /\ w = [field \in DOMAIN w |-> w[field]]
      /\ w.evict = window.evict /\ w.rows = NextRows(window, x)
      /\ w.generation = window.generation + Bumps(window, x)
    BY DEF Pushed, WindowTyped
<1>2. NextRows(window, x) = Insert(window.rows, x)
    BY DEF NextRows, Rebuilds, WindowTyped
<1>3. Bumps(window, x) = IF InSpan(window.rows, x) THEN 0 ELSE 1
    BY DEF Bumps, Rebuilds, WindowTyped
<1>4. /\ Insert(window.rows, x) \in Seq(Row) /\ Echelon(Insert(window.rows, x))
      /\ InSpan(window.rows, x) => Insert(window.rows, x) = window.rows
    BY <1>0, InsertEchelon
<1>5. ~InSpan(window.rows, x) => Len(Insert(window.rows, x)) = Len(window.rows) + 1
    <2> SUFFICES ASSUME ~InSpan(window.rows, x)
                 PROVE  Len(Insert(window.rows, x)) = Len(window.rows) + 1
        OBVIOUS
    <2>1. DOMAIN Insert(window.rows, x) = DOMAIN window.rows \union {Len(window.rows) + 1}
        BY <1>0, InsertRows
    <2> HIDE <1>2
    <2>2. ASSUME NEW a \in Nat, NEW b \in Nat, 1..b = 1..a \union {a + 1}
          PROVE  b = a + 1
        <3>1. a + 1 \in 1..b /\ (b = 0 \/ b \in 1..b)
            BY <2>2
        <3> QED BY <3>1, <2>2
    <2>3. /\ DOMAIN Insert(window.rows, x) = 1..Len(Insert(window.rows, x))
          /\ DOMAIN window.rows = 1..Len(window.rows)
          /\ Len(Insert(window.rows, x)) \in Nat /\ Len(window.rows) \in Nat
        BY <1>0, <1>4
    <2> QED BY <2>1, <2>2, <2>3
<1>6. Spanned(Insert(window.rows, x)) = Doubled(Spanned(window.rows), x)
    BY <1>0, InsertSpanned
<1>7. window.generation = Len(window.rows) /\ window.evict = FALSE /\ Len(window.rows) \in Nat
    BY <1>0 DEF WindowTyped
<1>8. RingStats(window, x).dimension = Len(NextRows(window, x))
    BY DEF RingStats
<1> HIDE DEF w
<1> DEFINE r == Insert(window.rows, x)
<1>9. /\ w.rows = r /\ w.generation = Len(w.rows)
      /\ ~InSpan(window.rows, x) => w.generation = window.generation + 1
    <2>1. w.rows = r /\ w.generation = window.generation + Bumps(window, x)
        BY <1>1, <1>2
    <2> HIDE DEF r
    <2>2. CASE InSpan(window.rows, x)
        <3>1. r = window.rows
            BY <1>4, <2>2 DEF r
        <3> QED BY <1>3, <1>7, <2>1, <2>2, <3>1
    <2>3. CASE ~InSpan(window.rows, x)
        <3>1. Len(r) = Len(window.rows) + 1
            BY <1>5, <2>3 DEF r
        <3> QED BY <1>3, <1>7, <2>1, <2>3, <3>1
    <2> QED BY <2>2, <2>3
<1>10. InSpan(window.rows, x) => w.rows = window.rows /\ w.generation = window.generation
    BY <1>4, <1>7, <1>9
<1> QED BY <1>1, <1>2, <1>4, <1>6, <1>7, <1>8, <1>9, <1>10 DEF w

\* The frame that arrives, and how many were pushed by then.
LEMMA StepFrames ==
    ASSUME TravelInv, NEW f \in SceneFrames, Step(f)
    PROVE  /\ frames' \in Seq(SceneFrames) /\ Len(frames') = Len(frames) + 1
           /\ DOMAIN frames' = DOMAIN frames \union {Len(frames) + 1} /\ frames' # <<>>
           /\ DOMAIN frames = 1..Len(frames) /\ Len(frames) \in Nat
           /\ \A i \in DOMAIN frames : Unions'[i] = Unions[i] /\ Unions[i] \in SUBSET Bits
           /\ Unions'[Len(frames) + 1] = Hll(f) /\ Hll(f) \in SUBSET Bits
           /\ freeze' = freeze /\ \A i : PushedUntil(i)' = PushedUntil(i)
<1>1. /\ frames' = Append(frames, f) /\ freeze' = freeze /\ frames \in Seq(SceneFrames)
    BY DEF Step, TravelInv
<1>2. /\ frames' \in Seq(SceneFrames) /\ Len(frames') = Len(frames) + 1
      /\ DOMAIN frames' = DOMAIN frames \union {Len(frames) + 1} /\ frames' # <<>>
      /\ DOMAIN frames = 1..Len(frames) /\ Len(frames) \in Nat
      /\ \A i \in DOMAIN frames : frames'[i] = frames[i]
      /\ frames'[Len(frames) + 1] = f
    BY <1>1
<1>3. Unions' = [i \in DOMAIN frames' |-> Hll(frames'[i])]
    BY DEF Unions, Hll, FrameState
<1>4. \A i \in DOMAIN frames : Unions[i] = Hll(frames[i]) /\ Unions[i] \in SUBSET Bits
    BY <1>1, UnionsType
<1>5. \A i \in DOMAIN frames : i \in DOMAIN frames' /\ Unions'[i] = Unions[i]
    BY <1>2, <1>3, <1>4
<1>6. Unions'[Len(frames) + 1] = Hll(f) /\ Hll(f) \in SUBSET Bits
    BY <1>2, <1>3, SceneAssumption
<1>7. \A i : PushedUntil(i)' = PushedUntil(i)
    BY <1>1 DEF PushedUntil
<1> QED BY <1>1, <1>2, <1>4, <1>5, <1>6, <1>7

\* Which frames a new frame finds pushed, before the freeze and after it.
LEMMA StepPushed ==
    ASSUME TravelInv
    PROVE  LET n == Len(frames) IN
           /\ PushedUntil(n + 1) \subseteq DOMAIN frames
           /\ ~Frozen => PushedUntil(n + 1) = 1..n /\ PushedUntil(n + 2) = 1..n + 1
           /\ Frozen => PushedUntil(n + 2) = PushedUntil(n + 1) /\ n # 0
<1> DEFINE n == Len(frames)
<1>1. n \in Nat /\ DOMAIN frames = 1..n /\ freeze \in Freezes
    BY DEF TravelInv
<1>2. n + 1 \in Nat \ {0} /\ n + 2 \in Nat \ {0} /\ (n + 1) - 1 = n /\ (n + 2) - 1 = n + 1
    BY <1>1
<1>3. CASE /\ freeze = {} /\ ~Frozen
           /\ \A i \in Nat \ {0} : PushedUntil(i) = 1..i - 1
    BY <1>1, <1>2, <1>3
<1>4. ASSUME NEW c \in Nat \ {0}, Frozen <=> n >= c,
             \A i \in Nat \ {0} : PushedUntil(i) = IF i - 1 <= c THEN 1..i - 1 ELSE 1..c
      PROVE  /\ PushedUntil(n + 1) \subseteq DOMAIN frames
             /\ ~Frozen => PushedUntil(n + 1) = 1..n /\ PushedUntil(n + 2) = 1..n + 1
             /\ Frozen => PushedUntil(n + 2) = PushedUntil(n + 1) /\ n # 0
    <2>1. PushedUntil(n + 1) = IF n <= c THEN 1..n ELSE 1..c
        BY <1>2, <1>4
    <2>2. PushedUntil(n + 2) = IF n + 1 <= c THEN 1..n + 1 ELSE 1..c
        BY <1>2, <1>4
    <2> HIDE DEF n
    <2>3. CASE n >= c
        <3>1. PushedUntil(n + 1) = 1..c /\ PushedUntil(n + 2) = 1..c
            BY <1>1, <2>1, <2>2, <2>3
        <3> QED BY <1>1, <1>4, <2>3, <3>1
    <2>4. CASE ~(n >= c)
        BY <1>1, <1>4, <2>1, <2>2, <2>4
    <2> QED BY <2>3, <2>4
<1> QED BY <1>1, <1>3, <1>4, CapFacts

\* The rows keep spanning the frames that were pushed.
LEMMA StepRows ==
    ASSUME TravelInv, NEW f \in SceneFrames, Step(f)
    PROVE  /\ WindowTyped'
           /\ Spanned(window.rows)' = Span(Generated(Len(frames)))'
<1> DEFINE n == Len(frames)
           x == Hll(f)
           G == Generated(n)
<1>1. /\ frames' \in Seq(SceneFrames) /\ Len(frames') = n + 1
      /\ DOMAIN frames = 1..n /\ n \in Nat
      /\ \A i \in 1..n : Unions'[i] = Unions[i] /\ Unions[i] \in SUBSET Bits
      /\ Unions'[n + 1] = x /\ x \in SUBSET Bits
      /\ \A i : PushedUntil(i)' = PushedUntil(i)
    BY StepFrames
<1>2. /\ PushedUntil(n + 1) \subseteq 1..n
      /\ ~Frozen => PushedUntil(n + 1) = 1..n /\ PushedUntil(n + 2) = 1..n + 1
      /\ Frozen => PushedUntil(n + 2) = PushedUntil(n + 1)
    BY <1>1, StepPushed
<1>3. WindowTyped /\ Spanned(window.rows) = Span(G)
    BY DEF TravelInv
<1>4. Generated(Len(frames))' = {Unions'[j] : j \in PushedUntil(n + 2)}
    <2>1. (n + 1) + 1 = n + 2
        BY <1>1
    <2>2. Generated(Len(frames))' = {Unions'[j] : j \in PushedUntil(Len(frames) + 1)'}
        BY DEF Generated
    <2>3. PushedUntil(Len(frames) + 1)' = PushedUntil(Len(frames') + 1)
        BY DEF PushedUntil, Step
    <2> QED BY <1>1, <2>1, <2>2, <2>3
<1>5. G = {Unions[j] : j \in PushedUntil(n + 1)}
    BY DEF Generated
<1>6. G \in SUBSET SUBSET Bits /\ IsFiniteSet(G)
    BY <1>1, <1>2, <1>5, GeneratedType DEF TravelInv
<1>7. CASE Frozen
    <2>1. window' = window
        BY <1>7 DEF Step
    <2>2. Generated(Len(frames))' = G
        BY <1>1, <1>2, <1>4, <1>5, <1>7
    <2>3. WindowTyped'
        BY <1>3, <2>1 DEF WindowTyped
    <2>4. Spanned(window.rows)' = Spanned(window.rows)
        BY <2>1 DEF Spanned
    <2>5. Span(Generated(Len(frames)))' = Span(G)
        BY <2>2
    <2> QED BY <1>3, <2>3, <2>4, <2>5
<1>8. CASE ~Frozen
    <2>1. window' = Pushed(window, x)
        BY <1>8 DEF Step
    <2>2. /\ DOMAIN window' = DOMAIN window /\ window' = [field \in DOMAIN window' |-> window'[field]]
          /\ window'.evict = FALSE
          /\ window'.rows \in Seq(Row) /\ Echelon(window'.rows)
          /\ window'.generation = Len(window'.rows)
          /\ Spanned(window'.rows) = Doubled(Spanned(window.rows), x)
        <3> HIDE DEF x
        <3> QED BY <1>1, <1>3, <2>1, PushedIs
    <2>3. WindowTyped'
        BY <1>3, <2>2 DEF WindowTyped
    <2>4. Generated(Len(frames))' = G \union {x}
        <3>1. 1..n + 1 = 1..n \union {n + 1}
            BY <1>1
        <3>2. \A j \in 1..n + 1 : Unions'[j] = IF j = n + 1 THEN x ELSE Unions[j]
            BY <1>1, <3>1
        <3>3. Generated(Len(frames))' = {Unions'[j] : j \in 1..n + 1} /\ G = {Unions[j] : j \in 1..n}
            BY <1>2, <1>4, <1>5, <1>8
        <3> HIDE DEF x, G, n
        <3>4. {Unions'[j] : j \in 1..n + 1} = {Unions'[j] : j \in 1..n} \union {Unions'[n + 1]}
            BY <3>1
        <3>5. {Unions'[j] : j \in 1..n} = {Unions[j] : j \in 1..n}
            BY <1>1
        <3> QED BY <1>1, <3>3, <3>4, <3>5
    <2>5. Span(G \union {x}) = Doubled(Span(G), x)
        <3> HIDE DEF x, G
        <3> QED BY <1>1, <1>6, SpanMore
    <2>6. Span(Generated(Len(frames)))' = Span(G \union {x})
        BY <2>4
    <2>7. Spanned(window.rows)' = Spanned(window'.rows)
        BY DEF Spanned
    <2> QED BY <1>3, <2>2, <2>3, <2>5, <2>6, <2>7
<1> QED BY <1>7, <1>8

\* The rows of a basis cover what the frames pushed into it contain.
LEMMA CoverGenerated ==
    ASSUME TravelInv
    PROVE  Cover(window.rows) = UNION Generated(Len(frames))
<1>1. Cover(window.rows) = UNION Spanned(window.rows)
    BY ScenePositions, CoverSpanned DEF TravelInv, WindowTyped
<1>2. Generated(Len(frames)) \in SUBSET SUBSET Bits /\ IsFiniteSet(Generated(Len(frames)))
    <2>1. PushedUntil(Len(frames) + 1) \subseteq DOMAIN frames
        BY StepPushed
    <2> QED BY <2>1, GeneratedType DEF TravelInv, Generated
<1>3. Spanned(window.rows) = Span(Generated(Len(frames)))
    BY DEF TravelInv
<1> QED BY <1>1, <1>2, <1>3, SpanUnion

\* A snapshot of a window is a snapshot.
LEMMA SnapshotType ==
    ASSUME NEW w, w.rows \in Seq(Row), Echelon(w.rows), w.generation = Len(w.rows)
    PROVE  Snapshot(w) \in Snap
<1>1. Cover(w.rows) \in SUBSET Bits
    BY DEF Cover, Echelon
<1>2. w.generation \in Nat
    OBVIOUS
<1> QED BY <1>1, <1>2 DEF Snapshot, Snap

\* A snapshot for each generation, the last one of the window.
LEMMA StepHistory ==
    ASSUME TravelInv, NEW f \in SceneFrames, Step(f)
    PROVE  /\ HistoryExact'
           /\ \A g \in 0..window.generation : RowsIn(history', g) = RowsIn(history, g)
           /\ window.generation \in Nat /\ window'.generation \in Nat
           /\ window.generation <= window'.generation
           /\ RowsIn(history, window.generation) = window.rows
<1> DEFINE n == Len(frames)
           x == Hll(f)
           w == Pushed(window, x)
           s == Snapshot(w)
<1>1. /\ frames' # <<>> /\ DOMAIN frames = 1..n /\ n \in Nat
      /\ \A i \in 1..n : Unions'[i] = Unions[i]
      /\ Unions'[n + 1] = x /\ x \in SUBSET Bits
    BY StepFrames
<1>2. /\ Consecutive(history)
      /\ history = <<>> <=> frames = <<>>
      /\ frames = <<>> => window.rows = <<>>
      /\ frames # <<>> => history[Len(history)] = Snapshot(window) /\ history[1].cover = Unions[1]
    BY DEF TravelInv, HistoryExact
<1>3. /\ window.rows \in Seq(Row) /\ window.generation = Len(window.rows)
      /\ window.generation \in Nat
    BY DEF TravelInv, WindowTyped
<1>4. /\ w.rows \in Seq(Row) /\ Echelon(w.rows) /\ w.generation = Len(w.rows)
      /\ InSpan(window.rows, x) => w.rows = window.rows /\ w.generation = window.generation
      /\ ~InSpan(window.rows, x) => w.generation = window.generation + 1
    <2> HIDE DEF x
    <2> QED BY <1>1, PushedIs DEF TravelInv
<1>5. RowsIn(history, window.generation) = window.rows
    <2>1. CASE frames = <<>>
        BY <1>2, <1>3, <2>1, RowsNone
    <2>2. CASE frames # <<>>
        <3>1. Len(history) \in DOMAIN history
            BY <1>2, <2>2 DEF Consecutive
        <3>2. /\ history[Len(history)].generation = window.generation
              /\ history[Len(history)].rows = window.rows
            BY <1>2, <2>2 DEF Snapshot
        <3>3. RowsIn(history, history[Len(history)].generation) = history[Len(history)].rows
            BY <1>2, <3>1, RowsFound
        <3> QED BY <3>2, <3>3
    <2> QED BY <2>1, <2>2
<1>6. CASE Frozen
    <2>1. window' = window /\ history' = history
        BY <1>6 DEF Step
    <2>2. n # 0
        BY <1>6, StepPushed
    <2>3. frames # <<>>
        BY <2>2
    <2>4. 1 \in 1..n
        BY <1>1, <2>2
    <2>5. Unions'[1] = Unions[1]
        BY <1>1, <2>4
    <2>6. HistoryExact'
        BY <1>1, <1>2, <2>1, <2>3, <2>5 DEF HistoryExact
    <2> QED BY <1>3, <1>5, <2>1, <2>6
<1>7. CASE ~Frozen
    <2>1. window' = w /\ history' = push_if_changed(history, w)
        BY <1>7 DEF Step
    <2>2. s \in Snap /\ s.generation = w.generation /\ s.rows = w.rows /\ s.cover = Cover(w.rows)
        <3>1. s.generation = w.generation /\ s.rows = w.rows /\ s.cover = Cover(w.rows)
            BY DEF Snapshot
        <3> HIDE DEF w
        <3>2. s \in Snap
            BY <1>4, SnapshotType
        <3> QED BY <3>1, <3>2
    <2> HIDE DEF x, w, s
    <2>3. w.generation \in Nat /\ window.generation <= w.generation
        BY <1>3, <1>4
    <2>4. history \in Seq(Snap) /\ Len(history) \in Nat
        BY <1>2 DEF Consecutive
    <2>5. CASE frames = <<>>
        <3>1. history = <<>> /\ history' = Append(history, s)
            BY <1>2, <2>1, <2>5 DEF push_if_changed, s
        <3>2. /\ history' \in Seq(Snap) /\ Len(history') = 1 /\ history'[1] = s
              /\ DOMAIN history' = {1} /\ history' # <<>>
            BY <2>2, <3>1
        <3>3. window.generation = 0
            BY <1>2, <1>3, <2>5
        <3>4. s.generation \in {0, 1} /\ Len(s.rows) = s.generation
            BY <1>4, <2>2, <3>3
        <3>5. Consecutive(history')
            BY <2>2, <2>3, <3>2, <3>4 DEF Consecutive
        <3>6. s.cover = x
            <4>1. Cover(window.rows) = {}
                BY <1>2, <2>5 DEF Cover
            <4>2. Spanned(w.rows) = Doubled(Spanned(window.rows), x)
                BY <1>1, PushedIs DEF TravelInv, w
            <4>3. Spanned(window.rows) = {{}}
                BY <1>2, <2>5, SpannedNothing, ScenePositions
            <4>4. Spanned(w.rows) = {{}, x}
                BY <4>2, <4>3, SumFacts DEF Doubled
            <4>5. Cover(w.rows) = UNION Spanned(w.rows)
                BY <1>4, ScenePositions, CoverSpanned
            <4> QED BY <2>2, <4>4, <4>5
        <3>7. n = 0
            BY <2>5
        <3>8. Unions'[1] = x
            BY <1>1, <3>7
        <3>9. HistoryExact'
            BY <1>1, <2>1, <3>2, <3>5, <3>6, <3>8 DEF HistoryExact, s
        <3>10. \A g \in 0..window.generation : RowsIn(history', g) = RowsIn(history, g)
            BY <1>2, <3>3, <3>5, RowsNone
        <3> QED BY <1>3, <1>5, <2>1, <2>3, <3>9, <3>10
    <2>6. CASE frames # <<>>
        <3>0. /\ history # <<>> /\ Len(history) \in DOMAIN history /\ 1 \in DOMAIN history
              /\ Last(history) = history[Len(history)] /\ DOMAIN history = 1..Len(history)
              /\ history[Len(history)].generation = window.generation
              /\ history[Len(history)].rows = window.rows
            BY <1>2, <2>4, <2>6 DEF Last, Snapshot
        <3>1. Unions'[1] = Unions[1]
            <4>1. n # 0
                BY <2>6
            <4>2. 1 \in 1..n
                BY <1>1, <4>1
            <4> QED BY <1>1, <4>2
        <3>2. CASE InSpan(window.rows, x)
            <4>1. history' = history
                BY <1>4, <2>1, <3>0, <3>2 DEF push_if_changed
            <4>2. Snapshot(window') = Snapshot(window)
                BY <1>4, <2>1, <3>2 DEF Snapshot
            <4>3. HistoryExact'
                <5>1. Consecutive(history') /\ (history' = <<>> <=> frames' = <<>>) /\ frames' # <<>>
                    BY <1>1, <1>2, <3>0, <4>1
                <5>2. history'[Len(history')] = Snapshot(window') /\ history'[1].cover = Unions'[1]
                    BY <1>2, <2>6, <3>1, <4>1, <4>2
                <5>3. Snapshot(window)' = Snapshot(window')
                    BY DEF Snapshot
                <5> QED BY <5>1, <5>2, <5>3 DEF HistoryExact
            <4> QED BY <1>3, <1>5, <2>1, <2>3, <4>1, <4>3
        <3>3. CASE ~InSpan(window.rows, x)
            <4>1. w.generation = window.generation + 1
                BY <1>4, <3>3
            <4>2. history' = Append(history, s)
                <5>1. w.generation # window.generation
                    BY <1>3, <4>1
                <5>2. Last(history).generation # w.generation
                    BY <3>0, <5>1
                <5> QED BY <2>1, <5>2 DEF push_if_changed, s
            <4>3. /\ history' \in Seq(Snap) /\ Len(history') = Len(history) + 1
                  /\ DOMAIN history' = 1..Len(history) + 1 /\ history' # <<>>
                  /\ history'[Len(history) + 1] = s
                  /\ \A k \in 1..Len(history) : history'[k] = history[k]
                BY <2>2, <2>4, <4>2
            <4>4. Consecutive(history')
                <5>1. /\ history[1].generation \in {0, 1}
                      /\ \A k \in 1..Len(history) :
                            /\ history[k].generation = history[1].generation + k - 1
                            /\ Len(history[k].rows) = history[k].generation
                    BY <1>2, <3>0 DEF Consecutive
                <5>2. history'[1] = history[1]
                    BY <3>0, <4>3
                <5>3. s.generation = history[1].generation + (Len(history) + 1) - 1
                    <6>1. window.generation = history[1].generation + Len(history) - 1
                        BY <3>0, <5>1
                    <6> QED BY <2>2, <2>4, <4>1, <5>1, <6>1
                <5>4. Len(s.rows) = s.generation
                    BY <1>4, <2>2
                <5>5. ASSUME NEW k \in 1..Len(history) + 1
                      PROVE  /\ history'[k].generation = history'[1].generation + k - 1
                             /\ Len(history'[k].rows) = history'[k].generation
                    <6>1. CASE k = Len(history) + 1
                        BY <4>3, <5>2, <5>3, <5>4, <6>1
                    <6>2. CASE k # Len(history) + 1
                        <7>1. k \in 1..Len(history)
                            BY <2>4, <6>2
                        <7> QED BY <4>3, <5>1, <5>2, <7>1
                    <6> QED BY <6>1, <6>2
                <5> QED BY <4>3, <5>1, <5>2, <5>5 DEF Consecutive
            <4>5. HistoryExact'
                <5>1. (history' = <<>> <=> frames' = <<>>) /\ frames' # <<>>
                    BY <1>1, <4>3
                <5>2. history'[Len(history')] = Snapshot(window') /\ history'[1].cover = Unions'[1]
                    BY <1>2, <2>1, <2>6, <3>0, <3>1, <4>3 DEF s
                <5>3. Snapshot(window)' = Snapshot(window')
                    BY DEF Snapshot
                <5> QED BY <4>4, <5>1, <5>2, <5>3 DEF HistoryExact
            <4>6. ASSUME NEW g \in 0..window.generation
                  PROVE  RowsIn(history', g) = RowsIn(history, g)
                <5>1. g \in Nat /\ g <= history[Len(history)].generation
                    BY <1>3, <3>0
                <5> QED BY <1>2, <2>2, <3>0, <4>2, <4>4, <5>1, RowsKept
            <4> QED BY <1>3, <1>5, <2>1, <2>3, <4>5, <4>6
        <3> QED BY <3>2, <3>3
    <2> QED BY <2>5, <2>6
<1> QED BY <1>6, <1>7

\* What is measured of a frame, for the basis that is there.
LEMMA StepMeasured ==
    ASSUME TravelInv, NEW f \in SceneFrames, Step(f)
    PROVE  LET m == Measured(Hll(f), window') IN
           /\ keys' = Append(keys, m)
           /\ m.soft = BssVector(window.rows, Hll(f)) /\ m.hard = LinearCover(window.rows, Hll(f))
           /\ m.generation = window.generation
           /\ m.stats.dimension = Len(window.rows) + (IF m.changed THEN 1 ELSE 0)
<1> DEFINE x == Hll(f)
           w == window'
           m == Measured(x, w)
<1>1. x \in SUBSET Bits /\ WindowTyped
    BY StepFrames DEF TravelInv
<1>2. /\ keys' = Append(keys, Measured(x, IF Frozen THEN window ELSE Pushed(window, x)))
      /\ w = IF Frozen THEN window ELSE Pushed(window, x)
    BY DEF Step
<1>3. /\ m.soft = BssVector(window.rows, x) /\ m.hard = LinearCover(window.rows, x)
      /\ m.generation = window.generation
      /\ w.generation # window.generation => m.changed = TRUE
      /\ w.generation = window.generation => m.changed = FALSE
      /\ Frozen => m.stats.dimension = Len(w.rows)
      /\ ~Frozen => m.stats.dimension = RingStats(window, x).dimension
    BY DEF Measured
<1>4. /\ ~Frozen => /\ RingStats(window, x).dimension = Len(w.rows)
                    /\ w.generation = Len(w.rows)
                    /\ w.generation = window.generation \/ w.generation = window.generation + 1
      /\ Frozen => w = window
    <2> HIDE DEF x, w, m
    <2>1. LET v == Pushed(window, x) IN
          /\ v.generation = Len(v.rows) /\ RingStats(window, x).dimension = Len(v.rows)
          /\ v.generation = window.generation \/ v.generation = window.generation + 1
        BY <1>1, PushedIs
    <2> QED BY <1>2, <2>1
<1>5. window.generation = Len(window.rows) /\ Len(window.rows) \in Nat
    BY <1>1 DEF WindowTyped
<1>6. keys' = Append(keys, m)
    BY <1>2
<1> HIDE DEF x, w, m
<1>7. m.stats.dimension = Len(window.rows) + (IF m.changed THEN 1 ELSE 0)
    <2>1. m.stats.dimension = Len(w.rows) /\ Len(w.rows) = w.generation
          /\ w.generation \in {window.generation, window.generation + 1}
        BY <1>3, <1>4, <1>5
    <2>2. CASE w.generation = window.generation
        <3>1. m.changed = FALSE
            BY <1>3, <2>2
        <3>2. (IF m.changed THEN 1 ELSE 0) = 0
            BY <3>1, Zenon
        <3>3. m.stats.dimension = Len(window.rows)
            BY <1>5, <2>1, <2>2
        <3>4. Len(window.rows) + 0 = Len(window.rows)
            BY <1>5
        <3> QED BY <3>2, <3>3, <3>4, Zenon
    <2>3. CASE w.generation = window.generation + 1
        <3>1. w.generation # window.generation
            BY <1>5, <2>3
        <3>2. m.changed = TRUE
            BY <1>3, <3>1
        <3> QED BY <1>5, <2>1, <2>3, <3>2
    <2> QED BY <2>1, <2>2, <2>3
<1> QED BY <1>3, <1>6, <1>7 DEF x, w, m

\* The keys of the older frames keep their meaning, the new ones have theirs.
LEMMA StepKeys ==
    ASSUME TravelInv, NEW f \in SceneFrames, Step(f)
    PROVE  /\ keys' \in Seq(Range(keys')) /\ Len(keys') = Len(frames')
           /\ \A i \in DOMAIN frames' : KeyExact(i)'
<1>0. PICK n \in Nat : n = Len(frames)
    BY DEF TravelInv
<1> DEFINE x == Hll(f)
           m == Measured(x, window')
<1>1. /\ Len(frames') = n + 1 /\ DOMAIN frames' = 1..n \union {n + 1} /\ DOMAIN frames = 1..n /\ n \in Nat
      /\ \A i \in 1..n : Unions'[i] = Unions[i] /\ Unions[i] \in SUBSET Bits
      /\ Unions'[n + 1] = x /\ x \in SUBSET Bits
      /\ \A i : PushedUntil(i)' = PushedUntil(i)
    BY <1>0, StepFrames
<1>2. /\ \A g \in 0..window.generation : RowsIn(history', g) = RowsIn(history, g)
      /\ window.generation \in Nat /\ window'.generation \in Nat
      /\ window.generation <= window'.generation
      /\ RowsIn(history, window.generation) = window.rows
    BY StepHistory
<1>3. /\ keys' = Append(keys, m)
      /\ m.soft = BssVector(window.rows, x) /\ m.hard = LinearCover(window.rows, x)
      /\ m.generation = window.generation
      /\ m.stats.dimension = Len(window.rows) + (IF m.changed THEN 1 ELSE 0)
    BY StepMeasured
<1>4. /\ keys \in Seq(Range(keys)) /\ Len(keys) = n
      /\ \A i \in 1..n : KeyExact(i)
    BY <1>0, <1>1 DEF TravelInv
<1>5. PushedUntil(n + 1) \subseteq 1..n
    BY <1>0, <1>1, StepPushed
<1>6. /\ window.rows \in Seq(Row) /\ Echelon(window.rows)
      /\ Spanned(window.rows) = Span(Generated(n))
    BY <1>0 DEF TravelInv, WindowTyped
<1> HIDE DEF x, m
<1>7. /\ Len(keys') = n + 1 /\ keys' \in Seq(Range(keys'))
      /\ keys'[n + 1] = m /\ \A i \in 1..n : keys'[i] = keys[i]
    <2>1. keys \in Seq(Range(keys) \union {m})
        BY <1>4
    <2>2. /\ keys' \in Seq(Range(keys) \union {m}) /\ Len(keys') = n + 1
          /\ keys'[n + 1] = m /\ \A i \in 1..n : keys'[i] = keys[i]
          /\ DOMAIN keys' = 1..n + 1
        BY <1>1, <1>3, <1>4, <2>1
    <2>3. keys' \in Seq(Range(keys'))
        BY <2>2 DEF Range
    <2> QED BY <2>2, <2>3
<1>8. ASSUME NEW i \in 1..n
      PROVE  KeyExact(i)'
    <2>1. PICK g \in 0..window.generation : keys[i].generation = g
        BY <1>4 DEF KeyExact
    <2>2. /\ keys[i].soft = BssVector(RowsIn(history, g), Unions[i])
          /\ keys[i].hard = LinearCover(RowsIn(history, g), Unions[i])
          /\ Len(RowsIn(history, g)) + (IF keys[i].changed THEN 1 ELSE 0) = keys[i].stats.dimension
        BY <1>4, <2>1 DEF KeyExact
    <2>3. keys[i].hard # {} <=> Unions[i] \in Span({Unions[j] : j \in PushedUntil(i)})
        BY <1>4 DEF KeyExact
    <2>4. RowsIn(history', g) = RowsIn(history, g) /\ g \in 0..window'.generation
        BY <1>2
    <2>5. keys'[i] = keys[i] /\ Unions'[i] = Unions[i]
        BY <1>1, <1>7
    <2>6. {Unions'[j] : j \in PushedUntil(i)'} = {Unions[j] : j \in PushedUntil(i)}
        <3>1. PushedUntil(i) \subseteq 1..n
            <4>1. i \in Nat \ {0} /\ i - 1 < i
                BY <1>1
            <4>2. PushedUntil(i) \subseteq 1..i - 1
                <5>1. freeze \in Freezes
                    BY DEF TravelInv
                <5>2. \A c \in Nat \ {0} : (IF i - 1 <= c THEN 1..i - 1 ELSE 1..c) \subseteq 1..i - 1
                    BY <4>1
                <5> QED BY <4>1, <5>1, <5>2, CapFacts
            <4> QED BY <1>1, <4>2
        <3>2. PushedUntil(i)' = PushedUntil(i)
            BY <1>1
        <3> QED BY <1>1, <3>1, <3>2
    <2>7. keys'[i].hard # {} <=> Unions'[i] \in Span({Unions'[j] : j \in PushedUntil(i)'})
        BY <2>3, <2>5, <2>6
    <2> QED BY <2>1, <2>2, <2>4, <2>5, <2>7 DEF KeyExact
<1>9. KeyExact(n + 1)'
    <2>1. RowsIn(history', window.generation) = window.rows /\ window.generation \in 0..window'.generation
        BY <1>2
    <2>2. keys'[n + 1] = m /\ Unions'[n + 1] = x
        BY <1>1, <1>7
    <2>3. m.hard # {} <=> x \in Span(Generated(n))
        <3>1. m.hard # {} <=> InSpan(window.rows, x)
            BY <1>3 DEF LinearCover
        <3>2. InSpan(window.rows, x) <=> x \in Spanned(window.rows)
            BY <1>1, SpannedIsInSpan
        <3> QED BY <1>6, <3>1, <3>2
    <2>4. {Unions'[j] : j \in PushedUntil(n + 1)'} = Generated(n)
        <3>1. PushedUntil(n + 1)' = PushedUntil(n + 1)
            BY <1>1
        <3>2. \A j \in PushedUntil(n + 1) : Unions'[j] = Unions[j]
            BY <1>1, <1>5
        <3> QED BY <3>1, <3>2 DEF Generated
    <2>5. Len(window.rows) + (IF m.changed THEN 1 ELSE 0) = m.stats.dimension
        BY <1>3
    <2> QED BY <2>1, <2>2, <2>3, <2>4, <2>5, <1>3 DEF KeyExact
<1> QED BY <1>1, <1>7, <1>8, <1>9

\* A frame keeps the invariant: rows, generations and what the rows span.
LEMMA TravelStep == TravelInv /\ [SidecarNext]_sidecar_vars => TravelInv'
<1> SUFFICES ASSUME TravelInv, [SidecarNext]_sidecar_vars
             PROVE  TravelInv'
    OBVIOUS
<1>1. ASSUME NEW f \in SceneFrames, Step(f)
      PROVE  TravelInv'
    <2>1. freeze' \in Freezes /\ frames' \in Seq(SceneFrames)
        BY <1>1, StepFrames DEF TravelInv
    <2>2. WindowTyped' /\ Spanned(window.rows)' = Span(Generated(Len(frames)))'
        BY <1>1, StepRows
    <2>3. HistoryExact'
        BY <1>1, StepHistory
    <2>4. /\ keys' \in Seq(Range(keys')) /\ Len(keys') = Len(frames')
          /\ \A i \in DOMAIN frames' : KeyExact(i)'
        BY <1>1, StepKeys
    <2> QED BY <2>1, <2>2, <2>3, <2>4 DEF TravelInv
<1>2. CASE UNCHANGED sidecar_vars
    <2>1. /\ freeze' = freeze /\ frames' = frames /\ window' = window
          /\ keys' = keys /\ history' = history
        BY <1>2 DEF sidecar_vars
    <2>2. Unions' = Unions /\ \A i : PushedUntil(i)' = PushedUntil(i)
        BY <2>1 DEF Unions, PushedUntil
    <2>3. WindowTyped' /\ HistoryExact'
        BY <2>1, <2>2 DEF TravelInv, WindowTyped, HistoryExact
    <2>4. (Generated(Len(frames)))' = Generated(Len(frames))
        BY <2>1, <2>2 DEF Generated, PushedUntil
    <2>5. ASSUME NEW i \in DOMAIN frames
          PROVE  KeyExact(i)'
        BY <2>1, <2>2 DEF TravelInv, KeyExact
    <2> QED BY <2>1, <2>3, <2>4, <2>5 DEF TravelInv
<1> QED BY <1>1, <1>2 DEF SidecarNext

\* What TravelExact promises follows from it.
LEMMA TravelSuffices == TravelInv => TravelExact
<1> SUFFICES ASSUME TravelInv, NEW i \in DOMAIN frames
             PROVE  /\ LET then == RowsOf(keys[i].generation) IN
                       /\ keys[i].soft = BssVector(then, Unions[i])
                       /\ keys[i].hard = LinearCover(then, Unions[i])
                       /\ Len(then) + (IF keys[i].changed THEN 1 ELSE 0) = keys[i].stats.dimension
                    /\ keys[i].hard # {} <=> Unions[i] \in Span({Unions[j] : j \in PushedUntil(i)})
                    /\ i \in PushedUntil(Len(frames) + 1) => FinalProjection.spills[i] = 0
                    /\ FinalProjection.spill_oldest = Cardinality(Last(Unions) \ Unions[1])
                    /\ \A k \in 1..Len(history) - 1 :
                          FinalProjection.generations[k] < FinalProjection.generations[k + 1]
                    /\ \A k \in 1..Len(history) - 1 :
                          BasisFrame(history[k + 1]).dimension = BasisFrame(history[k]).dimension + 1
    BY DEF TravelExact
<1>1. /\ frames # <<>> /\ history # <<>> /\ Consecutive(history)
      /\ history[Len(history)] = Snapshot(window) /\ history[1].cover = Unions[1]
    BY DEF TravelInv, HistoryExact
<1>2. RowsOf(keys[i].generation) = RowsIn(history, keys[i].generation)
    BY DEF RowsOf, RowsIn
<1>3. KeyExact(i)
    BY DEF TravelInv
<1>4. /\ FinalProjection.spills = [j \in DOMAIN frames |-> project_into(Last(history), Unions[j]).spill]
      /\ FinalProjection.spill_oldest = project_into(history[1], Last(Unions)).spill
      /\ FinalProjection.generations = [k \in DOMAIN history |-> history[k].generation]
    BY <1>1 DEF FinalProjection
<1>5. i \in PushedUntil(Len(frames) + 1) => FinalProjection.spills[i] = 0
    <2> SUFFICES ASSUME i \in PushedUntil(Len(frames) + 1)
                 PROVE  FinalProjection.spills[i] = 0
        OBVIOUS
    <2>1. Unions[i] \subseteq Cover(window.rows)
        <3>1. Unions[i] \in Generated(Len(frames))
            BY DEF Generated
        <3> QED BY <3>1, CoverGenerated
    <2>2. Last(history).cover = Cover(window.rows)
        BY <1>1 DEF Last, Snapshot
    <2>3. project_into(Last(history), Unions[i]).spill = Cardinality(Unions[i] \ Cover(window.rows))
        BY <2>2 DEF project_into
    <2>4. Unions[i] \ Cover(window.rows) = {}
        BY <2>1
    <2> QED BY <1>4, <2>3, <2>4, FS_EmptySet
<1>6. FinalProjection.spill_oldest = Cardinality(Last(Unions) \ Unions[1])
    BY <1>1, <1>4 DEF project_into
<1>7. ASSUME NEW k \in 1..Len(history) - 1
      PROVE  /\ FinalProjection.generations[k] < FinalProjection.generations[k + 1]
             /\ BasisFrame(history[k + 1]).dimension = BasisFrame(history[k]).dimension + 1
    <2>1. /\ history \in Seq(Snap) /\ k \in DOMAIN history /\ k + 1 \in DOMAIN history /\ k \in Nat
          /\ history[1].generation \in {0, 1}
        BY <1>1 DEF Consecutive
    <2>2. /\ history[k].generation = history[1].generation + k - 1
          /\ history[k + 1].generation = history[1].generation + (k + 1) - 1
          /\ Len(history[k].rows) = history[k].generation
          /\ Len(history[k + 1].rows) = history[k + 1].generation
        BY <1>1, <2>1 DEF Consecutive
    <2>3. history[k + 1].generation = history[k].generation + 1 /\ history[k].generation \in Int
        BY <2>1, <2>2
    <2>4. /\ FinalProjection.generations[k] = history[k].generation
          /\ FinalProjection.generations[k + 1] = history[k + 1].generation
        BY <1>4, <2>1
    <2>5. /\ BasisFrame(history[k]).dimension = Len(history[k].rows)
          /\ BasisFrame(history[k + 1]).dimension = Len(history[k + 1].rows)
        BY DEF BasisFrame
    <2> QED BY <2>2, <2>3, <2>4, <2>5
<1> QED BY <1>2, <1>3, <1>5, <1>6, <1>7 DEF KeyExact

\* Time travel is exact in every series of frames: keys measured in an old
\* basis are read back from the history of bases (sidecar.rs:174-209), across
\* rotations and a freeze, and a hard key decides the span of what was pushed.
THEOREM TravelStaysExact ==
    SidecarInit /\ [][SidecarNext]_sidecar_vars => []TravelExact
<1>1. SidecarInit => TravelInv
    BY TravelInit
<1>2. TravelInv /\ [SidecarNext]_sidecar_vars => TravelInv'
    BY TravelStep
<1>3. TravelInv => TravelExact
    BY TravelSuffices
<1> QED BY <1>1, <1>2, <1>3, PTL

-----------------------------------------------------------------------------
(* Grids: the windows of order 1 are the cells and the border's pad.         *)

\* Every number is a row and a column of a width.
LEMMA RowAndColumn ==
    ASSUME NEW w \in Nat \ {0}, NEW m \in Nat
    PROVE  \E q \in Nat, r \in 0..w - 1 : m = q * w + r
<1> DEFINE T == {i \in Nat : ~ \E q \in Nat, r \in 0..w - 1 : i = q * w + r}
<1> SUFFICES ASSUME T # {}
             PROVE  FALSE
    OBVIOUS
<1>1. PICK i \in T : \A j \in T : i <= j
    <2>1. T \subseteq Nat
        OBVIOUS
    <2> HIDE DEF T
    <2> QED BY <2>1, LeastNatural
<1>2. i # 0
    <2>1. 0 = 0 * w + 0 /\ 0 \in 0..w - 1
        OBVIOUS
    <2> QED BY <2>1
<1>3. i - 1 \in Nat /\ i - 1 \notin T
    BY <1>1, <1>2
<1>4. PICK q \in Nat, r \in 0..w - 1 : i - 1 = q * w + r
    BY <1>3
<1>5. CASE r + 1 < w
    <2>1. i = q * w + (r + 1) /\ r + 1 \in 0..w - 1
        BY <1>4, <1>5
    <2> QED BY <1>1, <2>1
<1>6. CASE r + 1 = w
    <2>1. (q + 1) * w = q * w + w
        OBVIOUS
    <2>2. i = (q + 1) * w + 0 /\ 0 \in 0..w - 1
        BY <1>4, <1>6, <2>1
    <2> QED BY <1>1, <2>2
<1> QED BY <1>5, <1>6

\* A cell of the grid has an index, and every index is that of a cell.
LEMMA CellIndexes ==
    ASSUME NEW h \in Nat, NEW w \in Nat
    PROVE  /\ \A i \in 0..h - 1, j \in 0..w - 1 : i * w + j + 1 \in 1..h * w
           /\ \A p \in 1..h * w : \E i \in 0..h - 1, j \in 0..w - 1 : p = i * w + j + 1
<1>1. ASSUME NEW i \in 0..h - 1, NEW j \in 0..w - 1
      PROVE  i * w + j + 1 \in 1..h * w
    <2>1. (i + 1) * w = i * w + w
        OBVIOUS
    <2>2. (i + 1) * w <= h * w
        <3>1. h = (i + 1) + (h - (i + 1)) /\ h - (i + 1) \in Nat
            OBVIOUS
        <3> DEFINE d == h - (i + 1)
        <3>2. h * w = (i + 1) * w + d * w /\ d * w \in Nat
            <4>1. ASSUME NEW a \in Nat, NEW b \in Nat
                  PROVE  (a + b) * w = a * w + b * w /\ a * w \in Nat /\ b * w \in Nat
                OBVIOUS
            <4>2. d \in Nat /\ i + 1 \in Nat /\ (i + 1) + d = h
                BY <3>1
            <4> HIDE DEF d
            <4> QED BY <4>1, <4>2
        <3> HIDE DEF d
        <3>3. (i + 1) * w \in Nat
            OBVIOUS
        <3> QED BY <3>2, <3>3
    <2>3. i * w \in Nat /\ h * w \in Nat
        OBVIOUS
    <2> QED BY <2>1, <2>2, <2>3
<1>2. ASSUME NEW p \in 1..h * w
      PROVE  \E i \in 0..h - 1, j \in 0..w - 1 : p = i * w + j + 1
    <2>1. w # 0 /\ h * w \in Nat
        <3>1. h * w \in Nat /\ h * 0 = 0
            OBVIOUS
        <3> QED BY <3>1
    <2>2. PICK q \in Nat, r \in 0..w - 1 : p - 1 = q * w + r
        <3>1. p - 1 \in Nat /\ w \in Nat \ {0}
            BY <2>1
        <3> QED BY <3>1, RowAndColumn
    <2>3. q < h
        <3>1. ASSUME h <= q
              PROVE  FALSE
            <4>1. h * w <= q * w
                <5>1. ASSUME NEW a \in Nat, NEW b \in Nat
                      PROVE  (a + b) * w = a * w + b * w /\ a * w \in Nat /\ b * w \in Nat
                    OBVIOUS
                <5>2. q - h \in Nat /\ h + (q - h) = q
                    BY <3>1
                <5>3. q * w = h * w + (q - h) * w /\ (q - h) * w \in Nat
                    BY <5>1, <5>2
                <5> QED BY <2>1, <5>3
            <4>2. q * w \in Nat
                OBVIOUS
            <4> QED BY <2>1, <2>2, <4>1, <4>2
        <3> QED BY <3>1
    <2>4. q \in 0..h - 1 /\ p = q * w + r + 1
        <3>1. q * w \in Nat
            OBVIOUS
        <3> QED BY <2>2, <2>3, <3>1
    <2> QED BY <2>4
<1> QED BY <1>1, <1>2

\* A window of order 1 is its anchor's cell.
LEMMA SmallestWindow ==
    ASSUME NEW shape, NEW cells, NEW i \in Int, NEW j \in Int
    PROVE  grid_window(shape, cells, 1, i, j) = <<GridCell(shape, cells, i, j)>>
<1>1. grid_window(shape, cells, 1, i, j)
        = [k \in 1..1 |-> GridCell(shape, cells, i + ((k - 1) \div 1), j + ((k - 1) % 1))]
    BY DEF grid_window
<1>2. ASSUME NEW k \in 1..1
      PROVE  i + ((k - 1) \div 1) = i /\ j + ((k - 1) % 1) = j
    OBVIOUS
<1>3. grid_window(shape, cells, 1, i, j) = [k \in 1..1 |-> GridCell(shape, cells, i, j)]
    BY <1>1, <1>2
<1> QED BY <1>3

GridFrame(f) ==
    /\ f[1].shape \in Nat \X Nat /\ f[1].cells \in Seq(Tokens)
    /\ Len(f[1].cells) = f[1].shape[1] * f[1].shape[2]

\* The channel of order 1 and its table.
LEMMA GridIngested ==
    ASSUME NEW f, GridFrame(f)
    PROVE  LET ing == ingest_grid(0, f[1].shape, f[1].cells) IN
           /\ ing.ch[1] = {Bit1(u) : u \in Sketched(f)}
           /\ ing.luts[1] = {<<Bit1(t), t>> : t \in ToSet(f[1].cells)}
<1> DEFINE shape == f[1].shape
           cells == f[1].cells
           h == shape[1]
           w == shape[2]
           ing == ingest_grid(0, shape, cells)
           Anchors == IF cells = <<>> THEN {} ELSE (0..h + 2 * Border - 1) \X (0..w + 2 * Border - 1)
           Real == {a \in Anchors : a[1] - Border \in 0..h - 1 /\ a[2] - Border \in 0..w - 1}
           Cell(a) == GridCell(shape, cells, a[1], a[2])
<1>1. h \in Nat /\ w \in Nat /\ cells \in Seq(Tokens) /\ Len(cells) = h * w /\ Border = 3
    BY DEF GridFrame, Border, MaxN
<1>2. seed(1, 2) = 0
    BY DEF seed
<1>3. \A a \in Anchors : a[1] \in Int /\ a[2] \in Int
    BY <1>1
<1>4. /\ ing.ch[1] = {Pos(0, seed(1, 2), grid_window(shape, cells, 1, a[1], a[2])) : a \in Anchors}
      /\ ing.luts[1] = {<<Pos(0, seed(1, 2), grid_window(shape, cells, 1, a[1], a[2])), Cell(a)>> : a \in Real}
    BY DEF ingest_grid
<1>5. \A a \in Anchors : Pos(0, seed(1, 2), grid_window(shape, cells, 1, a[1], a[2])) = Bit1(Cell(a))
    BY <1>2, <1>3, SmallestWindow DEF Bit1
<1>6. /\ ing.ch[1] = {Bit1(Cell(a)) : a \in Anchors}
      /\ ing.luts[1] = {<<Bit1(Cell(a)), Cell(a)>> : a \in Real}
    <2> HIDE DEF Anchors, ing
    <2> QED BY <1>4, <1>5
<1>7. {Cell(a) : a \in Real} = ToSet(cells)
    <2>1. ASSUME NEW a \in Real
          PROVE  Cell(a) \in ToSet(cells)
        <3> DEFINE i == a[1] - Border
                   j == a[2] - Border
        <3>1. i \in 0..h - 1 /\ j \in 0..w - 1
            OBVIOUS
        <3>2. i * w + j + 1 \in 1..h * w
            <4> HIDE DEF i, j, h, w
            <4> QED BY <1>1, <3>1, CellIndexes
        <3>3. Cell(a) = cells[i * w + j + 1]
            BY <3>1 DEF GridCell
        <3>4. DOMAIN cells = 1..h * w
            BY <1>1
        <3> HIDE DEF cells
        <3> QED BY <3>2, <3>3, <3>4 DEF ToSet
    <2>2. ASSUME NEW t \in ToSet(cells)
          PROVE  \E a \in Real : Cell(a) = t
        <3>1. PICK p \in 1..h * w : t = cells[p]
            <4>1. DOMAIN cells = 1..h * w
                BY <1>1
            <4> HIDE DEF cells, h, w
            <4> QED BY <4>1 DEF ToSet
        <3>2. PICK i \in 0..h - 1, j \in 0..w - 1 : p = i * w + j + 1
            <4> HIDE DEF h, w
            <4> QED BY <1>1, CellIndexes
        <3> DEFINE a == <<i + Border, j + Border>>
        <3>3. cells # <<>>
            BY <1>1, <3>1
        <3>4. a \in Real /\ a[1] - Border = i /\ a[2] - Border = j
            <4>1. i + 3 \in 0..h + 2 * 3 - 1 /\ j + 3 \in 0..w + 2 * 3 - 1
                  /\ (i + 3) - 3 = i /\ (j + 3) - 3 = j
                <5> HIDE DEF h, w
                <5> QED BY <1>1
            <4> HIDE DEF cells
            <4> QED BY <1>1, <3>3, <4>1
        <3>5. Cell(a) = cells[p]
            BY <3>2, <3>4 DEF GridCell
        <3> HIDE DEF Real, Cell
        <3> QED BY <3>1, <3>4, <3>5
    <2> HIDE DEF Real, cells, Cell
    <2> QED BY <2>1, <2>2
<1>8. {Cell(a) : a \in Anchors} = Sketched(f)
    <2>1. CASE cells = <<>>
        BY <2>1 DEF Sketched
    <2>2. CASE cells # <<>>
        <3>1. h # 0 /\ w # 0
            <4>1. Len(cells) # 0
                BY <1>1, <2>2
            <4>2. \A b \in Nat : 0 * b = 0 /\ b * 0 = 0
                OBVIOUS
            <4> HIDE DEF h, w, cells
            <4> QED BY <1>1, <4>1, <4>2
        <3>2. <<0, 0>> \in Anchors /\ Cell(<<0, 0>>) = Pad
            <4>1. 0 \in 0..h + 2 * 3 - 1 /\ 0 \in 0..w + 2 * 3 - 1 /\ ~(0 - 3 \in 0..h - 1)
                <5> HIDE DEF h, w
                <5> QED BY <1>1
            <4>2. <<0, 0>> \in Anchors
                BY <1>1, <2>2, <4>1
            <4> QED BY <1>1, <4>1, <4>2 DEF GridCell
        <3>3. ASSUME NEW a \in Anchors, a \notin Real
              PROVE  Cell(a) = Pad
            BY <3>3 DEF GridCell
        <3>4. Sketched(f) = ToSet(cells) \union {Pad}
            BY <2>2 DEF Sketched
        <3>5. Real \subseteq Anchors
            OBVIOUS
        <3> HIDE DEF Real, Anchors, Cell, cells
        <3> QED BY <1>7, <3>2, <3>3, <3>4, <3>5
    <2> QED BY <2>1, <2>2
<1>9. ing.ch[1] = {Bit1(u) : u \in Sketched(f)}
    <2> HIDE DEF ing, Anchors, Cell
    <2> QED BY <1>6, <1>8
<1>10. ing.luts[1] = {<<Bit1(t), t>> : t \in ToSet(cells)}
    <2> HIDE DEF ing, Real, Cell, cells
    <2> QED BY <1>6, <1>7
<1> QED BY <1>9, <1>10

\* What a sketch names in the table of the tokens A, for any hash.
LEMMA CandidatesAre ==
    ASSUME NEW A, NEW H
    PROVE  candidates({<<Bit1(t), t>> : t \in A}, H) = {t \in A : Bit1(t) \in H}
<1> DEFINE lut == {<<Bit1(t), t>> : t \in A}
<1>1. \A i : fiber(lut, i) = {t \in A : Bit1(t) = i}
    <2> SUFFICES ASSUME NEW i
                 PROVE  fiber(lut, i) = {t \in A : Bit1(t) = i}
        OBVIOUS
    <2>1. fiber(lut, i) = {r[2] : r \in {q \in lut : q[1] = i}}
        BY DEF fiber
    <2>2. ASSUME NEW t \in A, Bit1(t) = i
          PROVE  t \in {r[2] : r \in {q \in lut : q[1] = i}}
        <3>1. <<Bit1(t), t>> \in {q \in lut : q[1] = i}
            BY <2>2
        <3> QED BY <3>1
    <2>3. ASSUME NEW r \in lut, r[1] = i
          PROVE  r[2] \in A /\ Bit1(r[2]) = i
        BY <2>3
    <2> HIDE DEF lut
    <2> QED BY <2>1, <2>2, <2>3
<1> HIDE DEF lut
<1>2. candidates(lut, H) = UNION {fiber(lut, i) : i \in H}
    BY DEF candidates
<1>3. candidates(lut, H) = UNION {{t \in A : Bit1(t) = i} : i \in H}
    BY <1>1, <1>2
<1> QED BY <1>3 DEF lut

\* The subframes of a step between two grids.
LEMMA SubframesAgree ==
    ASSUME NEW f \in SceneFrames, NEW g \in SceneFrames
    PROVE  LET A   == ToSet(f[1].cells)
               B   == ToSet(g[1].cells)
               F   == {Bit1(t) : t \in Sketched(f)}
               G   == {Bit1(t) : t \in Sketched(g)}
               sub == subframes(f, g)
           IN  /\ sub.departed \cap B = {} /\ sub.new \cap A = {}
               /\ sub.departed \cup sub.retained = A
               /\ B \ (sub.retained \cup sub.new) =
                      {t \in B \ A : \E u \in Sketched(f) : Bit1(u) = Bit1(t)}
               /\ <<sub.dp[1], sub.rp[1], sub.np[1]>>
                      = <<Cardinality(F \ G), Cardinality(F \cap G), Cardinality(G \ F)>>
<1> DEFINE A   == ToSet(f[1].cells)
           B   == ToSet(g[1].cells)
           F   == {Bit1(t) : t \in Sketched(f)}
           G   == {Bit1(t) : t \in Sketched(g)}
           sub == subframes(f, g)
<1>1. GridFrame(f) /\ GridFrame(g)
    BY GridAssumption DEF GridFrame
<1>2. /\ Grids[f].ch[1] = F /\ Grids[g].ch[1] = G
      /\ Grids[f].luts[1] = {<<Bit1(t), t>> : t \in A}
      /\ Grids[g].luts[1] = {<<Bit1(t), t>> : t \in B}
    <2>1. /\ Grids[f] = ingest_grid(0, f[1].shape, f[1].cells)
          /\ Grids[g] = ingest_grid(0, g[1].shape, g[1].cells)
        BY DEF Grids
    <2> HIDE DEF A, B, F, G
    <2> QED BY <1>1, <2>1, GridIngested DEF A, B, F, G
<1>3. /\ sub.departed = candidates(Grids[f].luts[1], Grids[f].ch[1] \ Grids[g].ch[1])
      /\ sub.retained = candidates(Grids[f].luts[1], Grids[f].ch[1] \cap Grids[g].ch[1])
      /\ sub.new = candidates(Grids[g].luts[1], Grids[g].ch[1] \ Grids[f].ch[1])
      /\ sub.dp[1] = Cardinality(Grids[f].ch[1] \ Grids[g].ch[1])
      /\ sub.rp[1] = Cardinality(Grids[f].ch[1] \cap Grids[g].ch[1])
      /\ sub.np[1] = Cardinality(Grids[g].ch[1] \ Grids[f].ch[1])
    BY DEF subframes
<1>4. A \subseteq Sketched(f) /\ B \subseteq Sketched(g)
    BY DEF Sketched, ToSet
<1>5. \A t \in A : Bit1(t) \in F
    BY <1>4
<1>6. \A t \in B : Bit1(t) \in G
    BY <1>4
<1>7. /\ sub.departed = {t \in A : Bit1(t) \in F \ G}
      /\ sub.retained = {t \in A : Bit1(t) \in F \cap G}
      /\ sub.new = {t \in B : Bit1(t) \in G \ F}
    <2> HIDE DEF A, B, F, G, sub
    <2> QED BY <1>2, <1>3, CandidatesAre
<1>8. \A t : Bit1(t) \in F <=> \E u \in Sketched(f) : Bit1(u) = Bit1(t)
    OBVIOUS
<1> HIDE DEF A, B, F, G, sub
<1>9. sub.departed \cap B = {} /\ sub.new \cap A = {}
    BY <1>5, <1>6, <1>7
<1>10. sub.departed \cup sub.retained = A
    BY <1>5, <1>7
<1>11. B \ (sub.retained \cup sub.new) = {t \in B \ A : \E u \in Sketched(f) : Bit1(u) = Bit1(t)}
    BY <1>6, <1>7, <1>8
<1>12. <<sub.dp[1], sub.rp[1], sub.np[1]>>
          = <<Cardinality(F \ G), Cardinality(F \cap G), Cardinality(G \ F)>>
    BY <1>2, <1>3
<1> QED BY <1>9, <1>10, <1>11, <1>12 DEF A, B, F, G, sub

\* The n-gram tables of a sequence give back all its tokens.
LEMMA LoopRecalls ==
    ASSUME NEW S, NEW cells \in Seq(S)
    PROVE  LoopScore(cells).recall = <<Cardinality(ToSet(cells)), Cardinality(ToSet(cells))>>
<1> DEFINE ing      == ingest(0, cells)
           restored == materialize({<<ing.ch[n], ing.luts[n]>> : n \in 1..3})
           p        == padded(cells)
           Of       == IF cells = <<>> THEN {} ELSE windows(p, 1)
           Bit(w)   == Pos(0, seed(1, 1), w[2])
<1>1. /\ ing.ch[1] = {Bit(w) : w \in Of}
      /\ ing.luts[1] = {<<Bit(w), w[2][1]>> : w \in {v \in Of : v[1] - 1 \in 1..Len(cells)}}
    BY DEF ingest
<1>2. ASSUME NEW i \in 1..Len(cells)
      PROVE  cells[i] \in candidates(ing.luts[1], ing.ch[1])
    <2> DEFINE w == <<i + 1, SubSeq(p, i + 1, i + 1 + 1 - 1)>>
    <2>1. Len(p) = Len(cells) + 3 /\ p[i + 1] = cells[i] /\ p \in Seq(S \union {Pad})
        <3> DEFINE q == <<Pad>> \o cells
        <3>1. /\ q \in Seq(S \union {Pad}) /\ Len(q) = Len(cells) + 1
              /\ q[i + 1] = cells[i]
            OBVIOUS
        <3>2. p = q \o <<Pad, Pad>>
            BY DEF padded
        <3> HIDE DEF q
        <3>3. <<Pad, Pad>> \in Seq(S \union {Pad}) /\ Len(<<Pad, Pad>>) = 2
            OBVIOUS
        <3>4. i + 1 \in 1..Len(q)
            BY <3>1
        <3> QED BY <3>1, <3>2, <3>3, <3>4, ConcatFacts
    <2> HIDE DEF p
    <2>2. w[1] = i + 1 /\ w[2][1] = cells[i]
        BY <2>1
    <2>3. w \in Of
        <3>1. i + 1 \in 1..(Len(p) - 1 + 1) /\ cells # <<>>
            BY <2>1
        <3> QED BY <3>1 DEF windows
    <2>4. w \in {v \in Of : v[1] - 1 \in 1..Len(cells)}
        BY <2>2, <2>3
    <2> HIDE DEF w, Of, ing
    <2>5. Bit(w) \in ing.ch[1] /\ <<Bit(w), cells[i]>> \in ing.luts[1]
        BY <1>1, <2>2, <2>3, <2>4
    <2> DEFINE b == Bit(w)
    <2>6. b \in ing.ch[1] /\ <<b, cells[i]>> \in ing.luts[1]
        BY <2>5
    <2> HIDE DEF b
    <2>7. cells[i] \in fiber(ing.luts[1], b)
        <3>1. <<b, cells[i]>> \in {r \in ing.luts[1] : r[1] = b}
            BY <2>6
        <3> QED BY <3>1 DEF fiber
    <2> QED BY <2>6, <2>7 DEF candidates
<1> HIDE DEF ing
<1>3. candidates(ing.luts[1], ing.ch[1]) \subseteq restored
    <2> DEFINE pairs == {<<ing.ch[n], ing.luts[n]>> : n \in 1..3}
               first == <<ing.ch[1], ing.luts[1]>>
    <2>1. first \in pairs /\ first[1] = ing.ch[1] /\ first[2] = ing.luts[1]
        OBVIOUS
    <2>2. restored = UNION {candidates(q[2], q[1]) : q \in pairs}
        BY DEF materialize
    <2> HIDE DEF pairs, first, restored
    <2>3. candidates(first[2], first[1]) \subseteq restored
        BY <2>1, <2>2
    <2> QED BY <2>1, <2>3
<1> HIDE DEF restored
<1>4. ToSet(cells) \cap restored = ToSet(cells)
    BY <1>2, <1>3 DEF ToSet
<1>5. LoopScore(cells).recall = <<Cardinality(ToSet(cells) \cap restored), Cardinality(ToSet(cells))>>
    BY DEF LoopScore, restored, ing
<1> QED BY <1>4, <1>5

\* The pops of a step between finite HLLSets add up.
LEMMA PopsAdd ==
    ASSUME NEW x, IsFiniteSet(x), NEW y, IsFiniteSet(y)
    PROVE  /\ Cardinality(y) = Cardinality(x \cap y) + Cardinality(y \ x)
           /\ Cardinality(x \cup y) =
                 Cardinality(x \ y) + Cardinality(x \cap y) + Cardinality(y \ x)
<1>1. /\ IsFiniteSet(x \cap y) /\ IsFiniteSet(y \ x) /\ IsFiniteSet(x \ y)
    BY FS_Subset
<1>2. Cardinality((x \cap y) \cup (y \ x))
        = Cardinality(x \cap y) + Cardinality(y \ x) - Cardinality((x \cap y) \cap (y \ x))
    BY <1>1, FS_Union
<1>3. Cardinality((x \ y) \cup y)
        = Cardinality(x \ y) + Cardinality(y) - Cardinality((x \ y) \cap y)
    BY <1>1, FS_Union
<1>4. /\ (x \cap y) \cup (y \ x) = y /\ (x \cap y) \cap (y \ x) = {}
      /\ (x \ y) \cup y = x \cup y /\ (x \ y) \cap y = {}
    OBVIOUS
<1>5. /\ Cardinality(x \cap y) \in Nat /\ Cardinality(y \ x) \in Nat /\ Cardinality(x \ y) \in Nat
      /\ Cardinality(y) \in Nat /\ Cardinality({}) = 0
    BY <1>1, FS_CardinalityType, FS_EmptySet
<1>6. Cardinality(y) = Cardinality(x \cap y) + Cardinality(y \ x)
    <2>1. Cardinality(y) = Cardinality(x \cap y) + Cardinality(y \ x) - Cardinality({})
        BY <1>2, <1>4, Zenon
    <2> QED BY <1>5, <2>1
<1>7. Cardinality(x \cup y) = Cardinality(x \ y) + Cardinality(y)
    <2>1. Cardinality(x \cup y) = Cardinality(x \ y) + Cardinality(y) - Cardinality({})
        BY <1>3, <1>4, Zenon
    <2> QED BY <1>5, <2>1
<1> QED BY <1>5, <1>6, <1>7

\* All readings of the step from x to y in a series.
LEMMA ReadingsAgree ==
    ASSUME NEW T, NEW S \in Seq(T), NEW i \in 1..Len(S) - 1,
           IsFiniteSet(S[i]), IsFiniteSet(S[i + 1])
    PROVE  LET drn == drn_series(S)[i + 1]
               noe == noether_series(S)[i]
           IN  /\ drn.d = Cardinality(S[i] \ S[i + 1]) /\ drn.r = Cardinality(S[i] \cap S[i + 1])
               /\ drn.n = Cardinality(S[i + 1] \ S[i])
               /\ <<noe.dp, noe.rp, noe.np>> = <<drn.d, drn.r, drn.n>>
               /\ S[i + 1] # {} => bss_series(S)[i].tau = <<drn.r, drn.r + drn.n>>
                                   /\ noe.ind1 = <<drn.d, drn.r + drn.n>>
               /\ S[i] \cup S[i + 1] # {} => bss_series(S)[i].jac = <<drn.r, drn.d + drn.r + drn.n>>
               /\ bss_series(S)[i].tau = Bss(S[i], S[i + 1])
               /\ moving_averages(S, 1, 1)[i + 1].fast = bss_series(S)[i].tau
<1> DEFINE x == S[i]
           y == S[i + 1]
           drn == drn_series(S)[i + 1]
           noe == noether_series(S)[i]
<1>1. i \in Nat \ {0} /\ i \in DOMAIN S /\ i + 1 \in DOMAIN S /\ i + 1 # 1 /\ (i + 1) - 1 = i
      /\ Len(S) \in Nat
    OBVIOUS
<1>2. drn = [d |-> Cardinality(x \ y), r |-> Cardinality(x \cap y), n |-> Cardinality(y \ x)]
    BY <1>1 DEF drn_series
<1>3. /\ noe.dp = Cardinality(x \ y) /\ noe.rp = Cardinality(x \cap y) /\ noe.np = Cardinality(y \ x)
      /\ noe.ind1 = IF (x \cap y) \cup (y \ x) = {} THEN <<0, 1>>
                    ELSE <<Cardinality(x \ y), Cardinality((x \cap y) \cup (y \ x))>>
    BY DEF noether_series
<1>4. bss_series(S)[i].tau = Bss(x, y) /\ bss_series(S)[i].jac = jaccard(x, y)
    BY DEF bss_series
<1>5. moving_averages(S, 1, 1)[i + 1].fast = Bss(x, y)
    <2>1. i + 1 \in 1 + 1..Len(S)
        BY <1>1
    <2>2. moving_averages(S, 1, 1)[i + 1].fast = Bss(trailing(S, (i + 1) - 1, 1), trailing(S, i + 1, 1))
        BY <2>1 DEF moving_averages
    <2>3. ASSUME NEW t \in Nat
          PROVE  trailing(S, t, 1) = S[t]
        <3>1. t - 1 + 1..t = {t}
            OBVIOUS
        <3> QED BY <3>1 DEF trailing
    <2> QED BY <1>1, <2>2, <2>3
<1>6. /\ Cardinality(y) = Cardinality(x \cap y) + Cardinality(y \ x)
      /\ Cardinality(x \cup y) = Cardinality(x \ y) + Cardinality(x \cap y) + Cardinality(y \ x)
    BY PopsAdd
<1>7. (x \cap y) \cup (y \ x) = y
    OBVIOUS
<1> HIDE DEF x, y, drn, noe
<1>8. y # {} => Bss(x, y) = <<drn.r, drn.r + drn.n>> /\ noe.ind1 = <<drn.d, drn.r + drn.n>>
    BY <1>2, <1>3, <1>6, <1>7 DEF Bss
<1>9. x \cup y # {} => jaccard(x, y) = <<drn.r, drn.d + drn.r + drn.n>>
    BY <1>2, <1>6 DEF jaccard
<1> QED BY <1>2, <1>3, <1>4, <1>5, <1>8, <1>9 DEF x, y, drn, noe

\* The accounts of a transition agree whatever the frames are.
LEMMA FramesSuffice == frames \in Seq(SceneFrames) => TransitionsAgree
<1> SUFFICES ASSUME frames \in Seq(SceneFrames), NEW i \in 1..Len(frames) - 1
             PROVE
        LET S   == Unions
            A   == ToSet(frames[i][1].cells)
            B   == ToSet(frames[i + 1][1].cells)
            drn == drn_series(S)[i + 1]
            noe == noether_series(S)[i]
            sub == subframes(frames[i], frames[i + 1])
            G1  == [j \in DOMAIN frames |-> from_tokens(frames[j][1].cells).g1]
            one == drn_series([j \in DOMAIN frames |-> {Bit1(t) : t \in Sketched(frames[j])}])[i + 1]
            dim == <<[hll |-> S[i + 1], g1 |-> G1[i + 1]]>>
        IN  /\ <<noe.dp, noe.rp, noe.np>> = <<drn.d, drn.r, drn.n>>
            /\ S[i + 1] # {} => bss_series(S)[i].tau = <<drn.r, drn.r + drn.n>>
                                /\ noe.ind1 = <<drn.d, drn.r + drn.n>>
            /\ S[i] \cup S[i + 1] # {} => bss_series(S)[i].jac = <<drn.r, drn.d + drn.r + drn.n>>
            /\ moving_averages(S, 1, 1)[i + 1].fast = bss_series(S)[i].tau
            /\ project(S, G1, dim)[i].bss[1] = bss_series(S)[i].tau
            /\ project(S, G1, dim)[i].bss_g1[1] = bss_series(G1)[i].tau
            /\ sub.departed \cap B = {} /\ sub.new \cap A = {}
            /\ sub.departed \cup sub.retained = A
            /\ B \ (sub.retained \cup sub.new) =
                   {t \in B \ A : \E u \in Sketched(frames[i]) : Bit1(u) = Bit1(t)}
            /\ <<sub.dp[1], sub.rp[1], sub.np[1]>> = <<one.d, one.r, one.n>>
            /\ LoopScore(frames[i][1].cells).recall = <<Cardinality(A), Cardinality(A)>>
    BY DEF TransitionsAgree
<1> DEFINE S   == Unions
           A   == ToSet(frames[i][1].cells)
           B   == ToSet(frames[i + 1][1].cells)
           drn == drn_series(S)[i + 1]
           noe == noether_series(S)[i]
           sub == subframes(frames[i], frames[i + 1])
           G1  == [j \in DOMAIN frames |-> from_tokens(frames[j][1].cells).g1]
           O   == [j \in DOMAIN frames |-> {Bit1(t) : t \in Sketched(frames[j])}]
           one == drn_series(O)[i + 1]
           dim == <<[hll |-> S[i + 1], g1 |-> G1[i + 1]]>>
<1>1. /\ i \in DOMAIN frames /\ i + 1 \in DOMAIN frames /\ DOMAIN frames = 1..Len(frames)
      /\ Len(frames) \in Nat /\ i \in Nat \ {0} /\ i + 1 # 1 /\ (i + 1) - 1 = i
    OBVIOUS
<1>2. S \in Seq(SUBSET Bits) /\ Len(S) = Len(frames) /\ DOMAIN S = DOMAIN frames
      /\ IsFiniteSet(S[i]) /\ IsFiniteSet(S[i + 1])
    <2>1. /\ Unions \in Seq(SUBSET Bits) /\ Len(Unions) = Len(frames) /\ DOMAIN Unions = DOMAIN frames
          /\ Unions[i] \in SUBSET Bits /\ Unions[i + 1] \in SUBSET Bits
        BY <1>1, UnionsType
    <2> QED BY <2>1, SceneAssumption, FS_Subset
<1>3. /\ <<noe.dp, noe.rp, noe.np>> = <<drn.d, drn.r, drn.n>>
      /\ S[i + 1] # {} => bss_series(S)[i].tau = <<drn.r, drn.r + drn.n>>
                          /\ noe.ind1 = <<drn.d, drn.r + drn.n>>
      /\ S[i] \cup S[i + 1] # {} => bss_series(S)[i].jac = <<drn.r, drn.d + drn.r + drn.n>>
      /\ bss_series(S)[i].tau = Bss(S[i], S[i + 1])
      /\ moving_averages(S, 1, 1)[i + 1].fast = bss_series(S)[i].tau
    <2> HIDE DEF S
    <2>1. i \in 1..Len(S) - 1
        BY <1>1, <1>2
    <2> QED BY <1>2, <2>1, ReadingsAgree, ZenonT(60)
<1>4. /\ project(S, G1, dim)[i].bss[1] = Bss(S[i], S[i + 1])
      /\ project(S, G1, dim)[i].bss_g1[1] = Bss(G1[i], G1[i + 1])
    <2>1. dim[1].hll = S[i + 1] /\ dim[1].g1 = G1[i + 1] /\ 1 \in DOMAIN dim
        OBVIOUS
    <2> HIDE DEF S, G1, dim
    <2> QED BY <1>1, <1>2, <2>1 DEF project
<1>5. bss_series(G1)[i].tau = Bss(G1[i], G1[i + 1])
    <2>1. Len(G1) = Len(frames)
        BY <1>1
    <2> HIDE DEF G1
    <2> QED BY <1>1, <2>1 DEF bss_series
<1>6. frames[i] \in SceneFrames /\ frames[i + 1] \in SceneFrames
    BY <1>1
<1>7. /\ sub.departed \cap B = {} /\ sub.new \cap A = {}
      /\ sub.departed \cup sub.retained = A
      /\ B \ (sub.retained \cup sub.new) =
             {t \in B \ A : \E u \in Sketched(frames[i]) : Bit1(u) = Bit1(t)}
      /\ <<sub.dp[1], sub.rp[1], sub.np[1]>>
            = <<Cardinality(O[i] \ O[i + 1]), Cardinality(O[i] \cap O[i + 1]),
                Cardinality(O[i + 1] \ O[i])>>
    <2>1. /\ O[i] = {Bit1(t) : t \in Sketched(frames[i])}
          /\ O[i + 1] = {Bit1(t) : t \in Sketched(frames[i + 1])}
        BY <1>1
    <2> DEFINE f == frames[i]
               g == frames[i + 1]
    <2>2. f \in SceneFrames /\ g \in SceneFrames
        BY <1>6
    <2> HIDE DEF f, g, O
    <2>3. LET F == {Bit1(t) : t \in Sketched(f)}
              G == {Bit1(t) : t \in Sketched(g)}
          IN  /\ subframes(f, g).departed \cap ToSet(g[1].cells) = {}
              /\ subframes(f, g).new \cap ToSet(f[1].cells) = {}
              /\ subframes(f, g).departed \cup subframes(f, g).retained = ToSet(f[1].cells)
              /\ ToSet(g[1].cells) \ (subframes(f, g).retained \cup subframes(f, g).new) =
                    {t \in ToSet(g[1].cells) \ ToSet(f[1].cells) : \E u \in Sketched(f) : Bit1(u) = Bit1(t)}
              /\ <<subframes(f, g).dp[1], subframes(f, g).rp[1], subframes(f, g).np[1]>>
                   = <<Cardinality(F \ G), Cardinality(F \cap G), Cardinality(G \ F)>>
        BY <2>2, SubframesAgree
    <2> QED BY <2>1, <2>3 DEF f, g
<1>8. /\ one.d = Cardinality(O[i] \ O[i + 1]) /\ one.r = Cardinality(O[i] \cap O[i + 1])
      /\ one.n = Cardinality(O[i + 1] \ O[i])
    <2>1. DOMAIN O = DOMAIN frames
        OBVIOUS
    <2> HIDE DEF O
    <2>2. one = [d |-> Cardinality(O[i] \ O[i + 1]), r |-> Cardinality(O[i] \cap O[i + 1]),
                 n |-> Cardinality(O[i + 1] \ O[i])]
        BY <1>1, <2>1 DEF drn_series
    <2> QED BY <2>2
<1>9. LoopScore(frames[i][1].cells).recall = <<Cardinality(A), Cardinality(A)>>
    <2>1. frames[i][1].cells \in Seq(Tokens)
        BY <1>6, GridAssumption
    <2> QED BY <2>1, LoopRecalls
<1>10. <<sub.dp[1], sub.rp[1], sub.np[1]>> = <<one.d, one.r, one.n>>
    <2> HIDE DEF sub, one, O
    <2> QED BY <1>7, <1>8
<1>11. /\ project(S, G1, dim)[i].bss[1] = bss_series(S)[i].tau
       /\ project(S, G1, dim)[i].bss_g1[1] = bss_series(G1)[i].tau
    <2> HIDE DEF S, G1, dim
    <2> QED BY <1>3, <1>4, <1>5
<1> HIDE DEF S, A, B, drn, noe, sub, G1, O, one, dim
<1> QED BY <1>3, <1>7, <1>9, <1>10, <1>11 DEF S, A, B, drn, noe, sub, G1, O, one, dim

\* All readings of a step between two frames agree, whatever the hash: the
\* counts of ewm-scene with those of ewm-flux-host (lib.rs:143, sidecar.rs:323),
\* the subframes (lib.rs:733) with the tables, and the loop recalls everything.
THEOREM TransitionsAlwaysAgree ==
    SidecarInit /\ [][SidecarNext]_sidecar_vars => []TransitionsAgree
<1>1. SidecarInit => TravelInv
    BY TravelInit
<1>2. TravelInv /\ [SidecarNext]_sidecar_vars => TravelInv'
    BY TravelStep
<1>3. TravelInv => TransitionsAgree
    BY FramesSuffice DEF TravelInv
<1> QED BY <1>1, <1>2, <1>3, PTL

-----------------------------------------------------------------------------
(* Numbers, for the levels of a tree.                                        *)

\* What holds of 0 and passes from each number to the next holds up to n.
LEMMA Upward ==
    ASSUME NEW n \in Nat, NEW G, 0 \in G, \A m \in 1..n : m - 1 \in G => m \in G
    PROVE  \A m \in 0..n : m \in G
<1> DEFINE T == {m \in 0..n : m \notin G}
<1> SUFFICES ASSUME T # {} PROVE FALSE
    OBVIOUS
<1>1. T \subseteq Nat
    OBVIOUS
<1>2. PICK m \in T : \A k \in T : m <= k
    <2> HIDE DEF T
    <2> QED BY <1>1, LeastNatural
<1>3. m \in 1..n /\ m - 1 \in 0..n /\ ~(m <= m - 1)
    BY <1>2
<1>4. m - 1 \in G
    BY <1>2, <1>3
<1> QED BY <1>2, <1>3, <1>4

\* The least member of a set of naturals.
LEMMA MinBounds ==
    ASSUME NEW S, S \subseteq Nat, S # {}
    PROVE  Min(S) \in S /\ \A x \in S : Min(S) <= x
<1>1. PICK y \in S : \A x \in S : y <= x
    BY LeastNatural
<1> QED BY <1>1, Zenon DEF Min

-----------------------------------------------------------------------------
(* Merkle levels: a sequence of distinct digests is told by its root.        *)

\* A sequence without repetitions, of anything.
Listing(s) ==
    /\ Len(s) \in Nat
    /\ s = [i \in 1..Len(s) |-> s[i]]
    /\ \A i, j \in 1..Len(s) : s[i] = s[j] => i = j

\* paired, index by index.
LEMMA PairedIs ==
    ASSUME NEW s, Len(s) \in Nat
    PROVE  /\ Len(paired(s)) = (Len(s) + 1) \div 2
           /\ paired(s) = [i \in 1..Len(paired(s)) |-> paired(s)[i]]
           /\ \A i \in 1..Len(paired(s)) :
                 /\ 2 * i - 1 \in 1..Len(s)
                 /\ paired(s)[i][1] = 1
                 /\ paired(s)[i][2] = s[2 * i - 1]
                 /\ paired(s)[i][3] = s[IF 2 * i > Len(s) THEN 2 * i - 1 ELSE 2 * i]
<1> DEFINE m == (Len(s) + 1) \div 2
           e(i) == internal_hash(s[2 * i - 1], s[IF 2 * i > Len(s) THEN 2 * i - 1 ELSE 2 * i])
<1>1. m \in Nat /\ 2 * m <= Len(s) + 1
    OBVIOUS
<1>2. paired(s) = [i \in 1..m |-> e(i)]
    BY DEF paired
<1> HIDE DEF m, e
<1>3. Len(paired(s)) = m
    BY <1>1, <1>2
<1>4. \A i \in 1..m : paired(s)[i] = e(i)
    BY <1>2
<1>5. \A i \in 1..m : 2 * i - 1 \in 1..Len(s)
    BY <1>1
<1>6. \A i \in 1..m : e(i)[1] = 1 /\ e(i)[2] = s[2 * i - 1]
                   /\ e(i)[3] = s[IF 2 * i > Len(s) THEN 2 * i - 1 ELSE 2 * i]
    BY DEF e, internal_hash
<1>7. paired(s) = [i \in 1..m |-> paired(s)[i]]
    BY <1>2
<1> QED BY <1>3, <1>4, <1>5, <1>6, <1>7 DEF m

\* The next level of distinct digests lists distinct digests.
LEMMA PairedListing ==
    ASSUME NEW s, Listing(s)
    PROVE  Listing(paired(s))
<1> DEFINE p == paired(s)
<1>1. /\ Len(p) = (Len(s) + 1) \div 2 /\ p = [i \in 1..Len(p) |-> p[i]]
      /\ \A i \in 1..Len(p) : 2 * i - 1 \in 1..Len(s) /\ p[i][2] = s[2 * i - 1]
    BY PairedIs DEF Listing
<1> HIDE DEF p
<1>2. Len(p) \in Nat
    BY <1>1 DEF Listing
<1>3. ASSUME NEW i \in 1..Len(p), NEW j \in 1..Len(p), p[i] = p[j]
      PROVE  i = j
    <2>1. s[2 * i - 1] = s[2 * j - 1]
        BY <1>1, <1>3
    <2>2. 2 * i - 1 = 2 * j - 1
        BY <1>1, <2>1 DEF Listing
    <2> QED BY <2>2
<1>4. Listing(p)
    BY <1>1, <1>2, <1>3 DEF Listing
<1> QED BY <1>4 DEF p

\* A level is told by the next one: no level of distinct digests ends with the
\* same digest twice, so an odd one is not mistaken for an even one.
LEMMA PairedInjective ==
    ASSUME NEW s, NEW t, Listing(s), Listing(t), paired(s) = paired(t)
    PROVE  s = t
<1> DEFINE p == paired(s)
           right(u, i) == u[IF 2 * i > Len(u) THEN 2 * i - 1 ELSE 2 * i]
<1>1. /\ Len(p) = (Len(s) + 1) \div 2
      /\ \A i \in 1..Len(p) : 2 * i - 1 \in 1..Len(s) /\ p[i][2] = s[2 * i - 1] /\ p[i][3] = right(s, i)
    BY PairedIs DEF Listing
<1>2. /\ Len(p) = (Len(t) + 1) \div 2
      /\ \A i \in 1..Len(p) : 2 * i - 1 \in 1..Len(t) /\ p[i][2] = t[2 * i - 1] /\ p[i][3] = right(t, i)
    <2> DEFINE q == paired(t)
    <2>1. /\ Len(q) = (Len(t) + 1) \div 2
          /\ \A i \in 1..Len(q) : 2 * i - 1 \in 1..Len(t) /\ q[i][2] = t[2 * i - 1] /\ q[i][3] = right(t, i)
        BY PairedIs DEF Listing
    <2>2. p = q
        OBVIOUS
    <2> HIDE DEF p, q, right
    <2> QED BY <2>1, <2>2
<1>3. Len(s) \in Nat /\ Len(t) \in Nat
    BY DEF Listing
<1> HIDE DEF p
<1>4. Len(p) \in Nat
    BY <1>1, <1>3
<1>5. \A i \in 1..Len(p) : s[2 * i - 1] = t[2 * i - 1] /\ right(s, i) = right(t, i)
    BY <1>1, <1>2
<1>6. ASSUME NEW u, NEW v, Listing(u), Listing(v), Len(u) < Len(v), Len(v) = 2 * Len(p),
             Len(u) = 2 * Len(p) - 1, right(u, Len(p)) = right(v, Len(p)),
             u[2 * Len(p) - 1] = v[2 * Len(p) - 1]
      PROVE  FALSE
    <2> DEFINE m == Len(p)
    <2>1. right(u, m) = u[2 * m - 1] /\ right(v, m) = v[2 * m]
        BY <1>4, <1>6
    <2>2. v[2 * m] = v[2 * m - 1]
        BY <1>6, <2>1
    <2>3. 2 * m \in 1..Len(v) /\ 2 * m - 1 \in 1..Len(v) /\ 2 * m # 2 * m - 1
        <3>1. Len(u) \in Nat
            BY <1>6 DEF Listing
        <3> QED BY <1>4, <1>6, <3>1
    <2> QED BY <1>6, <2>2, <2>3 DEF Listing
<1>7. Len(s) = Len(t)
    <2>1. ASSUME NEW a \in Nat, NEW b \in Nat, NEW m \in Nat, m = (a + 1) \div 2, m = (b + 1) \div 2, a < b
          PROVE  b = 2 * m /\ a = 2 * m - 1 /\ m \in 1..m
        BY <2>1
    <2> HIDE DEF right
    <2>2. CASE Len(s) < Len(t)
        <3>1. Len(t) = 2 * Len(p) /\ Len(s) = 2 * Len(p) - 1 /\ Len(p) \in 1..Len(p)
            BY <1>1, <1>2, <1>3, <1>4, <2>1, <2>2
        <3> QED BY <1>5, <1>6, <2>2, <3>1
    <2>3. CASE Len(t) < Len(s)
        <3>1. Len(s) = 2 * Len(p) /\ Len(t) = 2 * Len(p) - 1 /\ Len(p) \in 1..Len(p)
            BY <1>1, <1>2, <1>3, <1>4, <2>1, <2>3
        <3>2. right(t, Len(p)) = right(s, Len(p)) /\ t[2 * Len(p) - 1] = s[2 * Len(p) - 1]
            BY <1>5, <3>1
        <3> QED BY <1>6, <2>3, <3>1, <3>2
    <2> QED BY <1>3, <2>2, <2>3
<1>8. ASSUME NEW j \in 1..Len(s)
      PROVE  s[j] = t[j]
    <2> DEFINE i == (j + 1) \div 2
    <2>1. i \in 1..Len(p) /\ (j = 2 * i - 1 \/ j = 2 * i)
        BY <1>1, <1>3
    <2> HIDE DEF i
    <2>2. CASE j = 2 * i - 1
        BY <1>5, <2>1, <2>2
    <2>3. CASE j = 2 * i
        <3>1. ~(2 * i > Len(s)) /\ ~(2 * i > Len(t))
            BY <1>3, <1>7, <2>3
        <3>2. right(s, i) = s[j] /\ right(t, i) = t[j]
            BY <2>3, <3>1
        <3> HIDE DEF right
        <3> QED BY <1>5, <2>1, <3>2
    <2> QED BY <2>1, <2>2, <2>3
<1>9. s = [i \in 1..Len(s) |-> s[i]] /\ t = [i \in 1..Len(t) |-> t[i]]
    BY DEF Listing
<1> QED BY <1>7, <1>8, <1>9

\* The levels over d, as merkle_root chooses them, and where one is the root.
Levels(d) == CHOOSE f : f = [k \in 0..Len(d) |-> IF k = 0 THEN d ELSE paired(f[k - 1])]

Tops(d) == {k \in 0..Len(d) : Len(Levels(d)[k]) = 1}

\* The root is the first entry of the first level of length one.
LEMMA RootChosen ==
    ASSUME NEW d
    PROVE  merkle_root(d) = Levels(d)[Min(Tops(d))][1]
BY DEF merkle_root, Levels, Tops

\* They exist: each is computed from the one below.
LEMMA LevelsAre ==
    ASSUME NEW d, Len(d) \in Nat
    PROVE  /\ Levels(d)[0] = d
           /\ \A k \in 1..Len(d) : Levels(d)[k] = paired(Levels(d)[k - 1])
<1> DEFINE n == Len(d)
           Upto(f, m) == /\ f = [k \in 0..m |-> f[k]]
                         /\ f[0] = d
                         /\ \A k \in 1..m : f[k] = paired(f[k - 1])
           G == {m \in 0..n : \E f : Upto(f, m)}
           L == Levels(d)
<1>1. 0 \in G
    <2> DEFINE f == [k \in 0..0 |-> d]
    <2>1. Upto(f, 0)
        OBVIOUS
    <2> HIDE DEF Upto
    <2> QED BY <2>1
<1>2. ASSUME NEW m \in 1..n, m - 1 \in G
      PROVE  m \in G
    <2>1. PICK g : Upto(g, m - 1)
        BY <1>2
    <2> DEFINE f == [k \in 0..m |-> IF k = m THEN paired(g[m - 1]) ELSE g[k]]
    <2>2. f = [k \in 0..m |-> f[k]]
        OBVIOUS
    <2>3. f[0] = d
        BY <2>1
    <2>4. ASSUME NEW k \in 1..m
          PROVE  f[k] = paired(f[k - 1])
        <3>1. k - 1 \in 0..m /\ k \in 0..m /\ k - 1 # m /\ f[k - 1] = g[k - 1]
            OBVIOUS
        <3>2. CASE k = m
            BY <3>1, <3>2
        <3>3. CASE k # m
            <4>1. k \in 1..m - 1 /\ f[k] = g[k]
                BY <3>1, <3>3
            <4>2. g[k] = paired(g[k - 1])
                BY <2>1, <4>1
            <4> HIDE DEF f
            <4> QED BY <3>1, <4>1, <4>2
        <3> QED BY <3>2, <3>3
    <2>5. Upto(f, m)
        <3> HIDE DEF f
        <3> QED BY <2>2, <2>3, <2>4
    <2> HIDE DEF Upto, f
    <2> QED BY <2>5
<1>3. \A m \in 0..n : m \in G
    <2> HIDE DEF G, n
    <2>1. n \in Nat
        BY DEF n
    <2> QED BY <1>1, <1>2, <2>1, Upward
<1>4. PICK f : Upto(f, n)
    BY <1>3
<1>5. f = [k \in 0..n |-> IF k = 0 THEN d ELSE paired(f[k - 1])]
    <2>1. \A k \in 0..n : f[k] = IF k = 0 THEN d ELSE paired(f[k - 1])
        BY <1>4
    <2> QED BY <1>4, <2>1
<1>6. L = [k \in 0..n |-> IF k = 0 THEN d ELSE paired(L[k - 1])]
    BY <1>5 DEF Levels
<1> HIDE DEF L
<1>7. L[0] = d /\ \A k \in 1..n : L[k] = paired(L[k - 1])
    BY <1>6
<1> QED BY <1>7 DEF L

\* Every level over a listing is one, and they get shorter down to length one.
LEMMA LevelsListing ==
    ASSUME NEW d, Listing(d), Len(d) >= 1
    PROVE  \A k \in 0..Len(d) : /\ Listing(Levels(d)[k]) /\ Len(Levels(d)[k]) >= 1
                                /\ Len(Levels(d)[k]) = 1 \/ Len(Levels(d)[k]) <= Len(d) - k
<1> DEFINE n == Len(d)
           L == Levels(d)
           G == {k \in 0..n : /\ Listing(L[k]) /\ Len(L[k]) >= 1
                              /\ Len(L[k]) = 1 \/ Len(L[k]) <= n - k}
<1>1. n \in Nat
    BY DEF Listing
<1>2. L[0] = d /\ \A k \in 1..n : L[k] = paired(L[k - 1])
    BY <1>1, LevelsAre
<1> HIDE DEF L
<1>3. 0 \in G
    BY <1>1, <1>2
<1>4. ASSUME NEW k \in 1..n, k - 1 \in G
      PROVE  k \in G
    <2> DEFINE s == L[k - 1]
    <2>1. Listing(s) /\ Len(s) >= 1 /\ (Len(s) = 1 \/ Len(s) <= n - (k - 1))
        BY <1>4
    <2>2. Listing(L[k])
        BY <1>2, <2>1, PairedListing
    <2>3. Len(s) \in Nat
        BY <2>1 DEF Listing
    <2>4. L[k] = paired(s)
        BY <1>2
    <2> HIDE DEF s
    <2>5. Len(L[k]) = (Len(s) + 1) \div 2
        BY <2>3, <2>4, PairedIs
    <2>6. Len(L[k]) >= 1 /\ (Len(L[k]) = 1 \/ Len(L[k]) <= n - k)
        <3>1. ASSUME NEW a \in Nat, NEW b \in Int, NEW c, a >= 1, a = 1 \/ a <= b + 1, c = (a + 1) \div 2
              PROVE  c >= 1 /\ (c = 1 \/ c <= b)
            BY <3>1
        <3>2. n - k \in Int /\ n - (k - 1) = (n - k) + 1
            BY <1>1
        <3> QED BY <2>1, <2>3, <2>5, <3>1, <3>2
    <2> QED BY <2>2, <2>6
<1>5. \A k \in 0..n : k \in G
    <2> HIDE DEF G, n
    <2> QED BY <1>1, <1>3, <1>4, Upward
<1> QED BY <1>5 DEF L

\* The root is the digest of the first level of length one.
LEMMA RootLevel ==
    ASSUME NEW d, Listing(d), Len(d) >= 1
    PROVE  \E n \in 0..Len(d) : Len(Levels(d)[n]) = 1 /\ merkle_root(d) = Levels(d)[n][1]
<1>1. Len(d) \in Nat
    BY DEF Listing
<1>2. Len(d) \in 0..Len(d)
    BY <1>1
<1>3. Listing(Levels(d)[Len(d)]) /\ Len(Levels(d)[Len(d)]) >= 1
      /\ (Len(Levels(d)[Len(d)]) = 1 \/ Len(Levels(d)[Len(d)]) <= Len(d) - Len(d))
    BY <1>2, LevelsListing
<1>4. Len(Levels(d)[Len(d)]) \in Nat
    BY <1>3 DEF Listing
<1>5. Len(Levels(d)[Len(d)]) = 1
    BY <1>1, <1>3, <1>4
<1>6. Tops(d) \subseteq Nat /\ Tops(d) # {}
    BY <1>2, <1>5 DEF Tops
<1>7. Min(Tops(d)) \in Tops(d)
    BY <1>6, MinBounds
<1> QED BY <1>7, RootChosen DEF Tops

\* The first digest of a level is inside the first of the next.
LEMMA FirstOfLevel ==
    ASSUME NEW d, Listing(d), Len(d) >= 1, NEW k \in 1..Len(d)
    PROVE  Levels(d)[k][1][1] = 1 /\ Levels(d)[k][1][2] = Levels(d)[k - 1][1]
<1>1. k - 1 \in 0..Len(d) /\ k \in 0..Len(d) /\ Len(d) \in Nat
    BY DEF Listing
<1> DEFINE s == Levels(d)[k - 1]
           p == paired(s)
<1>2. Listing(s) /\ Levels(d)[k] = p /\ Len(Levels(d)[k]) >= 1 /\ Listing(Levels(d)[k])
    BY <1>1, LevelsAre, LevelsListing
<1>3. Len(s) \in Nat
    BY <1>2 DEF Listing
<1>4. \A i \in 1..Len(p) : p[i][1] = 1 /\ p[i][2] = s[2 * i - 1]
    <2> HIDE DEF s
    <2> QED BY <1>3, PairedIs
<1> HIDE DEF s, p
<1>5. Len(p) \in Nat /\ Len(p) >= 1
    BY <1>2 DEF Listing
<1>6. 1 \in 1..Len(p) /\ 2 * 1 - 1 = 1
    BY <1>5
<1> QED BY <1>2, <1>4, <1>6 DEF s

\* Two listings of leaf digests with one root are one: the roots have the same
\* height, since only a leaf is tagged 0, and each level is told by the next.
LEMMA RootHeight ==
    ASSUME NEW d, NEW e, Listing(d), Listing(e), Len(d) >= 1, Len(e) >= 1, d[1][1] = 0,
           NEW m \in 0..Len(d), NEW n \in 0..Len(e), Levels(d)[m][1] = Levels(e)[n][1]
    PROVE  ~(m < n)
<1> SUFFICES ASSUME m < n PROVE FALSE
    OBVIOUS
<1> DEFINE A == Levels(d)
           B == Levels(e)
           G == {k \in 0..m : A[m - k][1] = B[n - k][1]}
<1>1. Len(d) \in Nat /\ Len(e) \in Nat
    BY DEF Listing
<1>2. A[0] = d
    BY <1>1, LevelsAre
<1>3. \A k \in 1..m : A[k][1][2] = A[k - 1][1]
    BY <1>1, FirstOfLevel
<1>4. \A k \in 1..n : B[k][1][1] = 1 /\ B[k][1][2] = B[k - 1][1]
    BY <1>1, FirstOfLevel
<1> HIDE DEF A, B
<1>5. 0 \in G
    BY <1>1 DEF A, B
<1>6. ASSUME NEW k \in 1..m, k - 1 \in G
      PROVE  k \in G
    <2>1. /\ m - (k - 1) \in 1..m /\ n - (k - 1) \in 1..n
          /\ (m - (k - 1)) - 1 = m - k /\ (n - (k - 1)) - 1 = n - k
        BY <1>1
    <2>2. A[m - (k - 1)][1] = B[n - (k - 1)][1]
        BY <1>6
    <2>3. A[m - k][1] = B[n - k][1]
        <3>1. A[m - (k - 1)][1][2] = A[m - k][1]
            BY <1>3, <2>1
        <3>2. B[n - (k - 1)][1][2] = B[n - k][1]
            BY <1>4, <2>1
        <3> QED BY <2>2, <3>1, <3>2
    <2> QED BY <2>3
<1>7. \A k \in 0..m : k \in G
    <2> HIDE DEF G
    <2>1. m \in Nat
        BY <1>1
    <2> QED BY <2>1, <1>5, <1>6, Upward
<1>8. A[0][1] = B[n - m][1]
    <2>1. m \in G
        BY <1>1, <1>7
    <2> QED BY <1>1, <2>1
<1>9. n - m \in 1..n
    BY <1>1
<1> QED BY <1>2, <1>4, <1>8, <1>9

\* Two listings of leaf digests with one root are the same: a level is told by
\* the next, and the tag 0 of a leaf marks the level on which both listings lie.
LEMMA RootInjective ==
    ASSUME NEW d, NEW e, Listing(d), Listing(e), Len(d) >= 1, Len(e) >= 1,
           d[1][1] = 0, e[1][1] = 0, merkle_root(d) = merkle_root(e)
    PROVE  d = e
<1> DEFINE A == Levels(d)
           B == Levels(e)
<1>1. PICK m \in 0..Len(d) : Len(A[m]) = 1 /\ merkle_root(d) = A[m][1]
    BY RootLevel
<1>2. PICK n \in 0..Len(e) : Len(B[n]) = 1 /\ merkle_root(e) = B[n][1]
    BY RootLevel
<1>0. Len(d) \in Nat /\ Len(e) \in Nat
    BY DEF Listing
<1>3. m = n
    <2>1. ~(m < n)
        BY <1>1, <1>2, RootHeight
    <2>2. ~(n < m)
        BY <1>1, <1>2, RootHeight
    <2> QED BY <1>0, <2>1, <2>2
<1>4. /\ A[0] = d /\ B[0] = e
      /\ \A k \in 1..m : A[k] = paired(A[k - 1]) /\ B[k] = paired(B[k - 1])
    BY <1>0, <1>3, LevelsAre
<1>5. \A k \in 0..m : Listing(A[k]) /\ Listing(B[k])
    <2>1. \A k \in 0..m : k \in 0..Len(d) /\ k \in 0..Len(e)
        BY <1>0, <1>3
    <2> QED BY <2>1, LevelsListing
<1> HIDE DEF A, B
<1>6. A[m] = B[m]
    <2>1. Listing(A[m]) /\ Listing(B[m])
        BY <1>0, <1>5
    <2>2. A[m] = [i \in 1..1 |-> A[m][i]] /\ B[m] = [i \in 1..1 |-> B[m][i]]
        BY <1>1, <1>2, <1>3, <2>1 DEF Listing
    <2>3. A[m][1] = B[m][1]
        BY <1>1, <1>2, <1>3
    <2> QED BY <2>2, <2>3
<1> DEFINE G == {k \in 0..m : A[m - k] = B[m - k]}
<1>7. 0 \in G
    BY <1>0, <1>6
<1>8. ASSUME NEW k \in 1..m, k - 1 \in G
      PROVE  k \in G
    <2>1. m - (k - 1) \in 1..m /\ (m - (k - 1)) - 1 = m - k /\ m - k \in 0..m
        BY <1>0
    <2>2. A[m - (k - 1)] = B[m - (k - 1)]
        BY <1>8
    <2>3. paired(A[m - k]) = paired(B[m - k])
        BY <1>4, <2>1, <2>2
    <2>4. A[m - k] = B[m - k]
        BY <1>5, <2>1, <2>3, PairedInjective
    <2> QED BY <2>4
<1>9. \A k \in 0..m : k \in G
    <2> HIDE DEF G
    <2>1. m \in Nat
        BY <1>0
    <2> QED BY <2>1, <1>7, <1>8, Upward
<1>10. m \in G
    BY <1>0, <1>9, SMTT(40)
<1> QED BY <1>0, <1>4, <1>10

\* Digests of leaves: all are told from the root of the empty tree, too.
Digests(d) == Listing(d) /\ \A i \in 1..Len(d) : d[i][1] = 0 /\ d[i] # <<"empty">>

\* With the empty listing, whose root no other has.
LEMMA RootedInjective ==
    ASSUME NEW d, NEW e, Digests(d), Digests(e), rooted(d) = rooted(e)
    PROVE  d = e
<1>0. Listing(d) /\ Listing(e) /\ Len(d) \in Nat /\ Len(e) \in Nat
    BY DEF Digests, Listing
<1>1. ASSUME NEW u, Digests(u), Len(u) \in Nat, Len(u) # 0
      PROVE  u # <<>> /\ Len(u) >= 1 /\ u[1][1] = 0 /\ merkle_root(u) # <<"empty">>
    <2>1. u # <<>> /\ Len(u) >= 1 /\ 1 \in 1..Len(u) /\ Listing(u)
        BY <1>1 DEF Digests
    <2>2. u[1][1] = 0 /\ u[1] # <<"empty">>
        BY <1>1, <2>1 DEF Digests
    <2>3. PICK n \in 0..Len(u) : Len(Levels(u)[n]) = 1 /\ merkle_root(u) = Levels(u)[n][1]
        BY <2>1, RootLevel
    <2>4. n = 0 => merkle_root(u) # <<"empty">>
        BY <1>1, <2>2, <2>3, LevelsAre
    <2>5. ASSUME n # 0 PROVE merkle_root(u) # <<"empty">>
        <3> DEFINE s == Levels(u)[n - 1]
        <3>1. n \in 1..Len(u) /\ n - 1 \in 0..Len(u)
            BY <2>5
        <3>2. Levels(u)[n] = paired(s) /\ Listing(s) /\ Len(s) >= 1
            BY <1>1, <2>1, <3>1, LevelsAre, LevelsListing
        <3>3. paired(s)[1] = <<1, s[1], s[IF 2 * 1 > Len(s) THEN 2 * 1 - 1 ELSE 2 * 1]>>
            <4>1. Len(s) \in Nat
                BY <3>2 DEF Listing
            <4> HIDE DEF s
            <4>2. ASSUME NEW a \in Nat, a >= 1
                  PROVE  1 \in 1..(a + 1) \div 2 /\ 2 * 1 - 1 = 1
                BY <4>2
            <4>3. 1 \in 1..(Len(s) + 1) \div 2 /\ 2 * 1 - 1 = 1
                BY <3>2, <4>1, <4>2
            <4> QED BY <4>3 DEF paired, internal_hash
        <3>4. ASSUME NEW a, NEW b
              PROVE  <<1, a, b>> # <<"empty">>
            <4>1. Len(<<1, a, b>>) = 3 /\ Len(<<"empty">>) = 1
                OBVIOUS
            <4> QED BY <4>1
        <3> HIDE DEF s
        <3> QED BY <2>3, <3>2, <3>3, <3>4
    <2> QED BY <2>1, <2>2, <2>4, <2>5
<1>2. ASSUME NEW u, Listing(u), Len(u) = 0
      PROVE  u = <<>>
    <2>1. u = [i \in 1..0 |-> u[i]]
        BY <1>2 DEF Listing
    <2> QED BY <2>1
<1>3. CASE Len(d) = 0 /\ Len(e) = 0
    BY <1>0, <1>2, <1>3
<1>4. CASE Len(d) = 0 /\ Len(e) # 0
    BY <1>0, <1>1, <1>2, <1>4 DEF rooted
<1>5. CASE Len(d) # 0 /\ Len(e) = 0
    BY <1>0, <1>1, <1>2, <1>5 DEF rooted
<1>6. CASE Len(d) # 0 /\ Len(e) # 0
    <2>1. merkle_root(d) = merkle_root(e)
        BY <1>0, <1>1, <1>6 DEF rooted
    <2> QED BY <1>0, <1>1, <1>6, <2>1, RootInjective
<1> QED BY <1>3, <1>4, <1>5, <1>6

-----------------------------------------------------------------------------
(* What a tree is built of: a set of keys and the views of each.             *)

\* Ascending lists a set without repetitions: the rank of a member is a
\* bijection.
LEMMA AscendingIs ==
    ASSUME NEW S, S \subseteq Nat, IsFiniteSet(S)
    PROVE  /\ Cardinality(S) \in Nat
           /\ Ascending(S) \in [1..Cardinality(S) -> S]
           /\ \A i, j \in 1..Cardinality(S) : Ascending(S)[i] = Ascending(S)[j] => i = j
           /\ \A x \in S : \E i \in 1..Cardinality(S) : Ascending(S)[i] = x
<1> DEFINE n == Cardinality(S)
           low(x) == {y \in S : y <= x}
           r == [x \in S |-> Cardinality(low(x))]
           a == Ascending(S)
<1>1. n \in Nat
    BY FS_CardinalityType
<1>2. ASSUME NEW x \in S
      PROVE  IsFiniteSet(low(x)) /\ Cardinality(low(x)) \in 1..n
    <2>1. low(x) \in SUBSET S /\ x \in low(x)
        OBVIOUS
    <2> HIDE DEF low
    <2>2. IsFiniteSet(low(x)) /\ Cardinality(low(x)) <= n
        BY <2>1, FS_Subset
    <2>3. Cardinality(low(x)) \in Nat /\ Cardinality(low(x)) # 0
        BY <2>1, <2>2, FS_CardinalityType, FS_EmptySet
    <2> QED BY <1>1, <2>2, <2>3
<1>3. ASSUME NEW x \in S, NEW y \in S, x < y
      PROVE  Cardinality(low(x)) # Cardinality(low(y))
    <2>0. \A z \in S : z \in Nat
        OBVIOUS
    <2>1. low(x) \in SUBSET low(y) /\ y \in low(y) /\ y \notin low(x)
        <3>1. \A z \in S : z <= x => z <= y
            BY <1>3, <2>0
        <3>2. y <= y /\ ~(y <= x)
            BY <1>3, <2>0
        <3> QED BY <3>1, <3>2
    <2> HIDE DEF low
    <2>2. IsFiniteSet(low(y))
        BY <1>2
    <2> QED BY <2>1, <2>2, FS_Subset
<1>4. \A x, y \in S : r[x] = r[y] => x = y
    <2> SUFFICES ASSUME NEW x \in S, NEW y \in S, r[x] = r[y] PROVE x = y
        OBVIOUS
    <2>1. ~(x < y) /\ ~(y < x)
        <3> HIDE DEF low
        <3> QED BY <1>3
    <2> QED BY <2>1
<1>5. r \in [S -> 1..n]
    <2> HIDE DEF low
    <2> QED BY <1>2
<1>6. \A i \in 1..n : \E x \in S : r[x] = i
    <2>1. IsFiniteSet(1..n) /\ Cardinality(1..n) = n
        <3>1. IsFiniteSet(1..n) /\ Cardinality(1..n) = IF 1 > n THEN 0 ELSE n - 1 + 1
            BY <1>1, FS_Interval
        <3> QED BY <1>1, <3>1
    <2> HIDE DEF r
    <2>2. r \in Injection(S, 1..n)
        BY <1>4, <1>5 DEF Injection, IsInjective
    <2>3. r \in Surjection(S, 1..n)
        BY <2>1, <2>2, FS_Injection
    <2> QED BY <2>3 DEF Surjection
<1>7. a = [i \in 1..n |-> CHOOSE x \in S : Cardinality(low(x)) = i]
    BY DEF Ascending
<1>8. \A i \in 1..n : a[i] \in S /\ r[a[i]] = i
    <2> SUFFICES ASSUME NEW i \in 1..n PROVE a[i] \in S /\ r[a[i]] = i
        OBVIOUS
    <2>1. PICK x \in S : Cardinality(low(x)) = i
        <3> HIDE DEF low
        <3> QED BY <1>6
    <2> DEFINE c == CHOOSE z \in S : Cardinality(low(z)) = i
    <2>2. c \in S /\ Cardinality(low(c)) = i
        <3> HIDE DEF low
        <3> QED BY <2>1
    <2>3. a[i] = c
        <3> HIDE DEF a, c, low
        <3>1. \A j \in 1..n : a[j] = CHOOSE z \in S : Cardinality(low(z)) = j
            BY <1>7
        <3> QED BY <3>1 DEF c
    <2> HIDE DEF c, a, low
    <2> QED BY <2>2, <2>3
<1>9. DOMAIN a = 1..n /\ a = [i \in 1..n |-> a[i]]
    BY <1>7
<1> HIDE DEF a, r
<1>10. a \in [1..n -> S]
    BY <1>8, <1>9
<1>11. \A i, j \in 1..n : a[i] = a[j] => i = j
    BY <1>8
<1>12. \A x \in S : \E i \in 1..n : a[i] = x
    <2> SUFFICES ASSUME NEW x \in S PROVE \E i \in 1..n : a[i] = x
        OBVIOUS
    <2>1. r[x] \in 1..n
        BY <1>5
    <2>2. a[r[x]] \in S /\ r[a[r[x]]] = r[x]
        BY <1>8, <2>1
    <2> QED BY <1>4, <2>1, <2>2
<1> QED BY <1>1, <1>10, <1>11, <1>12 DEF a

\* The entries of a sequence are finitely many.
LEMMA EntriesFinite ==
    ASSUME NEW s, NEW S, s \in Seq(S)
    PROVE  IsFiniteSet(ToSet(s)) /\ ToSet(s) \subseteq S /\ \A i \in 1..Len(s) : s[i] \in ToSet(s)
<1>1. IsFiniteSet(1..Len(s))
    BY FS_Interval
<1>2. s \in Surjection(1..Len(s), ToSet(s))
    BY DEF Surjection, ToSet
<1>3. IsFiniteSet(ToSet(s))
    BY <1>1, <1>2, FS_Surjection
<1> QED BY <1>3 DEF ToSet

NonDecreasing(s) == \A i, j \in 1..Len(s) : i <= j => s[i] <= s[j]

\* The values with at least i entries up to them.
Above(s, i) == {x \in ToSet(s) : Cardinality({j \in DOMAIN s : s[j] <= x}) >= i}

\* The entry at i is the least of those; there is one, the largest.
LEMMA SortedIs ==
    ASSUME NEW s \in Seq(Nat)
    PROVE  Sorted(s) \in Seq(Nat) /\ Len(Sorted(s)) = Len(s) /\ NonDecreasing(Sorted(s))
<1>1. \A i \in 1..Len(s) : Above(s, i) \subseteq Nat /\ Above(s, i) # {}
    <2> SUFFICES ASSUME NEW i \in 1..Len(s) PROVE Above(s, i) \subseteq Nat /\ Above(s, i) # {}
        OBVIOUS
    <2>1. IsFiniteSet(ToSet(s)) /\ ToSet(s) \subseteq Nat /\ \A j \in 1..Len(s) : s[j] \in ToSet(s)
        BY EntriesFinite
    <2> DEFINE x == Max(ToSet(s))
    <2>2. x \in ToSet(s) /\ \A y \in ToSet(s) : y <= x
        BY <2>1, MaxBounds
    <2> HIDE DEF x
    <2>3. {j \in DOMAIN s : s[j] <= x} = 1..Len(s)
        BY <2>1, <2>2
    <2>4. Cardinality(1..Len(s)) = Len(s)
        <3>1. Cardinality(1..Len(s)) = IF 1 > Len(s) THEN 0 ELSE Len(s) - 1 + 1
            BY FS_Interval
        <3> QED BY <3>1
    <2>5. Cardinality({j \in DOMAIN s : s[j] <= x}) >= i
        <3>1. Len(s) >= i
            OBVIOUS
        <3> QED BY ONLY <2>3, <2>4, <3>1
    <2> QED BY <2>1, <2>2, <2>5 DEF Above
<1>2. Sorted(s) = [i \in 1..Len(s) |-> Min(Above(s, i))]
    <2>1. DOMAIN s = 1..Len(s)
        OBVIOUS
    <2> QED BY <2>1 DEF Sorted, Above
<1>3. \A i \in 1..Len(s) : Min(Above(s, i)) \in Above(s, i) /\ Min(Above(s, i)) \in Nat
                         /\ \A y \in Above(s, i) : Min(Above(s, i)) <= y
    BY <1>1, MinBounds
<1>4. Len(Sorted(s)) = Len(s) /\ Sorted(s) \in Seq(Nat)
    BY <1>2, <1>3
<1>5. ASSUME NEW i \in 1..Len(s), NEW j \in 1..Len(s), i <= j
      PROVE  Min(Above(s, i)) <= Min(Above(s, j))
    <2>1. Above(s, j) \subseteq Above(s, i)
        <3> SUFFICES ASSUME NEW x \in Above(s, j) PROVE x \in Above(s, i)
            OBVIOUS
        <3> DEFINE T == {k \in DOMAIN s : s[k] <= x}
        <3>1. x \in ToSet(s) /\ Cardinality(T) >= j
            BY DEF Above
        <3>2. Cardinality(T) \in Nat
            <4>1. T \in SUBSET (1..Len(s)) /\ IsFiniteSet(1..Len(s))
                BY FS_Interval
            <4> HIDE DEF T
            <4> QED BY <4>1, FS_Subset, FS_CardinalityType
        <3>3. Cardinality(T) >= i
            <4> HIDE DEF T
            <4> QED BY <1>5, <3>1, <3>2
        <3> QED BY <3>1, <3>3 DEF Above
    <2> QED BY <1>3, <2>1
<1>6. NonDecreasing(Sorted(s))
    BY <1>2, <1>4, <1>5 DEF NonDecreasing
<1> QED BY <1>4, <1>6

\* Sorting what is sorted changes nothing.
LEMMA SortedSame ==
    ASSUME NEW s \in Seq(Nat), NonDecreasing(s)
    PROVE  Sorted(s) = s
<1>1. ASSUME NEW i \in 1..Len(s)
      PROVE  Min(Above(s, i)) = s[i]
    <2>1. ASSUME NEW x \in ToSet(s)
          PROVE  x \in Above(s, i) <=> s[i] <= x
        <3> DEFINE T == {j \in DOMAIN s : s[j] <= x}
        <3>1. T \in SUBSET (1..Len(s)) /\ IsFiniteSet(1..Len(s)) /\ x \in Nat
            <4>1. x \in Nat
                BY EntriesFinite
            <4>2. IsFiniteSet(1..Len(s))
                BY FS_Interval
            <4> QED BY <4>1, <4>2
        <3>2. IsFiniteSet(T) /\ Cardinality(T) \in Nat
            <4> HIDE DEF T
            <4> QED BY <3>1, FS_Subset, FS_CardinalityType
        <3>3. ASSUME NEW k \in 0..Len(s)
              PROVE  IsFiniteSet(1..k) /\ Cardinality(1..k) = k
            <4>1. IsFiniteSet(1..k) /\ Cardinality(1..k) = IF 1 > k THEN 0 ELSE k - 1 + 1
                BY FS_Interval
            <4> QED BY <4>1
        <3>4. CASE s[i] <= x
            <4>1. 1..i \in SUBSET T
                <5>1. ASSUME NEW j \in 1..i
                      PROVE  j \in DOMAIN s /\ s[j] <= x
                    <6>1. j \in 1..Len(s) /\ j <= i
                        OBVIOUS
                    <6>2. s[j] <= s[i] /\ s[j] \in Nat /\ s[i] \in Nat
                        BY <6>1 DEF NonDecreasing
                    <6> QED BY <3>1, <3>4, <6>1, <6>2
                <5> QED BY <5>1
            <4>2. Cardinality(T) >= i
                <5> HIDE DEF T
                <5>1. Cardinality(1..i) <= Cardinality(T)
                    BY <3>2, <4>1, FS_Subset
                <5>2. Cardinality(1..i) = i
                    BY <3>3
                <5> QED BY <3>2, <5>1, <5>2
            <4> QED BY <3>4, <4>2 DEF Above
        <3>5. CASE ~(s[i] <= x)
            <4>1. T \in SUBSET (1..(i - 1))
                <5>1. ASSUME NEW j \in T
                      PROVE  j \in 1..(i - 1)
                    <6>1. j \in 1..Len(s) /\ s[j] <= x /\ s[j] \in Nat /\ s[i] \in Nat
                        OBVIOUS
                    <6>2. ~(i <= j)
                        BY <3>1, <3>5, <6>1 DEF NonDecreasing
                    <6> QED BY <6>1, <6>2
                <5> QED BY <5>1
            <4>2. ~(Cardinality(T) >= i)
                <5> HIDE DEF T
                <5>1. i - 1 \in 0..Len(s)
                    OBVIOUS
                <5>2. IsFiniteSet(1..(i - 1)) /\ Cardinality(1..(i - 1)) = i - 1
                    BY <3>3, <5>1
                <5>3. Cardinality(T) <= i - 1
                    BY <4>1, <5>2, FS_Subset, ZenonT(60)
                <5> QED BY <3>2, <5>3
            <4> QED BY <3>5, <4>2 DEF Above
        <3> QED BY <3>4, <3>5
    <2>2. s[i] \in ToSet(s) /\ ToSet(s) \subseteq Nat
        BY EntriesFinite
    <2>3. s[i] \in Above(s, i) /\ Above(s, i) \subseteq ToSet(s)
        BY <2>1, <2>2 DEF Above
    <2>4. Min(Above(s, i)) \in Above(s, i) /\ Min(Above(s, i)) <= s[i]
        BY <2>2, <2>3, MinBounds
    <2>5. s[i] <= Min(Above(s, i))
        BY <2>1, <2>3, <2>4
    <2> QED BY <2>2, <2>3, <2>4, <2>5
<1>2. Sorted(s) = [i \in 1..Len(s) |-> Min(Above(s, i))]
    <2>1. DOMAIN s = 1..Len(s)
        OBVIOUS
    <2> QED BY <2>1 DEF Sorted, Above
<1>3. Sorted(s) = [i \in 1..Len(s) |-> s[i]]
    BY <1>1, <1>2
<1> QED BY <1>3

\* Views as trees keep them.
Lists == {v \in Seq(Nat) : Sorted(v) = v}

\* What is sorted stays so when it is sorted again.
LEMMA SortedLists ==
    ASSUME NEW s \in Seq(Nat)
    PROVE  Sorted(s) \in Lists
BY SortedIs, SortedSame DEF Lists

AnyLeaf == [h : Nat, views : Seq(Nat)]

\* The tree of the keys K with the views f.
LeavesOf(K, f) ==
    [k \in 1..Cardinality(K) |-> [h |-> Ascending(K)[k], views |-> f[Ascending(K)[k]]]]

TreeOf(K, f) == Tree(LeavesOf(K, f))

\* f has the views of every key of K, and K is what a tree can have.
Content(K, f) == K \subseteq Nat /\ IsFiniteSet(K) /\ \A h \in K : f[h] \in Lists

\* The keys of a sequence of leaves are a finite set of naturals.
LEMMA LeafKeys ==
    ASSUME NEW s \in Seq(AnyLeaf)
    PROVE  {s[i].h : i \in DOMAIN s} \subseteq Nat /\ IsFiniteSet({s[i].h : i \in DOMAIN s})
<1> DEFINE K == {s[i].h : i \in DOMAIN s}
           f == [i \in 1..Len(s) |-> s[i].h]
<1>0. \A i \in 1..Len(s) : s[i] \in AnyLeaf
    OBVIOUS
<1>1. \A i \in 1..Len(s) : s[i] \in AnyLeaf /\ s[i].h \in Nat
    BY <1>0 DEF AnyLeaf
<1>2. DOMAIN s = 1..Len(s)
    OBVIOUS
<1>3. f \in Surjection(1..Len(s), K)
    BY <1>2 DEF Surjection
<1>4. IsFiniteSet(1..Len(s))
    BY FS_Interval
<1>5. IsFiniteSet(K)
    <2> HIDE DEF f, K
    <2> QED BY <1>3, <1>4, FS_Surjection
<1> QED BY <1>1, <1>2, <1>5

\* build keeps, for each key, the views of the first leaf that has it.
LEMMA BuildFrom ==
    ASSUME NEW s \in Seq(AnyLeaf), NEW f, NEW K, K = {s[i].h : i \in DOMAIN s},
           \A i \in 1..Len(s) : (\A j \in 1..i - 1 : s[j].h # s[i].h) => f[s[i].h] = Sorted(s[i].views)
    PROVE  build(s) = TreeOf(K, f) /\ Content(K, f)
<1> DEFINE at(h) == {i \in DOMAIN s : s[i].h = h}
           a == Ascending(K)
           n == Cardinality(K)
<1>1. K \subseteq Nat /\ IsFiniteSet(K)
    BY LeafKeys
<1>0. DOMAIN s = 1..Len(s) /\ \A i \in 1..Len(s) : s[i] \in AnyLeaf
    OBVIOUS
<1>2. DOMAIN s = 1..Len(s) /\ \A i \in 1..Len(s) : s[i] \in AnyLeaf /\ s[i].views \in Seq(Nat)
    BY <1>0 DEF AnyLeaf
<1>3. ASSUME NEW h \in K
      PROVE  f[h] = Sorted(s[Min(at(h))].views) /\ f[h] \in Lists
    <2>1. at(h) \subseteq Nat /\ at(h) # {}
        BY <1>2
    <2>2. Min(at(h)) \in at(h) /\ \A i \in at(h) : Min(at(h)) <= i
        <3> HIDE DEF at
        <3> QED BY <2>1, MinBounds
    <2> DEFINE m == Min(at(h))
    <2>3. m \in 1..Len(s) /\ s[m].h = h
        BY <1>2, <2>2
    <2>4. \A j \in 1..m - 1 : s[j].h # s[m].h
        <3> SUFFICES ASSUME NEW j \in 1..m - 1, s[j].h = s[m].h PROVE FALSE
            OBVIOUS
        <3> HIDE DEF m
        <3>1. j \in 1..Len(s)
            BY <2>3
        <3>2. j \in at(h)
            BY <1>2, <2>3, <3>1
        <3>3. m <= j
            BY <2>2, <3>2 DEF m
        <3> QED BY <2>3, <3>3
    <2>5. f[h] = Sorted(s[m].views)
        <3> HIDE DEF m
        <3> QED BY <2>3, <2>4
    <2>6. f[h] \in Lists
        <3> HIDE DEF m
        <3> QED BY <1>2, <2>3, <2>5, SortedLists
    <2> QED BY <2>5, <2>6
<1>4. a \in [1..n -> K]
    BY <1>1, AscendingIs
<1>5. build(s) = Tree([k \in DOMAIN a |-> [h |-> a[k], views |-> Sorted(s[Min(at(a[k]))].views)]])
    BY DEF build
<1> HIDE DEF a, n, at
<1>6. [k \in DOMAIN a |-> [h |-> a[k], views |-> Sorted(s[Min(at(a[k]))].views)]]
        = [k \in 1..n |-> [h |-> a[k], views |-> f[a[k]]]]
    <2>1. DOMAIN a = 1..n /\ \A k \in 1..n : a[k] \in K
        BY <1>4
    <2>2. \A k \in 1..n : Sorted(s[Min(at(a[k]))].views) = f[a[k]]
        BY <1>3, <2>1
    <2> QED BY <2>1, <2>2
<1>7. build(s) = TreeOf(K, f)
    BY <1>5, <1>6 DEF TreeOf, LeavesOf, a, n
<1> QED BY <1>1, <1>3, <1>7 DEF Content

\* The leaves of a tree.
LeavesAre(L, K, f) ==
    /\ L \in Seq(AnyLeaf)
    /\ Len(L) = Cardinality(K)
    /\ \A i \in 1..Len(L) : L[i].h \in K /\ L[i].views = f[L[i].h]
    /\ \A i, j \in 1..Len(L) : L[i].h = L[j].h => i = j
    /\ \A h \in K : \E i \in 1..Len(L) : L[i].h = h

\* The tree of a content holds each key once, with its views.
LEMMA TreeOfIs ==
    ASSUME NEW K, NEW f, Content(K, f)
    PROVE  /\ TreeOf(K, f).leaves = LeavesOf(K, f)
           /\ LeavesAre(LeavesOf(K, f), K, f)
           /\ KeysIn(TreeOf(K, f)) = K
           /\ \A h \in K : ViewsOf(TreeOf(K, f), h) = {f[h]}
           /\ Cardinality(K) \in Nat
<1> DEFINE a == Ascending(K)
           n == Cardinality(K)
           L == LeavesOf(K, f)
           t == TreeOf(K, f)
<1>1. /\ n \in Nat /\ a \in [1..n -> K]
      /\ \A i, j \in 1..n : a[i] = a[j] => i = j
      /\ \A x \in K : \E i \in 1..n : a[i] = x
    BY AscendingIs DEF Content
<1>2. L = [k \in 1..n |-> [h |-> a[k], views |-> f[a[k]]]]
    BY DEF LeavesOf
<1>3. t.leaves = L
    BY DEF TreeOf, Tree
<1> HIDE DEF a, n, L, t
<1>4. \A k \in 1..n : L[k].h = a[k] /\ L[k].views = f[a[k]] /\ L[k] \in AnyLeaf
    <2> SUFFICES ASSUME NEW k \in 1..n
                 PROVE  L[k].h = a[k] /\ L[k].views = f[a[k]] /\ L[k] \in AnyLeaf
        OBVIOUS
    <2>1. L[k] = [h |-> a[k], views |-> f[a[k]]]
        BY <1>2
    <2>2. a[k] \in K /\ a[k] \in Nat /\ f[a[k]] \in Seq(Nat)
        BY <1>1 DEF Content, Lists
    <2> QED BY <2>1, <2>2 DEF AnyLeaf
<1>5. L \in Seq(AnyLeaf) /\ Len(L) = n
    BY <1>1, <1>2, <1>4
<1>6. LeavesAre(L, K, f)
    <2>1. \A i \in 1..Len(L) : L[i].h \in K /\ L[i].views = f[L[i].h]
        BY <1>1, <1>4, <1>5
    <2>2. \A i, j \in 1..Len(L) : L[i].h = L[j].h => i = j
        BY <1>1, <1>4, <1>5
    <2>3. \A h \in K : \E i \in 1..Len(L) : L[i].h = h
        BY <1>1, <1>4, <1>5
    <2> QED BY <1>5, <2>1, <2>2, <2>3 DEF LeavesAre, n
<1>7. DOMAIN L = 1..Len(L)
    BY <1>5
<1>8. KeysIn(t) = K
    BY <1>3, <1>6, <1>7 DEF KeysIn, LeavesAre
<1>9. ASSUME NEW h \in K
      PROVE  ViewsOf(t, h) = {f[h]}
    <2>1. ViewsOf(t, h) = {L[i].views : i \in {j \in 1..Len(L) : L[j].h = h}}
        BY <1>3, <1>7 DEF ViewsOf
    <2>2. PICK i \in 1..Len(L) : L[i].h = h
        BY <1>6 DEF LeavesAre
    <2>3. \A j \in 1..Len(L) : L[j].h = h => L[j].views = f[h]
        BY <1>6 DEF LeavesAre
    <2> QED BY <2>1, <2>2, <2>3
<1> QED BY <1>1, <1>3, <1>6, <1>8, <1>9 DEF L, t, n

\* Its root tells the keys and their views.
LEMMA TreeOfRoot ==
    ASSUME NEW A, NEW f, Content(A, f), NEW B, NEW g, Content(B, g)
    PROVE  /\ (TreeOf(A, f).root = TreeOf(B, g).root) <=> (A = B /\ \A h \in A : f[h] = g[h])
           /\ (A = B /\ \A h \in A : f[h] = g[h]) => TreeOf(A, f) = TreeOf(B, g)
<1> DEFINE hashes(L) == [i \in DOMAIN L |-> leaf_hash(L[i])]
<1>1. ASSUME NEW K, NEW c, Content(K, c)
      PROVE  /\ TreeOf(K, c).root = rooted(hashes(LeavesOf(K, c)))
             /\ Digests(hashes(LeavesOf(K, c)))
             /\ {d[2] : d \in {hashes(LeavesOf(K, c))[i] : i \in DOMAIN hashes(LeavesOf(K, c))}} = K
             /\ \A i \in DOMAIN hashes(LeavesOf(K, c)) :
                    hashes(LeavesOf(K, c))[i][3] = c[hashes(LeavesOf(K, c))[i][2]]
    <2> DEFINE L == LeavesOf(K, c)
               d == hashes(L)
    <2>1. LeavesAre(L, K, c)
        BY <1>1, TreeOfIs
    <2>2. TreeOf(K, c).root = rooted(d)
        BY DEF TreeOf, Tree
    <2> HIDE DEF L
    <2>3. DOMAIN L = 1..Len(L) /\ Len(L) \in Nat
        BY <2>1 DEF LeavesAre
    <2>4. d = [i \in 1..Len(L) |-> leaf_hash(L[i])]
        BY <2>3
    <2> HIDE DEF d
    <2>5. Len(d) = Len(L) /\ DOMAIN d = 1..Len(L) /\ d = [i \in 1..Len(d) |-> d[i]]
        BY <2>3, <2>4
    <2>6. \A i \in 1..Len(L) : d[i] = <<0, L[i].h, L[i].views>>
        BY <2>4 DEF leaf_hash
    <2>7. \A i \in 1..Len(L) : d[i][1] = 0 /\ d[i][2] = L[i].h /\ d[i][3] = L[i].views /\ d[i] # <<"empty">>
        <3>1. ASSUME NEW x, NEW y
              PROVE  <<0, x, y>> # <<"empty">>
            <4>1. Len(<<0, x, y>>) = 3 /\ Len(<<"empty">>) = 1
                OBVIOUS
            <4> QED BY <4>1
        <3> QED BY <2>6, <3>1
    <2>8. Digests(d)
        <3>1. \A i, j \in 1..Len(d) : d[i] = d[j] => i = j
            BY <2>1, <2>5, <2>7 DEF LeavesAre
        <3> QED BY <2>3, <2>5, <2>7, <3>1 DEF Digests, Listing
    <2>9. {e[2] : e \in {d[i] : i \in DOMAIN d}} = K
        BY <2>1, <2>5, <2>7 DEF LeavesAre
    <2>10. \A i \in DOMAIN d : d[i][3] = c[d[i][2]]
        BY <2>1, <2>5, <2>7 DEF LeavesAre
    <2> QED BY <2>2, <2>8, <2>9, <2>10 DEF d, L
<1> HIDE DEF hashes
<1>2. ASSUME TreeOf(A, f).root = TreeOf(B, g).root
      PROVE  A = B /\ \A h \in A : f[h] = g[h]
    <2> DEFINE d == hashes(LeavesOf(A, f))
               e == hashes(LeavesOf(B, g))
    <2>1. d = e
        BY <1>1, <1>2, RootedInjective
    <2>2. /\ {x[2] : x \in {d[i] : i \in DOMAIN d}} = A
          /\ {x[2] : x \in {e[i] : i \in DOMAIN e}} = B
          /\ \A i \in DOMAIN d : d[i][3] = f[d[i][2]]
          /\ \A i \in DOMAIN e : e[i][3] = g[e[i][2]]
        BY <1>1
    <2> HIDE DEF d, e
    <2>3. A = B
        BY <2>1, <2>2
    <2>4. ASSUME NEW h \in A
          PROVE  f[h] = g[h]
        <3>1. PICK i \in DOMAIN d : d[i][2] = h
            BY <2>2
        <3> QED BY <2>1, <2>2, <3>1
    <2> QED BY <2>3, <2>4
<1>3. ASSUME A = B, \A h \in A : f[h] = g[h]
      PROVE  TreeOf(A, f) = TreeOf(B, g)
    <2>1. Ascending(A) \in [1..Cardinality(A) -> A]
        BY AscendingIs DEF Content
    <2>2. LeavesOf(A, f) = LeavesOf(B, g)
        BY <1>3, <2>1 DEF LeavesOf
    <2> QED BY <2>2 DEF TreeOf
<1> QED BY <1>2, <1>3

-----------------------------------------------------------------------------
(* What each operation does to the keys and their views.                     *)

\* only keeps the leaves of the keys in S, each once.
OnlyAre(s, K, f) ==
    /\ s \in Seq(AnyLeaf)
    /\ \A i \in 1..Len(s) : s[i].h \in K /\ s[i].views = f[s[i].h]
    /\ \A i, j \in 1..Len(s) : s[i].h = s[j].h => i = j
    /\ {s[i].h : i \in DOMAIN s} = K

\* Of the tree of a content.
LEMMA OnlyIs ==
    ASSUME NEW K, NEW f, Content(K, f), NEW S
    PROVE  OnlyAre(only(TreeOf(K, f), S), K \cap S, f)
<1> DEFINE L == LeavesOf(K, f)
           I == {i \in DOMAIN L : L[i].h \in S}
           a == Ascending(I)
           n == Cardinality(I)
           s == [k \in 1..n |-> L[a[k]]]
<1>1. LeavesAre(L, K, f) /\ TreeOf(K, f).leaves = L
    BY TreeOfIs
<1> HIDE DEF L
<1>2. DOMAIN L = 1..Len(L) /\ Len(L) \in Nat
    BY <1>1 DEF LeavesAre
<1>3. I \subseteq Nat /\ IsFiniteSet(I)
    <2>1. I \in SUBSET (1..Len(L)) /\ IsFiniteSet(1..Len(L))
        BY <1>2, FS_Interval
    <2> HIDE DEF I
    <2>2. IsFiniteSet(I)
        BY <2>1, FS_Subset
    <2> QED BY <2>1, <2>2
<1>4. /\ n \in Nat /\ a \in [1..n -> I]
      /\ \A i, j \in 1..n : a[i] = a[j] => i = j
      /\ \A x \in I : \E i \in 1..n : a[i] = x
    <2> HIDE DEF I
    <2> QED BY <1>3, AscendingIs
<1>5. only(TreeOf(K, f), S) = [k \in DOMAIN a |-> L[a[k]]]
    BY <1>1 DEF only
<1> HIDE DEF a, n
<1>6. only(TreeOf(K, f), S) = s
    BY <1>4, <1>5
<1>7. \A k \in 1..n : a[k] \in 1..Len(L) /\ L[a[k]].h \in S
    BY <1>2, <1>4
<1>8. \A k \in 1..n : s[k] = L[a[k]] /\ s[k] \in AnyLeaf /\ s[k].h \in K \cap S /\ s[k].views = f[s[k].h]
    <2> SUFFICES ASSUME NEW k \in 1..n
                 PROVE  s[k] = L[a[k]] /\ s[k] \in AnyLeaf /\ s[k].h \in K \cap S /\ s[k].views = f[s[k].h]
        OBVIOUS
    <2>1. s[k] = L[a[k]]
        OBVIOUS
    <2>2. L[a[k]] \in AnyLeaf /\ L[a[k]].h \in K /\ L[a[k]].views = f[L[a[k]].h]
        BY <1>1, <1>7 DEF LeavesAre
    <2> QED BY <1>7, <2>1, <2>2
<1>9. s \in Seq(AnyLeaf) /\ Len(s) = n /\ DOMAIN s = 1..n
    <2>1. \A k \in 1..n : L[a[k]] \in AnyLeaf
        BY <1>8
    <2> QED BY <1>4, <2>1
<1>10. ASSUME NEW i \in 1..n, NEW j \in 1..n, s[i].h = s[j].h
       PROVE  i = j
    <2>1. L[a[i]].h = L[a[j]].h
        BY <1>8, <1>10
    <2>2. a[i] = a[j]
        BY <1>1, <1>7, <2>1 DEF LeavesAre
    <2> QED BY <1>4, <2>2
<1>11. ASSUME NEW h \in K \cap S
       PROVE  \E k \in 1..n : s[k].h = h
    <2>1. PICK i \in 1..Len(L) : L[i].h = h
        BY <1>1 DEF LeavesAre
    <2>2. i \in I
        BY <1>2, <2>1
    <2>3. PICK k \in 1..n : a[k] = i
        BY <1>4, <2>2
    <2>4. s[k].h = h
        BY <1>8, <2>1, <2>3
    <2> QED BY <2>4
<1> HIDE DEF s
<1>12. {s[i].h : i \in DOMAIN s} = K \cap S
    BY <1>8, <1>9, <1>11
<1> QED BY <1>6, <1>8, <1>9, <1>10, <1>12 DEF OnlyAre

\* A tree built of some of the leaves.
LEMMA BuildOnly ==
    ASSUME NEW K, NEW f, Content(K, f), NEW S
    PROVE  build(only(TreeOf(K, f), S)) = TreeOf(K \cap S, f) /\ Content(K \cap S, f)
<1> DEFINE s == only(TreeOf(K, f), S)
           T == K \cap S
<1>1. OnlyAre(s, T, f)
    BY OnlyIs
<1>2. \A h \in T : f[h] \in Lists
    BY DEF Content
<1> HIDE DEF s, T
<1>3. s \in Seq(AnyLeaf) /\ T = {s[i].h : i \in DOMAIN s}
    BY <1>1 DEF OnlyAre
<1>4. \A i \in 1..Len(s) : f[s[i].h] = Sorted(s[i].views)
    BY <1>1, <1>2 DEF OnlyAre, Lists
<1>5. build(s) = TreeOf(T, f) /\ Content(T, f)
    BY <1>3, <1>4, BuildFrom
<1> QED BY <1>5 DEF s, T

\* remove drops one key and keeps the views of the others.
LEMMA RemoveIs ==
    ASSUME NEW K, NEW f, Content(K, f), NEW h
    PROVE  remove(TreeOf(K, f), h) = TreeOf(K \ {h}, f) /\ Content(K \ {h}, f)
<1>1. KeysIn(TreeOf(K, f)) = K /\ K \cap (K \ {h}) = K \ {h}
    BY TreeOfIs
<1>2. build(only(TreeOf(K, f), K \ {h})) = TreeOf(K \cap (K \ {h}), f) /\ Content(K \cap (K \ {h}), f)
    BY BuildOnly
<1> QED BY <1>1, <1>2 DEF remove

\* The views after an insertion, and after a merge.
Inserted(K, f, leaf) ==
    [h \in K \cup {leaf.h} |-> IF h = leaf.h THEN Sorted(leaf.views) ELSE f[h]]

Merged(A, f, B, g) == [h \in A \cup B |-> IF h \in A THEN f[h] ELSE g[h]]

\* insert adds or replaces one key, with its views sorted.
LEMMA InsertIs ==
    ASSUME NEW K, NEW f, Content(K, f), NEW leaf \in AnyLeaf
    PROVE  /\ insert(TreeOf(K, f), leaf) = TreeOf(K \cup {leaf.h}, Inserted(K, f, leaf))
           /\ Content(K \cup {leaf.h}, Inserted(K, f, leaf))
<1> DEFINE o == only(TreeOf(K, f), K \ {leaf.h})
           T == K \cap (K \ {leaf.h})
           s == Append(o, leaf)
           g == Inserted(K, f, leaf)
           U == K \cup {leaf.h}
<1>1. OnlyAre(o, T, f)
    BY OnlyIs
<1>2. insert(TreeOf(K, f), leaf) = build(s)
    BY TreeOfIs DEF insert
<1>3. \A h \in T : h \in U /\ h # leaf.h /\ g[h] = f[h] /\ f[h] = Sorted(f[h])
    BY DEF Content, Lists, Inserted
<1>4. g[leaf.h] = Sorted(leaf.views)
    BY DEF Inserted
<1> HIDE DEF o, g
<1>5. /\ s \in Seq(AnyLeaf) /\ Len(s) = Len(o) + 1 /\ s[Len(s)] = leaf /\ Len(o) \in Nat
      /\ DOMAIN s = 1..Len(s) /\ DOMAIN o = 1..Len(o)
      /\ \A i \in 1..Len(o) : s[i] = o[i]
    BY <1>1 DEF OnlyAre
<1> HIDE DEF s, T
<1>6. ASSUME NEW i \in 1..Len(s)
      PROVE  g[s[i].h] = Sorted(s[i].views)
    <2>1. CASE i = Len(s)
        BY <1>4, <1>5, <2>1
    <2>2. CASE i # Len(s)
        <3>1. i \in 1..Len(o) /\ s[i] = o[i]
            BY <1>5, <2>2
        <3>2. o[i].h \in T /\ o[i].views = f[o[i].h]
            BY <1>1, <3>1 DEF OnlyAre
        <3> QED BY <1>3, <3>1, <3>2
    <2> QED BY <2>1, <2>2
<1>7. {s[i].h : i \in DOMAIN s} = U
    <2>1. {o[i].h : i \in DOMAIN o} = T /\ U = T \cup {leaf.h}
        BY <1>1 DEF OnlyAre, T
    <2>2. ASSUME NEW i \in 1..Len(s)
          PROVE  s[i].h \in U
        <3>1. i = Len(s) \/ i \in 1..Len(o)
            BY <1>5
        <3> QED BY <1>5, <2>1, <3>1
    <2>3. ASSUME NEW h \in U
          PROVE  \E i \in 1..Len(s) : s[i].h = h
        <3>1. CASE h = leaf.h
            <4>1. Len(s) \in 1..Len(s)
                BY <1>5
            <4> QED BY <1>5, <3>1, <4>1
        <3>2. CASE h \in T
            <4>1. PICK i \in 1..Len(o) : o[i].h = h
                BY <1>5, <2>1, <3>2
            <4>2. i \in 1..Len(s)
                BY <1>5
            <4> QED BY <1>5, <4>1, <4>2
        <3> QED BY <2>1, <3>1, <3>2
    <2> HIDE DEF U
    <2> QED BY <1>5, <2>2, <2>3
<1> HIDE DEF U
<1>8. build(s) = TreeOf(U, g) /\ Content(U, g)
    BY <1>5, <1>6, <1>7, BuildFrom
<1> QED BY <1>2, <1>8 DEF U, g

\* merge joins the keys; on those of both the views of the left tree are kept.
LEMMA MergeIs ==
    ASSUME NEW A, NEW f, Content(A, f), NEW B, NEW g, Content(B, g)
    PROVE  /\ merge(TreeOf(A, f), TreeOf(B, g)) = TreeOf(A \cup B, Merged(A, f, B, g))
           /\ Content(A \cup B, Merged(A, f, B, g))
<1> DEFINE a == LeavesOf(A, f)
           b == LeavesOf(B, g)
           s == a \o b
           m == Merged(A, f, B, g)
           U == A \cup B
<1>1. LeavesAre(a, A, f) /\ LeavesAre(b, B, g)
    BY TreeOfIs
<1>2. merge(TreeOf(A, f), TreeOf(B, g)) = build(s)
    BY TreeOfIs DEF merge
<1>3. /\ \A h \in A : m[h] = f[h] /\ f[h] = Sorted(f[h])
      /\ \A h \in B : g[h] = Sorted(g[h]) /\ (h \notin A => m[h] = g[h])
    BY DEF Content, Lists, Merged
<1> HIDE DEF a, b, m
<1>4. /\ s \in Seq(AnyLeaf) /\ Len(s) = Len(a) + Len(b) /\ Len(a) \in Nat /\ Len(b) \in Nat
      /\ DOMAIN s = 1..Len(s)
      /\ \A i \in 1..Len(a) : s[i] = a[i]
      /\ \A i \in 1..Len(b) : s[Len(a) + i] = b[i]
    <2>1. a \in Seq(AnyLeaf) /\ b \in Seq(AnyLeaf)
        BY <1>1 DEF LeavesAre
    <2>2. DOMAIN s = 1..Len(s) /\ Len(a) \in Nat /\ Len(b) \in Nat
        BY <2>1
    <2> QED BY <2>1, <2>2, ConcatFacts
<1> HIDE DEF s
<1>5. ASSUME NEW i \in 1..Len(s), i \notin 1..Len(a)
      PROVE  i - Len(a) \in 1..Len(b) /\ s[i] = b[i - Len(a)] /\ Len(a) + (i - Len(a)) = i
    <2>1. i - Len(a) \in 1..Len(b) /\ Len(a) + (i - Len(a)) = i
        BY <1>4, <1>5
    <2> QED BY <1>4, <2>1
<1>6. ASSUME NEW i \in 1..Len(s), \A j \in 1..i - 1 : s[j].h # s[i].h
      PROVE  m[s[i].h] = Sorted(s[i].views)
    <2>1. CASE i \in 1..Len(a)
        <3>1. s[i] = a[i] /\ a[i].h \in A /\ a[i].views = f[a[i].h]
            BY <1>1, <1>4, <2>1 DEF LeavesAre
        <3> QED BY <1>3, <3>1
    <2>2. CASE i \notin 1..Len(a)
        <3> DEFINE k == i - Len(a)
        <3>1. k \in 1..Len(b) /\ s[i] = b[k]
            BY <1>5, <2>2
        <3> HIDE DEF k
        <3>2. b[k].h \in B /\ b[k].views = g[b[k].h]
            BY <1>1, <3>1 DEF LeavesAre
        <3>3. b[k].h \notin A
            <4> SUFFICES ASSUME b[k].h \in A PROVE FALSE
                OBVIOUS
            <4>1. PICK j \in 1..Len(a) : a[j].h = b[k].h
                BY <1>1 DEF LeavesAre
            <4>2. j \in 1..i - 1
                BY <1>4, <2>2
            <4>3. s[j].h = s[i].h
                BY <1>4, <3>1, <4>1
            <4> QED BY <1>6, <4>2, <4>3
        <3> QED BY <1>3, <3>1, <3>2, <3>3
    <2> QED BY <2>1, <2>2
<1>7. {s[i].h : i \in DOMAIN s} = U
    <2>1. ASSUME NEW i \in 1..Len(s)
          PROVE  s[i].h \in U
        <3>1. CASE i \in 1..Len(a)
            BY <1>1, <1>4, <3>1 DEF LeavesAre
        <3>2. CASE i \notin 1..Len(a)
            <4>1. i - Len(a) \in 1..Len(b) /\ s[i] = b[i - Len(a)]
                BY <1>5, <3>2
            <4>2. b[i - Len(a)].h \in B
                BY <1>1, <4>1 DEF LeavesAre
            <4> QED BY <4>1, <4>2
        <3> QED BY <3>1, <3>2
    <2>2. ASSUME NEW h \in U
          PROVE  \E i \in 1..Len(s) : s[i].h = h
        <3>1. CASE h \in A
            <4>1. PICK i \in 1..Len(a) : a[i].h = h
                BY <1>1, <3>1 DEF LeavesAre
            <4>2. i \in 1..Len(s) /\ s[i] = a[i]
                BY <1>4
            <4> QED BY <4>1, <4>2
        <3>2. CASE h \in B
            <4>1. PICK i \in 1..Len(b) : b[i].h = h
                BY <1>1, <3>2 DEF LeavesAre
            <4>2. Len(a) + i \in 1..Len(s) /\ s[Len(a) + i] = b[i]
                BY <1>4
            <4> QED BY <4>1, <4>2
        <3> QED BY <3>1, <3>2
    <2> HIDE DEF U
    <2> QED BY <1>4, <2>1, <2>2
<1> HIDE DEF U
<1>8. build(s) = TreeOf(U, m) /\ Content(U, m)
    BY <1>4, <1>6, <1>7, BuildFrom, ZenonT(60)
<1> QED BY <1>2, <1>8 DEF U, m

-----------------------------------------------------------------------------
(* A diff is replayed key by key, in any order.                              *)

RemovedStep(t, g, s) == IF s = {} THEN t ELSE remove(g[s \ {SomeOf(s)}], SomeOf(s))

RemovedAll(t, R) == CHOOSE g : g = [s \in SUBSET R |-> RemovedStep(t, g, s)]

InsertOf(u, h) == [h |-> h, views |-> CHOOSE v \in ViewsOf(u, h) : TRUE]

InsertedStep(t, u, g, s) == IF s = {} THEN t ELSE insert(g[s \ {SomeOf(s)}], InsertOf(u, SomeOf(s)))

InsertedAll(t, u, D) == CHOOSE g : g = [s \in SUBSET D |-> InsertedStep(t, u, g, s)]

\* Replayed removes first, then inserts, in the order of SomeOf.
LEMMA ReplayedChosen ==
    ASSUME NEW t, NEW u, NEW d
    PROVE  Replayed(t, u, d) = InsertedAll(RemovedAll(t, d.removed)[d.removed], u, d.added)[d.added]
BY DEF Replayed, FoldSet, MapThenFoldSet, InsertedAll, InsertedStep, InsertOf, RemovedAll, RemovedStep, SomeOf

\* Whatever that order, the keys removed are those of the set.
LEMMA RemovedAllIs ==
    ASSUME NEW K, NEW f, Content(K, f), NEW R, IsFiniteSet(R)
    PROVE  RemovedAll(TreeOf(K, f), R)[R] = TreeOf(K \ R, f) /\ Content(K \ R, f)
<1> DEFINE t == TreeOf(K, f)
           g == [s \in SUBSET R |-> TreeOf(K \ s, f)]
           r == RemovedAll(t, R)
           G == {s \in SUBSET R : r[s] = TreeOf(K \ s, f)}
<1>1. ASSUME NEW s
      PROVE  Content(K \ s, f)
    <2>1. K \ s \in SUBSET K
        OBVIOUS
    <2> QED BY <2>1, FS_Subset DEF Content
<1>2. ASSUME NEW s \in SUBSET R, s # {}
      PROVE  /\ SomeOf(s) \in s /\ s \ {SomeOf(s)} \in SUBSET R
             /\ remove(TreeOf(K \ (s \ {SomeOf(s)}), f), SomeOf(s)) = TreeOf(K \ s, f)
    <2> DEFINE x == SomeOf(s)
    <2>1. x \in s
        BY <1>2 DEF SomeOf
    <2> HIDE DEF x
    <2>2. remove(TreeOf(K \ (s \ {x}), f), x) = TreeOf((K \ (s \ {x})) \ {x}, f)
        BY <1>1, RemoveIs
    <2>3. (K \ (s \ {x})) \ {x} = K \ s
        BY <2>1
    <2> QED BY <2>1, <2>2, <2>3 DEF x
<1>3. ASSUME NEW s \in SUBSET R
      PROVE  g[s] = RemovedStep(t, g, s)
    <2>1. CASE s = {}
        <3>1. K \ s = K
            BY <2>1
        <3> QED BY <2>1, <3>1 DEF RemovedStep
    <2>2. CASE s # {}
        BY <1>2, <2>2 DEF RemovedStep
    <2> QED BY <2>1, <2>2
<1>4. g = [s \in SUBSET R |-> RemovedStep(t, g, s)]
    BY <1>3
<1>5. r = [s \in SUBSET R |-> RemovedStep(t, r, s)]
    BY <1>4 DEF RemovedAll
<1> HIDE DEF r
<1>6. {} \in G
    <2>1. r[{}] = t /\ K \ {} = K
        BY <1>5 DEF RemovedStep
    <2> QED BY <2>1
<1>7. ASSUME NEW s \in SUBSET R, s # {}, s \ {SomeOf(s)} \in G
      PROVE  s \in G
    <2>1. r[s] = remove(r[s \ {SomeOf(s)}], SomeOf(s))
        BY <1>5, <1>7 DEF RemovedStep
    <2> QED BY <1>2, <1>7, <2>1
<1>8. R \in G
    <2> HIDE DEF G
    <2> QED BY <1>6, <1>7, SubsetInduction
<1> QED BY <1>1, <1>8 DEF r, t

\* And those inserted come with the views of the other tree.
LEMMA InsertedAllIs ==
    ASSUME NEW K, NEW f, Content(K, f), NEW B, NEW g, Content(B, g),
           NEW D, D \subseteq B, K \cap D = {}
    PROVE  /\ InsertedAll(TreeOf(K, f), TreeOf(B, g), D)[D] = TreeOf(K \cup D, Merged(K, f, D, g))
           /\ Content(K \cup D, Merged(K, f, D, g))
<1> DEFINE t == TreeOf(K, f)
           u == TreeOf(B, g)
           tr(s) == TreeOf(K \cup s, Merged(K, f, s, g))
           c == [s \in SUBSET D |-> tr(s)]
           r == InsertedAll(t, u, D)
           G == {s \in SUBSET D : r[s] = tr(s)}
<1>0. IsFiniteSet(D) /\ Content(D, g)
    <2>1. D \in SUBSET B
        OBVIOUS
    <2> QED BY <2>1, FS_Subset DEF Content
<1>1. ASSUME NEW s \in SUBSET D
      PROVE  Content(K \cup s, Merged(K, f, s, g)) /\ Content(s, g)
    <2>1. Content(s, g)
        BY <1>0, FS_Subset DEF Content
    <2> QED BY <2>1, MergeIs
<1>2. ASSUME NEW h \in B
      PROVE  InsertOf(u, h) = [h |-> h, views |-> g[h]] /\ InsertOf(u, h) \in AnyLeaf
    <2>1. ViewsOf(u, h) = {g[h]}
        BY TreeOfIs
    <2>2. (CHOOSE v \in {g[h]} : TRUE) = g[h]
        OBVIOUS
    <2>3. h \in Nat /\ g[h] \in Seq(Nat)
        BY DEF Content, Lists
    <2> QED BY <2>1, <2>2, <2>3 DEF InsertOf, AnyLeaf
<1>3. ASSUME NEW s \in SUBSET D, s # {}
      PROVE  /\ SomeOf(s) \in s /\ s \ {SomeOf(s)} \in SUBSET D
             /\ insert(tr(s \ {SomeOf(s)}), InsertOf(u, SomeOf(s))) = tr(s)
    <2> DEFINE x == SomeOf(s)
               v == s \ {x}
               m == Merged(K, f, v, g)
               l == [h |-> x, views |-> g[x]]
    <2>1. x \in s
        BY <1>3 DEF SomeOf
    <2>2. v \in SUBSET D /\ s = v \cup {x} /\ x \notin v /\ x \in B /\ x \notin K
        BY <2>1
    <2> HIDE DEF x, v
    <2>3. Content(K \cup v, m)
        BY <1>1, <2>2
    <2>4. InsertOf(u, x) = l /\ l \in AnyLeaf /\ l.h = x /\ l.views = g[x]
        BY <1>2, <2>2
    <2> HIDE DEF l, m
    <2>5. /\ insert(TreeOf(K \cup v, m), l) = TreeOf((K \cup v) \cup {x}, Inserted(K \cup v, m, l))
          /\ Content((K \cup v) \cup {x}, Inserted(K \cup v, m, l))
        <3>1. l.h = x /\ l \in AnyLeaf
            BY <2>4
        <3>2. /\ insert(TreeOf(K \cup v, m), l) = TreeOf((K \cup v) \cup {l.h}, Inserted(K \cup v, m, l))
              /\ Content((K \cup v) \cup {l.h}, Inserted(K \cup v, m, l))
            BY <2>3, <3>1, InsertIs
        <3> QED BY <3>1, <3>2
    <2>6. ASSUME NEW h \in (K \cup v) \cup {x}
          PROVE  Inserted(K \cup v, m, l)[h] = Merged(K, f, s, g)[h]
        <3>1. Merged(K, f, s, g)[h] = IF h \in K THEN f[h] ELSE g[h]
            BY <2>2 DEF Merged
        <3>2. Inserted(K \cup v, m, l)[h] = IF h = x THEN Sorted(g[x]) ELSE m[h]
            BY <2>4 DEF Inserted
        <3>3. CASE h = x
            <4>1. Sorted(g[x]) = g[x]
                BY <2>2 DEF Content, Lists
            <4> QED BY <2>2, <3>1, <3>2, <3>3, <4>1
        <3>4. CASE h # x
            <4>1. m[h] = IF h \in K THEN f[h] ELSE g[h]
                BY <3>4 DEF Merged, m
            <4> QED BY <3>1, <3>2, <3>4, <4>1
        <3> QED BY <3>3, <3>4
    <2>7. (K \cup v) \cup {x} = K \cup s
        BY <2>2
    <2>8. TreeOf(K \cup s, Inserted(K \cup v, m, l)) = TreeOf(K \cup s, Merged(K, f, s, g))
        <3> DEFINE W == (K \cup v) \cup {x}
                   p == Inserted(K \cup v, m, l)
                   q == Merged(K, f, s, g)
        <3>1. Content(W, p) /\ Content(W, q) /\ \A h \in W : p[h] = q[h]
            BY <1>1, <2>5, <2>6, <2>7
        <3> HIDE DEF W, p, q
        <3>2. TreeOf(W, p) = TreeOf(W, q)
            BY <3>1, TreeOfRoot
        <3> QED BY <2>7, <3>2 DEF W, p, q
    <2>9. insert(tr(v), InsertOf(u, x)) = tr(s)
        BY <2>4, <2>5, <2>7, <2>8 DEF m
    <2> QED BY <2>1, <2>2, <2>9 DEF x, v
<1>4. tr({}) = t
    <2>1. K \cup {} = K /\ \A h \in K : Merged(K, f, {}, g)[h] = f[h]
        BY DEF Merged
    <2>2. Content(K \cup {}, Merged(K, f, {}, g))
        BY <1>1
    <2> QED BY <2>1, <2>2, TreeOfRoot
<1> HIDE DEF t, u, tr
<1>5. ASSUME NEW s \in SUBSET D
      PROVE  c[s] = InsertedStep(t, u, c, s)
    <2>1. CASE s = {}
        BY <1>4, <2>1 DEF InsertedStep
    <2>2. CASE s # {}
        BY <1>3, <2>2 DEF InsertedStep
    <2> QED BY <2>1, <2>2
<1>6. c = [s \in SUBSET D |-> InsertedStep(t, u, c, s)]
    BY <1>5
<1>7. r = [s \in SUBSET D |-> InsertedStep(t, u, r, s)]
    BY <1>6 DEF InsertedAll
<1> HIDE DEF r
<1>8. {} \in G
    BY <1>4, <1>7 DEF InsertedStep
<1>9. ASSUME NEW s \in SUBSET D, s # {}, s \ {SomeOf(s)} \in G
      PROVE  s \in G
    <2>1. r[s] = insert(r[s \ {SomeOf(s)}], InsertOf(u, SomeOf(s)))
        BY <1>7, <1>9 DEF InsertedStep
    <2> QED BY <1>3, <1>9, <2>1
<1>10. D \in G
    <2> HIDE DEF G
    <2> QED BY <1>0, <1>8, <1>9, SubsetInduction
<1>11. D \in SUBSET D
    OBVIOUS
<1> QED BY <1>1, <1>10, <1>11 DEF r, t, u, tr

\* What a diff from one tree to another leads to.
LEMMA ReplayedIs ==
    ASSUME NEW A, NEW f, Content(A, f), NEW B, NEW g, Content(B, g),
           NEW d, d.removed = A \ B, d.added = B \ A
    PROVE  /\ Replayed(TreeOf(A, f), TreeOf(B, g), d)
                 = TreeOf((A \ (A \ B)) \cup (B \ A), Merged(A \ (A \ B), f, B \ A, g))
           /\ Content((A \ (A \ B)) \cup (B \ A), Merged(A \ (A \ B), f, B \ A, g))
<1> DEFINE R == A \ B
           K == A \ R
           D == B \ A
           t == TreeOf(A, f)
           u == TreeOf(B, g)
<1>1. IsFiniteSet(R) /\ R \subseteq A
    <2>1. R \in SUBSET A
        OBVIOUS
    <2> QED BY <2>1, FS_Subset DEF Content
<1>2. D \subseteq B /\ K \cap D = {}
    OBVIOUS
<1> HIDE DEF R
<1>3. RemovedAll(t, R)[R] = TreeOf(K, f) /\ Content(K, f)
    BY <1>1, RemovedAllIs
<1> HIDE DEF K, D
<1>4. /\ InsertedAll(TreeOf(K, f), u, D)[D] = TreeOf(K \cup D, Merged(K, f, D, g))
      /\ Content(K \cup D, Merged(K, f, D, g))
    BY <1>2, <1>3, InsertedAllIs
<1>5. Replayed(t, u, d) = InsertedAll(RemovedAll(t, R)[R], u, D)[D]
    <2>1. d.removed = R /\ d.added = D
        BY DEF R, D
    <2> QED BY <2>1, ReplayedChosen
<1>6. Replayed(t, u, d) = TreeOf(K \cup D, Merged(K, f, D, g))
    BY <1>3, <1>4, <1>5
<1> QED BY <1>4, <1>6 DEF K, D, R, t, u

\* The root of an atom tree tells the atoms.
LEMMA AtomRootIs ==
    ASSUME NEW A, A \subseteq Nat, IsFiniteSet(A), NEW B, B \subseteq Nat, IsFiniteSet(B),
           AtomRoot(A) = AtomRoot(B)
    PROVE  A = B
<1> DEFINE hashes(K) == [i \in DOMAIN Ascending(K) |-> <<0, Ascending(K)[i]>>]
<1>1. ASSUME NEW K, K \subseteq Nat, IsFiniteSet(K)
      PROVE  /\ AtomRoot(K) = rooted(hashes(K))
             /\ Digests(hashes(K))
             /\ {e[2] : e \in {hashes(K)[i] : i \in DOMAIN hashes(K)}} = K
    <2> DEFINE a == Ascending(K)
               n == Cardinality(K)
               d == hashes(K)
    <2>1. /\ n \in Nat /\ a \in [1..n -> K]
          /\ \A i, j \in 1..n : a[i] = a[j] => i = j
          /\ \A x \in K : \E i \in 1..n : a[i] = x
        BY <1>1, AscendingIs
    <2>2. AtomRoot(K) = rooted(d)
        BY DEF AtomRoot
    <2>3. d = [i \in DOMAIN a |-> <<0, a[i]>>]
        OBVIOUS
    <2> HIDE DEF a, n, d
    <2>4. d = [i \in 1..n |-> <<0, a[i]>>]
        BY <2>1, <2>3
    <2>5. Len(d) = n /\ DOMAIN d = 1..n /\ d = [i \in 1..Len(d) |-> d[i]]
        BY <2>1, <2>4
    <2>6. \A i \in 1..n : d[i] = <<0, a[i]>>
        BY <2>4
    <2>7. \A i \in 1..n : d[i][1] = 0 /\ d[i][2] = a[i] /\ d[i] # <<"empty">>
        <3>1. ASSUME NEW x
              PROVE  <<0, x>> # <<"empty">>
            <4>1. Len(<<0, x>>) = 2 /\ Len(<<"empty">>) = 1
                OBVIOUS
            <4> QED BY <4>1
        <3> QED BY <2>6, <3>1
    <2>8. Digests(d)
        <3>1. \A i, j \in 1..Len(d) : d[i] = d[j] => i = j
            BY <2>1, <2>5, <2>7
        <3> QED BY <2>1, <2>5, <2>7, <3>1 DEF Digests, Listing
    <2>9. {e[2] : e \in {d[i] : i \in DOMAIN d}} = K
        BY <2>1, <2>5, <2>7
    <2> QED BY <2>2, <2>8, <2>9 DEF d
<1> HIDE DEF hashes
<1>2. hashes(A) = hashes(B)
    BY <1>1, RootedInjective
<1>3. /\ {e[2] : e \in {hashes(A)[i] : i \in DOMAIN hashes(A)}} = A
      /\ {e[2] : e \in {hashes(B)[i] : i \in DOMAIN hashes(B)}} = B
    BY <1>1
<1> QED BY <1>2, <1>3

-----------------------------------------------------------------------------
(* The invariant of the trees: they are what build makes of their leaves.    *)

Canonical(t) == t.leaves \in Seq(AnyLeaf) /\ t = build(t.leaves)

TreesInv == Canonical(tree) /\ Canonical(other)

\* Such a tree is the tree of some content, and of its leaves only.
LEMMA CanonicalIs ==
    ASSUME NEW t
    PROVE  Canonical(t) <=> \E K, f : Content(K, f) /\ t = TreeOf(K, f)
<1>1. ASSUME Canonical(t)
      PROVE  \E K, f : Content(K, f) /\ t = TreeOf(K, f)
    <2> DEFINE s == t.leaves
               K == {s[i].h : i \in DOMAIN s}
               at(h) == {i \in DOMAIN s : s[i].h = h}
               f == [h \in K |-> Sorted(s[Min(at(h))].views)]
    <2>1. s \in Seq(AnyLeaf) /\ t = build(s)
        BY <1>1 DEF Canonical
    <2>2. ASSUME NEW i \in 1..Len(s), \A j \in 1..i - 1 : s[j].h # s[i].h
          PROVE  f[s[i].h] = Sorted(s[i].views)
        <3>1. DOMAIN s = 1..Len(s) /\ Len(s) \in Nat
            BY <2>1
        <3> DEFINE h == s[i].h
        <3>2. h \in K
            BY <3>1
        <3> HIDE DEF s
        <3>3. i \in at(h) /\ at(h) \subseteq Nat /\ at(h) \subseteq 1..Len(s)
            BY <3>1
        <3>4. Min(at(h)) \in at(h) /\ Min(at(h)) <= i
            <4> HIDE DEF at
            <4> QED BY <3>3, MinBounds
        <3>5. Min(at(h)) = i
            <4> DEFINE m == Min(at(h))
            <4>1. m \in 1..Len(s) /\ s[m].h = h /\ m <= i
                BY <3>3, <3>4
            <4> HIDE DEF m
            <4>2. ~(m \in 1..i - 1)
                BY <2>2, <4>1
            <4>3. m = i
                BY <4>1, <4>2
            <4> QED BY <4>3 DEF m
        <3>6. f[h] = Sorted(s[Min(at(h))].views)
            BY <3>2
        <3> QED BY <3>5, <3>6
    <2> HIDE DEF f, s
    <2>3. build(s) = TreeOf(K, f) /\ Content(K, f)
        BY <2>1, <2>2, BuildFrom
    <2> QED BY <2>1, <2>3
<1>2. ASSUME NEW K, NEW f, Content(K, f), t = TreeOf(K, f)
      PROVE  Canonical(t)
    <2> DEFINE L == LeavesOf(K, f)
    <2>1. t.leaves = L /\ LeavesAre(L, K, f)
        BY <1>2, TreeOfIs
    <2> HIDE DEF L
    <2>2. L \in Seq(AnyLeaf) /\ DOMAIN L = 1..Len(L)
        BY <2>1 DEF LeavesAre
    <2>3. K = {L[i].h : i \in DOMAIN L}
        BY <2>1, <2>2 DEF LeavesAre
    <2>4. \A i \in 1..Len(L) : f[L[i].h] = Sorted(L[i].views)
        <3>1. \A h \in K : Sorted(f[h]) = f[h]
            BY <1>2 DEF Content, Lists
        <3>2. \A i \in 1..Len(L) : L[i].h \in K /\ L[i].views = f[L[i].h]
            BY <2>1 DEF LeavesAre
        <3> QED BY <3>1, <3>2
    <2>5. build(L) = TreeOf(K, f)
        BY <2>2, <2>3, <2>4, BuildFrom
    <2> QED BY <1>2, <2>1, <2>2, <2>5 DEF Canonical
<1> QED BY <1>1, <1>2

\* Both trees start as what build makes of no leaf.
LEMMA TreesInit == TreeInit => TreesInv
<1>1. build(<<>>) = TreeOf({}, <<>>) /\ Content({}, <<>>)
    <2> DEFINE s == <<>>
    <2>1. s \in Seq(AnyLeaf) /\ Len(s) = 0 /\ {} = {s[i].h : i \in DOMAIN s}
        OBVIOUS
    <2>2. \A i \in 1..Len(s) : FALSE
        BY <2>1
    <2> HIDE DEF s
    <2>3. build(s) = TreeOf({}, <<>>) /\ Content({}, <<>>)
        BY <2>1, <2>2, BuildFrom
    <2> QED BY <2>3 DEF s
<1> QED BY <1>1, CanonicalIs DEF TreeInit, TreesInv

\* In one direction, to be cited with a tree at hand.
LEMMA TreeOfCanonical ==
    ASSUME NEW t, NEW K, NEW f, t = TreeOf(K, f), Content(K, f)
    PROVE  Canonical(t)
BY CanonicalIs

\* Every operation ends in build, so that no step leaves the invariant.
LEMMA TreesStep == TreesInv /\ [TreeNext]_tree_vars => TreesInv'
<1> SUFFICES ASSUME TreesInv, [TreeNext]_tree_vars PROVE TreesInv'
    OBVIOUS
<1>1. PICK A, f : Content(A, f) /\ tree = TreeOf(A, f)
    BY CanonicalIs DEF TreesInv
<1>2. PICK B, g : Content(B, g) /\ other = TreeOf(B, g)
    BY CanonicalIs DEF TreesInv
<1>3. Canonical(tree) /\ Canonical(other)
    BY DEF TreesInv
<1>4. SUFFICES Canonical(tree') /\ Canonical(other')
    BY DEF TreesInv, Canonical
<1>5. CASE Swap
    BY <1>3, <1>5 DEF Swap
<1>6. CASE Merge
    <2>1. tree' = merge(TreeOf(A, f), TreeOf(B, g)) /\ other' = other
        BY <1>1, <1>2, <1>6 DEF Merge
    <2>2. Canonical(tree')
        <3>1. tree' = TreeOf(A \cup B, Merged(A, f, B, g)) /\ Content(A \cup B, Merged(A, f, B, g))
            BY <1>1, <1>2, <2>1, MergeIs
        <3> QED BY <3>1, TreeOfCanonical
    <2> QED BY <1>3, <2>1, <2>2
<1>7. CASE Meet
    <2>1. tree' = build(only(TreeOf(A, f), KeysIn(other))) /\ other' = other
        BY <1>1, <1>7 DEF Meet, intersection
    <2>2. Canonical(tree')
        <3>1. tree' = TreeOf(A \cap KeysIn(other), f) /\ Content(A \cap KeysIn(other), f)
            BY <1>1, <2>1, BuildOnly
        <3> QED BY <3>1, TreeOfCanonical
    <2> QED BY <1>3, <2>1, <2>2
<1>8. CASE Minus
    <2>1. tree' = build(only(TreeOf(A, f), KeysIn(tree) \ KeysIn(other))) /\ other' = other
        BY <1>1, <1>8 DEF Minus, difference
    <2>2. Canonical(tree')
        <3>1. tree' = TreeOf(A \cap (KeysIn(tree) \ KeysIn(other)), f) /\ Content(A \cap (KeysIn(tree) \ KeysIn(other)), f)
            BY <1>1, <2>1, BuildOnly
        <3> QED BY <3>1, TreeOfCanonical
    <2> QED BY <1>3, <2>1, <2>2
<1>9. ASSUME NEW leaf \in Leaf, InsertLeaf(leaf)
      PROVE  Canonical(tree') /\ Canonical(other')
    <2>1. tree' = insert(TreeOf(A, f), leaf) /\ other' = other
        BY <1>1, <1>9 DEF InsertLeaf
    <2>2. leaf \in AnyLeaf
        BY ContextTreeAssumption DEF Leaf, AnyLeaf
    <2>3. Canonical(tree')
        <3>1. tree' = TreeOf(A \cup {leaf.h}, Inserted(A, f, leaf)) /\ Content(A \cup {leaf.h}, Inserted(A, f, leaf))
            BY <1>1, <2>1, <2>2, InsertIs
        <3> QED BY <3>1, TreeOfCanonical
    <2> QED BY <1>3, <2>1, <2>3
<1>10. ASSUME NEW h \in Hs, RemoveLeaf(h)
       PROVE  Canonical(tree') /\ Canonical(other')
    <2>1. tree' = remove(TreeOf(A, f), h) /\ other' = other
        BY <1>1, <1>10 DEF RemoveLeaf
    <2>2. Canonical(tree')
        <3>1. tree' = TreeOf(A \ {h}, f) /\ Content(A \ {h}, f)
            BY <1>1, <2>1, RemoveIs
        <3> QED BY <3>1, TreeOfCanonical
    <2> QED BY <1>3, <2>1, <2>2
<1>11. CASE UNCHANGED tree_vars
    BY <1>3, <1>11 DEF tree_vars
<1> QED BY <1>5, <1>6, <1>7, <1>8, <1>9, <1>10, <1>11 DEF TreeNext

\* The laws of two trees, for their keys and views.
LEMMA TreesSuffice == TreesInv => TreeIdentity
<1> SUFFICES ASSUME TreesInv PROVE TreeIdentity
    OBVIOUS
<1>1. PICK A, f : Content(A, f) /\ tree = TreeOf(A, f)
    BY CanonicalIs DEF TreesInv
<1>2. PICK B, g : Content(B, g) /\ other = TreeOf(B, g)
    BY CanonicalIs DEF TreesInv
<1> DEFINE agree == \A h \in A \cap B : f[h] = g[h]
<1>3. KeysIn(tree) = A /\ KeysIn(other) = B
    BY <1>1, <1>2, TreeOfIs
<1>4. (\A h \in KeysIn(tree) \cap KeysIn(other) : ViewsOf(tree, h) = ViewsOf(other, h)) <=> agree
    <2>1. ASSUME NEW h \in A \cap B
          PROVE  ViewsOf(tree, h) = ViewsOf(other, h) <=> f[h] = g[h]
        <3>1. ViewsOf(tree, h) = {f[h]} /\ ViewsOf(other, h) = {g[h]}
            BY <1>1, <1>2, TreeOfIs
        <3>2. {f[h]} = {g[h]} <=> f[h] = g[h]
            OBVIOUS
        <3> QED BY <3>1, <3>2
    <2> QED BY <1>3, <2>1
<1>5. \A K, c : Content(K, c) /\ (\A h \in A : c[h] = f[h]) /\ K = A => TreeOf(K, c) = tree
    BY <1>1, TreeOfRoot
<1>6. tree.root = other.root <=> (A = B /\ agree)
    <2>1. tree.root = other.root <=> (A = B /\ \A h \in A : f[h] = g[h])
        BY <1>1, <1>2, TreeOfRoot
    <2> QED BY <2>1
<1>7. AtomRoot(A) = AtomRoot(B) <=> A = B
    BY <1>1, <1>2, AtomRootIs DEF Content
<1>8. Len(tree.leaves) = Cardinality(A)
    BY <1>1, TreeOfIs DEF LeavesAre
<1>9. merge(tree, tree) = tree
    <2>1. merge(tree, tree) = TreeOf(A \cup A, Merged(A, f, A, f)) /\ Content(A \cup A, Merged(A, f, A, f))
        BY <1>1, MergeIs
    <2>2. A \cup A = A /\ \A h \in A : Merged(A, f, A, f)[h] = f[h]
        BY DEF Merged
    <2> QED BY <1>5, <2>1, <2>2
<1>10. merge(tree, other) = TreeOf(A \cup B, Merged(A, f, B, g)) /\ Content(A \cup B, Merged(A, f, B, g))
    BY <1>1, <1>2, MergeIs
<1>11. intersection(tree, merge(tree, other)) = tree
    <2>1. KeysIn(merge(tree, other)) = A \cup B
        BY <1>10, TreeOfIs
    <2>2. /\ build(only(tree, A \cup B)) = TreeOf(A \cap (A \cup B), f)
          /\ A \cap (A \cup B) = A
        BY <1>1, BuildOnly
    <2> QED BY <1>1, <2>1, <2>2 DEF intersection
<1>12. merge(tree, intersection(other, tree)) = tree
    <2>1. intersection(other, tree) = TreeOf(B \cap A, g) /\ Content(B \cap A, g)
        BY <1>2, <1>3, BuildOnly DEF intersection
    <2> DEFINE C == B \cap A
    <2>2. A \cup C = A /\ \A h \in A : Merged(A, f, C, g)[h] = f[h]
        BY DEF Merged
    <2> HIDE DEF C
    <2>3. /\ merge(tree, TreeOf(C, g)) = TreeOf(A \cup C, Merged(A, f, C, g))
          /\ Content(A \cup C, Merged(A, f, C, g))
        BY <1>1, <2>1, MergeIs DEF C
    <2>4. merge(tree, TreeOf(C, g)) = tree
        BY <1>5, <2>2, <2>3
    <2> QED BY <2>1, <2>4 DEF C
<1>13. merge(difference(tree, other), intersection(tree, other)) = tree
    <2> DEFINE C == A \cap (A \ B)
               D == A \cap B
    <2>1. difference(tree, other) = TreeOf(C, f) /\ Content(C, f)
        BY <1>1, <1>3, BuildOnly DEF difference
    <2>2. intersection(tree, other) = TreeOf(D, f) /\ Content(D, f)
        BY <1>1, <1>3, BuildOnly DEF intersection
    <2>3. C \cup D = A /\ \A h \in A : Merged(C, f, D, f)[h] = f[h]
        BY DEF Merged
    <2> HIDE DEF C, D
    <2>4. /\ merge(TreeOf(C, f), TreeOf(D, f)) = TreeOf(C \cup D, Merged(C, f, D, f))
          /\ Content(C \cup D, Merged(C, f, D, f))
        BY <2>1, <2>2, MergeIs
    <2> QED BY <1>5, <2>1, <2>2, <2>3, <2>4
<1>14. merge(tree, other).root = merge(other, tree).root <=> agree
    <2> DEFINE m == Merged(A, f, B, g)
               k == Merged(B, g, A, f)
               U == A \cup B
               V == B \cup A
    <2>1. merge(other, tree) = TreeOf(V, k) /\ Content(V, k)
        BY <1>1, <1>2, MergeIs
    <2>2. merge(tree, other) = TreeOf(U, m) /\ Content(U, m)
        BY <1>10
    <2>3. U = V /\ ((\A h \in U : m[h] = k[h]) <=> agree)
        <3>1. \A h \in U : m[h] = (IF h \in A THEN f[h] ELSE g[h]) /\ k[h] = (IF h \in B THEN g[h] ELSE f[h])
            BY DEF Merged
        <3>2. \A h \in U : m[h] = k[h] <=> (h \in A \cap B => f[h] = g[h])
            BY <3>1
        <3> HIDE DEF m, k
        <3> QED BY <3>2
    <2> HIDE DEF m, k, U, V, agree
    <2>4. TreeOf(U, m).root = TreeOf(V, k).root <=> (U = V /\ \A h \in U : m[h] = k[h])
        BY <2>1, <2>2, TreeOfRoot
    <2> QED BY <2>1, <2>2, <2>3, <2>4
<1>15. Replayed(tree, other, diff(tree, other)).root = other.root <=> agree
    <2> DEFINE d == diff(tree, other)
               K == A \ (A \ B)
               D == B \ A
               m == Merged(K, f, D, g)
               U == K \cup D
    <2>1. d.removed = A \ B /\ d.added = B \ A
        BY <1>3 DEF diff
    <2> HIDE DEF d
    <2>2. Replayed(tree, other, d) = TreeOf(U, m) /\ Content(U, m)
        BY <1>1, <1>2, <2>1, ReplayedIs
    <2>3. U = B /\ ((\A h \in U : m[h] = g[h]) <=> agree)
        <3>1. \A h \in U : m[h] = (IF h \in K THEN f[h] ELSE g[h])
            BY DEF Merged
        <3>2. U = B /\ \A h \in U : h \in K <=> h \in A
            OBVIOUS
        <3> HIDE DEF m, U, K
        <3> QED BY <3>1, <3>2
    <2> HIDE DEF m, U, K, D, agree
    <2>4. TreeOf(U, m).root = other.root <=> (U = B /\ \A h \in U : m[h] = g[h])
        BY <1>2, <2>2, TreeOfRoot
    <2> QED BY <2>2, <2>3, <2>4 DEF d
<1>16. ASSUME NEW h \in Hs \ A, NEW v \in Views
       PROVE  remove(insert(tree, [h |-> h, views |-> v]), h) = tree
    <2> DEFINE l == [h |-> h, views |-> v]
               c == Inserted(A, f, l)
               U == A \cup {h}
    <2>1. l \in AnyLeaf /\ l.h = h
        BY ContextTreeAssumption DEF AnyLeaf
    <2> HIDE DEF l
    <2>2. insert(tree, l) = TreeOf(U, c) /\ Content(U, c)
        BY <1>1, <2>1, InsertIs
    <2>3. U \ {h} = A /\ \A x \in A : c[x] = f[x]
        BY <2>1 DEF Inserted
    <2> HIDE DEF c, U
    <2>4. remove(TreeOf(U, c), h) = TreeOf(U \ {h}, c) /\ Content(U \ {h}, c)
        BY <2>2, RemoveIs
    <2> QED BY <1>5, <2>2, <2>3, <2>4 DEF l
<1> HIDE DEF agree
<1>17. KeysIn(tree) = A /\ KeysIn(other) = B
    BY <1>3
<1> QED BY <1>4, <1>6, <1>7, <1>8, <1>9, <1>11, <1>12, <1>13, <1>14, <1>15, <1>16, <1>17 DEF TreeIdentity

\* The root of a tree is the identity of its collection, whatever operations
\* led there, and the operations obey their laws: for any keys and views.
THEOREM TreesIdentify ==
    TreeInit /\ [][TreeNext]_tree_vars => []TreeIdentity
<1>1. TreeInit => TreesInv
    BY TreesInit
<1>2. TreesInv /\ [TreeNext]_tree_vars => TreesInv'
    BY TreesStep
<1>3. TreesInv => TreeIdentity
    BY TreesSuffice
<1> QED BY <1>1, <1>2, <1>3, PTL

-----------------------------------------------------------------------------
(* Powers of two.                                                            *)

Doubles(f, n) == \A k \in 0..n : f[k] = IF k = 0 THEN 1 ELSE 2 * f[k - 1]

\* They exist up to any n, and up to n there is one choice.
LEMMA DoublesExist ==
    ASSUME NEW n \in Nat
    PROVE  \E f \in [Nat -> Nat \ {0}] : Doubles(f, n)
<1> DEFINE G == {m \in 0..n : \E f \in [Nat -> Nat \ {0}] : Doubles(f, m)}
<1>1. 0 \in G
    <2> DEFINE f == [k \in Nat |-> 1]
    <2>1. f \in [Nat -> Nat \ {0}] /\ Doubles(f, 0)
        BY DEF Doubles
    <2> QED BY <2>1
<1>2. ASSUME NEW m \in 1..n, m - 1 \in G
      PROVE  m \in G
    <2>1. PICK f \in [Nat -> Nat \ {0}] : Doubles(f, m - 1)
        BY <1>2
    <2> DEFINE g == [f EXCEPT ![m] = 2 * f[m - 1]]
    <2>2. g \in [Nat -> Nat \ {0}]
        <3>1. m \in Nat /\ m - 1 \in Nat
            OBVIOUS
        <3>2. 2 * f[m - 1] \in Nat \ {0}
            BY <3>1
        <3> QED BY <3>2
    <2>3. ASSUME NEW k \in 0..m
          PROVE  g[k] = IF k = 0 THEN 1 ELSE 2 * g[k - 1]
        <3>1. CASE k = m
            <4>1. k \in Nat /\ k - 1 \in Nat /\ k # 0 /\ k - 1 # m /\ m \in Nat
                BY <3>1
            <4> QED BY <3>1, <4>1
        <3>2. CASE k # m
            <4>1. k \in 0..m - 1 /\ k \in Nat /\ m \in Nat
                BY <3>2
            <4>2. f[k] = IF k = 0 THEN 1 ELSE 2 * f[k - 1]
                BY <2>1, <4>1 DEF Doubles
            <4>3. g[k] = f[k]
                BY <3>2, <4>1
            <4>4. k # 0 => k - 1 \in Nat /\ k - 1 # m
                BY <4>1
            <4>5. k # 0 => g[k - 1] = f[k - 1]
                BY <4>4
            <4> HIDE DEF g
            <4> QED BY <4>2, <4>3, <4>5
        <3> QED BY <3>1, <3>2
    <2>4. Doubles(g, m)
        BY <2>3 DEF Doubles
    <2> HIDE DEF g
    <2> QED BY <2>2, <2>4
<1>3. n \in G
    <2> HIDE DEF G
    <2>1. \A m \in 0..n : m \in G
        BY <1>1, <1>2, Upward
    <2> QED BY <2>1
<1> QED BY <1>3

\* Two that reach as far agree as far as the shorter.
LEMMA DoublesAgree ==
    ASSUME NEW n \in Nat, NEW f, Doubles(f, n), NEW m \in Nat, NEW g, Doubles(g, m), n <= m
    PROVE  \A k \in 0..n : f[k] = g[k]
<1> DEFINE G == {k \in 0..n : f[k] = g[k]}
<1>1. 0 \in G
    BY DEF Doubles
<1>2. ASSUME NEW k \in 1..n, k - 1 \in G
      PROVE  k \in G
    <2>1. k \in 0..n /\ k \in 0..m /\ k # 0
        OBVIOUS
    <2>2. f[k] = 2 * f[k - 1] /\ g[k] = 2 * g[k - 1]
        BY <2>1 DEF Doubles
    <2> QED BY <1>2, <2>1, <2>2
<1> HIDE DEF G
<1>3. \A k \in 0..n : k \in G
    BY <1>1, <1>2, Upward
<1> QED BY <1>3 DEF G

\* pow2 is what its definition says.
LEMMA Pow2Is ==
    /\ pow2[0] = 1
    /\ \A k \in Nat : pow2[k] \in Nat \ {0} /\ pow2[k + 1] = 2 * pow2[k]
<1> DEFINE F(n) == CHOOSE f \in [Nat -> Nat \ {0}] : Doubles(f, n)
           h == [n \in Nat |-> F(n)[n]]
<1>1. \A n \in Nat : F(n) \in [Nat -> Nat \ {0}] /\ Doubles(F(n), n)
    BY DoublesExist
<1> HIDE DEF F
<1>2. h[0] = 1 /\ \A n \in Nat : h[n] \in Nat \ {0}
    <2>1. Doubles(F(0), 0)
        BY <1>1
    <2>2. F(0)[0] = 1
        BY <2>1 DEF Doubles
    <2> QED BY <1>1, <2>2
<1>3. ASSUME NEW n \in Nat, n # 0
      PROVE  h[n] = 2 * h[n - 1]
    <2>1. n - 1 \in Nat /\ n - 1 <= n /\ n - 1 \in 0..n - 1 /\ n \in 0..n
        BY <1>3
    <2>2. Doubles(F(n), n) /\ Doubles(F(n - 1), n - 1)
        BY <1>1, <2>1
    <2>3. F(n - 1)[n - 1] = F(n)[n - 1]
        BY <2>1, <2>2, DoublesAgree
    <2>4. F(n)[n] = 2 * F(n)[n - 1]
        BY <1>3, <2>1, <2>2 DEF Doubles
    <2> QED BY <2>1, <2>3, <2>4
<1>4. h = [k \in Nat |-> IF k = 0 THEN 1 ELSE 2 * h[k - 1]]
    <2>1. h = [k \in Nat |-> h[k]]
        OBVIOUS
    <2>2. \A k \in Nat : h[k] = IF k = 0 THEN 1 ELSE 2 * h[k - 1]
        <3> HIDE DEF h
        <3> QED BY <1>2, <1>3
    <2> HIDE DEF h
    <2> QED BY <2>1, <2>2
<1> HIDE DEF h
<1>5. pow2 = [k \in Nat |-> IF k = 0 THEN 1 ELSE 2 * pow2[k - 1]]
    BY <1>4 DEF pow2
<1>6. ASSUME NEW n \in Nat
      PROVE  pow2[n] = h[n]
    <2>1. Doubles(pow2, n) /\ Doubles(h, n)
        <3>1. \A k \in 0..n : k \in Nat
            OBVIOUS
        <3> QED BY <1>4, <1>5, <3>1 DEF Doubles
    <2>2. \A k \in 0..n : pow2[k] = h[k]
        BY <2>1, DoublesAgree
    <2> QED BY <2>2
<1>7. ASSUME NEW k \in Nat
      PROVE  pow2[k] \in Nat \ {0} /\ pow2[k + 1] = 2 * pow2[k]
    <2>1. k + 1 \in Nat /\ k + 1 # 0 /\ (k + 1) - 1 = k
        OBVIOUS
    <2>2. pow2[k + 1] = 2 * pow2[(k + 1) - 1]
        BY <1>5, <2>1
    <2> QED BY <1>2, <1>6, <2>1, <2>2
<1>8. pow2[0] = 1
    BY <1>2, <1>6
<1> QED BY <1>7, <1>8

-----------------------------------------------------------------------------
(* The bit of a hash.                                                        *)

\* The count of zeros of the rest of a hash.
Zeros(x) == IF x = 0 THEN BitsPerReg - 1 ELSE Min({trailing_zeros(x), BitsPerReg - 1})

BitOf(hash) == (hash % M) * BitsPerReg + Zeros(hash \div M)

\* The widths of the code are positive naturals (hllset-core's constants).
LEMMA Widths ==
    /\ P \in Nat /\ BitsPerReg \in Nat /\ BitsPerReg >= 1 /\ HashBits \in Nat
    /\ M \in Nat /\ M >= 1 /\ TotalBits \in Nat /\ TotalBits >= 1
<1>1. P \in Nat /\ BitsPerReg \in Nat /\ BitsPerReg >= 1 /\ HashBits \in Nat
    BY SketchAssumption
<1>2. M \in Nat /\ M >= 1
    BY <1>1, Pow2Is DEF M
<1>3. \A a, b \in Nat : a >= 1 /\ b >= 1 => a * b \in Nat /\ a * b >= 1
    <2> SUFFICES ASSUME NEW a \in Nat, NEW b \in Nat, a >= 1, b >= 1
                 PROVE  a * b \in Nat /\ a * b >= 1
        OBVIOUS
    <2>1. a * b = (a - 1) * b + b /\ (a - 1) * b \in Nat
        OBVIOUS
    <2> QED BY <2>1
<1>4. TotalBits \in Nat /\ TotalBits >= 1
    BY <1>1, <1>2, <1>3 DEF TotalBits
<1> QED BY <1>1, <1>2, <1>4

\* The count of trailing zeros saturates below the width of a register.
LEMMA ZerosIs ==
    ASSUME NEW x \in Nat
    PROVE  Zeros(x) \in 0..BitsPerReg - 1
<1> DEFINE Z == {k \in 0..HashBits : x % pow2[k] = 0}
           S == {trailing_zeros(x), BitsPerReg - 1}
<1>1. trailing_zeros(x) \in Nat
    <2>1. Z \subseteq Nat /\ IsFiniteSet(Z)
        <3>1. HashBits \in Nat
            BY Widths
        <3>2. IsFiniteSet(0..HashBits) /\ Z \in SUBSET (0..HashBits)
            BY <3>1, FS_Interval
        <3>3. Z \subseteq Nat
            OBVIOUS
        <3> HIDE DEF Z
        <3> QED BY <3>2, <3>3, FS_Subset
    <2>2. 0 \in Z
        BY Widths, Pow2Is
    <2> HIDE DEF Z
    <2>3. Max(Z) \in Z
        BY <2>1, <2>2, MaxBounds
    <2>4. trailing_zeros(x) = Max(Z)
        BY DEF trailing_zeros, Z
    <2> QED BY <2>1, <2>3, <2>4
<1>2. S \subseteq Nat /\ S # {} /\ BitsPerReg - 1 \in S
    BY <1>1, Widths
<1> HIDE DEF S
<1>3. Min(S) \in Nat /\ Min(S) <= BitsPerReg - 1
    BY <1>2, MinBounds
<1>4. Min(S) \in 0..BitsPerReg - 1 /\ BitsPerReg - 1 \in 0..BitsPerReg - 1
    BY <1>3, Widths
<1> QED BY <1>4 DEF Zeros, S

\* Both ways from a hash to its bit, which is in range.
LEMMA BitIs ==
    ASSUME NEW hash \in Nat
    PROVE  /\ BitOf(hash) \in 0..TotalBits - 1
           /\ BitAddress(hash_to_position(hash)) = {BitOf(hash)}
           /\ \A s : add_hash(s, hash) = s \cup {BitOf(hash)}
<1> DEFINE r == hash % M
           z == Zeros(hash \div M)
<1>1. r \in 0..M - 1 /\ hash \div M \in Nat
    <2>1. M \in Nat /\ M > 0
        BY Widths
    <2> HIDE DEF M
    <2> QED BY <2>1
<1>2. z \in 0..BitsPerReg - 1
    BY <1>1, ZerosIs
<1>3. r < M /\ z < BitsPerReg
    BY <1>1, <1>2, Widths
<1> HIDE DEF r, z
<1>4. r * BitsPerReg + z \in 0..TotalBits - 1
    <2>1. r * BitsPerReg + z + 1 \in 1..M * BitsPerReg
        BY <1>1, <1>2, CellIndexes, Widths
    <2>2. r * BitsPerReg \in Nat /\ z \in Nat
        BY <1>1, <1>2, Widths
    <2>3. ASSUME NEW a \in Nat, NEW b \in Nat, NEW n \in Nat, a + b + 1 \in 1..n
          PROVE  a + b \in 0..n - 1
        BY <2>3
    <2>4. r * BitsPerReg + z + 1 \in 1..TotalBits
        BY <2>1 DEF TotalBits
    <2> QED BY <2>2, <2>3, <2>4, Widths
<1>5. BitOf(hash) = r * BitsPerReg + z
    BY DEF BitOf, r, z
<1>6. hash_to_position(hash) = [reg |-> r, tz |-> z]
    BY DEF hash_to_position, Zeros, r, z
<1>7. BitAddress(hash_to_position(hash)) = {BitOf(hash)}
    <2> DEFINE p == hash_to_position(hash)
    <2>1. p.reg = r /\ p.tz = z
        BY <1>6
    <2> HIDE DEF p
    <2>2. BitAddress(p) = {r * BitsPerReg + z}
        BY <1>3, <2>1, Zenon DEF BitAddress
    <2> QED BY <1>5, <2>2 DEF p
<1>8. ASSUME NEW s
      PROVE  add_hash(s, hash) = s \cup {BitOf(hash)}
    BY <1>5 DEF add_hash, BitOf, Zeros
<1> QED BY <1>4, <1>5, <1>7, <1>8

-----------------------------------------------------------------------------
(* Folds over sequences: the last index goes first.                          *)

\* A set of indices without its last one is smaller.
LEMMA LastIndex ==
    ASSUME NEW n \in Nat, NEW s \in SUBSET (1..n), s # {}
    PROVE  Max(s) \in s /\ s \ {Max(s)} \in SUBSET s /\ s \ {Max(s)} # s
<1>1. IsFiniteSet(1..n)
    BY FS_Interval
<1>2. IsFiniteSet(s)
    BY <1>1, FS_Subset
<1>3. s \subseteq Nat
    OBVIOUS
<1> QED BY <1>2, <1>3, MaxBounds

\* So two functions that follow from their values there are the same.
LEMMA FoldsAgree ==
    ASSUME NEW n \in Nat, NEW g, NEW h,
           \A s \in SUBSET (1..n) :
               (s # {} => g[s \ {Max(s)}] = h[s \ {Max(s)}]) => g[s] = h[s]
    PROVE  g[1..n] = h[1..n]
<1> DEFINE G == {s \in SUBSET (1..n) : g[s] = h[s]}
<1>1. Hereditary(1..n, G)
    <2> SUFFICES ASSUME NEW s \in SUBSET (1..n), \A r \in SUBSET s : r # s => r \in G
                 PROVE  s \in G
        BY DEF Hereditary
    <2>1. s # {} => g[s \ {Max(s)}] = h[s \ {Max(s)}]
        BY LastIndex
    <2> QED BY <2>1
<1>2. IsFiniteSet(1..n)
    BY FS_Interval
<1> HIDE DEF G
<1>3. 1..n \in G
    BY <1>1, <1>2, StrongInduction
<1> QED BY <1>3 DEF G

BitsOf(f, s) == {BitOf(Murmur(f[i])) : i \in s}

TokensStep(f, g, s) == IF s = {} THEN {} ELSE add_hash(g[s \ {Max(s)}], Murmur(f[Max(s)]))

TokensOn(f, g) == g = [s \in SUBSET DOMAIN f |-> TokensStep(f, g, s)]

\* The fold of FromTokens is a function chosen on the sets of positions.
LEMMA TokensChosen ==
    ASSUME NEW f
    PROVE  FromTokens(f) = (CHOOSE g : TokensOn(f, g))[DOMAIN f]
BY DEF FromTokens, FoldLeft, MapThenFoldSet, TokensOn, TokensStep

\* The hash of a token is a natural.
LEMMA Hashes ==
    ASSUME NEW t \in ByteTokens
    PROVE  Murmur(t) \in Nat
<1>1. pow2[HashBits] \in Nat
    BY Widths, Pow2Is
<1>2. Murmur(t) \in 0..pow2[HashBits] - 1
    BY SketchAssumption
<1> QED BY <1>1, <1>2

\* The sketch of a collection has the bits of its tokens.
LEMMA FromTokensIs ==
    ASSUME NEW f \in Seq(ByteTokens)
    PROVE  FromTokens(f) = BitsOf(f, 1..Len(f))
<1> DEFINE n == Len(f)
           g == [s \in SUBSET (1..n) |-> BitsOf(f, s)]
           r == CHOOSE h : TokensOn(f, h)
<1>0. n \in Nat /\ DOMAIN f = 1..n
    OBVIOUS
<1>1. \A i \in 1..n : Murmur(f[i]) \in Nat
    <2> SUFFICES ASSUME NEW i \in 1..n PROVE Murmur(f[i]) \in Nat
        OBVIOUS
    <2>1. f[i] \in ByteTokens
        OBVIOUS
    <2> QED BY <2>1, Hashes
<1>2. ASSUME NEW s \in SUBSET (1..n)
      PROVE  g[s] = TokensStep(f, g, s)
    <2>1. CASE s = {}
        BY <2>1 DEF TokensStep, BitsOf
    <2>2. CASE s # {}
        <3> DEFINE m == Max(s)
        <3>1. m \in s /\ s \ {m} \in SUBSET (1..n)
            BY <1>0, <2>2, LastIndex
        <3> HIDE DEF m
        <3>2. add_hash(g[s \ {m}], Murmur(f[m])) = g[s \ {m}] \cup {BitOf(Murmur(f[m]))}
            <4>1. Murmur(f[m]) \in Nat
                BY <1>1, <3>1
            <4> HIDE DEF g
            <4> QED BY <4>1, BitIs
        <3>3. BitsOf(f, s) = BitsOf(f, s \ {m}) \cup {BitOf(Murmur(f[m]))}
            BY <3>1, Zenon DEF BitsOf
        <3>4. g[s] = add_hash(g[s \ {m}], Murmur(f[m]))
            BY <3>1, <3>2, <3>3
        <3> HIDE DEF g
        <3> QED BY <2>2, <3>4 DEF TokensStep, m
    <2> QED BY <2>1, <2>2
<1>3. TokensOn(f, g)
    <2>1. g = [s \in SUBSET (1..n) |-> g[s]]
        OBVIOUS
    <2> HIDE DEF g
    <2> QED BY <1>0, <1>2, <2>1 DEF TokensOn
<1>4. TokensOn(f, r)
    <2> HIDE DEF g
    <2> QED BY <1>3
<1>5. g[1..n] = BitsOf(f, 1..n)
    OBVIOUS
<1> HIDE DEF g, r, n
<1>6. \A s \in SUBSET (1..n) : r[s] = TokensStep(f, r, s) /\ g[s] = TokensStep(f, g, s)
    BY <1>0, <1>2, <1>4 DEF TokensOn
<1>7. r[1..n] = g[1..n]
    <2>1. \A s \in SUBSET (1..n) :
              (s # {} => r[s \ {Max(s)}] = g[s \ {Max(s)}]) => r[s] = g[s]
        BY <1>6 DEF TokensStep
    <2> QED BY <1>0, <2>1, FoldsAgree
<1>8. FromTokens(f) = r[1..n]
    BY <1>0, TokensChosen DEF r
<1> QED BY <1>5, <1>7, <1>8 DEF n

MeetStep(b, f, g, s) == IF s = {} THEN b ELSE g[s \ {Max(s)}] \cap f[Max(s)]

MeetOn(b, f, g) == g = [s \in SUBSET DOMAIN f |-> MeetStep(b, f, g, s)]

\* The fold of intersection_all, in the same form.
LEMMA MeetChosen ==
    ASSUME NEW p, p # <<>>
    PROVE  intersection_all(p) = (CHOOSE g : MeetOn(Head(p), Tail(p), g))[DOMAIN Tail(p)]
BY DEF intersection_all, FoldLeft, MapThenFoldSet, MeetOn, MeetStep

\* An intersection is inside each of its parts.
LEMMA MeetIs ==
    ASSUME NEW S, NEW p \in Seq(S), p # <<>>
    PROVE  \A i \in 1..Len(p) : intersection_all(p) \subseteq p[i]
<1> DEFINE b == Head(p)
           f == Tail(p)
           n == Len(f)
           g == [s \in SUBSET (1..n) |-> {x \in b : \A i \in s : x \in f[i]}]
           r == CHOOSE h : MeetOn(b, f, h)
<1>0. n \in Nat /\ DOMAIN f = 1..n
    OBVIOUS
<1>1. /\ b = p[1] /\ Len(p) = n + 1
      /\ \A i \in 1..n : f[i] = p[i + 1]
    OBVIOUS
<1> HIDE DEF b, f, n
<1>2. ASSUME NEW s \in SUBSET (1..n)
      PROVE  g[s] = MeetStep(b, f, g, s)
    <2>1. CASE s = {}
        BY <2>1 DEF MeetStep
    <2>2. CASE s # {}
        <3> DEFINE m == Max(s)
        <3>1. m \in s /\ s \ {m} \in SUBSET (1..n)
            BY <1>0, <2>2, LastIndex
        <3> HIDE DEF m
        <3>2. g[s] = g[s \ {m}] \cap f[m]
            BY <3>1
        <3> HIDE DEF g
        <3> QED BY <2>2, <3>2 DEF MeetStep, m
    <2> QED BY <2>1, <2>2
<1>3. MeetOn(b, f, g)
    <2>1. g = [s \in SUBSET (1..n) |-> g[s]]
        OBVIOUS
    <2> HIDE DEF g
    <2> QED BY <1>0, <1>2, <2>1 DEF MeetOn
<1>4. MeetOn(b, f, r)
    <2> HIDE DEF g
    <2> QED BY <1>3
<1>5. g[1..n] = {x \in b : \A i \in 1..n : x \in f[i]}
    OBVIOUS
<1> HIDE DEF g, r
<1>6. \A s \in SUBSET (1..n) : r[s] = MeetStep(b, f, r, s) /\ g[s] = MeetStep(b, f, g, s)
    BY <1>0, <1>2, <1>4 DEF MeetOn
<1>7. r[1..n] = g[1..n]
    <2>1. \A s \in SUBSET (1..n) :
              (s # {} => r[s \ {Max(s)}] = g[s \ {Max(s)}]) => r[s] = g[s]
        BY <1>6 DEF MeetStep
    <2> QED BY <1>0, <2>1, FoldsAgree
<1>8. intersection_all(p) = r[1..n]
    <2>1. intersection_all(p) = (CHOOSE h : MeetOn(b, f, h))[DOMAIN f]
        BY MeetChosen DEF b, f
    <2> QED BY <1>0, <2>1 DEF r
<1>9. ASSUME NEW i \in 1..Len(p), NEW x \in intersection_all(p)
      PROVE  x \in p[i]
    <2>1. x \in b /\ \A j \in 1..n : x \in f[j]
        BY <1>5, <1>7, <1>8, <1>9
    <2>2. CASE i = 1
        BY <1>1, <2>1, <2>2
    <2>3. CASE i # 1
        <3>1. i - 1 \in 1..n /\ (i - 1) + 1 = i
            BY <1>0, <1>1, <2>3
        <3> QED BY <1>1, <2>1, <3>1
    <2> QED BY <2>2, <2>3
<1> QED BY <1>9

-----------------------------------------------------------------------------
(* Binary numbers.                                                           *)

\* A higher power of two is a multiple of a lower one.
LEMMA PowerMultiple ==
    ASSUME NEW k \in Nat, NEW m \in Nat
    PROVE  \E c \in Nat : pow2[k + m] = c * pow2[k]
<1> DEFINE G == {j \in 0..m : \E c \in Nat : pow2[k + j] = c * pow2[k]}
<1>1. 0 \in G
    <2>1. pow2[k + 0] = 1 * pow2[k]
        BY Pow2Is
    <2> QED BY <2>1
<1>2. ASSUME NEW j \in 1..m, j - 1 \in G
      PROVE  j \in G
    <2>1. PICK c \in Nat : pow2[k + (j - 1)] = c * pow2[k]
        BY <1>2
    <2>2. k + (j - 1) \in Nat /\ (k + (j - 1)) + 1 = k + j
        OBVIOUS
    <2>3. pow2[k + j] = 2 * (c * pow2[k])
        BY <2>1, <2>2, Pow2Is
    <2>4. 2 * (c * pow2[k]) = (2 * c) * pow2[k] /\ 2 * c \in Nat
        BY Pow2Is
    <2>5. \E d \in Nat : pow2[k + j] = d * pow2[k]
        BY <2>3, <2>4
    <2> QED BY <2>5
<1> HIDE DEF G
<1>3. \A j \in 0..m : j \in G
    BY <1>1, <1>2, Upward
<1>4. m \in G
    BY <1>3
<1> QED BY <1>4 DEF G

\* Quotients of what is written as a quotient and a rest.
LEMMA QuotientIs ==
    ASSUME NEW b \in Nat, b >= 1, NEW c \in Nat, NEW l \in 0..b - 1
    PROVE  (c * b + l) \div b = c /\ (c * b + l) % b = l
<1> DEFINE x == c * b + l
           q == x \div b
           r == x % b
<1>1. x \in Nat
    OBVIOUS
<1> HIDE DEF x
<1>2. q \in Int /\ r \in 0..b - 1 /\ x = q * b + r
    <2>1. \A y \in Int : y \div b \in Int /\ y % b \in 0..b - 1 /\ y = (y \div b) * b + (y % b)
        OBVIOUS
    <2> QED BY <1>1, <2>1
<1>3. x = c * b + l
    BY DEF x
<1> HIDE DEF q, r
<1>4. \A a \in Int, d \in Int : a < d => a * b + b <= d * b
    <2> SUFFICES ASSUME NEW a \in Int, NEW d \in Int, a < d
                 PROVE  a * b + b <= d * b
        OBVIOUS
    <2>1. (d - a - 1) \in Nat /\ d = a + 1 + (d - a - 1)
        OBVIOUS
    <2> DEFINE e == d - a - 1
    <2>2. (a + 1 + e) * b = a * b + b + e * b
        <3>1. e \in Int
            OBVIOUS
        <3> HIDE DEF e
        <3> QED BY <3>1
    <2>3. e * b >= 0
        <3> HIDE DEF e
        <3>1. e \in Nat
            BY <2>1 DEF e
        <3> QED BY <3>1
    <2>4. a * b \in Int /\ e * b \in Int /\ d * b = (a + 1 + e) * b
        BY <2>1
    <2> HIDE DEF e
    <2> QED BY <2>2, <2>3, <2>4
<1>5. ~(q < c) /\ ~(c < q)
    <2>1. q * b \in Int /\ c * b \in Int
        BY <1>2
    <2>2. ~(q * b + b <= c * b) /\ ~(c * b + b <= q * b)
        BY <1>2, <1>3, <2>1
    <2> QED BY <1>2, <1>4, <2>2
<1>6. q = c
    BY <1>2, <1>5
<1>7. r = l
    <2>1. c * b \in Int
        OBVIOUS
    <2> QED BY <1>2, <1>3, <1>6, <2>1
<1> QED BY <1>6, <1>7 DEF q, r, x

\* W adds up the powers of the members of X, one after the other.
Binary(W, X, n) ==
    /\ W \in [0..n -> Nat]
    /\ W[0] = 0
    /\ \A k \in 0..n - 1 : W[k + 1] = IF k \in X THEN pow2[k] + W[k] ELSE W[k]

\* A sum of the first k powers stays below the next power.
LEMMA BinaryBelow ==
    ASSUME NEW n \in Nat, NEW X, NEW W, Binary(W, X, n)
    PROVE  \A k \in 0..n : W[k] < pow2[k]
<1> DEFINE G == {k \in 0..n : W[k] < pow2[k]}
<1>1. 0 \in G
    <2>1. W[0] = 0 /\ pow2[0] = 1 /\ 0 \in 0..n
        BY Pow2Is DEF Binary
    <2> QED BY <2>1
<1>2. ASSUME NEW k \in 1..n, k - 1 \in G
      PROVE  k \in G
    <2>1. k - 1 \in 0..n - 1 /\ k - 1 \in Nat /\ (k - 1) + 1 = k
        OBVIOUS
    <2>2. pow2[k] = 2 * pow2[k - 1] /\ pow2[k - 1] \in Nat \ {0}
        BY <2>1, Pow2Is
    <2>3. W[k] = IF k - 1 \in X THEN pow2[k - 1] + W[k - 1] ELSE W[k - 1]
        BY <2>1 DEF Binary
    <2>4. W[k - 1] \in Nat /\ W[k - 1] < pow2[k - 1]
        BY <1>2, <2>1 DEF Binary
    <2>5. W[k] < pow2[k]
        BY <2>2, <2>3, <2>4
    <2> QED BY <2>5
<1> HIDE DEF G
<1>3. \A k \in 0..n : k \in G
    BY <1>1, <1>2, Upward
<1> QED BY <1>3 DEF G

\* Above k only multiples of the power after that of k are added.
LEMMA BinaryAbove ==
    ASSUME NEW n \in Nat, NEW X, NEW W, Binary(W, X, n), NEW k \in 0..n
    PROVE  \E q \in Nat : W[n] = q * pow2[k] + W[k]
<1> DEFINE G == {m \in 0..n - k : \E q \in Nat : W[k + m] = q * pow2[k] + W[k]}
<1>0. pow2[k] \in Nat /\ k \in Nat /\ n - k \in Nat /\ W[k] \in Nat
    <2>1. k \in Nat /\ n - k \in Nat
        OBVIOUS
    <2>2. W[k] \in Nat
        BY DEF Binary
    <2> QED BY <2>1, <2>2, Pow2Is
<1>1. 0 \in G
    <2>1. W[k + 0] = 0 * pow2[k] + W[k]
        BY <1>0
    <2> QED BY <1>0, <2>1
<1>2. ASSUME NEW m \in 1..n - k, m - 1 \in G
      PROVE  m \in G
    <2>1. PICK q \in Nat : W[k + (m - 1)] = q * pow2[k] + W[k]
        BY <1>2
    <2>2. k + (m - 1) \in 0..n - 1 /\ (k + (m - 1)) + 1 = k + m /\ m - 1 \in Nat
        BY <1>0
    <2>3. W[k + m] = IF k + (m - 1) \in X THEN pow2[k + (m - 1)] + W[k + (m - 1)] ELSE W[k + (m - 1)]
        BY <2>2 DEF Binary
    <2>4. PICK c \in Nat : pow2[k + (m - 1)] = c * pow2[k]
        BY <1>0, <2>2, PowerMultiple
    <2>5. c * pow2[k] + (q * pow2[k] + W[k]) = (c + q) * pow2[k] + W[k] /\ c + q \in Nat
        BY <1>0
    <2>6. \E d \in Nat : W[k + m] = d * pow2[k] + W[k]
        <3>1. CASE k + (m - 1) \in X
            <4>1. W[k + m] = (c + q) * pow2[k] + W[k]
                BY <2>1, <2>3, <2>4, <2>5, <3>1
            <4> QED BY <2>5, <4>1
        <3>2. CASE k + (m - 1) \notin X
            BY <2>1, <2>3, <3>2
        <3> QED BY <3>1, <3>2
    <2> QED BY <2>6
<1> HIDE DEF G
<1>3. \A m \in 0..n - k : m \in G
    BY <1>0, <1>1, <1>2, Upward
<1>4. n - k \in G /\ k + (n - k) = n
    BY <1>0, <1>3
<1> QED BY <1>4 DEF G

\* So the bits of the sum are the members.
LEMMA BinaryIs ==
    ASSUME NEW n \in Nat, NEW X, NEW W, Binary(W, X, n), NEW k \in 0..n - 1
    PROVE  /\ (W[n] \div pow2[k]) % 2 = 1 <=> k \in X
           /\ k \in X => pow2[k] <= W[n]
           /\ pow2[k] <= W[n] /\ W[n] < pow2[k + 1] => k \in X
<1> DEFINE b == pow2[k]
           e == IF k \in X THEN 1 ELSE 0
<1>1. b \in Nat /\ b >= 1 /\ pow2[k + 1] = 2 * b /\ k \in 0..n /\ k + 1 \in 0..n
    BY Pow2Is
<1>2. W[k] \in 0..b - 1
    <2>1. W[k] \in Nat /\ W[k] < b
        BY <1>1, BinaryBelow DEF Binary
    <2> QED BY <1>1, <2>1
<1>3. W[k + 1] = e * b + W[k]
    BY <1>1, <1>2 DEF Binary
<1>4. PICK q \in Nat : W[n] = q * pow2[k + 1] + W[k + 1]
    BY <1>1, BinaryAbove
<1>5. e \in 0..1
    OBVIOUS
<1> HIDE DEF b
<1>6. W[n] = (2 * q + e) * b + W[k] /\ 2 * q + e \in Nat
    <2>1. q * (2 * b) + (e * b + W[k]) = (2 * q + e) * b + W[k]
        <3> HIDE DEF e
        <3> QED BY <1>1, <1>2, <1>5
    <2> QED BY <1>1, <1>3, <1>4, <1>5, <2>1
<1>7. W[n] \div b = 2 * q + e
    <2> HIDE DEF e
    <2> QED BY <1>1, <1>2, <1>6, QuotientIs
<1>8. (2 * q + e) % 2 = e
    OBVIOUS
<1>9. k \in X => b <= W[n]
    <2>1. ASSUME k \in X PROVE b <= W[n]
        <3>1. (2 * q + 1) * b = 2 * q * b + b /\ 2 * q * b \in Nat
            BY <1>1
        <3> QED BY <1>1, <1>2, <1>6, <2>1, <3>1
    <2> QED BY <2>1
<1>10. b <= W[n] /\ W[n] < 2 * b => k \in X
    <2>1. ASSUME k \notin X, W[n] < 2 * b PROVE W[n] < b
        <3>1. W[n] = 2 * q * b + W[k]
            BY <1>6, <2>1
        <3>2. q = 0
            <4>1. ASSUME q >= 1 PROVE FALSE
                <5>1. 2 * q * b = 2 * b + 2 * (q - 1) * b /\ 2 * (q - 1) * b \in Nat
                    BY <1>1, <4>1
                <5> QED BY <1>1, <1>2, <2>1, <3>1, <5>1
            <4> QED BY <4>1
        <3> QED BY <1>1, <1>2, <3>1, <3>2
    <2> QED BY <1>1, <1>2, <1>6, <2>1
<1> QED BY <1>1, <1>7, <1>8, <1>9, <1>10 DEF b

-----------------------------------------------------------------------------
(* The dense form: the mask of a register is a binary number.                *)

Addressed(s) == s \subseteq 0..TotalBits - 1

\* A bit is a register and a position in it.
LEMMA BitParts ==
    /\ \A b \in 0..TotalBits - 1 :
          /\ b \div BitsPerReg \in 0..M - 1 /\ b % BitsPerReg \in 0..BitsPerReg - 1
          /\ b = (b \div BitsPerReg) * BitsPerReg + (b % BitsPerReg)
    /\ \A reg \in 0..M - 1, x \in 0..BitsPerReg - 1 :
          /\ reg * BitsPerReg + x \in 0..TotalBits - 1
          /\ (reg * BitsPerReg + x) \div BitsPerReg = reg
          /\ (reg * BitsPerReg + x) % BitsPerReg = x
<1> DEFINE n == BitsPerReg
<1>0. n \in Nat /\ n >= 1 /\ M \in Nat /\ TotalBits \in Nat /\ TotalBits = M * n
    BY Widths DEF TotalBits
<1> HIDE DEF n
<1>1. ASSUME NEW b \in 0..TotalBits - 1
      PROVE  b \div n \in 0..M - 1 /\ b % n \in 0..n - 1 /\ b = (b \div n) * n + (b % n)
    <2>1. b + 1 \in 1..M * n
        BY <1>0
    <2>2. PICK i \in 0..M - 1, j \in 0..n - 1 : b + 1 = i * n + j + 1
        BY <1>0, <2>1, CellIndexes
    <2>3. i \in Nat /\ b = i * n + j
        <3>1. i \in Nat
            BY <1>0
        <3>2. i * n \in Nat
            BY <1>0, <3>1
        <3> QED BY <1>0, <2>2, <3>1, <3>2
    <2>4. b \div n = i /\ b % n = j
        BY <1>0, <2>3, QuotientIs
    <2> QED BY <2>3, <2>4
<1>2. ASSUME NEW reg \in 0..M - 1, NEW x \in 0..n - 1
      PROVE  /\ reg * n + x \in 0..TotalBits - 1
             /\ (reg * n + x) \div n = reg /\ (reg * n + x) % n = x
    <2>1. reg \in Nat
        BY <1>0
    <2>2. (reg * n + x) \div n = reg /\ (reg * n + x) % n = x
        BY <1>0, <2>1, QuotientIs
    <2>3. reg * n + x + 1 \in 1..TotalBits
        BY <1>0, CellIndexes
    <2>4. reg * n \in Nat
        BY <1>0, <2>1
    <2> QED BY <1>0, <2>2, <2>3, <2>4
<1> QED BY <1>1, <1>2 DEF n

\* The positions of a register that a sketch has.
InRegister(s, reg) == {p \in active_positions(s) : p.reg = reg}

Marked(s, reg) == {x \in 0..BitsPerReg - 1 : reg * BitsPerReg + x \in s}

Position(reg, x) == [reg |-> reg, tz |-> x]

\* The positions of a register are those of its bits.
LEMMA InRegisterIs ==
    ASSUME NEW s, Addressed(s), NEW reg \in 0..M - 1
    PROVE  InRegister(s, reg) = {Position(reg, x) : x \in Marked(s, reg)}
<1>1. ASSUME NEW p \in InRegister(s, reg)
      PROVE  p \in {Position(reg, x) : x \in Marked(s, reg)}
    <2>1. PICK b \in s : p = [reg |-> b \div BitsPerReg, tz |-> b % BitsPerReg]
        BY DEF InRegister, active_positions
    <2>2. b \in 0..TotalBits - 1 /\ p.reg = reg /\ p.reg = b \div BitsPerReg
        BY <2>1 DEF InRegister, Addressed
    <2>3. b % BitsPerReg \in Marked(s, reg)
        BY <2>1, <2>2, BitParts DEF Marked
    <2>4. p = Position(reg, b % BitsPerReg)
        BY <2>1, <2>2 DEF Position
    <2> QED BY <2>3, <2>4
<1>2. ASSUME NEW x \in Marked(s, reg)
      PROVE  Position(reg, x) \in InRegister(s, reg)
    <2> DEFINE b == reg * BitsPerReg + x
    <2>1. b \in s /\ x \in 0..BitsPerReg - 1
        BY DEF Marked
    <2>2. b \div BitsPerReg = reg /\ b % BitsPerReg = x
        BY <2>1, BitParts
    <2> HIDE DEF b
    <2>3. Position(reg, x) = [reg |-> b \div BitsPerReg, tz |-> b % BitsPerReg]
        BY <2>2 DEF Position
    <2>4. Position(reg, x) \in active_positions(s) /\ Position(reg, x).reg = reg
        BY <2>1, <2>3, <2>2 DEF active_positions
    <2> QED BY <2>4 DEF InRegister
<1> QED BY <1>1, <1>2

PowerStep(g, s) == IF s = {} THEN 0 ELSE pow2[SomeOf(s).tz] + g[s \ {SomeOf(s)}]

PowersOn(g, T) == g = [s \in SUBSET T |-> PowerStep(g, s)]

\* The sum that is the mask, as a function chosen on the sets of positions.
LEMMA DenseChosen ==
    ASSUME NEW s, NEW reg \in 0..M - 1
    PROVE  to_dense(s)[reg] = (CHOOSE g : PowersOn(g, InRegister(s, reg)))[InRegister(s, reg)]
BY DEF to_dense, MapThenSumSet, MapThenFoldSet, PowersOn, PowerStep, SomeOf, InRegister

\* The mask of a register is the binary number of its bits: the sum takes
\* them in any order, the partial sums in theirs.
LEMMA DenseIs ==
    ASSUME NEW s, Addressed(s), NEW reg \in 0..M - 1
    PROVE  \E W : Binary(W, Marked(s, reg), BitsPerReg) /\ to_dense(s)[reg] = W[BitsPerReg]
<1> DEFINE n == BitsPerReg
           X == Marked(s, reg)
           T == InRegister(s, reg)
           U(k) == {Position(reg, x) : x \in {y \in X : y < k}}
           f == [p \in T |-> pow2[p.tz]]
           w == Totals(f, T)
           W == [k \in 0..n |-> w[U(k)]]
           r == CHOOSE g : PowersOn(g, T)
<1>0. n \in Nat /\ n >= 1 /\ X \subseteq 0..n - 1
    BY Widths DEF Marked
<1>a. \A y \in X : y \in Nat /\ y < n
    <2> HIDE DEF X, n
    <2> QED BY <1>0
<1>1. T = {Position(reg, x) : x \in X}
    BY InRegisterIs
<1>2. IsFiniteSet(T)
    <2>1. IsFiniteSet(0..n - 1)
        BY <1>0, FS_Interval
    <2>2. IsFiniteSet(X)
        BY <1>0, <2>1, FS_Subset
    <2> HIDE DEF X, T
    <2>3. IsFiniteSet({Position(reg, x) : x \in X})
        <3> DEFINE h == [x \in X |-> Position(reg, x)]
        <3>1. h \in Surjection(X, {Position(reg, x) : x \in X})
            BY DEF Surjection
        <3> HIDE DEF h
        <3> QED BY <2>2, <3>1, FS_Surjection
    <2> QED BY <1>1, <2>3
<1>3. \A p \in T : p.tz \in X /\ p.tz \in Nat /\ p = Position(reg, p.tz)
    <2>1. \A x \in X : Position(reg, x).tz = x /\ x \in Nat
        BY <1>0 DEF Position
    <2> HIDE DEF X, T
    <2> QED BY <1>1, <2>1
<1>4. Valued(f, T) /\ \A p \in T : f[p] = pow2[p.tz]
    <2> HIDE DEF X, T
    <2> QED BY <1>3, Pow2Is DEF Valued
<1> HIDE DEF f
<1>5. AreSums(w, f, T) /\ AnyTaken(w, f, T)
    BY <1>2, <1>4, SumsAre, SumsTake
<1> HIDE DEF w, X, T
<1>6. PowersOn(w, T)
    <2>1. w = [t \in SUBSET T |-> w[t]]
        BY <1>5 DEF AreSums
    <2>2. \A t \in SUBSET T : w[t] = PowerStep(w, t)
        <3> SUFFICES ASSUME NEW t \in SUBSET T PROVE w[t] = PowerStep(w, t)
            OBVIOUS
        <3>1. CASE t = {}
            BY <1>5, <3>1 DEF AreSums, PowerStep
        <3>2. CASE t # {}
            <4>1. SomeOf(t) \in T
                BY <3>2 DEF SomeOf
            <4>2. w[t] = f[SomeOf(t)] + w[t \ {SomeOf(t)}]
                BY <1>5, <3>2 DEF AreSums
            <4> QED BY <1>4, <3>2, <4>1, <4>2 DEF PowerStep
        <3> QED BY <3>1, <3>2
    <2> QED BY <2>1, <2>2 DEF PowersOn
<1>7. PowersOn(r, T)
    BY <1>6
<1> HIDE DEF r
<1>8. r[T] = w[T]
    <2> DEFINE G == {t \in SUBSET T : r[t] = w[t]}
    <2>1. \A t \in SUBSET T : r[t] = PowerStep(r, t) /\ w[t] = PowerStep(w, t)
        BY <1>6, <1>7 DEF PowersOn
    <2>2. {} \in G
        BY <2>1 DEF PowerStep
    <2>3. ASSUME NEW t \in SUBSET T, t # {}, t \ {SomeOf(t)} \in G
          PROVE  t \in G
        BY <2>1, <2>3 DEF PowerStep
    <2> HIDE DEF G
    <2>4. T \in G
        BY <1>2, <2>2, <2>3, SubsetInduction
    <2> QED BY <2>4 DEF G
<1>9. \A k \in 0..n : U(k) \in SUBSET T /\ W[k] = w[U(k)]
    BY <1>1
<1>10. U(0) = {} /\ U(n) = T
    <2>1. {y \in X : y < 0} = {} /\ {y \in X : y < n} = X
        <3> HIDE DEF n
        <3> QED BY <1>a
    <2> QED BY <1>1, <2>1
<1>11. ASSUME NEW k \in 0..n - 1, k \in X
       PROVE  Position(reg, k) \in U(k + 1) /\ U(k + 1) \ {Position(reg, k)} = U(k)
                /\ Position(reg, k) \in T /\ Position(reg, k).tz = k
    <2>1. {y \in X : y < k + 1} = {y \in X : y < k} \cup {k} /\ k \notin {y \in X : y < k}
        <3>1. k \in Nat
            BY <1>0
        <3>2. \A y \in X : (y < k + 1 <=> y < k \/ y = k)
            BY <1>a, <3>1
        <3>3. ~(k < k)
            BY <3>1
        <3> QED BY <1>11, <3>2, <3>3
    <2>2. \A x, y : Position(reg, x) = Position(reg, y) => x = y
        BY DEF Position
    <2>3. Position(reg, k) \in T
        BY <1>1, <1>11
    <2> QED BY <2>1, <2>2, <2>3 DEF Position
<1>12. ASSUME NEW k \in 0..n - 1, k \notin X
       PROVE  U(k + 1) = U(k)
    <2>1. {y \in X : y < k + 1} = {y \in X : y < k}
        <3>1. k \in Nat
            BY <1>0
        <3>2. \A y \in X : (y < k + 1 <=> y < k)
            BY <1>a, <1>12, <3>1
        <3> QED BY <3>2
    <2> QED BY <2>1
<1>b. W = [k \in 0..n |-> W[k]] /\ \A k \in 0..n : W[k] = w[U(k)]
    OBVIOUS
<1> HIDE DEF U, W
<1>13. W \in [0..n -> Nat] /\ W[0] = 0 /\ W[n] = w[T]
    <2>1. 0 \in 0..n /\ n \in 0..n
        BY <1>0
    <2>2. \A k \in 0..n : W[k] \in Nat
        BY <1>5, <1>9, <1>b DEF AreSums
    <2>3. w[{}] = 0
        BY <1>5 DEF AreSums
    <2> QED BY <1>b, <1>10, <2>1, <2>2, <2>3
<1>14. ASSUME NEW k \in 0..n - 1
       PROVE  W[k + 1] = IF k \in X THEN pow2[k] + W[k] ELSE W[k]
    <2>0. k \in 0..n /\ k + 1 \in 0..n
        BY <1>0
    <2>1. CASE k \in X
        <3>1. w[U(k + 1)] = f[Position(reg, k)] + w[U(k + 1) \ {Position(reg, k)}]
            BY <1>5, <1>9, <1>11, <2>0, <2>1 DEF AnyTaken
        <3>2. f[Position(reg, k)] = pow2[k]
            BY <1>4, <1>11, <2>1
        <3>3. W[k] = w[U(k)] /\ W[k + 1] = w[U(k + 1)]
            BY <1>b, <2>0
        <3>4. U(k + 1) \ {Position(reg, k)} = U(k)
            BY <1>11, <2>0, <2>1
        <3>5. W[k + 1] = pow2[k] + W[k]
            BY ONLY <3>1, <3>2, <3>3, <3>4
        <3> QED BY <2>1, <3>5
    <2>2. CASE k \notin X
        BY <1>b, <1>12, <2>0, <2>2
    <2> QED BY <2>1, <2>2
<1>15. Binary(W, X, n)
    BY <1>13, <1>14 DEF Binary
<1>16. to_dense(s)[reg] = r[T]
    BY DenseChosen DEF r, T
<1>17. to_dense(s)[reg] = W[n]
    BY <1>8, <1>13, <1>16
<1> QED BY <1>15, <1>17 DEF X

\* The mask of a register has the bits of its positions.
LEMMA MaskIs ==
    ASSUME NEW s, Addressed(s), NEW reg \in 0..M - 1
    PROVE  /\ to_dense(s)[reg] \in Nat /\ to_dense(s)[reg] < pow2[BitsPerReg]
           /\ to_dense(s)[reg] > 0 <=> Marked(s, reg) # {}
           /\ \A x \in 0..BitsPerReg - 1 :
                 /\ (to_dense(s)[reg] \div pow2[x]) % 2 = 1 <=> x \in Marked(s, reg)
                 /\ x \in Marked(s, reg) => pow2[x] <= to_dense(s)[reg]
                 /\ pow2[x] <= to_dense(s)[reg] /\ to_dense(s)[reg] < pow2[x + 1] => x \in Marked(s, reg)
<1> DEFINE n == BitsPerReg
           X == Marked(s, reg)
           d == to_dense(s)[reg]
<1>1. n \in Nat /\ n >= 1 /\ X \subseteq 0..n - 1
    BY Widths DEF Marked
<1>2. PICK W : Binary(W, X, n) /\ d = W[n]
    BY DenseIs
<1> HIDE DEF n, X, d
<1>3. d \in Nat /\ d < pow2[n]
    <2>1. n \in 0..n
        BY <1>1
    <2> QED BY <1>1, <1>2, <2>1, BinaryBelow DEF Binary
<1>4. \A x \in 0..n - 1 :
          /\ (d \div pow2[x]) % 2 = 1 <=> x \in X
          /\ x \in X => pow2[x] <= d
          /\ pow2[x] <= d /\ d < pow2[x + 1] => x \in X
    BY <1>1, <1>2, BinaryIs
<1>5. ASSUME X # {} PROVE d > 0
    <2>1. PICK x \in 0..n - 1 : x \in X
        BY <1>1, <1>5
    <2>2. pow2[x] \in Nat \ {0} /\ pow2[x] <= d
        BY <1>4, <2>1, Pow2Is
    <2> QED BY <1>3, <2>2
<1>6. ASSUME X = {} PROVE d = 0
    <2> DEFINE G == {k \in 0..n : W[k] = 0}
    <2>1. 0 \in G
        <3>1. 0 \in 0..n
            BY <1>1
        <3> QED BY <1>2, <3>1 DEF Binary
    <2>2. ASSUME NEW k \in 1..n, k - 1 \in G
          PROVE  k \in G
        <3>1. k - 1 \in 0..n - 1 /\ (k - 1) + 1 = k
            BY <1>1
        <3>2. W[(k - 1) + 1] = W[k - 1]
            BY <1>2, <1>6, <3>1 DEF Binary
        <3> QED BY <2>2, <3>1, <3>2
    <2> HIDE DEF G
    <2>3. \A k \in 0..n : k \in G
        BY <1>1, <2>1, <2>2, Upward
    <2>4. n \in G
        BY <1>1, <2>3
    <2> QED BY <1>2, <2>4 DEF G
<1> QED BY <1>3, <1>4, <1>5, <1>6 DEF n, X, d

\* A sketch survives its dense form.
LEMMA DenseBack ==
    ASSUME NEW s, Addressed(s)
    PROVE  from_dense(to_dense(s)) = s
<1> DEFINE d == to_dense(s)
           n == BitsPerReg
<1>1. DOMAIN d = 0..M - 1
    BY DEF to_dense
<1>2. ASSUME NEW b \in 0..TotalBits - 1
      PROVE  (d[b \div n] \div pow2[b % n]) % 2 = 1 <=> b \in s
    <2>1. /\ b \div n \in 0..M - 1 /\ b % n \in 0..n - 1
          /\ b = (b \div n) * n + (b % n)
        BY BitParts
    <2>2. (d[b \div n] \div pow2[b % n]) % 2 = 1 <=> b % n \in Marked(s, b \div n)
        BY <2>1, MaskIs
    <2>3. b % n \in Marked(s, b \div n) <=> b \in s
        BY <2>1 DEF Marked
    <2> QED BY <2>2, <2>3
<1>3. \A b \in 0..TotalBits - 1 : b \in {reg * n + bit : reg \in 0..M - 1, bit \in 0..n - 1}
    BY BitParts
<1> HIDE DEF d
<1>4. from_dense(d) = {b \in 0..TotalBits - 1 : (d[b \div n] \div pow2[b % n]) % 2 = 1}
    BY <1>1, <1>3 DEF from_dense
<1>5. {b \in 0..TotalBits - 1 : (d[b \div n] \div pow2[b % n]) % 2 = 1} = s
    <2> HIDE DEF n
    <2> QED BY <1>2 DEF Addressed
<1> QED BY <1>4, <1>5 DEF d

\* The largest count of a register that has one is a bit of the sketch.
LEMMA DumpIs ==
    ASSUME NEW s, Addressed(s)
    PROVE  /\ Cardinality(dump_positions(s)) = non_zero_registers(s)
           /\ \A d \in dump_positions(s) : d[1] * BitsPerReg + d[2] \in s
<1> DEFINE n == BitsPerReg
           d == to_dense(s)
           R == {reg \in 0..M - 1 : d[reg] > 0}
           C(reg) == {bit \in 0..n - 1 : pow2[bit] <= d[reg]}
           D == {<<reg, Max(C(reg))>> : reg \in R}
<1>0. n \in Nat /\ n >= 1 /\ M \in Nat
    BY Widths
<1>1. ASSUME NEW reg \in R
      PROVE  Max(C(reg)) \in Marked(s, reg)
    <2> DEFINE m == Max(C(reg))
    <2>0. reg \in 0..M - 1 /\ d[reg] \in Nat /\ d[reg] < pow2[n]
        BY MaskIs
    <2>1. C(reg) \subseteq 0..n - 1 /\ C(reg) \subseteq Nat
        OBVIOUS
    <2>2. C(reg) # {}
        <3>1. PICK x : x \in Marked(s, reg)
            BY <2>0, MaskIs
        <3>2. x \in 0..n - 1 /\ pow2[x] <= d[reg]
            BY <2>0, <3>1, MaskIs DEF Marked
        <3> QED BY <3>2
    <2>3. IsFiniteSet(C(reg))
        <3>1. IsFiniteSet(0..n - 1)
            BY <1>0, FS_Interval
        <3> HIDE DEF C
        <3> QED BY <2>1, <3>1, FS_Subset
    <2>4. m \in C(reg) /\ \A x \in C(reg) : x <= m
        <3> HIDE DEF C
        <3> QED BY <2>1, <2>2, <2>3, MaxBounds
    <2> HIDE DEF m, d
    <2>5. m \in 0..n - 1 /\ pow2[m] <= d[reg] /\ m \in Nat
        BY <2>4
    <2>6. d[reg] < pow2[m + 1]
        <3>1. CASE m + 1 = n
            BY <2>0, <3>1
        <3>2. CASE m + 1 # n
            <4>1. m + 1 \in 0..n - 1 /\ ~(m + 1 <= m)
                BY <1>0, <2>5, <3>2
            <4>2. ~(pow2[m + 1] <= d[reg])
                BY <2>4, <4>1
            <4>3. pow2[m + 1] \in Nat
                BY <2>5, Pow2Is
            <4> QED BY <2>0, <4>2, <4>3
        <3> QED BY <3>1, <3>2
    <2>7. m \in Marked(s, reg)
        BY <2>0, <2>5, <2>6, MaskIs DEF d
    <2> QED BY <2>7 DEF m, d
<1>2. dump_positions(s) = D
    BY DEF dump_positions
<1>3. non_zero_registers(s) = Cardinality(R)
    <2>1. \A reg \in 0..M - 1 : d[reg] # 0 <=> d[reg] > 0
        <3> SUFFICES ASSUME NEW reg \in 0..M - 1 PROVE d[reg] # 0 <=> d[reg] > 0
            OBVIOUS
        <3>1. d[reg] \in Nat
            BY MaskIs
        <3> HIDE DEF d
        <3> QED BY <3>1
    <2> HIDE DEF d
    <2>2. {reg \in 0..M - 1 : d[reg] # 0} = R
        BY <2>1
    <2> QED BY <2>2 DEF non_zero_registers, d
<1>4. Cardinality(D) = Cardinality(R)
    <2>1. IsFiniteSet(R)
        <3>1. IsFiniteSet(0..M - 1) /\ R \subseteq 0..M - 1
            BY <1>0, FS_Interval
        <3> HIDE DEF R
        <3> QED BY <3>1, FS_Subset
    <2> DEFINE h == [reg \in R |-> <<reg, Max(C(reg))>>]
    <2> HIDE DEF R, C
    <2>2. h \in [R -> D] /\ (\A x, y \in R : h[x] = h[y] => x = y) /\ \A e \in D : \E x \in R : h[x] = e
        OBVIOUS
    <2> HIDE DEF h, D
    <2>3. h \in Bijection(R, D)
        BY <2>2 DEF Bijection, Injection, Surjection, IsInjective
    <2>4. ExistsBijection(R, D)
        BY <2>3 DEF ExistsBijection
    <2> QED BY <2>1, <2>4, FS_Bijection
<1>5. ASSUME NEW e \in D PROVE e[1] * n + e[2] \in s
    <2>1. PICK reg \in R : e = <<reg, Max(C(reg))>>
        OBVIOUS
    <2>2. Max(C(reg)) \in Marked(s, reg)
        BY <1>1
    <2> HIDE DEF C
    <2>3. reg * n + Max(C(reg)) \in s
        BY <2>2 DEF Marked
    <2> QED BY <2>1, <2>3
<1> HIDE DEF D, R
<1> QED BY <1>2, <1>3, <1>4, <1>5

\* The counts of the positions add up to the bits.
LEMMA CountsAdd ==
    ASSUME NEW s, Addressed(s)
    PROVE  MapThenSumSet(LAMBDA z : bit_counts(s)[z], 0..BitsPerReg - 1) = Cardinality(s)
<1> DEFINE n == BitsPerReg
           c == bit_counts(s)
           S == 0..n - 1
           w == Totals(c, S)
           Upto(k) == {b \in s : b % n < k}
           At(k) == {b \in s : b % n = k}
<1>0. n \in Nat /\ n >= 1 /\ IsFiniteSet(S)
    BY Widths, FS_Interval
<1>1. IsFiniteSet(s)
    <2>1. IsFiniteSet(0..TotalBits - 1) /\ s \subseteq 0..TotalBits - 1
        BY Widths, FS_Interval DEF Addressed
    <2> QED BY <2>1, FS_Subset
<1>2. \A k : IsFiniteSet(Upto(k)) /\ IsFiniteSet(At(k)) /\ Cardinality(At(k)) \in Nat /\ Cardinality(Upto(k)) \in Nat
    <2>1. \A k : Upto(k) \in SUBSET s /\ At(k) \in SUBSET s
        OBVIOUS
    <2> HIDE DEF Upto, At
    <2> QED BY <1>1, <2>1, FS_Subset, FS_CardinalityType
<1>3. \A k \in S : c[k] = Cardinality(At(k))
    BY DEF bit_counts
<1>4. MapThenSumSet(LAMBDA z : bit_counts(s)[z], 0..BitsPerReg - 1) = w[S]
    BY DEF MapThenSumSet, MapThenFoldSet, Totals, TotalStep, SomeOf
<1>a. \A b \in s : b % n \in 0..n - 1
    <2> HIDE DEF n
    <2>1. \A b \in 0..TotalBits - 1 : b % n \in 0..n - 1
        BY BitParts DEF n
    <2> QED BY <2>1 DEF Addressed
<1>b. \A b \in s : b % n \in Nat /\ b % n < n
    <2> HIDE DEF n
    <2> QED BY <1>0, <1>a
<1> HIDE DEF c, n
<1>5. Valued(c, S)
    BY <1>2, <1>3 DEF Valued
<1> HIDE DEF S, w
<1>6. AreSums(w, c, S) /\ AnyTaken(w, c, S)
    BY <1>0, <1>5, SumsAre, SumsTake DEF w
<1>7. ASSUME NEW k \in S
      PROVE  Cardinality(Upto(k + 1)) = Cardinality(At(k)) + Cardinality(Upto(k))
    <2>1. k \in Nat
        BY <1>0 DEF S
    <2>2. \A b \in s : (b % n < k + 1 <=> b % n = k \/ b % n < k) /\ ~(b % n = k /\ b % n < k)
        BY <1>b, <2>1
    <2>3. Upto(k + 1) = At(k) \cup Upto(k) /\ At(k) \cap Upto(k) = {}
        BY <2>2
    <2> HIDE DEF Upto, At
    <2>4. Cardinality(At(k) \cup Upto(k)) = Cardinality(At(k)) + Cardinality(Upto(k)) - Cardinality(At(k) \cap Upto(k))
        BY <1>2, FS_Union
    <2>5. Cardinality(At(k) \cap Upto(k)) = 0
        BY <2>3, FS_EmptySet
    <2>6. Cardinality(Upto(k + 1)) = Cardinality(At(k)) + Cardinality(Upto(k)) - 0
        BY <2>3, <2>4, <2>5, Zenon
    <2> QED BY <1>2, <2>6
<1> DEFINE G == {k \in 0..n : w[0..k - 1] = Cardinality(Upto(k))}
<1>8. 0 \in G
    <2>1. \A b \in s : ~(b % n < 0)
        BY <1>b
    <2>2. Upto(0) = {}
        BY <2>1
    <2>3. 0..0 - 1 = {} /\ 0 \in 0..n
        BY <1>0
    <2>4. w[{}] = 0
        BY <1>6 DEF AreSums
    <2> HIDE DEF Upto
    <2> QED BY <2>2, <2>3, <2>4, FS_EmptySet
<1>9. ASSUME NEW k \in 1..n, k - 1 \in G
      PROVE  k \in G
    <2>1. k - 1 \in S /\ 0..k - 1 \in SUBSET S /\ k - 1 \in 0..k - 1 /\ (0..k - 1) \ {k - 1} = 0..(k - 1) - 1
          /\ (k - 1) + 1 = k /\ k \in 0..n
        BY <1>0 DEF S
    <2>2. w[0..k - 1] = c[k - 1] + w[(0..k - 1) \ {k - 1}]
        BY <1>6, <2>1 DEF AnyTaken
    <2> HIDE DEF Upto, At
    <2>3. w[0..k - 1] = Cardinality(At(k - 1)) + Cardinality(Upto(k - 1))
        BY <1>3, <1>9, <2>1, <2>2
    <2> QED BY <1>7, <2>1, <2>3
<1>10. n \in G
    <2> HIDE DEF G
    <2>1. \A k \in 0..n : k \in G
        BY <1>0, <1>8, <1>9, Upward
    <2> QED BY <1>0, <2>1
<1>11. Upto(n) = s
    BY <1>b
<1> HIDE DEF Upto
<1>12. w[S] = Cardinality(s)
    BY <1>10, <1>11 DEF S
<1> QED BY <1>4, <1>12

-----------------------------------------------------------------------------
(* The order of the tokens is total.                                         *)

Agree(a, b, n) == n \in Nat /\ n <= Len(a) /\ n <= Len(b) /\ \A i \in 1..n : a[i] = b[i]

Sooner(a, b) ==
    \E n : /\ Agree(a, b, n) /\ n < Len(b)
           /\ n = Len(a) \/ (n < Len(a) /\ a[n + 1] < b[n + 1])

\* The order of the model, by the prefix that agrees.
LEMMA SoonerIs ==
    ASSUME NEW a \in Seq(Nat), NEW b \in Seq(Nat)
    PROVE  Before(a, b) <=> Sooner(a, b)
<1> DEFINE m == Min({Len(a), Len(b)})
<1>1. m \in Nat /\ m <= Len(a) /\ m <= Len(b) /\ (m = Len(a) \/ m = Len(b))
    <2>1. {Len(a), Len(b)} \subseteq Nat /\ {Len(a), Len(b)} # {}
        OBVIOUS
    <2>2. m \in {Len(a), Len(b)} /\ \A x \in {Len(a), Len(b)} : m <= x
        BY <2>1, MinBounds
    <2> HIDE DEF m
    <2> QED BY <2>1, <2>2
<1> HIDE DEF m
<1>2. ASSUME NEW n \in Nat, n <= Len(a), n <= Len(b)
      PROVE  SubSeq(a, 1, n) = SubSeq(b, 1, n) <=> \A i \in 1..n : a[i] = b[i]
    <2>1. /\ SubSeq(a, 1, n) = [i \in 1..n |-> a[i]]
          /\ SubSeq(b, 1, n) = [i \in 1..n |-> b[i]]
        BY <1>2
    <2>2. ASSUME [i \in 1..n |-> a[i]] = [i \in 1..n |-> b[i]], NEW i \in 1..n
          PROVE  a[i] = b[i]
        <3>1. [j \in 1..n |-> a[j]][i] = [j \in 1..n |-> b[j]][i]
            BY <2>2
        <3> QED BY <3>1
    <2>3. ASSUME \A i \in 1..n : a[i] = b[i]
          PROVE  [i \in 1..n |-> a[i]] = [i \in 1..n |-> b[i]]
        BY <2>3
    <2> QED BY <2>1, <2>2, <2>3
<1>3. ASSUME Before(a, b) PROVE Sooner(a, b)
    <2>1. PICK n \in 0..m : /\ SubSeq(a, 1, n) = SubSeq(b, 1, n)
                            /\ n = Len(a) \/ (n < Len(b) /\ a[n + 1] < b[n + 1])
        BY <1>3 DEF Before, m
    <2>2. Agree(a, b, n) /\ a # b
        <3>1. n \in Nat /\ n <= Len(a) /\ n <= Len(b)
            BY <1>1
        <3> QED BY <1>2, <1>3, <2>1, <3>1 DEF Agree, Before
    <2>3. n = Len(a) => n < Len(b)
        <3>1. ASSUME n = Len(a), n = Len(b) PROVE a = b
            <4>1. a = [i \in 1..n |-> a[i]] /\ b = [i \in 1..n |-> b[i]]
                <5>1. a = [i \in 1..Len(a) |-> a[i]] /\ b = [i \in 1..Len(b) |-> b[i]]
                    OBVIOUS
                <5> QED BY <3>1, <5>1, Zenon
            <4>2. \A i \in 1..n : a[i] = b[i]
                BY <2>2 DEF Agree
            <4> QED BY <4>1, <4>2
        <3> QED BY <2>2, <3>1 DEF Agree
    <2>4. n < Len(b) /\ (n = Len(a) \/ (n < Len(a) /\ a[n + 1] < b[n + 1]))
        <3>1. n <= Len(a) /\ n \in Nat /\ Len(a) \in Nat
            BY <2>2 DEF Agree
        <3> QED BY <2>1, <2>3, <3>1
    <2> QED BY <2>2, <2>4 DEF Sooner
<1>4. ASSUME Sooner(a, b) PROVE Before(a, b)
    <2>1. PICK n : /\ Agree(a, b, n) /\ n < Len(b)
                   /\ n = Len(a) \/ (n < Len(a) /\ a[n + 1] < b[n + 1])
        BY <1>4 DEF Sooner
    <2>2. n \in 0..m
        BY <1>1, <2>1 DEF Agree
    <2>3. a # b
        <3>1. CASE n = Len(a)
            BY <2>1, <3>1
        <3>2. CASE n < Len(a)
            <4>1. n + 1 \in 1..Len(a) /\ n + 1 \in 1..Len(b)
                BY <2>1, <3>2 DEF Agree
            <4>2. a[n + 1] \in Nat /\ b[n + 1] \in Nat
                BY <4>1
            <4> QED BY <2>1, <3>2, <4>2
        <3> QED BY <2>1, <3>1, <3>2
    <2>4. SubSeq(a, 1, n) = SubSeq(b, 1, n)
        BY <1>2, <2>1 DEF Agree
    <2> QED BY <2>1, <2>2, <2>3, <2>4 DEF Before, m
<1> QED BY <1>3, <1>4

\* Of two different texts one is first, and the order is transitive: the
\* sort of content_key is one.
LEMMA SoonerTotal ==
    ASSUME NEW a \in Seq(Nat), NEW b \in Seq(Nat), a # b
    PROVE  Sooner(a, b) \/ Sooner(b, a)
<1> DEFINE T == {i \in Nat \ {0} : i > Len(a) \/ i > Len(b) \/ a[i] # b[i]}
<1>1. T \subseteq Nat /\ Len(a) + 1 \in T
    OBVIOUS
<1>2. PICK i \in T : \A j \in T : i <= j
    <2> HIDE DEF T
    <2> QED BY <1>1, LeastNatural
<1> DEFINE n == i - 1
<1>3. n \in Nat /\ i = n + 1 /\ \A j \in 1..n : j \notin T
    BY <1>2
<1>4. \A j \in 1..n : j <= Len(a) /\ j <= Len(b) /\ a[j] = b[j]
    BY <1>3
<1>5. i > Len(a) \/ i > Len(b) \/ a[i] # b[i]
    BY <1>2
<1> HIDE DEF T, n
<1>6. Agree(a, b, n) /\ Agree(b, a, n)
    <2>1. n <= Len(a) /\ n <= Len(b)
        <3>1. CASE n = 0
            BY <3>1
        <3>2. CASE n # 0
            <4>1. n \in 1..n
                BY <1>3, <3>2
            <4> QED BY <1>4, <4>1
        <3> QED BY <3>1, <3>2
    <2> QED BY <1>3, <1>4, <2>1 DEF Agree
<1>7. ~(Len(a) = n /\ Len(b) = n)
    <2>1. ASSUME Len(a) = n, Len(b) = n PROVE a = b
        BY <1>4, <2>1
    <2> QED BY <2>1
<1>8. CASE i > Len(a)
    <2>1. n = Len(a) /\ n < Len(b)
        BY <1>3, <1>6, <1>7, <1>8 DEF Agree
    <2> QED BY <1>6, <2>1 DEF Sooner
<1>9. CASE i > Len(b)
    <2>1. n = Len(b) /\ n < Len(a)
        BY <1>3, <1>6, <1>7, <1>9 DEF Agree
    <2> QED BY <1>6, <2>1 DEF Sooner
<1>10. CASE ~(i > Len(a)) /\ ~(i > Len(b))
    <2>1. n < Len(a) /\ n < Len(b) /\ n + 1 \in 1..Len(a) /\ n + 1 \in 1..Len(b) /\ a[n + 1] # b[n + 1]
        BY <1>3, <1>5, <1>10
    <2>2. a[n + 1] \in Nat /\ b[n + 1] \in Nat
        BY <2>1
    <2>3. a[n + 1] < b[n + 1] \/ b[n + 1] < a[n + 1]
        BY <2>1, <2>2
    <2> QED BY <1>6, <2>1, <2>3 DEF Sooner
<1> QED BY <1>8, <1>9, <1>10

\* The second half: before what is before.
LEMMA SoonerOrder ==
    ASSUME NEW a \in Seq(Nat), NEW b \in Seq(Nat), NEW c \in Seq(Nat), Sooner(a, b), Sooner(b, c)
    PROVE  Sooner(a, c)
<1>1. PICK n : /\ Agree(a, b, n) /\ n < Len(b)
               /\ n = Len(a) \/ (n < Len(a) /\ a[n + 1] < b[n + 1])
    BY DEF Sooner
<1>2. PICK m : /\ Agree(b, c, m) /\ m < Len(c)
               /\ m = Len(b) \/ (m < Len(b) /\ b[m + 1] < c[m + 1])
    BY DEF Sooner
<1>3. n \in Nat /\ m \in Nat
    BY <1>1, <1>2 DEF Agree
<1>4. CASE n < m
    <2>1. Agree(a, c, n) /\ n < Len(c) /\ b[n + 1] = c[n + 1]
        BY <1>1, <1>2, <1>3, <1>4 DEF Agree
    <2> QED BY <1>1, <2>1 DEF Sooner
<1>5. CASE m < n
    <2>1. Agree(a, c, m) /\ m < Len(a) /\ a[m + 1] = b[m + 1]
        BY <1>1, <1>2, <1>3, <1>5 DEF Agree
    <2>2. m # Len(b)
        BY <1>1, <1>3, <1>5
    <2> QED BY <1>2, <2>1, <2>2 DEF Sooner
<1>6. CASE n = m
    <2>1. Agree(a, c, n) /\ n < Len(c) /\ n < Len(b)
        BY <1>1, <1>2, <1>3, <1>6 DEF Agree
    <2>2. n < Len(a) => a[n + 1] < c[n + 1]
        <3>1. ASSUME n < Len(a)
              PROVE  a[n + 1] \in Nat /\ b[n + 1] \in Nat /\ c[n + 1] \in Nat
            <4>1. n + 1 \in 1..Len(a) /\ n + 1 \in 1..Len(b) /\ n + 1 \in 1..Len(c)
                BY <1>3, <2>1, <3>1
            <4> QED BY <4>1
        <3>2. ASSUME n < Len(a) PROVE a[n + 1] < c[n + 1]
            <4>1. a[n + 1] < b[n + 1] /\ b[n + 1] < c[n + 1]
                BY <1>1, <1>2, <1>3, <1>6, <2>1, <3>2
            <4> QED BY <3>1, <3>2, <4>1
        <3> QED BY <3>2
    <2>3. n = Len(a) \/ n < Len(a)
        BY <1>1
    <2> QED BY <2>1, <2>2, <2>3 DEF Sooner
<1> QED BY <1>3, <1>4, <1>5, <1>6

\* So a finite set of tokens is listed whole.
LEMMA RankedIs ==
    ASSUME NEW S, S \subseteq Seq(Nat), IsFiniteSet(S)
    PROVE  /\ Cardinality(S) \in Nat
           /\ Ranked(S) \in Seq(S) /\ Len(Ranked(S)) = Cardinality(S)
           /\ {Ranked(S)[i] : i \in 1..Cardinality(S)} = S
<1> DEFINE n == Cardinality(S)
           low(x) == {y \in S : Before(y, x)}
           r == [x \in S |-> Cardinality(low(x)) + 1]
           a == Ranked(S)
<1>1. n \in Nat
    BY FS_CardinalityType
<1>2. ASSUME NEW x \in S
      PROVE  IsFiniteSet(low(x)) /\ Cardinality(low(x)) \in 0..n - 1
    <2>1. low(x) \in SUBSET S /\ x \notin low(x)
        BY DEF Before
    <2> HIDE DEF low
    <2>2. IsFiniteSet(low(x)) /\ Cardinality(low(x)) <= n /\ Cardinality(low(x)) # n
        BY <2>1, FS_Subset
    <2>3. Cardinality(low(x)) \in Nat
        BY <2>2, FS_CardinalityType
    <2> QED BY <1>1, <2>2, <2>3
<1>3. ASSUME NEW x \in S, NEW y \in S, Before(x, y)
      PROVE  Cardinality(low(x)) # Cardinality(low(y))
    <2>1. low(x) \in SUBSET low(y) /\ x \in low(y) /\ x \notin low(x)
        <3>1. ASSUME NEW z \in S, Before(z, x) PROVE Before(z, y)
            <4>1. x \in Seq(Nat) /\ y \in Seq(Nat) /\ z \in Seq(Nat)
                OBVIOUS
            <4>2. Sooner(z, x) /\ Sooner(x, y)
                BY <1>3, <3>1, <4>1, SoonerIs
            <4> QED BY <4>1, <4>2, SoonerIs, SoonerOrder
        <3>2. ~Before(x, x)
            BY DEF Before
        <3> QED BY <1>3, <3>1, <3>2
    <2> HIDE DEF low
    <2>2. IsFiniteSet(low(y))
        BY <1>2
    <2> QED BY <2>1, <2>2, FS_Subset
<1>4. \A x, y \in S : r[x] = r[y] => x = y
    <2> SUFFICES ASSUME NEW x \in S, NEW y \in S, r[x] = r[y] PROVE x = y
        OBVIOUS
    <2>1. Cardinality(low(x)) = Cardinality(low(y))
        <3>1. Cardinality(low(x)) \in Nat /\ Cardinality(low(y)) \in Nat
            <4> HIDE DEF low
            <4> QED BY <1>1, <1>2
        <3> HIDE DEF low
        <3> QED BY <3>1
    <2>2. ~Before(x, y) /\ ~Before(y, x)
        <3> HIDE DEF low
        <3> QED BY <1>3, <2>1
    <2>3. x \in Seq(Nat) /\ y \in Seq(Nat)
        OBVIOUS
    <2> HIDE DEF low, r
    <2> QED BY <2>2, <2>3, SoonerIs, SoonerTotal
<1>5. r \in [S -> 1..n]
    <2> HIDE DEF low
    <2>1. \A x \in S : Cardinality(low(x)) + 1 \in 1..n
        BY <1>1, <1>2
    <2> QED BY <2>1
<1>6. \A i \in 1..n : \E x \in S : r[x] = i
    <2>1. IsFiniteSet(1..n) /\ Cardinality(1..n) = n
        <3>1. IsFiniteSet(1..n) /\ Cardinality(1..n) = IF 1 > n THEN 0 ELSE n - 1 + 1
            BY <1>1, FS_Interval
        <3> QED BY <1>1, <3>1
    <2> HIDE DEF r
    <2>2. r \in Injection(S, 1..n)
        BY <1>4, <1>5 DEF Injection, IsInjective
    <2>3. r \in Surjection(S, 1..n)
        BY <2>1, <2>2, FS_Injection
    <2> QED BY <2>3 DEF Surjection
<1>7. a = [i \in 1..n |-> CHOOSE x \in S : Cardinality(low(x)) = i - 1]
    BY DEF Ranked
<1>8. \A i \in 1..n : a[i] \in S /\ r[a[i]] = i
    <2> SUFFICES ASSUME NEW i \in 1..n PROVE a[i] \in S /\ r[a[i]] = i
        OBVIOUS
    <2>1. PICK x \in S : Cardinality(low(x)) = i - 1
        <3>1. PICK x \in S : r[x] = i
            BY <1>6
        <3>2. Cardinality(low(x)) \in Nat /\ Cardinality(low(x)) + 1 = i
            <4>1. Cardinality(low(x)) \in 0..n - 1
                <5> HIDE DEF low
                <5> QED BY <1>2
            <4> HIDE DEF low
            <4> QED BY <3>1, <4>1
        <3> HIDE DEF low
        <3> QED BY <3>2
    <2> DEFINE c == CHOOSE z \in S : Cardinality(low(z)) = i - 1
    <2>2. c \in S /\ Cardinality(low(c)) = i - 1
        <3> HIDE DEF low
        <3> QED BY <2>1
    <2>3. a[i] = c
        <3> HIDE DEF a, c, low
        <3>1. \A j \in 1..n : a[j] = CHOOSE z \in S : Cardinality(low(z)) = j - 1
            BY <1>7
        <3> QED BY <3>1 DEF c
    <2>4. r[c] = i
        <3> HIDE DEF c, low
        <3> QED BY <2>2
    <2> HIDE DEF c, a, low, r
    <2> QED BY <2>2, <2>3, <2>4
<1>9. DOMAIN a = 1..n /\ a = [i \in 1..n |-> a[i]]
    BY <1>7
<1> HIDE DEF a, r
<1>10. a \in [1..n -> S]
    BY <1>8, <1>9
<1>11. a \in Seq(S) /\ Len(a) = n
    <2> HIDE DEF n
    <2> QED BY <1>1, <1>10
<1>12. \A x \in S : \E i \in 1..n : a[i] = x
    <2> SUFFICES ASSUME NEW x \in S PROVE \E i \in 1..n : a[i] = x
        OBVIOUS
    <2>1. r[x] \in 1..n
        BY <1>5
    <2>2. a[r[x]] \in S /\ r[a[r[x]]] = r[x]
        BY <1>8, <2>1
    <2> QED BY <1>4, <2>1, <2>2
<1>13. {a[i] : i \in 1..n} = S
    BY <1>8, <1>12
<1> QED BY <1>1, <1>11, <1>13 DEF a

-----------------------------------------------------------------------------
(* Content keys: the parts between zeros are the tokens.                     *)

\* What it is to be a part.
LEMMA PartsAre ==
    ASSUME NEW x, Len(x) \in Nat, NEW t
    PROVE  t \in Parts(x) <=> \E i, j \in Nat : IsPart(x, i, j) /\ t = PartOf(x, i, j)
<1> DEFINE Ends == (1..Len(x) + 1) \X (0..Len(x))
<1>1. ASSUME t \in Parts(x) PROVE \E i, j \in Nat : IsPart(x, i, j) /\ t = PartOf(x, i, j)
    <2>1. PICK q \in Ends : IsPart(x, q[1], q[2]) /\ t = PartOf(x, q[1], q[2])
        BY <1>1 DEF Parts
    <2>2. q[1] \in Nat /\ q[2] \in Nat
        OBVIOUS
    <2> QED BY <2>1, <2>2
<1>2. ASSUME NEW i \in Nat, NEW j \in Nat, IsPart(x, i, j), t = PartOf(x, i, j)
      PROVE  t \in Parts(x)
    <2>1. <<i, j>> \in {q \in Ends : IsPart(x, q[1], q[2])}
        BY <1>2 DEF IsPart
    <2> HIDE DEF Ends
    <2> QED BY <1>2, <2>1 DEF Parts, Ends
<1> QED BY <1>1, <1>2

\* A text without a zero is its only part.
LEMMA PartsOne ==
    ASSUME NEW t \in Seq(Nat), ZeroFree(t)
    PROVE  Parts(t) = {t}
<1> DEFINE n == Len(t)
<1>1. n \in Nat /\ t = [k \in 1..n |-> t[k]]
    OBVIOUS
<1>2. IsPart(t, 1, n) /\ PartOf(t, 1, n) = t
    <2>1. n - 1 + 1 = n /\ \A k \in 1..n : 1 + k - 1 = k
        BY <1>1
    <2>2. PartOf(t, 1, n) = [k \in 1..n |-> t[k]]
        BY <2>1 DEF PartOf
    <2>3. IsPart(t, 1, n)
        BY <1>1 DEF IsPart, ZeroFree
    <2> QED BY <1>1, <2>2, <2>3
<1>3. ASSUME NEW i \in Nat, NEW j \in Nat, IsPart(t, i, j)
      PROVE  i = 1 /\ j = n
    <2>1. i = 1
        <3>1. ASSUME i # 1 PROVE FALSE
            <4>1. i - 1 \in 1..n /\ t[i - 1] = 0
                BY <1>1, <1>3, <3>1 DEF IsPart
            <4> QED BY <4>1 DEF ZeroFree
        <3> QED BY <3>1
    <2>2. j = n
        <3>1. ASSUME j # n PROVE FALSE
            <4>1. j + 1 \in 1..n /\ t[j + 1] = 0
                BY <1>1, <1>3, <3>1 DEF IsPart
            <4> QED BY <4>1 DEF ZeroFree
        <3> QED BY <3>1
    <2> QED BY <2>1, <2>2
<1>4. ASSUME NEW u PROVE u \in Parts(t) <=> u = t
    <2>1. ASSUME u \in Parts(t) PROVE u = t
        <3>1. PICK i \in Nat, j \in Nat : IsPart(t, i, j) /\ u = PartOf(t, i, j)
            BY <2>1, PartsAre
        <3> QED BY <1>2, <1>3, <3>1
    <2>2. t \in Parts(t)
        BY <1>1, <1>2, PartsAre
    <2> QED BY <2>1, <2>2
<1> QED BY <1>4

\* y is x, a zero and t.
Extends(y, x, t) ==
    /\ Len(y) = Len(x) + 1 + Len(t)
    /\ \A k \in 1..Len(x) : y[k] = x[k]
    /\ y[Len(x) + 1] = 0
    /\ \A k \in 1..Len(t) : y[Len(x) + 1 + k] = t[k]

\* A zero and another text adds the parts of that text.
LEMMA PartsMore ==
    ASSUME NEW x, Len(x) \in Nat, NEW t, t \in Seq(Nat), NEW y, Extends(y, x, t)
    PROVE  Parts(y) = Parts(x) \cup Parts(t)
<1> DEFINE a == Len(x)
           n == Len(t)
<1>1. a \in Nat /\ n \in Nat /\ Len(y) = a + 1 + n /\ Len(y) \in Nat
    BY DEF Extends
<1>2. /\ \A k \in 1..a : y[k] = x[k]
      /\ y[a + 1] = 0
      /\ \A k \in 1..n : y[a + 1 + k] = t[k]
    BY DEF Extends
<1> HIDE DEF a, n
<1>3. \A k \in a + 2..a + 1 + n : k - a - 1 \in 1..n /\ y[k] = t[k - a - 1]
    <2> SUFFICES ASSUME NEW k \in a + 2..a + 1 + n
                 PROVE  k - a - 1 \in 1..n /\ y[k] = t[k - a - 1]
        OBVIOUS
    <2>1. k - a - 1 \in 1..n /\ a + 1 + (k - a - 1) = k
        BY <1>1
    <2> QED BY <1>2, <2>1
<1>4. ASSUME NEW i \in Nat, NEW j \in Nat, j <= a
      PROVE  /\ IsPart(y, i, j) <=> IsPart(x, i, j)
             /\ i >= 1 => PartOf(y, i, j) = PartOf(x, i, j)
    <2>1. Len(x) = a
        BY DEF a
    <2>2. \A k \in i..j : i >= 1 => y[k] = x[k]
        BY <1>1, <1>2, <1>4
    <2>3. i \in 2..a + 1 => i - 1 \in 1..a
        BY <1>1
    <2>4. j < a => j + 1 \in 1..a
        BY <1>1
    <2>5. ASSUME IsPart(y, i, j) PROVE IsPart(x, i, j)
        <3>1. i >= 1 /\ i <= j + 1 /\ (i = 1 \/ y[i - 1] = 0) /\ (j = a + 1 + n \/ y[j + 1] = 0) /\ \A k \in i..j : y[k] # 0
            BY <1>1, <2>5 DEF IsPart
        <3>2. i \in 1..a + 1 /\ j \in 0..a
            BY <1>1, <1>4, <3>1
        <3>3. i = 1 \/ x[i - 1] = 0
            BY <1>1, <1>2, <2>3, <3>1, <3>2
        <3>4. j = a \/ x[j + 1] = 0
            BY <1>1, <1>2, <1>4, <2>4, <3>1
        <3>5. \A k \in i..j : x[k] # 0
            BY <2>2, <3>1
        <3> QED BY <2>1, <3>1, <3>2, <3>3, <3>4, <3>5 DEF IsPart
    <2>6. ASSUME IsPart(x, i, j) PROVE IsPart(y, i, j)
        <3>1. i \in 1..a + 1 /\ i <= j + 1 /\ (i = 1 \/ x[i - 1] = 0) /\ (j = a \/ x[j + 1] = 0) /\ \A k \in i..j : x[k] # 0
            BY <1>1, <2>1, <2>6 DEF IsPart
        <3>2. i \in 1..Len(y) + 1 /\ j \in 0..Len(y)
            BY <1>1, <1>4, <3>1
        <3>3. i = 1 \/ y[i - 1] = 0
            BY <1>1, <1>2, <2>3, <3>1
        <3>4. y[j + 1] = 0
            BY <1>1, <1>2, <1>4, <2>4, <3>1
        <3>5. \A k \in i..j : y[k] # 0
            BY <1>1, <2>2, <3>1
        <3> QED BY <3>1, <3>2, <3>3, <3>4, <3>5 DEF IsPart
    <2>7. ASSUME i >= 1 PROVE PartOf(y, i, j) = PartOf(x, i, j)
        <3>1. \A k \in 1..j - i + 1 : i + k - 1 \in i..j
            BY <2>7
        <3> QED BY <2>2, <2>7, <3>1 DEF PartOf
    <2> QED BY <2>5, <2>6, <2>7
<1>5. ASSUME NEW i \in Nat, NEW j \in Nat, i >= a + 2, j >= a + 1
      PROVE  /\ i - a - 1 \in Nat /\ j - a - 1 \in Nat
             /\ IsPart(y, i, j) <=> IsPart(t, i - a - 1, j - a - 1)
             /\ IsPart(y, i, j) => PartOf(y, i, j) = PartOf(t, i - a - 1, j - a - 1)
    <2> DEFINE d == i - a - 1
               e == j - a - 1
    <2>1. /\ Len(t) = n /\ d \in Nat /\ e \in Nat /\ d >= 1 /\ i = a + 1 + d /\ j = a + 1 + e
        BY <1>1, <1>5 DEF n
    <2> HIDE DEF d, e
    <2>2. i \in 1..Len(y) + 1 <=> d \in 1..n + 1
        BY <1>1, <2>1
    <2>3. (j \in 0..Len(y) <=> e \in 0..n) /\ (i <= j + 1 <=> d <= e + 1) /\ (j = Len(y) <=> e = n)
        BY <1>1, <2>1
    <2>4. d \in 1..n + 1 => (i = 1 \/ y[i - 1] = 0 <=> d = 1 \/ t[d - 1] = 0)
        <3>1. CASE d = 1
            <4>1. i - 1 = a + 1
                BY <1>1, <2>1, <3>1
            <4> QED BY <1>2, <3>1, <4>1
        <3>2. CASE d # 1
            <4>1. d \in 1..n + 1 => i # 1 /\ i - 1 \in a + 2..a + 1 + n /\ (i - 1) - a - 1 = d - 1
                BY <1>1, <2>1, <3>2
            <4> QED BY <1>3, <3>2, <4>1
        <3> QED BY <3>1, <3>2
    <2>5. e \in 0..n => (j = Len(y) \/ y[j + 1] = 0 <=> e = n \/ t[e + 1] = 0)
        <3>1. e \in 0..n /\ e # n =>
                j # Len(y) /\ j + 1 \in a + 2..a + 1 + n /\ (j + 1) - a - 1 = e + 1
            BY <1>1, <2>1, <2>3
        <3> QED BY <1>3, <2>3, <3>1
    <2>6. e \in 0..n => ((\A k \in i..j : y[k] # 0) <=> (\A k \in d..e : t[k] # 0))
        <3>1. ASSUME e \in 0..n, \A k \in i..j : y[k] # 0, NEW k \in d..e
              PROVE  t[k] # 0
            <4>1. a + 1 + k \in i..j /\ a + 1 + k \in a + 2..a + 1 + n /\ (a + 1 + k) - a - 1 = k
                BY <1>1, <2>1, <3>1
            <4> QED BY <1>3, <3>1, <4>1
        <3>2. ASSUME e \in 0..n, \A k \in d..e : t[k] # 0, NEW k \in i..j
              PROVE  y[k] # 0
            <4>1. k - a - 1 \in d..e /\ k \in a + 2..a + 1 + n
                BY <1>1, <2>1, <3>2
            <4> QED BY <1>3, <3>2, <4>1
        <3> QED BY <3>1, <3>2
    <2>7. IsPart(y, i, j) <=> IsPart(t, d, e)
        <3>1. i \in 1..Len(y) + 1 /\ j \in 0..Len(y) <=> d \in 1..n + 1 /\ e \in 0..n
            BY <2>2, <2>3
        <3> QED BY <2>1, <2>3, <2>4, <2>5, <2>6, <3>1 DEF IsPart
    <2>8. IsPart(t, d, e) => PartOf(y, i, j) = PartOf(t, d, e)
        <3> SUFFICES ASSUME IsPart(t, d, e) PROVE PartOf(y, i, j) = PartOf(t, d, e)
            OBVIOUS
        <3>1. e \in 0..n /\ j - i + 1 = e - d + 1
            BY <1>1, <2>1 DEF IsPart
        <3>2. ASSUME NEW k \in 1..e - d + 1 PROVE y[i + k - 1] = t[d + k - 1]
            <4>1. i + k - 1 \in a + 2..a + 1 + n /\ (i + k - 1) - a - 1 = d + k - 1
                BY <1>1, <2>1, <3>1
            <4> QED BY <1>3, <4>1
        <3> QED BY <3>1, <3>2 DEF PartOf
    <2> QED BY <2>1, <2>7, <2>8 DEF d, e
<1>6. ASSUME NEW i \in Nat, NEW j \in Nat, ~(j <= a), IsPart(y, i, j)
      PROVE  i >= a + 2 /\ j >= a + 1
    <2>1. i <= j + 1 /\ \A k \in i..j : y[k] # 0
        BY <1>6 DEF IsPart
    <2>2. a + 1 \notin i..j
        BY <1>2, <2>1
    <2> QED BY <1>1, <1>6, <2>1, <2>2
<1>7. ASSUME NEW u \in Parts(y) PROVE u \in Parts(x) \cup Parts(t)
    <2>1. PICK i, j \in Nat : IsPart(y, i, j) /\ u = PartOf(y, i, j)
        BY <1>1, <1>7, PartsAre
    <2>2. CASE j <= a
        <3>1. i >= 1
            BY <2>1 DEF IsPart
        <3>2. IsPart(x, i, j) /\ u = PartOf(x, i, j)
            BY <1>4, <2>1, <2>2, <3>1
        <3> QED BY <3>2, PartsAre
    <2>3. CASE ~(j <= a)
        <3>1. i >= a + 2 /\ j >= a + 1
            BY <1>6, <2>1, <2>3
        <3> DEFINE d == i - a - 1
                   e == j - a - 1
        <3>2. d \in Nat /\ e \in Nat /\ IsPart(t, d, e) /\ u = PartOf(t, d, e)
            BY <1>5, <2>1, <3>1
        <3>3. Len(t) \in Nat
            OBVIOUS
        <3> HIDE DEF d, e
        <3> QED BY <3>2, <3>3, PartsAre
    <2> QED BY <2>2, <2>3
<1>8. ASSUME NEW u \in Parts(x) PROVE u \in Parts(y)
    <2>1. PICK i, j \in Nat : IsPart(x, i, j) /\ u = PartOf(x, i, j)
        BY <1>8, PartsAre
    <2>2. i >= 1 /\ j <= a
        BY <2>1 DEF IsPart, a
    <2>3. IsPart(y, i, j) /\ u = PartOf(y, i, j)
        BY <1>4, <2>1, <2>2
    <2> QED BY <1>1, <2>3, PartsAre
<1>9. ASSUME NEW u \in Parts(t) PROVE u \in Parts(y)
    <2>1. PICK d, e \in Nat : IsPart(t, d, e) /\ u = PartOf(t, d, e)
        <3>1. Len(t) \in Nat
            OBVIOUS
        <3> QED BY <1>9, <3>1, PartsAre
    <2> DEFINE i == a + 1 + d
               j == a + 1 + e
    <2>2. d >= 1
        BY <2>1 DEF IsPart
    <2>3. i \in Nat /\ j \in Nat /\ i >= a + 2 /\ j >= a + 1 /\ i - a - 1 = d /\ j - a - 1 = e
        BY <1>1, <2>2
    <2> HIDE DEF i, j
    <2>4. IsPart(y, i, j) /\ u = PartOf(y, i, j)
        BY <1>5, <2>1, <2>3
    <2> QED BY <1>1, <2>3, <2>4, PartsAre
<1> QED BY <1>7, <1>8, <1>9

-----------------------------------------------------------------------------
(* The text that is hashed to a key.                                         *)

FlatStep(q, f, i) == IF i = 1 THEN q[i] ELSE f[i - 1] \o q[i]

FlatOn(q, f, n) == f = [i \in 1..n |-> FlatStep(q, f, i)]

\* FlattenSeq joins from the left.
LEMMA FlatChosen ==
    ASSUME NEW q, Len(q) # 0
    PROVE  FlattenSeq(q) = (CHOOSE f : FlatOn(q, f, Len(q)))[Len(q)]
BY DEF FlattenSeq, FlatOn, FlatStep

\* Such a function exists for any number of texts.
LEMMA FlatExists ==
    ASSUME NEW q, NEW n \in Nat
    PROVE  \E f : FlatOn(q, f, n)
<1> DEFINE G == {m \in 0..n : \E f : FlatOn(q, f, m)}
<1>1. 0 \in G
    <2> DEFINE z == [i \in 1..0 |-> 0]
    <2>1. z = [i \in 1..0 |-> FlatStep(q, z, i)]
        OBVIOUS
    <2>2. FlatOn(q, z, 0)
        BY <2>1 DEF FlatOn
    <2> HIDE DEF z
    <2> QED BY <2>2
<1>2. ASSUME NEW m \in 1..n, m - 1 \in G
      PROVE  m \in G
    <2>1. PICK f : FlatOn(q, f, m - 1)
        BY <1>2
    <2> DEFINE h == [i \in 1..m |-> IF i = m THEN FlatStep(q, f, m) ELSE f[i]]
    <2>2. \A i \in 1..m - 1 : f[i] = FlatStep(q, f, i) /\ h[i] = f[i] /\ i \in 1..m
        <3>1. \A i \in 1..m - 1 : i \in 1..m /\ i # m
            OBVIOUS
        <3>2. \A i \in 1..m - 1 : h[i] = f[i]
            BY <3>1
        <3>3. f = [i \in 1..m - 1 |-> FlatStep(q, f, i)]
            BY <2>1 DEF FlatOn
        <3> HIDE DEF h
        <3> QED BY <3>1, <3>2, <3>3
    <2>3. m \in Nat /\ m \in 1..m /\ h[m] = FlatStep(q, f, m)
        OBVIOUS
    <2>4. ASSUME NEW i \in 1..m
          PROVE  h[i] = FlatStep(q, h, i)
        <3>1. i = 1 \/ i - 1 \in 1..m - 1
            BY <2>3
        <3>2. i # 1 => h[i - 1] = f[i - 1]
            BY <2>2, <3>1
        <3>3. FlatStep(q, h, i) = FlatStep(q, f, i)
            <4> HIDE DEF h
            <4> QED BY <3>2 DEF FlatStep
        <3>4. i = m \/ i \in 1..m - 1
            BY <2>3
        <3>5. h[i] = FlatStep(q, f, i)
            <4> HIDE DEF h
            <4> QED BY <2>2, <2>3, <3>4
        <3> QED BY <3>3, <3>5
    <2>5. h = [i \in 1..m |-> h[i]]
        OBVIOUS
    <2> HIDE DEF h
    <2>6. FlatOn(q, h, m)
        BY <2>4, <2>5 DEF FlatOn
    <2> QED BY <2>6
<1> HIDE DEF G
<1>3. \A m \in 0..n : m \in G
    BY <1>1, <1>2, Upward
<1>4. n \in G
    BY <1>3
<1> QED BY <1>4 DEF G

Separated(l) == [i \in DOMAIN l |-> IF i = 1 THEN l[i] ELSE <<0>> \o l[i]]

Joined(S) == FlattenSeq(Separated(Ranked(S)))

\* The key hashes the joined tokens, whatever their order and number.
LEMMA KeyIs ==
    ASSUME NEW prefix, NEW tokens
    PROVE  content_key(prefix, tokens) = <<prefix, Joined(ToSet(tokens))>>
BY DEF content_key, Joined, Separated

\* What was joined can be told from the text.
LEMMA JoinedParts ==
    ASSUME NEW S, S \subseteq Seq(Nat), IsFiniteSet(S), S # {}
    PROVE  Parts(Joined(S)) = Pieces(S)
<1> DEFINE l == Ranked(S)
           n == Cardinality(S)
           q == Separated(l)
           f == CHOOSE g : FlatOn(q, g, n)
<1>1. /\ n \in Nat /\ n >= 1 /\ DOMAIN l = 1..n /\ {l[i] : i \in 1..n} = S
      /\ \A i \in 1..n : l[i] \in S
    <2>1. n \in Nat /\ n # 0
        BY FS_CardinalityType, FS_EmptySet
    <2>2. l \in Seq(S) /\ Len(l) = n /\ {l[i] : i \in 1..n} = S
        BY RankedIs
    <2> HIDE DEF l, n
    <2> QED BY <2>1, <2>2
<1> HIDE DEF l, n
<1>2. /\ DOMAIN q = 1..n /\ q = [i \in 1..n |-> q[i]]
      /\ \A i \in 1..n : q[i] = IF i = 1 THEN l[i] ELSE <<0>> \o l[i]
    BY <1>1 DEF Separated
<1>3. Len(q) = n
    BY <1>1, <1>2
<1>4. FlatOn(q, f, n)
    <2> HIDE DEF q
    <2> QED BY <1>1, FlatExists
<1>5. FlattenSeq(q) = f[n]
    <2> HIDE DEF q
    <2>1. Len(q) # 0
        BY <1>1, <1>3
    <2> QED BY <1>3, <2>1, FlatChosen
<1> HIDE DEF q, f
<1>6. \A i \in 1..n : f[i] = IF i = 1 THEN q[i] ELSE f[i - 1] \o q[i]
    BY <1>4 DEF FlatOn, FlatStep
<1> DEFINE Good(i) == f[i] \in Seq(Nat) /\ Parts(f[i]) = UNION {Parts(l[j]) : j \in 1..i}
           G == {k \in 0..n - 1 : Good(k + 1)}
<1>7. 0 \in G
    <2>1. 1 \in 1..n /\ 0 \in 0..n - 1
        BY <1>1
    <2>2. f[1] = l[1]
        BY <1>2, <1>6, <2>1
    <2>3. l[1] \in Seq(Nat)
        BY <1>1, <2>1
    <2>4. UNION {Parts(l[j]) : j \in 1..1} = Parts(l[1])
        <3>1. 1..1 = {1}
            OBVIOUS
        <3> QED BY <3>1
    <2>5. Good(1)
        BY <2>2, <2>3, <2>4
    <2> HIDE DEF Good
    <2> QED BY <2>1, <2>5
<1>8. ASSUME NEW k \in 1..n - 1, k - 1 \in G
      PROVE  k \in G
    <2>1. /\ k \in Nat /\ k + 1 \in 1..n /\ k + 1 # 1 /\ (k + 1) - 1 = k /\ (k - 1) + 1 = k
          /\ k \in 0..n - 1
        BY <1>1
    <2>2. f[k] \in Seq(Nat) /\ Parts(f[k]) = UNION {Parts(l[j]) : j \in 1..k}
        BY <1>8, <2>1
    <2> DEFINE t == l[k + 1]
    <2>3. t \in S /\ t \in Seq(Nat)
        BY <1>1, <2>1
    <2>4. f[k + 1] = f[k] \o (<<0>> \o t)
        BY <1>2, <1>6, <2>1
    <2> HIDE DEF t
    <2> DEFINE x == f[k]
               y == x \o (<<0>> \o t)
    <2>5. x \in Seq(Nat) /\ Len(x) \in Nat
        BY <2>2
    <2> HIDE DEF x
    <2>6. y \in Seq(Nat) /\ Extends(y, x, t)
        <3> DEFINE z == <<0>> \o t
        <3>1. /\ z \in Seq(Nat) /\ Len(z) = 1 + Len(t) /\ z[1] = 0
              /\ \A i \in 1..Len(t) : z[1 + i] = t[i]
            <4>1. <<0>> \in Seq(Nat) /\ Len(<<0>>) = 1 /\ <<0>>[1] = 0
                OBVIOUS
            <4> QED BY <2>3, <4>1
        <3> HIDE DEF z
        <3>2. /\ x \o z \in Seq(Nat) /\ Len(x \o z) = Len(x) + Len(z)
              /\ \A i \in 1..Len(x) : (x \o z)[i] = x[i]
              /\ \A i \in 1..Len(z) : (x \o z)[Len(x) + i] = z[i]
            <4>1. x \in Seq(Nat) /\ z \in Seq(Nat)
                BY <2>5, <3>1
            <4> QED BY ONLY <4>1, ConcatFacts
        <3>3. 1 \in 1..Len(z) /\ \A i \in 1..Len(t) : 1 + i \in 1..Len(z) /\ Len(x) + (1 + i) = Len(x) + 1 + i
            BY <2>3, <2>5, <3>1
        <3>4. /\ Len(x \o z) = Len(x) + 1 + Len(t) /\ (x \o z)[Len(x) + 1] = 0
            BY <2>3, <2>5, <3>1, <3>2, <3>3
        <3>5. ASSUME NEW i \in 1..Len(t) PROVE (x \o z)[Len(x) + 1 + i] = t[i]
            <4>1. (x \o z)[Len(x) + (1 + i)] = z[1 + i] /\ Len(x) + (1 + i) = Len(x) + 1 + i
                BY <3>2, <3>3
            <4> QED BY <3>1, <4>1
        <3>6. Extends(x \o z, x, t)
            BY <3>2, <3>4, <3>5 DEF Extends
        <3> QED BY <3>2, <3>6 DEF z
    <2> HIDE DEF y
    <2>7. Parts(y) = Parts(x) \cup Parts(t)
        BY <2>3, <2>5, <2>6, PartsMore
    <2>8. UNION {Parts(l[j]) : j \in 1..k + 1} = (UNION {Parts(l[j]) : j \in 1..k}) \cup Parts(l[k + 1])
        <3>1. \A j : j \in 1..k + 1 <=> j \in 1..k \/ j = k + 1
            BY <2>1
        <3> QED BY <3>1
    <2>9. Good(k + 1)
        BY <2>2, <2>4, <2>6, <2>7, <2>8 DEF x, y, t
    <2> HIDE DEF Good
    <2> QED BY <2>1, <2>9
<1>9. Parts(f[n]) = UNION {Parts(l[j]) : j \in 1..n}
    <2> HIDE DEF G
    <2>1. n - 1 \in Nat /\ n - 1 \in 0..n - 1 /\ (n - 1) + 1 = n
        BY <1>1
    <2>2. \A k \in 0..n - 1 : k \in G
        BY <1>7, <1>8, <2>1, Upward
    <2>3. n - 1 \in G
        BY <2>1, <2>2
    <2> QED BY <2>1, <2>3 DEF G
<1>10. Joined(S) = f[n]
    BY <1>5 DEF Joined, q, l
<1>11. UNION {Parts(l[j]) : j \in 1..n} = UNION {Parts(t) : t \in S}
    BY <1>1
<1> QED BY <1>9, <1>10, <1>11 DEF Pieces

\* Nothing joined is the empty text, as the empty token is.
LEMMA JoinedNothing == Parts(Joined({})) = {<<>>}
<1>1. Cardinality({}) = 0
    BY FS_EmptySet
<1>2. Ranked({}) = <<>>
    <2>1. 1..0 = {}
        OBVIOUS
    <2>2. Ranked({}) = [i \in 1..0 |-> CHOOSE t \in {} : Cardinality({u \in {} : Before(u, t)}) = i - 1]
        BY <1>1 DEF Ranked
    <2>3. DOMAIN Ranked({}) = {}
        BY <2>1, <2>2
    <2> QED BY <2>1, <2>2, <2>3
<1>3. Separated(<<>>) = <<>>
    BY DEF Separated
<1>4. Joined({}) = <<>>
    BY <1>2, <1>3 DEF Joined, FlattenSeq
<1>5. <<>> \in Seq(Nat) /\ ZeroFree(<<>>)
    BY DEF ZeroFree
<1> QED BY <1>4, <1>5, PartsOne

\* The text of a collection tells its pieces.
LEMMA TextPieces ==
    ASSUME NEW S, S \subseteq Seq(Nat), IsFiniteSet(S)
    PROVE  Parts(Joined(S)) = Pieces(S)
<1>1. CASE S = {}
    BY <1>1, JoinedNothing DEF Pieces
<1>2. CASE S # {}
    BY <1>2, JoinedParts
<1> QED BY <1>1, <1>2

\* Without a zero the pieces are the tokens.
LEMMA PiecesFree ==
    ASSUME NEW S, S \subseteq Seq(Nat), S # {}, \A t \in S : ZeroFree(t)
    PROVE  Pieces(S) = S
<1>1. \A t \in S : Parts(t) = {t}
    BY PartsOne
<1>2. UNION {Parts(t) : t \in S} = S
    BY <1>1
<1> QED BY <1>2 DEF Pieces

\* A key tells the pieces of its collection, and the collection itself if no
\* token holds a zero.
LEMMA KeysTell ==
    ASSUME NEW a, NEW b, a \in Seq(Seq(Nat)), b \in Seq(Seq(Nat))
    PROVE  /\ ToSet(a) = ToSet(b) => content_key("h", a) = content_key("h", b)
           /\ content_key("h", a) = content_key("h", b) =>
                /\ Pieces(ToSet(a)) = Pieces(ToSet(b))
                /\ /\ ToSet(a) \cup ToSet(b) # {<<>>}
                   /\ \A t \in ToSet(a) \cup ToSet(b) : ZeroFree(t)
                   => ToSet(a) = ToSet(b)
<1> DEFINE A == ToSet(a)
           B == ToSet(b)
<1>1. A \subseteq Seq(Nat) /\ IsFiniteSet(A) /\ B \subseteq Seq(Nat) /\ IsFiniteSet(B)
    BY EntriesFinite
<1>2. content_key("h", a) = <<"h", Joined(A)>> /\ content_key("h", b) = <<"h", Joined(B)>>
    BY KeyIs
<1> HIDE DEF A, B
<1>3. ASSUME Joined(A) = Joined(B) PROVE Pieces(A) = Pieces(B)
    BY <1>1, <1>3, TextPieces
<1>4. ASSUME Pieces(A) = Pieces(B), A \cup B # {<<>>}, \A t \in A \cup B : ZeroFree(t)
      PROVE  A = B
    <2>1. A # {} => Pieces(A) = A
        BY <1>1, <1>4, PiecesFree
    <2>2. B # {} => Pieces(B) = B
        BY <1>1, <1>4, PiecesFree
    <2>3. Pieces({}) = {<<>>}
        BY DEF Pieces
    <2> QED BY <1>4, <2>1, <2>2, <2>3
<1>5. content_key("h", a) = content_key("h", b) <=> Joined(A) = Joined(B)
    BY <1>2
<1> QED BY <1>3, <1>4, <1>5 DEF A, B

-----------------------------------------------------------------------------
(* The wire form of the frequency vector.                                    *)

Frequencies == [0..TotalBits - 1 -> Nat]

\* TFVec::from_bytes gives back what to_bytes wrote, reads nothing past it
\* and refuses what is shorter.
LEMMA WireIs ==
    ASSUME NEW f \in Frequencies
    PROVE  /\ TfFromBytes(TfBytes(f)) = {f}
           /\ TfFromBytes(Append(TfBytes(f), 1)) = {f}
           /\ TfFromBytes(Front(TfBytes(f))) = {}
<1> DEFINE n == TotalBits
           w == TfBytes(f)
           e == [i \in 1..n |-> f[i - 1]]
<1>1. n \in Nat /\ n >= 1
    BY Widths
<1>2. f = [b \in 0..n - 1 |-> f[b]] /\ \A b \in 0..n - 1 : f[b] \in Nat
    BY DEF Frequencies
<1> HIDE DEF n
<1>3. e \in Seq(Nat) /\ Len(e) = n /\ \A i \in 1..n : e[i] = f[i - 1]
    <2>1. \A i \in 1..n : i - 1 \in 0..n - 1
        BY <1>1
    <2>2. e \in [1..n -> Nat]
        BY <1>2, <2>1
    <2> QED BY <1>1, <2>2
<1>4. w = <<n>> \o e
    BY DEF TfBytes, n
<1> HIDE DEF e, w
<1>5. /\ w \in Seq(Nat) /\ Len(w) = n + 1 /\ w[1] = n
      /\ \A b \in 0..n - 1 : w[b + 2] = f[b]
    <2>1. <<n>> \in Seq(Nat) /\ Len(<<n>>) = 1 /\ <<n>>[1] = n /\ 1 \in 1..1
        BY <1>1
    <2>2. /\ w \in Seq(Nat) /\ Len(w) = 1 + n /\ (\A i \in 1..1 : w[i] = <<n>>[i])
          /\ \A i \in 1..n : w[1 + i] = e[i]
        BY ONLY <1>3, <1>4, <2>1, ConcatFacts
    <2>3. \A b \in 0..n - 1 : b + 1 \in 1..n /\ 1 + (b + 1) = b + 2 /\ (b + 1) - 1 = b
        BY <1>1
    <2>4. \A b \in 0..n - 1 : w[b + 2] = f[b]
        BY <1>3, <2>2, <2>3
    <2>5. w[1] = n /\ Len(w) = n + 1
        BY <1>1, <2>1, <2>2
    <2> QED BY <2>2, <2>4, <2>5
<1>6. ASSUME NEW v, v \in Seq(Nat), Len(v) >= n + 1, v[1] = n, \A b \in 0..n - 1 : v[b + 2] = f[b]
      PROVE  TfFromBytes(v) = {f}
    <2>1. v # <<>> /\ ~(Len(v) < 1 + n)
        BY <1>1, <1>6
    <2>2. TfFromBytes(v) = {[b \in 0..n - 1 |-> v[b + 2]]}
        BY <1>6, <2>1 DEF TfFromBytes, n
    <2>3. [b \in 0..n - 1 |-> v[b + 2]] = f
        BY <1>2, <1>6
    <2> QED BY <2>2, <2>3
<1>7. TfFromBytes(w) = {f}
    BY <1>1, <1>5, <1>6
<1>8. TfFromBytes(Append(w, 1)) = {f}
    <2> DEFINE v == Append(w, 1)
    <2>1. v \in Seq(Nat) /\ Len(v) = Len(w) + 1 /\ \A i \in 1..Len(w) : v[i] = w[i]
        BY <1>5
    <2>2. 1 \in 1..Len(w) /\ \A b \in 0..n - 1 : b + 2 \in 1..Len(w)
        BY <1>1, <1>5
    <2> HIDE DEF v
    <2>3. Len(v) >= n + 1 /\ v[1] = n /\ \A b \in 0..n - 1 : v[b + 2] = f[b]
        BY <1>1, <1>5, <2>1, <2>2
    <2>4. TfFromBytes(v) = {f}
        BY <1>6, <2>1, <2>3
    <2> QED BY <2>4 DEF v
<1>9. TfFromBytes(Front(w)) = {}
    <2> DEFINE v == SubSeq(w, 1, Len(w) - 1)
    <2>1. Len(v) = n
        BY <1>1, <1>5
    <2> HIDE DEF v
    <2>2. Len(v) < 1 + n
        BY <1>1, <2>1
    <2>3. TfFromBytes(v) = {}
        BY <2>2 DEF TfFromBytes, n
    <2> QED BY <2>3 DEF v, Front
<1> QED BY <1>7, <1>8, <1>9 DEF w

-----------------------------------------------------------------------------
(* The invariant of the sketch: its bits are those of what was fed.          *)

SketchInv ==
    /\ fed \in Seq(ByteTokens)
    /\ set = BitsOf(fed, 1..Len(fed))
    /\ tf \in Frequencies /\ peer \in Frequencies /\ counts \in Frequencies
    /\ \A b \in 0..TotalBits - 1 : tf[b] >= counts[b]

\* The bits of tokens are in range (hash_to_bit).
LEMMA BitsAddressed ==
    ASSUME NEW f \in Seq(ByteTokens)
    PROVE  Addressed(BitsOf(f, 1..Len(f)))
<1>1. ASSUME NEW i \in 1..Len(f)
      PROVE  BitOf(Murmur(f[i])) \in 0..TotalBits - 1
    <2>1. f[i] \in ByteTokens
        OBVIOUS
    <2>2. Murmur(f[i]) \in Nat
        BY <2>1, Hashes
    <2> QED BY <2>2, BitIs
<1> QED BY <1>1 DEF Addressed, BitsOf

\* The invariant holds of the empty sketch.
LEMMA SketchStarts == SketchInit => SketchInv
<1> SUFFICES ASSUME SketchInit PROVE SketchInv
    OBVIOUS
<1>1. fed = <<>> /\ set = {} /\ tf = NoTf /\ peer = NoTf /\ counts = NoTf
    BY DEF SketchInit
<1>2. NoTf \in Frequencies /\ \A b \in 0..TotalBits - 1 : NoTf[b] >= NoTf[b]
    BY DEF NoTf, Frequencies
<1>3. BitsOf(<<>>, 1..0) = {}
    BY DEF BitsOf
<1>4. fed \in Seq(ByteTokens) /\ Len(fed) = 0
    BY <1>1
<1> QED BY <1>1, <1>2, <1>3, <1>4 DEF SketchInv

\* A merge of frequencies loses no count (TFVec::merge).
LEMMA MergedIs ==
    ASSUME NEW f \in Frequencies, NEW g \in Frequencies
    PROVE  TfMerge(f, g) \in Frequencies /\ \A b \in 0..TotalBits - 1 : TfMerge(f, g)[b] >= f[b]
<1>1. ASSUME NEW b \in 0..TotalBits - 1
      PROVE  Max({f[b], g[b]}) \in Nat /\ Max({f[b], g[b]}) >= f[b]
    <2> DEFINE S == {f[b], g[b]}
    <2>1. S \subseteq Nat /\ S # {} /\ f[b] \in S
        BY DEF Frequencies
    <2>2. IsFiniteSet(S)
        <3>1. IsFiniteSet({f[b]}) /\ IsFiniteSet({g[b]})
            BY FS_Singleton
        <3>2. IsFiniteSet({f[b]} \cup {g[b]})
            BY <3>1, FS_Union
        <3>3. S = {f[b]} \cup {g[b]}
            OBVIOUS
        <3> QED BY <3>2, <3>3
    <2> HIDE DEF S
    <2>3. Max(S) \in S /\ f[b] <= Max(S)
        BY <2>1, <2>2, MaxBounds
    <2>4. Max(S) \in Nat /\ f[b] \in Nat
        BY <2>1, <2>3
    <2>5. Max(S) \in Nat /\ Max(S) >= f[b]
        BY <2>3, <2>4
    <2> QED BY <2>5 DEF S
<1>2. TfMerge(f, g) = [b \in 0..TotalBits - 1 |-> Max({f[b], g[b]})]
    BY DEF TfMerge, Frequencies
<1> QED BY <1>1, <1>2 DEF Frequencies

\* Every step keeps the invariant: tokens add their bit, counts and merges
\* only raise frequencies.
LEMMA SketchStep == SketchInv /\ [SketchNext]_sketch_vars => SketchInv'
<1> SUFFICES ASSUME SketchInv, [SketchNext]_sketch_vars PROVE SketchInv'
    OBVIOUS
<1>1. /\ fed \in Seq(ByteTokens) /\ set = BitsOf(fed, 1..Len(fed))
      /\ tf \in Frequencies /\ peer \in Frequencies /\ counts \in Frequencies
      /\ \A b \in 0..TotalBits - 1 : tf[b] >= counts[b]
    BY DEF SketchInv
<1>2. CASE UNCHANGED sketch_vars
    BY <1>1, <1>2 DEF SketchInv, sketch_vars
<1>3. ASSUME NEW t \in ByteTokens, AddToken(t) PROVE SketchInv'
    <2>1. /\ fed' = Append(fed, t) /\ set' = add_hash(set, Murmur(t))
          /\ tf' = tf /\ peer' = peer /\ counts' = counts
        BY <1>3 DEF AddToken
    <2> DEFINE n == Len(fed)
    <2>2. /\ fed' \in Seq(ByteTokens) /\ Len(fed') = n + 1 /\ n \in Nat
          /\ fed'[n + 1] = t /\ \A i \in 1..n : fed'[i] = fed[i]
        BY <1>1, <2>1
    <2>3. set' = set \cup {BitOf(Murmur(t))}
        BY <2>1, Hashes, BitIs
    <2> HIDE DEF n
    <2>4. BitsOf(fed', 1..n + 1) = BitsOf(fed, 1..n) \cup {BitOf(Murmur(t))}
        <3>1. \A i : i \in 1..n + 1 <=> i \in 1..n \/ i = n + 1
            BY <2>2
        <3>2. BitsOf(fed', 1..n + 1) = {BitOf(Murmur(fed'[i])) : i \in 1..n} \cup {BitOf(Murmur(fed'[n + 1]))}
            BY <3>1 DEF BitsOf
        <3>3. {BitOf(Murmur(fed'[i])) : i \in 1..n} = {BitOf(Murmur(fed[i])) : i \in 1..n}
            BY <2>2
        <3> QED BY <2>2, <3>2, <3>3 DEF BitsOf
    <2>5. set' = BitsOf(fed', 1..Len(fed'))
        BY <1>1, <2>2, <2>3, <2>4 DEF n
    <2> QED BY <1>1, <2>1, <2>2, <2>5 DEF SketchInv
<1>4. CASE Count
    <2>1. /\ tf' = [b \in DOMAIN tf |-> tf[b] + (IF b \in set THEN 1 ELSE 0)]
          /\ counts' = [b \in DOMAIN tf |-> counts[b] + (IF b \in set THEN 1 ELSE 0)]
          /\ fed' = fed /\ set' = set /\ peer' = peer
        BY <1>4 DEF Count
    <2>2. DOMAIN tf = 0..TotalBits - 1
        BY <1>1 DEF Frequencies
    <2>3. \A b \in 0..TotalBits - 1 : tf[b] \in Nat /\ counts[b] \in Nat
        BY <1>1 DEF Frequencies
    <2>4. tf' \in Frequencies /\ counts' \in Frequencies
        BY <2>1, <2>2, <2>3 DEF Frequencies
    <2>5. \A b \in 0..TotalBits - 1 : tf'[b] >= counts'[b]
        <3> SUFFICES ASSUME NEW b \in 0..TotalBits - 1 PROVE tf'[b] >= counts'[b]
            OBVIOUS
        <3>1. /\ tf'[b] = tf[b] + (IF b \in set THEN 1 ELSE 0)
              /\ counts'[b] = counts[b] + (IF b \in set THEN 1 ELSE 0)
            BY <2>1, <2>2
        <3>2. tf[b] \in Nat /\ counts[b] \in Nat /\ tf[b] >= counts[b]
            BY <1>1, <2>3
        <3> QED BY <3>1, <3>2
    <2> QED BY <1>1, <2>1, <2>4, <2>5 DEF SketchInv
<1>5. CASE Sent
    <2>1. peer' = TfMerge(peer, tf) /\ fed' = fed /\ set' = set /\ tf' = tf /\ counts' = counts
        BY <1>5 DEF Sent
    <2>2. peer' \in Frequencies
        BY <1>1, <2>1, MergedIs
    <2> QED BY <1>1, <2>1, <2>2 DEF SketchInv
<1>6. CASE Received
    <2>1. tf' = TfMerge(tf, peer) /\ fed' = fed /\ set' = set /\ peer' = peer /\ counts' = counts
        BY <1>6 DEF Received
    <2>2. tf' \in Frequencies /\ \A b \in 0..TotalBits - 1 : tf'[b] >= tf[b]
        BY <1>1, <2>1, MergedIs
    <2>3. \A b \in 0..TotalBits - 1 : tf'[b] \in Nat /\ tf[b] \in Nat /\ counts[b] \in Nat
        BY <1>1, <2>2 DEF Frequencies
    <2>4. \A b \in 0..TotalBits - 1 : tf'[b] >= counts'[b]
        BY <1>1, <2>1, <2>2, <2>3
    <2> QED BY <1>1, <2>1, <2>2, <2>4 DEF SketchInv
<1>7. ASSUME NEW b \in {Min(set \cup {0})}, PeerCounts(b) PROVE SketchInv'
    <2>1. /\ peer' = [peer EXCEPT ![b] = @ + 1]
          /\ fed' = fed /\ set' = set /\ tf' = tf /\ counts' = counts
        BY <1>7 DEF PeerCounts
    <2>2. b \in 0..TotalBits - 1
        <3>1. set \subseteq 0..TotalBits - 1 /\ 0 \in 0..TotalBits - 1
            BY <1>1, BitsAddressed, Widths DEF Addressed
        <3> DEFINE S == set \cup {0}
        <3>2. S \subseteq 0..TotalBits - 1 /\ S \subseteq Nat /\ S # {}
            BY <3>1
        <3> HIDE DEF S
        <3>3. Min(S) \in S
            BY <3>2, MinBounds
        <3> QED BY <3>2, <3>3 DEF S
    <2>3. peer' \in Frequencies
        BY <1>1, <2>1, <2>2 DEF Frequencies
    <2> QED BY <1>1, <2>1, <2>3 DEF SketchInv
<1> QED BY <1>2, <1>3, <1>4, <1>5, <1>6, <1>7 DEF SketchNext

-----------------------------------------------------------------------------
(* A sketch has the same bits by every path to them.                         *)

\* The contracts address a token at the bit the core gives it.
LEMMA AtomOf ==
    ASSUME NEW t \in ByteTokens
    PROVE  of_token(t) = {BitOf(Murmur(t))}
BY Hashes, BitIs DEF of_token

\* The atoms of a table are the bits of its tokens.
LEMMA FedSet ==
    ASSUME NEW f \in Seq(ByteTokens)
    PROVE  /\ ToSet(f) = {f[i] : i \in 1..Len(f)} /\ ToSet(f) \subseteq ByteTokens
           /\ LutAtoms(ToSet(f)) = BitsOf(f, 1..Len(f))
<1>1. DOMAIN f = 1..Len(f) /\ \A i \in 1..Len(f) : f[i] \in ByteTokens
    OBVIOUS
<1>2. ToSet(f) = {f[i] : i \in 1..Len(f)}
    BY <1>1 DEF ToSet
<1>3. \A i \in 1..Len(f) : of_token(f[i]) = {BitOf(Murmur(f[i]))}
    BY <1>1, AtomOf
<1>4. \A x : x \in LutAtoms(ToSet(f)) <=> \E i \in 1..Len(f) : x \in of_token(f[i])
    BY <1>2 DEF LutAtoms
<1>5. \A x : x \in BitsOf(f, 1..Len(f)) <=> \E i \in 1..Len(f) : x = BitOf(Murmur(f[i]))
    BY DEF BitsOf
<1>6. ASSUME NEW x
      PROVE  x \in LutAtoms(ToSet(f)) <=> x \in BitsOf(f, 1..Len(f))
    <2>1. \A i \in 1..Len(f) : x \in of_token(f[i]) <=> x = BitOf(Murmur(f[i]))
        BY <1>3
    <2>2. (\E i \in 1..Len(f) : x \in of_token(f[i])) <=> \E i \in 1..Len(f) : x = BitOf(Murmur(f[i]))
        BY <2>1
    <2> QED BY ONLY <1>4, <1>5, <2>2
<1> QED BY <1>1, <1>2, <1>6

\* A table gives back a token of it when the sketch has its bit.
LEMMA TableGives ==
    ASSUME NEW L, NEW H, NEW x
    PROVE  x \in candidates(LutBuild(L), H) <=> x \in L /\ \E b \in H : b \in of_token(x)
<1>1. \A r : r \in LutBuild(L) <=> \E t \in L : \E b \in of_token(t) : r = <<b, t>>
    BY DEF LutBuild
<1>2. \A i : x \in fiber(LutBuild(L), i) <=> x \in L /\ i \in of_token(x)
    <2> SUFFICES ASSUME NEW i PROVE x \in fiber(LutBuild(L), i) <=> x \in L /\ i \in of_token(x)
        OBVIOUS
    <2>1. ASSUME x \in fiber(LutBuild(L), i) PROVE x \in L /\ i \in of_token(x)
        <3>1. PICK r \in LutBuild(L) : r[1] = i /\ r[2] = x
            BY <2>1 DEF fiber
        <3>2. PICK t \in L : \E b \in of_token(t) : r = <<b, t>>
            BY <1>1, <3>1
        <3>3. PICK b \in of_token(t) : r = <<b, t>>
            BY <3>2
        <3> QED BY <3>1, <3>2, <3>3
    <2>2. ASSUME x \in L, i \in of_token(x) PROVE x \in fiber(LutBuild(L), i)
        <3>1. <<i, x>> \in LutBuild(L)
            BY <1>1, <2>2
        <3>2. <<i, x>>[1] = i /\ <<i, x>>[2] = x
            OBVIOUS
        <3> QED BY <3>1, <3>2 DEF fiber
    <2> QED BY <2>1, <2>2
<1>3. x \in candidates(LutBuild(L), H) <=> \E i \in H : x \in fiber(LutBuild(L), i)
    BY DEF candidates
<1>4. (\E i \in H : x \in fiber(LutBuild(L), i)) <=> \E i \in H : x \in L /\ i \in of_token(x)
    BY ONLY <1>2
<1>5. (\E i \in H : x \in L /\ i \in of_token(x)) <=> x \in L /\ \E b \in H : b \in of_token(x)
    OBVIOUS
<1> QED BY ONLY <1>3, <1>4, <1>5

\* No token that was fed is missing among the candidates.
LEMMA TableCovers ==
    ASSUME NEW f \in Seq(ByteTokens)
    PROVE  ToSet(f) \subseteq candidates(LutBuild(ToSet(f)), BitsOf(f, 1..Len(f)))
<1>1. ASSUME NEW x \in ToSet(f)
      PROVE  x \in candidates(LutBuild(ToSet(f)), BitsOf(f, 1..Len(f)))
    <2>1. PICK i \in 1..Len(f) : f[i] = x
        BY <1>1, FedSet
    <2>2. x \in ByteTokens
        BY <1>1, FedSet
    <2>3. BitOf(Murmur(x)) \in of_token(x)
        BY <2>2, AtomOf
    <2>4. BitOf(Murmur(x)) \in BitsOf(f, 1..Len(f))
        BY <2>1 DEF BitsOf
    <2>5. \E b \in BitsOf(f, 1..Len(f)) : b \in of_token(x)
        BY <2>3, <2>4
    <2> QED BY ONLY <1>1, <2>5, TableGives
<1> QED BY <1>1

\* The candidates of two tables are those of their union.
LEMMA TablesJoin ==
    ASSUME NEW L, NEW N, NEW H
    PROVE  candidates(LutBuild(L \cup N), H) = candidates(LutBuild(L), H) \cup candidates(LutBuild(N), H)
<1>1. ASSUME NEW x
      PROVE  x \in candidates(LutBuild(L \cup N), H)
                <=> x \in candidates(LutBuild(L), H) \/ x \in candidates(LutBuild(N), H)
    <2>1. /\ x \in candidates(LutBuild(L \cup N), H) <=> x \in L \cup N /\ \E b \in H : b \in of_token(x)
          /\ x \in candidates(LutBuild(L), H) <=> x \in L /\ \E b \in H : b \in of_token(x)
          /\ x \in candidates(LutBuild(N), H) <=> x \in N /\ \E b \in H : b \in of_token(x)
        BY ONLY TableGives
    <2>2. x \in L \cup N <=> x \in L \/ x \in N
        OBVIOUS
    <2> QED BY ONLY <2>1, <2>2
<1> QED BY <1>1

\* Sketches of single tokens unite to the sketch, and their intersection is
\* in each.
LEMMA PartsUnite ==
    ASSUME NEW f \in Seq(ByteTokens), NEW p, p = [i \in DOMAIN f |-> FromTokens(<<f[i]>>)]
    PROVE  /\ union_all(p) = BitsOf(f, 1..Len(f))
           /\ \A i \in DOMAIN p : intersection_all(p) \subseteq p[i]
<1>1. DOMAIN f = 1..Len(f) /\ Len(f) \in Nat /\ \A i \in 1..Len(f) : f[i] \in ByteTokens
    OBVIOUS
<1>2. ASSUME NEW i \in 1..Len(f)
      PROVE  FromTokens(<<f[i]>>) = {BitOf(Murmur(f[i]))}
    <2> DEFINE g == <<f[i]>>
    <2>1. g \in Seq(ByteTokens) /\ Len(g) = 1 /\ g[1] = f[i]
        BY <1>1
    <2> HIDE DEF g
    <2>2. FromTokens(g) = BitsOf(g, 1..1)
        BY <2>1, FromTokensIs
    <2>3. \A x : x \in BitsOf(g, 1..1) <=> x = BitOf(Murmur(g[1]))
        BY DEF BitsOf
    <2>4. BitsOf(g, 1..1) = {BitOf(Murmur(g[1]))}
        BY <2>3
    <2> QED BY <2>1, <2>2, <2>4 DEF g
<1>3. DOMAIN p = 1..Len(f) /\ \A i \in 1..Len(f) : p[i] = {BitOf(Murmur(f[i]))}
    BY <1>1, <1>2
<1>4. \A x : x \in union_all(p) <=> \E i \in 1..Len(f) : x \in p[i]
    BY <1>3 DEF union_all, ToSet
<1>5. \A x : x \in BitsOf(f, 1..Len(f)) <=> \E i \in 1..Len(f) : x = BitOf(Murmur(f[i]))
    BY DEF BitsOf
<1>6. ASSUME NEW x
      PROVE  x \in union_all(p) <=> x \in BitsOf(f, 1..Len(f))
    <2>1. \A i \in 1..Len(f) : x \in p[i] <=> x = BitOf(Murmur(f[i]))
        BY <1>3
    <2>2. (\E i \in 1..Len(f) : x \in p[i]) <=> \E i \in 1..Len(f) : x = BitOf(Murmur(f[i]))
        BY <2>1
    <2> QED BY ONLY <1>4, <1>5, <2>2
<1>7. union_all(p) = BitsOf(f, 1..Len(f))
    BY <1>6
<1>8. ASSUME NEW i \in DOMAIN p
      PROVE  intersection_all(p) \subseteq p[i]
    <2> DEFINE S == {p[j] : j \in 1..Len(f)}
    <2>1. p \in [1..Len(f) -> S]
        BY <1>1, <1>3
    <2>2. p \in Seq(S) /\ Len(p) = Len(f)
        BY <1>1, <2>1
    <2>3. p # <<>>
        BY <1>8, <2>2
    <2>4. i \in 1..Len(p)
        BY <1>3, <1>8, <2>2
    <2> HIDE DEF S
    <2> QED BY <2>2, <2>3, <2>4, MeetIs
<1> QED BY <1>7, <1>8

\* Bytes are numbers.
LEMMA BytesAre ==
    ASSUME NEW t \in Seq(0..255)
    PROVE  t \in Seq(Nat)
<1> DEFINE S == 0..255
<1>1. t \in Seq(S) /\ S \subseteq Nat
    OBVIOUS
<1> HIDE DEF S
<1>2. Len(t) \in Nat /\ t \in [1..Len(t) -> S]
    BY <1>1
<1>3. t \in [1..Len(t) -> Nat]
    BY <1>1, <1>2
<1> QED BY <1>2, <1>3

\* KeysTell for tokens of bytes.
LEMMA PairKeys ==
    ASSUME NEW f \in Seq(ByteTokens), NEW s \in UNION {[1..n -> ByteTokens] : n \in 0..2}
    PROVE  /\ ToSet(s) = ToSet(f) => content_key("h", s) = content_key("h", f)
           /\ content_key("h", s) = content_key("h", f) => Pieces(ToSet(s)) = Pieces(ToSet(f))
           /\ /\ content_key("h", s) = content_key("h", f) /\ ToSet(s) \cup ToSet(f) # {<<>>}
              /\ \A t \in ToSet(s) \cup ToSet(f) : ZeroFree(t)
              => ToSet(s) = ToSet(f)
<1>1. PICK n \in 0..2 : s \in [1..n -> ByteTokens]
    OBVIOUS
<1>2. s \in Seq(ByteTokens)
    BY <1>1
<1>3. ByteTokens \subseteq Seq(Nat)
    <2>1. ByteTokens \subseteq Seq(0..255)
        BY SketchAssumption
    <2> QED BY <2>1, BytesAre
<1>4. s \in Seq(Seq(Nat)) /\ f \in Seq(Seq(Nat))
    <2>1. \A u \in Seq(ByteTokens) : u \in Seq(Seq(Nat))
        BY <1>3
    <2> QED BY <1>2, <2>1
<1> QED BY <1>4, KeysTell

\* The invariant implies the property, conjunct by conjunct.
LEMMA SketchSuffices == SketchInv => SketchFaithful
<1> SUFFICES ASSUME SketchInv PROVE SketchFaithful
    OBVIOUS
<1>1. /\ fed \in Seq(ByteTokens) /\ set = BitsOf(fed, 1..Len(fed))
      /\ tf \in Frequencies /\ \A b \in 0..TotalBits - 1 : tf[b] >= counts[b]
    BY DEF SketchInv
<1>2. Addressed(set)
    BY <1>1, BitsAddressed
<1> DEFINE L == ToSet(fed)
           parts == [i \in DOMAIN fed |-> FromTokens(<<fed[i]>>)]
<1>3. set = LutAtoms(L) /\ set \subseteq 0..TotalBits - 1
    BY <1>1, <1>2, FedSet DEF Addressed
<1>4. L \subseteq candidates(LutBuild(L), set)
    BY <1>1, TableCovers
<1>5. \A N \in SUBSET ByteTokens :
          candidates(LutBuild(L \cup N), set)
              = candidates(LutBuild(L), set) \cup candidates(LutBuild(N), set)
    BY TablesJoin
<1>6. set = FromTokens(fed)
    BY <1>1, FromTokensIs
<1>7. set = union_all(parts) /\ \A i \in DOMAIN parts : intersection_all(parts) \subseteq parts[i]
    BY <1>1, PartsUnite
<1>8. from_dense(to_dense(set)) = set
    BY <1>2, DenseBack
<1>9. MapThenSumSet(LAMBDA z : bit_counts(set)[z], 0..BitsPerReg - 1) = Cardinality(set)
    BY <1>2, CountsAdd
<1>10. /\ Cardinality(dump_positions(set)) = non_zero_registers(set)
       /\ \A d \in dump_positions(set) : d[1] * BitsPerReg + d[2] \in set
    BY <1>2, DumpIs
<1>11. \A s \in UNION {[1..n -> ByteTokens] : n \in 0..2} :
           /\ ToSet(s) = L => content_key("h", s) = content_key("h", fed)
           /\ content_key("h", s) = content_key("h", fed) => Pieces(ToSet(s)) = Pieces(L)
           /\ /\ content_key("h", s) = content_key("h", fed) /\ ToSet(s) \cup L # {<<>>}
              /\ \A t \in ToSet(s) \cup L : ZeroFree(t)
              => ToSet(s) = L
    BY <1>1, PairKeys
<1>12. \A b \in DOMAIN tf : tf[b] >= counts[b]
    BY <1>1 DEF Frequencies
<1>13. /\ TfFromBytes(TfBytes(tf)) = {tf} /\ TfFromBytes(Append(TfBytes(tf), 1)) = {tf}
       /\ TfFromBytes(Front(TfBytes(tf))) = {}
    BY <1>1, WireIs
<1> QED BY <1>3, <1>4, <1>5, <1>6, <1>7, <1>8, <1>9, <1>10, <1>11, <1>12, <1>13 DEF SketchFaithful

\* The bits, tables, masks, counts, keys and wire forms of a sketch say the
\* same of it, for any tokens; a key tells the parts of its tokens between zero
\* bytes, which it joins with (content_addr.rs:80-86).
THEOREM SketchesStayFaithful ==
    SketchInit /\ [][SketchNext]_sketch_vars => []SketchFaithful
<1>1. SketchInit => SketchInv
    BY SketchStarts
<1>2. SketchInv /\ [SketchNext]_sketch_vars => SketchInv'
    BY SketchStep
<1>3. SketchInv => SketchFaithful
    BY SketchSuffices
<1> QED BY <1>1, <1>2, <1>3, PTL
=============================================================================
