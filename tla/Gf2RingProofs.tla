---------------------------- MODULE Gf2RingProofs ----------------------------
(* The linear algebra of Gf2Ring: lowest-bit elimination over any echelon    *)
(* table decides the span of its rows, insert adds one generator to it,      *)
(* coordinates and reconstruct are inverse, and a change of basis is linear. *)
EXTENDS Gf2Ring, FiniteSetTheorems, WellFoundedInduction, TLAPS

-----------------------------------------------------------------------------
(* Induction: a non-empty set of counterexamples has a least one.            *)

\* A least number.
LEMMA LeastNatural ==
    ASSUME NEW T, T \subseteq Nat, T # {}
    PROVE  \E n \in T : \A m \in T : n <= m
<1>1. IsWellFoundedOn(OpToRel(<, Nat), Nat)
    BY NatLessThanWellFounded
<1>2. PICK n \in T : \A m \in T : ~(<<m, n>> \in OpToRel(<, Nat))
    BY <1>1, WFMin
<1>3. \A m \in T : ~(m < n)
    BY <1>2 DEF OpToRel
<1> QED
    BY <1>3

\* A least finite set, by inclusion.
LEMMA LeastFiniteSet ==
    ASSUME NEW K, NEW T, \A s \in T : s \subseteq K /\ IsFiniteSet(s), T # {}
    PROVE  \E s \in T : \A r \in T : r \subseteq s => r = s
<1>1. T \subseteq FiniteSubsetsOf(K)
    BY DEF FiniteSubsetsOf
<1>2. PICK s \in T : \A r \in T : ~(<<r, s>> \in StrictSubsetOrdering(K))
    BY <1>1, FS_StrictSubsetOrderingWellFounded, WFMin
<1> QED
    BY <1>2 DEF StrictSubsetOrdering

\* The bit positions of an HLLSet are bounded.
LEMMA FiniteBounded ==
    ASSUME NEW S, S \subseteq Nat, IsFiniteSet(S)
    PROVE  \E n \in Nat : \A b \in S : b < n
<1> DEFINE T == {s \in SUBSET S : ~ \E n \in Nat : \A b \in s : b < n}
<1> SUFFICES ASSUME T # {} PROVE FALSE
    OBVIOUS
<1>1. \A s \in T : s \subseteq S /\ IsFiniteSet(s)
    BY FS_Subset
<1>2. PICK s \in T : \A r \in T : r \subseteq s => r = s
    <2> HIDE DEF T
    <2> QED BY <1>1, LeastFiniteSet
<1>3. CASE s = {}
    BY <1>3, 0 \in Nat
<1>4. CASE s # {}
    <2>1. PICK x \in s : TRUE
        BY <1>4
    <2>2. s \ {x} \notin T
        BY <1>2, <2>1
    <2>3. PICK n \in Nat : \A b \in s \ {x} : b < n
        BY <2>2
    <2>4. PICK m \in Nat : n <= m /\ x < m
        <3>1. x \in Nat
            BY <2>1
        <3>2. x + n + 1 \in Nat /\ n <= x + n + 1 /\ x < x + n + 1
            BY <3>1
        <3> QED BY <3>2
    <2>5. \A b \in s : b < m
        BY <2>3, <2>4
    <2> QED
        BY <1>2, <2>5
<1> QED
    BY <1>3, <1>4

\* The largest member of a finite set of naturals.
LEMMA MaxBounds ==
    ASSUME NEW S, S \subseteq Nat, IsFiniteSet(S), S # {}
    PROVE  Max(S) \in S /\ \A x \in S : x <= Max(S)
<1>1. PICK N \in Nat : \A x \in S : x < N
    BY FiniteBounded
<1> DEFINE T == {N - x : x \in S}
<1>2. PICK m \in T : \A k \in T : m <= k
    <2>1. ASSUME NEW x \in S
          PROVE  N - x \in Nat
        <3>1. x \in Nat /\ x < N
            BY <1>1
        <3> QED BY <3>1
    <2>2. T \subseteq Nat /\ T # {}
        BY <2>1
    <2> HIDE DEF T
    <2> QED BY <2>2, LeastNatural
<1>3. PICK y \in S : m = N - y
    OBVIOUS
<1>4. \A x \in S : y >= x
    <2> SUFFICES ASSUME NEW x \in S
                 PROVE  y >= x
        OBVIOUS
    <2>1. N - y <= N - x
        BY <1>2, <1>3
    <2>2. x \in Nat /\ y \in Nat
        OBVIOUS
    <2> QED BY <2>1, <2>2
<1>5. Max(S) \in S /\ \A x \in S : Max(S) >= x
    BY <1>4, Zenon DEF Max
<1>6. \A x \in S : x \in Nat
    OBVIOUS
<1> QED BY <1>5, <1>6

-----------------------------------------------------------------------------
(* Bit sets.                                                                 *)

Positions == Bits \subseteq Nat /\ IsFiniteSet(Bits)

\* LowestBit is the least bit.
LEMMA LowestIsLeast ==
    ASSUME Positions, NEW x \in SUBSET Bits, x # {}
    PROVE  LowestBit(x) \in x /\ \A b \in x : LowestBit(x) <= b
<1>1. \E n \in x : \A m \in x : n <= m
    BY LeastNatural DEF Positions
<1> QED
    BY <1>1 DEF LowestBit, Min

\* and no other bit is.
LEMMA LowestIsOnly ==
    ASSUME Positions, NEW x \in SUBSET Bits, NEW b \in x, \A c \in x : b <= c
    PROVE  LowestBit(x) = b
<1>1. LowestBit(x) \in x /\ \A c \in x : LowestBit(x) <= c
    BY LowestIsLeast
<1>2. LowestBit(x) \in Nat /\ b \in Nat
    BY <1>1 DEF Positions
<1> QED
    BY <1>1, <1>2

\* Sums of HLLSets are HLLSets.
LEMMA SumType ==
    ASSUME NEW x \in SUBSET Bits, NEW y \in SUBSET Bits
    PROVE  SymmetricDifference(x, y) \in SUBSET Bits
BY DEF SymmetricDifference

\* The algebra of symmetric difference.
LEMMA SumFacts ==
    /\ \A x, y : SymmetricDifference(x, y) = SymmetricDifference(y, x)
    /\ \A x, y : SymmetricDifference(SymmetricDifference(x, y), y) = x
    /\ \A x, y, z : SymmetricDifference(SymmetricDifference(x, y), z)
                      = SymmetricDifference(x, SymmetricDifference(y, z))
    /\ \A x, y, z : SymmetricDifference(SymmetricDifference(x, y), z)
                      = SymmetricDifference(SymmetricDifference(x, z), y)
    /\ \A x : SymmetricDifference(x, x) = {} /\ SymmetricDifference(x, {}) = x
              /\ SymmetricDifference({}, x) = x
BY DEF SymmetricDifference

-----------------------------------------------------------------------------
(* Echelon tables: the rows are led by their pivots, each by its own.  The   *)
(* rows may hold other rows' pivots; insert's doc promises more, but this is *)
(* what its code keeps and what elimination needs.                           *)

Echelon(table) ==
    /\ DOMAIN table \subseteq Nat
    /\ \A j \in DOMAIN table :
          /\ table[j].vec \in SUBSET Bits /\ table[j].vec # {}
          /\ table[j].pivot = LowestBit(table[j].vec)
    /\ \A j, k \in DOMAIN table : table[j].pivot = table[k].pivot => j = k

\* A row of an echelon table, its pivot, and the one row at that pivot.
LEMMA RowFacts ==
    ASSUME Positions, NEW table, Echelon(table), NEW j \in DOMAIN table
    PROVE  /\ table[j].vec \in SUBSET Bits
           /\ table[j].pivot \in table[j].vec /\ table[j].pivot \in Nat
           /\ \A b \in table[j].vec : table[j].pivot <= b
           /\ RowsAt(table, table[j].pivot) = {j}
           /\ Min({j}) = j
<1>1. table[j].vec \in SUBSET Bits /\ table[j].vec # {} /\ table[j].pivot = LowestBit(table[j].vec)
    BY DEF Echelon
<1>2. table[j].pivot \in table[j].vec /\ \A b \in table[j].vec : table[j].pivot <= b
    BY <1>1, LowestIsLeast
<1>3. RowsAt(table, table[j].pivot) = {j}
    BY DEF RowsAt, Echelon
<1>4. Min({j}) = j
    <2>1. j \in Nat
        BY DEF Echelon
    <2> QED
        BY <2>1 DEF Min
<1> QED
    BY <1>1, <1>2, <1>3, <1>4 DEF Positions

\* Adding the row that x's lowest bit selects leaves only higher bits.
LEMMA SumRaises ==
    ASSUME Positions, NEW table, Echelon(table), NEW j \in DOMAIN table,
           NEW x \in SUBSET Bits, x # {}, LowestBit(x) = table[j].pivot
    PROVE  /\ SymmetricDifference(x, table[j].vec) \in SUBSET Bits
           /\ \A b \in SymmetricDifference(x, table[j].vec) : LowestBit(x) < b
<1>1. LowestBit(x) \in x /\ \A b \in x : LowestBit(x) <= b
    BY LowestIsLeast
<1>2. /\ table[j].vec \in SUBSET Bits /\ table[j].pivot \in table[j].vec
      /\ \A b \in table[j].vec : table[j].pivot <= b
    BY RowFacts
<1>3. ASSUME NEW b \in SymmetricDifference(x, table[j].vec)
      PROVE  LowestBit(x) < b
    <2>1. (b \in x \/ b \in table[j].vec) /\ ~(b \in x /\ b \in table[j].vec)
        BY <1>3 DEF SymmetricDifference
    <2>2. LowestBit(x) <= b /\ b # LowestBit(x)
        BY <1>1, <1>2, <2>1
    <2>3. b \in Nat /\ LowestBit(x) \in Nat
        BY <1>1, <1>2, <2>1 DEF Positions
    <2> QED
        BY <2>2, <2>3
<1> QED
    BY <1>2, <1>3, SumType

-----------------------------------------------------------------------------
(* Reduction is defined by recursion; it satisfies its equation.             *)

ReduceStep(table, g, x) ==
    LET at == IF x = {} THEN {} ELSE RowsAt(table, LowestBit(x)) IN
    IF at = {}
    THEN [residual |-> x, coords |-> {}]
    ELSE LET j    == Min(at)
             rest == g[SymmetricDifference(x, table[j].vec)]
         IN  [rest EXCEPT !.coords = SymmetricDifference(@, {j})]

\* The recursive function that Reduction chooses.
LEMMA ReductionChosen ==
    ASSUME NEW table
    PROVE  Reduction(table) = CHOOSE g : g = [x \in SUBSET Bits |-> ReduceStep(table, g, x)]
BY DEF Reduction, ReduceStep

\* A step on x looks at the function only where all bits are above x's lowest.
LEMMA ReduceStepLocal ==
    ASSUME Positions, NEW table, Echelon(table), NEW x \in SUBSET Bits, NEW g, NEW h,
           \A y \in SUBSET Bits : (\A b \in y : x # {} /\ LowestBit(x) < b) => g[y] = h[y]
    PROVE  ReduceStep(table, g, x) = ReduceStep(table, h, x)
<1>1. CASE x = {} \/ RowsAt(table, LowestBit(x)) = {}
    BY <1>1 DEF ReduceStep
<1>2. CASE x # {} /\ RowsAt(table, LowestBit(x)) # {}
    <2>1. PICK j \in DOMAIN table : table[j].pivot = LowestBit(x)
        BY <1>2 DEF RowsAt
    <2>2. RowsAt(table, LowestBit(x)) = {j} /\ Min({j}) = j
        BY <2>1, RowFacts
    <2>3. g[SymmetricDifference(x, table[j].vec)] = h[SymmetricDifference(x, table[j].vec)]
        BY <1>2, <2>1, SumRaises
    <2> QED
        BY <1>2, <2>2, <2>3 DEF ReduceStep
<1> QED
    BY <1>1, <1>2

\* The function exists: build it downwards from the sets of the highest bits.
LEMMA ReductionExists ==
    ASSUME Positions, NEW table, Echelon(table)
    PROVE  \E g : g = [x \in SUBSET Bits |-> ReduceStep(table, g, x)]
<1>1. PICK N \in Nat : \A b \in Bits : b < N
    BY FiniteBounded DEF Positions
<1> DEFINE D(n) == {x \in SUBSET Bits : \A b \in x : N <= b + n}
           Def(n, g) == g = [x \in D(n) |-> ReduceStep(table, g, x)]
           T == {n \in Nat : ~ \E g : Def(n, g)}
<1>2. \E g : Def(0, g)
    <2>1. D(0) = {{}}
        <3>1. ASSUME NEW x \in D(0), x # {} PROVE FALSE
            <4>1. PICK b \in x : N <= b + 0
                BY <3>1
            <4>2. b \in Nat /\ b < N
                BY <1>1, <4>1 DEF Positions
            <4> QED BY <4>1, <4>2
        <3>2. {} \in D(0)
            OBVIOUS
        <3> QED BY <3>1, <3>2
    <2>2. \A g : ReduceStep(table, g, {}) = [residual |-> {}, coords |-> {}]
        BY DEF ReduceStep
    <2> DEFINE z == [x \in D(0) |-> [residual |-> {}, coords |-> {}]]
    <2>3. z = [x \in D(0) |-> ReduceStep(table, z, x)]
        BY <2>1, <2>2
    <2> QED
        BY <2>3
<1>3. ASSUME NEW n \in Nat, NEW g, Def(n, g)
      PROVE  \E h : Def(n + 1, h)
    <2> DEFINE h == [x \in D(n + 1) |-> IF x \in D(n) THEN g[x] ELSE ReduceStep(table, g, x)]
    <2>1. ASSUME NEW x \in D(n + 1)
          PROVE  h[x] = ReduceStep(table, h, x)
        <3>1. ASSUME NEW y \in SUBSET Bits, \A b \in y : x # {} /\ LowestBit(x) < b
              PROVE  g[y] = h[y]
            <4>1. CASE y = {}
                <5>1. y \in D(n) /\ y \in D(n + 1)
                    BY <4>1
                <5> QED BY <5>1
            <4>2. CASE y # {}
                <5>1. LowestBit(x) \in x
                    BY <3>1, <4>2, LowestIsLeast
                <5>2. N <= LowestBit(x) + (n + 1) /\ LowestBit(x) \in Nat
                    BY <5>1 DEF Positions
                <5>3. \A b \in y : b \in Nat /\ N <= b + n /\ N <= b + (n + 1)
                    BY <3>1, <5>2 DEF Positions
                <5>4. y \in D(n) /\ y \in D(n + 1)
                    BY <5>3
                <5> QED BY <5>4
            <4> QED BY <4>1, <4>2
        <3>2. ReduceStep(table, g, x) = ReduceStep(table, h, x)
            <4> HIDE DEF h
            <4> QED BY <3>1, ReduceStepLocal
        <3>3. x \in D(n) => g[x] = ReduceStep(table, g, x)
            BY <1>3
        <3>4. h[x] = ReduceStep(table, g, x)
            <4> HIDE DEF D
            <4> QED BY <3>3
        <3> QED BY <3>2, <3>4
    <2>2. h = [x \in D(n + 1) |-> ReduceStep(table, h, x)]
        <3>1. h = [x \in D(n + 1) |-> h[x]]
            OBVIOUS
        <3> HIDE DEF h
        <3> QED BY <2>1, <3>1
    <2> QED
        BY <2>2
<1>4. T = {}
    <2> SUFFICES ASSUME T # {} PROVE FALSE
        OBVIOUS
    <2>1. PICK n \in T : \A m \in T : n <= m
        <3> HIDE DEF T
        <3>1. T \subseteq Nat
            BY DEF T
        <3> QED BY <3>1, LeastNatural
    <2>2. n # 0
        <3> HIDE DEF Def
        <3> QED BY <1>2
    <2>3. n - 1 \in Nat /\ n - 1 \notin T
        <3>1. n \in Nat
            OBVIOUS
        <3> HIDE DEF T
        <3> QED BY <2>1, <2>2, <3>1
    <2>4. PICK g : Def(n - 1, g)
        <3> HIDE DEF Def
        <3> QED BY <2>3
    <2>5. (n - 1) + 1 = n
        OBVIOUS
    <2> HIDE DEF Def
    <2>6. \E h : Def((n - 1) + 1, h)
        BY <1>3, <2>3, <2>4
    <2> QED
        BY <2>5, <2>6
<1>5. D(N) = SUBSET Bits
    <2>1. \A b \in Bits : N <= b + N
        BY DEF Positions
    <2> QED BY <2>1
<1>6. PICK g : Def(N, g)
    <2> HIDE DEF Def
    <2> QED BY <1>4
<1> QED
    BY <1>5, <1>6

\* It exists, so Reduction satisfies its equation.
LEMMA ReductionEquation ==
    ASSUME Positions, NEW table, Echelon(table)
    PROVE  Reduction(table) = [x \in SUBSET Bits |-> ReduceStep(table, Reduction(table), x)]
BY ReductionChosen, ReductionExists

\* Induction over elimination: of a set of counterexamples, one whose lowest
\* bit no other exceeds.
LEMMA HighestSet ==
    ASSUME Positions, NEW T, T \subseteq SUBSET Bits, {} \notin T, T # {}
    PROVE  \E x \in T : \A y \in T : ~(LowestBit(x) < LowestBit(y))
<1>1. PICK N \in Nat : \A b \in Bits : b < N
    BY FiniteBounded DEF Positions
<1>2. \A x \in T : LowestBit(x) \in Bits /\ LowestBit(x) \in Nat
    BY LowestIsLeast DEF Positions
<1> DEFINE U == {N - LowestBit(x) : x \in T}
<1>3. U \subseteq Nat /\ U # {}
    BY <1>1, <1>2
<1>4. PICK n \in U : \A m \in U : n <= m
    <2> HIDE DEF U
    <2> QED BY <1>3, LeastNatural
<1>5. PICK x \in T : n = N - LowestBit(x)
    OBVIOUS
<1>6. ASSUME NEW y \in T PROVE ~(LowestBit(x) < LowestBit(y))
    <2>1. N - LowestBit(x) <= N - LowestBit(y)
        BY <1>4, <1>5
    <2> QED
        BY <1>2, <2>1
<1> QED
    BY <1>6

\* What x reduces to first.
Reducible(table, x) == x # {} /\ \E j \in DOMAIN table : table[j].pivot = LowestBit(x)

\* Nothing is added to a set that no row reduces.
LEMMA ReduceStop ==
    ASSUME Positions, NEW table, Echelon(table), NEW x \in SUBSET Bits, ~Reducible(table, x)
    PROVE  Reduction(table)[x] = [residual |-> x, coords |-> {}]
<1>1. Reduction(table)[x] = ReduceStep(table, Reduction(table), x)
    BY ReductionEquation
<1>2. x = {} \/ RowsAt(table, LowestBit(x)) = {}
    BY DEF Reducible, RowsAt
<1> QED
    BY <1>1, <1>2 DEF ReduceStep

\* Otherwise one row is added and the elimination goes on.
LEMMA ReduceGo ==
    ASSUME Positions, NEW table, Echelon(table), NEW x \in SUBSET Bits, x # {},
           NEW j \in DOMAIN table, table[j].pivot = LowestBit(x)
    PROVE  Reduction(table)[x] =
              [Reduction(table)[SymmetricDifference(x, table[j].vec)] EXCEPT
                  !.coords = SymmetricDifference(@, {j})]
<1>1. Reduction(table)[x] = ReduceStep(table, Reduction(table), x)
    BY ReductionEquation
<1>2. RowsAt(table, LowestBit(x)) = {j} /\ Min({j}) = j
    BY RowFacts
<1> QED
    BY <1>1, <1>2 DEF ReduceStep

ReducedTypes(table) == [residual : SUBSET Bits, coords : SUBSET DOMAIN table]

\* The residual is a set of bits, the coordinates are rows.
LEMMA ReductionType ==
    ASSUME Positions, NEW table, Echelon(table), NEW x \in SUBSET Bits
    PROVE  Reduction(table)[x] \in ReducedTypes(table)
<1> DEFINE T == {y \in SUBSET Bits : Reduction(table)[y] \notin ReducedTypes(table)}
<1> SUFFICES ASSUME T # {} PROVE FALSE
    OBVIOUS
<1>1. ASSUME NEW y \in SUBSET Bits, ~Reducible(table, y)
      PROVE  Reduction(table)[y] \in ReducedTypes(table)
    <2>1. Reduction(table)[y] = [residual |-> y, coords |-> {}]
        BY <1>1, ReduceStop
    <2> QED BY <2>1 DEF ReducedTypes
<1>2. T \subseteq SUBSET Bits /\ {} \notin T
    BY <1>1 DEF Reducible
<1>3. PICK y \in T : \A z \in T : ~(LowestBit(y) < LowestBit(z))
    <2> HIDE DEF T
    <2> QED BY <1>2, HighestSet
<1>4. Reducible(table, y)
    BY <1>1
<1>5. PICK j \in DOMAIN table : table[j].pivot = LowestBit(y)
    BY <1>4 DEF Reducible
<1> DEFINE z == SymmetricDifference(y, table[j].vec)
<1>6. z \in SUBSET Bits /\ \A b \in z : LowestBit(y) < b
    BY <1>4, <1>5, SumRaises DEF Reducible
<1>7. z \notin T
    <2>1. CASE z = {}
        BY <1>2, <2>1
    <2>2. CASE z # {}
        BY <1>3, <1>6, <2>2, LowestIsLeast
    <2> QED BY <2>1, <2>2
<1>8. Reduction(table)[z] \in ReducedTypes(table)
    BY <1>6, <1>7
<1>9. Reduction(table)[y] = [Reduction(table)[z] EXCEPT !.coords = SymmetricDifference(@, {j})]
    <2>1. y # {}
        BY <1>4 DEF Reducible
    <2> QED BY <1>5, <2>1, ReduceGo
<1> HIDE DEF z
<1>10. Reduction(table)[y] \in ReducedTypes(table)
    BY <1>8, <1>9 DEF ReducedTypes, SymmetricDifference
<1> QED
    BY <1>10

\* The step of elimination, for residual and coordinates.
LEMMA ReductionGo ==
    ASSUME Positions, NEW table, Echelon(table), NEW x \in SUBSET Bits, x # {},
           NEW j \in DOMAIN table, table[j].pivot = LowestBit(x)
    PROVE  /\ Residual(table, x) = Residual(table, SymmetricDifference(x, table[j].vec))
           /\ Coordinates(table, x) =
                SymmetricDifference(Coordinates(table, SymmetricDifference(x, table[j].vec)), {j})
<1> DEFINE z == SymmetricDifference(x, table[j].vec)
<1>1. z \in SUBSET Bits
    BY RowFacts, SumType
<1>2. Reduction(table)[z] \in ReducedTypes(table)
    BY <1>1, ReductionType
<1>3. Reduction(table)[x] = [Reduction(table)[z] EXCEPT !.coords = SymmetricDifference(@, {j})]
    BY ReduceGo
<1> HIDE DEF z
<1> QED
    BY <1>2, <1>3 DEF Residual, Coordinates, ReducedTypes, z

\* and for the residual alone.
LEMMA ResidualGo ==
    ASSUME Positions, NEW table, Echelon(table), NEW x \in SUBSET Bits, x # {},
           NEW j \in DOMAIN table, table[j].pivot = LowestBit(x)
    PROVE  Residual(table, x) = Residual(table, SymmetricDifference(x, table[j].vec))
BY ReductionGo, ZenonT(60)

\* The types, and the end of the elimination.
LEMMA ResidualCases ==
    ASSUME Positions, NEW table, Echelon(table), NEW x \in SUBSET Bits
    PROVE  /\ Residual(table, x) \in SUBSET Bits
           /\ Coordinates(table, x) \in SUBSET DOMAIN table
           /\ ~Reducible(table, x) => Residual(table, x) = x /\ Coordinates(table, x) = {}
<1>1. Reduction(table)[x] \in ReducedTypes(table)
    BY ReductionType
<1>2. ASSUME ~Reducible(table, x)
      PROVE  Residual(table, x) = x /\ Coordinates(table, x) = {}
    <2>1. Reduction(table)[x] = [residual |-> x, coords |-> {}]
        BY <1>2, ReduceStop
    <2> QED BY <2>1 DEF Residual, Coordinates
<1> QED
    BY <1>1, <1>2 DEF Residual, Coordinates, ReducedTypes

\* Elimination goes on until no row has the lowest bit for a pivot.
LEMMA ResidualIrreducible ==
    ASSUME Positions, NEW table, Echelon(table), NEW x \in SUBSET Bits
    PROVE  ~Reducible(table, Residual(table, x))
<1> DEFINE T == {y \in SUBSET Bits : Reducible(table, Residual(table, y))}
<1> SUFFICES ASSUME T # {} PROVE FALSE
    OBVIOUS
<1>1. ASSUME NEW y \in T PROVE Reducible(table, y)
    BY ResidualCases
<1>2. T \subseteq SUBSET Bits /\ {} \notin T
    BY <1>1 DEF Reducible
<1>3. PICK y \in T : \A z \in T : ~(LowestBit(y) < LowestBit(z))
    <2> HIDE DEF T
    <2> QED BY <1>2, HighestSet
<1>4. PICK j \in DOMAIN table : table[j].pivot = LowestBit(y)
    BY <1>1 DEF Reducible
<1> DEFINE z == SymmetricDifference(y, table[j].vec)
<1>5. z \in SUBSET Bits /\ \A b \in z : LowestBit(y) < b
    BY <1>1, <1>4, SumRaises DEF Reducible
<1>6. Residual(table, y) = Residual(table, z)
    <2>1. y # {}
        BY <1>1 DEF Reducible
    <2> QED BY <1>4, <2>1, ResidualGo
<1>7. z \in T
    BY <1>5, <1>6
<1>8. z # {}
    BY <1>2, <1>7
<1> QED
    BY <1>3, <1>5, <1>7, <1>8, LowestIsLeast

-----------------------------------------------------------------------------
(* The span.  Closed(table, V): V is stable under adding rows, so the span of *)
(* the rows is the least such V that holds {}.                               *)

Closed(table, V) ==
    \A v \in V : \A j \in DOMAIN table : SymmetricDifference(v, table[j].vec) \in V

\* Elimination stays within a coset of the span.
LEMMA ResidualSound ==
    ASSUME Positions, NEW table, Echelon(table), NEW V, V \subseteq SUBSET Bits,
           Closed(table, V), NEW x \in SUBSET Bits
    PROVE  x \in V <=> Residual(table, x) \in V
<1> DEFINE T == {y \in SUBSET Bits : ~(y \in V <=> Residual(table, y) \in V)}
<1> SUFFICES ASSUME T # {} PROVE FALSE
    OBVIOUS
<1>1. ASSUME NEW y \in T PROVE Reducible(table, y)
    BY ResidualCases
<1>2. T \subseteq SUBSET Bits /\ {} \notin T
    BY <1>1 DEF Reducible
<1>3. PICK y \in T : \A z \in T : ~(LowestBit(y) < LowestBit(z))
    <2> HIDE DEF T
    <2> QED BY <1>2, HighestSet
<1>4. PICK j \in DOMAIN table : table[j].pivot = LowestBit(y)
    BY <1>1 DEF Reducible
<1> DEFINE z == SymmetricDifference(y, table[j].vec)
<1>5. z \in SUBSET Bits /\ \A b \in z : LowestBit(y) < b
    BY <1>1, <1>4, SumRaises DEF Reducible
<1>6. Residual(table, y) = Residual(table, z)
    <2>1. y # {}
        BY <1>1 DEF Reducible
    <2> QED BY <1>4, <2>1, ResidualGo
<1>7. y \in V <=> z \in V
    <2>1. SymmetricDifference(z, table[j].vec) = y
        BY SumFacts
    <2> QED
        BY <2>1 DEF Closed
<1>8. z \in T
    BY <1>5, <1>6, <1>7
<1>9. z # {}
    BY <1>2, <1>8
<1> QED
    BY <1>3, <1>5, <1>8, <1>9, LowestIsLeast

Spanned(table) == {x \in SUBSET Bits : InSpan(table, x)}

\* Adding a row to what reduces to nothing gives what reduces to nothing.
LEMMA SpannedClosed ==
    ASSUME Positions, NEW table, Echelon(table)
    PROVE  {} \in Spanned(table) /\ Closed(table, Spanned(table))
<1>0. {} \in Spanned(table)
    <2>1. ~Reducible(table, {})
        BY DEF Reducible
    <2> QED
        BY <2>1, ResidualCases DEF Spanned, InSpan
<1> DEFINE Bad(x) == \E j \in DOMAIN table : SymmetricDifference(x, table[j].vec) \notin Spanned(table)
           T == {x \in Spanned(table) : x # {} /\ Bad(x)}
<1>1. ASSUME NEW x \in SUBSET Bits, NEW j \in DOMAIN table
      PROVE  SymmetricDifference(x, table[j].vec) \in SUBSET Bits
    BY SumType, RowFacts
<1>2. ASSUME NEW j \in DOMAIN table
      PROVE  SymmetricDifference({}, table[j].vec) \in Spanned(table)
    <2>1. SymmetricDifference({}, table[j].vec) = table[j].vec
        BY SumFacts
    <2>2. SymmetricDifference(table[j].vec, table[j].vec) = {}
        BY SumFacts
    <2>3. table[j].vec \in SUBSET Bits /\ table[j].vec # {} /\ table[j].pivot = LowestBit(table[j].vec)
        BY DEF Echelon
    <2>4. Residual(table, table[j].vec) = Residual(table, SymmetricDifference(table[j].vec, table[j].vec))
        BY <2>3, ResidualGo
    <2> QED
        BY <1>0, <2>1, <2>2, <2>3, <2>4 DEF Spanned, InSpan
<1>3. T = {}
    <2> SUFFICES ASSUME T # {} PROVE FALSE
        OBVIOUS
    <2>1. T \subseteq SUBSET Bits /\ {} \notin T
        BY DEF Spanned
    <2>2. PICK x \in T : \A y \in T : ~(LowestBit(x) < LowestBit(y))
        <3> HIDE DEF T
        <3> QED BY <2>1, HighestSet
    <2>3. PICK j \in DOMAIN table : SymmetricDifference(x, table[j].vec) \notin Spanned(table)
        OBVIOUS
    <2>4. x \in SUBSET Bits /\ x # {} /\ Residual(table, x) = {}
        BY DEF Spanned, InSpan
    <2>5. Reducible(table, x)
        BY <2>4, ResidualCases
    <2>6. PICK k \in DOMAIN table : table[k].pivot = LowestBit(x)
        BY <2>5 DEF Reducible
    <2> DEFINE y == SymmetricDifference(x, table[k].vec)
               s == SymmetricDifference(x, table[j].vec)
    <2>7. y \in SUBSET Bits /\ \A b \in y : LowestBit(x) < b
        BY <2>4, <2>6, SumRaises
    <2>8. Residual(table, y) = {} /\ y \in Spanned(table)
        <3>1. Residual(table, x) = Residual(table, y)
            BY <2>4, <2>6, ResidualGo
        <3> QED
            BY <2>4, <2>7, <3>1 DEF Spanned, InSpan
    <2>9. s \in SUBSET Bits
        BY <1>1, <2>4
    <2>10. /\ LowestBit(x) \in x /\ LowestBit(x) \in Nat
           /\ \A b \in x : LowestBit(x) <= b
        BY <2>4, LowestIsLeast DEF Positions
    <2>11. /\ table[j].pivot \in table[j].vec /\ table[j].pivot \in Nat
           /\ table[j].vec \in SUBSET Bits
           /\ \A b \in table[j].vec : table[j].pivot <= b
        BY RowFacts
    <2>12. CASE table[j].pivot = LowestBit(x)
        <3>1. j = k
            BY <2>6, <2>12 DEF Echelon
        <3> QED
            BY <2>3, <2>8, <3>1
    <2>13. CASE table[j].pivot < LowestBit(x)
        <3>1. table[j].pivot \in s /\ \A b \in s : table[j].pivot <= b
            <4>1. table[j].pivot \notin x
                BY <2>10, <2>11, <2>13
            <4>2. \A b \in x : b \in Nat /\ table[j].pivot <= b
                BY <2>4, <2>10, <2>11, <2>13 DEF Positions
            <4> QED
                BY <2>11, <4>1, <4>2 DEF SymmetricDifference
        <3>2. s # {} /\ LowestBit(s) = table[j].pivot
            BY <2>9, <3>1, LowestIsOnly
        <3>3. SymmetricDifference(s, table[j].vec) = x
            BY SumFacts
        <3>4. Residual(table, s) = Residual(table, x)
            BY <2>9, <3>2, <3>3, ResidualGo
        <3> QED
            BY <2>3, <2>4, <2>9, <3>4 DEF Spanned, InSpan
    <2>14. CASE LowestBit(x) < table[j].pivot
        <3>1. LowestBit(x) \in s /\ \A b \in s : LowestBit(x) <= b
            <4>1. LowestBit(x) \notin table[j].vec
                BY <2>10, <2>11, <2>14
            <4>2. \A b \in table[j].vec : b \in Nat /\ LowestBit(x) <= b
                BY <2>10, <2>11, <2>14 DEF Positions
            <4> QED
                BY <2>10, <4>1, <4>2 DEF SymmetricDifference
        <3>2. s # {} /\ LowestBit(s) = LowestBit(x)
            BY <2>9, <3>1, LowestIsOnly
        <3>3. SymmetricDifference(s, table[k].vec) = SymmetricDifference(y, table[j].vec)
            BY SumFacts
        <3>4. Residual(table, s) = Residual(table, SymmetricDifference(y, table[j].vec))
            BY <2>6, <2>9, <3>2, <3>3, ResidualGo
        <3>5. SymmetricDifference(y, table[j].vec) \in Spanned(table)
            <4>1. CASE y = {}
                BY <1>2, <4>1
            <4>2. CASE y # {}
                <5>1. y \notin T
                    BY <2>2, <2>7, <4>2, LowestIsLeast
                <5> QED
                    BY <2>8, <4>2, <5>1
            <4> QED BY <4>1, <4>2
        <3>6. Residual(table, SymmetricDifference(y, table[j].vec)) = {}
            BY <3>5 DEF Spanned, InSpan
        <3> QED
            BY <2>3, <2>9, <3>4, <3>6 DEF Spanned, InSpan
    <2> QED
        BY <2>10, <2>11, <2>12, <2>13, <2>14
<1> QED
    BY <1>0, <1>2, <1>3 DEF Closed

\* Membership in the span, as a set.
LEMMA SpannedIsInSpan ==
    ASSUME NEW table, NEW x \in SUBSET Bits
    PROVE  InSpan(table, x) <=> x \in Spanned(table)
BY DEF Spanned

\* The sets that differ from x by a sum of rows are closed too.
LEMMA CosetClosed ==
    ASSUME Positions, NEW table, Echelon(table), NEW x \in SUBSET Bits
    PROVE  Closed(table, {v \in SUBSET Bits : SymmetricDifference(v, x) \in Spanned(table)})
<1> DEFINE V == {v \in SUBSET Bits : SymmetricDifference(v, x) \in Spanned(table)}
<1>1. ASSUME NEW v \in V, NEW j \in DOMAIN table
      PROVE  SymmetricDifference(v, table[j].vec) \in V
    <2>1. SymmetricDifference(SymmetricDifference(v, table[j].vec), x)
            = SymmetricDifference(SymmetricDifference(v, x), table[j].vec)
        BY SumFacts
    <2>2. SymmetricDifference(SymmetricDifference(v, x), table[j].vec) \in Spanned(table)
        BY SpannedClosed DEF Closed
    <2>3. SymmetricDifference(v, table[j].vec) \in SUBSET Bits
        BY RowFacts, SumType
    <2> QED
        BY <2>1, <2>2, <2>3
<1> QED
    BY <1>1 DEF Closed

\* The span is closed under addition.
LEMMA SpannedSum ==
    ASSUME Positions, NEW table, Echelon(table), NEW a \in Spanned(table), NEW b \in SUBSET Bits
    PROVE  b \in Spanned(table) <=> SymmetricDifference(a, b) \in Spanned(table)
<1> DEFINE V == {v \in SUBSET Bits : SymmetricDifference(v, b) \in Spanned(table)}
<1>1. Closed(table, V) /\ V \subseteq SUBSET Bits
    BY CosetClosed
<1>2. a \in SUBSET Bits /\ Residual(table, a) = {}
    BY DEF Spanned, InSpan
<1>3. a \in V <=> {} \in V
    <2> HIDE DEF V
    <2> QED BY <1>1, <1>2, ResidualSound
<1>4. {} \in V <=> b \in Spanned(table)
    BY SumFacts
<1> QED
    BY <1>2, <1>3, <1>4

\* A set and its residual differ by a sum of rows.
LEMMA ResidualCoset ==
    ASSUME Positions, NEW table, Echelon(table), NEW x \in SUBSET Bits
    PROVE  SymmetricDifference(x, Residual(table, x)) \in Spanned(table)
<1> DEFINE V == {v \in SUBSET Bits : SymmetricDifference(v, x) \in Spanned(table)}
<1>1. Closed(table, V) /\ V \subseteq SUBSET Bits
    BY CosetClosed
<1>2. x \in V
    BY SpannedClosed, SumFacts
<1>3. Residual(table, x) \in V
    <2> HIDE DEF V
    <2> QED BY <1>1, <1>2, ResidualSound
<1>4. SymmetricDifference(Residual(table, x), x) = SymmetricDifference(x, Residual(table, x))
    BY SumFacts
<1> QED
    BY <1>3, <1>4

-----------------------------------------------------------------------------
(* Adding a row.                                                             *)

\* new is old with one row more, which may have been added to older rows: that
\* is insert (with its rotations) and a birth (without).
GrownBy(old, new, n, r) ==
    /\ n \notin DOMAIN old /\ DOMAIN new = DOMAIN old \union {n}
    /\ new[n].vec = r
    /\ \A j \in DOMAIN old : new[j].vec \in {old[j].vec, SymmetricDifference(old[j].vec, r)}

\* The span of a grown table, for any x that the new row stands for.
LEMMA GrownSpan ==
    ASSUME Positions, NEW old, NEW new, Echelon(old), Echelon(new),
           NEW x \in SUBSET Bits, NEW r \in SUBSET Bits,
           SymmetricDifference(x, r) \in Spanned(old), NEW n, GrownBy(old, new, n, r),
           NEW y \in SUBSET Bits
    PROVE  y \in Spanned(new) <=>
              y \in Spanned(old) \/ SymmetricDifference(y, x) \in Spanned(old)
<1> DEFINE W == {v \in SUBSET Bits : v \in Spanned(old) \/ SymmetricDifference(v, x) \in Spanned(old)}
<1>1. r \in SUBSET Bits /\ SymmetricDifference(x, r) \in Spanned(old)
    OBVIOUS
<1>2. ASSUME NEW v \in SUBSET Bits, NEW j \in DOMAIN old, v \in Spanned(new)
      PROVE  SymmetricDifference(v, old[j].vec) \in Spanned(new)
    <2>1. /\ \A k \in DOMAIN new : SymmetricDifference(v, new[k].vec) \in Spanned(new)
          /\ j \in DOMAIN new /\ n \in DOMAIN new /\ new[n].vec = r
          /\ new[j].vec = old[j].vec \/ new[j].vec = SymmetricDifference(old[j].vec, r)
        BY <1>2, SpannedClosed DEF Closed, GrownBy
    <2>2. CASE new[j].vec = old[j].vec
        BY <2>1, <2>2
    <2>3. CASE new[j].vec = SymmetricDifference(old[j].vec, r)
        <3>1. SymmetricDifference(SymmetricDifference(v, new[j].vec), new[n].vec) \in Spanned(new)
            BY <2>1, SpannedClosed DEF Closed
        <3>2. SymmetricDifference(SymmetricDifference(v, SymmetricDifference(old[j].vec, r)), r)
                = SymmetricDifference(v, old[j].vec)
            BY SumFacts
        <3> QED
            BY <2>1, <2>3, <3>1, <3>2
    <2> QED
        BY <2>1, <2>2, <2>3
<1>3. Closed(old, Spanned(new)) /\ Spanned(new) \subseteq SUBSET Bits
    BY <1>2 DEF Closed, Spanned
<1>4. ASSUME NEW v \in Spanned(old) PROVE v \in Spanned(new)
    <2>1. v \in SUBSET Bits /\ Residual(old, v) = {}
        BY DEF Spanned, InSpan
    <2> QED
        BY <1>3, <2>1, ResidualSound, SpannedClosed
<1>5. r \in Spanned(new) /\ x \in Spanned(new)
    <2>1. SymmetricDifference({}, r) \in Spanned(new)
        <3>1. {} \in Spanned(new) /\ n \in DOMAIN new /\ new[n].vec = r
            BY SpannedClosed DEF GrownBy
        <3> QED BY <3>1, SpannedClosed DEF Closed
    <2>2. r \in Spanned(new)
        BY <2>1, SumFacts
    <2>3. SymmetricDifference(x, r) \in Spanned(new)
        BY <1>1, <1>4
    <2>4. SymmetricDifference(r, x) = SymmetricDifference(x, r)
        BY SumFacts
    <2> QED
        BY <2>2, <2>3, <2>4, SpannedSum
<1>6. ASSUME y \in Spanned(old) \/ SymmetricDifference(y, x) \in Spanned(old)
      PROVE  y \in Spanned(new)
    <2>1. CASE y \in Spanned(old)
        BY <1>4, <2>1
    <2>2. CASE SymmetricDifference(y, x) \in Spanned(old)
        <3>1. SymmetricDifference(x, y) \in Spanned(new)
            BY <1>4, <2>2, SumFacts
        <3> QED
            BY <1>5, <3>1, SpannedSum
    <2> QED BY <1>6, <2>1, <2>2
<1>7. ASSUME NEW v \in SUBSET Bits
      PROVE  SymmetricDifference(SymmetricDifference(v, r), x) \in Spanned(old) <=> v \in Spanned(old)
    <2>1. SymmetricDifference(SymmetricDifference(v, r), x)
            = SymmetricDifference(SymmetricDifference(x, r), v)
        BY SumFacts
    <2> QED
        BY <1>1, <2>1, SpannedSum
<1>8. ASSUME NEW v \in W, NEW j \in DOMAIN old
      PROVE  SymmetricDifference(v, old[j].vec) \in W
    <2>1. SymmetricDifference(v, old[j].vec) \in SUBSET Bits
        BY RowFacts, SumType
    <2>2. CASE v \in Spanned(old)
        BY <2>1, <2>2, SpannedClosed DEF Closed
    <2>3. CASE SymmetricDifference(v, x) \in Spanned(old)
        BY <2>1, <2>3, CosetClosed DEF Closed
    <2> QED BY <2>2, <2>3
<1>9. ASSUME NEW v \in W PROVE SymmetricDifference(v, r) \in W
    <2>1. SymmetricDifference(v, r) \in SUBSET Bits
        BY <1>1, SumType
    <2>2. CASE v \in Spanned(old)
        BY <1>7, <2>1, <2>2
    <2>3. CASE SymmetricDifference(v, x) \in Spanned(old)
        <3>1. SymmetricDifference(SymmetricDifference(v, x), SymmetricDifference(x, r))
                = SymmetricDifference(v, r)
            BY SumFacts
        <3>2. SymmetricDifference(v, r) \in Spanned(old)
            <4>1. SymmetricDifference(x, r) \in SUBSET Bits
                BY <1>1, SumType
            <4> QED BY <1>1, <2>3, <3>1, <4>1, SpannedSum
        <3> QED BY <2>1, <3>2
    <2> QED BY <2>2, <2>3
<1>10. Closed(new, W) /\ W \subseteq SUBSET Bits
    <2>1. ASSUME NEW v \in W, NEW j \in DOMAIN new
          PROVE  SymmetricDifference(v, new[j].vec) \in W
        <3> HIDE DEF W
        <3>1. CASE j = n
            BY <1>9, <3>1 DEF GrownBy
        <3>2. CASE j \in DOMAIN old
            <4>1. SymmetricDifference(v, old[j].vec) \in W
                BY <1>8, <3>2
            <4>2. SymmetricDifference(SymmetricDifference(v, old[j].vec), r) \in W
                BY <1>9, <4>1
            <4>3. SymmetricDifference(SymmetricDifference(v, old[j].vec), r)
                    = SymmetricDifference(v, SymmetricDifference(old[j].vec, r))
                BY SumFacts
            <4> QED
                BY <3>2, <4>1, <4>2, <4>3 DEF GrownBy
        <3> QED
            BY <3>1, <3>2 DEF GrownBy
    <2> QED
        BY <2>1 DEF Closed
<1>11. ASSUME y \in Spanned(new)
       PROVE  y \in Spanned(old) \/ SymmetricDifference(y, x) \in Spanned(old)
    <2>1. y \in SUBSET Bits /\ Residual(new, y) = {}
        BY <1>11 DEF Spanned, InSpan
    <2>2. {} \in W
        BY SpannedClosed
    <2>3. y \in W
        <3> HIDE DEF W
        <3> QED BY <1>10, <2>1, <2>2, ResidualSound
    <2> QED
        BY <2>3
<1> QED
    BY <1>6, <1>11

Row == [vec : SUBSET Bits, pivot : Nat]

\* A new row whose pivot is no older row's.
LEMMA AppendEchelon ==
    ASSUME Positions, NEW S, NEW table \in Seq(S), Echelon(table), NEW e \in S,
           e.vec \in SUBSET Bits, e.vec # {}, e.pivot = LowestBit(e.vec),
           \A j \in DOMAIN table : table[j].pivot # e.pivot
    PROVE  Echelon(Append(table, e))
<1> DEFINE new == Append(table, e)
<1>1. /\ DOMAIN new = DOMAIN table \union {Len(table) + 1}
      /\ DOMAIN new \subseteq Nat
      /\ new[Len(table) + 1] = e
      /\ \A j \in DOMAIN table : new[j] = table[j]
    OBVIOUS
<1> HIDE DEF new
<1>2. ASSUME NEW j \in DOMAIN new
      PROVE  new[j].vec \in SUBSET Bits /\ new[j].vec # {} /\ new[j].pivot = LowestBit(new[j].vec)
    BY <1>1 DEF Echelon
<1>3. ASSUME NEW j \in DOMAIN new, NEW k \in DOMAIN new, new[j].pivot = new[k].pivot
      PROVE  j = k
    BY <1>1, <1>3 DEF Echelon
<1>4. Echelon(new)
    BY <1>1, <1>2, <1>3 DEF Echelon
<1> QED
    BY <1>4 DEF new

\* insert's rotation keeps every older row led by its pivot.
LEMMA ClearedEchelon ==
    ASSUME Positions, NEW table \in Seq(Row), Echelon(table),
           NEW r \in SUBSET Bits, r # {}, \A j \in DOMAIN table : table[j].pivot # LowestBit(r)
    PROVE  /\ Cleared(table, r) \in Seq(Row) /\ Len(Cleared(table, r)) = Len(table)
           /\ Echelon(Cleared(table, r))
           /\ \A j \in DOMAIN table :
                 /\ Cleared(table, r)[j].pivot = table[j].pivot
                 /\ Cleared(table, r)[j].vec \in {table[j].vec, SymmetricDifference(table[j].vec, r)}
<1> DEFINE new == Cleared(table, r)
<1>0. LowestBit(r) \in r /\ LowestBit(r) \in Nat /\ \A b \in r : LowestBit(r) <= b
    BY LowestIsLeast DEF Positions
<1>1. ASSUME NEW j \in DOMAIN table
      PROVE  /\ new[j] \in Row /\ new[j].pivot = table[j].pivot
             /\ new[j].vec \in {table[j].vec, SymmetricDifference(table[j].vec, r)}
             /\ new[j].vec # {} /\ new[j].pivot = LowestBit(new[j].vec)
    <2>1. table[j] \in Row
        OBVIOUS
    <2>2. /\ table[j].pivot \in table[j].vec /\ table[j].pivot \in Nat
          /\ table[j].vec \in SUBSET Bits
          /\ table[j].pivot = LowestBit(table[j].vec)
          /\ \A b \in table[j].vec : table[j].pivot <= b
        BY RowFacts DEF Echelon
    <2>3. CASE LowestBit(r) \notin table[j].vec
        <3>1. new[j] = table[j]
            BY <2>3 DEF Cleared, Rotated
        <3> QED BY <2>1, <2>2, <3>1
    <2>4. CASE LowestBit(r) \in table[j].vec
        <3> DEFINE v == SymmetricDifference(table[j].vec, r)
        <3>1. new[j] = [table[j] EXCEPT !.vec = v]
            BY <2>4 DEF Cleared, Rotated
        <3>2. v \in SUBSET Bits
            BY <2>2, SumType
        <3>3. table[j].pivot < LowestBit(r)
            BY <1>0, <2>2, <2>4
        <3>4. table[j].pivot \in v /\ \A b \in v : table[j].pivot <= b
            <4>1. table[j].pivot \notin r
                BY <1>0, <2>2, <3>3
            <4>2. \A b \in r : b \in Nat /\ table[j].pivot <= b
                BY <1>0, <2>2, <3>3 DEF Positions
            <4> QED BY <2>2, <4>1, <4>2 DEF SymmetricDifference
        <3>5. LowestBit(v) = table[j].pivot
            BY <3>2, <3>4, LowestIsOnly
        <3> HIDE DEF v
        <3>6. new[j] \in Row /\ new[j].vec = v /\ new[j].pivot = table[j].pivot
            BY <2>1, <3>1, <3>2 DEF Row
        <3> QED
            BY <3>4, <3>5, <3>6 DEF v
    <2> QED BY <2>3, <2>4
<1>2. DOMAIN new = 1..Len(table) /\ DOMAIN table = 1..Len(table) /\ Len(table) \in Nat
    BY DEF Cleared
<1>3. new \in Seq(Row) /\ Len(new) = Len(table)
    <2> HIDE DEF new
    <2>1. new = [j \in 1..Len(table) |-> new[j]]
        BY <1>2 DEF new, Cleared
    <2>2. new \in [1..Len(table) -> Row]
        BY <1>1, <1>2, <2>1
    <2> QED BY <1>2, <2>2
<1>4. Echelon(new)
    <2> HIDE DEF new
    <2>1. DOMAIN new \subseteq Nat /\ DOMAIN new = DOMAIN table
        BY <1>2
    <2>2. \A j \in DOMAIN new : new[j].vec \in SUBSET Bits
        BY <1>1, <2>1 DEF Row
    <2> QED BY <1>1, <2>1, <2>2 DEF Echelon
<1> QED
    BY <1>1, <1>3, <1>4

\* insert keeps the table an echelon of rows, and grows it by the residual.
LEMMA InsertEchelon ==
    ASSUME Positions, NEW table \in Seq(Row), Echelon(table), NEW x \in SUBSET Bits
    PROVE  /\ Insert(table, x) \in Seq(Row) /\ Echelon(Insert(table, x))
           /\ InSpan(table, x) => Insert(table, x) = table
           /\ ~InSpan(table, x) =>
                 GrownBy(table, Insert(table, x), Len(table) + 1, Residual(table, x))
<1> DEFINE r == Residual(table, x)
           e == [vec |-> r, pivot |-> LowestBit(r)]
<1>1. CASE r = {}
    BY <1>1 DEF Insert, InSpan
<1>2. CASE r # {}
    <2>1. r \in SUBSET Bits /\ ~Reducible(table, r)
        BY ResidualCases, ResidualIrreducible
    <2>2. Insert(table, x) = Append(Cleared(table, r), e)
        BY <1>2 DEF Insert
    <2> HIDE DEF r
    <2>3. LowestBit(r) \in Nat
        BY <1>2, <2>1, LowestIsLeast DEF Positions
    <2>4. e \in Row
        BY <2>1, <2>3 DEF Row
    <2>5. \A j \in DOMAIN table : table[j].pivot # LowestBit(r)
        BY <1>2, <2>1 DEF Reducible
    <2> DEFINE c == Cleared(table, r)
    <2>6. /\ c \in Seq(Row) /\ Len(c) = Len(table) /\ Echelon(c)
          /\ \A j \in DOMAIN table :
                /\ c[j].pivot = table[j].pivot
                /\ c[j].vec \in {table[j].vec, SymmetricDifference(table[j].vec, r)}
        BY <1>2, <2>1, <2>5, ClearedEchelon
    <2> HIDE DEF c
    <2>7. DOMAIN c = DOMAIN table
        BY <2>6
    <2>8. \A j \in DOMAIN c : c[j].pivot # e.pivot
        BY <2>5, <2>6, <2>7
    <2>9. e.vec \in SUBSET Bits /\ e.vec # {} /\ e.pivot = LowestBit(e.vec) /\ e.vec = r
        BY <1>2, <2>1
    <2> HIDE DEF e
    <2>10. Append(c, e) \in Seq(Row) /\ Echelon(Append(c, e))
        BY <2>4, <2>6, <2>8, <2>9, AppendEchelon
    <2>11. /\ DOMAIN Append(c, e) = DOMAIN table \union {Len(table) + 1}
           /\ Len(table) + 1 \notin DOMAIN table
           /\ Append(c, e)[Len(table) + 1] = e
           /\ \A j \in DOMAIN table : Append(c, e)[j] = c[j]
        BY <2>4, <2>6
    <2>12. GrownBy(table, Append(c, e), Len(table) + 1, r)
        BY <2>6, <2>9, <2>11 DEF GrownBy
    <2>13. ~InSpan(table, x)
        BY <1>2 DEF InSpan, r
    <2> QED
        BY <2>2, <2>10, <2>12, <2>13 DEF c, r
<1> QED
    BY <1>1, <1>2

\* The rows after an insert that adds one: the older rows, cleared of the new
\* pivot, keep their own.
LEMMA InsertRows ==
    ASSUME Positions, NEW table \in Seq(Row), Echelon(table), NEW x \in SUBSET Bits,
           ~InSpan(table, x)
    PROVE  LET r == Residual(table, x) IN
           /\ r \in SUBSET Bits /\ r # {}
           /\ LowestBit(r) \in Nat /\ \A j \in DOMAIN table : table[j].pivot # LowestBit(r)
           /\ DOMAIN Insert(table, x) = DOMAIN table \union {Len(table) + 1}
           /\ Insert(table, x)[Len(table) + 1].pivot = LowestBit(r)
           /\ \A j \in DOMAIN table :
                 /\ Insert(table, x)[j] = Cleared(table, r)[j]
                 /\ Insert(table, x)[j].pivot = table[j].pivot
<1> DEFINE r == Residual(table, x)
           e == [vec |-> r, pivot |-> LowestBit(r)]
           c == Cleared(table, r)
<1>1. r # {}
    BY DEF InSpan
<1>2. r \in SUBSET Bits /\ ~Reducible(table, r)
    BY ResidualCases, ResidualIrreducible
<1>3. Insert(table, x) = Append(c, e)
    BY <1>1 DEF Insert
<1> HIDE DEF r
<1>4. LowestBit(r) \in Nat
    BY <1>1, <1>2, LowestIsLeast DEF Positions
<1>5. \A j \in DOMAIN table : table[j].pivot # LowestBit(r)
    BY <1>1, <1>2 DEF Reducible
<1>6. e \in Row
    BY <1>2, <1>4 DEF Row
<1>7. c \in Seq(Row) /\ Len(c) = Len(table) /\ \A j \in DOMAIN table : c[j].pivot = table[j].pivot
    BY <1>1, <1>2, <1>5, ClearedEchelon
<1> HIDE DEF c
<1>8. /\ DOMAIN Append(c, e) = DOMAIN table \union {Len(table) + 1}
      /\ Append(c, e)[Len(table) + 1] = e
      /\ \A j \in DOMAIN table : Append(c, e)[j] = c[j]
    BY <1>6, <1>7
<1>9. e.pivot = LowestBit(r)
    OBVIOUS
<1> HIDE DEF e
<1> QED
    BY <1>1, <1>2, <1>3, <1>4, <1>5, <1>7, <1>8, <1>9 DEF r, c

\* contains, after an insert: the old span and its coset of the new set.
THEOREM InsertSpan ==
    ASSUME Positions, NEW table \in Seq(Row), Echelon(table),
           NEW x \in SUBSET Bits, NEW y \in SUBSET Bits
    PROVE  InSpan(Insert(table, x), y) <=>
              InSpan(table, y) \/ InSpan(table, SymmetricDifference(y, x))
<1>0. SymmetricDifference(y, x) \in SUBSET Bits
    BY SumType
<1>1. CASE InSpan(table, x)
    <2>1. x \in Spanned(table)
        BY <1>1, SpannedIsInSpan
    <2>2. y \in Spanned(table) <=> SymmetricDifference(x, y) \in Spanned(table)
        BY <2>1, SpannedSum
    <2>3. SymmetricDifference(x, y) = SymmetricDifference(y, x)
        BY SumFacts
    <2> QED
        BY <1>0, <1>1, <2>2, <2>3, InsertEchelon, SpannedIsInSpan
<1>2. CASE ~InSpan(table, x)
    <2> DEFINE new == Insert(table, x)
    <2>1. /\ Echelon(new) /\ GrownBy(table, new, Len(table) + 1, Residual(table, x))
          /\ Residual(table, x) \in SUBSET Bits
          /\ SymmetricDifference(x, Residual(table, x)) \in Spanned(table)
        BY <1>2, InsertEchelon, ResidualCases, ResidualCoset
    <2> HIDE DEF new
    <2>2. y \in Spanned(new) <=>
             y \in Spanned(table) \/ SymmetricDifference(y, x) \in Spanned(table)
        BY <2>1, GrownSpan
    <2> QED
        BY <1>0, <2>2, SpannedIsInSpan DEF new
<1> QED
    BY <1>1, <1>2

\* What was in the span stays there, and what is inserted gets there.
LEMMA InsertKeeps ==
    ASSUME Positions, NEW table \in Seq(Row), Echelon(table), NEW x \in SUBSET Bits
    PROVE  /\ InSpan(Insert(table, x), x)
           /\ \A y \in SUBSET Bits : InSpan(table, y) => InSpan(Insert(table, x), y)
<1>1. InSpan(table, SymmetricDifference(x, x))
    BY SumFacts, SpannedClosed, SpannedIsInSpan
<1> QED
    BY <1>1, InsertSpan

-----------------------------------------------------------------------------
(* Folds over finite sets: the iteration they choose exists.                 *)

\* g folds step over the subsets of S, taking out pick[s] first.
Folds(g, S, base, pick, step) ==
    \A s \in SUBSET S :
        g[s] = IF s = {} THEN base ELSE step[pick[s]][g[s \ {pick[s]}]]

\* Such a fold exists for any step within a set of values.
LEMMA FoldExists ==
    ASSUME NEW S, IsFiniteSet(S), NEW V, NEW base \in V, NEW pick, NEW step,
           \A s \in SUBSET S : s # {} => pick[s] \in s,
           \A x \in S, v \in V : step[x][v] \in V
    PROVE  \E g \in [SUBSET S -> V] : Folds(g, S, base, pick, step)
<1> DEFINE Next1(g, s) == IF s = {} THEN base ELSE step[pick[s]][g[s \ {pick[s]}]]
           Upto(k, g) == \A s \in SUBSET S : Cardinality(s) <= k => g[s] = Next1(g, s)
           T == {k \in Nat : ~ \E g \in [SUBSET S -> V] : Upto(k, g)}
<1>0. \A s \in SUBSET S : /\ IsFiniteSet(s) /\ Cardinality(s) \in Nat
                          /\ Cardinality(s) = 0 <=> s = {}
                          /\ s # {} => /\ s \ {pick[s]} \in SUBSET S
                                       /\ Cardinality(s \ {pick[s]}) = Cardinality(s) - 1
    BY FS_Subset, FS_CardinalityType, FS_EmptySet, FS_RemoveElement
<1>1. ASSUME NEW g \in [SUBSET S -> V], NEW s \in SUBSET S
      PROVE  Next1(g, s) \in V
    BY <1>0
<1>2. T = {}
    <2> SUFFICES ASSUME T # {} PROVE FALSE
        OBVIOUS
    <2>1. PICK k \in T : \A i \in T : k <= i
        <3> HIDE DEF Upto
        <3>1. T \subseteq Nat
            OBVIOUS
        <3> HIDE DEF T
        <3> QED BY <3>1, LeastNatural
    <2>2. CASE k = 0
        <3> DEFINE g == [s \in SUBSET S |-> base]
        <3>1. ASSUME NEW s \in SUBSET S, Cardinality(s) <= 0
              PROVE  g[s] = Next1(g, s)
            <4>1. Cardinality(s) \in Nat /\ (Cardinality(s) = 0 => s = {})
                BY <1>0
            <4>2. Cardinality(s) = 0
                BY <3>1, <4>1
            <4>3. s = {}
                BY <4>1, <4>2
            <4> QED BY <4>3
        <3>2. g \in [SUBSET S -> V] /\ Upto(0, g)
            BY <3>1
        <3> HIDE DEF g, Upto
        <3> QED BY <2>1, <2>2, <3>2
    <2>3. CASE k # 0
        <3>1. k - 1 \in Nat /\ k - 1 \notin T
            <4>1. k \in Nat
                BY <2>1
            <4> HIDE DEF T
            <4> QED BY <2>1, <2>3, <4>1
        <3>2. PICK g \in [SUBSET S -> V] : Upto(k - 1, g)
            BY <3>1
        <3> DEFINE h == [s \in SUBSET S |-> Next1(g, s)]
        <3>3. h \in [SUBSET S -> V]
            BY <1>1
        <3>4. ASSUME NEW s \in SUBSET S, Cardinality(s) <= k
              PROVE  h[s] = Next1(h, s)
            <4>1. CASE s = {}
                BY <4>1
            <4>2. CASE s # {}
                <5>1. s \ {pick[s]} \in SUBSET S /\ Cardinality(s \ {pick[s]}) <= k - 1
                    <6>1. k \in Nat
                        BY <2>1
                    <6>2. Cardinality(s) \in Nat /\ s \ {pick[s]} \in SUBSET S
                          /\ Cardinality(s \ {pick[s]}) = Cardinality(s) - 1
                        BY <1>0, <4>2
                    <6> QED BY <3>4, <6>1, <6>2
                <5>2. h[s \ {pick[s]}] = g[s \ {pick[s]}]
                    BY <3>2, <5>1
                <5> QED BY <4>2, <5>2
            <4> QED BY <4>1, <4>2
        <3>5. Upto(k, h)
            BY <3>4
        <3> HIDE DEF h, Upto
        <3> QED BY <2>1, <3>3, <3>5
    <2> QED BY <2>2, <2>3
<1>3. PICK g \in [SUBSET S -> V] : Upto(Cardinality(S), g)
    <2>1. Cardinality(S) \in Nat
        BY FS_CardinalityType
    <2> QED BY <1>2, <2>1
<1>4. \A s \in SUBSET S : Cardinality(s) <= Cardinality(S)
    BY FS_Subset
<1> QED
    BY <1>3, <1>4 DEF Folds


-----------------------------------------------------------------------------
(* Span, the reference definition, is the least set that holds {} and is     *)
(* closed under adding generators.                                           *)

SomeOf(s) == CHOOSE x \in s : TRUE

Doubled(V, x) == V \union {SymmetricDifference(v, x) : v \in V}

SpanStep(g, s) == IF s = {} THEN {{}} ELSE Doubled(g[s \ {SomeOf(s)}], SomeOf(s))

\* The fold that Span is.
LEMMA SpanChosen ==
    ASSUME NEW S
    PROVE  Span(S) = (CHOOSE g : g = [s \in SUBSET S |-> SpanStep(g, s)])[S]
BY DEF Span, FoldSet, MapThenFoldSet, SpanStep, Doubled, SomeOf

\* That fold exists: it is a function on the sets of generators.
LEMMA SpanFolds ==
    ASSUME NEW S \in SUBSET SUBSET Bits, IsFiniteSet(S)
    PROVE  \E g : Span(S) = g[S] /\ g = [s \in SUBSET S |-> SpanStep(g, s)]
<1> DEFINE pick == [s \in SUBSET S |-> SomeOf(s)]
           V == SUBSET SUBSET Bits
           step == [x \in S |-> [v \in V |-> Doubled(v, x)]]
<1>1. \A s \in SUBSET S : pick[s] = SomeOf(s) /\ (s # {} => pick[s] \in s)
    BY DEF SomeOf
<1>2. \A x \in S, v \in V : step[x][v] = Doubled(v, x) /\ step[x][v] \in V
    BY SumType DEF Doubled
<1>3. {{}} \in V
    OBVIOUS
<1> HIDE DEF pick, step, V
<1>4. PICK g \in [SUBSET S -> V] : Folds(g, S, {{}}, pick, step)
    <2>1. \A s \in SUBSET S : s # {} => pick[s] \in s
        BY <1>1
    <2>2. \A x \in S, v \in V : step[x][v] \in V
        BY <1>2
    <2> QED BY <1>3, <2>1, <2>2, FoldExists
<1>5. ASSUME NEW s \in SUBSET S
      PROVE  g[s] = SpanStep(g, s)
    <2>1. CASE s = {}
        BY <1>4, <2>1 DEF SpanStep, Folds
    <2>2. CASE s # {}
        <3>1. pick[s] = SomeOf(s) /\ pick[s] \in S /\ s \ {pick[s]} \in SUBSET S
            BY <1>1, <2>2
        <3>2. g[s \ {pick[s]}] \in V
            BY <3>1
        <3>3. step[pick[s]][g[s \ {pick[s]}]] = Doubled(g[s \ {pick[s]}], pick[s])
            BY <1>2, <3>1, <3>2
        <3> QED BY <1>4, <2>2, <3>1, <3>3 DEF SpanStep, Folds
    <2> QED BY <2>1, <2>2
<1>6. g = [s \in SUBSET S |-> SpanStep(g, s)]
    BY <1>5
<1> QED
    BY <1>6, SpanChosen


ClosedUnder(S, V) == {} \in V /\ \A v \in V : \A x \in S : SymmetricDifference(v, x) \in V

\* Induction on a finite set: a least counterexample.
LEMMA LeastSubset ==
    ASSUME NEW S, IsFiniteSet(S), NEW T, T \subseteq SUBSET S, T # {}
    PROVE  \E s \in T : \A r \in T : r \subseteq s => r = s
<1>1. T \subseteq FiniteSubsetsOf(S)
    BY FS_Subset DEF FiniteSubsetsOf
<1>2. PICK s \in T : \A r \in T : ~(<<r, s>> \in StrictSubsetOrdering(S))
    BY <1>1, FS_StrictSubsetOrderingWellFounded, WFMin
<1> QED
    BY <1>2 DEF StrictSubsetOrdering

\* A fold is good on every set when it is good on {} and goes from a set
\* without one of its elements to the set.
LEMMA SubsetInduction ==
    ASSUME NEW S, IsFiniteSet(S), NEW G, {} \in G,
           \A s \in SUBSET S : s # {} /\ s \ {SomeOf(s)} \in G => s \in G
    PROVE  S \in G
<1> DEFINE T == {s \in SUBSET S : s \notin G}
<1> SUFFICES ASSUME T # {} PROVE FALSE
    OBVIOUS
<1>1. T \subseteq SUBSET S
    OBVIOUS
<1>2. PICK s \in T : \A r \in T : r \subseteq s => r = s
    <2> HIDE DEF T
    <2> QED BY <1>1, LeastSubset
<1>3. s # {} /\ SomeOf(s) \in s
    BY DEF SomeOf
<1>4. s \ {SomeOf(s)} \notin T
    BY <1>2, <1>3
<1> QED
    BY <1>3, <1>4

Hereditary(S, G) ==
    \A s \in SUBSET S : (\A r \in SUBSET s : r # s => r \in G) => s \in G

\* The same with every smaller set as hypothesis.
LEMMA StrongInduction ==
    ASSUME NEW S, IsFiniteSet(S), NEW G, Hereditary(S, G)
    PROVE  S \in G
<1> DEFINE T == {s \in SUBSET S : s \notin G}
<1> SUFFICES ASSUME T # {} PROVE FALSE
    OBVIOUS
<1>1. T \subseteq SUBSET S
    OBVIOUS
<1>2. PICK s \in T : \A r \in T : r \subseteq s => r = s
    <2> HIDE DEF T
    <2> QED BY <1>1, LeastSubset
<1> QED
    BY <1>2 DEF Hereditary

\* Span(S) is closed, and inside every closed set.
LEMMA SpanLeast ==
    ASSUME NEW S \in SUBSET SUBSET Bits, IsFiniteSet(S)
    PROVE  /\ Span(S) \subseteq SUBSET Bits /\ ClosedUnder(S, Span(S))
           /\ \A V : ClosedUnder(S, V) => Span(S) \subseteq V
<1>1. PICK g : Span(S) = g[S] /\ g = [s \in SUBSET S |-> SpanStep(g, s)]
    BY SpanFolds
<1>2. /\ {} \in SUBSET S /\ g[{}] = {{}}
      /\ \A s \in SUBSET S : s # {} =>
            /\ SomeOf(s) \in s /\ s \ {SomeOf(s)} \in SUBSET S
            /\ g[s] = Doubled(g[s \ {SomeOf(s)}], SomeOf(s))
    <2>1. \A s \in SUBSET S : g[s] = SpanStep(g, s)
        BY <1>1
    <2> QED BY <2>1 DEF SpanStep, SomeOf
<1>3. g[S] \subseteq SUBSET Bits /\ ClosedUnder(S, g[S])
    <2> DEFINE G == {s \in SUBSET S : g[s] \subseteq SUBSET Bits /\ ClosedUnder(s, g[s])}
    <2>1. {} \in G
        BY <1>2 DEF ClosedUnder
    <2>2. ASSUME NEW s \in SUBSET S, s # {}, s \ {SomeOf(s)} \in G
          PROVE  s \in G
        <3> DEFINE a == SomeOf(s)
                   V == g[s \ {SomeOf(s)}]
        <3>1. /\ a \in s /\ a \in SUBSET Bits /\ g[s] = Doubled(V, a)
              /\ V \subseteq SUBSET Bits /\ ClosedUnder(s \ {a}, V)
            BY <1>2, <2>2
        <3> HIDE DEF a, V
        <3>2. g[s] \subseteq SUBSET Bits
            BY <3>1, SumType DEF Doubled
        <3>3. ASSUME NEW v \in Doubled(V, a), NEW x \in s
              PROVE  SymmetricDifference(v, x) \in Doubled(V, a)
            <4>1. CASE x = a
                <5>1. PICK w \in V : v = w \/ v = SymmetricDifference(w, a)
                    BY DEF Doubled
                <5> QED BY <4>1, <5>1, SumFacts DEF Doubled
            <4>2. CASE x # a
                <5>1. x \in s \ {a}
                    BY <4>2
                <5>2. CASE v \in V
                    BY <3>1, <5>1, <5>2 DEF Doubled, ClosedUnder
                <5>3. CASE v \notin V
                    <6>1. PICK w \in V : v = SymmetricDifference(w, a)
                        BY <5>3 DEF Doubled
                    <6>2. SymmetricDifference(w, x) \in V
                        BY <3>1, <5>1 DEF ClosedUnder
                    <6>3. SymmetricDifference(v, x) = SymmetricDifference(SymmetricDifference(w, x), a)
                        BY <6>1, SumFacts
                    <6> QED BY <6>2, <6>3 DEF Doubled
                <5> QED BY <5>2, <5>3
            <4> QED BY <4>1, <4>2
        <3>4. {} \in Doubled(V, a)
            BY <3>1 DEF Doubled, ClosedUnder
        <3>5. ClosedUnder(s, g[s])
            BY <3>1, <3>3, <3>4 DEF ClosedUnder
        <3> QED BY <3>2, <3>5
    <2> HIDE DEF G
    <2>3. S \in G
        BY <2>1, <2>2, SubsetInduction
    <2> QED BY <2>3 DEF G
<1>4. ASSUME NEW V, ClosedUnder(S, V)
      PROVE  g[S] \subseteq V
    <2> DEFINE G == {s \in SUBSET S : g[s] \subseteq V}
    <2>1. {} \in G
        BY <1>2, <1>4 DEF ClosedUnder
    <2>2. ASSUME NEW s \in SUBSET S, s # {}, s \ {SomeOf(s)} \in G
          PROVE  s \in G
        <3>1. /\ SomeOf(s) \in S /\ g[s \ {SomeOf(s)}] \subseteq V
              /\ g[s] = Doubled(g[s \ {SomeOf(s)}], SomeOf(s))
            BY <1>2, <2>2
        <3>2. g[s] \subseteq V
            BY <1>4, <3>1 DEF Doubled, ClosedUnder
        <3> QED BY <3>2
    <2> HIDE DEF G
    <2>3. S \in G
        BY <2>1, <2>2, SubsetInduction
    <2> QED BY <2>3 DEF G
<1> QED
    BY <1>1, <1>3, <1>4

\* One generator more: the span and its coset.
LEMMA SpanMore ==
    ASSUME NEW S \in SUBSET SUBSET Bits, IsFiniteSet(S), NEW x \in SUBSET Bits
    PROVE  Span(S \union {x}) = Doubled(Span(S), x)
<1> DEFINE U == S \union {x}
<1>1. U \in SUBSET SUBSET Bits /\ IsFiniteSet(U)
    BY FS_AddElement
<1>2. /\ Span(S) \subseteq SUBSET Bits /\ ClosedUnder(S, Span(S))
      /\ \A V : ClosedUnder(S, V) => Span(S) \subseteq V
      /\ ClosedUnder(U, Span(U))
      /\ \A V : ClosedUnder(U, V) => Span(U) \subseteq V
    <2> HIDE DEF U
    <2> QED BY <1>1, SpanLeast
<1>3. ClosedUnder(U, Doubled(Span(S), x))
    <2>1. {} \in Doubled(Span(S), x)
        BY <1>2 DEF Doubled, ClosedUnder
    <2>2. ASSUME NEW v \in Doubled(Span(S), x), NEW y \in U
          PROVE  SymmetricDifference(v, y) \in Doubled(Span(S), x)
        <3>1. PICK w \in Span(S) : v = w \/ v = SymmetricDifference(w, x)
            BY DEF Doubled
        <3>2. CASE y = x
            BY <3>1, <3>2, SumFacts DEF Doubled
        <3>3. CASE y \in S
            <4>1. SymmetricDifference(w, y) \in Span(S)
                BY <1>2, <3>3 DEF ClosedUnder
            <4>2. SymmetricDifference(SymmetricDifference(w, x), y)
                    = SymmetricDifference(SymmetricDifference(w, y), x)
                BY SumFacts
            <4> QED BY <3>1, <4>1, <4>2 DEF Doubled
        <3> QED BY <3>2, <3>3
    <2> QED BY <2>1, <2>2 DEF ClosedUnder
<1>4. ClosedUnder(S, Span(U)) /\ x \in U
    BY <1>2 DEF ClosedUnder
<1>5. Doubled(Span(S), x) \subseteq Span(U)
    <2>1. Span(S) \subseteq Span(U)
        BY <1>2, <1>4
    <2>2. \A v \in Span(U) : SymmetricDifference(v, x) \in Span(U)
        BY <1>2, <1>4 DEF ClosedUnder
    <2> HIDE DEF U
    <2> QED BY <2>1, <2>2 DEF Doubled
<1> QED
    BY <1>2, <1>3, <1>5


-----------------------------------------------------------------------------
(* Sums: the fold of reconstruct, in whatever order the elements are taken.  *)

SumStep(f, g, s) == IF s = {} THEN {} ELSE SymmetricDifference(g[s \ {SomeOf(s)}], f[SomeOf(s)])

Sums(g, C, f) == \A s \in SUBSET C : g[s] = SumStep(f, g, s)

SumOf(f, C) == (CHOOSE g : Sums(g, C, f))[C]

\* The sum of f over a finite set exists.
LEMMA SumExists ==
    ASSUME NEW C, IsFiniteSet(C), NEW f
    PROVE  \E g : Sums(g, C, f)
<1> DEFINE pick == [s \in SUBSET C |-> SomeOf(s)]
           V == SUBSET UNION {f[j] : j \in C}
           step == [j \in C |-> [v \in V |-> SymmetricDifference(v, f[j])]]
<1>1. \A s \in SUBSET C : pick[s] = SomeOf(s) /\ (s # {} => pick[s] \in s)
    BY DEF SomeOf
<1>2. \A j \in C, v \in V : step[j][v] = SymmetricDifference(v, f[j]) /\ step[j][v] \in V
    BY DEF SymmetricDifference
<1>3. {} \in V
    OBVIOUS
<1> HIDE DEF pick, step, V
<1>4. PICK g \in [SUBSET C -> V] : Folds(g, C, {}, pick, step)
    <2>1. \A s \in SUBSET C : s # {} => pick[s] \in s
        BY <1>1
    <2>2. \A x \in C, v \in V : step[x][v] \in V
        BY <1>2
    <2> QED BY <1>3, <2>1, <2>2, FoldExists
<1>5. ASSUME NEW s \in SUBSET C
      PROVE  g[s] = SumStep(f, g, s)
    <2>1. CASE s = {}
        BY <1>4, <2>1 DEF SumStep, Folds
    <2>2. CASE s # {}
        <3>1. pick[s] = SomeOf(s) /\ pick[s] \in C /\ s \ {pick[s]} \in SUBSET C
            BY <1>1, <2>2
        <3>2. g[s \ {pick[s]}] \in V
            BY <3>1
        <3>3. step[pick[s]][g[s \ {pick[s]}]] = SymmetricDifference(g[s \ {pick[s]}], f[pick[s]])
            BY <1>2, <3>1, <3>2
        <3> QED BY <1>4, <2>2, <3>1, <3>3 DEF SumStep, Folds
    <2> QED BY <2>1, <2>2
<1>6. Sums(g, C, f)
    BY <1>5 DEF Sums
<1> QED
    BY <1>6

\* Folds of functions that agree, over sets one in the other, agree.
LEMMA SumUnique ==
    ASSUME NEW C, IsFiniteSet(C), NEW D, C \subseteq D, NEW f, NEW e, \A j \in C : f[j] = e[j],
           NEW g, Sums(g, C, f), NEW h, Sums(h, D, e)
    PROVE  g[C] = h[C]
<1> DEFINE G == {s \in SUBSET C : g[s] = h[s]}
<1>1. {} \in G
    BY DEF Sums, SumStep
<1>2. ASSUME NEW s \in SUBSET C, s # {}, s \ {SomeOf(s)} \in G
      PROVE  s \in G
    <2>1. SomeOf(s) \in C
        BY <1>2 DEF SomeOf
    <2>2. /\ g[s] = SymmetricDifference(g[s \ {SomeOf(s)}], f[SomeOf(s)])
          /\ h[s] = SymmetricDifference(h[s \ {SomeOf(s)}], e[SomeOf(s)])
        BY <1>2 DEF Sums, SumStep
    <2> QED BY <1>2, <2>1, <2>2
<1>3. C \in G
    <2> HIDE DEF G
    <2> QED BY <1>1, <1>2, SubsetInduction
<1> QED
    BY <1>3

\* SumOf is a fold of f, and what any fold of f gives.
LEMMA SumIs ==
    ASSUME NEW C, IsFiniteSet(C), NEW f
    PROVE  /\ \E g : SumOf(f, C) = g[C] /\ Sums(g, C, f)
           /\ \A D, e, h : C \subseteq D /\ (\A j \in C : f[j] = e[j]) /\ Sums(h, D, e)
                              => SumOf(f, C) = h[C]
<1>1. \E g : Sums(g, C, f)
    BY SumExists
<1>2. Sums(CHOOSE g : Sums(g, C, f), C, f)
    BY <1>1
<1> QED
    BY <1>2, SumUnique DEF SumOf

\* One fold gives the sums of all the parts of its domain.
LEMMA SumIsPart ==
    ASSUME NEW C, IsFiniteSet(C), NEW D, C \subseteq D, NEW f, NEW h, Sums(h, D, f)
    PROVE  SumOf(f, C) = h[C]
BY SumIs

\* A sum is a matter of the values of f on C.
LEMMA SumAgree ==
    ASSUME NEW C, IsFiniteSet(C), NEW f, NEW e, \A j \in C : f[j] = e[j]
    PROVE  SumOf(f, C) = SumOf(e, C)
BY SumIs

\* The empty sum.
LEMMA SumNothing ==
    ASSUME NEW f
    PROVE  SumOf(f, {}) = {}
<1>1. IsFiniteSet({})
    BY FS_EmptySet
<1>2. PICK g : SumOf(f, {}) = g[{}] /\ Sums(g, {}, f)
    BY <1>1, SumIs
<1> QED
    BY <1>2 DEF Sums, SumStep

\* Whichever element is taken out.
LEMMA SumTake ==
    ASSUME NEW C, IsFiniteSet(C), NEW f, NEW j \in C
    PROVE  SumOf(f, C) = SymmetricDifference(SumOf(f, C \ {j}), f[j])
<1> DEFINE Takes(s) == \A k \in s : SumOf(f, s) = SymmetricDifference(SumOf(f, s \ {k}), f[k])
           G == {s \in SUBSET C : Takes(s)}
<1>0. ASSUME NEW s \in SUBSET C, s # {}
      PROVE  SumOf(f, s) = SymmetricDifference(SumOf(f, s \ {SomeOf(s)}), f[SomeOf(s)])
    <2>1. IsFiniteSet(s) /\ IsFiniteSet(s \ {SomeOf(s)})
        BY FS_Subset
    <2>2. PICK g : SumOf(f, s) = g[s] /\ Sums(g, s, f)
        BY <2>1, SumIs
    <2>3. SumOf(f, s \ {SomeOf(s)}) = g[s \ {SomeOf(s)}]
        <3>1. s \ {SomeOf(s)} \subseteq s
            OBVIOUS
        <3> QED BY <2>1, <2>2, <3>1, SumIsPart
    <2>4. g[s] = SymmetricDifference(g[s \ {SomeOf(s)}], f[SomeOf(s)])
        BY <1>0, <2>2 DEF Sums, SumStep
    <2> QED BY <2>2, <2>3, <2>4
<1>1. ASSUME NEW s \in SUBSET C, \A r \in SUBSET s : r # s => r \in G
      PROVE  s \in G
    <2>1. ASSUME NEW k \in s
          PROVE  SumOf(f, s) = SymmetricDifference(SumOf(f, s \ {k}), f[k])
        <3> DEFINE a == SomeOf(s)
        <3>1. a \in s
            BY DEF SomeOf
        <3>2. SumOf(f, s) = SymmetricDifference(SumOf(f, s \ {a}), f[a])
            BY <1>0
        <3>3. CASE k = a
            BY <3>2, <3>3
        <3>4. CASE k # a
            <4>1. Takes(s \ {a}) /\ Takes(s \ {k})
                BY <1>1, <3>1
            <4>2. SumOf(f, s \ {a}) = SymmetricDifference(SumOf(f, (s \ {a}) \ {k}), f[k])
                BY <3>4, <4>1
            <4>3. SumOf(f, s \ {k}) = SymmetricDifference(SumOf(f, (s \ {k}) \ {a}), f[a])
                BY <3>1, <3>4, <4>1
            <4>4. (s \ {k}) \ {a} = (s \ {a}) \ {k}
                OBVIOUS
            <4> HIDE DEF a
            <4>5. SumOf(f, (s \ {k}) \ {a}) = SumOf(f, (s \ {a}) \ {k})
                BY <4>4
            <4> QED BY <3>2, <4>2, <4>3, <4>5, SumFacts
        <3> QED BY <3>3, <3>4
    <2> QED BY <2>1
<1>2. C \in G
    <2> HIDE DEF G
    <2>1. Hereditary(C, G)
        BY <1>1 DEF Hereditary
    <2> QED BY <2>1, StrongInduction
<1> QED
    BY <1>2

\* Toggling an index adds its value: what reduce does to the coordinates.
LEMMA SumToggle ==
    ASSUME NEW C, IsFiniteSet(C), NEW f, NEW j
    PROVE  SumOf(f, SymmetricDifference(C, {j})) = SymmetricDifference(SumOf(f, C), f[j])
<1>1. CASE j \in C
    <2>1. SymmetricDifference(C, {j}) = C \ {j}
        BY <1>1 DEF SymmetricDifference
    <2>2. SumOf(f, C) = SymmetricDifference(SumOf(f, C \ {j}), f[j])
        BY <1>1, SumTake
    <2>3. SumOf(f, SymmetricDifference(C, {j})) = SumOf(f, C \ {j})
        BY <2>1
    <2>4. SymmetricDifference(SymmetricDifference(SumOf(f, C \ {j}), f[j]), f[j]) = SumOf(f, C \ {j})
        BY SumFacts
    <2> QED BY <2>2, <2>3, <2>4
<1>2. CASE j \notin C
    <2> DEFINE U == C \union {j}
    <2>1. SymmetricDifference(C, {j}) = U /\ U \ {j} = C /\ j \in U
        BY <1>2 DEF SymmetricDifference
    <2>2. IsFiniteSet(U)
        BY FS_AddElement
    <2> HIDE DEF U
    <2>3. SumOf(f, U) = SymmetricDifference(SumOf(f, U \ {j}), f[j])
        BY <2>1, <2>2, SumTake
    <2>4. SumOf(f, U \ {j}) = SumOf(f, C)
        BY <2>1
    <2>5. SumOf(f, SymmetricDifference(C, {j})) = SumOf(f, U)
        BY <2>1
    <2> QED BY <2>3, <2>4, <2>5
<1> QED
    BY <1>1, <1>2

\* The sum is linear in the index set.
LEMMA SumSplit ==
    ASSUME NEW C, IsFiniteSet(C), NEW D, IsFiniteSet(D), NEW f
    PROVE  SumOf(f, SymmetricDifference(C, D)) = SymmetricDifference(SumOf(f, C), SumOf(f, D))
<1> DEFINE G == {s \in SUBSET D : SumOf(f, SymmetricDifference(C, s))
                                    = SymmetricDifference(SumOf(f, C), SumOf(f, s))}
<1>1. {} \in G
    <2>1. SymmetricDifference(C, {}) = C
        BY SumFacts
    <2>2. SumOf(f, SymmetricDifference(C, {})) = SumOf(f, C)
        BY <2>1
    <2> QED BY <2>2, SumNothing, SumFacts
<1>2. ASSUME NEW s \in SUBSET D, s # {}, s \ {SomeOf(s)} \in G
      PROVE  s \in G
    <2> DEFINE a == SomeOf(s)
               r == s \ {a}
    <2>1. a \in s /\ IsFiniteSet(r) /\ IsFiniteSet(s)
        BY <1>2, FS_Subset DEF SomeOf
    <2>2. IsFiniteSet(SymmetricDifference(C, r))
        BY <2>1, FS_Union, FS_Subset DEF SymmetricDifference
    <2>3. SymmetricDifference(SymmetricDifference(C, r), {a}) = SymmetricDifference(C, s)
        BY <2>1 DEF SymmetricDifference
    <2>4. SumOf(f, SymmetricDifference(C, s))
            = SymmetricDifference(SumOf(f, SymmetricDifference(C, r)), f[a])
        <3> HIDE DEF a, r
        <3> QED BY <2>2, <2>3, SumToggle
    <2>5. SumOf(f, s) = SymmetricDifference(SumOf(f, r), f[a])
        BY <2>1, SumTake
    <2>6. SumOf(f, SymmetricDifference(C, r)) = SymmetricDifference(SumOf(f, C), SumOf(f, r))
        BY <1>2
    <2> HIDE DEF a, r
    <2>7. SumOf(f, SymmetricDifference(C, s)) = SymmetricDifference(SumOf(f, C), SumOf(f, s))
        BY <2>4, <2>5, <2>6, SumFacts
    <2> QED BY <2>7
<1>3. D \in G
    <2> HIDE DEF G
    <2> QED BY <1>1, <1>2, SubsetInduction
<1> QED
    BY <1>3


-----------------------------------------------------------------------------
(* Coordinates: reconstruct and reduce are inverse on the span.              *)

Vecs(table) == [j \in DOMAIN table |-> table[j].vec]

ReconstructStep(table, g, s) ==
    IF s = {} THEN {} ELSE SymmetricDifference(g[s \ {SomeOf(s)}], table[SomeOf(s)].vec)

\* The fold that Reconstruct is.
LEMMA ReconstructChosen ==
    ASSUME NEW table, NEW C
    PROVE  Reconstruct(table, C)
             = (CHOOSE g : g = [s \in SUBSET C |-> ReconstructStep(table, g, s)])[C]
BY DEF Reconstruct, FoldSet, MapThenFoldSet, ReconstructStep, SomeOf

\* reconstruct is the sum of the selected rows.
LEMMA ReconstructIsSum ==
    ASSUME NEW table, NEW C \in SUBSET DOMAIN table, IsFiniteSet(C)
    PROVE  Reconstruct(table, C) = SumOf(Vecs(table), C)
<1> DEFINE f == Vecs(table)
<1>1. \A j \in C : f[j] = table[j].vec
    BY DEF Vecs
<1> HIDE DEF f
<1>2. ASSUME NEW g, NEW s \in SUBSET C
      PROVE  ReconstructStep(table, g, s) = SumStep(f, g, s)
    <2>1. CASE s = {}
        BY <2>1 DEF ReconstructStep, SumStep
    <2>2. CASE s # {}
        <3>1. SomeOf(s) \in C
            BY <2>2 DEF SomeOf
        <3> QED BY <1>1, <2>2, <3>1 DEF ReconstructStep, SumStep
    <2> QED BY <2>1, <2>2
<1>3. PICK g : Sums(g, C, f)
    BY SumExists
<1> DEFINE h == [s \in SUBSET C |-> g[s]]
<1>4. h = [s \in SUBSET C |-> ReconstructStep(table, h, s)]
    <2>1. ASSUME NEW s \in SUBSET C
          PROVE  g[s] = ReconstructStep(table, h, s)
        <3>1. g[s] = SumStep(f, g, s)
            BY <1>3 DEF Sums
        <3>2. SumStep(f, g, s) = SumStep(f, h, s)
            BY DEF SumStep
        <3> QED BY <1>2, <3>1, <3>2
    <2> QED BY <2>1
<1> DEFINE r == CHOOSE e : e = [s \in SUBSET C |-> ReconstructStep(table, e, s)]
<1>5. r = [s \in SUBSET C |-> ReconstructStep(table, r, s)]
    <2> HIDE DEF h
    <2> QED BY <1>4
<1>6. Reconstruct(table, C) = r[C]
    BY ReconstructChosen
<1> HIDE DEF r
<1>7. Sums(r, C, f)
    <2>1. ASSUME NEW s \in SUBSET C PROVE r[s] = SumStep(f, r, s)
        <3>1. r[s] = ReconstructStep(table, r, s)
            BY <1>5
        <3> QED BY <1>2, <3>1
    <2> QED BY <2>1 DEF Sums
<1>8. SumOf(f, C) = r[C]
    BY <1>7, SumIsPart
<1> QED
    BY <1>6, <1>8 DEF f

\* The coordinates of x sum up to x less its residual.
LEMMA CoordinatesSum ==
    ASSUME Positions, NEW table, Echelon(table), IsFiniteSet(DOMAIN table), NEW x \in SUBSET Bits
    PROVE  SumOf(Vecs(table), Coordinates(table, x)) = SymmetricDifference(x, Residual(table, x))
<1> DEFINE f == Vecs(table)
           T == {y \in SUBSET Bits :
                   SumOf(f, Coordinates(table, y)) # SymmetricDifference(y, Residual(table, y))}
<1> SUFFICES ASSUME T # {} PROVE FALSE
    OBVIOUS
<1>0. \A j \in DOMAIN table : f[j] = table[j].vec
    BY DEF Vecs
<1> HIDE DEF f
<1>1. ASSUME NEW y \in T PROVE Reducible(table, y)
    <2> SUFFICES ASSUME ~Reducible(table, y) PROVE FALSE
        OBVIOUS
    <2>1. Residual(table, y) = y /\ Coordinates(table, y) = {}
        BY ResidualCases
    <2>2. SumOf(f, Coordinates(table, y)) = {}
        BY <2>1, SumNothing
    <2>3. SymmetricDifference(y, Residual(table, y)) = {}
        BY <2>1, SumFacts
    <2> QED BY <2>2, <2>3
<1>2. T \subseteq SUBSET Bits /\ {} \notin T
    BY <1>1 DEF Reducible
<1>3. PICK y \in T : \A z \in T : ~(LowestBit(y) < LowestBit(z))
    <2> HIDE DEF T
    <2> QED BY <1>2, HighestSet
<1>4. PICK j \in DOMAIN table : table[j].pivot = LowestBit(y)
    BY <1>1 DEF Reducible
<1> DEFINE z == SymmetricDifference(y, table[j].vec)
<1>5. z \in SUBSET Bits /\ \A b \in z : LowestBit(y) < b
    BY <1>1, <1>4, SumRaises DEF Reducible
<1>6. /\ Residual(table, y) = Residual(table, z)
      /\ Coordinates(table, y) = SymmetricDifference(Coordinates(table, z), {j})
    <2>1. y # {}
        BY <1>1 DEF Reducible
    <2> QED BY <1>4, <2>1, ReductionGo
<1>7. z \notin T
    <2>1. CASE z = {}
        BY <1>2, <2>1
    <2>2. CASE z # {}
        BY <1>3, <1>5, <2>2, LowestIsLeast
    <2> QED BY <2>1, <2>2
<1>8. SumOf(f, Coordinates(table, z)) = SymmetricDifference(z, Residual(table, z))
    BY <1>5, <1>7
<1>9. IsFiniteSet(Coordinates(table, z))
    BY <1>5, ResidualCases, FS_Subset
<1>10. SumOf(f, Coordinates(table, y)) = SymmetricDifference(SymmetricDifference(z, Residual(table, z)), f[j])
    BY <1>6, <1>8, <1>9, SumToggle
<1>11. SymmetricDifference(SymmetricDifference(z, Residual(table, z)), f[j])
         = SymmetricDifference(y, Residual(table, z))
    BY <1>0, SumFacts
<1> QED
    BY <1>6, <1>10, <1>11

\* A sum of rows is in the span.
LEMMA SumInSpan ==
    ASSUME Positions, NEW table, Echelon(table), NEW C \in SUBSET DOMAIN table, IsFiniteSet(C)
    PROVE  SumOf(Vecs(table), C) \in Spanned(table)
<1> DEFINE G == {s \in SUBSET C : SumOf(Vecs(table), s) \in Spanned(table)}
<1>1. {} \in G
    BY SumNothing, SpannedClosed
<1>2. ASSUME NEW s \in SUBSET C, s # {}, s \ {SomeOf(s)} \in G
      PROVE  s \in G
    <2> DEFINE a == SomeOf(s)
    <2>1. a \in s /\ a \in DOMAIN table /\ IsFiniteSet(s)
        BY <1>2, FS_Subset DEF SomeOf
    <2>2. SumOf(Vecs(table), s \ {a}) \in Spanned(table)
        BY <1>2
    <2> HIDE DEF a
    <2>3. SumOf(Vecs(table), s) = SymmetricDifference(SumOf(Vecs(table), s \ {a}), table[a].vec)
        <3>1. Vecs(table)[a] = table[a].vec
            BY <2>1 DEF Vecs
        <3>2. SumOf(Vecs(table), s) = SymmetricDifference(SumOf(Vecs(table), s \ {a}), Vecs(table)[a])
            BY <2>1, SumTake
        <3> QED BY <3>1, <3>2
    <2>4. SumOf(Vecs(table), s) \in Spanned(table)
        BY <2>1, <2>2, <2>3, SpannedClosed DEF Closed
    <2> QED BY <2>4
<1>3. C \in G
    <2> HIDE DEF G
    <2> QED BY <1>1, <1>2, SubsetInduction
<1> QED
    BY <1>3

\* The rows of an echelon table are independent: of the rows of a sum only
\* the one with the least pivot has that bit.
LEMMA Independent ==
    ASSUME Positions, NEW table, Echelon(table), NEW C \in SUBSET DOMAIN table, IsFiniteSet(C),
           C # {}
    PROVE  SumOf(Vecs(table), C) # {}
<1> DEFINE f == Vecs(table)
           P == {table[j].pivot : j \in C}
<1>0. \A j \in C : f[j] = table[j].vec
    BY DEF Vecs
<1> HIDE DEF f
<1>1. P \subseteq Nat /\ P # {}
    <2>1. \A j \in C : table[j].pivot \in Nat
        BY RowFacts
    <2> QED BY <2>1
<1>2. PICK p \in P : \A q \in P : p <= q
    <2> HIDE DEF P
    <2> QED BY <1>1, LeastNatural
<1>3. PICK k \in C : table[k].pivot = p
    OBVIOUS
<1>4. ASSUME NEW j \in C \ {k}
      PROVE  p \notin f[j]
    <2>1. table[j].pivot # p
        BY <1>3 DEF Echelon
    <2>2. p <= table[j].pivot /\ table[j].pivot \in Nat /\ p \in Nat
        BY <1>1, <1>2
    <2>3. \A b \in table[j].vec : table[j].pivot <= b
        BY RowFacts
    <2> QED BY <1>0, <2>1, <2>2, <2>3
<1> DEFINE G == {s \in SUBSET (C \ {k}) : p \notin SumOf(f, s)}
<1>5. {} \in G
    BY SumNothing
<1>6. ASSUME NEW s \in SUBSET (C \ {k}), s # {}, s \ {SomeOf(s)} \in G
      PROVE  s \in G
    <2> DEFINE a == SomeOf(s)
    <2>1. a \in s /\ IsFiniteSet(s)
        BY <1>6, FS_Subset DEF SomeOf
    <2>2. p \notin SumOf(f, s \ {a})
        BY <1>6
    <2> HIDE DEF a
    <2>3. SumOf(f, s) = SymmetricDifference(SumOf(f, s \ {a}), f[a])
        BY <2>1, SumTake
    <2>4. p \notin SumOf(f, s)
        BY <1>4, <2>1, <2>2, <2>3 DEF SymmetricDifference
    <2> QED BY <2>4
<1>7. C \ {k} \in G
    <2>1. IsFiniteSet(C \ {k})
        BY FS_Subset
    <2> HIDE DEF G
    <2> QED BY <1>5, <1>6, <2>1, SubsetInduction
<1>8. SumOf(f, C) = SymmetricDifference(SumOf(f, C \ {k}), f[k])
    BY SumTake
<1>9. p \in f[k]
    BY <1>0, <1>3, RowFacts
<1>10. p \in SumOf(f, C)
    BY <1>7, <1>8, <1>9 DEF SymmetricDifference
<1> QED
    BY <1>10 DEF f

\* coordinates and reconstruct are inverse on the span.
LEMMA CoordinatesUnique ==
    ASSUME Positions, NEW table, Echelon(table), IsFiniteSet(DOMAIN table),
           NEW C \in SUBSET DOMAIN table, NEW x \in SUBSET Bits
    PROVE  /\ Reconstruct(table, C) \in Spanned(table)
           /\ InSpan(table, x) => (Reconstruct(table, C) = x <=> C = Coordinates(table, x))
<1> DEFINE f == Vecs(table)
<1>1. IsFiniteSet(C) /\ Reconstruct(table, C) = SumOf(f, C)
    BY FS_Subset, ReconstructIsSum
<1>2. SumOf(f, C) \in Spanned(table)
    BY <1>1, SumInSpan
<1>3. ASSUME InSpan(table, x)
      PROVE  SumOf(f, C) = x <=> C = Coordinates(table, x)
    <2> DEFINE D == Coordinates(table, x)
    <2>1. D \in SUBSET DOMAIN table /\ IsFiniteSet(D)
        BY ResidualCases, FS_Subset
    <2>2. SumOf(f, D) = x
        <3>1. SumOf(f, D) = SymmetricDifference(x, Residual(table, x))
            BY CoordinatesSum
        <3>2. Residual(table, x) = {}
            BY <1>3 DEF InSpan
        <3>3. SymmetricDifference(x, {}) = x
            BY SumFacts
        <3> QED BY <3>1, <3>2, <3>3
    <2> HIDE DEF D
    <2>3. ASSUME SumOf(f, C) = x PROVE C = D
        <3> DEFINE E == SymmetricDifference(C, D)
        <3>1. E \in SUBSET DOMAIN table /\ IsFiniteSet(E)
            BY <1>1, <2>1, FS_Subset DEF SymmetricDifference
        <3>2. SumOf(f, E) = {}
            BY <1>1, <2>1, <2>2, <2>3, SumSplit, SumFacts
        <3> HIDE DEF E
        <3>3. E = {}
            BY <3>1, <3>2, Independent
        <3> QED BY <3>3 DEF E, SymmetricDifference
    <2> QED BY <2>2, <2>3 DEF D
<1> QED
    BY <1>1, <1>2, <1>3


\* InsertSpan as an equation of sets.
LEMMA InsertSpanned ==
    ASSUME Positions, NEW table \in Seq(Row), Echelon(table), NEW x \in SUBSET Bits
    PROVE  Spanned(Insert(table, x)) = Doubled(Spanned(table), x)
<1>1. ASSUME NEW y \in SUBSET Bits
      PROVE  y \in Spanned(Insert(table, x)) <=>
                y \in Spanned(table) \/ SymmetricDifference(y, x) \in Spanned(table)
    <2>1. SymmetricDifference(y, x) \in SUBSET Bits
        BY SumType
    <2> QED BY <2>1, InsertSpan, SpannedIsInSpan
<1>2. ASSUME NEW y \in SUBSET Bits
      PROVE  y \in Doubled(Spanned(table), x) <=>
                y \in Spanned(table) \/ SymmetricDifference(y, x) \in Spanned(table)
    BY SumFacts DEF Doubled
<1>3. Spanned(Insert(table, x)) \subseteq SUBSET Bits
    BY DEF Spanned
<1>4. Doubled(Spanned(table), x) \subseteq SUBSET Bits
    BY SumType DEF Doubled, Spanned
<1> QED
    BY <1>1, <1>2, <1>3, <1>4

\* No rows and no generators span {} only.
LEMMA SpannedNothing == Positions => Spanned(<<>>) = {{}} /\ Span({}) = {{}}
<1> SUFFICES ASSUME Positions PROVE Spanned(<<>>) = {{}} /\ Span({}) = {{}}
    OBVIOUS
<1>1. Echelon(<<>>)
    BY DEF Echelon
<1>2. ASSUME NEW x \in SUBSET Bits PROVE Residual(<<>>, x) = x
    <2>1. ~Reducible(<<>>, x)
        BY DEF Reducible
    <2> QED BY <1>1, <2>1, ResidualCases
<1>3. Spanned(<<>>) = {{}}
    BY <1>2 DEF Spanned, InSpan
<1>4. {} \in SUBSET SUBSET Bits /\ IsFiniteSet({})
    BY FS_EmptySet
<1>5. ClosedUnder({}, {{}})
    BY DEF ClosedUnder
<1>6. Span({}) \subseteq {{}} /\ {} \in Span({})
    BY <1>4, <1>5, SpanLeast DEF ClosedUnder
<1> QED
    BY <1>3, <1>6

\* The bits of the rows are the bits of the span, and so for any generators.
LEMMA CoverSpanned ==
    ASSUME Positions, NEW table, Echelon(table)
    PROVE  Cover(table) = UNION Spanned(table)
<1> DEFINE V == {v \in SUBSET Bits : v \subseteq Cover(table)}
<1>1. ASSUME NEW j \in DOMAIN table
      PROVE  table[j].vec \in Spanned(table)
    <2>1. SymmetricDifference({}, table[j].vec) \in Spanned(table)
        BY SpannedClosed DEF Closed
    <2> QED BY <2>1, SumFacts
<1>2. Closed(table, V)
    <2>1. ASSUME NEW v \in V, NEW j \in DOMAIN table
          PROVE  SymmetricDifference(v, table[j].vec) \in V
        <3>1. table[j].vec \subseteq Cover(table) /\ table[j].vec \in SUBSET Bits
            <4>1. table[j].vec \subseteq Cover(table)
                BY DEF Cover
            <4>2. table[j].vec \in SUBSET Bits
                BY RowFacts
            <4> QED BY <4>1, <4>2
        <3> QED BY <3>1 DEF SymmetricDifference
    <2> QED BY <2>1 DEF Closed
<1>3. ASSUME NEW x \in Spanned(table) PROVE x \subseteq Cover(table)
    <2>1. x \in SUBSET Bits /\ Residual(table, x) = {}
        BY DEF Spanned, InSpan
    <2>2. V \subseteq SUBSET Bits /\ {} \in V
        OBVIOUS
    <2>3. x \in V
        <3> HIDE DEF V
        <3> QED BY <1>2, <2>1, <2>2, ResidualSound
    <2> QED BY <2>3
<1> QED
    BY <1>1, <1>3 DEF Cover

\* The bits of the generators are the bits of their span.
LEMMA SpanUnion ==
    ASSUME NEW S \in SUBSET SUBSET Bits, IsFiniteSet(S)
    PROVE  UNION Span(S) = UNION S
<1>1. /\ ClosedUnder(S, Span(S)) /\ \A V : ClosedUnder(S, V) => Span(S) \subseteq V
    BY SpanLeast
<1>2. ClosedUnder(S, SUBSET UNION S)
    BY DEF ClosedUnder, SymmetricDifference
<1>3. ASSUME NEW x \in S PROVE x \in Span(S)
    BY <1>1, SumFacts DEF ClosedUnder
<1> QED
    BY <1>1, <1>2, <1>3

\* A generator that is in the span already.
LEMMA SpanSame ==
    ASSUME NEW S \in SUBSET SUBSET Bits, IsFiniteSet(S), NEW x \in Span(S)
    PROVE  Span(S \union {x}) = Span(S)
<1>1. ClosedUnder(S, Span(S)) /\ (\A V : ClosedUnder(S, V) => Span(S) \subseteq V)
      /\ x \in SUBSET Bits
    BY SpanLeast
<1>2. Span(S \union {x}) = Doubled(Span(S), x)
    BY <1>1, SpanMore
<1> DEFINE V == {v \in Span(S) : SymmetricDifference(v, x) \in Span(S)}
<1>3. ClosedUnder(S, V)
    <2>1. {} \in V
        BY <1>1, SumFacts DEF ClosedUnder
    <2>2. ASSUME NEW v \in V, NEW y \in S
          PROVE  SymmetricDifference(v, y) \in V
        <3>1. SymmetricDifference(SymmetricDifference(v, x), y) \in Span(S)
            BY <1>1 DEF ClosedUnder
        <3>2. SymmetricDifference(SymmetricDifference(v, x), y) = SymmetricDifference(SymmetricDifference(v, y), x)
            BY SumFacts
        <3>3. SymmetricDifference(v, y) \in Span(S)
            BY <1>1 DEF ClosedUnder
        <3> QED BY <3>1, <3>2, <3>3
    <2> HIDE DEF V
    <2> QED BY <2>1, <2>2 DEF ClosedUnder
<1>4. Span(S) \subseteq V
    <2> HIDE DEF V
    <2> QED BY <1>1, <1>3
<1> QED
    BY <1>2, <1>4 DEF Doubled

-----------------------------------------------------------------------------
(* span_basis: a fold over the indices of a sequence.                        *)

\* Max is the greatest of a non-empty set of indices.
LEMMA HighestOf ==
    ASSUME NEW n \in Nat, NEW s \in SUBSET (1..n), s # {}
    PROVE  Max(s) \in s /\ \A i \in s : i <= Max(s)
<1> DEFINE U == {n - i : i \in s}
<1>1. U \subseteq Nat /\ U # {}
    <2>1. \A i \in s : n - i \in Nat
        OBVIOUS
    <2> QED BY <2>1
<1>2. PICK u \in U : \A v \in U : u <= v
    <2> HIDE DEF U
    <2> QED BY <1>1, LeastNatural
<1>3. PICK i \in s : u = n - i
    OBVIOUS
<1>4. \A j \in s : j <= i
    <2> TAKE j \in s
    <2>1. n - i <= n - j
        BY <1>2, <1>3
    <2>2. i \in Nat /\ j \in Nat
        OBVIOUS
    <2> QED BY <2>1, <2>2
<1>5. \E m \in s : \A j \in s : j <= m
    BY <1>4
<1> QED
    BY <1>5 DEF Max

InsertStep(sets, g, s) == IF s = {} THEN <<>> ELSE Insert(g[s \ {Max(s)}], sets[Max(s)])

\* The fold that SpanBasis is.
LEMMA SpanBasisChosen ==
    ASSUME NEW sets
    PROVE  SpanBasis(sets) =
             (CHOOSE g : g = [s \in SUBSET DOMAIN sets |-> InsertStep(sets, g, s)])[DOMAIN sets]
BY DEF SpanBasis, FoldLeft, MapThenFoldSet, InsertStep

\* span_basis: an echelon table of the span of the sets.
LEMMA SpanBasisSpans ==
    ASSUME Positions, NEW sets \in Seq(SUBSET Bits)
    PROVE  /\ SpanBasis(sets) \in Seq(Row) /\ Echelon(SpanBasis(sets))
           /\ Spanned(SpanBasis(sets)) = Span(Range(sets))
<1> DEFINE C == DOMAIN sets
           V == {t \in Seq(Row) : Echelon(t)}
           pick == [s \in SUBSET C |-> Max(s)]
           step == [i \in C |-> [t \in V |-> Insert(t, sets[i])]]
<1>0. C = 1..Len(sets) /\ Len(sets) \in Nat /\ IsFiniteSet(C) /\ \A i \in C : sets[i] \in SUBSET Bits
    BY FS_Interval
<1> HIDE DEF C
<1>1. \A s \in SUBSET C : pick[s] = Max(s) /\ (s # {} => Max(s) \in s)
    BY <1>0, HighestOf
<1>2. \A i \in C, t \in V : step[i][t] = Insert(t, sets[i]) /\ step[i][t] \in V
    BY <1>0, InsertEchelon
<1>3. <<>> \in V
    BY DEF Echelon
<1> HIDE DEF pick, step, V
<1>4. PICK g \in [SUBSET C -> V] : Folds(g, C, <<>>, pick, step)
    <2>1. \A s \in SUBSET C : s # {} => pick[s] \in s
        BY <1>1
    <2>2. \A x \in C, v \in V : step[x][v] \in V
        BY <1>2
    <2> QED BY <1>0, <1>3, <2>1, <2>2, FoldExists
<1>5. ASSUME NEW s \in SUBSET C
      PROVE  g[s] = InsertStep(sets, g, s)
    <2>1. CASE s = {}
        BY <1>4, <2>1 DEF InsertStep, Folds
    <2>2. CASE s # {}
        <3>1. pick[s] = Max(s) /\ pick[s] \in C /\ s \ {pick[s]} \in SUBSET C
            BY <1>1, <2>2
        <3>2. g[s \ {pick[s]}] \in V
            BY <3>1
        <3>3. step[pick[s]][g[s \ {pick[s]}]] = Insert(g[s \ {pick[s]}], sets[pick[s]])
            BY <1>2, <3>1, <3>2
        <3> QED BY <1>4, <2>2, <3>1, <3>3 DEF InsertStep, Folds
    <2> QED BY <2>1, <2>2
<1>6. g = [s \in SUBSET C |-> InsertStep(sets, g, s)]
    BY <1>5
<1> DEFINE r == CHOOSE e : e = [s \in SUBSET C |-> InsertStep(sets, e, s)]
<1>7. r = [s \in SUBSET C |-> InsertStep(sets, r, s)]
    BY <1>6
<1>8. SpanBasis(sets) = r[C]
    BY SpanBasisChosen DEF C
<1> HIDE DEF r
<1> DEFINE Gens(s) == {sets[i] : i \in s}
           G == {s \in SUBSET C : r[s] \in V /\ Spanned(r[s]) = Span(Gens(s))}
<1>9. ASSUME NEW s \in SUBSET C, \A q \in SUBSET s : q # s => q \in G
      PROVE  s \in G
    <2>1. CASE s = {}
        <3>1. r[s] = <<>> /\ Gens(s) = {}
            BY <1>7, <2>1 DEF InsertStep
        <3> QED BY <1>3, <3>1, SpannedNothing
    <2>2. CASE s # {}
        <3> DEFINE m == Max(s)
                   q == s \ {m}
        <3>1. m \in s /\ m \in C /\ q \in SUBSET C /\ q # s
            BY <1>1, <2>2
        <3>2. r[q] \in V /\ Spanned(r[q]) = Span(Gens(q))
            BY <1>9, <3>1
        <3>3. r[s] = Insert(r[q], sets[m])
            BY <1>7, <2>2 DEF InsertStep
        <3>4. Gens(s) = Gens(q) \union {sets[m]}
            BY <3>1
        <3> HIDE DEF m, q, Gens
        <3>5. r[s] \in V /\ Spanned(r[s]) = Doubled(Spanned(r[q]), sets[m])
            BY <1>0, <3>1, <3>2, <3>3, InsertEchelon, InsertSpanned DEF V
        <3>6. Gens(q) \in SUBSET SUBSET Bits /\ IsFiniteSet(Gens(q))
            <4>1. IsFiniteSet(SUBSET Bits)
                BY FS_SUBSET DEF Positions
            <4>2. Gens(q) \in SUBSET SUBSET Bits
                BY <1>0, <3>1 DEF Gens
            <4> QED BY <4>1, <4>2, FS_Subset
        <3>7. Span(Gens(s)) = Doubled(Span(Gens(q)), sets[m])
            BY <1>0, <3>1, <3>4, <3>6, SpanMore
        <3> QED BY <3>2, <3>5, <3>7
    <2> QED BY <2>1, <2>2
<1>10. C \in G
    <2> HIDE DEF G
    <2>1. Hereditary(C, G)
        BY <1>9 DEF Hereditary
    <2> QED BY <1>0, <2>1, StrongInduction
<1>11. Gens(C) = Range(sets)
    BY DEF C, Range
<1> QED
    BY <1>8, <1>10, <1>11 DEF V

-----------------------------------------------------------------------------
(* change_of_basis: the images of the rows carry every coordinate vector.    *)

\* The sum of the images of the rows in C: coordinates in to.
Carried(to, from, C) ==
    FoldSet(LAMBDA j, acc : SymmetricDifference(acc, UNION ChangeOfBasis(to, from)[j]), {}, C)

Images(to, from) == [j \in DOMAIN from |-> Coordinates(to, from[j].vec)]

CarriedStep(to, from, g, s) ==
    IF s = {} THEN {}
    ELSE SymmetricDifference(g[s \ {SomeOf(s)}], UNION ChangeOfBasis(to, from)[SomeOf(s)])

\* The fold that Carried is.
LEMMA CarriedChosen ==
    ASSUME NEW to, NEW from, NEW C
    PROVE  Carried(to, from, C)
             = (CHOOSE g : g = [s \in SUBSET C |-> CarriedStep(to, from, g, s)])[C]
BY DEF Carried, FoldSet, MapThenFoldSet, CarriedStep, SomeOf

\* It is the sum of the images.
LEMMA CarriedIsSum ==
    ASSUME NEW to, NEW from, NEW C \in SUBSET DOMAIN from, IsFiniteSet(C),
           \A j \in C : InSpan(to, from[j].vec)
    PROVE  Carried(to, from, C) = SumOf(Images(to, from), C)
<1> DEFINE f == Images(to, from)
<1>1. \A j \in C : f[j] = UNION ChangeOfBasis(to, from)[j]
    BY DEF Images, ChangeOfBasis, LinearCover
<1> HIDE DEF f
<1>2. ASSUME NEW g, NEW s \in SUBSET C
      PROVE  CarriedStep(to, from, g, s) = SumStep(f, g, s)
    <2>1. CASE s = {}
        BY <2>1 DEF CarriedStep, SumStep
    <2>2. CASE s # {}
        <3>1. SomeOf(s) \in C
            BY <2>2 DEF SomeOf
        <3> QED BY <1>1, <2>2, <3>1 DEF CarriedStep, SumStep
    <2> QED BY <2>1, <2>2
<1>3. PICK g : Sums(g, C, f)
    BY SumExists
<1> DEFINE h == [s \in SUBSET C |-> g[s]]
<1>4. h = [s \in SUBSET C |-> CarriedStep(to, from, h, s)]
    <2>1. ASSUME NEW s \in SUBSET C
          PROVE  g[s] = CarriedStep(to, from, h, s)
        <3>1. g[s] = SumStep(f, g, s)
            BY <1>3 DEF Sums
        <3>2. SumStep(f, g, s) = SumStep(f, h, s)
            BY DEF SumStep
        <3> QED BY <1>2, <3>1, <3>2
    <2> QED BY <2>1
<1> DEFINE r == CHOOSE e : e = [s \in SUBSET C |-> CarriedStep(to, from, e, s)]
<1>5. r = [s \in SUBSET C |-> CarriedStep(to, from, r, s)]
    <2> HIDE DEF h
    <2> QED BY <1>4
<1>6. Carried(to, from, C) = r[C]
    BY CarriedChosen
<1> HIDE DEF r
<1>7. Sums(r, C, f)
    <2>1. ASSUME NEW s \in SUBSET C PROVE r[s] = SumStep(f, r, s)
        <3>1. r[s] = CarriedStep(to, from, r, s)
            BY <1>5
        <3> QED BY <1>2, <3>1
    <2> QED BY <2>1 DEF Sums
<1>8. SumOf(f, C) = r[C]
    BY <1>7, SumIsPart
<1> QED
    BY <1>6, <1>8 DEF f

\* The carried coordinates sum up to what the old ones did.
LEMMA CarriedSum ==
    ASSUME Positions, NEW to, Echelon(to), IsFiniteSet(DOMAIN to),
           NEW from, Echelon(from), NEW C \in SUBSET DOMAIN from, IsFiniteSet(C),
           \A j \in C : InSpan(to, from[j].vec)
    PROVE  /\ SumOf(Images(to, from), C) \in SUBSET DOMAIN to
           /\ SumOf(Vecs(to), SumOf(Images(to, from), C)) = SumOf(Vecs(from), C)
<1> DEFINE f == Images(to, from)
           G == {s \in SUBSET C : /\ SumOf(f, s) \in SUBSET DOMAIN to
                                 /\ SumOf(Vecs(to), SumOf(f, s)) = SumOf(Vecs(from), s)}
<1>0. ASSUME NEW j \in C
      PROVE  /\ f[j] \in SUBSET DOMAIN to /\ IsFiniteSet(f[j])
             /\ SumOf(Vecs(to), f[j]) = Vecs(from)[j]
    <2>1. from[j].vec \in SUBSET Bits /\ f[j] = Coordinates(to, from[j].vec)
          /\ Vecs(from)[j] = from[j].vec
        BY RowFacts DEF Images, Vecs
    <2>2. f[j] \in SUBSET DOMAIN to /\ IsFiniteSet(f[j])
        BY <2>1, ResidualCases, FS_Subset
    <2>3. Residual(to, from[j].vec) = {}
        BY DEF InSpan
    <2>4. SumOf(Vecs(to), Coordinates(to, from[j].vec)) = SymmetricDifference(from[j].vec, {})
        BY <2>1, <2>3, CoordinatesSum
    <2> HIDE DEF f
    <2> QED BY <2>1, <2>2, <2>4, SumFacts
<1> HIDE DEF f
<1>1. {} \in G
    <2>1. SumOf(f, {}) = {} /\ SumOf(Vecs(to), {}) = {} /\ SumOf(Vecs(from), {}) = {}
        BY SumNothing
    <2>2. SumOf(Vecs(to), SumOf(f, {})) = {}
        BY <2>1
    <2> QED BY <2>1, <2>2
<1>2. ASSUME NEW s \in SUBSET C, s # {}, s \ {SomeOf(s)} \in G
      PROVE  s \in G
    <2> DEFINE a == SomeOf(s)
               q == s \ {a}
    <2>1. a \in s /\ a \in C /\ IsFiniteSet(s)
        BY <1>2, FS_Subset DEF SomeOf
    <2>2. /\ SumOf(f, q) \in SUBSET DOMAIN to
          /\ SumOf(Vecs(to), SumOf(f, q)) = SumOf(Vecs(from), q)
        BY <1>2
    <2>3. SumOf(f, s) = SymmetricDifference(SumOf(f, q), f[a])
          /\ SumOf(Vecs(from), s) = SymmetricDifference(SumOf(Vecs(from), q), Vecs(from)[a])
        BY <2>1, SumTake
    <2> HIDE DEF a, q
    <2>4. IsFiniteSet(SumOf(f, q))
        BY <2>2, FS_Subset
    <2>5. SumOf(f, s) \in SUBSET DOMAIN to
        BY <1>0, <2>1, <2>2, <2>3 DEF SymmetricDifference
    <2>6. SumOf(Vecs(to), SymmetricDifference(SumOf(f, q), f[a]))
            = SymmetricDifference(SumOf(Vecs(to), SumOf(f, q)), SumOf(Vecs(to), f[a]))
        BY <1>0, <2>1, <2>4, SumSplit
    <2>7. SumOf(Vecs(to), SumOf(f, s)) = SumOf(Vecs(to), SymmetricDifference(SumOf(f, q), f[a]))
        BY <2>3
    <2>8. SumOf(Vecs(to), SumOf(f, s)) = SumOf(Vecs(from), s)
        BY <1>0, <2>1, <2>2, <2>3, <2>6, <2>7
    <2> QED BY <2>5, <2>8
<1>3. C \in G
    <2> HIDE DEF G
    <2> QED BY <1>1, <1>2, SubsetInduction
<1> QED
    BY <1>3 DEF f

\* change_of_basis is linear: it carries the coordinates of every sum.
LEMMA ChangeCarries ==
    ASSUME Positions, NEW to, Echelon(to), IsFiniteSet(DOMAIN to),
           NEW from, Echelon(from), IsFiniteSet(DOMAIN from), NEW C \in SUBSET DOMAIN from,
           \A j \in DOMAIN from : InSpan(to, from[j].vec)
    PROVE  LinearCover(to, Reconstruct(from, C)) = {Carried(to, from, C)}
<1> DEFINE D == Carried(to, from, C)
           v == Reconstruct(from, C)
<1>0. IsFiniteSet(C)
    BY FS_Subset
<1>1. D = SumOf(Images(to, from), C) /\ v = SumOf(Vecs(from), C)
    BY <1>0, CarriedIsSum, ReconstructIsSum
<1>2. D \in SUBSET DOMAIN to /\ SumOf(Vecs(to), SumOf(Images(to, from), C)) = v
    BY <1>0, <1>1, CarriedSum
<1>3. SumOf(Vecs(to), D) = v
    <2> HIDE DEF D, v
    <2> QED BY <1>1, <1>2
<1> HIDE DEF D, v
<1>4. Reconstruct(to, D) = v
    BY <1>2, <1>3, ReconstructIsSum, FS_Subset
<1>5. v \in SUBSET Bits /\ InSpan(to, v)
    BY <1>2, <1>4, CoordinatesUnique DEF Spanned
<1>6. D = Coordinates(to, v)
    BY <1>2, <1>4, <1>5, CoordinatesUnique
<1> QED
    BY <1>5, <1>6 DEF LinearCover, D, v

-----------------------------------------------------------------------------
(* rotation_mass: a sum over rows of which some change by the same bits.     *)

\* The bits by which the rows of new differ from those of old.
Mass(old, new) ==
    MapThenSumSet(LAMBDA j : Cardinality(SymmetricDifference(old[j].vec, new[j].vec)), DOMAIN old)

MassOf(old, new, j) == Cardinality(SymmetricDifference(old[j].vec, new[j].vec))

MassStep(old, new, g, s) ==
    IF s = {} THEN 0 ELSE MassOf(old, new, SomeOf(s)) + g[s \ {SomeOf(s)}]

\* The fold that Mass is.
LEMMA MassChosen ==
    ASSUME NEW old, NEW new
    PROVE  Mass(old, new)
             = (CHOOSE g : g = [s \in SUBSET DOMAIN old |-> MassStep(old, new, g, s)])[DOMAIN old]
BY DEF Mass, MapThenSumSet, MapThenFoldSet, MassStep, MassOf, SomeOf

\* Counting the rows of s that changed, one row at a time.
LEMMA MassStepCounts ==
    ASSUME NEW s, IsFiniteSet(s), NEW R, NEW a \in s, NEW c \in Nat
    PROVE  Cardinality(s \cap R) * c
             = (IF a \in R THEN c ELSE 0) + Cardinality((s \ {a}) \cap R) * c
<1> DEFINE S == s \cap R
           T == (s \ {a}) \cap R
<1>1. IsFiniteSet(S) /\ Cardinality(S) \in Nat
    BY FS_Subset, FS_CardinalityType
<1>2. CASE a \in R
    <2>1. a \in S /\ T = S \ {a}
        BY <1>2
    <2> HIDE DEF S, T
    <2>2. Cardinality(T) = Cardinality(S) - 1
        BY <1>1, <2>1, FS_RemoveElement
    <2>3. ASSUME NEW k \in Nat PROVE k * c = c + (k - 1) * c
        OBVIOUS
    <2>4. Cardinality(S) * c = c + Cardinality(T) * c
        BY <1>1, <2>2, <2>3
    <2> QED BY <1>2, <2>4 DEF S, T
<1>3. CASE a \notin R
    <2>1. T = S
        BY <1>3
    <2> HIDE DEF S, T
    <2>2. Cardinality(T) = Cardinality(S)
        BY <2>1
    <2>3. Cardinality(S) * c \in Nat
        BY <1>1
    <2>4. Cardinality(S) * c = 0 + Cardinality(T) * c
        BY <2>2, <2>3
    <2> QED BY <1>3, <2>4 DEF S, T
<1> QED
    BY <1>2, <1>3

\* When the rows of R change by c bits each and the others by none.
LEMMA MassIs ==
    ASSUME NEW old, NEW new, IsFiniteSet(DOMAIN old), NEW R \in SUBSET DOMAIN old, NEW c \in Nat,
           \A j \in DOMAIN old : MassOf(old, new, j) = IF j \in R THEN c ELSE 0
    PROVE  Mass(old, new) = Cardinality(R) * c
<1> DEFINE C == DOMAIN old
           pick == [s \in SUBSET C |-> SomeOf(s)]
           step == [j \in C |-> [v \in Nat |-> MassOf(old, new, j) + v]]
<1>1. \A s \in SUBSET C : pick[s] = SomeOf(s) /\ (s # {} => pick[s] \in s)
    BY DEF SomeOf
<1>2. \A j \in C, v \in Nat : step[j][v] = MassOf(old, new, j) + v /\ step[j][v] \in Nat
    OBVIOUS
<1> HIDE DEF pick, step, C
<1>3. PICK g \in [SUBSET C -> Nat] : Folds(g, C, 0, pick, step)
    <2>1. \A s \in SUBSET C : s # {} => pick[s] \in s
        BY <1>1
    <2>2. \A x \in C, v \in Nat : step[x][v] \in Nat
        BY <1>2
    <2>3. IsFiniteSet(C) /\ 0 \in Nat
        BY DEF C
    <2> QED BY <2>1, <2>2, <2>3, FoldExists
<1>4. ASSUME NEW s \in SUBSET C
      PROVE  g[s] = MassStep(old, new, g, s)
    <2>1. CASE s = {}
        BY <1>3, <2>1 DEF MassStep, Folds
    <2>2. CASE s # {}
        <3>1. pick[s] = SomeOf(s) /\ pick[s] \in C /\ s \ {pick[s]} \in SUBSET C
            BY <1>1, <2>2
        <3>2. g[s \ {pick[s]}] \in Nat
            BY <3>1
        <3>3. step[pick[s]][g[s \ {pick[s]}]] = MassOf(old, new, pick[s]) + g[s \ {pick[s]}]
            BY <1>2, <3>1, <3>2
        <3> QED BY <1>3, <2>2, <3>1, <3>3 DEF MassStep, Folds
    <2> QED BY <2>1, <2>2
<1>5. g = [s \in SUBSET C |-> MassStep(old, new, g, s)]
    BY <1>4
<1> DEFINE r == CHOOSE e : e = [s \in SUBSET C |-> MassStep(old, new, e, s)]
<1>6. r = [s \in SUBSET C |-> MassStep(old, new, r, s)]
    BY <1>5
<1>7. Mass(old, new) = r[C]
    BY MassChosen DEF C
<1> HIDE DEF r
<1> DEFINE G == {s \in SUBSET C : r[s] = Cardinality(s \cap R) * c}
<1>8. {} \in G
    <2>1. r[{}] = 0
        BY <1>6 DEF MassStep
    <2>2. {} \cap R = {}
        OBVIOUS
    <2>3. Cardinality({} \cap R) = 0
        BY <2>2, FS_EmptySet
    <2>4. 0 * c = 0
        OBVIOUS
    <2> QED BY <2>1, <2>3, <2>4
<1>9. ASSUME NEW s \in SUBSET C, s # {}, s \ {SomeOf(s)} \in G
      PROVE  s \in G
    <2> DEFINE a == SomeOf(s)
               q == s \ {a}
    <2>1. a \in s /\ a \in C /\ IsFiniteSet(s)
        BY <1>9, FS_Subset DEF SomeOf, C
    <2>2. r[s] = MassOf(old, new, a) + r[q]
        BY <1>6, <1>9 DEF MassStep
    <2>3. r[q] = Cardinality(q \cap R) * c
        BY <1>9
    <2>4. MassOf(old, new, a) = IF a \in R THEN c ELSE 0
        BY <2>1 DEF C
    <2>5. Cardinality(s \cap R) * c = (IF a \in R THEN c ELSE 0) + Cardinality(q \cap R) * c
        <3> HIDE DEF a
        <3> QED BY <2>1, MassStepCounts
    <2> HIDE DEF a, q
    <2>6. r[s] = Cardinality(s \cap R) * c
        BY <2>2, <2>3, <2>4, <2>5
    <2> QED BY <2>6
<1>10. C \in G
    <2>1. IsFiniteSet(C)
        BY DEF C
    <2> HIDE DEF G
    <2> QED BY <1>8, <1>9, <2>1, SubsetInduction
<1>11. C \cap R = R
    BY DEF C
<1> QED
    BY <1>7, <1>10, <1>11

=============================================================================
