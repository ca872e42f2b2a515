------------------------ MODULE ExtendedCacheProofs ------------------------
(***************************************************************************)
(* Proofs about the extended cache (ExtendedCache.tla): a snapshot answered *)
(* Ok is the sealed one, merged rows stay in the shared tables, and a       *)
(* sealed table is valid until it has grown.                                *)
(*                                                                         *)
(* The last two rest on the canonical order of batches: a batch is          *)
(* determined by the set of its rows.  The place of a row is the number of  *)
(* rows before it, so this is a matter of counting, not of induction.       *)
(***************************************************************************)
EXTENDS ExtendedCache, FiniteSetTheorems, TLAPS

Row == Nat \X Nat

-----------------------------------------------------------------------------
(* Lists of finite sets.                                                   *)

\* As many elements as an injective list of them has places.
LEMMA CountInjective ==
    ASSUME NEW n \in Nat, NEW S, NEW f \in [1..n -> S], IsInjective(f)
    PROVE  IsFiniteSet({f[i] : i \in 1..n}) /\ Cardinality({f[i] : i \in 1..n}) = n
<1> DEFINE T == {f[i] : i \in 1..n}
<1>1. IsFiniteSet(1..n) /\ Cardinality(1..n) = n
    BY FS_Interval
<1>2. f \in Bijection(1..n, T)
    BY DEF Bijection, Injection, Surjection, IsInjective
<1>3. ExistsBijection(1..n, T)
    BY <1>2 DEF ExistsBijection
<1> QED
    BY <1>1, <1>3, FS_Bijection

\* SetToSeq lists a finite set without repetition.
LEMMA Listing ==
    ASSUME NEW S, IsFiniteSet(S)
    PROVE  /\ Cardinality(S) \in Nat
           /\ SetToSeq(S) \in [1..Cardinality(S) -> S]
           /\ IsInjective(SetToSeq(S))
           /\ SetToSeq(S) \in Seq(S)
           /\ Len(SetToSeq(S)) = Cardinality(S)
           /\ {SetToSeq(S)[i] : i \in 1..Cardinality(S)} = S
<1> DEFINE n == Cardinality(S)
           s == SetToSeq(S)
<1>1. n \in Nat /\ ExistsBijection(1..n, S)
    BY FS_CardinalityType
<1>2. \E f \in [1..n -> S] : IsInjective(f)
    BY <1>1 DEF ExistsBijection, Bijection, Injection
<1>3. s \in [1..n -> S] /\ IsInjective(s)
    BY <1>2 DEF SetToSeq
<1>4. s \in Seq(S) /\ Len(s) = n
    BY <1>1, <1>3
<1>5. {s[i] : i \in 1..n} \subseteq S
    BY <1>3
<1>6. {s[i] : i \in 1..n} = S
    <2> HIDE DEF s
    <2>1. Cardinality({s[i] : i \in 1..n}) = n
        BY <1>1, <1>3, CountInjective
    <2> QED BY <2>1, <1>5, FS_Subset
<1> QED
    BY <1>1, <1>3, <1>4, <1>6

\* Listing a finite set lists all of it.
LEMMA ListingRange ==
    ASSUME NEW S, IsFiniteSet(S)
    PROVE  ToSet(SetToSeq(S)) = S /\ Range(SetToSeq(S)) = S
<1>1. DOMAIN SetToSeq(S) = 1..Cardinality(S)
    BY Listing
<1> QED
    BY <1>1, Listing DEF ToSet, Range

\* An injective map of 1..n to itself reaches every place.
LEMMA Permutes ==
    ASSUME NEW n \in Nat, NEW p \in [1..n -> 1..n], IsInjective(p)
    PROVE  \A k \in 1..n : \E i \in 1..n : p[i] = k
<1> DEFINE T == {p[i] : i \in 1..n}
<1>1. Cardinality(T) = n
    BY CountInjective
<1>2. IsFiniteSet(1..n) /\ Cardinality(1..n) = n
    BY FS_Interval
<1>3. T \subseteq 1..n
    OBVIOUS
<1>4. T = 1..n
    <2> HIDE DEF T
    <2> QED BY <1>1, <1>2, <1>3, FS_Subset
<1> QED
    BY <1>4

-----------------------------------------------------------------------------
(* Canonical batches.                                                      *)

\* Rows are strictly and totally ordered.
LEMMA RowOrder ==
    /\ \A r \in Row : ~RowBefore(r, r)
    /\ \A q, r, t \in Row : RowBefore(q, r) /\ RowBefore(r, t) => RowBefore(q, t)
    /\ \A q, r \in Row : q = r \/ RowBefore(q, r) \/ RowBefore(r, q)
<1>1. \A q \in Row : q[1] \in Nat /\ q[2] \in Nat /\ q = <<q[1], q[2]>>
    BY DEF Row
<1>2. \A q, r \in Row : q[1] = r[1] /\ q[2] = r[2] => q = r
    BY <1>1
<1>3. \A r \in Row : ~RowBefore(r, r)
    BY <1>1 DEF RowBefore
<1>4. \A q, r, t \in Row : RowBefore(q, r) /\ RowBefore(r, t) => RowBefore(q, t)
    BY <1>1 DEF RowBefore
<1>5. \A q, r \in Row : q = r \/ RowBefore(q, r) \/ RowBefore(r, q)
    BY <1>1, <1>2 DEF RowBefore
<1> QED
    BY <1>3, <1>4, <1>5

\* Rows in strictly increasing order, as lut_batch leaves them.
Canonical(s) ==
    /\ s \in Seq(Row)
    /\ \A i, j \in 1..Len(s) : i < j => RowBefore(s[i], s[j])

\* The rows of S before r.
Before(S, r) == {q \in S : RowBefore(q, r)}

\* A finite set of rows is ranked by how many are before a row.
LEMMA RankGrows ==
    ASSUME NEW S \in SUBSET Row, IsFiniteSet(S), NEW q \in S, NEW r \in S, RowBefore(q, r)
    PROVE  /\ Cardinality(Before(S, q)) \in Nat
           /\ Cardinality(Before(S, r)) \in Nat
           /\ Cardinality(Before(S, q)) < Cardinality(Before(S, r))
<1>1. Before(S, q) \subseteq Before(S, r)
    BY RowOrder DEF Before
<1>2. q \in Before(S, r) /\ q \notin Before(S, q)
    BY RowOrder DEF Before
<1>3. Before(S, r) \subseteq S
    BY DEF Before
<1>4. IsFiniteSet(Before(S, r)) /\ Cardinality(Before(S, r)) \in Nat
    BY <1>3, FS_Subset, FS_CardinalityType
<1>5. /\ IsFiniteSet(Before(S, q))
      /\ Cardinality(Before(S, q)) <= Cardinality(Before(S, r))
      /\ Cardinality(Before(S, q)) # Cardinality(Before(S, r))
    BY <1>1, <1>2, <1>4, FS_Subset
<1> QED
    BY <1>4, <1>5, FS_CardinalityType

\* In a canonical batch i - 1 rows are before the i-th.
LEMMA CanonicalRank ==
    ASSUME NEW s, Canonical(s), NEW i \in 1..Len(s)
    PROVE  Cardinality(Before(ToSet(s), s[i])) = i - 1
<1> DEFINE f == [j \in 1..(i - 1) |-> s[j]]
           B == Before(ToSet(s), s[i])
<1>1. Len(s) \in Nat /\ DOMAIN s = 1..Len(s) /\ \A j \in 1..Len(s) : s[j] \in Row
    BY DEF Canonical
<1>2. i - 1 \in Nat /\ 1..(i - 1) \subseteq 1..Len(s)
    BY <1>1
<1>3. f \in [1..(i - 1) -> Row]
    BY <1>1, <1>2
<1>4. IsInjective(f)
    <2> SUFFICES ASSUME NEW a \in 1..(i - 1), NEW b \in 1..(i - 1), a < b
                 PROVE  s[a] # s[b]
        BY <1>2 DEF IsInjective
    <2>1. RowBefore(s[a], s[b])
        BY <1>2 DEF Canonical
    <2> QED BY <2>1, <1>1, <1>2, RowOrder
<1>5. {f[j] : j \in 1..(i - 1)} = B
    <2>1. ASSUME NEW j \in 1..(i - 1)
          PROVE  f[j] \in B
        <3>1. j \in 1..Len(s) /\ j < i
            BY <1>1
        <3> QED BY <3>1, <1>1 DEF Canonical, Before, ToSet
    <2>2. ASSUME NEW q \in B
          PROVE  \E j \in 1..(i - 1) : f[j] = q
        <3>1. PICK j \in 1..Len(s) : s[j] = q
            BY <1>1 DEF Before, ToSet
        <3>2. RowBefore(s[j], s[i])
            BY <3>1 DEF Before
        <3>3. ~RowBefore(s[i], s[j]) /\ j # i
            BY <3>2, <1>1, RowOrder
        <3>4. j < i
            BY <3>3, <1>1 DEF Canonical
        <3>5. j \in 1..(i - 1)
            BY <3>4, <1>1
        <3> QED BY <3>1, <3>5
    <2> QED BY <2>1, <2>2
<1>6. Cardinality({f[j] : j \in 1..(i - 1)}) = i - 1
    <2> HIDE DEF f
    <2> QED BY <1>2, <1>3, <1>4, CountInjective
<1> QED
    BY <1>5, <1>6

\* A canonical table has as many rows as its set.
LEMMA CanonicalFinite ==
    ASSUME NEW s, Canonical(s)
    PROVE  /\ ToSet(s) \subseteq Row /\ IsFiniteSet(ToSet(s))
           /\ Cardinality(ToSet(s)) = Len(s)
<1>1. Len(s) \in Nat /\ DOMAIN s = 1..Len(s) /\ \A j \in 1..Len(s) : s[j] \in Row
    BY DEF Canonical
<1>2. s \in [1..Len(s) -> Row]
    BY <1>1 DEF Canonical
<1>3. IsInjective(s)
    <2> SUFFICES ASSUME NEW a \in 1..Len(s), NEW b \in 1..Len(s), a < b
                 PROVE  s[a] # s[b]
        BY <1>1 DEF IsInjective
    <2>1. RowBefore(s[a], s[b])
        BY DEF Canonical
    <2> QED BY <2>1, <1>1, RowOrder
<1>4. ToSet(s) = {s[i] : i \in 1..Len(s)}
    BY <1>1 DEF ToSet
<1> QED
    BY <1>1, <1>2, <1>3, <1>4, CountInjective

\* Equal tables have equal bytes.
LEMMA CanonicalUnique ==
    ASSUME NEW s, NEW t, Canonical(s), Canonical(t), ToSet(s) = ToSet(t)
    PROVE  s = t
<1>1. Len(s) = Len(t)
    BY CanonicalFinite
<1>2. ASSUME NEW i \in 1..Len(s)
      PROVE  s[i] = t[i]
    <2>1. Cardinality(Before(ToSet(s), s[i])) = Cardinality(Before(ToSet(s), t[i]))
        BY <1>1, CanonicalRank
    <2>2. s[i] \in ToSet(s) /\ t[i] \in ToSet(s)
        <3>1. i \in DOMAIN s /\ i \in DOMAIN t
            BY <1>1 DEF Canonical
        <3>2. s[i] \in ToSet(s) /\ t[i] \in ToSet(t)
            BY <3>1 DEF ToSet
        <3> QED BY <3>2
    <2>3. s[i] \in Row /\ t[i] \in Row
        BY <2>2, CanonicalFinite
    <2>4. ToSet(s) \in SUBSET Row /\ IsFiniteSet(ToSet(s))
        BY CanonicalFinite
    <2>5. ~RowBefore(s[i], t[i])
        BY <2>1, <2>2, <2>4, RankGrows
    <2>6. ~RowBefore(t[i], s[i])
        BY <2>1, <2>2, <2>4, RankGrows
    <2> QED BY <2>3, <2>5, <2>6, RowOrder
<1>3. s \in [1..Len(s) -> Row] /\ t \in [1..Len(t) -> Row]
    BY DEF Canonical
<1> QED
    BY <1>1, <1>2, <1>3

\* lut_batch sorts: the same rows, canonical if none comes twice.
Sorts(p, b) ==
    /\ p \in [DOMAIN b -> DOMAIN b]
    /\ IsInjective(p)
    /\ \A i, j \in DOMAIN b : i < j => ~RowBefore(b[p[j]], b[p[i]])

\* A batch without repetition can be sorted.
LEMMA Sortable ==
    ASSUME NEW b \in Seq(Row), IsInjective(b)
    PROVE  \E p : Sorts(p, b)
<1> DEFINE n == Len(b)
           S == ToSet(b)
           Rank(i) == Cardinality(Before(S, b[i])) + 1
           rank == [i \in 1..n |-> Rank(i)]
<1>1. n \in Nat /\ DOMAIN b = 1..n /\ \A i \in 1..n : b[i] \in Row /\ b[i] \in S
    BY DEF ToSet
<1>2. S \in SUBSET Row /\ IsFiniteSet(S) /\ Cardinality(S) = n
    <2>1. S = {b[i] : i \in 1..n} /\ b \in [1..n -> Row]
        BY <1>1 DEF ToSet
    <2>2. S \in SUBSET Row
        BY <2>1, <1>1
    <2> QED BY <2>1, <2>2, <1>1, CountInjective
<1>3. \A i \in 1..n : rank[i] \in 1..n
    <2> SUFFICES ASSUME NEW i \in 1..n
                 PROVE  Rank(i) \in 1..n
        OBVIOUS
    <2> DEFINE B == Before(S, b[i])
    <2>1. B \subseteq S /\ b[i] \notin B /\ b[i] \in S
        BY <1>1, RowOrder DEF Before
    <2>2. Cardinality(B) \in Nat /\ Cardinality(B) <= n /\ Cardinality(B) # n
        BY <2>1, <1>2, FS_Subset, FS_CardinalityType
    <2> QED BY <2>2, <1>1
<1>4. \A i, j \in 1..n : RowBefore(b[i], b[j]) => rank[i] < rank[j]
    <2> SUFFICES ASSUME NEW i \in 1..n, NEW j \in 1..n, RowBefore(b[i], b[j])
                 PROVE  rank[i] < rank[j]
        OBVIOUS
    <2> DEFINE B == Cardinality(Before(S, b[i]))
               C == Cardinality(Before(S, b[j]))
    <2>1. B \in Nat /\ C \in Nat /\ B < C
        BY <1>1, <1>2, RankGrows
    <2>2. rank[i] = B + 1 /\ rank[j] = C + 1
        OBVIOUS
    <2> HIDE DEF B, C, rank
    <2> QED BY <2>1, <2>2
<1> HIDE DEF rank, S
<1>5. IsInjective(rank) /\ rank \in [1..n -> 1..n] /\ DOMAIN rank = 1..n
    <2>1. DOMAIN rank = 1..n /\ rank = [i \in 1..n |-> rank[i]]
        BY DEF rank
    <2>2. ASSUME NEW i \in 1..n, NEW j \in 1..n, rank[i] = rank[j]
          PROVE  i = j
        <3>1. ~RowBefore(b[i], b[j]) /\ ~RowBefore(b[j], b[i])
            BY <2>2, <1>3, <1>4
        <3>2. b[i] = b[j]
            BY <3>1, <1>1, RowOrder
        <3> QED BY <3>2, <1>1 DEF IsInjective
    <2>3. IsInjective(rank)
        BY <2>1, <2>2 DEF IsInjective
    <2>4. rank \in [1..n -> 1..n]
        BY <2>1, <1>3
    <2> QED BY <2>1, <2>3, <2>4
<1>6. \A k \in 1..n : \E i \in 1..n : rank[i] = k
    BY <1>1, <1>5, Permutes
<1> DEFINE p == [k \in 1..n |-> CHOOSE i \in 1..n : rank[i] = k]
<1>7. \A k \in 1..n : p[k] \in 1..n /\ rank[p[k]] = k
    BY <1>6
<1>8. p \in [1..n -> 1..n] /\ DOMAIN p = 1..n
    BY <1>7
<1> HIDE DEF p
<1>9. IsInjective(p)
    BY <1>7, <1>8 DEF IsInjective
<1>10. ASSUME NEW i \in 1..n, NEW j \in 1..n, i < j
       PROVE  ~RowBefore(b[p[j]], b[p[i]])
    <2>1. ASSUME RowBefore(b[p[j]], b[p[i]])
          PROVE  FALSE
        <3>1. rank[p[j]] < rank[p[i]]
            BY <2>1, <1>4, <1>7
        <3>2. j < i
            BY <3>1, <1>7
        <3> QED BY <3>2, <1>10, <1>1
    <2> QED BY <2>1
<1>11. Sorts(p, b)
    BY <1>1, <1>8, <1>9, <1>10 DEF Sorts
<1> QED
    BY <1>11

\* lut_batch sorts it.
LEMMA BatchCanonical ==
    ASSUME NEW b \in Seq(Row), IsInjective(b)
    PROVE  Canonical(lut_batch(b)) /\ ToSet(lut_batch(b)) = ToSet(b)
<1> DEFINE p == CHOOSE q \in [DOMAIN b -> DOMAIN b] :
                    /\ IsInjective(q)
                    /\ \A i, j \in DOMAIN b : i < j => ~RowBefore(b[q[j]], b[q[i]])
           n == Len(b)
           s == lut_batch(b)
<1>1. Sorts(p, b)
    BY Sortable DEF Sorts
<1>2. s = [i \in DOMAIN b |-> b[p[i]]]
    BY DEF lut_batch
<1>3. n \in Nat /\ DOMAIN b = 1..n /\ \A i \in 1..n : b[i] \in Row
    OBVIOUS
<1> HIDE DEF p, s
<1>4. p \in [1..n -> 1..n] /\ IsInjective(p)
    BY <1>1, <1>3 DEF Sorts
<1>5. DOMAIN s = 1..n /\ Len(s) = n /\ s \in Seq(Row)
    <2>1. s \in [1..n -> Row]
        BY <1>2, <1>3, <1>4
    <2> QED BY <2>1, <1>3
<1>6. \A i, j \in 1..n : i < j => RowBefore(s[i], s[j])
    <2> SUFFICES ASSUME NEW i \in 1..n, NEW j \in 1..n, i < j
                 PROVE  RowBefore(b[p[i]], b[p[j]])
        BY <1>2, <1>3
    <2>1. ~RowBefore(b[p[j]], b[p[i]])
        BY <1>1, <1>3 DEF Sorts
    <2>2. p[i] \in 1..n /\ p[j] \in 1..n /\ p[i] # p[j]
        BY <1>4, <1>3 DEF IsInjective
    <2>3. b[p[i]] # b[p[j]]
        BY <2>2, <1>3 DEF IsInjective
    <2> QED BY <2>1, <2>2, <2>3, <1>3, RowOrder
<1>7. ToSet(s) = ToSet(b)
    <2>1. \A k \in 1..n : \E i \in 1..n : p[i] = k
        BY <1>3, <1>4, Permutes
    <2> QED BY <2>1, <1>2, <1>3, <1>4, <1>5 DEF ToSet
<1> QED
    BY <1>5, <1>6, <1>7 DEF Canonical, s

\* The empty table is canonical.
LEMMA EmptyCanonical == Canonical(<<>>) /\ ToSet(<<>>) = {}
<1>1. <<>> \in Seq(Row) /\ Len(<<>>) = 0
    OBVIOUS
<1>2. DOMAIN <<>> = {}
    OBVIOUS
<1> QED
    BY <1>1, <1>2 DEF Canonical, ToSet

\* What merge_lut writes: the rows of the table and of the index, sorted.
LEMMA MergeCanonical ==
    ASSUME NEW s, Canonical(s), NEW L \in SUBSET Row, IsFiniteSet(L)
    PROVE  LET b == lut_batch(s \o SetToSeq(L \ ToSet(s)))
           IN  Canonical(b) /\ ToSet(b) = ToSet(s) \cup L
<1> DEFINE N == L \ ToSet(s)
           t == SetToSeq(N)
           b == s \o t
<1>1. N \in SUBSET Row /\ IsFiniteSet(N)
    BY FS_Subset
<1>2. t \in Seq(N) /\ IsInjective(t) /\ ToSet(t) = N
    BY <1>1, Listing, ListingRange
<1>3. s \in Seq(Row) /\ IsInjective(s)
    <2>1. s \in Seq(Row) /\ DOMAIN s = 1..Len(s) /\ Len(s) \in Nat
        BY DEF Canonical
    <2>2. ASSUME NEW i \in 1..Len(s), NEW j \in 1..Len(s), i < j
          PROVE  s[i] # s[j]
        <3>1. RowBefore(s[i], s[j]) /\ s[i] \in Row
            BY <2>1, <2>2 DEF Canonical
        <3> QED BY <3>1, RowOrder
    <2> QED BY <2>1, <2>2 DEF IsInjective
<1> HIDE DEF t, N
<1>4. t \in Seq(Row) /\ Len(s) \in Nat /\ Len(t) \in Nat /\ DOMAIN s = 1..Len(s) /\ DOMAIN t = 1..Len(t)
    BY <1>1, <1>2, <1>3
<1>5. b \in Seq(Row) /\ DOMAIN b = 1..(Len(s) + Len(t))
    BY <1>3, <1>4
<1>6. /\ \A i \in 1..Len(s) : b[i] = s[i]
      /\ \A i \in 1..Len(t) : b[Len(s) + i] = t[i]
    BY <1>3, <1>4
<1> HIDE DEF b
<1>7. \A i \in DOMAIN b : i \in 1..Len(s) \/ \E j \in 1..Len(t) : i = Len(s) + j
    <2> SUFFICES ASSUME NEW i \in DOMAIN b, i \notin 1..Len(s)
                 PROVE  \E j \in 1..Len(t) : i = Len(s) + j
        OBVIOUS
    <2>1. i - Len(s) \in 1..Len(t) /\ i = Len(s) + (i - Len(s))
        BY <1>4, <1>5
    <2> QED BY <2>1
<1>8. ToSet(b) = ToSet(s) \cup L
    <2>1. ToSet(b) \subseteq ToSet(s) \cup N
        <3>1. \A i \in 1..Len(s) : b[i] \in ToSet(s)
            BY <1>4, <1>6 DEF ToSet
        <3>2. \A i \in 1..Len(t) : b[Len(s) + i] \in ToSet(t)
            BY <1>4, <1>6 DEF ToSet
        <3>3. \A i \in DOMAIN b : b[i] \in ToSet(s) \cup N
            BY <1>2, <1>7, <3>1, <3>2
        <3> QED BY <3>3 DEF ToSet
    <2>2. ToSet(s) \subseteq ToSet(b)
        <3>1. \A i \in 1..Len(s) : i \in DOMAIN b
            BY <1>4, <1>5
        <3> QED BY <3>1, <1>4, <1>6 DEF ToSet
    <2>3. ToSet(t) \subseteq ToSet(b)
        <3>1. \A i \in 1..Len(t) : Len(s) + i \in DOMAIN b
            BY <1>4, <1>5
        <3> QED BY <3>1, <1>4, <1>6 DEF ToSet
    <2> QED BY <2>1, <2>2, <2>3, <1>2 DEF N
<1>9. IsInjective(b)
    <2> SUFFICES ASSUME NEW i \in DOMAIN b, NEW j \in DOMAIN b, b[i] = b[j]
                 PROVE  i = j
        BY DEF IsInjective
    <2>1. CASE i \in 1..Len(s) /\ j \in 1..Len(s)
        BY <2>1, <1>3, <1>4, <1>6 DEF IsInjective
    <2>2. \A k \in 1..Len(s), l \in 1..Len(t) : s[k] # t[l]
        <3>1. \A k \in 1..Len(s) : s[k] \in ToSet(s)
            BY <1>4 DEF ToSet
        <3>2. \A l \in 1..Len(t) : t[l] \notin ToSet(s)
            BY <1>2, <1>4 DEF N
        <3> QED BY <3>1, <3>2
    <2>3. CASE i \in 1..Len(s) /\ j \notin 1..Len(s)
        BY <2>2, <2>3, <1>6, <1>7
    <2>4. CASE i \notin 1..Len(s) /\ j \in 1..Len(s)
        BY <2>2, <2>4, <1>6, <1>7
    <2>5. CASE i \notin 1..Len(s) /\ j \notin 1..Len(s)
        <3>1. PICK k \in 1..Len(t) : i = Len(s) + k
            BY <2>5, <1>7
        <3>2. PICK l \in 1..Len(t) : j = Len(s) + l
            BY <2>5, <1>7
        <3>3. t[k] = t[l]
            BY <3>1, <3>2, <1>6
        <3> QED BY <3>1, <3>2, <3>3, <1>2, <1>4 DEF IsInjective
    <2> QED BY <2>1, <2>3, <2>4, <2>5
<1> QED
    BY <1>5, <1>8, <1>9, BatchCanonical DEF b, t, N

-----------------------------------------------------------------------------
(* Types, as far as the properties need them.                              *)

IsMap(f) == f = [x \in DOMAIN f |-> f[x]] /\ IsFiniteSet(DOMAIN f)

ManifestType(m) ==
    /\ m = [objects |-> m.objects, tables |-> m.tables]
    /\ IsMap(m.objects) /\ IsMap(m.tables)

LutPath(s) == <<"table", lut_name(s)>>

\* A write in progress: of a shared table, the manifest, an object or another table.
WriteType(c, I) ==
    /\ c = [op |-> "write", path |-> c.path, data |-> c.data, cut |-> c.cut,
            entry |-> c.entry, base |-> c.base]
    /\ c.cut \in BOOLEAN
    /\ \/ \E s \in Seeds :
            /\ c.path = LutPath(s) /\ c.entry = c.path
            /\ Canonical(c.data) /\ ToSet(c.data) = c.base \cup I.luts[s]
       \/ c.path = ManifestPath /\ c.entry = c.path /\ ManifestType(from_rows(c.data))
       \/ c.path = <<"object", c.path[2]>> /\ c.entry = <<"object", c.entry[2]>>
       \/ c.path \in {<<"table", Registry>>, <<"table", Slice>>} /\ c.entry = c.path

SnapType(c) ==
    /\ c = [op |-> "snapshot", man |-> c.man, at |-> c.at, pass |-> c.pass,
            got |-> c.got, calm |-> c.calm]
    /\ ManifestType(c.man)
    /\ c.at \in 1..Len(Entries(c.man))
    /\ c.pass \in {"validate", "read"}
    /\ c.calm \in BOOLEAN

CallType(c, I) == c = Idle \/ WriteType(c, I) \/ SnapType(c)

Writing(w) == call[w].op = "write"
Cutting(w) == call[w].op = "write" /\ call[w].cut
Snapping(w) == call[w].op = "snapshot"

WorkerType(w) ==
    /\ \A s \in Seeds : ing[w].luts[s] \in SUBSET Row /\ IsFiniteSet(ing[w].luts[s])
    /\ ManifestType(man[w])
    /\ CallType(call[w], ing[w])
    /\ Cutting(w) => call[w].path \in DOMAIN disk

FileType(p) ==
    /\ disk[p].whole \in BOOLEAN
    /\ disk[p].whole /\ IsLut(p) => Canonical(disk[p].data)
    /\ disk[p].whole /\ p = ManifestPath => ManifestType(from_rows(disk[p].data))

Typed ==
    /\ ing = [w \in Workers |-> ing[w]] /\ man = [w \in Workers |-> man[w]]
    /\ call = [w \in Workers |-> call[w]] /\ answer = [w \in Workers |-> answer[w]]
    /\ \A w \in Workers : WorkerType(w)
    /\ \A p \in DOMAIN disk : FileType(p)
    /\ crashes \in Nat

-----------------------------------------------------------------------------
(* Manifests.                                                              *)

\* The empty map is a map.
LEMMA EmptyMap == IsMap(<<>>)
<1>1. DOMAIN <<>> = {}
    OBVIOUS
<1>2. <<>> = [x \in {} |-> <<>>[x]]
    OBVIOUS
<1> QED BY <1>1, <1>2, FS_EmptySet DEF IsMap

\* What insert does to a map.
LEMMA InsertMap ==
    ASSUME NEW f, NEW k, NEW v
    PROVE  /\ DOMAIN Insert(f, k, v) = DOMAIN f \cup {k}
           /\ Insert(f, k, v)[k] = v
           /\ \A x \in DOMAIN f : x # k => Insert(f, k, v)[x] = f[x]
           /\ IsMap(f) => IsMap(Insert(f, k, v))
<1>1. DOMAIN Insert(f, k, v) = DOMAIN f \cup {k}
    BY DEF Insert
<1>2. IsMap(f) => IsMap(Insert(f, k, v))
    <2>1. IsFiniteSet(DOMAIN f) => IsFiniteSet(DOMAIN f \cup {k})
        BY FS_AddElement
    <2> QED BY <1>1, <2>1 DEF IsMap, Insert
<1> QED
    BY <1>1, <1>2 DEF Insert

\* The empty manifest is one.
LEMMA NoManifestType == ManifestType(NoManifest)
    BY EmptyMap DEF ManifestType, NoManifest

\* from_ipc reads what to_ipc wrote.
LEMMA ManifestRoundTrip ==
    ASSUME NEW m, ManifestType(m)
    PROVE  from_rows(rows(m)) = m
<1> DEFINE R == rows(m)
<1>1. ASSUME NEW n \in DOMAIN m.objects, NEW r \in R, r[1] = "object", r[2] = n
      PROVE  r[3] = m.objects[n]
    BY <1>1 DEF rows
<1>2. ASSUME NEW n \in DOMAIN m.tables, NEW r \in R, r[1] = "table", r[2] = n
      PROVE  r[3] = m.tables[n]
    BY <1>2 DEF rows
<1>3. {r[2] : r \in {q \in R : q[1] = "object"}} = DOMAIN m.objects
    <2>1. \A r \in R : r[1] = "object" => r[2] \in DOMAIN m.objects
        BY DEF rows
    <2>2. \A n \in DOMAIN m.objects : <<"object", n, m.objects[n]>> \in R
        BY DEF rows
    <2> HIDE DEF R
    <2>3. ASSUME NEW n \in DOMAIN m.objects
          PROVE  n \in {r[2] : r \in {q \in R : q[1] = "object"}}
        <3> DEFINE e == <<"object", n, m.objects[n]>>
        <3>1. e \in {q \in R : q[1] = "object"} /\ e[2] = n
            BY <2>2
        <3> QED BY <3>1
    <2> QED BY <2>1, <2>3
<1>4. {r[2] : r \in {q \in R : q[1] = "table"}} = DOMAIN m.tables
    <2>1. \A r \in R : r[1] = "table" => r[2] \in DOMAIN m.tables
        BY DEF rows
    <2>2. \A n \in DOMAIN m.tables : <<"table", n, m.tables[n]>> \in R
        BY DEF rows
    <2> HIDE DEF R
    <2>3. ASSUME NEW n \in DOMAIN m.tables
          PROVE  n \in {r[2] : r \in {q \in R : q[1] = "table"}}
        <3> DEFINE e == <<"table", n, m.tables[n]>>
        <3>1. e \in {q \in R : q[1] = "table"} /\ e[2] = n
            BY <2>2
        <3> QED BY <3>1
    <2> QED BY <2>1, <2>3
<1>5. \A n \in DOMAIN m.objects : \E r \in R : r[1] = "object" /\ r[2] = n
    <2> SUFFICES ASSUME NEW n \in DOMAIN m.objects
                 PROVE  \E r \in R : r[1] = "object" /\ r[2] = n
        OBVIOUS
    <2> DEFINE e == <<"object", n, m.objects[n]>>
    <2>1. e \in R /\ e[1] = "object" /\ e[2] = n
        BY DEF rows
    <2> QED BY <2>1
<1>6. \A n \in DOMAIN m.tables : \E r \in R : r[1] = "table" /\ r[2] = n
    <2> SUFFICES ASSUME NEW n \in DOMAIN m.tables
                 PROVE  \E r \in R : r[1] = "table" /\ r[2] = n
        OBVIOUS
    <2> DEFINE e == <<"table", n, m.tables[n]>>
    <2>1. e \in R /\ e[1] = "table" /\ e[2] = n
        BY DEF rows
    <2> QED BY <2>1
<1> HIDE DEF R
<1>7. Column(R, "object") = m.objects
    <2>1. Column(R, "object") = [n \in DOMAIN m.objects |-> m.objects[n]]
        BY <1>1, <1>3, <1>5 DEF Column
    <2> QED BY <2>1 DEF ManifestType, IsMap
<1>8. Column(R, "table") = m.tables
    <2>1. Column(R, "table") = [n \in DOMAIN m.tables |-> m.tables[n]]
        BY <1>2, <1>4, <1>6 DEF Column
    <2> QED BY <2>1 DEF ManifestType, IsMap
<1> QED
    BY <1>7, <1>8 DEF from_rows, ManifestType, R

\* What the code goes through are the names of both maps.
LEMMA EntriesFacts ==
    ASSUME NEW m, ManifestType(m)
    PROVE  /\ Len(Entries(m)) \in Nat
           /\ DOMAIN Entries(m) = 1..Len(Entries(m))
           /\ Range(Entries(m)) = ({"object"} \X DOMAIN m.objects) \cup ({"table"} \X DOMAIN m.tables)
           /\ m # NoManifest => Len(Entries(m)) > 0
<1> DEFINE O == {<<"object", n>> : n \in DOMAIN m.objects}
           T == {<<"table", n>> : n \in DOMAIN m.tables}
           s == SetToSeq(O)
           t == SetToSeq(T)
<1>1. IsFiniteSet(O) /\ IsFiniteSet(T)
    <2>1. O = {"object"} \X DOMAIN m.objects /\ T = {"table"} \X DOMAIN m.tables
        OBVIOUS
    <2>2. IsFiniteSet({"object"}) /\ IsFiniteSet({"table"})
        BY FS_Singleton
    <2> QED BY <2>1, <2>2, FS_Product DEF ManifestType, IsMap
<1>2. s \in Seq(O) /\ t \in Seq(T) /\ ToSet(s) = O /\ ToSet(t) = T
    BY <1>1, Listing, ListingRange
<1>3. Entries(m) = s \o t
    BY DEF Entries
<1> HIDE DEF s, t
<1>4. /\ Len(s) \in Nat /\ Len(t) \in Nat
      /\ DOMAIN s = 1..Len(s) /\ DOMAIN t = 1..Len(t)
      /\ s \in Seq(O \cup T) /\ t \in Seq(O \cup T)
    BY <1>2
<1>5. /\ Len(s \o t) = Len(s) + Len(t) /\ DOMAIN (s \o t) = 1..(Len(s) + Len(t))
      /\ \A i \in 1..Len(s) : (s \o t)[i] = s[i]
      /\ \A i \in 1..Len(t) : (s \o t)[Len(s) + i] = t[i]
    BY <1>4
<1>6. s \o t \in Seq(O \cup T)
    BY <1>4
<1>7. Range(s \o t) \subseteq O \cup T
    BY <1>6 DEF Range
<1>8. O \subseteq Range(s \o t)
    <2>1. \A i \in 1..Len(s) : i \in DOMAIN (s \o t)
        BY <1>4, <1>5
    <2> QED BY <2>1, <1>2, <1>4, <1>5 DEF Range, ToSet
<1>9. T \subseteq Range(s \o t)
    <2>1. \A i \in 1..Len(t) : Len(s) + i \in DOMAIN (s \o t)
        BY <1>4, <1>5
    <2> QED BY <2>1, <1>2, <1>4, <1>5, ZenonT(60) DEF Range, ToSet
<1>10. Range(s \o t) = ({"object"} \X DOMAIN m.objects) \cup ({"table"} \X DOMAIN m.tables)
    BY <1>7, <1>8, <1>9
<1>11. ASSUME Len(s) + Len(t) = 0
       PROVE  m = NoManifest
    <2>1. DOMAIN s = {} /\ DOMAIN t = {}
        BY <1>11, <1>4
    <2>2. O = {} /\ T = {}
        BY <2>1, <1>2 DEF ToSet
    <2>3. DOMAIN m.objects = {} /\ DOMAIN m.tables = {}
        BY <2>2
    <2>4. \A f : f = [x \in DOMAIN f |-> f[x]] /\ DOMAIN f = {} => f = <<>>
        <3>1. DOMAIN <<>> = {} /\ <<>> = [x \in {} |-> <<>>[x]]
            OBVIOUS
        <3> QED BY <3>1
    <2>5. m.objects = <<>> /\ m.tables = <<>>
        BY <2>3, <2>4 DEF ManifestType, IsMap
    <2> QED BY <2>5 DEF ManifestType, NoManifest
<1> HIDE DEF O, T
<1>12. m # NoManifest => Len(s) + Len(t) > 0
    BY <1>4, <1>11
<1> QED
    BY <1>3, <1>4, <1>5, <1>10, <1>12

-----------------------------------------------------------------------------
(* Every step keeps the types.                                             *)

\* The type invariant at the start.
LEMMA InitTyped == Init => Typed
<1> SUFFICES ASSUME Init
             PROVE  Typed
    OBVIOUS
<1>1. DOMAIN disk = {}
    <2>1. DOMAIN <<>> = {}
        OBVIOUS
    <2> QED BY <2>1 DEF Init
<1>2. ASSUME NEW w \in Workers
      PROVE  WorkerType(w)
    <2>1. ing[w] = NewIngest /\ man[w] = NoManifest /\ call[w] = Idle
        BY DEF Init
    <2>2. \A s \in Seeds : ing[w].luts[s] = {}
        BY <2>1 DEF NewIngest
    <2>3. call[w].op = "idle"
        BY <2>1 DEF Idle
    <2> QED BY <2>1, <2>2, <2>3, NoManifestType, FS_EmptySet DEF WorkerType, CallType, Cutting
<1> QED
    BY <1>1, <1>2 DEF Typed, Init

\* What a worker's own type depends on.
LEMMA WorkerUntouched ==
    ASSUME NEW w \in Workers, WorkerType(w),
           ing'[w] = ing[w], man'[w] = man[w], call'[w] = call[w],
           DOMAIN disk \subseteq DOMAIN disk'
    PROVE  WorkerType(w)'
BY DEF WorkerType, Cutting

\* The kinds of calls tell themselves apart.
LEMMA CallKinds ==
    ASSUME NEW c, NEW I, CallType(c, I)
    PROVE  /\ c.op = "write" <=> WriteType(c, I)
           /\ c.op = "snapshot" <=> SnapType(c)
           /\ c.op = "idle" <=> c = Idle
           /\ c = Idle => c.op # "write" /\ c.op # "snapshot"
<1>1. c = Idle => c.op = "idle"
    BY DEF Idle
<1>2. WriteType(c, I) => c.op = "write"
    BY DEF WriteType
<1>3. SnapType(c) => c.op = "snapshot"
    BY DEF SnapType
<1> QED
    BY <1>1, <1>2, <1>3 DEF CallType

\* Ingesting keeps it.
LEMMA IngestTyped ==
    ASSUME Typed, NEW w \in Workers, NEW t \in Tokens, Ingest(w, t)
    PROVE  Typed'
<1>1. /\ ing' = [ing EXCEPT ![w] = ingest_token(@, t)]
      /\ call[w] = Idle /\ man' = man /\ call' = call /\ answer' = answer
      /\ disk' = disk /\ crashes' = crashes
    BY DEF Ingest, disk_vars
<1>2. \A v \in Workers : v # w => ing'[v] = ing[v]
    BY <1>1 DEF Typed
<1>3. WorkerType(w)'
    <2>1. ing'[w] = ingest_token(ing[w], t)
        BY <1>1 DEF Typed
    <2>2. ASSUME NEW s \in Seeds
          PROVE  ing'[w].luts[s] \in SUBSET Row /\ IsFiniteSet(ing'[w].luts[s])
        <3>1. ing'[w].luts[s] = ing[w].luts[s] \cup {<<Pos(s, t), t>>}
            BY <2>1 DEF ingest_token, insert_token_at
        <3>2. <<Pos(s, t), t>> \in Row
            BY CacheNumbers DEF Row
        <3>3. ing[w].luts[s] \in SUBSET Row /\ IsFiniteSet(ing[w].luts[s])
            BY DEF Typed, WorkerType
        <3>4. IsFiniteSet(ing[w].luts[s] \cup {<<Pos(s, t), t>>})
            BY <3>3, FS_AddElement
        <3> QED BY <3>1, <3>2, <3>3, <3>4
    <2>3. call'[w] = Idle /\ call'[w].op # "write"
        BY <1>1 DEF Idle
    <2> QED BY <2>2, <2>3, <1>1 DEF Typed, WorkerType, CallType, Cutting
<1>4. \A v \in Workers : WorkerType(v)'
    BY <1>1, <1>2, <1>3, WorkerUntouched DEF Typed
<1> QED
    <2>1. ing' = [v \in Workers |-> ing'[v]]
        BY <1>1 DEF Typed
    <2>2. \A p \in DOMAIN disk : FileType(p)'
        BY <1>1 DEF Typed, FileType
    <2> QED BY <1>1, <1>4, <2>1, <2>2 DEF Typed

\* A step of one worker that leaves the files alone.
LEMMA OwnStepTyped ==
    ASSUME Typed, NEW w \in Workers, disk' = disk, ing' = ing, crashes' = crashes,
           NEW c, call' = [call EXCEPT ![w] = c], CallType(c, ing[w]),
           c.op = "write" => ~c.cut,
           NEW m, ManifestType(m), man' = [man EXCEPT ![w] = m],
           answer' = [v \in Workers |-> answer'[v]]
    PROVE  Typed'
<1>1. call'[w] = c /\ man'[w] = m /\ ing'[w] = ing[w]
    BY DEF Typed
<1>2. \A v \in Workers : v # w => call'[v] = call[v] /\ man'[v] = man[v]
    BY DEF Typed
<1>3. WorkerType(w)'
    BY <1>1 DEF Typed, WorkerType, Cutting
<1>4. \A v \in Workers : WorkerType(v)'
    BY <1>2, <1>3, WorkerUntouched DEF Typed
<1>5. call' = [v \in Workers |-> call'[v]] /\ man' = [v \in Workers |-> man'[v]]
    BY DEF Typed
<1>6. \A p \in DOMAIN disk : FileType(p)'
    BY DEF Typed, FileType
<1> QED
    BY <1>4, <1>5, <1>6 DEF Typed

\* A worker that leaves the manifests alone leaves its own.
LEMMA SameManifest ==
    ASSUME Typed, NEW w \in Workers, man' = man
    PROVE  man' = [man EXCEPT ![w] = man[w]] /\ ManifestType(man[w])
BY DEF Typed, WorkerType

\* Beginning a well-typed write keeps it.
LEMMA StartTyped ==
    ASSUME Typed, NEW w \in Workers, NEW path, NEW data, NEW entry, NEW base,
           Writes(w, path, data, entry, base),
           WriteType([op |-> "write", path |-> path, data |-> data, cut |-> FALSE,
                      entry |-> entry, base |-> base], ing[w])
    PROVE  Typed'
<1> DEFINE c == [op |-> "write", path |-> path, data |-> data, cut |-> FALSE,
                 entry |-> entry, base |-> base]
<1>1. /\ call' = [call EXCEPT ![w] = c] /\ disk' = disk /\ ing' = ing /\ man' = man
      /\ answer' = answer /\ crashes' = crashes
    BY DEF Writes, disk_vars
<1>2. CallType(c, ing[w]) /\ ~c.cut
    BY DEF CallType
<1>3. answer' = [v \in Workers |-> answer'[v]]
    BY <1>1 DEF Typed
<1> HIDE DEF c
<1> QED
    BY <1>1, <1>2, <1>3, SameManifest, OwnStepTyped

\* The writes that calls begin.
LEMMA StartsTyped ==
    ASSUME Typed, NEW w \in Workers
    PROVE  /\ \A s \in Seeds : put_hllset(w, s) => Typed'
           /\ put_tfvec(w) => Typed'
           /\ write_table(w) => Typed'
           /\ seal(w) => Typed'
<1>1. ASSUME NEW s \in Seeds, put_hllset(w, s)
      PROVE  Typed'
    <2> DEFINE p == <<"object", <<"hllset", ing[w].hllsets[s]>>>>
               e == <<"object", <<"G", s>>>>
               d == ing[w].hllsets[s]
    <2>1. Writes(w, p, d, e, {})
        BY <1>1 DEF put_hllset
    <2>2. WriteType([op |-> "write", path |-> p, data |-> d, cut |-> FALSE,
                      entry |-> e, base |-> {}], ing[w])
        BY DEF WriteType
    <2> HIDE DEF p, e, d
    <2> QED BY <2>1, <2>2, StartTyped
<1>2. ASSUME put_tfvec(w)
      PROVE  Typed'
    <2> DEFINE p == <<"object", <<"tfvec", ing[w].tf>>>>
               e == <<"object", <<"tf_vec", 0>>>>
               d == ing[w].tf
    <2>1. Writes(w, p, d, e, {})
        BY <1>2 DEF put_tfvec
    <2>2. WriteType([op |-> "write", path |-> p, data |-> d, cut |-> FALSE,
                      entry |-> e, base |-> {}], ing[w])
        BY DEF WriteType
    <2> HIDE DEF p, e, d
    <2> QED BY <2>1, <2>2, StartTyped
<1>3. ASSUME NEW d, NEW p \in {<<"table", Registry>>, <<"table", Slice>>}, Writes(w, p, d, p, {})
      PROVE  Typed'
    <2>1. WriteType([op |-> "write", path |-> p, data |-> d, cut |-> FALSE,
                      entry |-> p, base |-> {}], ing[w])
        BY DEF WriteType
    <2> QED BY <1>3, <2>1, StartTyped
<1>4. write_table(w) => Typed'
    BY <1>3 DEF write_table
<1>5. ASSUME seal(w)
      PROVE  Typed'
    <2> DEFINE d == rows(man[w])
    <2>1. Writes(w, ManifestPath, d, ManifestPath, {})
        BY <1>5 DEF seal
    <2>2. ManifestType(from_rows(d))
        BY ManifestRoundTrip DEF Typed, WorkerType
    <2>3. WriteType([op |-> "write", path |-> ManifestPath, data |-> d, cut |-> FALSE,
                      entry |-> ManifestPath, base |-> {}], ing[w])
        BY <2>2 DEF WriteType
    <2> HIDE DEF d
    <2> QED BY <2>1, <2>3, StartTyped
<1> QED
    BY <1>1, <1>2, <1>4, <1>5

\* What merge_lut is about to write.
LEMMA MergeWrites ==
    ASSUME Typed, NEW w \in Workers, NEW s \in Seeds, merge_lut(w, s)
    PROVE  LET p == LutPath(s)
               b == lut_batch(lut_rows(read_table(p)) \o NewRows(w, s))
               R == ToSet(read_table(p))
           IN  /\ Writes(w, p, b, p, R)
               /\ Exists(p) => Whole(p)
               /\ Canonical(b) /\ ToSet(b) = R \cup ing[w].luts[s]
<1> DEFINE p == LutPath(s)
           t == read_table(p)
<1>1. Exists(p) => Whole(p)
    BY DEF merge_lut, LutPath
<1>2. Canonical(t)
    <2>1. CASE Exists(p)
        <3>1. IsLut(p)
            BY DEF IsLut, LutPath, lut_name
        <3>2. Canonical(disk[p].data)
            BY <1>1, <2>1, <3>1 DEF Whole, Exists, Typed, FileType
        <3> QED BY <2>1, <3>2 DEF read_table
    <2>2. CASE ~Exists(p)
        BY <2>2, EmptyCanonical DEF read_table
    <2> QED BY <2>1, <2>2
<1>3. ing[w].luts[s] \in SUBSET Row /\ IsFiniteSet(ing[w].luts[s])
    BY DEF Typed, WorkerType
<1>4. NewRows(w, s) = SetToSeq(ing[w].luts[s] \ ToSet(t)) /\ lut_rows(t) = t
    BY DEF NewRows, lut_rows, LutPath
<1> HIDE DEF t
<1>5. LET b == lut_batch(t \o NewRows(w, s))
      IN  Canonical(b) /\ ToSet(b) = ToSet(t) \cup ing[w].luts[s]
    BY <1>2, <1>3, <1>4, MergeCanonical
<1> QED
    BY <1>1, <1>4, <1>5 DEF merge_lut, LutPath, t

\* merge_lut keeps it, done or refused.
LEMMA MergeTyped ==
    ASSUME Typed, NEW w \in Workers, NEW s \in Seeds
    PROVE  /\ merge_lut(w, s) => Typed'
           /\ merge_lut_fails(w, s) => Typed'
<1>1. ASSUME merge_lut(w, s)
      PROVE  Typed'
    <2> DEFINE p == LutPath(s)
               b == lut_batch(lut_rows(read_table(p)) \o NewRows(w, s))
               R == ToSet(read_table(p))
    <2>1. Writes(w, p, b, p, R) /\ Canonical(b) /\ ToSet(b) = R \cup ing[w].luts[s]
        BY <1>1, MergeWrites
    <2> HIDE DEF b, R
    <2>2. WriteType([op |-> "write", path |-> p, data |-> b, cut |-> FALSE,
                      entry |-> p, base |-> R], ing[w])
        BY <2>1 DEF WriteType
    <2> HIDE DEF p
    <2> QED BY <2>1, <2>2, StartTyped
<1>2. ASSUME merge_lut_fails(w, s)
      PROVE  Typed'
    <2>1. /\ call' = [call EXCEPT ![w] = Idle] /\ disk' = disk /\ ing' = ing /\ man' = man
          /\ crashes' = crashes /\ answer' = [answer EXCEPT ![w] = [res |-> "arrow"]]
        BY <1>2 DEF merge_lut_fails, Return, disk_vars
    <2>2. CallType(Idle, ing[w]) /\ Idle.op # "write"
        BY DEF CallType, Idle
    <2>3. answer' = [v \in Workers |-> answer'[v]]
        BY <2>1 DEF Typed
    <2> QED BY <2>1, <2>2, <2>3, SameManifest, OwnStepTyped
<1> QED
    BY <1>1, <1>2

\* open_manifest keeps it.
LEMMA OpenTyped ==
    ASSUME Typed, NEW w \in Workers, open_manifest(w)
    PROVE  Typed'
<1>1. /\ call' = [call EXCEPT ![w] = Idle] /\ disk' = disk /\ ing' = ing /\ crashes' = crashes
      /\ Exists(ManifestPath)
      /\ \/ Whole(ManifestPath) /\ man' = [man EXCEPT ![w] = from_rows(disk[ManifestPath].data)]
         \/ man' = man
      /\ \E r : answer' = [answer EXCEPT ![w] = r]
    BY DEF open_manifest, Return, disk_vars
<1>2. CallType(Idle, ing[w]) /\ Idle.op # "write"
    BY DEF CallType, Idle
<1>3. answer' = [v \in Workers |-> answer'[v]]
    BY <1>1 DEF Typed
<1>4. CASE Whole(ManifestPath) /\ man' = [man EXCEPT ![w] = from_rows(disk[ManifestPath].data)]
    <2>1. ManifestType(from_rows(disk[ManifestPath].data))
        BY <1>4 DEF Typed, FileType, Whole, Exists
    <2> QED BY <1>1, <1>2, <1>3, <1>4, <2>1, OwnStepTyped
<1>5. CASE man' = man
    BY <1>1, <1>2, <1>3, <1>5, SameManifest, OwnStepTyped
<1> QED
    BY <1>1, <1>4, <1>5

\* The call of snapshot keeps it.
LEMMA SnapshotTyped ==
    ASSUME Typed, NEW w \in Workers, snapshot(w)
    PROVE  Typed'
<1> DEFINE c == [op |-> "snapshot", man |-> man[w], at |-> 1, pass |-> "validate",
                 got |-> <<>>, calm |-> ~Busy(man[w])]
<1>1. /\ call' = [call EXCEPT ![w] = c] /\ disk' = disk /\ ing' = ing /\ man' = man
      /\ answer' = answer /\ crashes' = crashes /\ man[w] # NoManifest
    BY DEF snapshot, disk_vars
<1>2. ManifestType(man[w])
    BY DEF Typed, WorkerType
<1>3. Len(Entries(man[w])) \in Nat /\ Len(Entries(man[w])) > 0
    BY <1>1, <1>2, EntriesFacts
<1>4. 1 \in 1..Len(Entries(man[w]))
    BY <1>3
<1>5. SnapType(c)
    BY <1>2, <1>4 DEF SnapType
<1>6. CallType(c, ing[w]) /\ c.op # "write"
    BY <1>5 DEF CallType
<1>7. answer' = [v \in Workers |-> answer'[v]]
    BY <1>1 DEF Typed
<1> HIDE DEF c
<1> QED
    BY <1>1, <1>6, <1>7, SameManifest, OwnStepTyped

\* The call of a worker that reads a snapshot.
LEMMA SnapCall ==
    ASSUME Typed, NEW w \in Workers, call[w].op = "snapshot"
    PROVE  SnapType(call[w]) /\ ManifestType(call[w].man)
<1>1. SnapType(call[w])
    BY CallKinds DEF Typed, WorkerType
<1> QED
    BY <1>1 DEF SnapType

\* A worker that writes does a typed write.
LEMMA WriteCall ==
    ASSUME Typed, NEW w \in Workers, call[w].op = "write"
    PROVE  WriteType(call[w], ing[w])
BY CallKinds DEF Typed, WorkerType

\* One step of a snapshot: the call moves on, or ends with an answer.
Advanced(c, at, pass, got) ==
    [op |-> "snapshot", man |-> c.man, at |-> at, pass |-> pass, got |-> got, calm |-> c.calm]

\* A reader that advances is a reader.
LEMMA AdvancedType ==
    ASSUME NEW c, SnapType(c), NEW at \in 1..Len(Entries(c.man)),
           NEW pass \in {"validate", "read"}, NEW got
    PROVE  SnapType(Advanced(c, at, pass, got))
BY DEF SnapType, Advanced

\* Assignments to the fields of a call.
LEMMA AdvancePass ==
    ASSUME NEW c, SnapType(c), NEW a, NEW b
    PROVE  [[c EXCEPT !.at = a] EXCEPT !.pass = b] = Advanced(c, a, b, c.got)
<1>1. ASSUME NEW m, NEW x, NEW y, NEW z, NEW k,
             c = [op |-> "snapshot", man |-> m, at |-> x, pass |-> y, got |-> z, calm |-> k]
      PROVE  [[c EXCEPT !.at = a] EXCEPT !.pass = b]
                  = [op |-> "snapshot", man |-> m, at |-> a, pass |-> b, got |-> z, calm |-> k]
    <2> DEFINE d == [c EXCEPT !.at = a]
    <2>1. d = [op |-> "snapshot", man |-> m, at |-> a, pass |-> y, got |-> z, calm |-> k]
        BY <1>1
    <2> HIDE DEF d
    <2>2. [d EXCEPT !.pass = b] = [op |-> "snapshot", man |-> m, at |-> a, pass |-> b, got |-> z, calm |-> k]
        BY <2>1
    <2> QED BY <2>2 DEF d
<1>2. \E m, x, y, z, k : c = [op |-> "snapshot", man |-> m, at |-> x, pass |-> y, got |-> z, calm |-> k]
    BY DEF SnapType
<1> QED
    BY <1>1, <1>2 DEF Advanced

\* The two updates of a reading are one.
LEMMA AdvanceGot ==
    ASSUME NEW c, SnapType(c), NEW a, NEW b
    PROVE  [[c EXCEPT !.at = a] EXCEPT !.got = b] = Advanced(c, a, c.pass, b)
<1>1. ASSUME NEW m, NEW x, NEW y, NEW z, NEW k,
             c = [op |-> "snapshot", man |-> m, at |-> x, pass |-> y, got |-> z, calm |-> k]
      PROVE  [[c EXCEPT !.at = a] EXCEPT !.got = b]
                  = [op |-> "snapshot", man |-> m, at |-> a, pass |-> y, got |-> b, calm |-> k]
    <2> DEFINE d == [c EXCEPT !.at = a]
    <2>1. d = [op |-> "snapshot", man |-> m, at |-> a, pass |-> y, got |-> z, calm |-> k]
        BY <1>1
    <2> HIDE DEF d
    <2>2. [d EXCEPT !.got = b] = [op |-> "snapshot", man |-> m, at |-> a, pass |-> y, got |-> b, calm |-> k]
        BY <2>1
    <2> QED BY <2>2 DEF d
<1>2. \E m, x, y, z, k : c = [op |-> "snapshot", man |-> m, at |-> x, pass |-> y, got |-> z, calm |-> k]
    BY DEF SnapType
<1> QED
    BY <1>1, <1>2 DEF Advanced

\* ValidateOne in one place: the entry is valid and the call moves on, or it is over.
LEMMA ValidateFacts ==
    ASSUME Typed, NEW w \in Workers, ValidateOne(w)
    PROVE  LET c == call[w]
               n == Len(Entries(c.man))
               e == Entries(c.man)[c.at]
           IN  /\ SnapType(c) /\ c.pass = "validate"
               /\ UNCHANGED <<disk, merged, raced, crashes, ing, reg, man, calls>>
               /\ \/ /\ Validated(c.man, e) /\ answer' = answer
                     /\ \/ /\ c.at < n
                           /\ call' = [call EXCEPT ![w] = Advanced(c, c.at + 1, "validate", c.got)]
                        \/ /\ c.at = n
                           /\ call' = [call EXCEPT ![w] = Advanced(c, 1, "read", c.got)]
                  \/ /\ ~Validated(c.man, e)
                     /\ call' = [call EXCEPT ![w] = Idle]
                     /\ answer' = [answer EXCEPT ![w] =
                           [res |-> "invalid", path |-> PathOf(c.man, e), expected |-> Expected(c.man, e), calm |-> c.calm]]
<1> DEFINE c == call[w]
           n == Len(Entries(c.man))
           e == Entries(c.man)[c.at]
<1>1. c.op = "snapshot" /\ c.pass = "validate"
    BY DEF ValidateOne
<1>2. SnapType(c) /\ ManifestType(c.man)
    BY <1>1, SnapCall
<1>3. c.at \in 1..n /\ n \in Nat
    BY <1>2, EntriesFacts DEF SnapType
<1>4. UNCHANGED <<disk, merged, raced, crashes, ing, reg, man, calls>>
    BY DEF ValidateOne, disk_vars
<1>5. CASE Validated(c.man, e)
    <2>1. /\ call' = [call EXCEPT ![w].at = IF c.at = n THEN 1 ELSE c.at + 1,
                                  ![w].pass = IF c.at = n THEN "read" ELSE "validate"]
          /\ answer' = answer
        BY <1>5 DEF ValidateOne
    <2>2. call = [v \in Workers |-> call[v]]
        BY DEF Typed
    <2>3. \A a, p : [[c EXCEPT !.at = a] EXCEPT !.pass = p] = Advanced(c, a, p, c.got)
        <3> SUFFICES ASSUME NEW a, NEW p
                     PROVE  [[c EXCEPT !.at = a] EXCEPT !.pass = p] = Advanced(c, a, p, c.got)
            OBVIOUS
        <3> HIDE DEF c
        <3> QED BY <1>2, AdvancePass
    <2>4. \A a, p : [call EXCEPT ![w].at = a, ![w].pass = p] = [call EXCEPT ![w] = Advanced(c, a, p, c.got)]
        BY <2>2, <2>3
    <2>5. CASE c.at = n
        BY <1>1, <1>2, <1>4, <1>5, <2>1, <2>4, <2>5
    <2>6. CASE c.at # n
        <3>1. c.at < n
            BY <2>6, <1>3
        <3> QED BY <1>1, <1>2, <1>4, <1>5, <2>1, <2>4, <2>6, <3>1
    <2> QED BY <2>5, <2>6
<1>6. CASE ~Validated(c.man, e)
    BY <1>1, <1>2, <1>4, <1>6 DEF ValidateOne
<1> QED
    BY <1>5, <1>6

\* ReadOne in one place.
LEMMA ReadFacts ==
    ASSUME Typed, NEW w \in Workers, ReadOne(w)
    PROVE  LET c == call[w]
               n == Len(Entries(c.man))
               e == Entries(c.man)[c.at]
               p == PathOf(c.man, e)
               got == Insert(c.got, e, IF Exists(p) THEN disk[p] ELSE <<>>)
           IN  /\ SnapType(c) /\ c.pass = "read"
               /\ UNCHANGED <<disk, merged, raced, crashes, ing, reg, man, calls>>
               /\ \/ /\ call' = [call EXCEPT ![w] = Idle]
                     /\ answer' = [answer EXCEPT ![w] = [res |-> "missing"]]
                  \/ /\ c.at < n /\ answer' = answer
                     /\ call' = [call EXCEPT ![w] = Advanced(c, c.at + 1, "read", got)]
                  \/ /\ c.at = n
                     /\ call' = [call EXCEPT ![w] = Idle]
                     /\ answer' = [answer EXCEPT ![w] = [res |-> "snapshot", man |-> c.man, got |-> got, calm |-> c.calm]]
<1> DEFINE c == call[w]
           n == Len(Entries(c.man))
           e == Entries(c.man)[c.at]
           p == PathOf(c.man, e)
           got == Insert(c.got, e, IF Exists(p) THEN disk[p] ELSE <<>>)
<1>1. c.op = "snapshot" /\ c.pass = "read"
    BY DEF ReadOne
<1>2. SnapType(c) /\ ManifestType(c.man)
    BY <1>1, SnapCall
<1>3. c.at \in 1..n /\ n \in Nat
    BY <1>2, EntriesFacts DEF SnapType
<1>4. UNCHANGED <<disk, merged, raced, crashes, ing, reg, man, calls>>
    BY DEF ReadOne, disk_vars
<1>5. CASE ~Parses(p)
    BY <1>1, <1>2, <1>4, <1>5 DEF ReadOne, Return
<1>6. CASE Parses(p) /\ c.at < n
    <2>1. call' = [call EXCEPT ![w].at = @ + 1, ![w].got = got] /\ answer' = answer
        BY <1>6 DEF ReadOne
    <2>2. call = [v \in Workers |-> call[v]]
        BY DEF Typed
    <2> HIDE DEF got
    <2>3. \A a, g : [[c EXCEPT !.at = a] EXCEPT !.got = g] = Advanced(c, a, "read", g)
        <3> SUFFICES ASSUME NEW a, NEW g
                     PROVE  [[c EXCEPT !.at = a] EXCEPT !.got = g] = Advanced(c, a, "read", g)
            OBVIOUS
        <3>1. SnapType(c) /\ c.pass = "read"
            BY <1>1, <1>2
        <3> HIDE DEF c
        <3>2. [[c EXCEPT !.at = a] EXCEPT !.got = g] = Advanced(c, a, c.pass, g)
            BY <3>1, AdvanceGot
        <3> QED BY <3>1, <3>2
    <2>4. \A a, g : [call EXCEPT ![w].at = a, ![w].got = g] = [call EXCEPT ![w] = Advanced(c, a, "read", g)]
        BY <2>2, <2>3
    <2>5. call' = [call EXCEPT ![w] = Advanced(c, c.at + 1, "read", got)]
        BY <2>1, <2>4
    <2> QED BY <1>1, <1>2, <1>4, <1>6, <2>1, <2>5 DEF got
<1>7. CASE Parses(p) /\ ~(c.at < n)
    <2>1. c.at = n
        BY <1>3, <1>7
    <2> QED BY <1>1, <1>2, <1>4, <1>7, <2>1 DEF ReadOne
<1> QED
    BY <1>5, <1>6, <1>7

\* Validating and reading keep the type invariant.
LEMMA ReadersTyped ==
    ASSUME Typed, NEW w \in Workers
    PROVE  /\ ValidateOne(w) => Typed'
           /\ ReadOne(w) => Typed'
<1> DEFINE c == call[w]
           n == Len(Entries(c.man))
<1>1. CallType(Idle, ing[w]) /\ Idle.op # "write"
    BY DEF CallType, Idle
<1>2. ASSUME ValidateOne(w) \/ ReadOne(w)
      PROVE  /\ SnapType(c) /\ disk' = disk /\ ing' = ing /\ man' = man /\ crashes' = crashes
             /\ answer' = [v \in Workers |-> answer'[v]]
             /\ \/ call' = [call EXCEPT ![w] = Idle]
                \/ \E at \in 1..n, pass \in {"validate", "read"} : \E got :
                        call' = [call EXCEPT ![w] = Advanced(c, at, pass, got)]
    <2>1. ManifestType(c.man) /\ c.at \in 1..n /\ n \in Nat
        <3>1. c.op = "snapshot"
            BY <1>2 DEF ValidateOne, ReadOne
        <3> QED BY <3>1, SnapCall, EntriesFacts DEF SnapType
    <2>2. 1 \in 1..n /\ (c.at < n => c.at + 1 \in 1..n)
        BY <2>1
    <2>3. CASE ValidateOne(w)
        BY <2>2, <2>3, ValidateFacts DEF Typed
    <2>4. CASE ReadOne(w)
        BY <2>2, <2>4, ReadFacts DEF Typed
    <2> QED BY <1>2, <2>3, <2>4
<1>3. ASSUME ValidateOne(w) \/ ReadOne(w)
      PROVE  Typed'
    <2>1. CASE call' = [call EXCEPT ![w] = Idle]
        BY <1>1, <1>2, <1>3, <2>1, SameManifest, OwnStepTyped
    <2>2. ASSUME NEW at \in 1..n, NEW pass \in {"validate", "read"}, NEW got,
                 call' = [call EXCEPT ![w] = Advanced(c, at, pass, got)]
          PROVE  Typed'
        <3>1. CallType(Advanced(c, at, pass, got), ing[w])
            BY <1>2, <1>3, AdvancedType DEF CallType
        <3>2. Advanced(c, at, pass, got).op # "write"
            BY DEF Advanced
        <3> QED BY <1>2, <1>3, <2>2, <3>1, <3>2, SameManifest, OwnStepTyped
    <2> QED BY <1>2, <1>3, <2>1, <2>2
<1> QED
    BY <1>3

\* A crash keeps it.
LEMMA CrashTyped ==
    ASSUME Typed, NEW w \in Workers, Crash(w)
    PROVE  Typed'
<1>1. /\ ing' = [ing EXCEPT ![w] = NewIngest] /\ man' = [man EXCEPT ![w] = NoManifest]
      /\ call' = [call EXCEPT ![w] = Idle] /\ disk' = disk /\ crashes' = crashes + 1
      /\ answer' = [answer EXCEPT ![w] = [res |-> "none"]]
    BY DEF Crash, Return
<1>2. \A v \in Workers : v # w => call'[v] = call[v] /\ man'[v] = man[v] /\ ing'[v] = ing[v]
    BY <1>1 DEF Typed
<1>3. WorkerType(w)'
    <2>1. ing'[w] = NewIngest /\ man'[w] = NoManifest /\ call'[w] = Idle /\ call'[w].op # "write"
        BY <1>1 DEF Typed, Idle
    <2>2. \A s \in Seeds : ing'[w].luts[s] = {}
        BY <2>1 DEF NewIngest
    <2> QED BY <2>1, <2>2, NoManifestType, FS_EmptySet DEF WorkerType, CallType, Cutting
<1>4. \A v \in Workers : WorkerType(v)'
    BY <1>1, <1>2, <1>3, WorkerUntouched DEF Typed
<1>5. /\ ing' = [v \in Workers |-> ing'[v]] /\ man' = [v \in Workers |-> man'[v]]
      /\ call' = [v \in Workers |-> call'[v]] /\ answer' = [v \in Workers |-> answer'[v]]
    BY <1>1 DEF Typed
<1>6. \A p \in DOMAIN disk : FileType(p)'
    BY <1>1 DEF Typed, FileType
<1>7. crashes' \in Nat
    BY <1>1 DEF Typed
<1> QED
    BY <1>1, <1>4, <1>5, <1>6, <1>7 DEF Typed

\* A snapshot during which one of its files has changed.
Uncalm(c) ==
    [op |-> "snapshot", man |-> c.man, at |-> c.at, pass |-> c.pass, got |-> c.got, calm |-> FALSE]

\* A reader disturbed by a writer is a reader.
LEMMA UncalmType ==
    ASSUME NEW c, SnapType(c)
    PROVE  [c EXCEPT !.calm = FALSE] = Uncalm(c) /\ SnapType(Uncalm(c))
<1> DEFINE b == FALSE
<1> HIDE DEF b
<1>1. c = [op |-> "snapshot", man |-> c.man, at |-> c.at, pass |-> c.pass, got |-> c.got, calm |-> c.calm]
    BY DEF SnapType
<1>2. [c EXCEPT !.calm = FALSE] = Uncalm(c)
    <2>1. [c EXCEPT !.calm = b]
              = [op |-> "snapshot", man |-> c.man, at |-> c.at, pass |-> c.pass, got |-> c.got, calm |-> b]
        BY <1>1
    <2> QED BY <2>1 DEF Uncalm, b
<1>3. SnapType(Uncalm(c))
    BY DEF SnapType, Uncalm
<1> QED
    BY <1>2, <1>3

\* How a write leaves the calls of the others.
LEMMA DisturbedFacts ==
    ASSUME Typed, NEW w \in Workers, NEW p, NEW v \in Workers
    PROVE  Disturbed(w, p)[v] =
               IF v # w /\ call[v].op = "snapshot" /\ p \in Paths(call[v].man)
               THEN Uncalm(call[v]) ELSE call[v]
<1>1. CASE v # w /\ call[v].op = "snapshot" /\ p \in Paths(call[v].man)
    BY <1>1, SnapCall, UncalmType DEF Disturbed
<1>2. CASE ~(v # w /\ call[v].op = "snapshot" /\ p \in Paths(call[v].man))
    BY <1>2 DEF Disturbed
<1> QED
    BY <1>1, <1>2

\* A call that has cut its file.
Cut(c) ==
    [op |-> "write", path |-> c.path, data |-> c.data, cut |-> TRUE, entry |-> c.entry, base |-> c.base]

\* Truncate in one place.
LEMMA TruncateFacts ==
    ASSUME Typed, NEW w \in Workers, Truncate(w)
    PROVE  LET c == call[w]
           IN  /\ WriteType(c, ing[w]) /\ ~c.cut
               /\ disk' = Insert(disk, c.path, [whole |-> FALSE, data |-> <<>>])
               /\ raced' = (raced \/ Overlaps(w) \/ Unread(c))
               /\ call' = [v \in Workers |-> call'[v]]
               /\ call'[w] = Cut(c)
               /\ \A v \in Workers : v # w =>
                     call'[v] = IF call[v].op = "snapshot" /\ c.path \in Paths(call[v].man)
                                THEN Uncalm(call[v]) ELSE call[v]
               /\ UNCHANGED <<ing, reg, man, answer, merged, calls, crashes>>
<1> DEFINE c == call[w]
           D == Disturbed(w, c.path)
<1>1. c.op = "write" /\ ~c.cut
    BY DEF Truncate
<1>2. WriteType(c, ing[w])
    BY <1>1, WriteCall
<1>3. call' = [D EXCEPT ![w].cut = TRUE]
    BY DEF Truncate
<1>4. D[w] = c
    BY DisturbedFacts
<1>5. D = [v \in Workers |-> D[v]] /\ DOMAIN D = Workers
    BY DEF Disturbed
<1>6. [c EXCEPT !.cut = TRUE] = Cut(c)
    <2> DEFINE b == TRUE
    <2>1. c = [op |-> "write", path |-> c.path, data |-> c.data, cut |-> c.cut,
               entry |-> c.entry, base |-> c.base]
        BY <1>2 DEF WriteType
    <2> HIDE DEF b, c
    <2>2. [c EXCEPT !.cut = b] = [op |-> "write", path |-> c.path, data |-> c.data, cut |-> b,
                                  entry |-> c.entry, base |-> c.base]
        BY <2>1
    <2> QED BY <2>2 DEF Cut, b
<1>7. \A v \in Workers : v # w =>
          D[v] = IF call[v].op = "snapshot" /\ c.path \in Paths(call[v].man)
                 THEN Uncalm(call[v]) ELSE call[v]
    BY DisturbedFacts
<1> HIDE DEF D
<1>8. /\ call' = [v \in Workers |-> call'[v]] /\ call'[w] = Cut(c)
      /\ \A v \in Workers : v # w => call'[v] = D[v]
    BY <1>3, <1>4, <1>5, <1>6
<1>9. /\ disk' = Insert(disk, c.path, [whole |-> FALSE, data |-> <<>>])
      /\ raced' = (raced \/ Overlaps(w) \/ Unread(c))
      /\ UNCHANGED <<ing, reg, man, answer, merged, calls, crashes>>
    BY DEF Truncate
<1> QED
    BY <1>1, <1>2, <1>7, <1>8, <1>9

\* Fill in one place.
LEMMA FillFacts ==
    ASSUME Typed, NEW w \in Workers, Fill(w)
    PROVE  LET c == call[w]
           IN  /\ WriteType(c, ing[w]) /\ c.cut /\ c.path \in DOMAIN disk
               /\ \E whole \in {TRUE} \cup (IF disk[c.path].whole THEN {FALSE} ELSE {}) :
                     disk' = [disk EXCEPT ![c.path] = [whole |-> whole, data |-> IF whole THEN c.data ELSE <<>>]]
               /\ merged' = merged \cup IF IsLut(c.path)
                     THEN {<<c.path[2][2], r[1], r[2]>> : r \in ing[w].luts[c.path[2][2]]} ELSE {}
               /\ man' = [man EXCEPT ![w] = Listed(man[w], c)]
               /\ raced' = (raced \/ Overlaps(w))
               /\ call' = [v \in Workers |-> call'[v]]
               /\ call'[w] = Idle
               /\ \A v \in Workers : v # w =>
                     call'[v] = IF call[v].op = "snapshot" /\ c.path \in Paths(call[v].man)
                                THEN Uncalm(call[v]) ELSE call[v]
               /\ answer' = [answer EXCEPT ![w] = [res |-> "ok"]]
               /\ UNCHANGED <<ing, reg, calls, crashes>>
<1> DEFINE c == call[w]
           D == Disturbed(w, c.path)
<1>1. c.op = "write" /\ c.cut
    BY DEF Fill
<1>2. WriteType(c, ing[w]) /\ c.path \in DOMAIN disk
    BY <1>1, WriteCall DEF Typed, WorkerType, Cutting
<1>3. call' = [D EXCEPT ![w] = Idle]
    BY DEF Fill
<1>4. D = [v \in Workers |-> D[v]] /\ DOMAIN D = Workers
    BY DEF Disturbed
<1>5. \A v \in Workers : v # w =>
          D[v] = IF call[v].op = "snapshot" /\ c.path \in Paths(call[v].man)
                 THEN Uncalm(call[v]) ELSE call[v]
    BY DisturbedFacts
<1> HIDE DEF D
<1>6. /\ call' = [v \in Workers |-> call'[v]] /\ call'[w] = Idle
      /\ \A v \in Workers : v # w => call'[v] = D[v]
    BY <1>3, <1>4
<1>7. man' = [man EXCEPT ![w] = Listed(man[w], c)]
    BY DEF Fill, Typed
<1>8. /\ \E whole \in {TRUE} \cup (IF disk[c.path].whole THEN {FALSE} ELSE {}) :
            disk' = [disk EXCEPT ![c.path] = [whole |-> whole, data |-> IF whole THEN c.data ELSE <<>>]]
      /\ raced' = (raced \/ Overlaps(w))
      /\ answer' = [answer EXCEPT ![w] = [res |-> "ok"]]
      /\ UNCHANGED <<ing, reg, calls, crashes>>
    BY DEF Fill
<1>9. merged' = merged \cup IF IsLut(c.path)
                     THEN {<<c.path[2][2], r[1], r[2]>> : r \in ing[w].luts[c.path[2][2]]} ELSE {}
    BY DEF Fill
<1> QED
    BY <1>1, <1>2, <1>5, <1>6, <1>7, <1>8, <1>9

\* The other workers' calls after a write.
LEMMA OthersTyped ==
    ASSUME Typed, NEW w \in Workers, NEW p, ing' = ing, DOMAIN disk \subseteq DOMAIN disk',
           \A v \in Workers : v # w => man'[v] = man[v],
           \A v \in Workers : v # w =>
               call'[v] = IF call[v].op = "snapshot" /\ p \in Paths(call[v].man)
                          THEN Uncalm(call[v]) ELSE call[v]
    PROVE  \A v \in Workers : v # w => WorkerType(v)'
<1> SUFFICES ASSUME NEW v \in Workers, v # w
             PROVE  WorkerType(v)'
    OBVIOUS
<1>1. CASE call[v].op = "snapshot" /\ p \in Paths(call[v].man)
    <2>1. call'[v] = Uncalm(call[v]) /\ SnapType(call'[v])
        BY <1>1, SnapCall, UncalmType
    <2>2. call'[v].op # "write"
        BY <2>1 DEF Uncalm
    <2> QED BY <2>1, <2>2 DEF Typed, WorkerType, CallType, Cutting
<1>2. CASE ~(call[v].op = "snapshot" /\ p \in Paths(call[v].man))
    <2>1. call'[v] = call[v] /\ ing'[v] = ing[v] /\ man'[v] = man[v]
        BY <1>2
    <2> QED BY <2>1, WorkerUntouched DEF Typed
<1> QED
    BY <1>1, <1>2

\* Truncating a file keeps it.
LEMMA TruncateTyped ==
    ASSUME Typed, NEW w \in Workers, Truncate(w)
    PROVE  Typed'
<1> DEFINE c == call[w]
           f == [whole |-> FALSE, data |-> <<>>]
<1>1. /\ WriteType(c, ing[w]) /\ call'[w] = Cut(c) /\ disk' = Insert(disk, c.path, f)
      /\ ing' = ing /\ man' = man /\ answer' = answer /\ crashes' = crashes
      /\ call' = [v \in Workers |-> call'[v]]
    BY TruncateFacts
<1>2. /\ DOMAIN disk' = DOMAIN disk \cup {c.path} /\ disk'[c.path] = f
      /\ \A p \in DOMAIN disk : p # c.path => disk'[p] = disk[p]
    <2> HIDE DEF c, f
    <2>1. disk' = Insert(disk, c.path, f)
        BY <1>1
    <2> QED BY <2>1 DEF Insert
<1>3. \A v \in Workers : v # w => WorkerType(v)'
    BY <1>1, <1>2, TruncateFacts, OthersTyped
<1>4. WorkerType(w)'
    <2>1. WriteType(Cut(c), ing[w])
        BY <1>1 DEF WriteType, Cut
    <2>2. Cut(c).path = c.path
        BY DEF Cut
    <2> QED BY <1>1, <1>2, <2>1, <2>2 DEF Typed, WorkerType, CallType, Cutting
<1>5. \A p \in DOMAIN disk' : FileType(p)'
    <2> SUFFICES ASSUME NEW p \in DOMAIN disk'
                 PROVE  FileType(p)'
        OBVIOUS
    <2>1. CASE p = c.path
        <3>1. disk'[p].whole = FALSE
            BY <1>2, <2>1
        <3> QED BY <3>1 DEF FileType
    <2>2. CASE p # c.path
        <3>1. p \in DOMAIN disk /\ disk'[p] = disk[p]
            BY <1>2, <2>2
        <3>2. FileType(p)
            BY <3>1 DEF Typed
        <3> QED BY <3>1, <3>2 DEF FileType
    <2> QED BY <2>1, <2>2
<1> QED
    BY <1>1, <1>3, <1>4, <1>5 DEF Typed

\* A manifest with a new entry is one.
LEMMA ListedType ==
    ASSUME NEW m, ManifestType(m), NEW c
    PROVE  /\ ManifestType(Listed(m, c))
           /\ c.entry[1] = "table" => Listed(m, c) = [objects |-> m.objects, tables |-> Insert(m.tables, c.entry[2], c.data)]
           /\ c.entry[1] = "object" => Listed(m, c) = [objects |-> Insert(m.objects, c.entry[2], c.path[2]), tables |-> m.tables]
           /\ c.entry[1] \notin {"object", "table"} => Listed(m, c) = m
<1>1. m = [objects |-> m.objects, tables |-> m.tables] /\ IsMap(m.objects) /\ IsMap(m.tables)
    BY DEF ManifestType
<1>2. CASE c.entry[1] = "object"
    <2>1. Listed(m, c) = [m EXCEPT !.objects = Insert(m.objects, c.entry[2], c.path[2])]
        BY <1>2 DEF Listed
    <2>2. Listed(m, c) = [objects |-> Insert(m.objects, c.entry[2], c.path[2]), tables |-> m.tables]
        BY <1>1, <2>1
    <2>3. IsMap(Insert(m.objects, c.entry[2], c.path[2]))
        BY <1>1, InsertMap
    <2> QED BY <1>1, <1>2, <2>2, <2>3 DEF ManifestType
<1>3. CASE c.entry[1] = "table"
    <2>1. Listed(m, c) = [m EXCEPT !.tables = Insert(m.tables, c.entry[2], c.data)]
        BY <1>3 DEF Listed
    <2>2. Listed(m, c) = [objects |-> m.objects, tables |-> Insert(m.tables, c.entry[2], c.data)]
        BY <1>1, <2>1
    <2>3. IsMap(Insert(m.tables, c.entry[2], c.data))
        BY <1>1, InsertMap
    <2> QED BY <1>1, <1>3, <2>2, <2>3 DEF ManifestType
<1>4. CASE c.entry[1] \notin {"object", "table"}
    BY <1>4 DEF Listed
<1> QED
    BY <1>2, <1>3, <1>4

\* Filling a file keeps it.
LEMMA FillTyped ==
    ASSUME Typed, NEW w \in Workers, Fill(w)
    PROVE  Typed'
<1> DEFINE c == call[w]
<1>1. /\ WriteType(c, ing[w]) /\ c.path \in DOMAIN disk /\ call'[w] = Idle
      /\ man' = [man EXCEPT ![w] = Listed(man[w], c)] /\ ing' = ing /\ crashes' = crashes
      /\ answer' = [answer EXCEPT ![w] = [res |-> "ok"]]
      /\ call' = [v \in Workers |-> call'[v]]
    BY FillFacts
<1>2. PICK whole \in {TRUE, FALSE} :
          disk' = [disk EXCEPT ![c.path] = [whole |-> whole, data |-> IF whole THEN c.data ELSE <<>>]]
    BY FillFacts
<1>3. /\ DOMAIN disk' = DOMAIN disk
      /\ disk'[c.path] = [whole |-> whole, data |-> IF whole THEN c.data ELSE <<>>]
      /\ \A p \in DOMAIN disk : p # c.path => disk'[p] = disk[p]
    BY <1>1, <1>2
<1>4. \A v \in Workers : v # w => WorkerType(v)'
    <2>1. \A v \in Workers : v # w => man'[v] = man[v]
        BY <1>1 DEF Typed
    <2>2. \A v \in Workers : v # w =>
              call'[v] = IF call[v].op = "snapshot" /\ c.path \in Paths(call[v].man)
                         THEN Uncalm(call[v]) ELSE call[v]
        BY FillFacts
    <2>3. ing' = ing /\ DOMAIN disk \subseteq DOMAIN disk'
        BY <1>1, <1>3
    <2> HIDE DEF c
    <2> QED BY <2>1, <2>2, <2>3, OthersTyped
<1>5. WorkerType(w)'
    <2>1. man'[w] = Listed(man[w], c) /\ ManifestType(man[w])
        BY <1>1 DEF Typed, WorkerType
    <2>2. ManifestType(man'[w])
        BY <2>1, ListedType
    <2>3. call'[w].op # "write"
        BY <1>1 DEF Idle
    <2> QED BY <1>1, <2>2, <2>3 DEF Typed, WorkerType, CallType, Cutting
<1>6. whole /\ IsLut(c.path) => Canonical(c.data)
    BY <1>1 DEF WriteType, IsLut, LutPath, lut_name, ManifestPath, Registry, Slice
<1>7. whole /\ c.path = ManifestPath => ManifestType(from_rows(c.data))
    BY <1>1 DEF WriteType, LutPath, ManifestPath
<1>8. ASSUME NEW p \in DOMAIN disk'
      PROVE  FileType(p)'
    <2>1. CASE p = c.path
        <3>1. disk'[p].whole = whole /\ (whole => disk'[p].data = c.data)
            BY <1>3, <2>1
        <3> QED BY <1>6, <1>7, <2>1, <3>1 DEF FileType
    <2>2. CASE p # c.path
        <3>1. p \in DOMAIN disk /\ disk'[p] = disk[p]
            BY <1>3, <2>2
        <3>2. FileType(p)
            BY <3>1 DEF Typed
        <3> QED BY <3>1, <3>2 DEF FileType
    <2> QED BY <2>1, <2>2
<1>9. \A p \in DOMAIN disk' : FileType(p)'
    BY <1>8
<1> QED
    <2>1. /\ ing' = [v \in Workers |-> ing'[v]] /\ man' = [v \in Workers |-> man'[v]]
          /\ answer' = [v \in Workers |-> answer'[v]] /\ crashes' \in Nat
        BY <1>1 DEF Typed
    <2> QED BY <1>1, <1>4, <1>5, <1>9, <2>1 DEF Typed

\* Every step keeps it.
LEMMA NextTyped == Typed /\ [Next]_vars => Typed'
<1> SUFFICES ASSUME Typed, [Next]_vars
             PROVE  Typed'
    OBVIOUS
<1>1. CASE UNCHANGED vars
    BY <1>1 DEF vars, disk_vars, Typed, WorkerType, FileType, Cutting
<1>2. ASSUME NEW w \in Workers, NEW t \in Tokens, Ingest(w, t)
      PROVE  Typed'
    BY <1>2, IngestTyped
<1>3. ASSUME NEW w \in Workers, NEW s \in Seeds, put_hllset(w, s) \/ merge_lut(w, s) \/ merge_lut_fails(w, s)
      PROVE  Typed'
    BY <1>3, StartsTyped, MergeTyped
<1>4. ASSUME NEW w \in Workers, put_tfvec(w) \/ write_table(w) \/ seal(w)
      PROVE  Typed'
    BY <1>4, StartsTyped
<1>5. ASSUME NEW w \in Workers, Truncate(w) \/ Fill(w)
      PROVE  Typed'
    BY <1>5, TruncateTyped, FillTyped
<1>6. ASSUME NEW w \in Workers, open_manifest(w) \/ snapshot(w) \/ ValidateOne(w) \/ ReadOne(w) \/ Crash(w)
      PROVE  Typed'
    BY <1>6, OpenTyped, SnapshotTyped, ReadersTyped, CrashTyped
<1> QED
    BY <1>1, <1>2, <1>3, <1>4, <1>5, <1>6 DEF Next

-----------------------------------------------------------------------------
(* Steps: a worker moves without touching a file, or truncates or fills one. *)

\* What the others see of a step that writes nothing.
OwnStep(w) ==
    /\ UNCHANGED <<disk, merged, raced>>
    /\ \A v \in Workers : v # w => call'[v] = call[v] /\ man'[v] = man[v] /\ answer'[v] = answer[v]
    /\ ~Cutting(w)'
    /\ \/ crashes' = crashes /\ ~Cutting(w)
       \/ crashes' = crashes + 1

\* The calls a step of its worker can leave behind, other than of a snapshot.
Begun(w) ==
    \/ call'[w] = call[w]
    \/ call'[w] = Idle
    \/ /\ call'[w].op = "write"
       /\ call'[w].path = ManifestPath => call'[w].data = rows(man[w])

\* The manifests it can leave behind.
Opened(w) ==
    \/ man'[w] = man[w]
    \/ man'[w] = NoManifest
    \/ Whole(ManifestPath) /\ man'[w] = from_rows(disk[ManifestPath].data)

\* The answers it can leave behind, other than of a snapshot.
Plain(w) == answer'[w] = answer[w] \/ answer'[w].res \notin {"invalid", "snapshot"}

\* An idle worker neither writes nor reads.
LEMMA IdleKind == Idle.op = "idle" /\ Idle.op # "write" /\ Idle.op # "snapshot"
    BY DEF Idle

\* Ingesting is a step of one worker that begins no write of a manifest.
LEMMA IngestOwn ==
    ASSUME Typed, NEW w \in Workers, NEW t \in Tokens, Ingest(w, t)
    PROVE  OwnStep(w) /\ Begun(w) /\ Opened(w) /\ Plain(w)
BY IdleKind DEF Ingest, disk_vars, OwnStep, Begun, Opened, Plain, Cutting

\* So is the beginning of a write.
LEMMA WritesOwn ==
    ASSUME Typed, NEW w \in Workers, NEW path, NEW data, NEW entry, NEW base,
           Writes(w, path, data, entry, base), path = ManifestPath => data = rows(man[w])
    PROVE  OwnStep(w) /\ Begun(w) /\ Opened(w) /\ Plain(w)
<1> DEFINE c == [op |-> "write", path |-> path, data |-> data, cut |-> FALSE,
                 entry |-> entry, base |-> base]
<1>1. /\ call[w] = Idle /\ call' = [call EXCEPT ![w] = c]
      /\ UNCHANGED <<disk, merged, raced, crashes, ing, man, answer>>
    BY DEF Writes, Enter, disk_vars
<1>2. c.op = "write" /\ c.path = path /\ c.data = data /\ ~c.cut
    OBVIOUS
<1> HIDE DEF c
<1>3. call'[w] = c /\ \A v \in Workers : v # w => call'[v] = call[v]
    BY <1>1 DEF Typed
<1> QED
    BY <1>1, <1>2, <1>3, IdleKind DEF OwnStep, Begun, Opened, Plain, Cutting

\* So is each call that begins with a write.
LEMMA StartsOwn ==
    ASSUME Typed, NEW w \in Workers,
           \/ \E s \in Seeds : put_hllset(w, s) \/ merge_lut(w, s)
           \/ put_tfvec(w) \/ write_table(w) \/ seal(w)
    PROVE  OwnStep(w) /\ Begun(w) /\ Opened(w) /\ Plain(w)
<1>1. \A x : <<"object", x>> # ManifestPath /\ <<"table", x>> # ManifestPath
    BY DEF ManifestPath
<1>2. ASSUME NEW s \in Seeds, put_hllset(w, s)
      PROVE  OwnStep(w) /\ Begun(w) /\ Opened(w) /\ Plain(w)
    <2>1. <<"object", <<"hllset", ing[w].hllsets[s]>>>> # ManifestPath
        BY <1>1
    <2> QED BY <1>2, <2>1, WritesOwn DEF put_hllset
<1>3. ASSUME NEW s \in Seeds, merge_lut(w, s)
      PROVE  OwnStep(w) /\ Begun(w) /\ Opened(w) /\ Plain(w)
    <2>1. LutPath(s) # ManifestPath
        BY <1>1 DEF LutPath
    <2> QED BY <1>3, <2>1, MergeWrites, WritesOwn
<1>4. ASSUME put_tfvec(w)
      PROVE  OwnStep(w) /\ Begun(w) /\ Opened(w) /\ Plain(w)
    <2>1. <<"object", <<"tfvec", ing[w].tf>>>> # ManifestPath
        BY <1>1
    <2> QED BY <1>4, <2>1, WritesOwn DEF put_tfvec
<1>5. ASSUME write_table(w)
      PROVE  OwnStep(w) /\ Begun(w) /\ Opened(w) /\ Plain(w)
    <2>1. <<"table", Registry>> # ManifestPath /\ <<"table", Slice>> # ManifestPath
        BY <1>1
    <2> QED BY <1>5, <2>1, WritesOwn DEF write_table
<1>6. ASSUME seal(w)
      PROVE  OwnStep(w) /\ Begun(w) /\ Opened(w) /\ Plain(w)
    BY <1>6, WritesOwn DEF seal
<1> QED
    BY <1>2, <1>3, <1>4, <1>5, <1>6

\* So is each call that answers at once, and a crash.
LEMMA AnswersOwn ==
    ASSUME Typed, NEW w \in Workers,
           (\E s \in Seeds : merge_lut_fails(w, s)) \/ open_manifest(w) \/ Crash(w)
    PROVE  OwnStep(w) /\ Begun(w) /\ Opened(w) /\ Plain(w)
<1>1. ASSUME NEW r, r \in {"arrow", "ok", "none"}, answer' = [answer EXCEPT ![w] = [res |-> r]]
      PROVE  Plain(w) /\ \A v \in Workers : v # w => answer'[v] = answer[v]
    <2>1. answer'[w] = [res |-> r] /\ \A v \in Workers : v # w => answer'[v] = answer[v]
        BY <1>1 DEF Typed
    <2> QED BY <1>1, <2>1 DEF Plain
<1>2. ASSUME call' = [call EXCEPT ![w] = Idle]
      PROVE  /\ call'[w] = Idle /\ ~Cutting(w)' /\ Begun(w)
             /\ \A v \in Workers : v # w => call'[v] = call[v]
    <2>1. call'[w] = Idle /\ \A v \in Workers : v # w => call'[v] = call[v]
        BY <1>2 DEF Typed
    <2> QED BY <2>1, IdleKind DEF Cutting, Begun
<1>3. ASSUME NEW s \in Seeds, merge_lut_fails(w, s)
      PROVE  OwnStep(w) /\ Begun(w) /\ Opened(w) /\ Plain(w)
    <2>1. /\ UNCHANGED <<disk, merged, raced, crashes, man>> /\ call[w] = Idle
          /\ call' = [call EXCEPT ![w] = Idle] /\ answer' = [answer EXCEPT ![w] = [res |-> "arrow"]]
        BY <1>3 DEF merge_lut_fails, Return, Enter, disk_vars
    <2>2. Plain(w) /\ \A v \in Workers : v # w => answer'[v] = answer[v]
        BY <1>1, <2>1
    <2> QED BY <1>2, <2>1, <2>2, IdleKind DEF OwnStep, Opened, Cutting
<1>4. ASSUME open_manifest(w)
      PROVE  OwnStep(w) /\ Begun(w) /\ Opened(w) /\ Plain(w)
    <2>1. /\ UNCHANGED <<disk, merged, raced, crashes>> /\ call[w] = Idle
          /\ call' = [call EXCEPT ![w] = Idle]
          /\ \E r \in {"arrow", "ok", "none"} : answer' = [answer EXCEPT ![w] = [res |-> r]]
          /\ \/ Whole(ManifestPath) /\ man' = [man EXCEPT ![w] = from_rows(disk[ManifestPath].data)]
             \/ man' = man
        BY <1>4 DEF open_manifest, Return, disk_vars
    <2>2. Plain(w) /\ \A v \in Workers : v # w => answer'[v] = answer[v]
        BY <1>1, <2>1
    <2>3. Opened(w) /\ \A v \in Workers : v # w => man'[v] = man[v]
        BY <2>1 DEF Typed, Opened
    <2> QED BY <1>2, <2>1, <2>2, <2>3, IdleKind DEF OwnStep, Cutting
<1>5. ASSUME Crash(w)
      PROVE  OwnStep(w) /\ Begun(w) /\ Opened(w) /\ Plain(w)
    <2>1. /\ UNCHANGED <<disk, merged, raced>> /\ crashes' = crashes + 1
          /\ call' = [call EXCEPT ![w] = Idle] /\ answer' = [answer EXCEPT ![w] = [res |-> "none"]]
          /\ man' = [man EXCEPT ![w] = NoManifest]
        BY <1>5 DEF Crash, Return
    <2>2. Plain(w) /\ \A v \in Workers : v # w => answer'[v] = answer[v]
        BY <1>1, <2>1
    <2>3. Opened(w) /\ \A v \in Workers : v # w => man'[v] = man[v]
        BY <2>1 DEF Typed, Opened
    <2> QED BY <1>2, <2>1, <2>2, <2>3 DEF OwnStep
<1> QED
    BY <1>3, <1>4, <1>5

\* A snapshot and its passes change no manifest.
LEMMA SnapsOwn ==
    ASSUME Typed, NEW w \in Workers, snapshot(w) \/ ValidateOne(w) \/ ReadOne(w)
    PROVE  OwnStep(w) /\ man' = man
<1>1. ASSUME NEW c, c.op # "write", call' = [call EXCEPT ![w] = c]
      PROVE  ~Cutting(w)' /\ \A v \in Workers : v # w => call'[v] = call[v]
    <2>1. call'[w] = c /\ \A v \in Workers : v # w => call'[v] = call[v]
        BY <1>1 DEF Typed
    <2> QED BY <1>1, <2>1 DEF Cutting
<1>2. CASE snapshot(w)
    <2> DEFINE c == [op |-> "snapshot", man |-> man[w], at |-> 1, pass |-> "validate",
                     got |-> <<>>, calm |-> ~Busy(man[w])]
    <2>1. /\ UNCHANGED <<disk, merged, raced, crashes, man, answer>> /\ call[w] = Idle
          /\ call' = [call EXCEPT ![w] = c]
        BY <1>2 DEF snapshot, Enter, disk_vars
    <2>2. c.op # "write"
        OBVIOUS
    <2> HIDE DEF c
    <2> QED BY <1>1, <2>1, <2>2, IdleKind DEF OwnStep, Cutting
<1>3. CASE ValidateOne(w) \/ ReadOne(w)
    <2>1. /\ call[w].op = "snapshot" /\ UNCHANGED <<disk, merged, raced, crashes, man>>
          /\ \E c : c.op # "write" /\ call' = [call EXCEPT ![w] = c]
          /\ answer' = answer \/ \E r : answer' = [answer EXCEPT ![w] = r]
        <3>1. \A at, pass, got : Advanced(call[w], at, pass, got).op # "write"
            BY DEF Advanced
        <3>2. CASE ValidateOne(w)
            <4>1. call[w].op = "snapshot"
                BY <3>2 DEF ValidateOne
            <4> QED BY <3>1, <3>2, <4>1, ValidateFacts, IdleKind
        <3>3. CASE ReadOne(w)
            <4>1. call[w].op = "snapshot"
                BY <3>3 DEF ReadOne
            <4> QED BY <3>1, <3>3, <4>1, ReadFacts, IdleKind
        <3> QED BY <1>3, <3>2, <3>3
    <2>2. \A v \in Workers : v # w => answer'[v] = answer[v]
        BY <2>1 DEF Typed
    <2> QED BY <1>1, <2>1, <2>2 DEF OwnStep, Cutting
<1> QED
    BY <1>2, <1>3

\* Every step, sorted.
LEMMA Steps ==
    ASSUME Typed, [Next]_vars
    PROVE  \/ UNCHANGED vars
           \/ \E w \in Workers :
                 \/ OwnStep(w) /\ Begun(w) /\ Opened(w) /\ Plain(w)
                 \/ OwnStep(w) /\ man' = man /\ (snapshot(w) \/ ValidateOne(w) \/ ReadOne(w))
                 \/ Truncate(w)
                 \/ Fill(w)
<1>1. ASSUME NEW w \in Workers, NEW t \in Tokens, Ingest(w, t)
      PROVE  OwnStep(w) /\ Begun(w) /\ Opened(w) /\ Plain(w)
    BY <1>1, IngestOwn
<1>2. ASSUME NEW w \in Workers, snapshot(w) \/ ValidateOne(w) \/ ReadOne(w)
      PROVE  OwnStep(w) /\ man' = man
    BY <1>2, SnapsOwn
<1> QED
    BY <1>1, <1>2, StartsOwn, AnswersOwn DEF Next

-----------------------------------------------------------------------------
(* Who has cut which file.                                                 *)

\* While nobody has overwritten a change unread: one writer inside a file at a time,
\* its file is not whole, and a table is not whole for no other reason than a death.
Single ==
    /\ \A v, w \in Workers : Cutting(v) /\ Cutting(w) /\ call[v].path = call[w].path => v = w
    /\ \A w \in Workers : Cutting(w) => ~disk[call[w].path].whole
    /\ \A p \in DOMAIN disk : IsLut(p) /\ ~disk[p].whole
           => (\E w \in Workers : Cutting(w) /\ call[w].path = p) \/ crashes > 0

\* The writers inside files before and after a step of w that writes nothing.
LEMMA OwnCutters ==
    ASSUME Typed, NEW w \in Workers, OwnStep(w)
    PROVE  /\ \A v \in Workers : Cutting(v)' => Cutting(v) /\ call'[v] = call[v]
           /\ crashes' = crashes => \A v \in Workers : Cutting(v) => Cutting(v)' /\ call'[v] = call[v]
<1>1. crashes \in Nat
    BY DEF Typed
<1>2. \A v \in Workers : v # w => call'[v] = call[v] /\ (Cutting(v)' <=> Cutting(v))
    BY DEF OwnStep, Cutting
<1>3. ~Cutting(w)' /\ (crashes' = crashes => ~Cutting(w))
    BY <1>1 DEF OwnStep
<1> QED
    BY <1>2, <1>3

\* Before and after a truncation.
LEMMA TruncateCutters ==
    ASSUME Typed, NEW w \in Workers, Truncate(w)
    PROVE  /\ ~Cutting(w) /\ Cutting(w)' /\ call[w].op = "write"
           /\ call'[w].path = call[w].path /\ call'[w].data = call[w].data
           /\ \A v \in Workers : v # w => (Cutting(v)' <=> Cutting(v)) /\ (Cutting(v) => call'[v] = call[v])
<1> DEFINE c == call[w]
<1>1. /\ WriteType(c, ing[w]) /\ ~c.cut /\ call'[w] = Cut(c)
      /\ \A v \in Workers : v # w =>
             call'[v] = IF call[v].op = "snapshot" /\ c.path \in Paths(call[v].man)
                        THEN Uncalm(call[v]) ELSE call[v]
    BY TruncateFacts
<1>2. c.op = "write"
    BY <1>1 DEF WriteType
<1>3. Cut(c).op = "write" /\ Cut(c).cut /\ Cut(c).path = c.path /\ Cut(c).data = c.data
    BY DEF Cut
<1>4. ASSUME NEW v \in Workers, v # w
      PROVE  (Cutting(v)' <=> Cutting(v)) /\ (Cutting(v) => call'[v] = call[v])
    <2>1. CASE call[v].op = "snapshot" /\ c.path \in Paths(call[v].man)
        <3>1. call'[v] = Uncalm(call[v])
            BY <1>1, <1>4, <2>1
        <3>2. call'[v].op = "snapshot"
            BY <3>1 DEF Uncalm
        <3> QED BY <2>1, <3>2 DEF Cutting
    <2>2. CASE ~(call[v].op = "snapshot" /\ c.path \in Paths(call[v].man))
        <3>1. call'[v] = call[v]
            BY <1>1, <1>4, <2>2
        <3> QED BY <3>1 DEF Cutting
    <2> QED BY <2>1, <2>2
<1> QED
    BY <1>1, <1>2, <1>3, <1>4 DEF Cutting

\* Before and after the bytes arrive.
LEMMA FillCutters ==
    ASSUME Typed, NEW w \in Workers, Fill(w)
    PROVE  /\ Cutting(w) /\ ~Cutting(w)'
           /\ \A v \in Workers : v # w => (Cutting(v)' <=> Cutting(v)) /\ (Cutting(v) => call'[v] = call[v])
<1> DEFINE c == call[w]
<1>1. /\ WriteType(c, ing[w]) /\ c.cut /\ call'[w] = Idle
      /\ \A v \in Workers : v # w =>
             call'[v] = IF call[v].op = "snapshot" /\ c.path \in Paths(call[v].man)
                        THEN Uncalm(call[v]) ELSE call[v]
    BY FillFacts
<1>2. c.op = "write"
    BY <1>1 DEF WriteType
<1>3. ASSUME NEW v \in Workers, v # w
      PROVE  (Cutting(v)' <=> Cutting(v)) /\ (Cutting(v) => call'[v] = call[v])
    <2>1. CASE call[v].op = "snapshot" /\ c.path \in Paths(call[v].man)
        <3>1. call'[v] = Uncalm(call[v])
            BY <1>1, <1>3, <2>1
        <3>2. call'[v].op = "snapshot"
            BY <3>1 DEF Uncalm
        <3> QED BY <2>1, <3>2 DEF Cutting
    <2>2. CASE ~(call[v].op = "snapshot" /\ c.path \in Paths(call[v].man))
        <3>1. call'[v] = call[v]
            BY <1>1, <1>3, <2>2
        <3> QED BY <3>1 DEF Cutting
    <2> QED BY <2>1, <2>2
<1> QED
    BY <1>1, <1>2, <1>3, IdleKind DEF Cutting

\* Files before and after a write.
LEMMA TruncateFiles ==
    ASSUME Typed, NEW w \in Workers, Truncate(w)
    PROVE  /\ DOMAIN disk' = DOMAIN disk \cup {call[w].path}
           /\ disk'[call[w].path].whole = FALSE
           /\ \A p \in DOMAIN disk : p # call[w].path => disk'[p] = disk[p]
<1> DEFINE f == [whole |-> FALSE, data |-> <<>>]
<1>1. disk' = Insert(disk, call[w].path, f)
    BY TruncateFacts
<1>2. f.whole = FALSE
    OBVIOUS
<1> HIDE DEF f
<1> QED
    BY <1>1, <1>2 DEF Insert

\* What filling does to the files: one becomes whole, the others stay.
LEMMA FillFiles ==
    ASSUME Typed, NEW w \in Workers, Fill(w)
    PROVE  LET c == call[w]
           IN  /\ DOMAIN disk' = DOMAIN disk /\ c.path \in DOMAIN disk
               /\ disk'[c.path].whole \in BOOLEAN
               /\ disk'[c.path].whole => disk'[c.path].data = c.data
               /\ ~disk[c.path].whole => disk'[c.path].whole
               /\ \A p \in DOMAIN disk : p # c.path => disk'[p] = disk[p]
<1> DEFINE c == call[w]
<1>1. c.path \in DOMAIN disk
    BY FillFacts
<1>2. PICK whole \in {TRUE} \cup (IF disk[c.path].whole THEN {FALSE} ELSE {}) :
          disk' = [disk EXCEPT ![c.path] = [whole |-> whole, data |-> IF whole THEN c.data ELSE <<>>]]
    BY FillFacts
<1>3. /\ DOMAIN disk' = DOMAIN disk
      /\ disk'[c.path] = [whole |-> whole, data |-> IF whole THEN c.data ELSE <<>>]
      /\ \A p \in DOMAIN disk : p # c.path => disk'[p] = disk[p]
    BY <1>1, <1>2
<1>4. disk'[c.path].whole = whole /\ (whole => disk'[c.path].data = c.data)
    BY <1>3
<1>5. whole \in BOOLEAN /\ (~disk[c.path].whole => whole)
    <2>1. CASE disk[c.path].whole
        BY <1>2, <2>1
    <2>2. CASE ~disk[c.path].whole
        <3>1. whole \in {TRUE}
            BY <1>2, <2>2
        <3> QED BY <3>1
    <2> QED BY <2>1, <2>2
<1> QED
    BY <1>1, <1>3, <1>4, <1>5

\* A step that races with nothing.
LEMMA Races ==
    ASSUME Typed, [Next]_vars, ~raced'
    PROVE  /\ ~raced
           /\ \A w \in Workers : Truncate(w) => ~Overlaps(w) /\ ~Unread(call[w])
           /\ \A w \in Workers : Fill(w) => ~Overlaps(w)
<1>1. \A w \in Workers : Truncate(w) => ~raced /\ ~Overlaps(w) /\ ~Unread(call[w])
    BY DEF Truncate
<1>2. \A w \in Workers : Fill(w) => ~raced /\ ~Overlaps(w)
    BY DEF Fill
<1>3. UNCHANGED vars => ~raced
    BY DEF vars, disk_vars
<1>4. \A w \in Workers : OwnStep(w) => ~raced
    BY DEF OwnStep
<1> QED
    BY <1>1, <1>2, <1>3, <1>4, Steps

\* Without an overlap no other worker writes the same file.
LEMMA OverlapsFacts ==
    ASSUME NEW w \in Workers, ~Overlaps(w), NEW v \in Workers, v # w, Cutting(v)
    PROVE  call[v].path # call[w].path
BY DEF Overlaps, Cutting

\* While nothing raced, a file has one writer.
LEMMA SingleStep ==
    ASSUME Typed, [Next]_vars, ~raced', Single
    PROVE  Single'
<1>1. CASE UNCHANGED vars
    <2>1. UNCHANGED <<disk, call, crashes>>
        BY <1>1 DEF vars, disk_vars
    <2> QED BY <2>1 DEF Single, Cutting, IsLut
<1>2. ASSUME NEW w \in Workers, OwnStep(w)
      PROVE  Single'
    <2>1. disk' = disk /\ (crashes' = crashes \/ crashes' = crashes + 1)
        BY <1>2 DEF OwnStep
    <2>2. /\ \A v \in Workers : Cutting(v)' => Cutting(v) /\ call'[v] = call[v]
          /\ crashes' = crashes => \A v \in Workers : Cutting(v) => Cutting(v)' /\ call'[v] = call[v]
        BY <1>2, OwnCutters
    <2>3. \A v, u \in Workers : Cutting(v)' /\ Cutting(u)' /\ call'[v].path = call'[u].path => v = u
        BY <2>2 DEF Single
    <2>4. \A v \in Workers : Cutting(v)' => ~disk'[call'[v].path].whole
        BY <2>1, <2>2 DEF Single
    <2>5. ASSUME NEW p \in DOMAIN disk', IsLut(p), ~disk'[p].whole
          PROVE  (\E v \in Workers : Cutting(v)' /\ call'[v].path = p) \/ crashes' > 0
        <3>1. (\E v \in Workers : Cutting(v) /\ call[v].path = p) \/ crashes > 0
            BY <2>1, <2>5 DEF Single
        <3>2. crashes \in Nat
            BY DEF Typed
        <3>3. crashes' = crashes + 1 => crashes' > 0
            BY <3>2
        <3> QED BY <2>1, <2>2, <3>1, <3>3
    <2> QED BY <2>3, <2>4, <2>5 DEF Single, IsLut
<1>3. ASSUME NEW w \in Workers, Truncate(w)
      PROVE  Single'
    <2>1. ~Overlaps(w)
        BY <1>3, Races
    <2>2. /\ ~Cutting(w) /\ Cutting(w)' /\ call'[w].path = call[w].path
          /\ \A v \in Workers : v # w => (Cutting(v)' <=> Cutting(v)) /\ (Cutting(v) => call'[v] = call[v])
        BY <1>3, TruncateCutters
    <2>3. /\ DOMAIN disk' = DOMAIN disk \cup {call[w].path}
          /\ disk'[call[w].path].whole = FALSE
          /\ \A p \in DOMAIN disk : p # call[w].path => disk'[p] = disk[p]
        BY <1>3, TruncateFiles
    <2>4. crashes' = crashes
        BY <1>3, TruncateFacts
    <2>5. \A v \in Workers : v # w /\ Cutting(v) => call[v].path # call[w].path
        BY <2>1, OverlapsFacts
    <2>6. \A v, u \in Workers : Cutting(v)' /\ Cutting(u)' /\ call'[v].path = call'[u].path => v = u
        BY <2>2, <2>5 DEF Single
    <2>7. ASSUME NEW v \in Workers, Cutting(v)'
          PROVE  ~disk'[call'[v].path].whole
        <3>1. CASE v = w
            BY <2>2, <2>3, <3>1
        <3>2. CASE v # w
            <4>1. Cutting(v) /\ call'[v] = call[v] /\ call[v].path \in DOMAIN disk
                BY <2>2, <2>7, <3>2 DEF Typed, WorkerType
            <4>2. disk'[call[v].path] = disk[call[v].path]
                BY <2>3, <2>5, <3>2, <4>1
            <4> QED BY <4>1, <4>2 DEF Single
        <3> QED BY <3>1, <3>2
    <2>8. ASSUME NEW p \in DOMAIN disk', IsLut(p), ~disk'[p].whole
          PROVE  (\E v \in Workers : Cutting(v)' /\ call'[v].path = p) \/ crashes' > 0
        <3>1. CASE p = call[w].path
            BY <2>2, <3>1
        <3>2. CASE p # call[w].path
            <4>1. p \in DOMAIN disk /\ ~disk[p].whole
                BY <2>3, <2>8, <3>2
            <4>2. (\E v \in Workers : Cutting(v) /\ call[v].path = p) \/ crashes > 0
                BY <2>8, <4>1 DEF Single
            <4> QED BY <2>2, <2>4, <4>2
        <3> QED BY <3>1, <3>2
    <2> QED BY <2>6, <2>7, <2>8 DEF Single, IsLut
<1>4. ASSUME NEW w \in Workers, Fill(w)
      PROVE  Single'
    <2>1. ~Overlaps(w)
        BY <1>4, Races
    <2>2. /\ Cutting(w) /\ ~Cutting(w)'
          /\ \A v \in Workers : v # w => (Cutting(v)' <=> Cutting(v)) /\ (Cutting(v) => call'[v] = call[v])
        BY <1>4, FillCutters
    <2>3. /\ DOMAIN disk' = DOMAIN disk
          /\ ~disk[call[w].path].whole => disk'[call[w].path].whole
          /\ \A p \in DOMAIN disk : p # call[w].path => disk'[p] = disk[p]
        BY <1>4, FillFiles
    <2>4. crashes' = crashes
        BY <1>4, FillFacts
    <2>5. \A v \in Workers : v # w /\ Cutting(v) => call[v].path # call[w].path
        BY <2>1, OverlapsFacts
    <2>6. \A v, u \in Workers : Cutting(v)' /\ Cutting(u)' /\ call'[v].path = call'[u].path => v = u
        BY <2>2 DEF Single
    <2>7. ASSUME NEW v \in Workers, Cutting(v)'
          PROVE  ~disk'[call'[v].path].whole
        <3>1. v # w /\ Cutting(v) /\ call'[v] = call[v] /\ call[v].path \in DOMAIN disk
            BY <2>2, <2>7 DEF Typed, WorkerType
        <3>2. disk'[call[v].path] = disk[call[v].path]
            BY <2>3, <2>5, <3>1
        <3> QED BY <3>1, <3>2 DEF Single
    <2>8. ASSUME NEW p \in DOMAIN disk', IsLut(p), ~disk'[p].whole
          PROVE  (\E v \in Workers : Cutting(v)' /\ call'[v].path = p) \/ crashes' > 0
        <3>1. p # call[w].path
            BY <2>2, <2>3, <2>8 DEF Single
        <3>2. p \in DOMAIN disk /\ ~disk[p].whole
            BY <2>3, <2>8, <3>1
        <3>3. (\E v \in Workers : Cutting(v) /\ call[v].path = p) \/ crashes > 0
            BY <2>8, <3>2 DEF Single
        <3> QED BY <2>2, <2>4, <3>1, <3>3
    <2> QED BY <2>6, <2>7, <2>8 DEF Single, IsLut
<1> QED
    BY <1>1, <1>2, <1>3, <1>4, Steps

-----------------------------------------------------------------------------
(* Rows that a shared table will not lose.                                 *)

\* The rows R are in the table at p, or in what is being written there.
Below(p, R) ==
    /\ p \in DOMAIN disk
    /\ disk[p].whole => R \subseteq ToSet(disk[p].data)
    /\ \A w \in Workers : Cutting(w) /\ call[w].path = p => R \subseteq ToSet(call[w].data)

\* What a write of a shared table writes.
LEMMA LutWrite ==
    ASSUME Typed, NEW w \in Workers, call[w].op = "write", IsLut(call[w].path)
    PROVE  \E s \in Seeds :
             /\ call[w].path = LutPath(s) /\ call[w].entry = call[w].path
             /\ Canonical(call[w].data) /\ ToSet(call[w].data) = call[w].base \cup ing[w].luts[s]
<1>1. WriteType(call[w], ing[w])
    BY WriteCall
<1>2. ~IsLut(ManifestPath) /\ ~IsLut(<<"table", Registry>>) /\ ~IsLut(<<"table", Slice>>)
    BY DEF IsLut, ManifestPath, Registry, Slice
<1>3. \A x : ~IsLut(<<"object", x>>)
    BY DEF IsLut
<1> QED
    BY <1>1, <1>2, <1>3 DEF WriteType

\* While nothing raced, the rows of a LUT stay in its file.
LEMMA BelowStep ==
    ASSUME Typed, [Next]_vars, ~raced', NEW p, IsLut(p), NEW R, Below(p, R)
    PROVE  Below(p, R)'
<1>1. CASE UNCHANGED vars
    <2>1. UNCHANGED <<disk, call>>
        BY <1>1 DEF vars, disk_vars
    <2> QED BY <2>1 DEF Below, Cutting
<1>2. ASSUME NEW w \in Workers, OwnStep(w)
      PROVE  Below(p, R)'
    <2>1. disk' = disk
        BY <1>2 DEF OwnStep
    <2>2. \A v \in Workers : Cutting(v)' => Cutting(v) /\ call'[v] = call[v]
        BY <1>2, OwnCutters
    <2> QED BY <2>1, <2>2 DEF Below
<1>3. ASSUME NEW w \in Workers, Truncate(w)
      PROVE  Below(p, R)'
    <2>1. ~Unread(call[w])
        BY <1>3, Races
    <2>2. /\ call[w].op = "write" /\ call'[w].path = call[w].path /\ call'[w].data = call[w].data
          /\ \A v \in Workers : v # w => (Cutting(v)' <=> Cutting(v)) /\ (Cutting(v) => call'[v] = call[v])
        BY <1>3, TruncateCutters
    <2>3. /\ DOMAIN disk' = DOMAIN disk \cup {call[w].path}
          /\ disk'[call[w].path].whole = FALSE
          /\ \A q \in DOMAIN disk : q # call[w].path => disk'[q] = disk[q]
        BY <1>3, TruncateFiles
    <2>4. p \in DOMAIN disk' /\ (disk'[p].whole => R \subseteq ToSet(disk'[p].data))
        BY <2>3 DEF Below
    <2>5. ASSUME call[w].path = p
          PROVE  R \subseteq ToSet(call[w].data)
        <3>1. Whole(p) /\ call[w].base = ToSet(read_table(p))
            BY <2>1, <2>5 DEF Unread, Exists, Below
        <3>2. R \subseteq call[w].base
            BY <3>1 DEF read_table, Whole, Exists, Below
        <3> QED BY <2>2, <2>5, <3>2, LutWrite
    <2>6. ASSUME NEW v \in Workers, Cutting(v)', call'[v].path = p
          PROVE  R \subseteq ToSet(call'[v].data)
        <3>1. CASE v = w
            BY <2>2, <2>5, <2>6, <3>1
        <3>2. CASE v # w
            BY <2>2, <2>6, <3>2 DEF Below
        <3> QED BY <3>1, <3>2
    <2> QED BY <2>4, <2>6 DEF Below
<1>4. ASSUME NEW w \in Workers, Fill(w)
      PROVE  Below(p, R)'
    <2>1. /\ Cutting(w) /\ ~Cutting(w)'
          /\ \A v \in Workers : v # w => (Cutting(v)' <=> Cutting(v)) /\ (Cutting(v) => call'[v] = call[v])
        BY <1>4, FillCutters
    <2>2. /\ DOMAIN disk' = DOMAIN disk
          /\ disk'[call[w].path].whole => disk'[call[w].path].data = call[w].data
          /\ \A q \in DOMAIN disk : q # call[w].path => disk'[q] = disk[q]
        BY <1>4, FillFiles
    <2>3. p \in DOMAIN disk' /\ (disk'[p].whole => R \subseteq ToSet(disk'[p].data))
        <3>1. CASE p = call[w].path
            BY <2>1, <2>2, <3>1 DEF Below
        <3>2. CASE p # call[w].path
            BY <2>2, <3>2 DEF Below
        <3> QED BY <3>1, <3>2
    <2>4. \A v \in Workers : Cutting(v)' /\ call'[v].path = p => R \subseteq ToSet(call'[v].data)
        BY <2>1 DEF Below
    <2> QED BY <2>3, <2>4 DEF Below
<1> QED
    BY <1>1, <1>2, <1>3, <1>4, Steps

\* Once its bytes have arrived, all that a write of a table has written is below.
LEMMA FillBelow ==
    ASSUME Typed, [Next]_vars, ~raced', NEW w \in Workers, Fill(w),
           NEW p, p = call[w].path, NEW R, R = ToSet(call[w].data)
    PROVE  Below(p, R)'
<1>1. ~Overlaps(w)
    BY Races
<1>2. /\ Cutting(w) /\ ~Cutting(w)'
      /\ \A v \in Workers : v # w => (Cutting(v)' <=> Cutting(v)) /\ (Cutting(v) => call'[v] = call[v])
    BY FillCutters
<1>3. p \in DOMAIN disk' /\ (disk'[p].whole => disk'[p].data = call[w].data)
    BY FillFiles
<1>4. \A v \in Workers : Cutting(v)' => call'[v].path # p
    BY <1>1, <1>2, OverlapsFacts
<1> QED
    BY <1>3, <1>4 DEF Below

\* Fewer rows are there as well.
LEMMA BelowLess ==
    ASSUME NEW p, NEW R, NEW S \in SUBSET R, Below(p, R)'
    PROVE  Below(p, S)'
BY DEF Below

\* Every row that a merge was answered Ok for stays.
Held == \A r \in merged : Below(LutPath(r[1]), {<<r[2], r[3]>>})

\* The path of a LUT names its seed.
LEMMA LutPathLut == \A s : IsLut(LutPath(s)) /\ LutPath(s)[2][2] = s
    BY DEF IsLut, LutPath, lut_name

\* While nothing raced, what was merged stays in the files or in a write.
LEMMA HeldStep ==
    ASSUME Typed, [Next]_vars, ~raced', Held
    PROVE  Held'
<1>1. ASSUME NEW r \in merged
      PROVE  Below(LutPath(r[1]), {<<r[2], r[3]>>})'
    <2> DEFINE p == LutPath(r[1])
               R == {<<r[2], r[3]>>}
    <2>1. Below(p, R) /\ IsLut(p)
        BY LutPathLut DEF Held
    <2> HIDE DEF p, R
    <2>2. Below(p, R)'
        BY <2>1, BelowStep
    <2> QED BY <2>2 DEF p, R
<1>2. ASSUME merged' = merged
      PROVE  Held'
    BY <1>1, <1>2 DEF Held, LutPath, lut_name
<1>3. ASSUME NEW w \in Workers, Fill(w)
      PROVE  Held'
    <2> DEFINE c == call[w]
               N == IF IsLut(c.path) THEN {<<c.path[2][2], r[1], r[2]>> : r \in ing[w].luts[c.path[2][2]]} ELSE {}
    <2>1. merged' = merged \cup N
        BY <1>3, FillFacts
    <2>2. ASSUME NEW r \in N
          PROVE  Below(LutPath(r[1]), {<<r[2], r[3]>>})'
        <3>1. IsLut(c.path) /\ c.op = "write"
            BY <1>3, <2>2 DEF Fill
        <3>2. PICK s \in Seeds : /\ c.path = LutPath(s)
                                 /\ ToSet(c.data) = c.base \cup ing[w].luts[s]
            BY <3>1, LutWrite
        <3>3. c.path[2][2] = s
            BY <3>2, LutPathLut
        <3>4. PICK q \in ing[w].luts[s] : r = <<s, q[1], q[2]>>
            BY <3>1, <3>3
        <3>5. q \in Row /\ q = <<q[1], q[2]>>
            BY DEF Typed, WorkerType, Row
        <3>6. r[1] = s /\ {<<r[2], r[3]>>} = {q}
            BY <3>4, <3>5
        <3>7. PICK p : p = c.path
            OBVIOUS
        <3>8. PICK R : R = ToSet(c.data)
            OBVIOUS
        <3>9. Below(p, R)'
            BY <1>3, <3>7, <3>8, FillBelow
        <3>10. {q} \subseteq R /\ p = LutPath(r[1])
            BY <3>2, <3>6, <3>7, <3>8
        <3>11. Below(p, {q})'
            BY <3>9, <3>10, BelowLess
        <3> QED BY <3>6, <3>10, <3>11
    <2> HIDE DEF N
    <2> QED BY <1>1, <2>1, <2>2 DEF Held, LutPath, lut_name
<1>4. UNCHANGED vars => merged' = merged
    BY DEF vars, disk_vars
<1>5. \A w \in Workers : OwnStep(w) => merged' = merged
    BY DEF OwnStep
<1>6. \A w \in Workers : Truncate(w) => merged' = merged
    BY DEF Truncate
<1> QED
    BY <1>2, <1>3, <1>4, <1>5, <1>6, Steps

-----------------------------------------------------------------------------
(* Sealed tables.                                                          *)

\* The shared tables of a manifest are batches whose rows are not lost.
Sealed(m) ==
    \A n \in DOMAIN m.tables : n[1] = "ns" =>
        Canonical(m.tables[n]) /\ Below(<<"table", n>>, ToSet(m.tables[n]))

\* The manifests there are: of workers, of snapshots, being written and written.
Known(m) ==
    \/ \E w \in Workers : m = man[w]
    \/ \E w \in Workers : Snapping(w) /\ m = call[w].man
    \/ \E w \in Workers : Writing(w) /\ call[w].path = ManifestPath /\ m = from_rows(call[w].data)
    \/ Whole(ManifestPath) /\ m = from_rows(disk[ManifestPath].data)

AllSealed == \A m : Known(m) => Sealed(m)

\* While nothing raced, a sealed manifest stays sealed.
LEMMA SealedStep ==
    ASSUME Typed, [Next]_vars, ~raced', NEW m, Sealed(m)
    PROVE  Sealed(m)'
<1> SUFFICES ASSUME NEW n \in DOMAIN m.tables, n[1] = "ns"
             PROVE  Canonical(m.tables[n]) /\ Below(<<"table", n>>, ToSet(m.tables[n]))'
    BY DEF Sealed, Canonical, RowBefore
<1> DEFINE p == <<"table", n>>
           R == ToSet(m.tables[n])
<1>1. Canonical(m.tables[n]) /\ Below(p, R) /\ IsLut(p)
    BY DEF Sealed, IsLut
<1> HIDE DEF p, R
<1>2. Below(p, R)'
    BY <1>1, BelowStep
<1> QED
    BY <1>1, <1>2 DEF p, R

\* The empty manifest is sealed.
LEMMA NoManifestSealed == Sealed(NoManifest)
<1>1. NoManifest.tables = <<>> /\ DOMAIN <<>> = {}
    BY DEF NoManifest
<1> QED
    BY <1>1 DEF Sealed

\* The manifest a write has made its entry in.
LEMMA ListedSealed ==
    ASSUME Typed, [Next]_vars, ~raced', NEW w \in Workers, Fill(w), Sealed(man[w]),
           NEW m, m = Listed(man[w], call[w])
    PROVE  Sealed(m)'
<1> DEFINE c == call[w]
<1>1. PICK k : k = man[w]
    OBVIOUS
<1>2. ManifestType(k) /\ Sealed(k)'
    <2>1. Sealed(k)
        BY <1>1 DEF Sealed, Below, Cutting
    <2> QED BY <1>1, <2>1, SealedStep DEF Typed, WorkerType
<1>3. WriteType(c, ing[w]) /\ c.op = "write"
    BY FillFacts DEF Fill
<1>4. CASE c.entry[1] = "table"
    <2>1. m = [objects |-> k.objects, tables |-> Insert(k.tables, c.entry[2], c.data)]
        BY <1>1, <1>2, <1>4, ListedType
    <2>2. SUFFICES ASSUME NEW n \in DOMAIN m.tables, n[1] = "ns"
                   PROVE  Canonical(m.tables[n]) /\ Below(<<"table", n>>, ToSet(m.tables[n]))'
        BY DEF Sealed, Canonical, RowBefore
    <2>3. CASE n = c.entry[2]
        <3>1. c.entry = c.path /\ c.path = <<"table", n>>
            <4>1. c.entry # ManifestPath /\ \A x : c.entry # <<"object", x>>
                BY <1>4 DEF ManifestPath
            <4>2. c.entry = c.path /\ \E x : c.path = <<"table", x>>
                BY <1>3, <4>1 DEF WriteType, LutPath
            <4> QED BY <2>3, <4>2
        <3>2. IsLut(c.path)
            BY <2>2, <3>1 DEF IsLut
        <3>3. Canonical(c.data)
            BY <1>3, <3>2, LutWrite
        <3>4. m.tables[n] = c.data
            BY <2>1, <2>3 DEF Insert
        <3>5. PICK p : p = c.path
            OBVIOUS
        <3>6. PICK R : R = ToSet(c.data)
            OBVIOUS
        <3>7. Below(p, R)'
            BY <3>5, <3>6, FillBelow
        <3>8. p = <<"table", n>> /\ R = ToSet(m.tables[n])
            BY <3>1, <3>4, <3>5, <3>6
        <3> QED BY <3>3, <3>4, <3>7, <3>8
    <2>4. CASE n # c.entry[2]
        <3>1. n \in DOMAIN k.tables /\ m.tables[n] = k.tables[n]
            BY <2>1, <2>4 DEF Insert
        <3>2. Canonical(k.tables[n]) /\ Below(<<"table", n>>, ToSet(k.tables[n]))'
            BY <1>2, <2>2, <3>1 DEF Sealed, Canonical, RowBefore
        <3> QED BY <3>1, <3>2
    <2> QED BY <2>3, <2>4
<1>5. CASE c.entry[1] # "table"
    <2>1. m.tables = k.tables
        <3>1. m = Listed(k, c)
            BY <1>1
        <3>2. CASE c.entry[1] = "object"
            <4>1. Listed(k, c) = [objects |-> Insert(k.objects, c.entry[2], c.path[2]), tables |-> k.tables]
                BY <1>2, <3>2, ListedType
            <4> QED BY <3>1, <4>1
        <3>3. CASE c.entry[1] # "object"
            <4>1. c.entry[1] \notin {"object", "table"}
                BY <1>5, <3>3
            <4>2. Listed(k, c) = k
                BY <1>2, <4>1, ListedType
            <4> QED BY <3>1, <4>2
        <3> QED BY <3>2, <3>3
    <2> QED BY <1>2, <2>1 DEF Sealed
<1> QED
    BY <1>4, <1>5

\* What a worker can come to know in a step of its own.
LEMMA OwnKnown ==
    ASSUME Typed, NEW w \in Workers, OwnStep(w), Opened(w),
           \/ Begun(w)
           \/ Snapping(w)' /\ call'[w].man = man[w]
           \/ Snapping(w)' /\ Snapping(w) /\ call'[w].man = call[w].man,
           NEW m, Known(m)'
    PROVE  Known(m) \/ m = NoManifest
<1>1. /\ disk' = disk /\ (Whole(ManifestPath)' <=> Whole(ManifestPath))
      /\ \A v \in Workers : v # w => call'[v] = call[v] /\ man'[v] = man[v]
    BY DEF OwnStep, Whole, Exists
<1>2. ASSUME NEW v \in Workers, m = man'[v]
      PROVE  Known(m) \/ m = NoManifest
    BY <1>1, <1>2 DEF Opened, Known
<1>3. ASSUME NEW v \in Workers, Snapping(v)', m = call'[v].man
      PROVE  Known(m)
    <2>1. CASE v = w
        BY <1>3, <2>1, IdleKind DEF Begun, Snapping, Known
    <2>2. CASE v # w
        BY <1>1, <1>3, <2>2 DEF Snapping, Known
    <2> QED BY <2>1, <2>2
<1>4. ASSUME NEW v \in Workers, Writing(v)', call'[v].path = ManifestPath, m = from_rows(call'[v].data)
      PROVE  Known(m)
    <2>1. CASE v = w
        <3>1. CASE call'[w] = call[w]
            BY <1>4, <2>1, <3>1 DEF Writing, Known
        <3>2. CASE call'[w].data = rows(man[w])
            <4>1. m = man[w]
                BY <1>4, <2>1, <3>2, ManifestRoundTrip DEF Typed, WorkerType
            <4> QED BY <4>1 DEF Known
        <3> QED BY <1>4, <2>1, <3>1, <3>2, IdleKind DEF Begun, Writing, Snapping
    <2>2. CASE v # w
        BY <1>1, <1>4, <2>2 DEF Writing, Known
    <2> QED BY <2>1, <2>2
<1> QED
    BY <1>1, <1>2, <1>3, <1>4 DEF Known

\* A step of a snapshot keeps its manifest.
LEMMA SnapKnown ==
    ASSUME Typed, NEW w \in Workers, snapshot(w) \/ ValidateOne(w) \/ ReadOne(w)
    PROVE  \/ call'[w] = Idle
           \/ Snapping(w)' /\ call'[w].man = man[w]
           \/ Snapping(w)' /\ Snapping(w) /\ call'[w].man = call[w].man
<1>1. CASE snapshot(w)
    <2> DEFINE c == [op |-> "snapshot", man |-> man[w], at |-> 1, pass |-> "validate",
                     got |-> <<>>, calm |-> ~Busy(man[w])]
    <2>1. call' = [call EXCEPT ![w] = c]
        BY <1>1 DEF snapshot
    <2>2. c.op = "snapshot" /\ c.man = man[w]
        OBVIOUS
    <2> HIDE DEF c
    <2>3. call'[w] = c
        BY <2>1 DEF Typed
    <2> QED BY <2>2, <2>3 DEF Snapping
<1>2. \A at, pass, got : LET a == Advanced(call[w], at, pass, got)
                         IN  a.op = "snapshot" /\ a.man = call[w].man
    BY DEF Advanced
<1>3. \A a : call' = [call EXCEPT ![w] = a] => call'[w] = a
    BY DEF Typed
<1>4. CASE ValidateOne(w)
    <2>1. Snapping(w)
        BY <1>4 DEF ValidateOne, Snapping
    <2>2. call' = [call EXCEPT ![w] = Idle]
          \/ \E at, pass, got : call' = [call EXCEPT ![w] = Advanced(call[w], at, pass, got)]
        BY <1>4, ValidateFacts
    <2>3. call'[w] = Idle \/ \E at, pass, got : call'[w] = Advanced(call[w], at, pass, got)
        BY <1>3, <2>2
    <2> QED BY <1>2, <2>1, <2>3 DEF Snapping
<1>5. CASE ReadOne(w)
    <2>1. Snapping(w)
        BY <1>5 DEF ReadOne, Snapping
    <2>2. call' = [call EXCEPT ![w] = Idle]
          \/ \E at, pass, got : call' = [call EXCEPT ![w] = Advanced(call[w], at, pass, got)]
        BY <1>5, ReadFacts
    <2>3. call'[w] = Idle \/ \E at, pass, got : call'[w] = Advanced(call[w], at, pass, got)
        BY <1>3, <2>2
    <2> QED BY <1>2, <2>1, <2>3 DEF Snapping
<1> QED
    BY <1>1, <1>4, <1>5

\* A write changes the manifests of nobody but its worker's, when it is over.
LEMMA OthersKnown ==
    ASSUME Typed, NEW w \in Workers, Truncate(w) \/ Fill(w), NEW v \in Workers, v # w
    PROVE  /\ man'[v] = man[v] /\ call'[v].op = call[v].op
           /\ Snapping(v) => call'[v].man = call[v].man
           /\ Writing(v) => call'[v] = call[v]
<1>1. \A c : Uncalm(c).op = "snapshot" /\ Uncalm(c).man = c.man
    BY DEF Uncalm
<1>2. CASE Truncate(w)
    BY <1>1, <1>2, TruncateFacts DEF Snapping, Writing
<1>3. CASE Fill(w)
    <2>1. man'[v] = man[v]
        BY <1>3, FillFacts, ZenonT(60) DEF Typed
    <2>2. call'[v] = IF call[v].op = "snapshot" /\ call[w].path \in Paths(call[v].man)
                     THEN Uncalm(call[v]) ELSE call[v]
        BY <1>3, FillFacts
    <2> QED BY <1>1, <2>1, <2>2 DEF Snapping, Writing
<1> QED
    BY <1>2, <1>3

\* Truncating makes no manifest known.
LEMMA TruncateKnown ==
    ASSUME Typed, NEW w \in Workers, Truncate(w), NEW m, Known(m)'
    PROVE  Known(m)
<1>1. /\ Writing(w) /\ call'[w].op = "write" /\ call'[w].path = call[w].path
      /\ call'[w].data = call[w].data
    BY TruncateCutters DEF Cutting, Writing
<1>2. man' = man
    BY TruncateFacts
<1>3. Whole(ManifestPath)' => Whole(ManifestPath) /\ disk'[ManifestPath] = disk[ManifestPath]
    BY TruncateFiles DEF Whole, Exists
<1>4. ASSUME NEW v \in Workers, Snapping(v)', m = call'[v].man
      PROVE  Known(m)
    <2>1. v # w
        BY <1>1, <1>4 DEF Snapping
    <2> QED BY <1>4, <2>1, OthersKnown DEF Snapping, Known
<1>5. ASSUME NEW v \in Workers, Writing(v)', call'[v].path = ManifestPath, m = from_rows(call'[v].data)
      PROVE  Known(m)
    <2>1. CASE v = w
        BY <1>1, <1>5, <2>1 DEF Known
    <2>2. CASE v # w
        BY <1>5, <2>2, OthersKnown DEF Writing, Known
    <2> QED BY <2>1, <2>2
<1> QED
    BY <1>2, <1>3, <1>4, <1>5 DEF Known

\* Filling makes one known at most: the writer's, with the new entry.
LEMMA FillKnown ==
    ASSUME Typed, NEW w \in Workers, Fill(w), NEW m, Known(m)'
    PROVE  Known(m) \/ m = Listed(man[w], call[w])
<1>1. Writing(w) /\ call'[w] = Idle /\ man'[w] = Listed(man[w], call[w])
    BY FillFacts DEF Fill, Writing, Typed
<1>2. Whole(ManifestPath)' =>
          \/ Whole(ManifestPath) /\ disk'[ManifestPath] = disk[ManifestPath]
          \/ call[w].path = ManifestPath /\ disk'[ManifestPath].data = call[w].data
    BY FillFiles DEF Whole, Exists
<1>3. ASSUME NEW v \in Workers, Snapping(v)', m = call'[v].man
      PROVE  Known(m)
    <2>1. v # w
        BY <1>1, <1>3, IdleKind DEF Snapping
    <2> QED BY <1>3, <2>1, OthersKnown DEF Snapping, Known
<1>4. ASSUME NEW v \in Workers, Writing(v)', call'[v].path = ManifestPath, m = from_rows(call'[v].data)
      PROVE  Known(m)
    <2>1. v # w
        BY <1>1, <1>4, IdleKind DEF Writing
    <2> QED BY <1>4, <2>1, OthersKnown DEF Writing, Known
<1>5. ASSUME NEW v \in Workers, m = man'[v]
      PROVE  Known(m) \/ m = Listed(man[w], call[w])
    BY <1>1, <1>5, OthersKnown DEF Known
<1>6. ASSUME Whole(ManifestPath)', m = from_rows(disk'[ManifestPath].data)
      PROVE  Known(m)
    BY <1>1, <1>2, <1>6 DEF Known
<1> QED
    BY <1>3, <1>4, <1>5, <1>6 DEF Known

\* While nothing raced, every known manifest stays sealed.
LEMMA AllSealedStep ==
    ASSUME Typed, [Next]_vars, ~raced', AllSealed
    PROVE  AllSealed'
<1> SUFFICES ASSUME NEW m, Known(m)'
             PROVE  Sealed(m)'
    BY DEF AllSealed
<1>1. Known(m) => Sealed(m)'
    BY SealedStep DEF AllSealed
<1>2. m = NoManifest => Sealed(m)'
    BY NoManifestSealed, SealedStep
<1>3. CASE UNCHANGED vars
    <2>1. Known(m)
        BY <1>3 DEF vars, disk_vars, Known, Snapping, Writing, Whole, Exists
    <2> QED BY <1>1, <2>1
<1>4. ASSUME NEW w \in Workers, OwnStep(w), Begun(w), Opened(w)
      PROVE  Sealed(m)'
    BY <1>1, <1>2, <1>4, OwnKnown
<1>5. ASSUME NEW w \in Workers, OwnStep(w), man' = man, snapshot(w) \/ ValidateOne(w) \/ ReadOne(w)
      PROVE  Sealed(m)'
    <2>1. Opened(w)
        BY <1>5 DEF Opened
    <2>2. \/ Begun(w)
          \/ Snapping(w)' /\ call'[w].man = man[w]
          \/ Snapping(w)' /\ Snapping(w) /\ call'[w].man = call[w].man
        BY <1>5, SnapKnown DEF Begun
    <2> QED BY <1>1, <1>2, <1>5, <2>1, <2>2, OwnKnown
<1>6. ASSUME NEW w \in Workers, Truncate(w)
      PROVE  Sealed(m)'
    BY <1>1, <1>6, TruncateKnown
<1>7. ASSUME NEW w \in Workers, Fill(w)
      PROVE  Sealed(m)'
    <2>1. CASE Known(m)
        BY <1>1, <2>1
    <2>2. CASE m = Listed(man[w], call[w])
        <3>1. PICK k : k = man[w]
            OBVIOUS
        <3>2. Known(k)
            BY <3>1 DEF Known
        <3>3. Sealed(k)
            BY <3>2 DEF AllSealed
        <3>4. Sealed(man[w])
            BY <3>1, <3>3 DEF Sealed, Below, Cutting
        <3> QED BY <1>7, <2>2, <3>4, ListedSealed
    <2> QED BY <1>7, <2>1, <2>2, FillKnown
<1> QED
    BY <1>3, <1>4, <1>5, <1>6, <1>7, Steps

-----------------------------------------------------------------------------
(* Snapshots.                                                              *)

\* What a manifest has of an entry.
Wanted(m, e) == IF e[1] = "object" THEN m.objects[e[2]][2] ELSE m.tables[e[2]]

\* A snapshot in progress finds what it has validated as it was, and has read it so.
Steady(c) ==
    /\ \A v \in Workers : Cutting(v) => call[v].path \notin Paths(c.man)
    /\ \A i \in 1..Len(Entries(c.man)) :
          c.pass = "read" \/ i < c.at => Validated(c.man, Entries(c.man)[i])
    /\ \A e \in DOMAIN c.got : c.got[e].whole /\ c.got[e].data = Wanted(c.man, e)

\* Every snapshot that nobody has disturbed is steady.
Reading == \A w \in Workers : Snapping(w) /\ call[w].calm => Steady(call[w])

\* An entry of a manifest names a file of it.
LEMMA EntryPath ==
    ASSUME NEW m, ManifestType(m), NEW i \in 1..Len(Entries(m))
    PROVE  PathOf(m, Entries(m)[i]) \in Paths(m)
<1>1. Entries(m)[i] \in Range(Entries(m))
    BY EntriesFacts DEF Range
<1> QED
    BY <1>1 DEF Paths

\* What is validated is there as the manifest wants it.
LEMMA ValidatedWanted ==
    ASSUME NEW m, NEW e, Validated(m, e)
    PROVE  LET p == PathOf(m, e)
           IN  p \in DOMAIN disk /\ disk[p].whole /\ disk[p].data = Wanted(m, e)
BY DEF Validated, Holds, Whole, Exists, Wanted, Expected

\* Steady as long as no file of the manifest changes and none is being written.
LEMMA SteadyKept ==
    ASSUME NEW c, ManifestType(c.man), Steady(c),
           \A p \in Paths(c.man) : Exists(p) => Exists(p)' /\ disk'[p] = disk[p],
           \A v \in Workers : Cutting(v)' => call'[v].path \notin Paths(c.man)
    PROVE  Steady(c)'
<1>1. ASSUME NEW i \in 1..Len(Entries(c.man)), Validated(c.man, Entries(c.man)[i])
      PROVE  Validated(c.man, Entries(c.man)[i])'
    <2>1. PICK p : p = PathOf(c.man, Entries(c.man)[i])
        OBVIOUS
    <2>2. p \in Paths(c.man)
        BY <2>1, EntryPath
    <2>3. ASSUME NEW d, Holds(p, d)
          PROVE  Holds(p, d)'
        BY <2>2, <2>3 DEF Holds, Whole, Exists
    <2>4. PICK d : d = IF Entries(c.man)[i][1] = "object" THEN Expected(c.man, Entries(c.man)[i])[2]
                       ELSE Expected(c.man, Entries(c.man)[i])
        OBVIOUS
    <2>5. Holds(p, d)
        BY <1>1, <2>1, <2>4 DEF Validated
    <2>6. Holds(p, d)'
        BY <2>3, <2>5
    <2> QED BY <2>1, <2>4, <2>6 DEF Validated, Holds, Whole, Exists
<1>2. \A e \in DOMAIN c.got : c.got[e].whole /\ c.got[e].data = Wanted(c.man, e)
    BY DEF Steady
<1> QED
    BY <1>1, <1>2 DEF Steady

\* A step that writes nothing keeps every snapshot steady.
LEMMA SteadyOwn ==
    ASSUME Typed, NEW w \in Workers, OwnStep(w), NEW c, ManifestType(c.man), Steady(c)
    PROVE  Steady(c)'
<1>1. disk' = disk
    BY DEF OwnStep
<1>2. \A v \in Workers : Cutting(v)' => call'[v].path \notin Paths(c.man)
    BY OwnCutters DEF Steady
<1>3. \A p \in Paths(c.man) : Exists(p) => Exists(p)' /\ disk'[p] = disk[p]
    BY <1>1 DEF Exists
<1> QED
    BY <1>2, <1>3, SteadyKept

\* So does a write of a file that is not in its manifest.
LEMMA SteadyWrite ==
    ASSUME Typed, NEW w \in Workers, Truncate(w) \/ Fill(w), NEW c, ManifestType(c.man),
           call[w].path \notin Paths(c.man), Steady(c)
    PROVE  Steady(c)'
<1>1. \A p \in Paths(c.man) : Exists(p) => Exists(p)' /\ disk'[p] = disk[p]
    BY TruncateFiles, FillFiles DEF Exists
<1>2. ASSUME NEW v \in Workers, Cutting(v)'
      PROVE  call'[v].path \notin Paths(c.man)
    <2>1. CASE v = w
        BY <1>2, <2>1, TruncateCutters, FillCutters
    <2>2. CASE v # w
        <3>1. Cutting(v) /\ call'[v] = call[v]
            BY <1>2, <2>2, TruncateCutters, FillCutters
        <3> QED BY <3>1 DEF Steady
    <2> QED BY <2>1, <2>2
<1> QED
    BY <1>1, <1>2, SteadyKept

\* A snapshot is steady when it starts.
LEMMA SnapshotSteady ==
    ASSUME Typed, NEW w \in Workers, snapshot(w), call'[w].calm
    PROVE  Steady(call[w])'
<1> DEFINE c == [op |-> "snapshot", man |-> man[w], at |-> 1, pass |-> "validate",
                 got |-> <<>>, calm |-> ~Busy(man[w])]
<1>1. call' = [call EXCEPT ![w] = c] /\ disk' = disk
    BY DEF snapshot, disk_vars
<1>2. /\ c.man = man[w] /\ c.at = 1 /\ c.pass = "validate" /\ c.got = <<>>
      /\ (c.calm <=> ~Busy(man[w])) /\ c.op = "snapshot"
    OBVIOUS
<1> HIDE DEF c
<1>3. call'[w] = c
    BY <1>1 DEF Typed
<1>4. \A v \in Workers : Cutting(v)' => Cutting(v) /\ call'[v] = call[v]
    BY SnapsOwn, OwnCutters
<1>5. \A v \in Workers : Cutting(v)' => call'[v].path \notin Paths(c.man)
    BY <1>2, <1>3, <1>4 DEF Busy, Cutting
<1>6. \A i \in 1..Len(Entries(c.man)) : ~(i < c.at) /\ c.pass # "read"
    BY <1>2
<1>7. DOMAIN c.got = {}
    <2>1. DOMAIN <<>> = {}
        OBVIOUS
    <2> QED BY <1>2, <2>1
<1>8. PICK d : d = c
    OBVIOUS
<1>9. Steady(d)'
    BY <1>5, <1>6, <1>7, <1>8 DEF Steady
<1> QED
    BY <1>3, <1>8, <1>9

\* It stays so when it has validated an entry.
LEMMA ValidateSteady ==
    ASSUME Typed, NEW w \in Workers, ValidateOne(w), Reading, Snapping(w)', call'[w].calm
    PROVE  Steady(call[w])'
<1> DEFINE n == Len(Entries(call[w].man))
           e == Entries(call[w].man)[call[w].at]
<1>1. /\ SnapType(call[w]) /\ call[w].pass = "validate" /\ disk' = disk
      /\ \/ /\ Validated(call[w].man, e)
            /\ \/ /\ call[w].at < n
                  /\ call' = [call EXCEPT ![w] = Advanced(call[w], call[w].at + 1, "validate", call[w].got)]
               \/ /\ call[w].at = n
                  /\ call' = [call EXCEPT ![w] = Advanced(call[w], 1, "read", call[w].got)]
         \/ call' = [call EXCEPT ![w] = Idle]
    BY ValidateFacts
<1>2. \A a : call' = [call EXCEPT ![w] = a] => call'[w] = a
    BY DEF Typed
<1>3. call'[w] # Idle
    BY IdleKind DEF Snapping
<1>4. PICK at, pass :
          /\ Validated(call[w].man, e)
          /\ call'[w] = Advanced(call[w], at, pass, call[w].got)
          /\ \/ call[w].at < n /\ at = call[w].at + 1 /\ pass = "validate"
             \/ call[w].at = n /\ pass = "read"
    BY <1>1, <1>2, <1>3
<1>5. PICK c : c = call[w]
    OBVIOUS
<1>6. PICK d : d = Advanced(c, at, pass, c.got)
    OBVIOUS
<1>7. d.man = c.man /\ d.at = at /\ d.pass = pass /\ d.got = c.got /\ d.calm = c.calm
    BY <1>6 DEF Advanced
<1>8. SnapType(c) /\ ManifestType(c.man) /\ c.pass = "validate"
    BY <1>1, <1>5 DEF SnapType
<1>9. Steady(c)
    <2>1. Snapping(w) /\ call[w].calm
        BY <1>1, <1>4, <1>5, <1>6, <1>7 DEF SnapType, Snapping
    <2>2. Steady(call[w])
        BY <2>1 DEF Reading
    <2> QED BY <1>5, <2>2 DEF Steady, Cutting, Validated, Holds, Whole, Exists
<1>10. c.at \in Nat /\ n \in Nat
    BY <1>5, <1>8, EntriesFacts DEF SnapType
<1>11. ASSUME NEW i \in 1..Len(Entries(d.man)), d.pass = "read" \/ i < d.at
       PROVE  Validated(d.man, Entries(d.man)[i])
    <2>1. i < c.at \/ i = c.at
        BY <1>4, <1>5, <1>7, <1>8, <1>10, <1>11
    <2>2. i < c.at => Validated(c.man, Entries(c.man)[i])
        BY <1>7, <1>9, <1>11 DEF Steady
    <2>3. i = c.at => Validated(c.man, Entries(c.man)[i])
        BY <1>4, <1>5
    <2> QED BY <1>7, <2>1, <2>2, <2>3
<1>12. Steady(d)
    BY <1>7, <1>9, <1>11 DEF Steady
<1>13. Steady(d)'
    BY <1>7, <1>8, <1>12, SnapsOwn, SteadyOwn
<1>14. call'[w] = d
    BY <1>4, <1>5, <1>6
<1> QED
    BY <1>13, <1>14

\* What a read adds to what a snapshot has read.
LEMMA ReadGot ==
    ASSUME NEW c, SnapType(c), Steady(c), c.pass = "read",
           NEW e, e = Entries(c.man)[c.at], NEW p, p = PathOf(c.man, e),
           NEW got, got = Insert(c.got, e, IF Exists(p) THEN disk[p] ELSE <<>>)
    PROVE  \A x \in DOMAIN got : got[x].whole /\ got[x].data = Wanted(c.man, x)
<1>1. c.at \in 1..Len(Entries(c.man))
    BY DEF SnapType
<1>2. Validated(c.man, e)
    BY <1>1 DEF Steady
<1>3. p \in DOMAIN disk /\ disk[p].whole /\ disk[p].data = Wanted(c.man, e)
    BY <1>2, ValidatedWanted
<1>4. got[e] = disk[p] /\ \A x \in DOMAIN got : x # e => x \in DOMAIN c.got /\ got[x] = c.got[x]
    BY <1>3 DEF Insert, Exists
<1>5. \A x \in DOMAIN c.got : c.got[x].whole /\ c.got[x].data = Wanted(c.man, x)
    BY DEF Steady
<1> SUFFICES ASSUME NEW x \in DOMAIN got
             PROVE  got[x].whole /\ got[x].data = Wanted(c.man, x)
    OBVIOUS
<1>6. CASE x = e
    BY <1>3, <1>4, <1>6
<1>7. CASE x # e
    BY <1>4, <1>5, <1>7
<1> QED
    BY <1>6, <1>7

\* It stays steady when it has read one.
LEMMA ReadSteady ==
    ASSUME Typed, NEW w \in Workers, ReadOne(w), Reading, Snapping(w)', call'[w].calm
    PROVE  Steady(call[w])'
<1>1. PICK c : c = call[w]
    OBVIOUS
<1>2. PICK e : e = Entries(c.man)[c.at]
    OBVIOUS
<1>3. PICK p : p = PathOf(c.man, e)
    OBVIOUS
<1>4. PICK got : got = Insert(c.got, e, IF Exists(p) THEN disk[p] ELSE <<>>)
    OBVIOUS
<1>5. /\ SnapType(c) /\ c.pass = "read"
      /\ \/ call' = [call EXCEPT ![w] = Idle]
         \/ call' = [call EXCEPT ![w] = Advanced(c, c.at + 1, "read", got)]
    BY <1>1, <1>2, <1>3, <1>4, ReadFacts
<1>6. \A a : call' = [call EXCEPT ![w] = a] => call'[w] = a
    BY DEF Typed
<1>7. call'[w] # Idle
    BY IdleKind DEF Snapping
<1>8. PICK d : d = Advanced(c, c.at + 1, "read", got)
    OBVIOUS
<1>9. call'[w] = d
    BY <1>5, <1>6, <1>7, <1>8
<1>10. d.man = c.man /\ d.got = got /\ d.calm = c.calm
    BY <1>8 DEF Advanced
<1>11. Steady(c)
    <2>1. Snapping(w) /\ call[w].calm
        BY <1>1, <1>5, <1>9, <1>10 DEF SnapType, Snapping
    <2>2. Steady(call[w])
        BY <2>1 DEF Reading
    <2> QED BY <1>1, <2>2 DEF Steady, Cutting, Validated, Holds, Whole, Exists
<1>12. \A x \in DOMAIN got : got[x].whole /\ got[x].data = Wanted(c.man, x)
    <2>1. SnapType(c) /\ c.pass = "read"
        BY <1>5
    <2> QED BY <1>2, <1>3, <1>4, <1>11, <2>1, ReadGot
<1>13. \A i \in 1..Len(Entries(c.man)) : Validated(c.man, Entries(c.man)[i])
    BY <1>5, <1>11 DEF Steady
<1>14. Steady(d)
    BY <1>10, <1>11, <1>12, <1>13 DEF Steady
<1>15. Steady(d)'
    BY <1>5, <1>10, <1>14, SnapsOwn, SteadyOwn DEF SnapType
<1> QED
    BY <1>9, <1>15

\* A snapshot that nobody disturbs stays steady.
LEMMA ReadingStep ==
    ASSUME Typed, [Next]_vars, Reading
    PROVE  Reading'
<1> SUFFICES ASSUME NEW v \in Workers, Snapping(v)', call'[v].calm
             PROVE  Steady(call[v])'
    BY DEF Reading
<1>1. PICK c : c = call[v]
    OBVIOUS
<1>2. Snapping(v) /\ c.calm => ManifestType(c.man) /\ Steady(c)
    <2> SUFFICES ASSUME Snapping(v), c.calm
                 PROVE  ManifestType(c.man) /\ Steady(c)
        OBVIOUS
    <2>1. ManifestType(c.man)
        BY <1>1, SnapCall DEF Snapping
    <2>2. Steady(call[v])
        BY <1>1 DEF Reading
    <2> QED BY <1>1, <2>1, <2>2 DEF Steady, Cutting, Validated, Holds, Whole, Exists
<1>3. CASE UNCHANGED vars
    <2>1. UNCHANGED <<disk, call>>
        BY <1>3 DEF vars, disk_vars
    <2>2. Steady(call[v])
        BY <2>1 DEF Reading, Snapping
    <2> QED BY <2>1, <2>2 DEF Steady, Cutting, Validated, Holds, Whole, Exists
<1>4. ASSUME NEW w \in Workers, OwnStep(w), call'[v] = call[v]
      PROVE  Steady(call[v])'
    <2>1. Steady(c)'
        BY <1>1, <1>2, <1>4, SteadyOwn DEF Snapping
    <2> QED BY <1>1, <1>4, <2>1
<1>5. ASSUME NEW w \in Workers, OwnStep(w), Begun(w)
      PROVE  Steady(call[v])'
    <2>1. call'[v] = call[v]
        BY <1>5, IdleKind DEF OwnStep, Begun, Snapping
    <2> QED BY <1>4, <1>5, <2>1
<1>6. ASSUME NEW w \in Workers, OwnStep(w), snapshot(w) \/ ValidateOne(w) \/ ReadOne(w)
      PROVE  Steady(call[v])'
    <2>1. CASE v # w
        BY <1>4, <1>6, <2>1 DEF OwnStep
    <2>2. CASE v = w
        BY <1>6, <2>2, SnapshotSteady, ValidateSteady, ReadSteady
    <2> QED BY <2>1, <2>2
<1>7. ASSUME NEW w \in Workers, Truncate(w) \/ Fill(w)
      PROVE  Steady(call[v])'
    <2>1. v # w
        <3>1. ~Snapping(w)'
            <4>1. Truncate(w) => Cutting(w)'
                BY TruncateCutters
            <4>2. Fill(w) => call'[w] = Idle
                BY FillFacts
            <4> QED BY <1>7, <4>1, <4>2, IdleKind DEF Snapping, Cutting
        <3> QED BY <3>1
    <2>2. call'[v] = IF call[v].op = "snapshot" /\ call[w].path \in Paths(call[v].man)
                     THEN Uncalm(call[v]) ELSE call[v]
        BY <1>7, <2>1, TruncateFacts, FillFacts
    <2>3. ~Uncalm(call[v]).calm
        BY DEF Uncalm
    <2>4. call'[v] = call[v] /\ Snapping(v) /\ call[w].path \notin Paths(call[v].man)
        BY <2>2, <2>3 DEF Snapping
    <2>5. Steady(c)'
        BY <1>1, <1>2, <1>7, <2>4, SteadyWrite
    <2> QED BY <1>1, <2>4, <2>5
<1> QED
    BY <1>3, <1>5, <1>6, <1>7, Steps

\* So a snapshot taken in calm is of the sealed files.
LEMMA SnapshotIsSealedStep ==
    ASSUME Typed, [Next]_vars, Reading, SnapshotIsSealed
    PROVE  SnapshotIsSealed'
<1> DEFINE Good(a) == a.res = "snapshot" /\ a.calm =>
               \A e \in DOMAIN a.got : a.got[e].whole /\ a.got[e].data = Wanted(a.man, e)
<1>1. SnapshotIsSealed <=> \A v \in Workers : Good(answer[v])
    BY DEF SnapshotIsSealed, Wanted
<1>2. SnapshotIsSealed' <=> \A v \in Workers : Good(answer'[v])
    BY DEF SnapshotIsSealed, Wanted
<1> SUFFICES ASSUME NEW v \in Workers
             PROVE  Good(answer'[v])
    BY <1>2
<1>3. Good(answer[v])
    BY <1>1
<1>4. \A a : a.res # "snapshot" => Good(a)
    OBVIOUS
<1>5. CASE answer'[v] = answer[v] \/ answer'[v].res # "snapshot"
    <2> HIDE DEF Good
    <2> QED BY <1>3, <1>4, <1>5
<1>6. ASSUME NEW w \in Workers, ReadOne(w), v = w, answer'[v].res = "snapshot", answer'[v] # answer[v]
      PROVE  Good(answer'[v])
    <2>1. PICK c : c = call[w]
        OBVIOUS
    <2>2. PICK e : e = Entries(c.man)[c.at]
        OBVIOUS
    <2>3. PICK p : p = PathOf(c.man, e)
        OBVIOUS
    <2>4. PICK got : got = Insert(c.got, e, IF Exists(p) THEN disk[p] ELSE <<>>)
        OBVIOUS
    <2>5. PICK a : a = [res |-> "snapshot", man |-> c.man, got |-> got, calm |-> c.calm]
        OBVIOUS
    <2>6. /\ SnapType(c) /\ c.pass = "read"
          /\ \/ answer' = [answer EXCEPT ![w] = [res |-> "missing"]]
             \/ answer' = answer
             \/ answer' = [answer EXCEPT ![w] = a]
        BY <1>6, <2>1, <2>2, <2>3, <2>4, <2>5, ReadFacts
    <2>7. \A b : answer' = [answer EXCEPT ![w] = b] => answer'[w] = b
        BY DEF Typed
    <2>8. answer'[v] = a
        BY <1>6, <2>6, <2>7
    <2>9. a.man = c.man /\ a.got = got /\ a.calm = c.calm
        BY <2>5
    <2>10. ASSUME c.calm
           PROVE  \A x \in DOMAIN got : got[x].whole /\ got[x].data = Wanted(c.man, x)
        <3>1. Steady(call[w])
            BY <2>1, <2>6, <2>10 DEF Reading, Snapping, SnapType
        <3>2. Steady(c)
            BY <2>1, <3>1 DEF Steady, Cutting, Validated, Holds, Whole, Exists
        <3> QED BY <2>2, <2>3, <2>4, <2>6, <3>2, ReadGot
    <2> QED BY <2>8, <2>9, <2>10
<1> HIDE DEF Good
<1>7. ASSUME NEW w \in Workers, OwnStep(w), Plain(w)
      PROVE  Good(answer'[v])
    BY <1>5, <1>7 DEF OwnStep, Plain
<1>8. ASSUME NEW w \in Workers, OwnStep(w), snapshot(w) \/ ValidateOne(w)
      PROVE  Good(answer'[v])
    <2>1. CASE snapshot(w)
        BY <1>5, <2>1 DEF snapshot
    <2>2. CASE ValidateOne(w)
        <3>1. \A b : answer' = [answer EXCEPT ![w] = b] =>
                  answer'[v] = IF v = w THEN b ELSE answer[v]
            BY DEF Typed
        <3>2. \A x, y, z : [res |-> "invalid", path |-> x, expected |-> y, calm |-> z].res # "snapshot"
            OBVIOUS
        <3>3. \/ answer' = answer
              \/ \E x, y, z : answer' = [answer EXCEPT ![w] = [res |-> "invalid", path |-> x, expected |-> y, calm |-> z]]
            BY <2>2, ValidateFacts
        <3> QED BY <1>5, <3>1, <3>2, <3>3
    <2> QED BY <1>8, <2>1, <2>2
<1>9. ASSUME NEW w \in Workers, OwnStep(w), ReadOne(w)
      PROVE  Good(answer'[v])
    BY <1>5, <1>6, <1>9 DEF OwnStep
<1>10. ASSUME NEW w \in Workers, Truncate(w) \/ Fill(w)
       PROVE  Good(answer'[v])
    <2>1. Truncate(w) => answer' = answer
        BY TruncateFacts
    <2>2. Fill(w) => answer' = [answer EXCEPT ![w] = [res |-> "ok"]]
        BY FillFacts
    <2>3. answer' = [answer EXCEPT ![w] = [res |-> "ok"]] => answer'[v] = answer[v] \/ answer'[v].res # "snapshot"
        BY DEF Typed
    <2> QED BY <1>5, <1>10, <2>1, <2>2, <2>3
<1>11. CASE UNCHANGED vars
    BY <1>5, <1>11 DEF vars
<1> QED
    BY <1>7, <1>8, <1>9, <1>10, <1>11, Steps

-----------------------------------------------------------------------------
(* Tables that are found changed.                                          *)

\* A shared table that was found changed has a row that was not sealed.
Found(a) ==
    a.res = "invalid" /\ IsLut(a.path) /\ a.calm =>
        \E x : x \notin ToSet(a.expected) /\ Below(a.path, {x})

\* Without deaths all that were found changed have gained a row.
Grown == crashes = 0 => \A w \in Workers : Found(answer[w])

\* While nothing raced, a row that a changed table gained stays in it.
LEMMA FoundStep ==
    ASSUME Typed, [Next]_vars, ~raced', NEW a, Found(a)
    PROVE  Found(a)'
<1> SUFFICES ASSUME a.res = "invalid", IsLut(a.path), a.calm
             PROVE  \E x : x \notin ToSet(a.expected) /\ Below(a.path, {x})'
    BY DEF Found, IsLut
<1>1. PICK x : x \notin ToSet(a.expected) /\ Below(a.path, {x})
    BY DEF Found
<1>2. PICK p, R : p = a.path /\ R = {x}
    OBVIOUS
<1>3. IsLut(p) /\ Below(p, R)
    BY <1>1, <1>2
<1>4. Below(p, R)'
    BY <1>3, BelowStep
<1> QED
    BY <1>1, <1>2, <1>4

\* The entry at which an undisturbed snapshot finds a shared table changed.
LEMMA FoundChanged ==
    ASSUME Typed, Single, AllSealed, Reading, crashes = 0, NEW w \in Workers, Snapping(w),
           call[w].calm, NEW e, e = Entries(call[w].man)[call[w].at],
           IsLut(PathOf(call[w].man, e)), ~Validated(call[w].man, e)
    PROVE  /\ PathOf(call[w].man, e) = e
           /\ \E x : x \notin ToSet(Expected(call[w].man, e)) /\ Below(e, {x})
<1>1. PICK m : m = call[w].man
    OBVIOUS
<1>2. ManifestType(m) /\ call[w].at \in 1..Len(Entries(m))
    BY <1>1, SnapCall DEF Snapping, SnapType
<1>3. e \in ({"object"} \X DOMAIN m.objects) \cup ({"table"} \X DOMAIN m.tables)
    <2>1. e \in Range(Entries(m))
        BY <1>1, <1>2, EntriesFacts DEF Range
    <2> QED BY <1>2, <2>1, EntriesFacts
<1>4. e[1] # "object"
    BY <1>1 DEF PathOf, IsLut
<1>5. PICK n \in DOMAIN m.tables : e = <<"table", n>>
    BY <1>3, <1>4
<1>6. PathOf(m, e) = e /\ Expected(m, e) = m.tables[n] /\ n[1] = "ns" /\ IsLut(e)
    BY <1>1, <1>4, <1>5 DEF PathOf, Expected, IsLut
<1>7. Canonical(m.tables[n]) /\ Below(e, ToSet(m.tables[n]))
    <2>1. Known(m)
        BY <1>1 DEF Known
    <2> QED BY <1>5, <1>6, <2>1 DEF AllSealed, Sealed
<1>8. \A v \in Workers : Cutting(v) => call[v].path # e
    <2>1. e \in Paths(m)
        BY <1>1, <1>2, <1>6, EntryPath
    <2>2. Steady(call[w])
        BY DEF Reading
    <2> QED BY <1>1, <2>1, <2>2 DEF Steady
<1>9. e \in DOMAIN disk /\ disk[e].whole
    BY <1>6, <1>7, <1>8 DEF Below, Single
<1>10. Canonical(disk[e].data) /\ ToSet(m.tables[n]) \subseteq ToSet(disk[e].data)
    BY <1>6, <1>7, <1>9 DEF Typed, FileType, Below
<1>11. disk[e].data # m.tables[n]
    BY <1>1, <1>4, <1>6, <1>9 DEF Validated, Holds, Whole, Exists
<1>12. ToSet(disk[e].data) # ToSet(m.tables[n])
    BY <1>7, <1>10, <1>11, CanonicalUnique
<1>13. PICK x : x \in ToSet(disk[e].data) /\ x \notin ToSet(m.tables[n])
    BY <1>10, <1>12
<1>14. Below(e, {x})
    BY <1>8, <1>9, <1>13 DEF Below
<1> QED
    BY <1>1, <1>6, <1>13, <1>14

\* While nothing raced, every table found changed has gained a row.
LEMMA GrownStep ==
    ASSUME Typed, [Next]_vars, ~raced', Single, AllSealed, Reading, Grown
    PROVE  Grown'
<1>1. crashes' = crashes \/ crashes' = crashes + 1
    <2>1. UNCHANGED vars => crashes' = crashes
        BY DEF vars, disk_vars
    <2>2. \A w \in Workers : OwnStep(w) => crashes' = crashes \/ crashes' = crashes + 1
        BY DEF OwnStep
    <2>3. \A w \in Workers : Truncate(w) \/ Fill(w) => crashes' = crashes
        BY TruncateFacts, FillFacts
    <2> QED BY <2>1, <2>2, <2>3, Steps
<1> SUFFICES ASSUME crashes' = 0, NEW v \in Workers
             PROVE  Found(answer[v])'
    BY DEF Grown
<1>2. crashes = 0
    BY <1>1 DEF Typed
<1>3. PICK a : a = answer'[v]
    OBVIOUS
<1>4. ASSUME answer'[v] = answer[v]
      PROVE  Found(a)'
    <2>1. Found(answer[v])
        BY <1>2 DEF Grown
    <2>2. Found(a)
        BY <1>3, <1>4, <2>1 DEF Found, Below, Cutting, IsLut
    <2> QED BY <2>2, FoundStep
<1>5. ASSUME answer'[v].res # "invalid"
      PROVE  Found(a)'
    BY <1>3, <1>5 DEF Found
<1>6. ASSUME NEW w \in Workers, ValidateOne(w), v = w
      PROVE  Found(a)'
    <2>1. PICK m, e : m = call[w].man /\ e = Entries(m)[call[w].at]
        OBVIOUS
    <2>2. PICK b : b = [res |-> "invalid", path |-> PathOf(m, e), expected |-> Expected(m, e), calm |-> call[w].calm]
        OBVIOUS
    <2>3. SnapType(call[w]) /\ (answer' = answer \/ (~Validated(m, e) /\ answer' = [answer EXCEPT ![w] = b]))
        BY <1>6, <2>1, <2>2, ValidateFacts
    <2>4. CASE answer' = answer
        BY <1>4, <2>4
    <2>5. CASE ~Validated(m, e) /\ answer' = [answer EXCEPT ![w] = b]
        <3>1. a = b
            BY <1>3, <1>6, <2>5 DEF Typed
        <3>2. b.path = PathOf(m, e) /\ b.expected = Expected(m, e) /\ b.calm = call[w].calm
            BY <2>2
        <3>3. Snapping(w)
            BY <2>3 DEF Snapping, SnapType
        <3>4. ASSUME IsLut(b.path), b.calm
              PROVE  b.path = e /\ \E x : x \notin ToSet(b.expected) /\ Below(e, {x})
            <4>1. IsLut(PathOf(m, e)) /\ call[w].calm
                BY <3>2, <3>4
            <4> QED BY <1>2, <2>1, <2>5, <3>2, <3>3, <4>1, FoundChanged
        <3>5. Found(b)
            BY <3>4 DEF Found
        <3> QED BY <3>1, <3>5, FoundStep
    <2> QED BY <2>3, <2>4, <2>5
<1>7. ASSUME NEW w \in Workers, OwnStep(w), Plain(w)
      PROVE  Found(a)'
    BY <1>4, <1>5, <1>7 DEF OwnStep, Plain
<1>8. ASSUME NEW w \in Workers, OwnStep(w), snapshot(w) \/ ValidateOne(w) \/ ReadOne(w)
      PROVE  Found(a)'
    <2>1. CASE snapshot(w)
        BY <1>4, <2>1 DEF snapshot
    <2>2. CASE ValidateOne(w)
        BY <1>4, <1>6, <1>8, <2>2 DEF OwnStep
    <2>3. CASE ReadOne(w)
        <3>1. \A b : answer' = [answer EXCEPT ![w] = b] =>
                  answer'[v] = IF v = w THEN b ELSE answer[v]
            BY DEF Typed
        <3>2. \A x, y, z : [res |-> "snapshot", man |-> x, got |-> y, calm |-> z].res # "invalid"
            OBVIOUS
        <3>3. [res |-> "missing"].res # "invalid"
            OBVIOUS
        <3>4. \/ answer' = answer
              \/ answer' = [answer EXCEPT ![w] = [res |-> "missing"]]
              \/ \E x, y, z : answer' = [answer EXCEPT ![w] = [res |-> "snapshot", man |-> x, got |-> y, calm |-> z]]
            BY <2>3, ReadFacts
        <3> QED BY <1>4, <1>5, <3>1, <3>2, <3>3, <3>4
    <2> QED BY <1>8, <2>1, <2>2, <2>3
<1>9. ASSUME NEW w \in Workers, Truncate(w) \/ Fill(w)
      PROVE  Found(a)'
    <2>1. Truncate(w) => answer' = answer
        BY TruncateFacts
    <2>2. Fill(w) => answer' = [answer EXCEPT ![w] = [res |-> "ok"]]
        BY FillFacts
    <2>3. answer' = [answer EXCEPT ![w] = [res |-> "ok"]] => answer'[v] = answer[v] \/ answer'[v].res # "invalid"
        BY DEF Typed
    <2> QED BY <1>4, <1>5, <1>9, <2>1, <2>2, <2>3
<1>10. ASSUME UNCHANGED vars
       PROVE  Found(a)'
    BY <1>4, <1>10 DEF vars
<1> QED
    <2>1. Found(a)'
        BY <1>7, <1>8, <1>9, <1>10, Steps
    <2> QED BY <1>3, <2>1

-----------------------------------------------------------------------------
(* What follows.                                                           *)

\* What is held is restored.
LEMMA HeldRestores ==
    ASSUME Typed, Single, Held, ~raced
    PROVE  RestoresMerged
<1> SUFFICES ASSUME NEW r \in merged
             PROVE  LET p == <<"table", lut_name(r[1])>>
                        busy == \E w \in Workers : call[w].op = "write" /\ call[w].path = p /\ call[w].cut
                    IN  /\ Whole(p) => r[3] \in materialize_lut({r[2]}, lut_name(r[1]))
                        /\ ~Whole(p) => busy \/ crashes > 0
    BY DEF RestoresMerged
<1>1. PICK p : p = LutPath(r[1])
    OBVIOUS
<1>2. Below(p, {<<r[2], r[3]>>}) /\ IsLut(p)
    BY <1>1, LutPathLut DEF Held
<1>3. ASSUME ~Whole(p)
      PROVE  (\E w \in Workers : Cutting(w) /\ call[w].path = p) \/ crashes > 0
    BY <1>2, <1>3 DEF Whole, Exists, Below, Single
<1>4. ASSUME Whole(p)
      PROVE  r[3] \in materialize_lut({r[2]}, lut_name(r[1]))
    <2>1. <<r[2], r[3]>> \in ToSet(disk[p].data)
        BY <1>2, <1>4 DEF Whole, Below
    <2>2. read_table(p) = disk[p].data
        BY <1>4 DEF read_table, Whole
    <2>3. r[3] \in candidates(ToSet(disk[p].data), {r[2]})
        <3> DEFINE q == <<r[2], r[3]>>
        <3>1. q \in ToSet(disk[p].data) /\ q[1] = r[2] /\ q[2] = r[3]
            BY <2>1
        <3> HIDE DEF q
        <3>2. r[3] \in fiber(ToSet(disk[p].data), r[2])
            BY <3>1 DEF fiber
        <3> QED BY <3>2 DEF candidates
    <2> QED BY <1>1, <2>2, <2>3 DEF materialize_lut, lut_rows, LutPath
<1> QED
    BY <1>1, <1>3, <1>4 DEF LutPath, Cutting

\* So a sealed table is valid until it grows.
LEMMA GrownSealed ==
    ASSUME Typed, Grown
    PROVE  SealedUntilGrown
<1> SUFFICES ASSUME crashes = 0, NEW w \in Workers, answer[w].res = "invalid", IsLut(answer[w].path),
                    answer[w].calm, Whole(answer[w].path)
             PROVE  ToSet(answer[w].expected) # ToSet(disk[answer[w].path].data)
    BY DEF SealedUntilGrown
<1>1. PICK x : x \notin ToSet(answer[w].expected) /\ Below(answer[w].path, {x})
    BY DEF Grown, Found
<1>2. x \in ToSet(disk[answer[w].path].data)
    BY <1>1 DEF Below, Whole
<1> QED
    BY <1>1, <1>2

-----------------------------------------------------------------------------
(* The invariant.  What holds however writers race, and what holds until     *)
(* one of them has overwritten a change that it had not read.                *)

CacheInv ==
    /\ Typed /\ Reading /\ SnapshotIsSealed
    /\ ~raced => Single /\ Held /\ AllSealed /\ Grown

\* The invariant at the start.
LEMMA InitCache == Init => CacheInv
<1> SUFFICES ASSUME Init
             PROVE  CacheInv
    OBVIOUS
<1>1. Typed
    BY InitTyped
<1>2. \A w \in Workers : call[w] = Idle /\ man[w] = NoManifest /\ answer[w] = NoAnswer
    BY DEF Init
<1>3. \A w \in Workers : ~Cutting(w) /\ ~Snapping(w) /\ ~Writing(w)
    BY <1>2, IdleKind DEF Cutting, Snapping, Writing
<1>4. DOMAIN disk = {}
    <2>1. DOMAIN <<>> = {}
        OBVIOUS
    <2> QED BY <2>1 DEF Init
<1>5. NoAnswer.res = "none"
    BY DEF NoAnswer
<1>6. Reading
    BY <1>3 DEF Reading
<1>7. SnapshotIsSealed
    BY <1>2, <1>5 DEF SnapshotIsSealed
<1>8. Single
    BY <1>3, <1>4 DEF Single
<1>9. Held
    BY DEF Init, Held
<1>10. AllSealed
    <2>1. ASSUME NEW m, Known(m)
          PROVE  m = NoManifest
        BY <1>2, <1>3, <1>4, <2>1 DEF Known, Whole, Exists
    <2> QED BY <2>1, NoManifestSealed DEF AllSealed
<1>11. Grown
    BY <1>2, <1>5 DEF Grown, Found
<1> QED
    BY <1>1, <1>6, <1>7, <1>8, <1>9, <1>10, <1>11 DEF CacheInv

\* Every step keeps it.
LEMMA NextCache == CacheInv /\ [Next]_vars => CacheInv'
<1> SUFFICES ASSUME CacheInv, [Next]_vars
             PROVE  CacheInv'
    OBVIOUS
<1>1. Typed /\ Reading /\ SnapshotIsSealed
    BY DEF CacheInv
<1>2. Typed' /\ Reading' /\ SnapshotIsSealed'
    BY <1>1, NextTyped, ReadingStep, SnapshotIsSealedStep
<1>3. ASSUME ~raced'
      PROVE  Single' /\ Held' /\ AllSealed' /\ Grown'
    <2>1. ~raced
        BY <1>1, <1>3, Races
    <2>2. Single /\ Held /\ AllSealed /\ Grown
        BY <2>1 DEF CacheInv
    <2> QED BY <1>1, <1>3, <2>2, SingleStep, HeldStep, AllSealedStep, GrownStep
<1> QED
    BY <1>2, <1>3 DEF CacheInv

\* The inductive invariant of the extended cache.
LEMMA CacheInvariant == Spec => []CacheInv
BY InitCache, NextCache, PTL DEF Spec

\* A snapshot that is answered Ok is the one that was sealed, file by file, unless one
\* of its files was written while it was read, for any number of workers (snapshot).
THEOREM CacheSnapshotIsSealed == Spec => []SnapshotIsSealed
<1>1. CacheInv => SnapshotIsSealed
    BY DEF CacheInv
<1> QED
    BY <1>1, CacheInvariant, PTL

\* What merge_lut answered Ok for comes back from the shared table, whatever died since,
\* as long as no writer overwrote a change that it had not read (materialize_lut).
THEOREM CacheRestoresMerged == Spec => []RestoresMerged
<1>1. CacheInv => RestoresMerged
    BY HeldRestores DEF CacheInv, RestoresMerged
<1> QED
    BY <1>1, CacheInvariant, PTL

\* A sealed table that validate finds changed has gained a row: merges of what it has
\* already leave its bytes as they were (seal, validate).
THEOREM CacheSealedUntilGrown == Spec => []SealedUntilGrown
<1>1. CacheInv => SealedUntilGrown
    BY GrownSealed DEF CacheInv, SealedUntilGrown
<1> QED
    BY <1>1, CacheInvariant, PTL
=============================================================================
